-------------------------------- MODULE MCLoop --------------------------------
(* Small instances of Loop for TLC. *)
EXTENDS Loop, TLC

BlockSymmetry == Permutations(Blocks)
=============================================================================
