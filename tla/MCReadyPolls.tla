------------------------------ MODULE MCReadyPolls ------------------------------
(* A small instance of ReadyPolls for TLC. *)
EXTENDS ReadyPolls
=============================================================================
