----------------------------- MODULE MCTimeoutWheel -----------------------------
(* A small wheel for TLC: four ticks to a turn, two to a minute. *)
EXTENDS TimeoutWheel
=============================================================================
