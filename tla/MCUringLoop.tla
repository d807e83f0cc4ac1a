------------------------------ MODULE MCUringLoop ------------------------------
(* Two connections that share one direct descriptor, and two receive buffers.    *)
EXTENDS UringLoop
=============================================================================
