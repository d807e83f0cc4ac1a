--------------------------------- MODULE MCQuic ---------------------------------
(* One context with both engines, two connections and a stream.                  *)
EXTENDS Quic

CONSTANTS c1, c2

Packets == (c1 :> 2) @@ (c2 :> 1)
=============================================================================
