\* One context, as a program has; the engine decodes a stream's headers right
\* before it reads them.
SPECIFICATION Spec
CONSTANTS
  Contexts = {x1}
  c1 = c1
  c2 = c2
  Conns = {c1, c2}
  Streams = {s1}
  MaxIov = 2
  PoolSize = 2
  MaxPackets <- Packets
  MaxData = 1
  Inputs = {}
INVARIANTS PacketsOnce StreamOrder
PROPERTY SentInTheEnd
CHECK_DEADLOCK FALSE
