\* An application that writes on a socket once its last message is known to
\* have arrived, as server or as client; see MayWrite and MayConnect.
SPECIFICATION Spec
CONSTANTS
  Sockets = {s1, s2}
  Files = 1
  NumBuffers = 2
  MaxReads = 1
  MaxMessages = 2
  Inputs = {"timers"}
INVARIANTS BuffersConserved OwnSends SlotsOwned
PROPERTY Reaped
CHECK_DEADLOCK FALSE
