\* One low-priority socket per iteration, three sockets that ask for one: the
\* queue fills, is resumed, and its members are closed, adopted and written to
\* by handlers.
CONSTANTS
  Blocks = {b1, b2, b3}
  Contexts = {c1}
  NULL = NULL
  MaxLowPrio = 1
  Inputs = {"connect", "R", "W", "low_prio", "close", "adopt", "adopt_queued", "write", "write2"}
  Callers = {"main", "on_data"}
SPECIFICATION Spec
SYMMETRY BlockSymmetry
INVARIANTS TypeOK NoSocketLost ReadableArmed
PROPERTIES ListContract
