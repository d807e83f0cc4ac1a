\* Timeout sweeps whose handlers connect, close, adopt and re-arm timers.
CONSTANTS
  Blocks = {b1, b2, b3}
  Contexts = {c1, c2}
  NULL = NULL
  MaxLowPrio = 1
  Inputs = {"sweep", "connect", "W", "close", "adopt", "timeout", "long_timeout"}
  Callers = {"main", "on_timeout", "on_close"}
SPECIFICATION Spec
SYMMETRY BlockSymmetry
INVARIANTS ListsWellFormed NoDangling NoMissedTimeout
PROPERTIES NoEventAfterClose
