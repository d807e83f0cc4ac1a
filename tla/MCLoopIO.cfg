\* Reads, writes and half-closes of three sockets whose handlers write, shut
\* down, close and adopt each other.
CONSTANTS
  Blocks = {b1, b2, b3}
  Contexts = {c1}
  NULL = NULL
  MaxLowPrio = 1
  Inputs = {"connect", "R", "W", "E", "close", "adopt", "write", "shutdown"}
  Callers = {"main", "on_open", "on_writable", "on_data", "on_end"}
SPECIFICATION Spec
SYMMETRY BlockSymmetry
INVARIANTS OneOpenOneClose WritableArmed ReadableArmed
