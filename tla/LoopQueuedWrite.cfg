\* A short write to a socket that waits in the low-priority queue.
CONSTANTS
  Blocks = {b1, b2, b3}
  Contexts = {c1}
  NULL = NULL
  MaxLowPrio = 1
  Inputs = {"connect", "R", "W", "low_prio", "write", "write_queued"}
  Callers = {"main", "on_data"}
SPECIFICATION Spec
INVARIANT LowPrioStateNamesTheList
