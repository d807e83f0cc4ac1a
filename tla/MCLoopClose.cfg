\* Everything that closes: the accept loop with an on_pre_open that may export
\* the client, handlers that close the listen socket or its whole context in the
\* middle of it, failed connects, and on_close handlers that connect again.
CONSTANTS
  Blocks = {b1, b2, b3}
  Contexts = {c1}
  NULL = NULL
  MaxLowPrio = 1
  Inputs = {"listen", "connect", "R", "E", "pre_open", "close", "close_listen", "close_connecting", "context_close", "user"}
  Callers = {"main", "on_pre_open", "on_open", "on_data", "on_close", "callback"}
SPECIFICATION FairSpec
INVARIANTS ContextCloseClosesAll
PROPERTIES ClosedIsFreed
