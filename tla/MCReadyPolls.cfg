\* Both builds: two descriptors of the application beside the wakeup, and a
\* block to move a poll to.
CONSTANTS
  Polls = {p1, p2, p3}
  Ids = {d1, d2, wake}
  NULL = NULL
  Async = wake
  Backends = {"epoll", "kqueue"}
  MaxReady = 3
  Inputs = {"timer", "fallthrough_timer", "wakeup"}
  Callers = {"main", "handler"}
SPECIFICATION FairSpec
INVARIANTS NoStaleAddress NumPollsCounted
PROPERTIES DeliversPending WakeupSeen
