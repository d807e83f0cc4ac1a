\* Two SSL sockets whose handlers write to, shut down and close each other, and
\* themselves, in the middle of handshakes, blocked writes and shared records.
CONSTANTS
  Sockets = {s1, s2}
  NULL = NULL
  Windows <- SomeWindows
  Full = 2
  Inputs = {"write", "shutdown", "close"}
SPECIFICATION Spec
SYMMETRY SocketSymmetry
INVARIANTS OwnRecords NoInputSkipped RetryArmed SslAlive
PROPERTIES SilentAfterClose
