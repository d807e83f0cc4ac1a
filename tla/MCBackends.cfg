\* Each backend with a poll and a timer, made, changed, moved, stopped and
\* freed by handlers while events of theirs are queued.
CONSTANTS
  Polls = {p1}
  NULL = NULL
  NR = 2
  MAX_DEAD = 2
  Inputs = {}
  Builds = {"libuv", "asio", "gcd"}
SPECIFICATION Spec
INVARIANTS LibuvFreesPolls AsioWaitsForEach GcdSourcesBalance
PROPERTIES KeepsContract
