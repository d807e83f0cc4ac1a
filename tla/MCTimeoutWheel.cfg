\* Timers of 1 to 3 ticks and of 1 to 3 minutes on a wheel of 4 ticks; time for
\* two turns of the slow wheel.
CONSTANTS
  Sockets = {s1, s2}
  NoSocket = NoSocket
  Wheel = 4
  Never = 5
  Minute = 2
  Seconds = {1, 4, 5, 12}
  Minutes = {1, 3}
  MaxTick = 18
SPECIFICATION Spec
INVARIANTS NoneLeftBehind
PROPERTIES KeepsDeadlines
