------------------------------ MODULE TimeoutWheel ------------------------------
(***************************************************************************)
(* The timers of the sockets of one context: a tick every four seconds, and *)
(* two bytes in each socket that are compared, for equality, with the tick  *)
(* modulo the wheel.  Handlers arm the timers of any socket, also in the    *)
(* middle of a sweep.  Which sockets a sweep visits while handlers unlink   *)
(* and link them is the subject of Loop: here all of them stay linked.      *)
(***************************************************************************)
EXTENDS Integers

CONSTANTS
  Sockets, NoSocket,
  Wheel,    \* 240
  Never,    \* 255
  Minute,   \* 15, the ticks of a minute
  Seconds,  \* arguments of us_socket_timeout
  Minutes,  \* arguments of us_socket_long_timeout
  MaxTick   \* bound of global_tick, below 2^32

\* us_socket_timeout rounds up to ticks.
Ticks(seconds) == (seconds + 3) \div 4

ASSUME WheelAssumption ==
  /\ Wheel \in Nat \ {0} /\ Minute \in Nat \ {0}
  /\ Never \in Nat /\ Never >= Wheel
  /\ MaxTick \in Nat
  /\ NoSocket \notin Sockets
\* A timer is for less than a turn of its wheel: up to 956 seconds, 239 minutes.
ASSUME TurnAssumption ==
  /\ \A n \in Seconds : n \in Nat \ {0} /\ Ticks(n) < Wheel
  /\ \A n \in Minutes : n \in Nat \ {0} /\ n < Wheel

VARIABLES
  global_tick,
  timeout, long_timeout,  \* the two bytes of each socket
  unvisited,              \* what the running sweep has still to look at
  visiting                \* the socket whose long timer it looks at next

vars == <<global_tick, timeout, long_timeout, unvisited, visiting>>

timestamp      == global_tick % Wheel
long_timestamp == (global_tick \div Minute) % Wheel

Init ==
  /\ global_tick = 0
  /\ timeout = [s \in Sockets |-> Never] /\ long_timeout = [s \in Sockets |-> Never]
  /\ unvisited = {} /\ visiting = NoSocket

\* Mutant of SetTimeout: seconds are rounded down.
SetTimeoutShort(s, seconds) ==
  /\ timeout' = [timeout EXCEPT ![s] =
       IF seconds = 0 THEN Never ELSE (timestamp + (seconds \div 4)) % Wheel]
  /\ UNCHANGED <<global_tick, long_timeout, unvisited, visiting>>

SetTimeout(s, seconds) ==
  /\ timeout' = [timeout EXCEPT ![s] =
       IF seconds = 0 THEN Never ELSE (timestamp + Ticks(seconds)) % Wheel]
  /\ UNCHANGED <<global_tick, long_timeout, unvisited, visiting>>

SetLongTimeout(s, minutes) ==
  /\ long_timeout' = [long_timeout EXCEPT ![s] =
       IF minutes = 0 THEN Never ELSE (long_timestamp + minutes) % Wheel]
  /\ UNCHANGED <<global_tick, timeout, unvisited, visiting>>

SweepBegin ==
  /\ unvisited = {} /\ visiting = NoSocket /\ global_tick < MaxTick
  /\ global_tick' = global_tick + 1
  /\ unvisited' = Sockets
  /\ UNCHANGED <<timeout, long_timeout, visiting>>

\* Neither byte matches: on to the next socket.
SweepPass(s) ==
  /\ s \in unvisited /\ visiting = NoSocket
  /\ timeout[s] # timestamp /\ long_timeout[s] # long_timestamp
  /\ unvisited' = unvisited \ {s}
  /\ UNCHANGED <<global_tick, timeout, long_timeout, visiting>>

\* Mutant of SweepShort: the byte is left as it is when on_timeout is called.
SweepShortKeeps(s) ==
  /\ s \in unvisited /\ visiting = NoSocket
  /\ timeout[s] = timestamp \/ long_timeout[s] = long_timestamp
  /\ unvisited' = unvisited \ {s} /\ visiting' = s
  /\ UNCHANGED <<global_tick, timeout, long_timeout>>

SweepShort(s) ==
  /\ s \in unvisited /\ visiting = NoSocket
  /\ timeout[s] = timestamp \/ long_timeout[s] = long_timestamp
  /\ timeout' = [timeout EXCEPT ![s] = IF @ = timestamp THEN Never ELSE @]
  /\ unvisited' = unvisited \ {s} /\ visiting' = s
  /\ UNCHANGED <<global_tick, long_timeout>>

\* on_timeout may have armed or disarmed the long timer.
SweepLong ==
  /\ visiting # NoSocket
  /\ long_timeout' = [long_timeout EXCEPT ![visiting] = IF @ = long_timestamp THEN Never ELSE @]
  /\ visiting' = NoSocket
  /\ UNCHANGED <<global_tick, timeout, unvisited>>

Next ==
  \/ \E s \in Sockets :
       \/ \E n \in Seconds \cup {0} : SetTimeout(s, n)
       \/ \E n \in Minutes \cup {0} : SetLongTimeout(s, n)
       \/ SweepPass(s) \/ SweepShort(s)
  \/ SweepBegin \/ SweepLong

Spec == Init /\ [][Next]_vars

-----------------------------------------------------------------------------
(* Type invariant. *)
TypeOK ==
  /\ global_tick \in 0..MaxTick
  /\ timeout \in [Sockets -> 0 .. Wheel - 1 \cup {Never}]
  /\ long_timeout \in [Sockets -> 0 .. Wheel - 1 \cup {Never}]
  /\ unvisited \subseteq Sockets
  /\ visiting \in Sockets \cup {NoSocket} /\ visiting \notin unvisited

\* The tick each timer is for, read off its byte.
Timers == Sockets \X {"short", "long"}

ShortDeadline(s) ==
  IF timeout[s] = Never THEN -1 ELSE global_tick + ((timeout[s] - timestamp) % Wheel)

LongDeadline(s) ==
  LET turn == (long_timeout[s] - long_timestamp) % Wheel
  IN  IF long_timeout[s] = Never THEN -1
      ELSE IF turn = 0 THEN global_tick
      ELSE (global_tick \div Minute + turn) * Minute

Deadline == [t \in Timers |-> IF t[2] = "short" THEN ShortDeadline(t[1]) ELSE LongDeadline(t[1])]

Promise == INSTANCE Deadlines WITH
  now <- global_tick, deadline <- Deadline, Horizon <- Wheel * Minute

(* The bytes keep the promise of Deadlines: a timer fires at the tick it was  *)
(* armed for, neither when the wheel passes the same number a turn too early  *)
(* nor a turn too late.                                                       *)
KeepsDeadlines == Promise!Spec

(* When a sweep is over no timer of its tick is left: the next chance would   *)
(* come a turn of the wheel later.                                            *)
NoneLeftBehind ==
  \A s \in Sockets \ unvisited :
    /\ timeout[s] # timestamp
    /\ s # visiting => long_timeout[s] # long_timestamp
=============================================================================
