------------------------------- MODULE Deadlines -------------------------------
(* What the timers of a socket context promise: a timer that is armed for a   *)
(* tick fires at that tick, not before, and time does not pass over it.       *)
EXTENDS Integers

CONSTANTS Timers, Horizon

VARIABLES now, deadline

None == -1

Init == now = 0 /\ deadline = [t \in Timers |-> None]

\* Armed, or armed anew, for a tick to come.
Arm(t, n) == deadline' = [deadline EXCEPT ![t] = now + n] /\ UNCHANGED now

Disarm(t) == deadline' = [deadline EXCEPT ![t] = None] /\ UNCHANGED now

Fire(t) ==
  /\ deadline[t] = now
  /\ deadline' = [deadline EXCEPT ![t] = None]
  /\ UNCHANGED now

Tick ==
  /\ \A t \in Timers : deadline[t] # now
  /\ now' = now + 1
  /\ UNCHANGED deadline

Next ==
  \/ \E t \in Timers : Disarm(t) \/ Fire(t) \/ \E n \in 1..Horizon : Arm(t, n)
  \/ Tick

Spec == Init /\ [][Next]_<<now, deadline>>
=============================================================================
