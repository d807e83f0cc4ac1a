------------------------------ MODULE PollContract ------------------------------
(***************************************************************************)
(* What internal/eventing promises to the loop, whichever backend is built: *)
(* a poll is dispatched while it is started, for events it is polled for,   *)
(* at the address it has now, one dispatch at a time; a timer's callback is *)
(* called while it is set; and the only calls are these.                    *)
(***************************************************************************)
CONSTANTS Polls, NULL

VARIABLES
  poll,    \* each poll: made, started, stopped or none, and the events polled for
  timer,   \* "none", "idle" or "set"
  call     \* the callback that runs

contractVars == <<poll, timer, call>>

Events == {"in", "out"}
NoPoll == [state |-> "none", events |-> {}]
NoCall == [who |-> NULL, events |-> {}]

ContractInit == poll = [p \in Polls |-> NoPoll] /\ timer = "none" /\ call = NoCall

\* us_create_poll, us_poll_init and us_poll_start, us_poll_change, us_poll_stop,
\* us_poll_free.  us_poll_resize is a step that changes nothing here.
Made(p)       == poll[p].state = "none" /\ poll' = [poll EXCEPT ![p].state = "made"]
Started(p, e) == poll[p].state = "made" /\ poll' = [poll EXCEPT ![p] = [state |-> "started", events |-> e]]
Changed(p, e) == poll[p].state = "started" /\ poll' = [poll EXCEPT ![p].events = e]
Stopped(p)    == poll[p].state = "started" /\ poll' = [poll EXCEPT ![p] = [state |-> "stopped", events |-> {}]]
Freed(S)      == /\ \A p \in S : poll[p].state = "stopped"
                 /\ poll' = [p \in Polls |-> IF p \in S THEN NoPoll ELSE poll[p]]

\* us_internal_dispatch_ready_poll, with an error or with events.
Dispatched(p, e) ==
  /\ call = NoCall /\ poll[p].state = "started"
  /\ e = {"error"} \/ e \subseteq poll[p].events
  /\ call' = [who |-> p, events |-> e]

Fired    == call = NoCall /\ timer = "set" /\ call' = [who |-> "timer", events |-> {}]
Returned == call # NoCall /\ call' = NoCall

TimerTo(from, to) == timer \in from /\ timer' = to

ContractNext ==
  \/ /\ \/ \E p \in Polls : Made(p) \/ Stopped(p)
        \/ \E p \in Polls, e \in SUBSET Events : Started(p, e) \/ Changed(p, e)
        \/ \E S \in SUBSET Polls : Freed(S)
     /\ UNCHANGED <<timer, call>>
  \/ /\ \/ \E p \in Polls, e \in (SUBSET Events) \cup {{"error"}} : Dispatched(p, e)
        \/ Returned
     /\ UNCHANGED <<poll, timer>>
  \/ Fired /\ timer' \in {"set", "idle"} /\ UNCHANGED poll
  \/ /\ TimerTo({"none"}, "idle") \/ TimerTo({"idle", "set"}, "set")
          \/ TimerTo({"idle", "set"}, "idle") \/ TimerTo({"idle", "set"}, "none")
     /\ UNCHANGED <<poll, call>>

ContractSpec == ContractInit /\ [][ContractNext]_contractVars
=============================================================================
