-------------------------------- MODULE GcdPolls --------------------------------
(***************************************************************************)
(* Polls and timers over Grand Central Dispatch (eventing/gcd.c).           *)
(* A poll has two dispatch sources, for reading and for writing, which GCD  *)
(* makes suspended.  Polling for an event is resuming its source; each      *)
(* resume has to answer one suspend, and a suspended source may not be      *)
(* released: GCD, which is external, ends the program otherwise.            *)
(***************************************************************************)
EXTENDS Integers, PollContract

CONSTANT Inputs   \* calls of the application explored

VARIABLE dev      \* GCD's side

gcdVars == <<poll, timer, call, dev>>

\* suspended: how often each source is, or -1 when it does not exist; context: the
\* block it is made for; broken: GCD found a program error.
NoSources == [e \in Events |-> -1]
GcdInit ==
  /\ ContractInit
  /\ dev = [suspended |-> [p \in Polls |-> NoSources],
            context |-> [p \in Polls |-> "block"], broken |-> FALSE, timer |-> FALSE]

\* dispatch_source_create, dispatch_suspend and dispatch_resume for the events E,
\* and dispatch_release.
Sources(d, p) == [d EXCEPT !.suspended[p] = [e \in Events |-> 1], !.context[p] = "block"]
Suspend(d, p, E) == [d EXCEPT !.suspended[p] = [e \in Events |-> IF e \in E THEN @[e] + 1 ELSE @[e]]]
Resume(d, p, E) ==
  [d EXCEPT !.suspended[p] = [e \in Events |-> IF e \in E THEN @[e] - 1 ELSE @[e]],
            !.broken = @ \/ \E e \in E : d.suspended[p][e] <= 0]
Release(d, p) ==
  [d EXCEPT !.suspended[p] = NoSources, !.broken = @ \/ \E e \in Events : d.suspended[p][e] > 0]

-----------------------------------------------------------------------------
(* The calls of the library.  us_poll_init makes the sources. *)

CreatePoll(p) ==
  /\ Made(p)
  /\ dev' = Sources(dev, p)
  /\ UNCHANGED <<timer, call>>

Start(p, e) ==
  /\ Started(p, e)
  /\ dev' = Resume(dev, p, e)
  /\ UNCHANGED <<timer, call>>

\* us_poll_change: only the events that differ.
Switch(d, p, old, e) == Resume(Suspend(d, p, old \ e), p, e \ old)

Change(p, e) ==
  /\ Changed(p, e)
  /\ dev' = Switch(dev, p, poll[p].events, e)
  /\ UNCHANGED <<timer, call>>

Stop(p) ==
  /\ Stopped(p)
  /\ dev' = Suspend(dev, p, poll[p].events)
  /\ UNCHANGED <<timer, call>>

\* Releasing without a resume.
UnsuspendedNot(d, p) == d

\* us_poll_free: what is suspended is resumed before it is released.
Unsuspended(d, p) == Switch(d, p, poll[p].events, Events)

Free(p) ==
  /\ Freed({p})
  /\ dev' = Release(Unsuspended(dev, p), p)
  /\ UNCHANGED <<timer, call>>

\* us_poll_resize: for a block that moved, new sources are made and started.
Resize(p, moved) ==
  /\ poll[p].state = "started"
  /\ dev' = IF moved
            THEN Resume(Sources(Release(Unsuspended(dev, p), p), p), p, poll[p].events)
            ELSE dev
  /\ UNCHANGED <<poll, timer, call>>

-----------------------------------------------------------------------------
(* The main queue. *)

\* gcd_read_handler and gcd_write_handler.
Handler(p, e) ==
  /\ call = NoCall /\ dev.suspended[p][e] = 0
  /\ call' = [who |-> IF dev.context[p] = "block" THEN p ELSE NULL, events |-> {e}]
  /\ UNCHANGED <<poll, timer, dev>>

Return == Returned /\ UNCHANGED <<poll, timer, dev>>

\* Closing a timer does nothing, nor does setting it to 0 stop it; it repeats.
CreateTimer == TimerTo({"none"}, "idle") /\ ~dev.timer /\ UNCHANGED <<poll, call, dev>>
SetTimer(ms) ==
  /\ ms # 0 \/ "clear_timer" \in Inputs
  /\ TimerTo({"idle", "set"}, IF ms = 0 THEN "idle" ELSE "set")
  /\ dev' = [dev EXCEPT !.timer = TRUE]
  /\ UNCHANGED <<poll, call>>
CloseTimer ==
  /\ timer = "idle" \/ "close_timer" \in Inputs
  /\ TimerTo({"idle", "set"}, "none")
  /\ UNCHANGED <<poll, call, dev>>
TimerHandler ==
  /\ call = NoCall /\ dev.timer
  /\ call' = [who |-> "timer", events |-> {}]
  /\ UNCHANGED <<poll, timer, dev>>

GcdNext ==
  \/ \E p \in Polls :
       \/ CreatePoll(p) \/ Stop(p) \/ Free(p)
       \/ \E moved \in BOOLEAN : Resize(p, moved)
       \/ \E e \in SUBSET Events : Start(p, e) \/ Change(p, e)
       \/ \E e \in Events : Handler(p, e)
  \/ Return
  \/ CreateTimer \/ CloseTimer \/ TimerHandler \/ \E ms \in {0, 1} : SetTimer(ms)

GcdSpec == GcdInit /\ [][GcdNext]_gcdVars

\* A source is suspended once while its event is not polled for and not at all
\* while it is, however polls are changed, moved and stopped: no resume is too
\* many and no source is released suspended.
GcdBalanced ==
  /\ ~dev.broken
  /\ \A p \in Polls : \A e \in Events :
       dev.suspended[p][e] = IF poll[p].state = "none" THEN -1
                             ELSE IF e \in poll[p].events THEN 0 ELSE 1
=============================================================================
