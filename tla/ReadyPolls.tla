------------------------------- MODULE ReadyPolls -------------------------------
(***************************************************************************)
(* The polls of a loop over epoll or kqueue, the array of ready polls that  *)
(* one system call fills and the loop walks through, and us_wakeup_loop,    *)
(* which other threads call at any time.                                    *)
(*                                                                         *)
(* The kernel and the array hold addresses of polls, and handlers close,    *)
(* free and move polls while the array is walked.  A descriptor stands for  *)
(* what keeps its identity then: a socket's fd, a timer's, the eventfd.     *)
(* Loop abstracts this module to a set of reported events.                  *)
(***************************************************************************)
EXTENDS Integers, FiniteSets, Sequences

CONSTANTS
  Polls,     \* addresses
  Ids,       \* descriptors
  NULL,
  Async,     \* the descriptor of loop->data.wakeup_async
  Backends,  \* the builds explored: "epoll", "kqueue"
  MaxReady,  \* 1024, the length of the array
  Inputs,    \* calls explored
  Callers    \* handlers that make calls

ASSUME NullAssumption == NULL \notin Polls /\ NULL \notin Ids
ASSUME AsyncAssumption == Async \in Ids
ASSUME BackendsAssumption == Backends \subseteq {"epoll", "kqueue"}
ASSUME MaxReadyAssumption == MaxReady \in Nat \ {0}

VARIABLES
  backend,    \* chosen at compile time
  poll,       \* the us_poll_t at each address
  kernel,     \* what the kernel was asked to report, and with which address
  ready,      \* ready_polls from current_ready_poll on: addresses, and events asked
              \* for when they were filled in
  num_polls,
  at,         \* where us_loop_run is
  serving,    \* the descriptor of the poll that is dispatched
  signalled,  \* the eventfd is readable, or the user event is triggered
  asked       \* history: us_wakeup_loop was called and wakeup_cb did not start since

vars == <<backend, poll, kernel, ready, num_polls, at, serving, signalled, asked>>
loopVars == <<backend, at, serving, signalled, asked>>

Kinds == {"free", "socket", "closed", "timer", "fallthrough_timer", "async"}
Free  == [id |-> NULL, kind |-> "free", events |-> {}]

Polled(p)      == poll[p].kind \in {"socket", "timer", "fallthrough_timer", "async"}
Callback(p)    == poll[p].kind \in {"timer", "fallthrough_timer", "async"}
Fallthrough(p) == poll[p].kind \in {"fallthrough_timer", "async"}

\* epoll knows a descriptor once, with all its events; kqueue once per filter.
Filters == IF backend = "epoll" THEN {"any"} ELSE {"R", "W"}
Registrations(d, events, p) ==
  IF backend = "epoll" THEN {[id |-> d, filter |-> "any", events |-> events, data |-> p]}
  ELSE {[id |-> d, filter |-> e, events |-> {e}, data |-> p] : e \in events}
Others(d) == {r \in kernel : r.id # d}

Init ==
  /\ backend \in Backends
  /\ \E a \in Polls :
       /\ poll = [p \in Polls |->
            IF p = a THEN [id |-> Async, kind |-> "async", events |-> {"R"}] ELSE Free]
       /\ kernel = Registrations(Async, {"R"}, a)
  /\ ready = << >> /\ num_polls = 0
  /\ at = "main" /\ serving = NULL
  /\ signalled = FALSE /\ asked = FALSE

-----------------------------------------------------------------------------
(* us_loop_run *)

LoopBegin ==
  /\ at = "run"
  /\ at' = IF num_polls = 0 THEN "main" ELSE "pre_cb"
  /\ UNCHANGED <<backend, poll, kernel, ready, num_polls, serving, signalled, asked>>

\* Without entries: the call was interrupted, or only the sweep timer fired, which
\* is left out here.  A readable eventfd is always reported; a triggered user event
\* is one-shot.
Wait ==
  /\ at = "wait"
  /\ \E n \in 0..MaxReady :
       /\ ready' \in {f \in [1..n -> kernel] : \A i, j \in 1..n : i # j => f[i] # f[j]}
       /\ signalled <=> \E i \in 1..n : ready'[i].id = Async
  /\ at' = "dispatch"
  /\ signalled' = (signalled /\ backend = "epoll")
  /\ UNCHANGED <<backend, poll, kernel, num_polls, serving, asked>>

\* The entry was nulled, or the poll asks for none of its events any more.
Skip ==
  /\ at = "dispatch" /\ ready # << >>
  /\ LET e == Head(ready) IN
       \/ e.data = NULL
       \/ e.data # NULL /\ ~Callback(e.data)
            /\ ~(e.events \subseteq poll[e.data].events)
  /\ ready' = Tail(ready)
  /\ UNCHANGED <<backend, poll, kernel, num_polls, at, serving, signalled, asked>>

\* Errors and hang-ups of sockets are reported whatever they poll for.
DispatchSocket ==
  /\ at = "dispatch" /\ ready # << >>
  /\ Head(ready).data # NULL /\ ~Callback(Head(ready).data)
  /\ serving' = poll[Head(ready).data].id
  /\ at' = "handler"
  /\ UNCHANGED <<backend, poll, kernel, ready, num_polls, signalled, asked>>

\* us_internal_accept_poll_event reads the eventfd before the callback runs.
DispatchCallback ==
  /\ at = "dispatch" /\ ready # << >>
  /\ Head(ready).data # NULL /\ Callback(Head(ready).data)
  /\ serving' = poll[Head(ready).data].id
  /\ IF serving' = Async
     THEN asked' = FALSE /\ signalled' = (signalled /\ backend = "kqueue")
     ELSE UNCHANGED <<asked, signalled>>
  /\ at' = "handler"
  /\ UNCHANGED <<backend, poll, kernel, ready, num_polls>>

\* Mutant of LoopPost: us_poll_free does not count.
LoopPostUncounted ==
  /\ at = "dispatch" /\ ready = << >>
  /\ poll' = [p \in Polls |-> IF poll[p].kind = "closed" THEN Free ELSE poll[p]]
  /\ at' = "post_cb"
  /\ UNCHANGED <<backend, kernel, ready, num_polls, serving, signalled, asked>>

\* us_internal_loop_post frees what was closed.
LoopPost ==
  /\ at = "dispatch" /\ ready = << >>
  /\ poll' = [p \in Polls |-> IF poll[p].kind = "closed" THEN Free ELSE poll[p]]
  /\ num_polls' = num_polls - Cardinality({p \in Polls : poll[p].kind = "closed"})
  /\ at' = "post_cb"
  /\ UNCHANGED <<backend, kernel, ready, serving, signalled, asked>>

-----------------------------------------------------------------------------
(* Calls of the handlers. *)

Handlers == {"main", "pre_cb", "handler", "post_cb"}
InApp    == at \in Handlers \cap Callers

\* Mutant of EntriesPerPoll: the second filter of kqueue is forgotten.
OneEntryPerPoll == 1

\* A ready list holds a poll once under epoll, once per filter under kqueue.
EntriesPerPoll == IF backend = "epoll" THEN 1 ELSE 2

\* us_internal_loop_update_pending_ready_polls
Patched(old, new) ==
  LET hits == {i \in DOMAIN ready : ready[i].data = old}
  IN  [i \in DOMAIN ready |->
        IF i \in hits /\ Cardinality({j \in hits : j < i}) < EntriesPerPoll
        THEN [ready[i] EXCEPT !.data = new] ELSE ready[i]]

Unused(d) == \A p \in Polls : Polled(p) => poll[p].id # d

StartSocket(p, d, events) ==
  /\ InApp /\ poll[p] = Free /\ Unused(d)
  /\ poll' = [poll EXCEPT ![p] = [id |-> d, kind |-> "socket", events |-> events]]
  /\ kernel' = kernel \cup Registrations(d, events, p)
  /\ num_polls' = num_polls + 1
  /\ UNCHANGED <<loopVars, ready>>

\* us_create_timer and us_timer_set.
StartTimer(p, d, kind) ==
  /\ InApp /\ poll[p] = Free /\ Unused(d) /\ kind \in Inputs
  /\ poll' = [poll EXCEPT ![p] = [id |-> d, kind |-> kind, events |-> {"R"}]]
  /\ kernel' = kernel \cup Registrations(d, {"R"}, p)
  /\ num_polls' = IF kind = "timer" THEN num_polls + 1 ELSE num_polls
  /\ UNCHANGED <<loopVars, ready>>

\* Mutant of CloseSocket: pending ready polls are not updated.
CloseSocketUnpatched(p) ==
  /\ InApp /\ poll[p].kind = "socket"
  /\ poll' = [poll EXCEPT ![p].kind = "closed"]
  /\ kernel' = Others(poll[p].id)
  /\ UNCHANGED <<loopVars, ready, num_polls>>

\* us_poll_stop, of a socket that us_internal_free_closed_sockets frees later.
CloseSocket(p) ==
  /\ InApp /\ poll[p].kind = "socket"
  /\ poll' = [poll EXCEPT ![p].kind = "closed"]
  /\ kernel' = Others(poll[p].id)
  /\ ready' = Patched(p, NULL)
  /\ UNCHANGED <<loopVars, num_polls>>

\* us_timer_close frees at once.  Under kqueue it leaves the ready polls alone,
\* so that an entry of the timer, the one being served included, keeps an address
\* that may be used again; and us_poll_free counts fallthrough timers down, too.
CloseTimer(p) ==
  /\ InApp /\ poll[p].kind \in {"timer", "fallthrough_timer"}
  /\ poll[p].kind = "fallthrough_timer" => "close_fallthrough" \in Inputs
  /\ (backend = "kqueue" /\ \E i \in DOMAIN ready : ready[i].data = p)
       => "close_ready" \in Inputs
  /\ poll' = [poll EXCEPT ![p] = Free]
  /\ kernel' = Others(poll[p].id)
  /\ ready' = IF backend = "epoll" THEN Patched(p, NULL) ELSE ready
  /\ num_polls' = num_polls - 1
  /\ UNCHANGED loopVars

Change(p, events) ==
  /\ InApp /\ poll[p].kind = "socket" /\ poll[p].events # events
  /\ poll' = [poll EXCEPT ![p].events = events]
  /\ kernel' = Others(poll[p].id) \cup Registrations(poll[p].id, events, p)
  /\ UNCHANGED <<loopVars, ready, num_polls>>

\* us_poll_resize that moves the poll: kernel and ready polls learn the new
\* address, if the poll has events.
Resize(p, q) ==
  /\ InApp /\ poll[p].kind = "socket" /\ poll[q] = Free
  /\ poll[p].events = {} => "resize_unpolled" \in Inputs
  /\ poll' = [poll EXCEPT ![p] = Free, ![q] = poll[p]]
  /\ IF poll[p].events = {} THEN UNCHANGED <<kernel, ready>>
     ELSE /\ kernel' = Others(poll[p].id) \cup Registrations(poll[p].id, poll[p].events, q)
          /\ ready' = Patched(p, q)
  /\ UNCHANGED <<loopVars, num_polls>>

After(step) ==
  CASE step = "main" -> "run" [] step = "pre_cb" -> "wait"
    [] step = "handler" -> "dispatch" [] step = "post_cb" -> "run"

\* Mutant of Return: the wakeup is accepted when its callback is done.
ReturnAccepting ==
  /\ at \in Handlers
  /\ at' = After(at)
  /\ ready' = IF at = "handler" THEN Tail(ready) ELSE ready
  /\ serving' = NULL
  /\ signalled' = (signalled /\ serving # Async)
  /\ UNCHANGED <<backend, poll, kernel, num_polls, asked>>

Return ==
  /\ at \in Handlers
  /\ at' = After(at)
  /\ ready' = IF at = "handler" THEN Tail(ready) ELSE ready
  /\ serving' = NULL
  /\ UNCHANGED <<backend, poll, kernel, num_polls, signalled, asked>>

\* us_wakeup_loop, from any thread at any time.
Wakeup ==
  /\ "wakeup" \in Inputs
  /\ signalled' = TRUE /\ asked' = TRUE
  /\ UNCHANGED <<backend, poll, kernel, ready, num_polls, at, serving>>

-----------------------------------------------------------------------------
Loop ==
  \/ LoopBegin \/ Wait \/ Skip \/ DispatchSocket \/ DispatchCallback \/ LoopPost

Call ==
  \E p \in Polls :
    \/ \E d \in Ids, events \in {{"R"}, {"W"}} : StartSocket(p, d, events)
    \/ \E d \in Ids, kind \in {"timer", "fallthrough_timer"} : StartTimer(p, d, kind)
    \/ CloseSocket(p) \/ CloseTimer(p)
    \/ \E events \in SUBSET {"R", "W"} : Change(p, events)
    \/ \E q \in Polls : Resize(p, q)

Next == Loop \/ Call \/ Return \/ Wakeup

Spec == Init /\ [][Next]_vars

\* The loop runs on, and handlers return.
FairSpec == Spec /\ WF_vars(Loop) /\ WF_vars(Return)

-----------------------------------------------------------------------------
(* Type invariant: the kernel never holds an empty address, the array may. *)
TypeOK ==
  /\ backend \in Backends
  /\ poll \in [Polls -> [id : Ids \cup {NULL}, kind : Kinds, events : SUBSET {"R", "W"}]]
  /\ \A k \in kernel : k.id \in Ids /\ k.filter \in Filters /\ k.data \in Polls
  /\ Len(ready) <= MaxReady
  /\ \A i \in DOMAIN ready : ready[i].filter \in Filters /\ ready[i].data \in Polls \cup {NULL}
  /\ num_polls \in Int
  /\ at \in {"main", "run", "pre_cb", "wait", "dispatch", "handler", "post_cb"}
  /\ serving \in Ids \cup {NULL}
  /\ signalled \in BOOLEAN /\ asked \in BOOLEAN

IsAt(d, p) == Polled(p) /\ poll[p].id = d

Undelivered ==
  {i \in DOMAIN ready : (at = "handler" => i > 1) /\ ready[i].data # NULL}

(* No address the kernel or the undelivered part of the ready polls holds is  *)
(* stale: each leads to the poll of its descriptor, wherever that has been    *)
(* moved to, and never to memory that was freed or used again.                *)
NoStaleAddress ==
  /\ \A r \in kernel : IsAt(r.id, r.data)
  /\ \A i \in Undelivered : IsAt(ready[i].id, ready[i].data)

(* num_polls counts the polls that keep the loop running, and closed sockets  *)
(* as long as they are not freed: us_loop_run returns exactly when there is   *)
(* none.                                                                      *)
NumPollsCounted ==
  num_polls = Cardinality({p \in Polls : poll[p].kind # "free" /\ ~Fallthrough(p)})

Promise == INSTANCE PendingEvents WITH
  None       <- NULL,
  Filters    <- {"any", "R", "W"},
  registered <- {poll[p].id : p \in {q \in Polls : Polled(q)}},
  pending    <- {<<ready[i].id, ready[i].filter>> : i \in Undelivered},
  active     <- serving

(* Every event is delivered to the poll it was collected for, at most once,   *)
(* and none after its poll was stopped.                                       *)
DeliversPending == Promise!Spec

(* A wakeup is never lost: wakeup_cb starts after each call of us_wakeup_loop, *)
(* whatever the loop is doing at the time, unless us_loop_run returns first.  *)
WakeupSeen == (asked /\ at # "main") ~> (~asked \/ at = "main")
=============================================================================
