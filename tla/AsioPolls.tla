-------------------------------- MODULE AsioPolls --------------------------------
(***************************************************************************)
(* Polls and timers over Boost.Asio (eventing/asio.cpp).  Asio has no poll  *)
(* that stays: each event takes a wait, whose handler waits again before it *)
(* dispatches.  A handler may run after its poll was changed, stopped or    *)
(* freed.  It knows by the count `nr` it captured, and by a weak pointer.   *)
(*                                                                         *)
(* Asio is external: cancelling makes the waits that are pending end with   *)
(* operation_aborted, and not those whose handlers are queued already.      *)
(***************************************************************************)
EXTENDS Naturals, BagsExt, Bags, PollContract

CONSTANTS
  NR,         \* 256: the count is an unsigned char
  MAX_DEAD    \* bound of the handlers that are left to do nothing

VARIABLE dev   \* asio's side

asioVars == <<poll, timer, call, dev>>

\* waits: the bag of waits, each with its poll (or the timer), event, captured
\* count, and whether it ended; dead: how many more there are whose handlers will
\* see operation_aborted or an expired pointer, and do nothing; polls: the
\* library's own count of waits, without the timer's; p: where boost_block->p
\* points, which resizing may make an old block.
Owners == Polls \cup {"timer"}
AsioInit ==
  /\ ContractInit
  /\ dev = [waits |-> EmptyBag, dead |-> 0, polls |-> 0,
            nr |-> [o \in Owners |-> 0], p |-> [o \in Owners |-> "block"]]

Waits     == BagToSet(dev.waits)
Of(d, W)  == [w \in W |-> d.waits[w]]

\* poll_for_error, poll_for_read and poll_for_write; poll_for_timeout does not count.
WaitFor(d, o, e) ==
  [d EXCEPT !.waits = BagAdd(@, [of |-> o, event |-> e, nr |-> d.nr[o], ready |-> FALSE]),
            !.polls = IF o = "timer" THEN @ ELSE @ + 1]

PollFor(d, p, events) ==
  LET E == WaitFor(d, p, "error")
      R == IF "in" \in events THEN WaitFor(E, p, "in") ELSE E
  IN IF "out" \in events THEN WaitFor(R, p, "out") ELSE R

Kill(d, W) ==
  [d EXCEPT !.waits = @ (-) Of(d, W),
            !.dead  = @ + BagCardinality(Of(d, {w \in W : w.of # "timer"}))]

\* cancel() and release() of a descriptor, expires_after() and cancel() of a timer.
Cancel(d, o) == Kill(d, {w \in BagToSet(d.waits) : w.of = o /\ ~w.ready})

\* The destructor: what was pending ends, and isValid is gone.
Delete(d, o) == Kill(d, {w \in BagToSet(d.waits) : w.of = o})

\* Bounds: nr does not come round to the count of a handler that is queued, as it
\* would after NR changes in a row; and not too many handlers wait to do nothing,
\* or to see a timer that was set again.
NrNext(o) == (dev.nr[o] + 1) % NR
Bounded(o) ==
  /\ \A w \in Waits : w.of = o /\ w.ready => w.nr # NrNext(o)
  /\ dev.dead <= MAX_DEAD
BoundedTimer ==
  BagCardinality(Of(dev, {w \in Waits : w.of = "timer" /\ w.ready})) <= MAX_DEAD

-----------------------------------------------------------------------------
(* The calls of the library. *)

CreatePoll(p) ==
  /\ Made(p)
  /\ dev' = [dev EXCEPT !.nr[p] = 0, !.p[p] = "block"]
  /\ UNCHANGED <<timer, call>>

Start(p, e) ==
  /\ Started(p, e)
  /\ dev' = PollFor(dev, p, e)
  /\ UNCHANGED <<timer, call>>

\* Changing without a new count.
RecountNot(d, p) == d

\* us_poll_change looks at nothing: the waits are taken anew for the same events, too.
Recount(d, p) == [d EXCEPT !.nr[p] = NrNext(p)]

Change(p, e) ==
  /\ Bounded(p) /\ Changed(p, e)
  /\ dev' = PollFor(Cancel(Recount(dev, p), p), p, e)
  /\ UNCHANGED <<timer, call>>

Stop(p) ==
  /\ Bounded(p) /\ Stopped(p)
  /\ dev' = Cancel(Recount(dev, p), p)
  /\ UNCHANGED <<timer, call>>

Free(p) ==
  /\ Freed({p})
  /\ dev' = Delete(dev, p)
  /\ UNCHANGED <<timer, call>>

Resize(p) ==
  /\ poll[p].state = "started"
  /\ dev' = [dev EXCEPT !.p[p] = "block"]
  /\ UNCHANGED <<poll, timer, call>>

-----------------------------------------------------------------------------
(* io_context: waits end, and us_loop_run runs their handlers one by one. *)

Ready(w) ==
  /\ ~w.ready
  /\ dev' = [dev EXCEPT !.waits = BagAdd(BagRemove(@, w), [w EXCEPT !.ready = TRUE])]
  /\ UNCHANGED <<poll, timer, call>>

\* Counting down only for the handlers that dispatch.
TakenLate(d, w) ==
  [d EXCEPT !.waits = BagRemove(@, w), !.polls = IF w.of = "timer" \/ w.nr # d.nr[w.of] THEN @ ELSE @ - 1]

\* What every handler does first; and those that do nothing else, for the two
\* reasons above or because nr has changed.
Taken(d, w) ==
  [d EXCEPT !.waits = BagRemove(@, w), !.polls = IF w.of = "timer" THEN @ ELSE @ - 1]
Current(w) == w.ready /\ w.nr = dev.nr[w.of]

Dead ==
  /\ call = NoCall /\ dev.dead > 0
  /\ dev' = [dev EXCEPT !.dead = @ - 1, !.polls = @ - 1]
  /\ UNCHANGED <<poll, timer, call>>

Stale(w) ==
  /\ call = NoCall /\ w.ready /\ ~Current(w)
  /\ dev' = Taken(dev, w)
  /\ UNCHANGED <<poll, timer, call>>

\* handle_read, handle_write and the handler of poll_for_error: wait, then dispatch.
\* A wait that ended with another error than operation_aborted says so.
Handler(w) ==
  /\ call = NoCall /\ Current(w) /\ w.of # "timer"
  /\ dev' = WaitFor(Taken(dev, w), w.of, w.event)
  /\ \E e \in {"error", w.event} :
       call' = [who |-> IF dev.p[w.of] = "block" THEN w.of ELSE NULL, events |-> {e}]
  /\ UNCHANGED <<poll, timer>>

Return == Returned /\ UNCHANGED <<poll, timer, dev>>

-----------------------------------------------------------------------------
(* Timers. *)

CreateTimer ==
  /\ TimerTo({"none"}, "idle")
  /\ dev' = [dev EXCEPT !.nr["timer"] = 0]
  /\ UNCHANGED <<poll, call>>

\* Setting it again leaves nr as it is; a handler that is queued then runs for it.
SetTimer ==
  /\ BoundedTimer /\ TimerTo({"idle", "set"}, "set")
  /\ dev' = WaitFor(Cancel(dev, "timer"), "timer", "timeout")
  /\ UNCHANGED <<poll, call>>

ClearTimer ==
  /\ Bounded("timer") /\ TimerTo({"idle", "set"}, "idle")
  /\ dev' = Cancel([dev EXCEPT !.nr["timer"] = NrNext("timer")], "timer")
  /\ UNCHANGED <<poll, call>>

CloseTimer ==
  /\ TimerTo({"idle", "set"}, "none")
  /\ dev' = Delete(dev, "timer")
  /\ UNCHANGED <<poll, call>>

\* The handler of poll_for_timeout.  A timer that repeats gives up for good when
\* the library has no other wait.
Timeout(w, repeat_ms) ==
  /\ call = NoCall /\ Current(w) /\ w.of = "timer"
  /\ IF repeat_ms # 0 /\ dev.polls = 0
     THEN dev' = Taken(dev, w) /\ UNCHANGED <<timer, call>>
     ELSE /\ call' = [who |-> "timer", events |-> {}]
          /\ dev' = IF repeat_ms = 0 THEN Taken(dev, w)
                    ELSE WaitFor(Cancel(Taken(dev, w), "timer"), "timer", "timeout")
          /\ timer' = timer
  /\ UNCHANGED poll

AsioNext ==
  \/ \E p \in Polls :
       \/ CreatePoll(p) \/ Stop(p) \/ Free(p) \/ Resize(p)
       \/ \E e \in SUBSET Events : Start(p, e) \/ Change(p, e)
  \/ \E w \in Waits : Ready(w) \/ Stale(w) \/ Handler(w) \/ \E ms \in {0, 1} : Timeout(w, ms)
  \/ Dead \/ Return
  \/ CreateTimer \/ SetTimer \/ ClearTimer \/ CloseTimer

AsioSpec == AsioInit /\ [][AsioNext]_asioVars

\* us_loop_run goes on while polls is not 0: it is the number of waits that are not
\* handled yet; and a started poll has exactly one that counts for each event it
\* is polled for and one for errors, so that no event comes twice or never.
Counting(p, e) ==
  BagCardinality(Of(dev, {w \in Waits : w.of = p /\ w.event = e /\ w.nr = dev.nr[p]}))

AsioWaitsOnce ==
  /\ dev.polls = dev.dead + BagCardinality(Of(dev, {w \in Waits : w.of # "timer"}))
  /\ \A p \in Polls : poll[p].state = "started" =>
       \A e \in {"error", "in", "out"} :
         Counting(p, e) = IF e \in poll[p].events \cup {"error"} THEN 1 ELSE 0
=============================================================================
