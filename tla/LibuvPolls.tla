------------------------------- MODULE LibuvPolls -------------------------------
(***************************************************************************)
(* Polls and timers over libuv (eventing/libuv.c).  A poll is two blocks of *)
(* memory: the us_poll_t and the uv_poll_t.  libuv lets go of the second    *)
(* one in a close callback, at the end of the iteration, so that the two    *)
(* are freed by whichever of us_poll_free and that callback comes last.     *)
(*                                                                         *)
(* libuv is external.  An iteration of uv_run is its phases "poll", "check" *)
(* (us_internal_loop_post, which frees the polls that were stopped, and     *)
(* then post_cb, "post") and "closing".                                     *)
(***************************************************************************)
EXTENDS PollContract

CONSTANT Inputs   \* calls of the application explored

VARIABLE dev      \* libuv's side

libuvVars == <<poll, timer, call, dev>>

\* handle: the uv_poll_t; data: its pointer to the us_poll_t, which resizing may
\* make an old one; ready: what the running poll phase has for it.
LibuvInit ==
  /\ ContractInit
  /\ dev = [phase |-> "poll", handle |-> [p \in Polls |-> "none"],
            data |-> [p \in Polls |-> "null"], ready |-> [p \in Polls |-> {}],
            timer |-> "none"]

InApp == dev.phase \in {"poll", "post"}

CreatePoll(p) ==
  /\ InApp /\ Made(p) /\ dev.handle[p] = "none"
  /\ dev' = [dev EXCEPT !.handle[p] = "raw", !.data[p] = "block"]
  /\ UNCHANGED <<timer, call>>

Start(p, e) ==
  /\ InApp /\ Started(p, e)
  /\ dev' = [dev EXCEPT !.handle[p] = "open"]
  /\ UNCHANGED <<timer, call>>

\* uv_poll_start drops what is ready and no longer asked for.
Change(p, e) ==
  /\ InApp /\ poll[p].events # e /\ Changed(p, e)
  /\ dev' = [dev EXCEPT !.ready[p] = @ \cap e]
  /\ UNCHANGED <<timer, call>>

\* realloc may move the block; uv_p->data follows it.
Moved(d, p) == [d EXCEPT !.data[p] = "block"]

Resize(p) ==
  /\ InApp /\ poll[p].state = "started"
  /\ dev' = Moved(dev, p)
  /\ UNCHANGED <<poll, timer, call>>

\* uv_poll_stop, and uv_close, whose callback finds data null if it comes first.
Stop(p) ==
  /\ dev.phase = "poll" \/ (dev.phase = "post" /\ "stop_in_post" \in Inputs)
  /\ Stopped(p)
  /\ dev' = [dev EXCEPT !.handle[p] = "closing", !.data[p] = "null", !.ready[p] = {}]
  /\ UNCHANGED <<timer, call>>

\* Freeing that leaves data null for the close callback.
FreePollsUnset(d, S) == d

\* us_poll_free.  uv_is_closing is true of a handle that was closed, too.
IsClosing(p) == dev.handle[p] \in {"closing", "closed"}
FreePolls(d, S) ==
  [d EXCEPT !.handle = [p \in Polls |-> IF p \in S /\ ~IsClosing(p) THEN "none" ELSE @[p]],
            !.data = [p \in Polls |-> IF p \in S /\ IsClosing(p) THEN "block" ELSE @[p]]]

\* close_cb_free_poll: frees both blocks if us_poll_free came before.
CloseCbPoll(d, p) ==
  [d EXCEPT !.handle[p] = IF d.data[p] = "null" THEN "closed" ELSE "none"]

-----------------------------------------------------------------------------
(* uv_run. *)

Poll(p, e) ==
  /\ dev.phase = "poll" /\ call = NoCall /\ dev.handle[p] = "open"
  /\ e # {} /\ e \subseteq poll[p].events
  /\ dev' = [dev EXCEPT !.ready[p] = e]
  /\ UNCHANGED <<poll, timer, call>>

\* poll_cb: a negative status comes with no events.
PollCb(p) ==
  /\ dev.phase = "poll" /\ call = NoCall /\ dev.ready[p] # {}
  /\ \E e \in {dev.ready[p], {"error"}} :
       call' = [who |-> IF dev.data[p] = "block" THEN p ELSE NULL, events |-> e]
  /\ dev' = [dev EXCEPT !.ready[p] = {}]
  /\ UNCHANGED <<poll, timer>>

Return == Returned /\ UNCHANGED <<poll, timer, dev>>

\* check_cb, and post_cb after it: the polls that were stopped are freed.
Check ==
  /\ dev.phase = "poll" /\ call = NoCall
  /\ LET S == {p \in Polls : poll[p].state = "stopped"}
     IN /\ poll' = [p \in Polls |-> IF p \in S THEN NoPoll ELSE poll[p]]
        /\ dev' = [FreePolls(dev, S) EXCEPT !.phase = "post"]
  /\ UNCHANGED <<timer, call>>

Closing ==
  /\ dev.phase = "post"
  /\ dev' = [dev EXCEPT !.phase = "closing"]
  /\ UNCHANGED <<poll, timer, call>>

CloseCb(p) ==
  /\ dev.phase = "closing" /\ dev.handle[p] = "closing"
  /\ dev' = CloseCbPoll(dev, p)
  /\ UNCHANGED <<poll, timer, call>>

\* close_cb_free of the timer; and the iteration is over.
CloseCbTimer ==
  /\ dev.phase = "closing" /\ dev.timer = "closing"
  /\ dev' = [dev EXCEPT !.timer = "none"]
  /\ UNCHANGED <<poll, timer, call>>

Again ==
  /\ dev.phase = "closing" /\ dev.timer # "closing"
  /\ \A p \in Polls : dev.handle[p] # "closing"
  /\ dev' = [dev EXCEPT !.phase = "poll"]
  /\ UNCHANGED <<poll, timer, call>>

-----------------------------------------------------------------------------
(* Timers: the uv_timer_t is in the block, which the close callback frees. *)

CreateTimer ==
  /\ InApp /\ dev.timer = "none" /\ TimerTo({"none"}, "idle")
  /\ dev' = [dev EXCEPT !.timer = "open"]
  /\ UNCHANGED <<poll, call>>

SetTimer(ms) ==
  /\ InApp /\ TimerTo({"idle", "set"}, IF ms = 0 THEN "idle" ELSE "set")
  /\ UNCHANGED <<poll, call, dev>>

CloseTimer ==
  /\ InApp /\ TimerTo({"idle", "set"}, "none")
  /\ dev' = [dev EXCEPT !.timer = "closing"]
  /\ UNCHANGED <<poll, call>>

TimerCb(repeat_ms) ==
  /\ dev.phase = "poll" /\ dev.timer = "open" /\ Fired
  /\ timer' = IF repeat_ms = 0 THEN "idle" ELSE "set"
  /\ UNCHANGED <<poll, dev>>

LibuvNext ==
  \/ \E p \in Polls :
       \/ CreatePoll(p) \/ Resize(p) \/ Stop(p) \/ PollCb(p) \/ CloseCb(p)
       \/ \E e \in SUBSET Events : Start(p, e) \/ Change(p, e) \/ Poll(p, e)
  \/ Return \/ Check \/ Closing \/ CloseCbTimer \/ Again
  \/ CreateTimer \/ CloseTimer
  \/ \E ms \in {0, 1} : SetTimer(ms) \/ TimerCb(ms)

LibuvSpec == LibuvInit /\ [][LibuvNext]_libuvVars

\* Both blocks of a poll that was freed are released once libuv closed it.
LibuvFrees == \A p \in Polls : ~(poll[p].state = "none" /\ dev.handle[p] = "closed")
=============================================================================
