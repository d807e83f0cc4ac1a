--------------------------------- MODULE Loop ---------------------------------
(***************************************************************************)
(* One event loop of uSockets over epoll, with its socket contexts and      *)
(* plain (non-SSL) sockets, and an application that calls back into the     *)
(* library from its handlers.                                               *)
(*                                                                         *)
(* The loop is single threaded: what interleaves is the library and the     *)
(* handlers it calls.  cb says which handler is running, if any; `at` is    *)
(* the point of the library that runs next once the handler returns.        *)
(* us_socket_close does nothing after on_close, so a nested on_close is     *)
(* followed by the handler that made the call; only                         *)
(* us_socket_context_close has work left then, kept in `closing`.           *)
(***************************************************************************)
EXTENDS SocketLists

CONSTANTS
  MaxLowPrio,  \* MAX_LOW_PRIO_SOCKETS_PER_LOOP_ITERATION
  Inputs,      \* the calls of the application and the kernel events explored
  Callers      \* the handlers that make calls

ASSUME BudgetAssumption == MaxLowPrio \in Nat \ {0}
ASSUME CallersAssumption == "none" \notin Callers

VARIABLES
  sock,      \* poll, timers and history of the socket in each block
  at,        \* the point the library has reached
  cur,       \* the poll or socket the library works on, a C local
  readable,  \* whether the ready poll being dispatched reports readable
  cb,        \* the handler that is running
  closing,   \* the loop of us_socket_context_close, a C local
  ready,     \* the loop's own polls still in the ready list
  unswept,   \* contexts the running sweep has still to visit
  sweeping,  \* the context it is in
  budget,    \* low_prio_budget
  lastWriteFailed

vars == <<h, sock, at, cur, readable, cb, closing, ready, unswept, sweeping,
          budget, lastWriteFailed>>
sweepVars == <<unswept, sweeping>>
ioVars    == <<budget, lastWriteFailed>>
position  == <<at, cur, readable>>

Timers == {"off", "later", "due"}

\* events: what the poll asks epoll for; reported: what the current ready list
\* says of it ("E" is an error or a hang-up, which epoll always reports).
\* short and long: the two timers.  The rest is history: opens and closes count
\* on_open and on_close, ended says that on_end was emitted, owed that the
\* application waits for on_writable after a short write, home names the
\* context the application last put the socket in.
Socket ==
  [events   : SUBSET {"R", "W"},
   reported : SUBSET {"R", "W", "E"},
   short    : Timers,
   long     : Timers,
   opens    : 0..2,
   closes   : 0..2,
   ended    : BOOLEAN,
   owed     : BOOLEAN,
   home     : Contexts \cup {NULL}]

Blank == [events |-> {}, reported |-> {}, short |-> "off", long |-> "off",
          opens |-> 0, closes |-> 0, ended |-> FALSE, owed |-> FALSE, home |-> NULL]

Handlers == {"none", "main", "resumed", "pre_cb", "post_cb", "callback", "on_pre_open",
             "on_open", "on_connect_error", "on_writable", "on_data", "on_end",
             "on_close", "on_timeout", "on_long_timeout"}

Points == {"pre", "low_prio", "wait", "dispatch", "post",
           "connect_error", "accept", "pre_opened", "accepted",
           "writable", "prio", "recv", "more",
           "sweep", "seek", "long", "advance"}

NoCallback == [ev |-> "none", s |-> NULL]
Idle       == [at |-> "idle", c |-> NULL, s |-> NULL, all |-> {}]

InApp     == cb # NoCallback
InLibrary == cb = NoCallback /\ closing = Idle

Emit(ev, s) == cb' = [ev |-> ev, s |-> s]
Quiet       == UNCHANGED cb

New(c)         == [Blank EXCEPT !.home = c]
Established(s) == Live(h, s) /\ h.kind[s] \in {"socket", "shut_down"}
Told(n)        == IF n < 2 THEN n + 1 ELSE 2

Init ==
  /\ ListInit
  /\ sock = [b \in Blocks |-> Blank]
  /\ at = "pre" /\ cur = NULL /\ readable = FALSE
  /\ cb = [ev |-> "main", s |-> NULL] /\ closing = Idle
  /\ ready = {} /\ unswept = {} /\ sweeping = NULL
  /\ budget = 0 /\ lastWriteFailed = FALSE

-----------------------------------------------------------------------------
(* An iteration of us_loop_run. *)

LoopPre ==
  /\ InLibrary /\ at = "pre"
  /\ \E b \in Blocks : ~Free(h, b)
  /\ at' = "low_prio" /\ budget' = MaxLowPrio
  /\ UNCHANGED <<h, sock, cur, readable, cb, closing, ready, sweepVars, lastWriteFailed>>

\* No poll keeps the loop running: us_loop_run returns.
LoopExit ==
  /\ InLibrary /\ at = "pre"
  /\ \A b \in Blocks : Free(h, b)
  /\ Emit("main", NULL)
  /\ UNCHANGED <<h, sock, position, closing, ready, sweepVars, ioVars>>

\* Mutant of HandleLowPrio: readable is not polled for again.
HandleLowPrioUnpolled ==
  /\ InLibrary /\ at = "low_prio"
  /\ h.head[LowPrio] # NULL /\ budget > 0
  /\ h' = Resume(h)
  /\ budget' = budget - 1
  /\ UNCHANGED <<sock, position, cb, closing, ready, sweepVars, lastWriteFailed>>

HandleLowPrio ==
  /\ InLibrary /\ at = "low_prio"
  /\ h.head[LowPrio] # NULL /\ budget > 0
  /\ h' = Resume(h)
  /\ sock' = [sock EXCEPT ![h.head[LowPrio]].events = @ \cup {"R"}]
  /\ budget' = budget - 1
  /\ UNCHANGED <<position, cb, closing, ready, sweepVars, lastWriteFailed>>

LowPrioHandled ==
  /\ InLibrary /\ at = "low_prio"
  /\ h.head[LowPrio] = NULL \/ budget = 0
  /\ at' = "wait" /\ Emit("pre_cb", NULL)
  /\ UNCHANGED <<h, sock, cur, readable, closing, ready, sweepVars, ioVars>>

\* The kernel may report any event a poll asks for; which of them it did is
\* chosen when the entry is dispatched, as nobody looks at it before.
EpollWait ==
  /\ InLibrary /\ at = "wait"
  /\ sock' = [b \in Blocks |->
       [sock[b] EXCEPT !.reported = IF Live(h, b) THEN (sock[b].events \cup {"E"}) \cap Inputs ELSE {}]]
  /\ ready' = {"sweep", "user"} \cap Inputs
  /\ at' = "dispatch"
  /\ UNCHANGED <<h, cur, readable, cb, closing, sweepVars, ioVars>>

\* A timer or async of the application.
DispatchUser ==
  /\ InLibrary /\ at = "dispatch" /\ "user" \in ready
  /\ ready' = ready \ {"user"}
  /\ Emit("callback", NULL)
  /\ UNCHANGED <<h, sock, position, closing, sweepVars, ioVars>>

ReadyListDone ==
  /\ InLibrary /\ at = "dispatch"
  /\ sock' = [b \in Blocks |-> [sock[b] EXCEPT !.reported = {}]]
  /\ ready' = {}
  /\ at' = "post"
  /\ UNCHANGED <<h, cur, readable, cb, closing, sweepVars, ioVars>>

FreeClosed ==
  /\ InLibrary /\ at = "post" /\ h.closed # NULL
  /\ h' = FreeHead(h)
  /\ sock' = [sock EXCEPT ![h.closed] = Blank]
  /\ UNCHANGED <<position, cb, closing, ready, sweepVars, ioVars>>

LoopPost ==
  /\ InLibrary /\ at = "post" /\ h.closed = NULL
  /\ at' = "pre" /\ Emit("post_cb", NULL)
  /\ UNCHANGED <<h, sock, cur, readable, closing, ready, sweepVars, ioVars>>

-----------------------------------------------------------------------------
(* Closing, as a part of several steps. *)

\* us_poll_stop takes the socket out of the pending ready polls.
Stopped(s) == [sock[s] EXCEPT !.events = {}, !.reported = {}, !.owed = FALSE]

CloseSocket(s) ==
  /\ h' = Close(h, s)
  /\ sock' = [sock EXCEPT ![s] = [Stopped(s) EXCEPT !.closes = Told(@)]]
  /\ Emit("on_close", s)

CloseSemiSocket(s) ==
  /\ h' = CloseSemi(h, s)
  /\ sock' = [sock EXCEPT ![s] = Stopped(s)]

-----------------------------------------------------------------------------
(* us_internal_dispatch_ready_poll: semi-sockets. *)

DispatchConnected(s) ==
  /\ InLibrary /\ at = "dispatch"
  /\ Live(h, s) /\ h.kind[s] = "connecting"
  /\ "W" \in sock[s].reported \cap sock[s].events
  /\ h' = [h EXCEPT !.kind[s] = "socket"]
  /\ sock' = [sock EXCEPT ![s].events = {"R"}, ![s].reported = {},
                          ![s].short = "off", ![s].opens = Told(@)]
  /\ Emit("on_open", s)
  /\ UNCHANGED <<position, closing, ready, sweepVars, ioVars>>

DispatchConnectError(s) ==
  /\ InLibrary /\ at = "dispatch"
  /\ Live(h, s) /\ h.kind[s] = "connecting"
  /\ "E" \in sock[s].reported
  /\ sock' = [sock EXCEPT ![s].reported = {}]
  /\ at' = "connect_error" /\ cur' = s
  /\ Emit("on_connect_error", s)
  /\ UNCHANGED <<h, readable, closing, ready, sweepVars, ioVars>>

\* Mutant of CloseFailedConnect: us_socket_close in place of us_socket_close_connecting.
CloseFailedConnectLoudly ==
  /\ InLibrary /\ at = "connect_error"
  /\ IF Closed(h, cur) THEN UNCHANGED <<h, sock, cb>> ELSE CloseSocket(cur)
  /\ at' = "dispatch" /\ cur' = NULL
  /\ UNCHANGED <<readable, closing, ready, sweepVars, ioVars>>

CloseFailedConnect ==
  /\ InLibrary /\ at = "connect_error"
  /\ IF Closed(h, cur) THEN UNCHANGED <<h, sock>> ELSE CloseSemiSocket(cur)
  /\ at' = "dispatch" /\ cur' = NULL
  /\ UNCHANGED <<readable, cb, closing, ready, sweepVars, ioVars>>

DispatchListen(s) ==
  /\ InLibrary /\ at = "dispatch"
  /\ Live(h, s) /\ h.kind[s] = "listen"
  /\ sock[s].reported # {}
  /\ sock' = [sock EXCEPT ![s].reported = {}]
  /\ at' = "accept" /\ cur' = s
  /\ UNCHANGED <<h, readable, cb, closing, ready, sweepVars, ioVars>>

\* bsd_accept_socket returns a client, and there is an on_pre_open to ask.
PreOpen ==
  /\ InLibrary /\ at = "accept" /\ "pre_open" \in Inputs
  /\ Live(h, cur)
  /\ at' = "pre_opened" /\ Emit("on_pre_open", NULL)
  /\ UNCHANGED <<h, sock, cur, readable, closing, ready, sweepVars, ioVars>>

\* on_pre_open took the descriptor away: on to the next client.
PreOpenExports ==
  /\ InLibrary /\ at = "pre_opened"
  /\ at' = "accept"
  /\ UNCHANGED <<h, sock, cur, readable, cb, closing, ready, sweepVars, ioVars>>

\* us_adopt_accepted_socket: the listen socket may be closed by on_pre_open.
AcceptSocket(s) ==
  /\ InLibrary
  /\ \/ at = "pre_opened"
     \/ at = "accept" /\ Live(h, cur) /\ "pre_open" \notin Inputs
  /\ Free(h, s)
  /\ h' = Create(h, s, h.context[cur], "socket")
  /\ sock' = [sock EXCEPT ![s] = [New(h.context[cur]) EXCEPT !.events = {"R"}, !.opens = 1]]
  /\ at' = "accepted" /\ Emit("on_open", s)
  /\ UNCHANGED <<cur, readable, closing, ready, sweepVars, ioVars>>

\* The loop is left when on_open closed the listen socket.
AcceptNext ==
  /\ InLibrary /\ at = "accepted"
  /\ IF Closed(h, cur) THEN at' = "dispatch" /\ cur' = NULL
                       ELSE at' = "accept" /\ UNCHANGED cur
  /\ UNCHANGED <<h, sock, readable, cb, closing, ready, sweepVars, ioVars>>

\* bsd_accept_socket has no client, or the descriptor is closed.
AcceptDone ==
  /\ InLibrary /\ at = "accept"
  /\ at' = "dispatch" /\ cur' = NULL
  /\ UNCHANGED <<h, sock, readable, cb, closing, ready, sweepVars, ioVars>>

-----------------------------------------------------------------------------
(* us_internal_dispatch_ready_poll: sockets. *)

DispatchError(s) ==
  /\ InLibrary /\ at = "dispatch"
  /\ Established(s) /\ "E" \in sock[s].reported
  /\ CloseSocket(s)
  /\ UNCHANGED <<position, closing, ready, sweepVars, ioVars>>

\* The reported events are filtered by what the poll asks for by now.
DispatchWritable(s) ==
  /\ InLibrary /\ at = "dispatch"
  /\ Established(s) /\ "W" \in sock[s].reported \cap sock[s].events
  /\ lastWriteFailed' = FALSE
  /\ sock' = [sock EXCEPT ![s].reported = {}, ![s].owed = FALSE]
  /\ readable' \in {FALSE, "R" \in sock[s].reported \cap sock[s].events}
  /\ at' = "writable" /\ cur' = s
  /\ Emit("on_writable", s)
  /\ UNCHANGED <<h, closing, ready, sweepVars, budget>>

\* Mutant of AfterWritable: last_write_failed is not looked at.
AfterWritableDisarms ==
  /\ InLibrary /\ at = "writable"
  /\ sock' = IF Live(h, cur) THEN [sock EXCEPT ![cur].events = @ \cap {"R"}] ELSE sock
  /\ IF Live(h, cur) /\ readable THEN at' = "prio" /\ UNCHANGED cur
                                 ELSE at' = "dispatch" /\ cur' = NULL
  /\ readable' = FALSE
  /\ UNCHANGED <<h, cb, closing, ready, sweepVars, ioVars>>

AfterWritable ==
  /\ InLibrary /\ at = "writable"
  /\ IF Live(h, cur) /\ (~lastWriteFailed \/ h.kind[cur] = "shut_down")
     THEN sock' = [sock EXCEPT ![cur].events = @ \cap {"R"}]
     ELSE UNCHANGED sock
  /\ IF Live(h, cur) /\ readable THEN at' = "prio" /\ UNCHANGED cur
                                 ELSE at' = "dispatch" /\ cur' = NULL
  /\ readable' = FALSE
  /\ UNCHANGED <<h, cb, closing, ready, sweepVars, ioVars>>

DispatchReadable(s) ==
  /\ InLibrary /\ at = "dispatch"
  /\ Established(s) /\ "R" \in sock[s].reported \cap sock[s].events
  /\ sock' = [sock EXCEPT ![s].reported = {}]
  /\ at' = "prio" /\ cur' = s
  /\ UNCHANGED <<h, readable, cb, closing, ready, sweepVars, ioVars>>

\* is_low_prio is the application's, or SSL's, word.
ReadNow ==
  /\ InLibrary /\ at = "prio"
  /\ at' = "recv"
  /\ UNCHANGED <<h, sock, cur, readable, cb, closing, ready, sweepVars, ioVars>>

ReadResumed ==
  /\ InLibrary /\ at = "prio" /\ "low_prio" \in Inputs
  /\ h.lowPrio[cur] = 2
  /\ h' = [h EXCEPT !.lowPrio[cur] = 0]
  /\ at' = "recv"
  /\ UNCHANGED <<sock, cur, readable, cb, closing, ready, sweepVars, ioVars>>

\* Mutant of ReadWithinBudget: low_prio_budget is spent without being checked.
ReadBeyondBudget ==
  /\ InLibrary /\ at = "prio" /\ "low_prio" \in Inputs
  /\ h.lowPrio[cur] # 2
  /\ budget' = budget - 1
  /\ at' = "recv"
  /\ UNCHANGED <<h, sock, cur, readable, cb, closing, ready, sweepVars, lastWriteFailed>>

ReadWithinBudget ==
  /\ InLibrary /\ at = "prio" /\ "low_prio" \in Inputs
  /\ h.lowPrio[cur] # 2 /\ budget > 0
  /\ budget' = budget - 1
  /\ at' = "recv"
  /\ UNCHANGED <<h, sock, cur, readable, cb, closing, ready, sweepVars, lastWriteFailed>>

ReadDeferred ==
  /\ InLibrary /\ at = "prio" /\ "low_prio" \in Inputs
  /\ h.lowPrio[cur] # 2 /\ budget = 0
  /\ h' = Defer(h, cur)
  /\ sock' = [sock EXCEPT ![cur].events = @ \cap {"W"}]
  /\ at' = "dispatch" /\ cur' = NULL
  /\ UNCHANGED <<readable, cb, closing, ready, sweepVars, ioVars>>

RecvData ==
  /\ InLibrary /\ at = "recv"
  /\ at' = "more" /\ Emit("on_data", cur)
  /\ UNCHANGED <<h, sock, cur, readable, closing, ready, sweepVars, ioVars>>

\* Mutant of RecvAgain: on_data may have closed the socket.
RecvAgainClosed ==
  /\ InLibrary /\ at = "more"
  /\ at' = "recv"
  /\ UNCHANGED <<h, sock, cur, readable, cb, closing, ready, sweepVars, ioVars>>

\* The receive buffer was filled to the brim: read again at once.
RecvAgain ==
  /\ InLibrary /\ at = "more" /\ Live(h, cur)
  /\ at' = "recv"
  /\ UNCHANGED <<h, sock, cur, readable, cb, closing, ready, sweepVars, ioVars>>

\* The data did not fill the buffer, on_data closed the socket, or recv
\* would block.
RecvDone ==
  /\ InLibrary /\ at \in {"more", "recv"}
  /\ at' = "dispatch" /\ cur' = NULL
  /\ UNCHANGED <<h, sock, readable, cb, closing, ready, sweepVars, ioVars>>

RecvEnd ==
  /\ InLibrary /\ at = "recv" /\ h.kind[cur] = "socket"
  /\ sock' = [sock EXCEPT ![cur].events = @ \cap {"W"}, ![cur].ended = TRUE]
  /\ at' = "dispatch" /\ cur' = NULL
  /\ Emit("on_end", cur)
  /\ UNCHANGED <<h, readable, closing, ready, sweepVars, ioVars>>

\* FIN after our own FIN, or an error.
RecvClose ==
  /\ InLibrary /\ at = "recv"
  /\ CloseSocket(cur)
  /\ at' = "dispatch" /\ cur' = NULL
  /\ UNCHANGED <<readable, closing, ready, sweepVars, ioVars>>

-----------------------------------------------------------------------------
(* us_internal_timer_sweep.  A timer matches a tick by equality: one that    *)
(* does not fire at its tick waits for the wheel to come round again.        *)

DispatchSweep ==
  /\ InLibrary /\ at = "dispatch" /\ "sweep" \in ready
  /\ ready' = ready \ {"sweep"} /\ unswept' = Contexts
  /\ at' = "sweep"
  /\ UNCHANGED <<h, sock, cur, readable, cb, closing, sweeping, ioVars>>

\* The ticks of context c move on; some of its timers are due now.
SweepContext(c) ==
  /\ InLibrary /\ at = "sweep" /\ c \in unswept
  /\ \E shorts \in SUBSET {b \in Blocks : h.context[b] = c /\ sock[b].short = "later"},
        longs \in SUBSET {b \in Blocks : h.context[b] = c /\ sock[b].long = "later"} :
       sock' = [b \in Blocks |->
         [sock[b] EXCEPT !.short = IF b \in shorts THEN "due" ELSE @,
                         !.long  = IF b \in longs THEN "due" ELSE @]]
  /\ unswept' = unswept \ {c} /\ sweeping' = c
  /\ at' = "seek" /\ cur' = h.head[<<c, "sockets">>]
  /\ UNCHANGED <<h, readable, cb, closing, ready, ioVars>>

SeekNext ==
  /\ InLibrary /\ at = "seek" /\ cur # NULL
  /\ sock[cur].short # "due" /\ sock[cur].long # "due"
  /\ cur' = h.next[cur]
  /\ UNCHANGED <<h, sock, at, readable, cb, closing, ready, sweepVars, ioVars>>

SeekFound ==
  /\ InLibrary /\ at = "seek" /\ cur # NULL
  /\ "due" \in {sock[cur].short, sock[cur].long}
  /\ h' = [h EXCEPT !.iterator[sweeping] = cur]
  /\ IF sock[cur].short = "due"
     THEN sock' = [sock EXCEPT ![cur].short = "off"] /\ Emit("on_timeout", cur)
     ELSE UNCHANGED <<sock, cb>>
  /\ at' = "long"
  /\ UNCHANGED <<cur, readable, closing, ready, sweepVars, ioVars>>

\* Mutant of SweepLong: the iterator is not compared after on_timeout.
SweepLongUnchecked ==
  /\ InLibrary /\ at = "long"
  /\ IF sock[cur].long = "due"
     THEN sock' = [sock EXCEPT ![cur].long = "off"] /\ Emit("on_long_timeout", cur)
     ELSE UNCHANGED <<sock, cb>>
  /\ at' = "advance"
  /\ UNCHANGED <<h, cur, readable, closing, ready, sweepVars, ioVars>>

\* The long timer is looked at only if on_timeout left the chain alone.
SweepLong ==
  /\ InLibrary /\ at = "long"
  /\ IF h.iterator[sweeping] = cur /\ sock[cur].long = "due"
     THEN sock' = [sock EXCEPT ![cur].long = "off"] /\ Emit("on_long_timeout", cur)
     ELSE UNCHANGED <<sock, cb>>
  /\ at' = "advance"
  /\ UNCHANGED <<h, cur, readable, closing, ready, sweepVars, ioVars>>

\* Mutant of SweepAdvance: the next pointer is read from the socket itself.
SweepAdvanceStale ==
  /\ InLibrary /\ at = "advance"
  /\ cur' = h.next[cur]
  /\ at' = "seek"
  /\ UNCHANGED <<h, sock, readable, cb, closing, ready, sweepVars, ioVars>>

\* Mutant of SweepAdvance: one step on, even if the iterator was moved already.
SweepAdvanceTwice ==
  /\ InLibrary /\ at = "advance"
  /\ LET i == h.iterator[sweeping] IN cur' = IF i = NULL THEN NULL ELSE h.next[i]
  /\ at' = "seek"
  /\ UNCHANGED <<h, sock, readable, cb, closing, ready, sweepVars, ioVars>>

SweepAdvance ==
  /\ InLibrary /\ at = "advance"
  /\ cur' = IF h.iterator[sweeping] = cur THEN h.next[cur] ELSE h.iterator[sweeping]
  /\ at' = "seek"
  /\ UNCHANGED <<h, sock, readable, cb, closing, ready, sweepVars, ioVars>>

SweepContextDone ==
  /\ InLibrary /\ at = "seek" /\ cur = NULL
  /\ h' = [h EXCEPT !.iterator[sweeping] = NULL]
  /\ sock' = [b \in Blocks |->
       IF h.context[b] # sweeping THEN sock[b]
       ELSE [sock[b] EXCEPT !.short = IF @ = "due" THEN "later" ELSE @,
                            !.long  = IF @ = "due" THEN "later" ELSE @]]
  /\ sweeping' = NULL /\ at' = "sweep"
  /\ UNCHANGED <<cur, readable, cb, closing, ready, unswept, ioVars>>

SweepDone ==
  /\ InLibrary /\ at = "sweep" /\ unswept = {}
  /\ at' = "dispatch"
  /\ UNCHANGED <<h, sock, cur, readable, cb, closing, ready, sweepVars, ioVars>>

-----------------------------------------------------------------------------
(* us_socket_context_close: each loop reads the next pointer, closes, and     *)
(* goes on with the pointer it read.  closing.all, history, holds the sockets *)
(* the context had at the call.                                               *)

ContextCloseListen ==
  /\ cb = NoCallback /\ closing.at = "listen"
  /\ IF closing.s = NULL
     THEN /\ closing' = [closing EXCEPT !.at = "sockets",
                                        !.s = h.head[<<closing.c, "sockets">>]]
          /\ UNCHANGED <<h, sock>>
     ELSE /\ closing' = [closing EXCEPT !.s = h.next[closing.s]]
          /\ CloseSemiSocket(closing.s)
  /\ UNCHANGED <<position, cb, ready, sweepVars, ioVars>>

\* Mutant of ContextCloseSocket: the next pointer is read after the close.
ContextCloseSocketLate ==
  /\ cb = NoCallback /\ closing.at = "sockets" /\ closing.s # NULL
  /\ IF Closed(h, closing.s) THEN UNCHANGED <<h, sock, cb>> ELSE CloseSocket(closing.s)
  /\ closing' = [closing EXCEPT !.s = h'.next[closing.s]]
  /\ UNCHANGED <<position, ready, sweepVars, ioVars>>

ContextCloseSocket ==
  /\ cb = NoCallback /\ closing.at = "sockets" /\ closing.s # NULL
  /\ closing' = [closing EXCEPT !.s = h.next[closing.s]]
  /\ IF Closed(h, closing.s) THEN UNCHANGED <<h, sock, cb>> ELSE CloseSocket(closing.s)
  /\ UNCHANGED <<position, ready, sweepVars, ioVars>>

ContextCloseDone ==
  /\ cb = NoCallback /\ closing.at = "sockets" /\ closing.s = NULL
  /\ closing' = Idle
  /\ Emit("resumed", NULL)
  /\ UNCHANGED <<h, sock, position, ready, sweepVars, ioVars>>

-----------------------------------------------------------------------------
(* What the application may call from a handler.  Inputs on a closed socket    *)
(* return at once.  Bound: us_socket_context_close is not nested.  Unless     *)
(* "nested" is explored, the on_close handlers it runs leave the other        *)
(* sockets where they are.                                                    *)

May(call)    == cb.ev \in Callers /\ call \in Inputs
MayRelink    == closing = Idle \/ "nested" \in Inputs
LoopHandlers == <<position, cb, closing, ready, sweepVars>>

AppListen(s, c) ==
  /\ May("listen") /\ Free(h, s)
  /\ h' = Create(h, s, c, "listen")
  /\ sock' = [sock EXCEPT ![s] = [New(c) EXCEPT !.events = {"R"}]]
  /\ UNCHANGED <<LoopHandlers, ioVars>>

AppConnect(s, c) ==
  /\ May("connect") /\ Free(h, s)
  /\ h' = Create(h, s, c, "connecting")
  /\ sock' = [sock EXCEPT ![s] = [New(c) EXCEPT !.events = {"W"}]]
  /\ UNCHANGED <<LoopHandlers, ioVars>>

AppClose(s) ==
  /\ May("close") /\ MayRelink /\ Established(s)
  /\ CloseSocket(s)
  /\ UNCHANGED <<position, closing, ready, sweepVars, ioVars>>

AppCloseSemi(s) ==
  /\ MayRelink /\ Live(h, s)
  /\ \/ h.kind[s] = "listen" /\ May("close_listen")
     \/ h.kind[s] = "connecting" /\ May("close_connecting")
  /\ CloseSemiSocket(s)
  /\ UNCHANGED <<LoopHandlers, ioVars>>

AppContextClose(c) ==
  /\ May("context_close") /\ closing = Idle
  /\ closing' = [at |-> "listen", c |-> c, s |-> h.head[<<c, "listen">>],
                 all |-> {b \in Blocks : Live(h, b) /\ h.context[b] = c}]
  /\ cb' = NoCallback
  /\ UNCHANGED <<h, sock, position, ready, sweepVars, ioVars>>

\* The handlers the library expects a socket back from return the new block.
\* epoll learns about the new block, and so does the ready list, only if the
\* poll asks for an event.
AppAdopt(s, c, n) ==
  /\ May("adopt") /\ MayRelink /\ Established(s)
  /\ n = s \/ Free(h, n)
  /\ Queued(h, s) => "adopt_queued" \in Inputs
  /\ n # s /\ sock[s].events = {} => "adopt_unpolled" \in Inputs
  /\ h' = Adopt(h, s, c, n)
  /\ LET kept  == [sock[s] EXCEPT !.short = "off", !.long = "off", !.home = c]
         moved == sock[s].events # {}
     IN  sock' = IF n = s THEN [sock EXCEPT ![s] = kept]
                 ELSE [sock EXCEPT
                   ![n] = IF moved THEN kept ELSE [kept EXCEPT !.reported = {}],
                   ![s] = IF moved THEN Blank ELSE [Blank EXCEPT !.reported = sock[s].reported]]
  /\ cur' = IF cur = s /\ at \in {"writable", "more"} THEN n ELSE cur
  /\ UNCHANGED <<at, readable, cb, closing, ready, sweepVars, ioVars>>

\* us_socket_write that could not write everything.
AppWrite(s) ==
  /\ May("write") /\ Live(h, s) /\ h.kind[s] = "socket"
  /\ Queued(h, s) => "write_queued" \in Inputs
  /\ lastWriteFailed' = TRUE
  /\ sock' = [sock EXCEPT ![s].events = {"R", "W"}, ![s].owed = TRUE]
  /\ UNCHANGED <<h, LoopHandlers, budget>>

\* us_socket_write2 that could not write everything.
AppWrite2(s) ==
  /\ May("write2") /\ Live(h, s) /\ h.kind[s] = "socket"
  /\ Queued(h, s) => "write_queued" \in Inputs
  /\ sock' = [sock EXCEPT ![s].events = {"R", "W"}, ![s].owed = TRUE]
  /\ UNCHANGED <<h, LoopHandlers, ioVars>>

\* Mutant of AppShutdown: the poll is left without readable.
AppShutdownDeaf(s) ==
  /\ May("shutdown") /\ Live(h, s) /\ h.kind[s] = "socket"
  /\ h' = [h EXCEPT !.kind[s] = "shut_down"]
  /\ sock' = [sock EXCEPT ![s].events = {}, ![s].owed = FALSE]
  /\ UNCHANGED <<LoopHandlers, ioVars>>

AppShutdown(s) ==
  /\ May("shutdown") /\ Live(h, s) /\ h.kind[s] = "socket"
  /\ h' = [h EXCEPT !.kind[s] = "shut_down"]
  /\ sock' = [sock EXCEPT ![s].events = @ \cap {"R"}, ![s].owed = FALSE]
  /\ UNCHANGED <<LoopHandlers, ioVars>>

AppTimeout(s, timer) ==
  /\ May("timeout") /\ Live(h, s) /\ h.kind[s] # "listen"
  /\ sock' = [sock EXCEPT ![s].short = timer]
  /\ UNCHANGED <<h, LoopHandlers, ioVars>>

AppLongTimeout(s, timer) ==
  /\ May("long_timeout") /\ Live(h, s) /\ h.kind[s] # "listen"
  /\ sock' = [sock EXCEPT ![s].long = timer]
  /\ UNCHANGED <<h, LoopHandlers, ioVars>>

Return ==
  /\ InApp
  /\ cb' = NoCallback
  /\ UNCHANGED <<h, sock, position, closing, ready, sweepVars, ioVars>>

-----------------------------------------------------------------------------
RunLoop ==
  \/ LoopPre \/ LoopExit \/ HandleLowPrio \/ LowPrioHandled \/ EpollWait
  \/ DispatchUser \/ ReadyListDone \/ FreeClosed \/ LoopPost

Dispatch ==
  \/ \E s \in Blocks :
       \/ DispatchConnected(s) \/ DispatchConnectError(s)
       \/ DispatchListen(s) \/ AcceptSocket(s)
       \/ DispatchError(s) \/ DispatchWritable(s) \/ DispatchReadable(s)
  \/ CloseFailedConnect
  \/ PreOpen \/ PreOpenExports \/ AcceptNext \/ AcceptDone
  \/ AfterWritable
  \/ ReadNow \/ ReadResumed \/ ReadWithinBudget \/ ReadDeferred
  \/ RecvData \/ RecvAgain \/ RecvDone \/ RecvEnd \/ RecvClose

Sweep ==
  \/ DispatchSweep
  \/ \E c \in Contexts : SweepContext(c)
  \/ SeekNext \/ SeekFound \/ SweepLong \/ SweepAdvance
  \/ SweepContextDone \/ SweepDone

ContextClose == ContextCloseListen \/ ContextCloseSocket \/ ContextCloseDone

AppCall ==
  \/ \E s \in Blocks :
       \/ \E c \in Contexts : AppListen(s, c) \/ AppConnect(s, c)
       \/ \E c \in Contexts, n \in Blocks : AppAdopt(s, c, n)
       \/ AppClose(s) \/ AppCloseSemi(s)
       \/ AppWrite(s) \/ AppWrite2(s) \/ AppShutdown(s)
       \/ \E timer \in {"off", "later"} : AppTimeout(s, timer) \/ AppLongTimeout(s, timer)
  \/ \E c \in Contexts : AppContextClose(c)

Library == RunLoop \/ Dispatch \/ Sweep \/ ContextClose

Next == Library \/ AppCall \/ Return

Spec == Init /\ [][Next]_vars

\* Handlers return; the library keeps running (the sweep timer wakes epoll_wait
\* every four seconds); a peer does not fill the receive buffer, nor queue
\* clients to be exported, faster than the loop can take them for ever.
Fairness ==
  /\ WF_vars(Library) /\ WF_vars(Return)
  /\ SF_vars(RecvDone) /\ SF_vars(AcceptDone)

FairSpec == Spec /\ Fairness

-----------------------------------------------------------------------------
(* Type invariant. *)
TypeOK ==
  /\ h \in Memory
  /\ sock \in [Blocks -> Socket]
  /\ at \in Points /\ cur \in Pointers /\ readable \in BOOLEAN
  /\ cb \in [ev : Handlers, s : Pointers]
  /\ closing \in [at : {"idle", "listen", "sockets"}, c : Contexts \cup {NULL},
                  s : Pointers, all : SUBSET Blocks]
  /\ ready \subseteq {"sweep", "user"}
  /\ unswept \subseteq Contexts /\ sweeping \in Contexts \cup {NULL}
  /\ budget \in 0..MaxLowPrio /\ lastWriteFailed \in BOOLEAN

(* The library never follows a pointer to a block that was freed or moved:    *)
(* not its own locals across a handler (cur in dispatch, in the accept loop   *)
(* and in the timeout sweep, nextS in us_socket_context_close), and not an    *)
(* entry of the ready list.                                                   *)
NoDangling ==
  /\ cb = NoCallback =>
       /\ at \in {"connect_error", "accept", "pre_opened", "accepted", "writable", "more"} =>
            ~Free(h, cur)
       /\ at \in {"prio", "recv"} => Established(cur)
       /\ at = "seek" /\ cur # NULL => Linked(h, cur, sweeping)
       /\ closing.s # NULL => Live(h, closing.s) /\ h.context[closing.s] = closing.c
  /\ \A b \in Blocks : sock[b].reported # {} => Live(h, b)

(* The sweep misses no timer: when it leaves a context, every socket linked   *)
(* in it whose timer was due has seen its handler, whatever the handlers      *)
(* closed, adopted or opened meanwhile.                                       *)
NoMissedTimeout ==
  InLibrary /\ at = "seek" /\ cur = NULL =>
    \A b \in Blocks : Linked(h, b, sweeping) => sock[b].short # "due" /\ sock[b].long # "due"

(* The application sees one on_open and then one on_close for each socket:    *)
(* whichever of the loop, its own calls and us_socket_context_close gets to   *)
(* close it first.                                                            *)
OneOpenOneClose ==
  \A b \in Blocks :
    /\ sock[b].opens <= 1
    /\ sock[b].closes <= sock[b].opens
    /\ Established(b) => sock[b].opens = 1 /\ sock[b].closes = 0
    /\ Closed(h, b) => sock[b].closes = sock[b].opens

(* No handler is ever called for a socket that was closed, nor a data handler *)
(* for one that is not open yet.                                              *)
NoEventAfterClose ==
  [][cb' # cb => \A s \in Blocks : cb'.s = s =>
       /\ cb'.ev \in {"on_open", "on_timeout", "on_long_timeout"} => Live(h, s)'
       /\ cb'.ev \in {"on_writable", "on_data", "on_end"} => Established(s)']_vars

(* A short write is followed by on_writable: as long as it has not come, the  *)
(* poll asks for writable.                                                    *)
WritableArmed ==
  \A b \in Blocks : Established(b) /\ sock[b].owed => "W" \in sock[b].events

(* An open socket that has not seen the peer's FIN polls for readable, unless *)
(* it waits in the low-priority queue, and then it does not.                  *)
ReadableArmed ==
  \A b \in Blocks : Established(b) =>
    /\ ~Queued(h, b) /\ ~sock[b].ended => "R" \in sock[b].events
    /\ Queued(h, b) => "R" \notin sock[b].events

(* us_socket_context_close returns only when every socket the context had at  *)
(* the call is closed.                                                        *)
ContextCloseClosesAll ==
  cb = NoCallback /\ closing.at = "sockets" /\ closing.s = NULL =>
    \A b \in closing.all : ~Live(h, b)

(* An adopted socket belongs to the context that adopted it.                  *)
AdoptedBelongs == \A b \in Blocks : Live(h, b) => h.context[b] = sock[b].home

(* low_prio_state says where a socket is: 1 means the queue, 0 and 2 the list *)
(* of its context.                                                            *)
LowPrioStateNamesTheList ==
  \A b \in Blocks : Live(h, b) => b \in Walk(h, h.head[ListOf(h, b)])

(* Each step of the loop and of the application uses the lists as their        *)
(* contract says: on a live block, in the right list, of the right kind.      *)
ListContract == ListSpec

(* A closed socket is freed in the end.                                       *)
ClosedIsFreed == \A b \in Blocks : Closed(h, b) ~> Free(h, b)
=============================================================================
