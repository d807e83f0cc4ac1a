------------------------------- MODULE UringLoop -------------------------------
(***************************************************************************)
(* The io_uring build: a loop that queues submissions (sq), waits for       *)
(* completions (cq) and calls the application from each of them, and the    *)
(* kernel that executes what was queued in the meantime.                    *)
(*                                                                         *)
(* A socket is named after the connection it was made for, so that the      *)
(* kernel's table of direct descriptors can say whose connection a slot     *)
(* holds: sock[s].dd is what the program believes, slots what is true.      *)
(* The kernel's side is external; no completion is lost or invented.        *)
(***************************************************************************)
EXTENDS Integers, Sequences, FiniteSets, SequencesExt

CONSTANTS
  Sockets,
  Files,        \* direct descriptors of the ring, 1024 in us_create_loop
  NumBuffers,   \* BUFFERS_COUNT
  MaxReads, MaxMessages,  \* bound: messages a peer sends, and messages to it
  Inputs        \* application habits and kernel answers explored

ASSUME SocketsAssumption == "none" \notin Sockets
ASSUME SizesAssumption == Files \in Nat \ {0} /\ NumBuffers \in Nat \ {0}

VARIABLES
  at,        \* where the loop is
  sq, cq,
  list,      \* head_sockets of the context; sockets are only ever added
  rest,      \* the sockets the running sweep has still to visit
  sock,
  numSockets,\* the static counter of us_socket_context_connect
  buf,       \* sendBuf of each socket
  ring,      \* the provided buffers
  kernel,    \* requests in progress: accept, timer read, connects, recvs, sends
  slots,     \* the direct descriptor table
  peer, got  \* the other end of each connection and what it received

vars == <<at, sq, cq, list, rest, sock, numSockets, buf, ring, kernel, slots,
          peer, got>>
kernelVars == <<ring, kernel, slots, peer, got>>

None    == "none"
Dds     == 0..Files - 1
Buffers == 0..NumBuffers - 1
ENOBUFS == "ENOBUFS"

\* timed: the short or the long timer is set; when they are due is the subject
\* of TimeoutWheel.  wrote counts the calls of us_socket_write, history.
Fresh == [state |-> "unused", dd |-> -1, timed |-> FALSE, wrote |-> 0]

Sqe(op, s)       == [op |-> op, s |-> s, dd |-> sock[s].dd]
Cqe(tag, s, res) == [tag |-> tag, s |-> s, res |-> res, bid |-> 0, dd |-> -1]

\* us_create_loop.
Init ==
  /\ at = "setup"
  /\ sq = <<>> /\ cq = <<>> /\ list = <<>> /\ rest = <<>>
  /\ sock = [s \in Sockets |-> Fresh]
  /\ numSockets = 0
  /\ buf = [s \in Sockets |-> <<s, 0>>]
  /\ ring = [i \in 1..NumBuffers |-> i - 1]
  /\ kernel = [accept |-> "never", timer |-> "idle", connects |-> {},
               recvs |-> {}, sends |-> <<>>]
  /\ slots = [d \in Dds |-> None]
  /\ peer = [s \in Sockets |-> [state |-> "away", sent |-> 0]]
  /\ got = [s \in Sockets |-> <<>>]

-----------------------------------------------------------------------------
(* The calls of the application.                                             *)

\* Nothing of the socket is on its way to the peer any more.  There is no
\* callback that says so: the application is one that knows from its protocol,
\* unless Inputs has "overlap".
Quiet(s) == sock[s].wrote = Len(got[s])

\* Nor does us_socket_is_closed say anything: with "late" the application
\* writes from on_close and after it.
MayWrite(s, was) ==
  /\ was[s].wrote < MaxMessages
  /\ "overlap" \in Inputs \/ Quiet(s)
  /\ "late" \in Inputs \/ was[s].state # "closed"

\* Mutant of Copied: one send buffer for all sockets.
CopiedShared(s) == [x \in Sockets |-> <<s, sock[s].wrote + 1>>]

\* memcpy into the send buffer, whether or not the kernel still reads it.
Copied(s) == [buf EXCEPT ![s] = <<s, sock[s].wrote + 1>>]

\* What a handler of s does, queue being what the library queued before it:
\* nothing, us_socket_write, or us_socket_timeout and us_socket_long_timeout.
Handler(s, was, queue) ==
  \/ sq' = queue /\ sock' = was /\ UNCHANGED buf
  \/ /\ MayWrite(s, was)
     /\ buf' = Copied(s)
     /\ sq' = Append(queue, [op |-> "send", s |-> s, dd |-> was[s].dd])
     /\ sock' = [was EXCEPT ![s].wrote = @ + 1]
  \/ /\ "timers" \in Inputs
     /\ \E t \in BOOLEAN : sock' = [was EXCEPT ![s].timed = t]
     /\ sq' = queue /\ UNCHANGED buf

\* us_socket_context_listen; whatever fails ends the process.
Listen ==
  /\ at = "setup" /\ kernel.accept = "never"
  /\ "mixed" \in Inputs \/ numSockets = 0
  /\ kernel' = [kernel EXCEPT !.accept = "queued"]
  /\ sq' = Append(sq, [op |-> "accept", s |-> None, dd |-> -1])
  /\ UNCHANGED <<at, cq, list, rest, sock, numSockets, buf, ring, slots, peer, got>>

\* Before the loop runs, or from a timeout handler.
MayConnect(s) ==
  /\ at = "setup" \/ (at = "sweep" /\ rest # list)
  /\ peer[s].state = "away" /\ sock[s].state = "unused"
  /\ "mixed" \in Inputs \/ kernel.accept = "never"

\* The socket is linked before anything can fail, and stays linked.
ConnectFails(s) ==
  /\ MayConnect(s)
  /\ list' = <<s>> \o list
  /\ sock' = [sock EXCEPT ![s].state = "linked"]
  /\ UNCHANGED <<at, sq, cq, rest, numSockets, buf, kernelVars>>

\* The slot is the next number of a counter; beyond the table the update fails
\* and nobody looks.
Connect(s) ==
  /\ MayConnect(s)
  /\ list' = <<s>> \o list
  /\ sock' = [sock EXCEPT ![s].state = "linked", ![s].dd = numSockets]
  /\ slots' = IF numSockets \in Dds THEN [slots EXCEPT ![numSockets] = s] ELSE slots
  /\ numSockets' = numSockets + 1
  /\ sq' = Append(sq, [op |-> "connect", s |-> s, dd |-> numSockets])
  /\ UNCHANGED <<at, cq, rest, buf, ring, kernel, peer, got>>

\* us_loop_run: us_timer_set queues the first read of the timer.
Run ==
  /\ at = "setup"
  /\ at' = "submit"
  /\ sq' = Append(sq, [op |-> "read_timer", s |-> None, dd |-> -1])
  /\ UNCHANGED <<cq, list, rest, sock, numSockets, buf, kernelVars>>

-----------------------------------------------------------------------------
(* The kernel.                                                               *)

\* A completion of a receive of socket s.  Inputs with "bufferless" has the
\* kernel fail a receive without a buffer of the ring, and the number in the
\* completion is 0; without it, as the loop expects, a failure holds one.
Received(s, res) ==
  IF res # "data" /\ "bufferless" \in Inputs
  THEN cq' = Append(cq, Cqe("read", s, res)) /\ UNCHANGED ring
  ELSE IF ring = <<>>
  THEN cq' = Append(cq, Cqe("read", s, ENOBUFS)) /\ UNCHANGED ring
  ELSE /\ cq' = Append(cq, [Cqe("read", s, res) EXCEPT !.bid = Head(ring)])
       /\ ring' = Tail(ring)

\* One submission is started, on whatever its slot holds at that moment.
Issued(e) ==
  LET conn == IF e.dd \in Dds THEN slots[e.dd] ELSE None
      here == conn # None /\ peer[conn].state = "here"
  IN
  \/ /\ e.op = "accept"
     /\ kernel' = [kernel EXCEPT !.accept = "armed"]
     /\ UNCHANGED <<cq, ring, slots>>
  \/ /\ e.op = "read_timer"
     /\ kernel' = [kernel EXCEPT !.timer = "armed"]
     /\ UNCHANGED <<cq, ring, slots>>
  \/ /\ e.op = "connect"
     /\ kernel' = [kernel EXCEPT !.connects = @ \cup {e.s}]
     /\ UNCHANGED <<cq, ring, slots>>
  \/ /\ e.op = "recv" /\ here
     /\ kernel' = [kernel EXCEPT !.recvs = @ \cup {[s |-> e.s, conn |-> conn]}]
     /\ UNCHANGED <<cq, ring, slots>>
  \/ /\ e.op = "recv" /\ ~here
     /\ Received(e.s, "failed")
     /\ UNCHANGED <<kernel, slots>>
  \/ /\ e.op = "send" /\ conn # None
     /\ kernel' = [kernel EXCEPT !.sends = Append(@, [s |-> e.s, conn |-> conn])]
     /\ UNCHANGED <<cq, ring, slots>>
  \/ /\ e.op = "send" /\ conn = None
     /\ cq' = Append(cq, Cqe("write", e.s, "failed"))
     /\ UNCHANGED <<ring, kernel, slots>>
  \/ /\ e.op = "close"
     /\ slots' = IF conn = None THEN slots ELSE [slots EXCEPT ![e.dd] = None]
     /\ UNCHANGED <<cq, ring, kernel>>

\* io_uring_submit_and_wait hands the queue over in its order.
Issue ==
  /\ at = "submit" /\ sq # <<>>
  /\ Issued(Head(sq)) /\ sq' = Tail(sq)
  /\ UNCHANGED <<at, list, rest, sock, numSockets, buf, peer, got>>

\* A connection arrives and gets a free slot; with none free the multishot
\* accept ends with an error.
Accepts(s) ==
  /\ kernel.accept = "armed" /\ peer[s].state = "away" /\ sock[s].state = "unused"
  /\ \/ \E d \in Dds :
          /\ slots[d] = None /\ \A e \in 0..d - 1 : slots[e] # None
          /\ slots' = [slots EXCEPT ![d] = s]
          /\ cq' = Append(cq, [Cqe("accept", s, "done") EXCEPT !.dd = d])
          /\ peer' = [peer EXCEPT ![s].state = "here"]
          /\ UNCHANGED kernel
     \/ /\ \A d \in Dds : slots[d] # None
        /\ cq' = Append(cq, Cqe("accept", s, "failed"))
        /\ peer' = [peer EXCEPT ![s].state = "gone"]
        /\ kernel' = [kernel EXCEPT !.accept = "ended"]
        /\ UNCHANGED slots
  /\ UNCHANGED <<at, sq, list, rest, sock, numSockets, buf, ring, got>>

Connected(s) ==
  /\ s \in kernel.connects
  /\ kernel' = [kernel EXCEPT !.connects = @ \ {s}]
  /\ \E answer \in {"here", "gone"} : peer' = [peer EXCEPT ![s].state = answer]
  /\ cq' = Append(cq, Cqe("connect", s, "done"))
  /\ UNCHANGED <<at, sq, list, rest, sock, numSockets, buf, ring, slots, got>>

\* A multishot receive goes on until it fails.
PeerSends(r) ==
  /\ peer[r.conn].state = "here" /\ peer[r.conn].sent < MaxReads
  /\ peer' = [peer EXCEPT ![r.conn].sent = @ + 1]
  /\ Received(r.s, "data")
  /\ kernel' = IF ring = <<>> THEN [kernel EXCEPT !.recvs = @ \ {r}] ELSE kernel
  /\ UNCHANGED <<at, sq, list, rest, sock, numSockets, buf, slots, got>>

PeerLeaves(r) ==
  /\ peer[r.conn].state = "here"
  /\ peer' = [peer EXCEPT ![r.conn].state = "gone"]
  /\ Received(r.s, "end")
  /\ kernel' = [kernel EXCEPT !.recvs = @ \ {r}]
  /\ UNCHANGED <<at, sq, list, rest, sock, numSockets, buf, slots, got>>

\* A send reads the buffer when it is executed.
Sends(i) ==
  /\ \A j \in 1..i - 1 : kernel.sends[j].conn # kernel.sends[i].conn
  /\ LET x == kernel.sends[i] IN
       /\ got' = [got EXCEPT ![x.conn] = Append(@, buf[x.s])]
       /\ cq' = Append(cq, Cqe("write", x.s, "done"))
  /\ kernel' = [kernel EXCEPT !.sends = RemoveAt(@, i)]
  /\ UNCHANGED <<at, sq, list, rest, sock, numSockets, buf, ring, slots, peer>>

TimerExpires ==
  /\ kernel.timer = "armed"
  /\ kernel' = [kernel EXCEPT !.timer = "idle"]
  /\ cq' = Append(cq, Cqe("timer", None, "done"))
  /\ UNCHANGED <<at, sq, list, rest, sock, numSockets, buf, ring, slots, peer, got>>

KernelNext ==
  \/ \E s \in Sockets : Accepts(s) \/ Connected(s)
  \/ \E r \in kernel.recvs : PeerSends(r) \/ PeerLeaves(r)
  \/ \E i \in DOMAIN kernel.sends : Sends(i)
  \/ TimerExpires

-----------------------------------------------------------------------------
(* The loop: one action per completion it finds, and one per socket swept.   *)

Reaps == /\ at = "reap" /\ cq # <<>> /\ Head(cq).res # ENOBUFS
         /\ cq' = Tail(cq)

Wakes ==
  /\ at = "submit" /\ sq = <<>> /\ cq # <<>>
  /\ at' = "reap"
  /\ UNCHANGED <<sq, cq, list, rest, sock, numSockets, buf, kernelVars>>

\* io_uring_cq_advance, and round again.
Drained ==
  /\ at = "reap" /\ cq = <<>>
  /\ at' = "submit"
  /\ UNCHANGED <<sq, cq, list, rest, sock, numSockets, buf, kernelVars>>

\* "this should not happen": exit(1).
OutOfBuffers ==
  /\ at = "reap" /\ cq # <<>> /\ Head(cq).res = ENOBUFS
  /\ at' = "down"
  /\ UNCHANGED <<sq, cq, list, rest, sock, numSockets, buf, kernelVars>>

RecvSqe(s, dd) == [op |-> "recv", s |-> s, dd |-> dd]

\* Mutant of Descriptor: numbers given out in turn, as for connections made.
DescriptorCounted(e) ==
  IF e.dd = -1 THEN -1 ELSE Cardinality({s \in Sockets : sock[s].state # "unused"})

Descriptor(e) == e.dd

\* A socket is made and on_open called even if the accept failed.
ReapAccept ==
  LET e == Head(cq)
      s == e.s
      dd == Descriptor(e)
      made == [sock EXCEPT ![s] = [@ EXCEPT !.state = "open", !.dd = dd]]
  IN
  /\ Reaps /\ e.tag = "accept"
  /\ list' = <<s>> \o list
  /\ Handler(s, made, IF dd >= 0 THEN Append(sq, RecvSqe(s, dd)) ELSE sq)
  /\ UNCHANGED <<at, rest, numSockets, kernelVars>>

\* Mutant of GiveBack: the buffer of a read is kept.
GiveBackNot(b) == ring' = ring

\* The buffer of the completion goes back to the ring.
GiveBack(b) == ring' = Append(ring, b)

ReapData ==
  LET e == Head(cq) IN
  /\ Reaps /\ e.tag = "read" /\ e.res = "data"
  /\ Handler(e.s, sock, sq)
  /\ GiveBack(e.bid)
  /\ UNCHANGED <<at, list, rest, numSockets, kernel, slots, peer, got>>

\* Mutant of CloseSqe: the slot is not released.
CloseSqeNone(s) == <<>>

CloseSqe(s) == <<Sqe("close", s)>>

\* The submission of the close is taken before on_close runs.
ReapEnd ==
  LET e == Head(cq) IN
  /\ Reaps /\ e.tag = "read" /\ e.res \in {"end", "failed"}
  /\ Handler(e.s, [sock EXCEPT ![e.s].state = "closed"], sq \o CloseSqe(e.s))
  /\ GiveBack(e.bid)
  /\ UNCHANGED <<at, list, rest, numSockets, kernel, slots, peer, got>>

\* What a write came to is not looked at.
ReapWrite ==
  /\ Reaps /\ Head(cq).tag = "write"
  /\ UNCHANGED <<at, sq, list, rest, sock, numSockets, buf, kernelVars>>

\* Nor whether a connect succeeded: its receive will tell.
ReapConnect ==
  LET s == Head(cq).s IN
  /\ Reaps /\ Head(cq).tag = "connect"
  /\ Handler(s, [sock EXCEPT ![s].state = "open"],
             Append(sq, RecvSqe(s, sock[s].dd)))
  /\ UNCHANGED <<at, list, rest, numSockets, kernelVars>>

ReapTimer ==
  /\ Reaps /\ Head(cq).tag = "timer"
  /\ at' = "sweep" /\ rest' = list
  /\ UNCHANGED <<sq, list, sock, numSockets, buf, kernelVars>>

\* us_internal_timer_sweep at the next socket, closed ones included: either no
\* timer is due, or one is, its handler runs and the other may be left.
SweepNext ==
  LET s == Head(rest) IN
  /\ at = "sweep" /\ rest # <<>>
  /\ rest' = Tail(rest)
  /\ \/ UNCHANGED <<sq, sock, buf>>
     \/ /\ sock[s].timed
        /\ \E t \in BOOLEAN : Handler(s, [sock EXCEPT ![s].timed = t], sq)
  /\ UNCHANGED <<at, cq, list, numSockets, kernelVars>>

\* The timer is read again.
SweepDone ==
  /\ at = "sweep" /\ rest = <<>>
  /\ at' = "reap"
  /\ sq' = Append(sq, [op |-> "read_timer", s |-> None, dd |-> -1])
  /\ UNCHANGED <<cq, list, rest, sock, numSockets, buf, kernelVars>>

Reap == ReapAccept \/ ReapData \/ ReapEnd \/ ReapWrite \/ ReapConnect \/ ReapTimer

LoopNext ==
  Issue \/ Wakes \/ Drained \/ OutOfBuffers \/ Reap \/ SweepNext \/ SweepDone

Next ==
  \/ Listen \/ Run
  \/ \E s \in Sockets : ConnectFails(s) \/ Connect(s)
  \/ LoopNext
  \/ KernelNext

\* The loop is never left while it has work: handlers return.
Spec == Init /\ [][Next]_vars /\ WF_vars(LoopNext)

-----------------------------------------------------------------------------
(* Properties.                                                               *)

\* Every buffer of the ring is in one place: waiting in the ring or held by one
\* completion.  Lost buffers end the process at line 126 of io_loop.c; a buffer
\* in two places hands one connection's bytes to the handler of another.
BuffersConserved ==
  \A b \in Buffers :
    Cardinality({i \in DOMAIN ring : ring[i] = b})
      + Cardinality({i \in DOMAIN cq : cq[i].tag = "read" /\ cq[i].res # ENOBUFS
                                       /\ cq[i].bid = b}) = 1

\* What a peer receives is what was written on its socket, in order and once:
\* the submission names a slot and an address, and both are read later, when
\* the slot may have been given away and the address overwritten.
OwnSends ==
  \A s \in Sockets : got[s] = [i \in 1..Len(got[s]) |-> <<s, i>>]

\* A slot of the direct descriptor table is held by a socket that will release
\* it: one whose accept is not yet seen, one that is open and believes in this
\* very slot, or one whose close is queued.
SlotsOwned ==
  \A d \in Dds : slots[d] # None =>
    LET s == slots[d] IN
    CASE sock[s].state = "unused" ->
           \E i \in DOMAIN cq : cq[i].tag = "accept" /\ cq[i].s = s /\ cq[i].dd = d
      [] sock[s].state \in {"linked", "open"} -> sock[s].dd = d
      [] sock[s].state = "closed" ->
           \E i \in DOMAIN sq : sq[i].op = "close" /\ sq[i].dd = d

\* The slot of a connection whose peer is gone is released, unless the process
\* ended for lack of buffers.
Reaped ==
  \A s \in Sockets :
    peer[s].state = "gone" ~> (at = "down" \/ \A d \in Dds : slots[d] # s)
=============================================================================
