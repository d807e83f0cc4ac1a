--------------------------------- MODULE Quic ---------------------------------
(***************************************************************************)
(* QUIC over UDP sockets: contexts with a server and a client engine each,  *)
(* the connections and streams of those engines, the packets the engines    *)
(* hand to send_packets_out, and the header sets of the streams.            *)
(*                                                                         *)
(* The engine is lsquic, which is external: it calls back while one of its  *)
(* entry points runs.  todo holds the entry points that are still to run in *)
(* the handler of the loop that is in progress, sending the locals of       *)
(* send_packets_out.  A UDP socket is named after the context it listens    *)
(* for, or after the connection it was made for.                            *)
(***************************************************************************)
EXTENDS Integers, Sequences, FiniteSets, SequencesExt

CONSTANTS
  Contexts, Conns, Streams,
  MaxIov,      \* UIO_MAXIOV, the longest run of datagrams
  PoolSize,    \* header buffers, 1000 in the code
  MaxPackets,  \* bound: packets of each connection
  MaxData,     \* bound: chunks a peer sends on a stream
  Inputs       \* peers' and the application's habits explored

ASSUME RunAssumption == MaxIov \in Nat \ {0} /\ PoolSize \in Nat

VARIABLES
  created,    \* the contexts in the order they were made
  listening,  \* the contexts that have a UDP socket to listen on
  conn, stream,
  unsent,     \* packets an engine holds
  blocked,    \* engines that wait for lsquic_engine_send_unsent_packets
  todo, sending,
  wire,       \* what each UDP socket sent, history
  pool,       \* pool_top, last_hset and whose header set is in each buffer
  oldCtx      \* old_ctx, by the context its certificate is from

vars == <<created, listening, conn, stream, unsent, blocked, todo, sending,
          wire, pool, oldCtx>>

None    == "none"
NoEngine == <<None, None>>
Roles   == {"server", "client"}
Engines == Contexts \X Roles
Udps    == Contexts \cup Conns

Idle(e) == [e |-> e, n |-> 0, sent |-> 0]
Resting == sending.n = 0
InLoop  == todo = <<>> /\ Resting

NoConn   == [state |-> "none", engine |-> NoEngine, udp |-> None, packets |-> 0]
\* headers: none yet, decoded, or taken from the stream; data and fin: what is
\* readable; events: the handlers called, history.
NoStream == [state |-> "none", conn |-> None, headers |-> None, data |-> 0,
             received |-> 0, fin |-> FALSE, wantRead |-> FALSE,
             wantWrite |-> FALSE, events |-> <<>>]

Init ==
  /\ created = <<>> /\ listening = {} /\ oldCtx = None
  /\ conn = [c \in Conns |-> NoConn]
  /\ stream = [s \in Streams |-> NoStream]
  /\ unsent = [e \in Engines |-> <<>>]
  /\ blocked = [e \in Engines |-> FALSE]
  /\ todo = <<>> /\ sending = Idle(NoEngine)
  /\ wire = [u \in Udps |-> <<>>]
  /\ pool = [top |-> 0, last |-> 0, owner |-> [i \in 1..PoolSize |-> None]]

connVars   == <<conn, stream, pool, oldCtx>>
packetVars == <<unsent, blocked, sending, wire>>

-----------------------------------------------------------------------------
(* Contexts, UDP sockets and the timer.                                      *)

\* us_create_quic_socket_context: two engines, a timer of 50 ms, and the global
\* engines are now those of this context.
CreateContext(x) ==
  /\ InLoop /\ x \notin ToSet(created)
  /\ created = <<>> \/ "contexts" \in Inputs
  /\ created' = Append(created, x)
  /\ UNCHANGED <<listening, connVars, packetVars, todo>>

Listen(x) ==
  /\ InLoop /\ x \in ToSet(created) \ listening
  /\ listening' = listening \cup {x}
  /\ UNCHANGED <<created, connVars, packetVars, todo>>

Process(e) == <<"process", e>>
Unsent(e)  == <<"unsent", e>>
Exit       == <<"exit", None>>

\* Mutant of TimerWork: the engines process, and nothing is retried.
TimerWorkNoRetry(x) == <<Process(<<x, "server">>), Process(<<x, "client">>)>>

TimerWork(x) == <<Process(<<x, "server">>), Process(<<x, "client">>),
                  Unsent(<<x, "server">>), Unsent(<<x, "client">>)>>

\* Every context has a timer, and each of them serves the global engines.
TimerCb ==
  /\ InLoop /\ created # <<>>
  /\ todo' = TimerWork(Last(created))
  /\ UNCHANGED <<created, listening, connVars, packetVars>>

\* Packets, or none and an error, were received on a socket.  What they bring
\* shows in what the engine calls while it processes; the server's engine
\* processes once before it is given them as well.
UdpRead(u) ==
  /\ InLoop
  /\ \/ u \in listening
        /\ todo' = <<Process(<<u, "server">>), Process(<<u, "server">>)>>
     \/ /\ u \in Conns /\ conn[u].udp = u
        /\ todo' = <<Process(conn[u].engine)>>
  /\ UNCHANGED <<created, listening, connVars, packetVars>>

\* A connection to a peer, on a UDP socket of its own.
Connect(x, c) ==
  /\ InLoop /\ x \in ToSet(created) /\ conn[c].state = "none"
  /\ conn' = [conn EXCEPT ![c] = [@ EXCEPT !.state = "open", !.udp = c,
                                           !.engine = <<x, "client">>]]
  /\ todo' = <<Process(<<x, "client">>)>>
  /\ UNCHANGED <<created, listening, stream, pool, oldCtx, packetVars>>

-----------------------------------------------------------------------------
(* Sending.                                                                  *)

Processing(e) == Resting /\ todo # <<>> /\ Head(todo) = Process(e)

\* A connection has something to send.
Packet(e, c) ==
  /\ Processing(e) /\ conn[c].engine = e
  /\ conn[c].packets < MaxPackets[c]
  /\ conn' = [conn EXCEPT ![c].packets = @ + 1]
  /\ unsent' = [unsent EXCEPT ![e] = Append(@, [c |-> c, n |-> conn[c].packets + 1])]
  /\ UNCHANGED <<created, listening, stream, pool, oldCtx, blocked, todo, sending, wire>>

\* The entry point ends, and hands over a batch of what it holds, unless the
\* last batch was not taken and nobody asked for the rest since.
Flush(e) ==
  /\ Resting /\ todo # <<>> /\ Head(todo) \in {Process(e), Unsent(e)}
  /\ LET waits == blocked[e] /\ Head(todo) = Process(e) IN
       IF waits \/ unsent[e] = <<>>
       THEN UNCHANGED <<sending, blocked>>
       ELSE /\ \E n \in 1..Len(unsent[e]) : sending' = [e |-> e, n |-> n, sent |-> 0]
            /\ blocked' = [blocked EXCEPT ![e] = FALSE]
  /\ todo' = Tail(todo)
  /\ UNCHANGED <<created, listening, connVars, unsent, wire>>

UdpOf(p) == conn[p.c].udp

\* The run of datagrams after the first `from` of the n specs in q: all for one
\* socket, and as many as one system call takes.
RunLength(q, from, n) ==
  CHOOSE k \in 1..n - from :
    /\ k <= MaxIov
    /\ \A i \in 1..k : UdpOf(q[from + i]) = UdpOf(q[from + 1])
    /\ \/ from + k = n \/ k = MaxIov
       \/ UdpOf(q[from + k + 1]) # UdpOf(q[from + 1])

\* Mutant of Answer: the datagrams of the run that fell short are not counted.
AnswerShort(sent, k) == sent

\* What send_packets_out returns when k of the last run were sent.
Answer(sent, k) == sent + k

\* One bsd_sendmmsg, which takes k datagrams of the run; none is its -1.  The
\* engine drops as many packets as send_packets_out returns.
SendRun(k) ==
  LET e    == sending.e
      q    == unsent[e]
      run  == RunLength(q, sending.sent, sending.n)
      done == sending.sent + k = sending.n
      ret  == Answer(sending.sent, k)
      udp  == UdpOf(q[sending.sent + 1])
  IN
  /\ ~Resting /\ k <= run
  /\ wire' = [wire EXCEPT ![udp] = @ \o SubSeq(q, sending.sent + 1, sending.sent + k)]
  /\ IF k = run /\ ~done
     THEN /\ sending' = [sending EXCEPT !.sent = @ + k]
          /\ UNCHANGED <<unsent, blocked>>
     ELSE /\ sending' = Idle(NoEngine)
          /\ unsent' = [unsent EXCEPT ![e] = SubSeq(q, ret + 1, Len(q))]
          /\ blocked' = [blocked EXCEPT ![e] = ~done]
  /\ UNCHANGED <<created, listening, connVars, todo>>

-----------------------------------------------------------------------------
(* Connections and streams: what the engine calls back while it processes.   *)

Calls == UNCHANGED <<created, listening, packetVars, todo>>

\* on_new_conn of a server, after get_ssl_ctx, whose certificate is made once
\* for all contexts.
OnNewConn(e, c) ==
  /\ Processing(e) /\ e[2] = "server" /\ e[1] \in listening
  /\ conn[c].state = "none"
  /\ conn' = [conn EXCEPT ![c] = [@ EXCEPT !.state = "open", !.engine = e, !.udp = e[1]]]
  /\ oldCtx' = IF oldCtx = None THEN e[1] ELSE oldCtx
  /\ UNCHANGED <<stream, pool>> /\ Calls

\* on_stream_close of every stream, which tells the application nothing, then
\* on_conn_closed.
OnConnClosed(e, c) ==
  /\ Processing(e) /\ conn[c].state = "open" /\ conn[c].engine = e
  /\ conn' = [conn EXCEPT ![c].state = "closed"]
  /\ stream' = [s \in Streams |-> IF stream[s].conn # c THEN stream[s]
                                  ELSE [stream[s] EXCEPT !.state = "closed"]]
  /\ UNCHANGED <<pool, oldCtx>> /\ Calls

\* What a handler makes of its stream st: nothing, us_quic_stream_write in full
\* or not, or us_quic_stream_close.
AfterCalls(st) ==
  {st, [st EXCEPT !.wantWrite = FALSE], [st EXCEPT !.wantWrite = TRUE],
   [st EXCEPT !.state = "closed"]}

\* Either side opened the stream.  It wants to read from the start.
OnNewStream(e, c, s) ==
  LET opened == [stream[s] EXCEPT !.state = "open", !.conn = c,
                   !.wantRead = TRUE, !.events = <<<<"open", s>>>>] IN
  /\ Processing(e) /\ conn[c].state = "open" /\ conn[c].engine = e
  /\ stream[s].state = "none"
  /\ \E after \in AfterCalls(opened) : stream' = [stream EXCEPT ![s] = after]
  /\ UNCHANGED <<conn, pool, oldCtx>> /\ Calls

Live(e, s) == /\ Processing(e) /\ stream[s].state = "open"
              /\ conn[stream[s].conn].engine = e

\* The headers of s are decoded, and its handler can still be told of them.
Undelivered(s) == stream[s].state = "open" /\ stream[s].headers = "decoded"

\* Inputs without "ahead" has the engine decode the headers of a stream right
\* before it calls on_read for it, so that no second set is in use meanwhile.
MayDecode == "ahead" \in Inputs \/ \A s \in Streams : ~Undelivered(s)

\* hsi_create_header_set, hsi_prepare_decode and hsi_process_header: a buffer
\* for the set and one for the header; at the end of the headers the set is
\* the last one.  take() on an empty pool is exit(0).
Decode(e, s) ==
  /\ Live(e, s) /\ stream[s].headers = None /\ MayDecode
  /\ IF pool.top + 2 > PoolSize
     THEN todo' = <<Exit>> /\ UNCHANGED <<pool, stream>>
     ELSE /\ pool' = [top |-> pool.top + 2, last |-> pool.top + 1,
                      owner |-> [i \in 1..PoolSize |->
                        IF i \in pool.top + 1..pool.top + 2 THEN s ELSE pool.owner[i]]]
          /\ stream' = [stream EXCEPT ![s].headers = "decoded"]
          /\ UNCHANGED todo
  /\ UNCHANGED <<created, listening, conn, oldCtx, packetVars>>

\* A chunk, or the end of the stream, becomes readable.
Arrives(e, s) ==
  /\ Live(e, s) /\ stream[s].headers # None /\ ~stream[s].fin
  /\ \/ /\ stream[s].received < MaxData
        /\ stream' = [stream EXCEPT ![s].data = @ + 1, ![s].received = @ + 1]
     \/ stream' = [stream EXCEPT ![s].fin = TRUE]
  /\ UNCHANGED <<conn, pool, oldCtx>> /\ Calls

HeadersTaken(s) ==
  IF stream[s].headers # "decoded" THEN stream[s]
  ELSE [stream[s] EXCEPT !.headers = "taken",
                         !.events = Append(@, <<"headers", pool.owner[pool.last]>>)]

\* Mutant of AtEnd: the stream still wants to read.
AtEndReading(s, st) == [st EXCEPT !.events = Append(@, <<"end", s>>)]

AtEnd(s, st) == [st EXCEPT !.wantRead = FALSE, !.events = Append(@, <<"end", s>>)]

\* lsquic_stream_read after the headers were taken: a chunk, the end, or
\* nothing yet.
Read(s, st) ==
  CASE st.data > 0              -> [st EXCEPT !.data = @ - 1,
                                              !.events = Append(@, <<"data", s>>)]
    [] st.data = 0 /\ st.fin    -> AtEnd(s, st)
    [] st.data = 0 /\ ~st.fin   -> st

\* on_read: the headers, which give all header sets back, then one read.  With
\* "close_in_headers" the headers handler may close the stream, and the read
\* fails with an error that ends the process.
OnRead(e, s) ==
  LET st == stream[s] IN
  /\ Live(e, s) /\ st.wantRead
  /\ st.headers = "decoded" \/ st.data > 0 \/ st.fin
  /\ pool' = IF st.headers = "decoded" THEN [pool EXCEPT !.top = 0] ELSE pool
  /\ \/ /\ \E after \in AfterCalls(Read(s, HeadersTaken(s))) :
             stream' = [stream EXCEPT ![s] = after]
        /\ UNCHANGED todo
     \/ /\ "close_in_headers" \in Inputs /\ st.headers = "decoded"
        /\ stream' = [stream EXCEPT ![s] = [HeadersTaken(s) EXCEPT !.state = "closed"]]
        /\ todo' = <<Exit>>
  /\ UNCHANGED <<created, listening, conn, oldCtx, packetVars>>

\* on_write: nothing is changed unless the handler writes.
OnWrite(e, s) ==
  /\ Live(e, s) /\ stream[s].wantWrite
  /\ \E after \in AfterCalls(stream[s]) : stream' = [stream EXCEPT ![s] = after]
  /\ UNCHANGED <<conn, pool, oldCtx>> /\ Calls

-----------------------------------------------------------------------------

Sends == \E k \in 0..sending.n : SendRun(k)

Engine(e) ==
  \/ Flush(e)
  \/ \E c \in Conns : Packet(e, c) \/ OnNewConn(e, c) \/ OnConnClosed(e, c)
  \/ \E c \in Conns, s \in Streams : OnNewStream(e, c, s)
  \/ \E s \in Streams : Decode(e, s) \/ Arrives(e, s) \/ OnRead(e, s) \/ OnWrite(e, s)

Next ==
  \/ \E x \in Contexts : CreateContext(x) \/ Listen(x)
  \/ \E x \in Contexts, c \in Conns : Connect(x, c)
  \/ TimerCb
  \/ \E u \in Udps : UdpRead(u)
  \/ \E e \in Engines : Engine(e)
  \/ Sends

SendsAll == ~Resting /\ SendRun(RunLength(unsent[sending.e], sending.sent, sending.n))

\* A handler returns; the timer is one of the polls of every iteration; a full
\* UDP socket drains.
Fairness ==
  /\ WF_vars(Sends \/ \E e \in Engines : Flush(e))
  /\ SF_vars(TimerCb) /\ SF_vars(SendsAll)

Spec == Init /\ [][Next]_vars /\ Fairness

-----------------------------------------------------------------------------
(* Properties.                                                               *)

\* The packets of c in q are its packets from the first to the n-th, each of them
\* once, in order.
Numbered(c, q, n) ==
  /\ \A k \in 1..n : \E i \in DOMAIN q : q[i] = [c |-> c, n |-> k]
  /\ \A i \in DOMAIN q : q[i].c = c => q[i].n \in 1..n
  /\ \A i, j \in DOMAIN q : i < j /\ q[i].c = c /\ q[j].c = c => q[i].n < q[j].n

\* What the engine still has to send: it forgets a batch when send_packets_out returns.
Holds(e) == IF sending.e = e THEN SubSeq(unsent[e], sending.sent + 1, Len(unsent[e]))
            ELSE unsent[e]

\* Each packet of a connection is sent once, in order and on the connection's
\* own socket, or is still held by the engine: after a batch that was cut off
\* in any of its runs the engine takes the answer for the number of packets to
\* forget.
PacketsOnce ==
  \A c \in Conns : conn[c].state # "none" =>
    Numbered(c, wire[conn[c].udp] \o Holds(conn[c].engine), conn[c].packets)

\* The application hears of a stream in order: that it opened, its own headers,
\* every chunk once, and its end once and last.
StreamOrder ==
  \A s \in Streams :
    LET ev == stream[s].events IN
    /\ \A i \in DOMAIN ev :
         /\ ev[i][2] = s
         /\ ev[i][1] = "open" <=> i = 1
         /\ ev[i][1] = "headers" <=> i = 2
         /\ ev[i][1] = "end" => i = Len(ev) /\ stream[s].data = 0
    /\ Cardinality({i \in DOMAIN ev : ev[i][1] = "data"}) + stream[s].data = stream[s].received

Held(c) == \E e \in Engines : \E i \in DOMAIN unsent[e] : unsent[e][i].c = c

\* A packet a socket refused is sent in the end, although the writable callback
\* of a UDP socket is never called: the timer asks for it.
SentInTheEnd == \A c \in Conns : Held(c) ~> ~Held(c)
=============================================================================
