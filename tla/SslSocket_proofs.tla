---------------------------- MODULE SslSocket_proofs ----------------------------
(***************************************************************************)
(* Proofs about the SSL sockets of a loop, for any number of sockets, any   *)
(* windows of records a peer sends and any receive buffer, as long as       *)
(* handlers do not use a socket from the on_data of a full buffer           *)
(* ("use_when_full"): the code does not keep the properties then.           *)
(***************************************************************************)
EXTENDS SslSocket, TLAPS

(***************************************************************************)
(* The inductive invariant: what holds of each socket alone, what the       *)
(* library's position says of the socket it works for, and what the shared  *)
(* BIOs hold at that position.                                              *)
(***************************************************************************)
GoodSocket(s, r) ==
  /\ r \in SslSockets
  /\ r.mixed = {} /\ ~r.skipped
  /\ r.conn \in {"open", "notified", "shut_down"} => r.ssl \in {"init", "up"}
  /\ r.armed => r.conn \in {"open", "notified", "shut_down"}

GoodSockets(m) ==
  /\ m = [s \in Sockets |-> m[s]]
  /\ \A s \in Sockets : GoodSocket(s, m[s])

Typing ==
  /\ cur \in Sockets \cup {NULL} /\ (at # "idle" => cur \in Sockets)
  /\ bio \in [input : Seq(Records), of : Sockets \cup {NULL}, target : Sockets \cup {NULL}]
  /\ read \in Nat /\ retry \in BOOLEAN /\ inner \in BOOLEAN

\* Where no handler of cur can have run, cur is not closed.
Control ==
  /\ at \in {"bye", "read", "get_shutdown", "writable"} => cb = NoHandler /\ ~Closed(cur)
  /\ at = "full" /\ cb # NoHandler => cb.ev = "on_data"
  /\ at \in {"idle", "written"} => ~inner

\* The input is used up, or belongs to a socket that will not read it.
Spent == bio.input = <<>> \/ bio.of = NULL \/ Closed(bio.of) \/ ShutDown(bio.of)

Aimed ==
  /\ at \in {"bye", "read", "full"} => bio.of = cur /\ bio.target = cur
  /\ at = "bye" => ShutDown(cur)
  /\ at \notin {"bye", "read", "full"} => Spent

Inv == GoodSockets(sk) /\ Typing /\ Control /\ Aimed

Careful == "use_when_full" \notin Inputs

-----------------------------------------------------------------------------
(* Sockets and the operators on them.                                        *)

Put(m, s, r, n) == n = [m EXCEPT ![s] = r]

\* A good socket is put in the place of one.
LEMMA PutGood ==
  ASSUME NEW m, GoodSockets(m), NEW s \in Sockets, NEW r, GoodSocket(s, r),
         NEW n, Put(m, s, r, n)
  PROVE  GoodSockets(n) /\ n[s] = r /\ \A t \in Sockets \ {s} : n[t] = m[t]
BY DEF GoodSockets, Put

\* ssl_on_close leaves a closed socket, and the others as they are.
LEMMA CloseInGood ==
  ASSUME NEW m, GoodSockets(m), NEW s \in Sockets
  PROVE  /\ GoodSockets(CloseIn(m, s))
         /\ CloseIn(m, s)[s].conn = "closed"
         /\ \A t \in Sockets \ {s} : CloseIn(m, s)[t] = m[t]
<1> DEFINE r == [m[s] EXCEPT !.conn = "closed", !.ssl = "freed", !.ahead = <<>>, !.armed = FALSE]
<1>1. GoodSocket(s, m[s])
  BY DEF GoodSockets
<1> <<>> \in Seq(Records)
  OBVIOUS
<1>2. GoodSocket(s, r)
  BY <1>1 DEF GoodSocket, SslSockets
<1>3. Put(m, s, r, CloseIn(m, s))
  BY <1>1 DEF Put, CloseIn, GoodSockets, GoodSocket, SslSockets
<1>4. r.conn = "closed"
  BY <1>1 DEF GoodSocket, SslSockets
<1> HIDE DEF r
<1> QED
  BY <1>2, <1>3, <1>4, PutGood

\* Input that is spent is not missed when it is dropped.
LEMMA DropInputSame ==
  ASSUME NEW m, Spent
  PROVE  DropInput(m) = m
BY DEF Spent, DropInput

\* SSL_read takes a record of what is ahead.
LEMMA ConsumedGood ==
  ASSUME GoodSockets(sk), cur \in Sockets, sk[cur].ahead # <<>>
  PROVE  /\ GoodSockets(Consumed(sk))
         /\ \A t \in Sockets : Consumed(sk)[t].conn = sk[t].conn
         /\ Consumed(sk)[cur] = [sk[cur] EXCEPT !.ahead = Tail(@)]
         /\ \A t \in Sockets \ {cur} : Consumed(sk)[t] = sk[t]
<1> DEFINE q == Tail(sk[cur].ahead)
           r == [sk[cur] EXCEPT !.ahead = q]
<1>1. GoodSocket(cur, sk[cur])
  BY DEF GoodSockets
<1>2. q \in Seq(Records)
  <2>1. sk[cur].ahead \in Seq(Records)
    BY <1>1 DEF GoodSocket, SslSockets
  <2> QED
    BY <2>1
<1>3. r = [sk[cur] EXCEPT !.ahead = Tail(@)]
  BY <1>1 DEF GoodSocket, SslSockets
<1>4. Put(sk, cur, r, Consumed(sk))
  BY <1>1 DEF Put, Consumed, GoodSockets, GoodSocket, SslSockets
<1> HIDE DEF q
<1>5. GoodSocket(cur, r) /\ r.conn = sk[cur].conn
  BY <1>1, <1>2 DEF GoodSocket, SslSockets
<1> HIDE DEF r
<1>6. /\ GoodSockets(Consumed(sk)) /\ Consumed(sk)[cur] = r
      /\ \A t \in Sockets \ {cur} : Consumed(sk)[t] = sk[t]
  BY <1>4, <1>5, PutGood
<1>7. \A t \in Sockets : Consumed(sk)[t].conn = sk[t].conn
  BY <1>5, <1>6
<1> QED
  BY <1>3, <1>6, <1>7

\* The socket s, once its SSL has written to it: what the kernel did not take stays,
\* and the poll is for writing.
AfterWrite(r, s, taken, what) ==
  [r EXCEPT !.out = IF taken THEN "none" ELSE what, !.armed = @ \/ (~taken /\ CanSend(s))]

LEMMA AfterWriteFields ==
  ASSUME NEW s \in Sockets, NEW r, GoodSocket(s, r), NEW taken \in BOOLEAN,
         NEW what \in {"none", "answer", "record"}, NEW w, w = AfterWrite(r, s, taken, what)
  PROVE  /\ w \in SslSockets
         /\ w.conn = r.conn /\ w.ssl = r.ssl /\ w.ahead = r.ahead /\ w.owed = r.owed
         /\ w.mixed = r.mixed /\ w.skipped = r.skipped
         /\ w.ssl_write_wants_read = r.ssl_write_wants_read
         /\ w.ssl_read_wants_write = r.ssl_read_wants_write
         /\ w.armed = (r.armed \/ (~taken /\ CanSend(s)))
<1> DEFINE o == IF taken THEN "none" ELSE what
           a == ~taken /\ CanSend(s)
<1>1. w = [r EXCEPT !.out = o, !.armed = @ \/ a]
  BY DEF AfterWrite
<1>2. o \in {"none", "answer", "record"}
  OBVIOUS
<1> HIDE DEF o
<1> QED
  BY <1>1, <1>2 DEF GoodSocket, SslSockets

\* What an SSL writes to its own socket is written there, and arms at most it.
LEMMA BioWriteGood ==
  ASSUME NEW m, GoodSockets(m), NEW s \in Sockets, m[s].conn = sk[s].conn, NEW taken \in BOOLEAN,
         NEW what \in {"none", "answer", "record"}
  PROVE  /\ GoodSockets(BioWrite(m, s, s, taken, what))
         /\ BioWrite(m, s, s, taken, what)[s] = AfterWrite(m[s], s, taken, what)
         /\ \A t \in Sockets \ {s} : BioWrite(m, s, s, taken, what)[t] = m[t]
<1> DEFINE o == IF taken THEN "none" ELSE what
           a == ~taken /\ CanSend(s)
           x == m[s].mixed \cup ({s} \ {s})
           r == [m[s] EXCEPT !.mixed = x, !.out = o]
           n == [m EXCEPT ![s].mixed = x, ![s].out = o]
           q == AfterWrite(m[s], s, taken, what)
<1>1. GoodSocket(s, m[s])
  BY DEF GoodSockets
<1>2. BioWrite(m, s, s, taken, what) = IF a THEN [n EXCEPT ![s].armed = TRUE] ELSE n
  BY DEF BioWrite
<1>3. o \in {"none", "answer", "record"} /\ x = m[s].mixed
  <2>1. o \in {"none", "answer", "record"}
    OBVIOUS
  <2>2. m[s].mixed = {}
    BY <1>1 DEF GoodSocket
  <2>3. x = m[s].mixed
    BY <2>2
  <2> QED
    BY <2>1, <2>3
<1>4. a => m[s].conn \in {"open", "notified", "shut_down"}
  BY DEF CanSend
<1>5. GoodSocket(s, q)
  <2>1. PICK w : w = q
    OBVIOUS
  <2>2. /\ w \in SslSockets
        /\ w.conn = m[s].conn /\ w.ssl = m[s].ssl /\ w.mixed = m[s].mixed /\ w.skipped = m[s].skipped
        /\ w.armed = (m[s].armed \/ a)
    BY <1>1, <2>1, AfterWriteFields
  <2> HIDE DEF a, q
  <2>3. GoodSocket(s, w)
    BY <1>1, <1>4, <2>2 DEF GoodSocket
  <2> QED
    BY <2>1, <2>3
<1>6. q = [m[s] EXCEPT !.out = o, !.armed = @ \/ a]
  BY DEF AfterWrite
<1> HIDE DEF o, x, a, q
<1>7. a => q = [r EXCEPT !.armed = TRUE]
  BY <1>1, <1>3, <1>6 DEF GoodSocket, SslSockets
<1>8. ~a => q = r
  BY <1>1, <1>3, <1>6 DEF GoodSocket, SslSockets
<1>9. m = [t \in Sockets |-> m[t]]
  BY DEF GoodSockets
<1>10. n = [m EXCEPT ![s] = r]
  BY <1>1, <1>9 DEF GoodSocket, SslSockets
<1> HIDE DEF n, r
<1>11. [n EXCEPT ![s].armed = TRUE] = [m EXCEPT ![s] = [r EXCEPT !.armed = TRUE]]
  BY <1>9, <1>10
<1>12. Put(m, s, q, BioWrite(m, s, s, taken, what))
  BY <1>2, <1>7, <1>8, <1>10, <1>11 DEF Put
<1>13. /\ GoodSockets(BioWrite(m, s, s, taken, what))
       /\ BioWrite(m, s, s, taken, what)[s] = q
       /\ \A t \in Sockets \ {s} : BioWrite(m, s, s, taken, what)[t] = m[t]
  BY <1>5, <1>12, PutGood
<1> QED
  BY <1>13 DEF q

-----------------------------------------------------------------------------
(* The actions: ssl_on_data.                                                  *)

LEMMA InitGood == Init => Inv
<1> SUFFICES ASSUME Init PROVE Inv
  OBVIOUS
<1>1. GoodSockets(sk)
  BY DEF Init, GoodSockets, GoodSocket, SslSockets, Blank
<1>2. Typing
  <2>1. bio = [input |-> <<>>, of |-> NULL, target |-> NULL] /\ <<>> \in Seq(Records)
    BY DEF Init
  <2>2. bio \in [input : Seq(Records), of : Sockets \cup {NULL}, target : Sockets \cup {NULL}]
    BY <2>1
  <2> QED
    BY <2>2 DEF Init, Typing
<1>3. Control /\ Aimed
  BY DEF Init, Control, Aimed, Spent
<1> QED
  BY <1>1, <1>2, <1>3 DEF Inv

LEMMA OpenStep ==
  ASSUME Inv, NEW s \in Sockets, Open(s)
  PROVE  Inv'
<1>1. GoodSockets(sk')
  <2> DEFINE r == [Blank EXCEPT !.conn = "open", !.ssl = "init"]
  <2>1. GoodSocket(s, r)
    <3>1. <<>> \in Seq(Records)
      OBVIOUS
    <3>2. Blank \in SslSockets
      BY <3>1 DEF Blank, SslSockets
    <3>3. Blank.mixed = {} /\ ~Blank.skipped /\ ~Blank.armed
      BY DEF Blank
    <3> QED
      BY <3>2, <3>3 DEF GoodSocket, SslSockets
  <2> HIDE DEF r
  <2>2. Put(sk, s, r, sk')
    BY DEF Put, Open, r
  <2> QED
    BY <2>1, <2>2, PutGood DEF Inv
<1>2. \A t \in Sockets \ {s} : sk'[t] = sk[t]
  BY DEF Open, Inv, GoodSockets
<1>3. Typing'
  BY DEF Open, Inv, Typing, local
<1>4. Control'
  BY DEF Open, Inv, Control, local
<1>5. Spent'
  <2>1. Spent
    BY DEF Open, Inv, Aimed
  <2> QED
    BY <1>2, <2>1 DEF Open, Inv, Typing, Spent, Closed, ShutDown
<1>6. Aimed'
  BY <1>5 DEF Open, Aimed, local
<1> QED
  BY <1>1, <1>3, <1>4, <1>6 DEF Inv

\* The socket that is closed may be any, cur too: the library relies on cur being
\* open only where no handler runs.
LEMMA CloseGood ==
  ASSUME Inv, NEW s \in Sockets, sk' = CloseIn(sk, s), UNCHANGED <<bio, local>>,
         at \notin {"bye", "read", "get_shutdown", "writable"},
         cb # NoHandler \/ at = "idle",
         cb'.ev = cb.ev \/ at = "idle"
  PROVE  Inv'
<1>1. /\ GoodSockets(sk') /\ sk'[s].conn = "closed"
      /\ \A t \in Sockets \ {s} : sk'[t] = sk[t]
  BY CloseInGood DEF Inv
<1>2. Typing'
  BY DEF Inv, Typing, local
<1>3. Control'
  BY <1>1 DEF Inv, Control, Typing, Closed, local
<1>4. Aimed'
  BY <1>1 DEF Inv, Aimed, Typing, Spent, Closed, ShutDown, local
<1> QED
  BY <1>1, <1>2, <1>3, <1>4 DEF Inv

LEMMA RecvStep ==
  ASSUME Inv, NEW s \in Sockets, Recv(s)
  PROVE  Inv'
<1>1. PICK w \in Windows : Begin(s, w) /\ sk' = [DropInput(sk) EXCEPT ![s].mid = w[Len(w)] = "part"]
  BY DEF Recv
<1>2. DropInput(sk) = sk
  BY DropInputSame DEF Recv, Inv, Aimed
<1> DEFINE e == w[Len(w)] = "part"
           r == [sk[s] EXCEPT !.mid = e]
<1>3. GoodSocket(s, r) /\ r.conn = sk[s].conn
  <2>1. e \in BOOLEAN
    OBVIOUS
  <2> HIDE DEF e
  <2> QED
    BY <2>1 DEF Inv, GoodSockets, GoodSocket, SslSockets
<1>4. Put(sk, s, r, sk')
  BY <1>1, <1>2 DEF Put, Inv, GoodSockets, GoodSocket, SslSockets
<1> HIDE DEF r
<1>6. GoodSockets(sk') /\ sk'[s].conn = sk[s].conn
  BY <1>3, <1>4, PutGood DEF Inv
<1>7. Typing'
  BY <1>1, WindowsAssumption DEF Recv, Begin, Inv, Typing
<1>8. ~inner' /\ ~retry' /\ cb' = NoHandler /\ at' \in {"bye", "read"} /\ cur' = s
  BY <1>1 DEF Recv, Begin, Inv, Control
<1>9. Control'
  BY <1>6, <1>8 DEF Recv, Control, Closed
<1>10. Aimed'
  BY <1>1, <1>6, <1>8 DEF Begin, Aimed, ShutDown
<1> QED
  BY <1>6, <1>7, <1>9, <1>10 DEF Inv

\* SSL_read or SSL_shutdown of the library goes on: it takes no handler and no socket away.
LEMMA ReadsOn ==
  ASSUME Inv, at \in {"bye", "read"}, GoodSockets(sk'), sk'[cur].conn = sk[cur].conn,
         UNCHANGED <<at, cur, retry, inner, cb>>, read' \in Nat,
         bio' \in [input : Seq(Records), of : Sockets \cup {NULL}, target : Sockets \cup {NULL}],
         bio'.of = bio.of, bio'.target = bio.target
  PROVE  Inv'
<1>1. Typing'
  BY DEF Inv, Typing
<1>2. Control'
  BY DEF Inv, Control, Closed
<1>3. Aimed'
  BY DEF Inv, Aimed, ShutDown
<1> QED
  BY <1>1, <1>2, <1>3 DEF Inv

\* The socket that the library works for is closed, and it goes back.
LEMMA ClosesCur ==
  ASSUME Inv, at # "idle", NEW m, GoodSockets(m), sk' = CloseIn(m, cur),
         \A t \in Sockets \ {cur} : m[t] = sk[t],
         at \in {"bye", "read"} \/ Spent,
         at' = "return", UNCHANGED <<bio, cur, retry, inner, read>>
  PROVE  Inv'
<1>1. cur \in Sockets
  BY DEF Inv, Typing
<1>2. GoodSockets(sk') /\ sk'[cur].conn = "closed" /\ \A t \in Sockets \ {cur} : sk'[t] = sk[t]
  BY <1>1, CloseInGood
<1>3. Typing'
  BY <1>1 DEF Inv, Typing
<1>4. Control'
  BY <1>1 DEF Control
<1>5. Spent'
  <2>1. CASE at \in {"bye", "read"}
    BY <1>2, <2>1 DEF Inv, Aimed, Spent, Closed
  <2>2. CASE Spent
    BY <1>2, <2>2 DEF Inv, Typing, Spent, Closed, ShutDown
  <2> QED
    BY <2>1, <2>2
<1>6. Aimed'
  BY <1>5 DEF Aimed
<1> QED
  BY <1>2, <1>3, <1>4, <1>6 DEF Inv

\* Only what SSL has ahead changes.
WithAhead(m, s, q) == [m EXCEPT ![s].ahead = q]

LEMMA AheadGood ==
  ASSUME NEW m, GoodSockets(m), NEW s \in Sockets, NEW q \in Seq(Records)
  PROVE  /\ GoodSockets(WithAhead(m, s, q)) /\ WithAhead(m, s, q)[s].conn = m[s].conn
         /\ \A t \in Sockets \ {s} : WithAhead(m, s, q)[t] = m[t]
<1> DEFINE r == [m[s] EXCEPT !.ahead = q]
<1>1. GoodSocket(s, m[s])
  BY DEF GoodSockets
<1>2. GoodSocket(s, r) /\ r.conn = m[s].conn
  BY <1>1 DEF GoodSocket, SslSockets
<1>3. Put(m, s, r, WithAhead(m, s, q))
  BY <1>1 DEF WithAhead, Put, GoodSockets, GoodSocket, SslSockets
<1> HIDE DEF r
<1> QED
  BY <1>2, <1>3, PutGood

\* What is left of a sequence of records is one.
LEMMA SubSeqRecords ==
  ASSUME NEW q \in Seq(Records), NEW i \in Nat \ {0}, NEW j \in 0..Len(q)
  PROVE  SubSeq(q, i, j) \in Seq(Records)
OBVIOUS

LEMMA FillStep ==
  ASSUME Inv, Fill
  PROVE  Inv'
<1>1. /\ at \in {"bye", "read"} /\ UNCHANGED <<at, cur, retry, inner, read, cb>>
      /\ cur \in Sockets /\ bio.of = cur /\ GoodSockets(sk)
      /\ bio \in [input : Seq(Records), of : Sockets \cup {NULL}, target : Sockets \cup {NULL}]
      /\ read \in Nat
  BY DEF Fill, InRead, Reading, Inv, Typing, Aimed, local
<1>2. PICK k \in 1..Len(bio.input) :
        /\ sk' = [sk EXCEPT ![cur].ahead = SubSeq(bio.input, 1, k), ![cur].mixed = @ \cup ({bio.of} \ {cur})]
        /\ bio' = [bio EXCEPT !.input = SubSeq(@, k + 1, Len(@))]
  BY DEF Fill
<1>3. PICK q : q = SubSeq(bio.input, 1, k)
  OBVIOUS
<1>4. PICK rest : rest = SubSeq(bio.input, k + 1, Len(bio.input))
  OBVIOUS
<1>5. q \in Seq(Records) /\ rest \in Seq(Records)
  <2>1. bio.input \in Seq(Records) /\ Len(bio.input) \in Nat
    BY <1>1
  <2> QED
    BY <1>3, <1>4, <2>1, SubSeqRecords
<1>6. sk' = WithAhead(sk, cur, q)
  <2> DEFINE x == sk[cur].mixed \cup ({bio.of} \ {cur})
  <2>1. GoodSocket(cur, sk[cur]) /\ sk = [t \in Sockets |-> sk[t]]
    BY <1>1 DEF GoodSockets
  <2>2. x = sk[cur].mixed
    BY <1>1, <2>1 DEF GoodSocket
  <2>3. sk' = [sk EXCEPT ![cur].ahead = q, ![cur].mixed = x]
    BY <1>2, <1>3
  <2> HIDE DEF x
  <2>4. [sk[cur] EXCEPT !.ahead = q, !.mixed = x] = [sk[cur] EXCEPT !.ahead = q]
    BY <2>1, <2>2 DEF GoodSocket, SslSockets
  <2>5. sk' = [sk EXCEPT ![cur] = [sk[cur] EXCEPT !.ahead = q, !.mixed = x]]
    BY <1>1, <2>1, <2>3
  <2> QED
    BY <2>4, <2>5 DEF WithAhead
<1>7. bio' = [bio EXCEPT !.input = rest]
  BY <1>1, <1>2, <1>4
<1>8. /\ bio' \in [input : Seq(Records), of : Sockets \cup {NULL}, target : Sockets \cup {NULL}]
      /\ bio'.of = bio.of /\ bio'.target = bio.target
  BY <1>1, <1>5, <1>7
<1>9. GoodSockets(sk') /\ sk'[cur].conn = sk[cur].conn
  BY <1>1, <1>5, <1>6, AheadGood
<1> QED
  BY <1>1, <1>8, <1>9, ReadsOn

\* SSL_shutdown changes no more than what SSL has ahead.
LEMMA SkippedRecords ==
  ASSUME NEW q \in Seq(Records), NEW left \in Skipped(q)
  PROVE  left \in Seq(Records)
<1>1. CASE left = q
  BY <1>1
<1>2. CASE left = SubSeq(q, 2, Len(q))
  <2>1. Len(q) \in 0..Len(q)
    OBVIOUS
  <2> QED
    BY <1>2, <2>1, SubSeqRecords
<1> QED
  BY <1>1, <1>2 DEF Skipped

LEMMA ByeStep ==
  ASSUME Inv, Bye
  PROVE  Inv'
<1>1. /\ at = "bye" /\ at' = "return" /\ UNCHANGED <<bio, cur, retry, inner, read>>
      /\ cur \in Sockets /\ bio.of = cur /\ ShutDown(cur) /\ GoodSockets(sk)
  BY DEF Bye, Inv, Typing, Aimed
<1>2. CASE sk' = CloseIn(sk, cur)
  BY <1>1, <1>2, ClosesCur
<1>3. ASSUME NEW left \in Skipped(sk[cur].ahead), sk' = [sk EXCEPT ![cur].ahead = left]
      PROVE  Inv'
  <2>1. sk[cur].ahead \in Seq(Records)
    BY <1>1 DEF GoodSockets, GoodSocket, SslSockets
  <2>2. left \in Seq(Records)
    BY <2>1, SkippedRecords
  <2>7. sk' = WithAhead(sk, cur, left)
    BY <1>3 DEF WithAhead
  <2>3. GoodSockets(sk') /\ sk'[cur].conn = sk[cur].conn /\ \A t \in Sockets \ {cur} : sk'[t] = sk[t]
    BY <1>1, <2>2, <2>7, AheadGood
  <2>4. Typing'
    BY <1>1 DEF Inv, Typing
  <2>5. Control'
    BY <1>1 DEF Control
  <2>6. Aimed'
    BY <1>1, <2>3 DEF Aimed, Spent, ShutDown
  <2> QED
    BY <2>3, <2>4, <2>5, <2>6 DEF Inv
<1> QED
  BY <1>2, <1>3 DEF Bye

\* What every step in the middle of reading may rely on.
LEMMA ReadingFacts ==
  ASSUME Inv, Reading
  PROVE  /\ at = "read" /\ cur \in Sockets /\ ~Closed(cur) /\ cb = NoHandler
         /\ bio.of = cur /\ bio.target = cur
         /\ bio \in [input : Seq(Records), of : Sockets \cup {NULL}, target : Sockets \cup {NULL}]
         /\ read \in Nat /\ read + 1 \in Nat
BY DEF Reading, Inv, Typing, Control, Aimed

LEMMA ReadDataStep ==
  ASSUME Inv, ReadData
  PROVE  Inv'
<1>1. Reading /\ sk[cur].ahead # <<>>
  BY DEF ReadData, HasRecord, InRead
<1>2. cur \in Sockets
  BY <1>1, ReadingFacts
<1>3. GoodSockets(sk') /\ sk'[cur].conn = sk[cur].conn
  <2> DEFINE m == Consumed(sk)
             r == [m[cur] EXCEPT !.held = FALSE]
  <2>1. GoodSockets(m) /\ m[cur].conn = sk[cur].conn /\ GoodSocket(cur, m[cur])
    BY <1>1, <1>2, ConsumedGood DEF Inv, GoodSockets
  <2>3. sk' = [m EXCEPT ![cur].held = FALSE]
    BY DEF ReadData
  <2> HIDE DEF m
  <2>2. GoodSocket(cur, r) /\ r.conn = m[cur].conn
    BY <2>1 DEF GoodSocket, SslSockets
  <2>4. Put(m, cur, r, sk')
    BY <1>2, <2>1, <2>3 DEF Put, GoodSockets, GoodSocket, SslSockets
  <2> HIDE DEF r
  <2>5. GoodSockets(sk') /\ sk'[cur] = r
    BY <1>2, <2>1, <2>2, <2>4, PutGood
  <2> QED
    BY <2>1, <2>2, <2>5
<1> QED
  BY <1>1, <1>3, ReadingFacts, ReadsOn DEF ReadData

LEMMA ReadPartStep ==
  ASSUME Inv, ReadPart
  PROVE  Inv'
<1>1. Reading /\ sk[cur].ahead # <<>>
  BY DEF ReadPart, HasRecord, InRead
<1>2. cur \in Sockets
  BY <1>1, ReadingFacts
<1>3. GoodSockets(sk') /\ sk'[cur].conn = sk[cur].conn
  <2> DEFINE m == Consumed(sk)
             r == [m[cur] EXCEPT !.held = TRUE]
  <2>1. GoodSockets(m) /\ m[cur].conn = sk[cur].conn /\ GoodSocket(cur, m[cur])
    BY <1>1, <1>2, ConsumedGood DEF Inv, GoodSockets
  <2>3. sk' = [m EXCEPT ![cur].held = TRUE]
    BY DEF ReadPart
  <2> HIDE DEF m
  <2>2. GoodSocket(cur, r) /\ r.conn = m[cur].conn
    BY <2>1 DEF GoodSocket, SslSockets
  <2>4. Put(m, cur, r, sk')
    BY <1>2, <2>1, <2>3 DEF Put, GoodSockets, GoodSocket, SslSockets
  <2> HIDE DEF r
  <2>5. GoodSockets(sk') /\ sk'[cur] = r
    BY <1>2, <2>1, <2>2, <2>4, PutGood
  <2> QED
    BY <2>1, <2>2, <2>5
<1> QED
  BY <1>1, <1>3, ReadingFacts, ReadsOn DEF ReadPart, local

LEMMA ReadHandshakeStep ==
  ASSUME Inv, ReadHandshake
  PROVE  Inv'
<1>1. Reading /\ sk[cur].ahead # <<>>
  BY DEF ReadHandshake, HasRecord, InRead
<1>2. cur \in Sockets /\ bio.of = cur /\ ~Closed(cur)
  BY <1>1, ReadingFacts
<1>3. GoodSockets(sk') /\ sk'[cur].conn = sk[cur].conn
  <2> DEFINE m == Consumed(sk)
  <2>1. GoodSockets(m) /\ m[cur].conn = sk[cur].conn /\ GoodSocket(cur, m[cur])
    BY <1>1, <1>2, ConsumedGood DEF Inv, GoodSockets
  <2>2. PICK state \in {sk[cur].ssl, "up"}, out \in {sk[cur].out, "answer"} :
          sk' = [m EXCEPT ![cur].ssl = state, ![cur].out = IF @ = "record" THEN @ ELSE out]
    BY DEF ReadHandshake
  <2> HIDE DEF m
  <2> DEFINE o == IF m[cur].out = "record" THEN m[cur].out ELSE out
             r == [m[cur] EXCEPT !.ssl = state, !.out = o]
  <2>3. state \in {"init", "up"} /\ out \in {"none", "answer", "record"}
    BY <1>2 DEF Inv, GoodSockets, GoodSocket, SslSockets, Closed
  <2>5. Put(m, cur, r, sk')
    BY <1>2, <2>1, <2>2 DEF Put, GoodSockets, GoodSocket, SslSockets
  <2>7. o \in {"none", "answer", "record"}
    BY <2>3
  <2> HIDE DEF o
  <2>4. GoodSocket(cur, r) /\ r.conn = m[cur].conn
    BY <2>1, <2>3, <2>7 DEF GoodSocket, SslSockets
  <2> HIDE DEF r
  <2>6. GoodSockets(sk') /\ sk'[cur] = r
    BY <1>2, <2>1, <2>4, <2>5, PutGood
  <2> QED
    BY <2>1, <2>4, <2>6
<1> QED
  BY <1>1, <1>3, ReadingFacts, ReadsOn DEF ReadHandshake, local

LEMMA ReadFailsStep ==
  ASSUME Inv, ReadFails
  PROVE  Inv'
<1>1. Reading /\ sk[cur].ahead # <<>>
  BY DEF ReadFails, HasRecord, InRead
<1>2. cur \in Sockets /\ at = "read"
  BY <1>1, ReadingFacts
<1> DEFINE m == Consumed(sk)
<1>3. GoodSockets(m) /\ \A t \in Sockets \ {cur} : m[t] = sk[t]
  BY <1>1, <1>2, ConsumedGood DEF Inv
<1>4. sk' = CloseIn(m, cur) /\ at' = "return" /\ UNCHANGED <<bio, cur, retry, inner, read>>
  BY DEF ReadFails
<1> HIDE DEF m
<1> QED
  BY <1>2, <1>3, <1>4, ClosesCur

LEMMA ExhaustedStep ==
  ASSUME Inv, Reading, NEW m, GoodSockets(m), m[cur].conn = sk[cur].conn,
         \A t \in Sockets \ {cur} : m[t] = sk[t], Exhausted(m),
         UNCHANGED <<bio, cur, retry, inner, read>>
  PROVE  Inv'
<1>1. cur \in Sockets /\ ~Closed(cur) /\ cb = NoHandler /\ at = "read"
  BY ReadingFacts
<1>2. CASE bio.input # <<>>
  <2>1. sk' = CloseIn(m, cur) /\ at' = "return"
    BY <1>2 DEF Exhausted
  <2> QED
    BY <1>1, <2>1, ClosesCur
<1>3. CASE bio.input = <<>>
  <2>1. sk' = m /\ at' = "tail"
    BY <1>3 DEF Exhausted
  <2>2. Typing'
    BY <1>1, <2>1 DEF Inv, Typing
  <2>3. Control'
    BY <2>1 DEF Control
  <2>4. Aimed'
    BY <1>3, <2>1 DEF Aimed, Spent
  <2> QED
    BY <2>1, <2>2, <2>3, <2>4 DEF Inv
<1> QED
  BY <1>2, <1>3

LEMMA ReadWantsReadStep ==
  ASSUME Inv, ReadWantsRead
  PROVE  Inv'
BY ExhaustedStep DEF ReadWantsRead, InRead, Inv

LEMMA ReadAnswersStep ==
  ASSUME Inv, ReadAnswers
  PROVE  Inv'
<1>1. Reading /\ UNCHANGED <<bio, cur, retry, inner, read>>
  BY DEF ReadAnswers
<1>2. cur \in Sockets /\ bio.target = cur
  BY <1>1, ReadingFacts
<1>3. PICK taken \in BOOLEAN :
        LET m == BioWrite(sk, cur, bio.target, taken, "answer")
        IN  IF taken THEN sk' = m /\ UNCHANGED <<at, cb>>
            ELSE Exhausted([m EXCEPT ![cur].ssl_read_wants_write = TRUE])
  BY DEF ReadAnswers
<1> DEFINE m == BioWrite(sk, cur, cur, taken, "answer")
<1>4. GoodSockets(m) /\ m[cur].conn = sk[cur].conn /\ \A t \in Sockets \ {cur} : m[t] = sk[t]
  <2>1. /\ GoodSockets(m) /\ \A t \in Sockets \ {cur} : m[t] = sk[t]
        /\ m[cur] = AfterWrite(sk[cur], cur, taken, "answer")
    BY <1>2, BioWriteGood DEF Inv
  <2>2. GoodSocket(cur, sk[cur])
    BY <1>2 DEF Inv, GoodSockets
  <2> HIDE DEF m
  <2> QED
    BY <1>2, <2>1, <2>2, AfterWriteFields
<1>5. IF taken THEN sk' = m /\ UNCHANGED <<at, cb>>
      ELSE Exhausted([m EXCEPT ![cur].ssl_read_wants_write = TRUE])
  BY <1>2, <1>3
<1> HIDE DEF m
<1>6. CASE taken
  BY <1>1, <1>4, <1>5, <1>6, ReadingFacts, ReadsOn
<1>7. CASE ~taken
  <2> DEFINE r == [m[cur] EXCEPT !.ssl_read_wants_write = TRUE]
             n == [m EXCEPT ![cur].ssl_read_wants_write = TRUE]
  <2>1. GoodSocket(cur, m[cur])
    BY <1>2, <1>4 DEF GoodSockets
  <2>2. GoodSocket(cur, r) /\ r.conn = m[cur].conn
    BY <2>1 DEF GoodSocket, SslSockets
  <2>3. Put(m, cur, r, n)
    BY <1>4, <2>1 DEF Put, GoodSockets, GoodSocket, SslSockets
  <2>4. Exhausted(n)
    BY <1>5, <1>7
  <2> HIDE DEF r, n
  <2>5. GoodSockets(n) /\ n[cur] = r /\ \A t \in Sockets \ {cur} : n[t] = m[t]
    BY <1>2, <1>4, <2>2, <2>3, PutGood
  <2>6. n[cur].conn = sk[cur].conn
    BY <1>4, <2>2, <2>5
  <2>7. \A t \in Sockets \ {cur} : n[t] = sk[t]
    BY <1>4, <2>5
  <2> QED
    BY <1>1, <2>4, <2>5, <2>6, <2>7, ExhaustedStep
<1> QED
  BY <1>6, <1>7

LEMMA EmitFullStep ==
  ASSUME Inv, EmitFull
  PROVE  Inv'
<1>1. at = "read" /\ read = Full /\ at' = "full" /\ UNCHANGED <<sk, bio, cur, retry, inner, read>>
  BY DEF EmitFull
<1>3. Typing'
  BY <1>1 DEF Inv, Typing
<1>4. Control'
  BY <1>1 DEF EmitFull, Emit, Control
<1>5. Aimed'
  BY <1>1 DEF Inv, Aimed
<1> QED
  BY <1>1, <1>3, <1>4, <1>5 DEF Inv, GoodSockets

LEMMA RestartStep ==
  ASSUME Inv, Restart
  PROVE  Inv'
<1>1. /\ at = "full" /\ cb = NoHandler /\ UNCHANGED <<sk, bio, cur, retry, inner, cb>>
      /\ IF Closed(cur) THEN at' = "return" /\ read' = read ELSE at' = "read" /\ read' = 0
  BY DEF Restart, InLibrary
<1>2. bio.of = cur /\ bio.target = cur
  BY <1>1 DEF Inv, Aimed
<1>3. Typing'
  BY <1>1 DEF Inv, Typing
<1>4. Control'
  BY <1>1, <1>2 DEF Control, Closed
<1>5. Aimed'
  BY <1>1, <1>2 DEF Aimed, Spent, Closed
<1> QED
  BY <1>1, <1>3, <1>4, <1>5 DEF Inv, GoodSockets

-----------------------------------------------------------------------------
(* ssl_on_writable, and the rest of the library.                             *)

\* An open socket is taken to ssl_on_writable, or to the read before it.
LEMMA RetryStep ==
  ASSUME Inv, Spent, cb = NoHandler, cb' = cb, retry' \in BOOLEAN, inner' \in BOOLEAN,
         NEW s \in Sockets, ~Closed(s),
         NEW m, GoodSockets(m), \A t \in Sockets : m[t].conn = sk[t].conn, Retry(m, s)
  PROVE  Inv'
<1>1. CASE m[s].ssl_read_wants_write
  <2> DEFINE r == [m[s] EXCEPT !.ssl_read_wants_write = FALSE]
  <2>1. sk' = [m EXCEPT ![s].ssl_read_wants_write = FALSE] /\ Begin(s, <<>>)
    BY <1>1, DropInputSame DEF Retry
  <2>2. GoodSocket(s, m[s])
    BY DEF GoodSockets
  <2>3. GoodSocket(s, r) /\ r.conn = m[s].conn
    BY <2>2 DEF GoodSocket, SslSockets
  <2>4. Put(m, s, r, sk')
    BY <2>1, <2>2 DEF Put, GoodSockets, GoodSocket, SslSockets
  <2> HIDE DEF r
  <2>5. GoodSockets(sk') /\ sk'[s].conn = sk[s].conn
    BY <2>3, <2>4, PutGood
  <2>6. /\ bio' = [input |-> <<>>, of |-> s, target |-> s] /\ cur' = s /\ read' = 0
        /\ at' = IF ShutDown(s) THEN "bye" ELSE "read"
    BY <2>1 DEF Begin
  <2>7. bio' \in [input : Seq(Records), of : Sockets \cup {NULL}, target : Sockets \cup {NULL}]
    <3>1. <<>> \in Seq(Records)
      OBVIOUS
    <3> QED
      BY <2>6, <3>1
  <2>8. Typing'
    BY <2>6, <2>7 DEF Typing
  <2>9. Control'
    BY <2>5, <2>6 DEF Control, Closed
  <2>10. Aimed'
    BY <2>5, <2>6 DEF Aimed, ShutDown
  <2> QED
    BY <2>5, <2>8, <2>9, <2>10 DEF Inv
<1>2. CASE ~m[s].ssl_read_wants_write
  <2>1. sk' = m /\ cur' = s /\ at' = "writable" /\ bio' = bio /\ read' = read
    BY <1>2 DEF Retry
  <2>2. Typing'
    BY <2>1 DEF Inv, Typing
  <2>3. Control'
    BY <2>1 DEF Control, Closed
  <2>4. Aimed'
    BY <2>1 DEF Inv, Typing, Aimed, Spent, Closed, ShutDown
  <2> QED
    BY <2>1, <2>2, <2>3, <2>4 DEF Inv
<1> QED
  BY <1>1, <1>2

LEMMA WritableStep ==
  ASSUME Inv, NEW s \in Sockets, Writable(s)
  PROVE  Inv'
<1>1. at = "idle" /\ cb = NoHandler /\ cb' = cb /\ inner' = inner /\ Retry(sk, s)
      /\ retry' = sk[s].ssl_read_wants_write
  BY DEF Writable
<1>2. Spent /\ inner' \in BOOLEAN
  BY <1>1 DEF Inv, Aimed, Typing
<1>3. GoodSocket(s, sk[s])
  BY DEF Inv, GoodSockets
<1>4. ~Closed(s) /\ retry' \in BOOLEAN
  BY <1>1, <1>3 DEF Writable, Closed, GoodSocket, SslSockets
<1> QED
  BY <1>1, <1>2, <1>4, RetryStep DEF Inv

\* A step of the library that moves on, with what is spent, from a socket that is open
\* where it has to be.
LEMMA MovesOn ==
  ASSUME Inv, Spent, cur \in Sockets, cb = NoHandler, cb' = cb, inner' \in BOOLEAN,
         UNCHANGED <<sk, bio, cur, read, retry>>,
         at' = "return" \/ (at' = "get_shutdown" /\ ~Closed(cur))
  PROVE  Inv'
<1>1. Typing'
  BY DEF Inv, Typing
<1>2. Control'
  BY DEF Control, Closed
<1>3. Aimed'
  BY DEF Aimed, Spent, Closed, ShutDown
<1> QED
  BY <1>1, <1>2, <1>3 DEF Inv, GoodSockets

LEMMA TailWritableStep ==
  ASSUME Inv, TailWritable
  PROVE  Inv'
<1>1. at = "tail" /\ cb = NoHandler /\ UNCHANGED <<retry, cb>>
  BY DEF TailWritable, EndOfData, InLibrary
<1>2. Spent /\ cur \in Sockets /\ inner \in BOOLEAN /\ retry \in BOOLEAN
  BY <1>1 DEF Inv, Aimed, Typing
<1>3. CASE Closed(cur)
  <2>1. at' = "return" /\ UNCHANGED <<sk, bio, cur, inner, read>>
    BY <1>3 DEF TailWritable, EndOfData
  <2> QED
    BY <1>1, <1>2, <2>1, MovesOn
<1>4. CASE ~Closed(cur) /\ sk[cur].ssl_write_wants_read
  <2> DEFINE r == [sk[cur] EXCEPT !.ssl_write_wants_read = FALSE]
             n == [sk EXCEPT ![cur].ssl_write_wants_read = FALSE]
  <2>1. Retry(n, cur) /\ inner' = TRUE
    BY <1>4 DEF TailWritable, EndOfData
  <2>2. GoodSocket(cur, sk[cur])
    BY <1>2 DEF Inv, GoodSockets
  <2>3. GoodSocket(cur, r) /\ r.conn = sk[cur].conn
    BY <2>2 DEF GoodSocket, SslSockets
  <2>4. Put(sk, cur, r, n)
    BY <2>2 DEF Put, GoodSockets, GoodSocket, SslSockets
  <2> HIDE DEF r, n
  <2>5. GoodSockets(n) /\ \A t \in Sockets : n[t].conn = sk[t].conn
    BY <1>2, <2>3, <2>4, PutGood DEF Inv
  <2> QED
    BY <1>1, <1>2, <1>4, <2>1, <2>5, RetryStep
<1>5. CASE ~Closed(cur) /\ ~sk[cur].ssl_write_wants_read
  <2>1. at' = "get_shutdown" /\ UNCHANGED <<sk, bio, cur, inner, read>>
    BY <1>5 DEF TailWritable, EndOfData
  <2> QED
    BY <1>1, <1>2, <1>5, <2>1, MovesOn
<1> QED
  BY <1>3, <1>4, <1>5

LEMMA TailedStep ==
  ASSUME Inv, Tailed
  PROVE  Inv'
<1>1. /\ at = "tailed" /\ cb = NoHandler /\ UNCHANGED <<sk, bio, cur, retry, read, cb>>
      /\ inner' = FALSE /\ at' = IF Closed(cur) THEN "return" ELSE "get_shutdown"
  BY DEF Tailed, InLibrary
<1>2. Spent /\ cur \in Sockets
  BY <1>1 DEF Inv, Aimed, Typing
<1> QED
  BY <1>1, <1>2, MovesOn

LEMMA GetShutdownStep ==
  ASSUME Inv, GetShutdown
  PROVE  Inv'
<1>1. at = "get_shutdown" /\ at' = "return" /\ UNCHANGED <<bio, cur, retry, inner, read>>
  BY DEF GetShutdown
<1>2. Spent /\ cur \in Sockets /\ cb = NoHandler /\ inner \in BOOLEAN /\ GoodSockets(sk)
  BY <1>1 DEF Inv, Aimed, Typing, Control
<1>3. CASE sk' = CloseIn(sk, cur)
  BY <1>1, <1>2, <1>3, ClosesCur
<1>4. CASE UNCHANGED <<sk, cb>>
  BY <1>1, <1>2, <1>4, MovesOn
<1> QED
  BY <1>3, <1>4 DEF GetShutdown

LEMMA DataDoneStep ==
  ASSUME Inv, DataDone
  PROVE  Inv'
<1>1. /\ at = "return" /\ cb = NoHandler /\ UNCHANGED <<cur, retry, inner, cb>> /\ read' = 0
      /\ at' = IF retry \/ inner THEN "retried" ELSE "idle"
      /\ sk' = DropInput(sk) /\ bio' = [bio EXCEPT !.input = <<>>]
  BY DEF DataDone, InLibrary
<1>2. Spent /\ cur \in Sockets /\ GoodSockets(sk)
  BY <1>1 DEF Inv, Aimed, Typing
<1>3. sk' = sk
  BY <1>1, <1>2, DropInputSame
<1>4. <<>> \in Seq(Records)
  OBVIOUS
<1>5. bio' \in [input : Seq(Records), of : Sockets \cup {NULL}, target : Sockets \cup {NULL}]
      /\ bio'.input = <<>>
  BY <1>1, <1>4 DEF Inv, Typing
<1>6. Typing'
  BY <1>1, <1>2, <1>5 DEF Inv, Typing
<1>7. Control'
  BY <1>1 DEF Inv, Typing, Control
<1>8. Aimed'
  BY <1>1, <1>5 DEF Aimed, Spent
<1> QED
  BY <1>2, <1>3, <1>6, <1>7, <1>8 DEF Inv

LEMMA EmitWritableStep ==
  ASSUME Inv, EmitWritable
  PROVE  Inv'
<1>1. /\ at \in {"writable", "retried"} /\ UNCHANGED <<bio, cur, retry, inner, read>>
      /\ sk' = [sk EXCEPT ![cur].owed = FALSE] /\ at' = IF inner THEN "tailed" ELSE "written"
  BY DEF EmitWritable
<1>2. Spent /\ cur \in Sockets /\ GoodSockets(sk) /\ inner \in BOOLEAN
  BY <1>1 DEF Inv, Aimed, Typing
<1> DEFINE r == [sk[cur] EXCEPT !.owed = FALSE]
<1>3. GoodSocket(cur, sk[cur])
  BY <1>2 DEF GoodSockets
<1>4. GoodSocket(cur, r) /\ r.conn = sk[cur].conn
  BY <1>3 DEF GoodSocket, SslSockets
<1>5. Put(sk, cur, r, sk')
  BY <1>1, <1>3 DEF Put, GoodSockets, GoodSocket, SslSockets
<1> HIDE DEF r
<1>6. GoodSockets(sk') /\ \A t \in Sockets : sk'[t].conn = sk[t].conn
  BY <1>2, <1>4, <1>5, PutGood
<1>7. Typing'
  BY <1>1, <1>2 DEF Inv, Typing
<1>8. Control'
  BY <1>1, <1>2, <1>6 DEF Control, Closed
<1>9. Aimed'
  BY <1>1, <1>2, <1>6 DEF Inv, Typing, Aimed, Spent, Closed, ShutDown
<1> QED
  BY <1>6, <1>7, <1>8, <1>9 DEF Inv

LEMMA WrittenStep ==
  ASSUME Inv, Written
  PROVE  Inv'
<1> DEFINE e == sk[cur].armed /\ ~Closed(cur) /\ lastWriteFailed
           r == [sk[cur] EXCEPT !.armed = e]
<1>1. /\ at = "written" /\ UNCHANGED <<bio, cur, inner, read, cb>> /\ at' = "idle" /\ retry' = FALSE
      /\ sk' = [sk EXCEPT ![cur].armed = e]
  BY DEF Written
<1>2. Spent /\ cur \in Sockets /\ ~inner /\ GoodSockets(sk)
  BY <1>1 DEF Inv, Aimed, Typing, Control
<1>3. GoodSocket(cur, sk[cur])
  BY <1>2 DEF GoodSockets
<1>4. e \in BOOLEAN /\ (e => sk[cur].armed)
  OBVIOUS
<1> HIDE DEF e
<1>5. GoodSocket(cur, r) /\ r.conn = sk[cur].conn
  BY <1>3, <1>4 DEF GoodSocket, SslSockets
<1>6. Put(sk, cur, r, sk')
  BY <1>1, <1>3 DEF Put, GoodSockets, GoodSocket, SslSockets
<1> HIDE DEF r
<1>7. GoodSockets(sk') /\ \A t \in Sockets : sk'[t].conn = sk[t].conn
  BY <1>2, <1>5, <1>6, PutGood
<1>8. Typing'
  BY <1>1, <1>2 DEF Inv, Typing
<1>9. Control'
  BY <1>1, <1>2 DEF Control
<1>10. Aimed'
  BY <1>1, <1>2, <1>7 DEF Inv, Typing, Aimed, Spent, Closed, ShutDown
<1> QED
  BY <1>7, <1>8, <1>9, <1>10 DEF Inv

-----------------------------------------------------------------------------
(* The calls of the application.                                             *)

\* Without "use_when_full" a handler finds no input that will still be read.
LEMMA MayUseSpent ==
  ASSUME Inv, Careful, NEW call, MayUse(call)
  PROVE  Spent /\ at \notin {"bye", "read", "full"}
<1>1. at \notin {"bye", "read"}
  BY DEF MayUse, InApp, Inv, Control
<1>2. at # "full"
  <2> SUFFICES ASSUME at = "full" PROVE FALSE
    OBVIOUS
  <2>1. InFull
    BY DEF MayUse, InApp, Inv, Control, InFull
  <2> QED
    BY <2>1 DEF MayUse, Careful
<1> QED
  BY <1>1, <1>2 DEF Inv, Aimed

\* A call that uses up the BIOs and closes nothing.
LEMMA CallKeeps ==
  ASSUME Inv, NEW s \in Sockets, Aim(s), GoodSockets(sk'),
         \A t \in Sockets : (sk'[t].conn \in {"free", "closed"}) = Closed(t),
         at \notin {"bye", "read", "full"}, UNCHANGED <<local, cb>>
  PROVE  Inv'
<1>1. bio' = [input |-> <<>>, of |-> NULL, target |-> s] /\ <<>> \in Seq(Records)
  BY DEF Aim
<1>2. bio' \in [input : Seq(Records), of : Sockets \cup {NULL}, target : Sockets \cup {NULL}]
  BY <1>1
<1>3. Typing'
  BY <1>2 DEF Inv, Typing, local
<1>4. Control'
  BY DEF Inv, Typing, Control, Closed, local
<1>5. Aimed'
  BY <1>1 DEF Aimed, Spent, local
<1> QED
  BY <1>3, <1>4, <1>5 DEF Inv

\* SSL_write, once BIO_s_custom_write has written: owed and ssl_write_wants_read say
\* what the application and the socket wait for.
Rest(s, k) == SubSeq(sk[s].ahead, k + 1, Len(sk[s].ahead))

Reread(s, k, state) ==
  [sk EXCEPT ![s].ahead = Rest(s, k), ![s].ssl = state]

Wrote(s, k, state, taken, out, owed, wants) ==
  [BioWrite(Reread(s, k, state), s, s, taken, out) EXCEPT ![s].owed = owed, ![s].ssl_write_wants_read = wants]

LEMMA RereadGood ==
  ASSUME GoodSockets(sk), NEW s \in Sockets, sk[s].conn = "open",
         NEW k \in 0..Len(sk[s].ahead), NEW state \in {"init", "up"}, NEW m, m = Reread(s, k, state)
  PROVE  /\ GoodSockets(m) /\ \A t \in Sockets \ {s} : m[t] = sk[t]
         /\ m[s].conn = "open" /\ m[s].armed = sk[s].armed
         /\ m[s].ssl_write_wants_read = sk[s].ssl_write_wants_read
         /\ m[s].ssl_read_wants_write = sk[s].ssl_read_wants_write
         /\ m[s].ahead = Rest(s, k)
<1>1. GoodSocket(s, sk[s])
  BY DEF GoodSockets
<1>2. sk[s].ahead \in Seq(Records)
  BY <1>1 DEF GoodSocket, SslSockets
<1>3. PICK rest : rest = Rest(s, k)
  OBVIOUS
<1>4. rest \in Seq(Records)
  BY <1>2, <1>3, SubSeqRecords DEF Rest
<1> DEFINE r == [sk[s] EXCEPT !.ahead = rest, !.ssl = state]
<1>5. /\ GoodSocket(s, r) /\ r.conn = "open" /\ r.armed = sk[s].armed /\ r.ahead = rest
      /\ r.ssl_write_wants_read = sk[s].ssl_write_wants_read
      /\ r.ssl_read_wants_write = sk[s].ssl_read_wants_write
  BY <1>1, <1>4 DEF GoodSocket, SslSockets
<1>6. m = [sk EXCEPT ![s].ahead = rest, ![s].ssl = state]
  BY <1>3 DEF Reread
<1>7. Put(sk, s, r, m)
  BY <1>1, <1>6 DEF Put, GoodSockets, GoodSocket, SslSockets
<1> HIDE DEF r
<1>8. GoodSockets(m) /\ m[s] = r /\ \A t \in Sockets \ {s} : m[t] = sk[t]
  BY <1>5, <1>7, PutGood
<1> QED
  BY <1>3, <1>5, <1>8

LEMMA RewriteGood ==
  ASSUME GoodSockets(sk), NEW s \in Sockets, sk[s].conn = "open",
         NEW k \in 0..Len(sk[s].ahead), NEW state \in {"init", "up"}, NEW taken \in BOOLEAN,
         NEW out \in {"answer", "record"}, NEW n, n = BioWrite(Reread(s, k, state), s, s, taken, out)
  PROVE  /\ GoodSockets(n) /\ \A t \in Sockets \ {s} : n[t] = sk[t]
         /\ n[s].conn = "open" /\ n[s].ahead = Rest(s, k)
         /\ n[s].ssl_write_wants_read = sk[s].ssl_write_wants_read
         /\ n[s].ssl_read_wants_write = sk[s].ssl_read_wants_write
         /\ n[s].armed = (sk[s].armed \/ (~taken /\ CanSend(s)))
<1>1. PICK m : m = Reread(s, k, state)
  OBVIOUS
<1>2. /\ GoodSockets(m) /\ \A t \in Sockets \ {s} : m[t] = sk[t]
      /\ m[s].conn = "open" /\ m[s].armed = sk[s].armed
      /\ m[s].ssl_write_wants_read = sk[s].ssl_write_wants_read
      /\ m[s].ssl_read_wants_write = sk[s].ssl_read_wants_write
      /\ m[s].ahead = Rest(s, k)
  BY <1>1, RereadGood
<1>3. GoodSocket(s, m[s])
  BY <1>2 DEF GoodSockets
<1>4. /\ GoodSockets(n) /\ n[s] = AfterWrite(m[s], s, taken, out)
      /\ \A t \in Sockets \ {s} : n[t] = m[t]
  BY <1>1, <1>2, BioWriteGood
<1>5. /\ n[s].conn = "open" /\ n[s].ahead = m[s].ahead
      /\ n[s].ssl_write_wants_read = m[s].ssl_write_wants_read
      /\ n[s].ssl_read_wants_write = m[s].ssl_read_wants_write
      /\ n[s].armed = (m[s].armed \/ (~taken /\ CanSend(s)))
  BY <1>2, <1>3, <1>4, AfterWriteFields
<1> QED
  BY <1>2, <1>4, <1>5

LEMMA WroteGood ==
  ASSUME GoodSockets(sk), NEW s \in Sockets, sk[s].conn = "open",
         NEW k \in 0..Len(sk[s].ahead), NEW state \in {"init", "up"}, NEW taken \in BOOLEAN,
         NEW out \in {"answer", "record"}, NEW owed \in BOOLEAN, NEW wants \in BOOLEAN,
         sk' = Wrote(s, k, state, taken, out, owed, wants)
  PROVE  /\ GoodSockets(sk') /\ \A t \in Sockets \ {s} : sk'[t] = sk[t]
         /\ sk'[s].conn = "open" /\ sk'[s].owed = owed /\ sk'[s].ssl_write_wants_read = wants
         /\ sk'[s].ssl_read_wants_write = sk[s].ssl_read_wants_write
         /\ sk'[s].armed = (sk[s].armed \/ (~taken /\ CanSend(s)))
         /\ sk'[s].ahead = Rest(s, k)
<1>1. PICK n : n = BioWrite(Reread(s, k, state), s, s, taken, out)
  OBVIOUS
<1>2. /\ GoodSockets(n) /\ \A t \in Sockets \ {s} : n[t] = sk[t]
      /\ n[s].conn = "open" /\ n[s].ahead = Rest(s, k)
      /\ n[s].ssl_read_wants_write = sk[s].ssl_read_wants_write
      /\ n[s].armed = (sk[s].armed \/ (~taken /\ CanSend(s)))
  BY <1>1, RewriteGood
<1>3. GoodSocket(s, n[s])
  BY <1>2 DEF GoodSockets
<1> DEFINE q == [n[s] EXCEPT !.owed = owed, !.ssl_write_wants_read = wants]
<1>4. /\ GoodSocket(s, q) /\ q.conn = n[s].conn /\ q.ahead = n[s].ahead
      /\ q.owed = owed /\ q.ssl_write_wants_read = wants
      /\ q.ssl_read_wants_write = n[s].ssl_read_wants_write /\ q.armed = n[s].armed
  BY <1>3 DEF GoodSocket, SslSockets
<1>5. sk' = [n EXCEPT ![s].owed = owed, ![s].ssl_write_wants_read = wants]
  BY <1>1 DEF Wrote
<1>6. Put(n, s, q, sk')
  BY <1>2, <1>3, <1>5 DEF Put, GoodSockets, GoodSocket, SslSockets
<1> HIDE DEF q
<1>7. GoodSockets(sk') /\ sk'[s] = q /\ \A t \in Sockets \ {s} : sk'[t] = n[t]
  BY <1>2, <1>4, <1>6, PutGood
<1> QED
  BY <1>2, <1>4, <1>7

\* The ways a write ends: it is cut, it is done, it wants to read, or it meets
\* something that is no handshake message.
LEMMA WriteEnds ==
  ASSUME Inv, Careful, NEW s \in Sockets, Write(s)
  PROVE  \E k \in 0..Len(sk[s].ahead), state \in {"init", "up"}, taken \in BOOLEAN,
            out \in {"answer", "record"}, owed \in BOOLEAN, wants \in BOOLEAN :
           /\ sk' = Wrote(s, k, state, taken, out, owed, wants)
           /\ Failed(s, taken)
           /\ sk[s].ssl_write_wants_read => wants
           /\ taken /\ owed => wants \/ Rest(s, k) # <<>>
<1>1. Spent
  BY MayUseSpent DEF Write
<1>2. /\ bio'.target = s /\ DropInput(sk) = sk /\ GoodSockets(sk) /\ GoodSocket(s, sk[s])
      /\ sk[s].conn = "open"
  BY <1>1, DropInputSame DEF Write, Aim, Inv, GoodSockets
<1>3. sk[s].ssl \in {"init", "up"} /\ sk[s].ssl_write_wants_read \in BOOLEAN /\ sk[s].ahead \in Seq(Records)
  BY <1>2 DEF GoodSocket, SslSockets
<1> DEFINE old == sk[s].ssl_write_wants_read
           more(k) == First(Rest(s, k)) \in {"none", "part"}
<1>4. PICK k \in IF sk[s].ssl = "init" THEN Handshakes(sk[s].ahead) ELSE {0},
           state \in {sk[s].ssl, "up"}, taken \in BOOLEAN, out \in {"answer", "record"} :
        /\ state # sk[s].ssl => k > 0
        /\ LET rest == SubSeq(sk[s].ahead, k + 1, Len(sk[s].ahead))
               m == [DropInput(sk) EXCEPT ![s].ahead = rest, ![s].ssl = state]
               n == BioWrite(m, s, bio'.target, taken, out)
               first == First(rest)
           IN  \/ /\ ~taken
                  /\ IF out = "record" THEN state = "up"
                     ELSE sk[s].ssl = "init" \/ sk[s].out = "answer"
                  /\ sk' = [n EXCEPT ![s].owed = TRUE]
               \/ /\ taken /\ out = "record"
                  /\ IF state = "up" THEN sk' = [n EXCEPT ![s].owed = FALSE]
                     ELSE /\ first # "hs"
                          /\ sk' = [n EXCEPT ![s].owed = TRUE, ![s].ssl_write_wants_read =
                                               @ \/ first \in {"none", "part"}]
        /\ Failed(bio'.target, taken)
  BY Zenon DEF Write
<1>5. k \in 0..Len(sk[s].ahead) /\ state \in {"init", "up"}
  <2>1. Handshakes(sk[s].ahead) \subseteq 0..Len(sk[s].ahead)
    BY DEF Handshakes
  <2>2. Len(sk[s].ahead) \in Nat
    BY <1>3
  <2>3. 0 \in 0..Len(sk[s].ahead)
    BY <2>2
  <2>4. k \in Handshakes(sk[s].ahead) \/ k = 0
    OBVIOUS
  <2> QED
    BY <1>3, <2>1, <2>3, <2>4
<1>6. PICK n : n = BioWrite(Reread(s, k, state), s, s, taken, out)
  OBVIOUS
<1>7. GoodSockets(n) /\ n[s].ssl_write_wants_read = old
  BY <1>2, <1>5, <1>6, RewriteGood
<1>8. GoodSocket(s, n[s])
  BY <1>7 DEF GoodSockets
<1>9. Failed(s, taken)
  BY <1>2, <1>4
<1>10. \/ ~taken /\ sk' = [n EXCEPT ![s].owed = TRUE]
       \/ taken /\ sk' = [n EXCEPT ![s].owed = FALSE]
       \/ taken /\ sk' = [n EXCEPT ![s].owed = TRUE, ![s].ssl_write_wants_read = @ \/ more(k)]
  <2>1. n = BioWrite([DropInput(sk) EXCEPT ![s].ahead = SubSeq(sk[s].ahead, k + 1, Len(sk[s].ahead)),
                                           ![s].ssl = state], s, bio'.target, taken, out)
    BY <1>2, <1>6 DEF Reread, Rest
  <2> QED
    BY <1>4, <2>1 DEF Rest
<1> HIDE DEF more
<1>11. ASSUME NEW owed \in BOOLEAN, NEW wants \in BOOLEAN,
              sk' = [n EXCEPT ![s].owed = owed, ![s].ssl_write_wants_read = wants]
       PROVE  sk' = Wrote(s, k, state, taken, out, owed, wants)
  BY <1>6, <1>11 DEF Wrote
<1>12. ASSUME NEW owed \in BOOLEAN, sk' = [n EXCEPT ![s].owed = owed]
       PROVE  sk' = Wrote(s, k, state, taken, out, owed, old)
  <2>1. sk' = [n EXCEPT ![s].owed = owed, ![s].ssl_write_wants_read = old]
    BY <1>7, <1>8, <1>12 DEF GoodSockets, GoodSocket, SslSockets
  <2> QED
    BY <1>3, <1>11, <2>1
<1>13. CASE ~taken /\ sk' = [n EXCEPT ![s].owed = TRUE]
  <2>1. sk' = Wrote(s, k, state, taken, out, TRUE, old)
    BY <1>12, <1>13
  <2> QED
    BY <1>3, <1>5, <1>9, <1>13, <2>1
<1>14. CASE taken /\ sk' = [n EXCEPT ![s].owed = FALSE]
  <2>1. sk' = Wrote(s, k, state, taken, out, FALSE, old)
    BY <1>12, <1>14
  <2> QED
    BY <1>3, <1>5, <1>9, <2>1
<1>15. CASE taken /\ sk' = [n EXCEPT ![s].owed = TRUE, ![s].ssl_write_wants_read = @ \/ more(k)]
  <2> DEFINE new == old \/ more(k)
  <2>1. sk' = [n EXCEPT ![s].owed = TRUE, ![s].ssl_write_wants_read = new]
    BY <1>7, <1>15
  <2>2. new \in BOOLEAN /\ (old => new)
    BY <1>3 DEF more
  <2>3. Rest(s, k) = <<>> => new
    <3>1. First(<<>>) = "none"
      BY DEF First
    <3> QED
      BY <3>1 DEF more
  <2> HIDE DEF new, old
  <2>4. sk' = Wrote(s, k, state, taken, out, TRUE, new)
    BY <1>11, <2>1, <2>2
  <2> QED
    BY <1>5, <1>9, <2>2, <2>3, <2>4 DEF old
<1> QED
  BY <1>10, <1>13, <1>14, <1>15

LEMMA WriteStep ==
  ASSUME Inv, Careful, NEW s \in Sockets, Write(s)
  PROVE  Inv'
<1>1. Aim(s) /\ UNCHANGED <<local, cb>> /\ sk[s].conn = "open"
      /\ at \notin {"bye", "read", "full"} /\ GoodSockets(sk)
  BY MayUseSpent DEF Write, Inv
<1>2. PICK k \in 0..Len(sk[s].ahead), state \in {"init", "up"}, taken \in BOOLEAN,
           out \in {"answer", "record"}, owed \in BOOLEAN, wants \in BOOLEAN :
        sk' = Wrote(s, k, state, taken, out, owed, wants)
  BY WriteEnds
<1>3. GoodSockets(sk') /\ sk'[s].conn = "open" /\ \A t \in Sockets \ {s} : sk'[t] = sk[t]
  BY <1>1, <1>2, WroteGood
<1> QED
  BY <1>1, <1>3, CallKeeps DEF Closed

\* us_socket_shutdown: the poll is for reading only.
Down(m, s) == [m EXCEPT ![s].conn = "shut_down", ![s].armed = FALSE]

LEMMA DownGood ==
  ASSUME NEW m, GoodSockets(m), NEW s \in Sockets, m[s].conn = "open", NEW n, n = Down(m, s)
  PROVE  GoodSockets(n) /\ n[s].conn = "shut_down" /\ \A t \in Sockets \ {s} : n[t] = m[t]
<1> DEFINE r == [m[s] EXCEPT !.conn = "shut_down", !.armed = FALSE]
<1>1. GoodSocket(s, m[s])
  BY DEF GoodSockets
<1>2. GoodSocket(s, r) /\ r.conn = "shut_down"
  BY <1>1 DEF GoodSocket, SslSockets
<1>3. Put(m, s, r, n)
  BY <1>1 DEF Down, Put, GoodSockets, GoodSocket, SslSockets
<1> HIDE DEF r
<1> QED
  BY <1>2, <1>3, PutGood

\* A shutdown leaves the socket shut down or notified, and the others alone.
LEMMA ShutdownGood ==
  ASSUME Inv, Careful, NEW s \in Sockets, Shutdown(s)
  PROVE  /\ GoodSockets(sk') /\ sk'[s].conn \in {"notified", "shut_down"}
         /\ \A t \in Sockets \ {s} : sk'[t] = sk[t]
<1>1. Spent
  BY MayUseSpent DEF Shutdown
<1>2. bio'.target = s /\ DropInput(sk) = sk /\ GoodSockets(sk) /\ sk[s].conn = "open"
  BY <1>1, DropInputSame DEF Shutdown, Aim, Inv
<1>3. sk[s].ahead \in Seq(Records) /\ GoodSocket(s, sk[s])
  BY <1>2 DEF GoodSockets, GoodSocket, SslSockets
<1> DEFINE ahead == sk[s].ahead
           n(taken) == BioWrite(sk, s, s, taken, "record")
           goal ==
             \/ sk' = Down(sk, s)
             \/ \E taken \in BOOLEAN :
                  \/ First(ahead) = "fin" /\ sk' = [n(taken) EXCEPT ![s].conn = "notified", ![s].ahead = Tail(@)]
                  \/ \E left \in Skipped(ahead) : sk' = Down(WithAhead(n(taken), s, left), s)
<1>4. goal
  <2>1. CASE sk' = [DropInput(sk) EXCEPT ![s].conn = "shut_down", ![s].armed = FALSE]
    BY <1>2, <2>1 DEF Down
  <2>2. ASSUME NEW taken \in BOOLEAN, First(ahead) = "fin",
               sk' = [BioWrite(DropInput(sk), s, bio'.target, taken, "record") EXCEPT
                        ![s].conn = "notified", ![s].ahead = Tail(@)]
        PROVE  goal
    <3>1. sk' = [n(taken) EXCEPT ![s].conn = "notified", ![s].ahead = Tail(@)]
      BY <1>2, <2>2
    <3> QED
      BY <2>2, <3>1
  <2>3. ASSUME NEW taken \in BOOLEAN, NEW left \in Skipped(ahead),
               sk' = [[BioWrite(DropInput(sk), s, bio'.target, taken, "record") EXCEPT ![s].ahead = left]
                        EXCEPT ![s].conn = "shut_down", ![s].armed = FALSE]
        PROVE  goal
    <3>1. sk' = Down(WithAhead(n(taken), s, left), s)
      BY <1>2, <2>3 DEF Down, WithAhead
    <3> HIDE DEF n
    <3> QED
      BY <3>1
  <2> QED
    BY <2>1, <2>2, <2>3 DEF Shutdown
<1> HIDE DEF goal
<1>5. CASE sk' = Down(sk, s)
  BY <1>2, <1>5, DownGood
<1>6. ASSUME NEW taken \in BOOLEAN
      PROVE  /\ GoodSockets(n(taken)) /\ n(taken)[s].conn = "open" /\ n(taken)[s].ahead = sk[s].ahead
             /\ \A t \in Sockets \ {s} : n(taken)[t] = sk[t]
  <2> DEFINE w == n(taken)
  <2>1. /\ GoodSockets(w) /\ \A t \in Sockets \ {s} : w[t] = sk[t]
        /\ w[s] = AfterWrite(sk[s], s, taken, "record")
    BY <1>2, BioWriteGood
  <2> HIDE DEF w
  <2>2. w[s].conn = "open" /\ w[s].ahead = sk[s].ahead
    BY <1>2, <1>3, <2>1, AfterWriteFields
  <2> QED
    BY <2>1, <2>2 DEF w
<1>7. ASSUME NEW taken \in BOOLEAN, First(ahead) = "fin",
             sk' = [n(taken) EXCEPT ![s].conn = "notified", ![s].ahead = Tail(@)]
      PROVE  /\ GoodSockets(sk') /\ sk'[s].conn \in {"notified", "shut_down"}
             /\ \A t \in Sockets \ {s} : sk'[t] = sk[t]
  <2> DEFINE m == n(taken)
  <2>1. GoodSockets(m) /\ m[s].conn = "open" /\ m[s].ahead = sk[s].ahead
        /\ \A t \in Sockets \ {s} : m[t] = sk[t]
    BY <1>6
  <2>2. sk' = [m EXCEPT ![s].conn = "notified", ![s].ahead = Tail(@)]
    BY <1>7
  <2> HIDE DEF m
  <2>3. ahead # <<>>
    BY <1>7 DEF First
  <2>4. PICK q : q = Tail(ahead)
    OBVIOUS
  <2>5. q \in Seq(Records)
    BY <1>3, <2>3, <2>4
  <2> DEFINE r == [m[s] EXCEPT !.conn = "notified", !.ahead = q]
  <2>6. GoodSocket(s, m[s])
    BY <2>1 DEF GoodSockets
  <2>7. GoodSocket(s, r) /\ r.conn = "notified"
    BY <2>1, <2>5, <2>6 DEF GoodSocket, SslSockets
  <2>8. Put(m, s, r, sk')
    BY <2>1, <2>2, <2>4, <2>6 DEF Put, GoodSockets, GoodSocket, SslSockets
  <2> HIDE DEF r
  <2> QED
    BY <2>1, <2>7, <2>8, PutGood
<1>8. ASSUME NEW taken \in BOOLEAN, NEW left \in Skipped(ahead), sk' = Down(WithAhead(n(taken), s, left), s)
      PROVE  /\ GoodSockets(sk') /\ sk'[s].conn \in {"notified", "shut_down"}
             /\ \A t \in Sockets \ {s} : sk'[t] = sk[t]
  <2> DEFINE m == n(taken)
             p == WithAhead(m, s, left)
  <2>1. GoodSockets(m) /\ m[s].conn = "open" /\ \A t \in Sockets \ {s} : m[t] = sk[t]
    BY <1>6
  <2>2. sk' = Down(p, s)
    BY <1>8
  <2> HIDE DEF m
  <2>3. left \in Seq(Records)
    BY <1>3, SkippedRecords
  <2>4. GoodSockets(p) /\ p[s].conn = "open" /\ \A t \in Sockets \ {s} : p[t] = m[t]
    BY <2>1, <2>3, AheadGood
  <2> HIDE DEF p
  <2>5. GoodSockets(sk') /\ sk'[s].conn = "shut_down" /\ \A t \in Sockets \ {s} : sk'[t] = p[t]
    BY <2>2, <2>4, DownGood
  <2> QED
    BY <2>1, <2>4, <2>5
<1> HIDE DEF n
<1> QED
  BY <1>4, <1>5, <1>7, <1>8 DEF goal

LEMMA ShutdownStep ==
  ASSUME Inv, Careful, NEW s \in Sockets, Shutdown(s)
  PROVE  Inv'
<1>1. Aim(s) /\ UNCHANGED <<local, cb>> /\ sk[s].conn = "open" /\ at \notin {"bye", "read", "full"}
  BY MayUseSpent DEF Shutdown
<1>2. \A t \in Sockets : (sk'[t].conn \in {"free", "closed"}) = Closed(t)
  BY <1>1, ShutdownGood DEF Closed
<1> QED
  BY <1>1, <1>2, ShutdownGood, CallKeeps

LEMMA EndStep ==
  ASSUME Inv, NEW s \in Sockets, End(s)
  PROVE  Inv'
BY CloseGood DEF End

LEMMA CloseStep ==
  ASSUME Inv, NEW s \in Sockets, Close(s)
  PROVE  Inv'
<1>1. at \notin {"bye", "read", "get_shutdown", "writable"}
  BY DEF Close, InApp, Inv, Control
<1> QED
  BY <1>1, CloseGood DEF Close, InApp

LEMMA ReturnStep ==
  ASSUME Inv, Return
  PROVE  Inv'
<1>1. cb' = NoHandler /\ UNCHANGED <<sk, bio, local>>
  BY DEF Return
<1>2. Typing'
  BY <1>1 DEF Inv, Typing, local
<1>3. Control'
  BY <1>1 DEF Inv, Control, Closed, local
<1>4. Aimed'
  BY <1>1 DEF Inv, Aimed, Spent, Closed, ShutDown, local
<1> QED
  BY <1>1, <1>2, <1>3, <1>4 DEF Inv, GoodSockets

LEMMA InvStep ==
  ASSUME Careful, Inv, [Next]_vars
  PROVE  Inv'
<1>1. CASE UNCHANGED vars
  BY <1>1 DEF vars, Inv, GoodSockets, Typing, Control, Aimed, Spent, Closed, ShutDown
<1>2. CASE Library
  BY <1>2, FillStep, ByeStep, ReadDataStep, ReadPartStep, ReadHandshakeStep, ReadFailsStep,
     ReadAnswersStep, ReadWantsReadStep, EmitFullStep, RestartStep, TailWritableStep,
     TailedStep, GetShutdownStep, DataDoneStep, EmitWritableStep, WrittenStep DEF Library
<1>3. CASE Return
  BY <1>3, ReturnStep
<1>4. ASSUME NEW s \in Sockets,
             Open(s) \/ End(s) \/ Recv(s) \/ Writable(s) \/ Write(s) \/ Shutdown(s) \/ Close(s)
      PROVE  Inv'
  BY <1>4, OpenStep, EndStep, RecvStep, WritableStep, WriteStep, ShutdownStep, CloseStep
<1> QED
  BY <1>1, <1>2, <1>3, <1>4 DEF Next

(* The sockets, the position of the library and the shared BIOs stay in step. *)
THEOREM BiosStayAimed ==
  ASSUME Careful
  PROVE  Spec => []Inv
<1>1. Init => Inv
  BY InitGood
<1>2. Inv /\ [Next]_vars => Inv'
  BY InvStep
<1> QED
  BY <1>1, <1>2, PTL DEF Spec

(* An SSL reads only what its own socket received, and what it writes goes    *)
(* out on its own socket (openssl.c:112-149, 201-212), whatever the handlers  *)
(* do with the other sockets of the loop.                                     *)
THEOREM SslReadsItsOwn ==
  ASSUME Careful
  PROVE  Spec => []OwnRecords
<1>1. Inv => OwnRecords
  BY DEF Inv, GoodSockets, GoodSocket, OwnRecords
<1> QED
  BY <1>1, BiosStayAimed, PTL

(* No byte that an open socket received is thrown away before its SSL has     *)
(* seen it (openssl.c:756-775).                                               *)
THEOREM SslMissesNoInput ==
  ASSUME Careful
  PROVE  Spec => []NoInputSkipped
<1>1. Inv => NoInputSkipped
  BY DEF Inv, GoodSockets, GoodSocket, NoInputSkipped
<1> QED
  BY <1>1, BiosStayAimed, PTL

(* ssl_on_data never calls OpenSSL on an SSL that a handler made the library  *)
(* free (openssl.c:275, 293, 311).                                            *)
THEOREM SslNotUsedAfterFree ==
  ASSUME Careful
  PROVE  Spec => []SslAlive
<1>1. Inv => SslAlive
  BY DEF Inv, Typing, Control, Closed, GoodSockets, GoodSocket, SslSockets, SslAlive
<1> QED
  BY <1>1, BiosStayAimed, PTL

LEMMA SilentStep ==
  ASSUME Inv, Next, cb' # cb, cb'.ev \in {"on_data", "on_writable"}
  PROVE  ~Closed(cb'.s) \/ (at = "retried" /\ cb'.ev = "on_writable")
<1>1. NoHandler.ev = "none"
  BY DEF NoHandler
<1>2. cb'.s = cur /\ (at \in {"read", "writable"} \/ (at = "retried" /\ cb'.ev = "on_writable"))
  <2>1. CASE Library
    <3>1. CASE Bye \/ GetShutdown
      BY <3>1 DEF Bye, GetShutdown, Emit
    <3>2. CASE ReadFails
      BY <3>2 DEF ReadFails, HasRecord, InRead, Emit
    <3>3. CASE ReadAnswers
      BY <3>3 DEF ReadAnswers, Reading, Exhausted, Emit
    <3>4. CASE ReadWantsRead
      BY <3>4 DEF ReadWantsRead, InRead, Reading, Exhausted, Emit
    <3>5. CASE EmitFull
      BY <3>5 DEF EmitFull, Emit
    <3>6. CASE EmitWritable
      BY <3>6 DEF EmitWritable, Emit
    <3>7. CASE Fill \/ ReadData \/ ReadPart \/ ReadHandshake \/ Restart \/ TailWritable \/ Tailed
               \/ DataDone \/ Written
      BY <3>7 DEF Fill, ReadData, ReadPart, ReadHandshake, Restart, TailWritable, EndOfData, Tailed,
         DataDone, Written
    <3> QED
      BY <2>1, <3>1, <3>2, <3>3, <3>4, <3>5, <3>6, <3>7 DEF Library
  <2>2. CASE Return
    BY <1>1, <2>2 DEF Return
  <2>3. ASSUME NEW s \in Sockets,
               Open(s) \/ End(s) \/ Recv(s) \/ Writable(s) \/ Write(s) \/ Shutdown(s) \/ Close(s)
        PROVE  FALSE
    <3>1. Open(s) => cb'.ev = "on_open"
      BY DEF Open, Emit
    <3>2. End(s) => cb'.ev = "on_close"
      BY DEF End, Emit
    <3>3. Recv(s) \/ Writable(s) \/ Close(s) => cb' = cb
      BY DEF Recv, Writable, Close
    <3>4. Write(s) \/ Shutdown(s) => cb' = cb
      BY DEF Write, Shutdown
    <3> QED
      BY <2>3, <3>1, <3>2, <3>3, <3>4
  <2> QED
    BY <2>1, <2>2, <2>3 DEF Next
<1> QED
  BY <1>2 DEF Inv, Control

(* The application hears no more of a socket after its on_close: ssl_on_data  *)
(* looks whether a handler closed it (openssl.c:275, 293, 311).  Only         *)
(* ssl_on_writable does not, after the read it takes up again (344-348): that *)
(* on_writable is the one call a closed socket may still get.                 *)
THEOREM SslSilentAfterClose ==
  ASSUME Careful
  PROVE  Spec => SilentAfterClose
<1>1. Inv /\ [Next]_vars =>
        [cb' # cb /\ cb'.ev \in {"on_data", "on_writable"} =>
           ~Closed(cb'.s) \/ (at = "retried" /\ cb'.ev = "on_writable")]_vars
  BY SilentStep
<1> QED
  BY <1>1, BiosStayAimed, PTL DEF Spec, SilentAfterClose

-----------------------------------------------------------------------------
(***************************************************************************)
(* A socket that waits will be woken.  RetryArmed is not inductive: before  *)
(* the loop stops polling for writable, what the socket still waits for     *)
(* must have left its trace in last_write_failed, and what OpenSSL has read *)
(* ahead waits for a read that could not write.                             *)
(***************************************************************************)
LoopCalled == at # "idle" /\ (retry \/ at = "written" \/ (at \in {"writable", "retried"} /\ ~inner))

Woken(s, r) ==
  r.conn = "open" =>
    /\ r.owed => r.armed \/ r.ssl_write_wants_read \/ Waking(s)
    /\ r.ssl_read_wants_write => r.armed

FailureKept ==
  LoopCalled /\ sk[cur].conn = "open" =>
    /\ sk[cur].ssl_read_wants_write => lastWriteFailed
    /\ at = "written" /\ sk[cur].owed => lastWriteFailed \/ sk[cur].ssl_write_wants_read

\* The other part of RetryArmed.
Unread(m, s) == m[s].conn = "open" /\ m[s].ahead # <<>> => m[s].ssl_read_wants_write
AheadKept == \A s \in Sockets : ~BeingRead(s) => Unread(sk, s)

Armed == \A s \in Sockets : Woken(s, sk[s])

Pending == Armed /\ FailureKept

\* r becomes q, and failed says that a write has failed: a new wait is armed, and
\* an old one stays so.
Calm(r, q, failed) ==
  q.conn = "open" =>
    /\ q.owed => \/ q.armed /\ failed
                 \/ q.ssl_write_wants_read \/ q.ssl_read_wants_write
                 \/ /\ r.conn = "open" /\ r.owed /\ (r.armed => q.armed)
                    /\ r.ssl_write_wants_read => q.ssl_write_wants_read
    /\ q.ssl_read_wants_write => \/ q.armed /\ failed
                                 \/ r.conn = "open" /\ r.ssl_read_wants_write /\ (r.armed => q.armed)

Onward ==
  /\ LoopCalled' => LoopCalled /\ cur' = cur /\ cur \in Sockets
  /\ at' = "written" => at = "written"
  /\ \A t \in Sockets : Waking(t) => Waking(t)'

LEMMA CalmKeeps ==
  ASSUME Pending, \A t \in Sockets : Calm(sk[t], sk'[t], lastWriteFailed'),
         lastWriteFailed => lastWriteFailed', Onward
  PROVE  Pending'
<1>1. ASSUME NEW t \in Sockets PROVE Woken(t, sk[t])'
  <2>1. Woken(t, sk[t])
    BY DEF Pending, Armed, Woken
  <2>2. Calm(sk[t], sk'[t], lastWriteFailed') /\ (Waking(t) => Waking(t)')
    BY DEF Onward
  <2> QED
    BY <2>1, <2>2 DEF Woken, Calm
<1>2. Armed'
  BY <1>1 DEF Armed, Woken
<1>3. FailureKept'
  <2> SUFFICES ASSUME LoopCalled', sk'[cur'].conn = "open"
               PROVE  /\ sk'[cur'].ssl_read_wants_write => lastWriteFailed'
                      /\ at' = "written" /\ sk'[cur'].owed =>
                           lastWriteFailed' \/ sk'[cur'].ssl_write_wants_read
    BY DEF FailureKept
  <2>1. LoopCalled /\ cur' = cur /\ cur \in Sockets /\ (at' = "written" => at = "written")
    BY DEF Onward
  <2>2. Calm(sk[cur], sk'[cur], lastWriteFailed')
    BY <2>1
  <2> QED
    BY <2>1, <2>2 DEF Calm, Pending, FailureKept
<1> QED
  BY <1>2, <1>3 DEF Pending

\* A socket that is closed, or that does not change, waits for nothing new.
LEMMA CalmTrivially ==
  ASSUME NEW r, NEW q, NEW failed, q = r \/ q.conn # "open"
  PROVE  Calm(r, q, failed)
BY DEF Calm

LEMMA OpenPends ==
  ASSUME Inv, Pending, NEW s \in Sockets, Open(s)
  PROVE  Pending'
<1>1. sk' = [sk EXCEPT ![s] = [Blank EXCEPT !.conn = "open", !.ssl = "init"]]
      /\ UNCHANGED <<local, lastWriteFailed>> /\ at = "idle"
  BY DEF Open
<1>2. ASSUME NEW t \in Sockets PROVE Calm(sk[t], sk'[t], lastWriteFailed')
  <2>1. CASE t # s
    <3>1. sk'[t] = sk[t]
      BY <1>1, <2>1 DEF Inv, GoodSockets
    <3> QED
      BY <3>1, CalmTrivially
  <2>2. CASE t = s
    <3>1. sk'[t] = [Blank EXCEPT !.conn = "open", !.ssl = "init"]
      BY <1>1, <2>2 DEF Inv, GoodSockets
    <3>2. ~sk'[t].owed /\ ~sk'[t].ssl_read_wants_write
      BY <3>1 DEF Blank
    <3> QED
      BY <3>2 DEF Calm
  <2> QED
    BY <2>1, <2>2
<1>3. Onward
  BY <1>1 DEF Onward, LoopCalled, Waking, local
<1> QED
  BY <1>1, <1>2, <1>3, CalmKeeps

\* Closing a socket.
LEMMA ClosePends ==
  ASSUME Inv, Pending, NEW s \in Sockets, sk' = CloseIn(sk, s), lastWriteFailed' = lastWriteFailed, Onward
  PROVE  Pending'
<1>1. sk'[s].conn = "closed" /\ \A t \in Sockets \ {s} : sk'[t] = sk[t]
  BY CloseInGood DEF Inv
<1>2. \A t \in Sockets : Calm(sk[t], sk'[t], lastWriteFailed')
  BY <1>1, CalmTrivially
<1> QED
  BY <1>2, CalmKeeps

LEMMA StillPends ==
  ASSUME Inv, Pending, UNCHANGED <<sk, lastWriteFailed>>, Onward
  PROVE  Pending'
<1>1. \A t \in Sockets : Calm(sk[t], sk'[t], lastWriteFailed')
  BY CalmTrivially
<1> QED
  BY <1>1, CalmKeeps

LEMMA RecvPends ==
  ASSUME Inv, Pending, NEW s \in Sockets, Recv(s)
  PROVE  Pending'
<1>1. PICK w \in Windows : Begin(s, w) /\ sk' = [DropInput(sk) EXCEPT ![s].mid = w[Len(w)] = "part"]
  BY DEF Recv
<1>2. DropInput(sk) = sk /\ at = "idle" /\ ~inner
  BY DropInputSame DEF Recv, Inv, Aimed, Control
<1>3. UNCHANGED lastWriteFailed /\ retry' = FALSE /\ at' \in {"bye", "read"}
  BY <1>1 DEF Recv, Begin
<1>4. GoodSocket(s, sk[s])
  BY DEF Inv, GoodSockets
<1>5. ASSUME NEW t \in Sockets PROVE Calm(sk[t], sk'[t], lastWriteFailed')
  <2>1. CASE t # s
    BY <1>1, <1>2, <2>1, CalmTrivially DEF Inv, GoodSockets
  <2>2. CASE t = s
    <3>1. sk'[t] = [sk[t] EXCEPT !.mid = w[Len(w)] = "part"]
      BY <1>1, <1>2, <2>2 DEF Inv, GoodSockets
    <3> QED
      BY <1>4, <2>2, <3>1 DEF Calm, GoodSocket, SslSockets
  <2> QED
    BY <2>1, <2>2
<1>6. Onward
  BY <1>2, <1>3 DEF Onward, LoopCalled, Waking
<1> QED
  BY <1>3, <1>5, <1>6, CalmKeeps

\* A step of the library that goes to no write, with the calls as they are.
LEMMA SameCalls ==
  ASSUME Inv, at \notin {"idle", "written", "tailed"}, UNCHANGED <<cur, retry, inner>>,
         at' \in {"bye", "read", "full", "tail", "get_shutdown", "return"}
  PROVE  Onward
BY DEF Inv, Typing, Onward, LoopCalled, Waking

LEMMA FillPends ==
  ASSUME Inv, Pending, Fill
  PROVE  Pending'
<1>1. /\ at \in {"bye", "read"} /\ UNCHANGED <<at, cur, retry, inner, lastWriteFailed>> /\ cur \in Sockets
  BY DEF Fill, InRead, Reading, Inv, Typing, local
<1>2. PICK k \in 1..Len(bio.input) :
        sk' = [sk EXCEPT ![cur].ahead = SubSeq(bio.input, 1, k), ![cur].mixed = @ \cup ({bio.of} \ {cur})]
  BY DEF Fill
<1>3. GoodSocket(cur, sk[cur])
  BY <1>1 DEF Inv, GoodSockets
<1>4. PICK q, w : sk' = [sk EXCEPT ![cur].ahead = q, ![cur].mixed = w]
  BY <1>1, <1>2, <1>3 DEF Inv, GoodSockets, GoodSocket, SslSockets
<1>5. sk'[cur] = [sk[cur] EXCEPT !.ahead = q, !.mixed = w] /\ \A t \in Sockets \ {cur} : sk'[t] = sk[t]
  BY <1>1, <1>3, <1>4 DEF Inv, GoodSockets, GoodSocket, SslSockets
<1>6. Calm(sk[cur], sk'[cur], lastWriteFailed')
  BY <1>3, <1>5 DEF Calm, GoodSocket, SslSockets
<1>7. \A t \in Sockets : Calm(sk[t], sk'[t], lastWriteFailed')
  BY <1>5, <1>6, CalmTrivially
<1> QED
  BY <1>1, <1>7, SameCalls, CalmKeeps

LEMMA ByePends ==
  ASSUME Inv, Pending, Bye
  PROVE  Pending'
<1>1. /\ at = "bye" /\ at' = "return" /\ UNCHANGED <<cur, retry, inner, lastWriteFailed>>
      /\ cur \in Sockets /\ ShutDown(cur) /\ GoodSockets(sk)
  BY DEF Bye, Inv, Typing, Aimed
<1>2. Onward
  BY <1>1, SameCalls
<1>3. CASE sk' = CloseIn(sk, cur)
  BY <1>1, <1>2, <1>3, ClosePends
<1>4. ASSUME NEW left \in Skipped(sk[cur].ahead), sk' = [sk EXCEPT ![cur].ahead = left]
      PROVE  Pending'
  <2>1. sk[cur].ahead \in Seq(Records)
    BY <1>1 DEF GoodSockets, GoodSocket, SslSockets
  <2>2. left \in Seq(Records)
    BY <2>1, SkippedRecords
  <2>5. sk' = WithAhead(sk, cur, left)
    BY <1>4 DEF WithAhead
  <2>3. sk'[cur].conn # "open" /\ \A t \in Sockets \ {cur} : sk'[t] = sk[t]
    BY <1>1, <2>2, <2>5, AheadGood DEF ShutDown
  <2>4. \A t \in Sockets : Calm(sk[t], sk'[t], lastWriteFailed')
    BY <2>3, CalmTrivially
  <2> QED
    BY <1>1, <1>2, <2>4, CalmKeeps
<1> QED
  BY <1>3, <1>4 DEF Bye

\* Reading a record, whatever it is, leaves the waits alone.
LEMMA RecordFields ==
  ASSUME Inv, ReadData \/ ReadPart \/ ReadHandshake
  PROVE  /\ at = "read" /\ cur \in Sockets /\ UNCHANGED <<at, cur, retry, inner, lastWriteFailed>>
         /\ \A t \in Sockets \ {cur} : sk'[t] = sk[t]
         /\ sk'[cur].conn = sk[cur].conn /\ sk'[cur].owed = sk[cur].owed
         /\ sk'[cur].armed = sk[cur].armed
         /\ sk'[cur].ssl_write_wants_read = sk[cur].ssl_write_wants_read
         /\ sk'[cur].ssl_read_wants_write = sk[cur].ssl_read_wants_write
<1>1. Reading /\ sk[cur].ahead # <<>> /\ UNCHANGED <<at, cur, retry, inner, lastWriteFailed>>
  BY DEF ReadData, ReadPart, ReadHandshake, HasRecord, InRead, local
<1>2. cur \in Sockets
  BY <1>1, ReadingFacts
<1>3. GoodSocket(cur, sk[cur])
  BY <1>2 DEF Inv, GoodSockets
<1>4. GoodSockets(sk)
  BY DEF Inv
<1>5. /\ \A t \in Sockets \ {cur} : sk'[t] = sk[t]
      /\ sk'[cur].conn = sk[cur].conn /\ sk'[cur].owed = sk[cur].owed
      /\ sk'[cur].armed = sk[cur].armed
      /\ sk'[cur].ssl_write_wants_read = sk[cur].ssl_write_wants_read
      /\ sk'[cur].ssl_read_wants_write = sk[cur].ssl_read_wants_write
  <2> DEFINE m == Consumed(sk)
  <2>1. /\ GoodSockets(m) /\ m[cur] = [sk[cur] EXCEPT !.ahead = Tail(@)]
        /\ \A t \in Sockets \ {cur} : m[t] = sk[t]
    BY <1>1, <1>2, <1>4, ConsumedGood
  <2>2. GoodSocket(cur, m[cur])
    BY <1>2, <2>1 DEF GoodSockets
  <2>3. \/ sk' = [m EXCEPT ![cur].held = FALSE]
        \/ sk' = [m EXCEPT ![cur].held = TRUE]
        \/ \E state \in {sk[cur].ssl, "up"}, out \in {sk[cur].out, "answer"} :
             sk' = [m EXCEPT ![cur].ssl = state, ![cur].out = IF @ = "record" THEN @ ELSE out]
    BY DEF ReadData, ReadPart, ReadHandshake
  <2> HIDE DEF m
  <2>4. /\ m[cur].conn = sk[cur].conn /\ m[cur].owed = sk[cur].owed
        /\ m[cur].armed = sk[cur].armed
        /\ m[cur].ssl_write_wants_read = sk[cur].ssl_write_wants_read
        /\ m[cur].ssl_read_wants_write = sk[cur].ssl_read_wants_write
    BY <1>3, <2>1 DEF GoodSocket, SslSockets
  <2>5. CASE sk' = [m EXCEPT ![cur].held = FALSE] \/ sk' = [m EXCEPT ![cur].held = TRUE]
    BY <1>2, <2>1, <2>2, <2>4, <2>5 DEF GoodSockets, GoodSocket, SslSockets
  <2>6. ASSUME NEW state \in {sk[cur].ssl, "up"}, NEW out \in {sk[cur].out, "answer"},
               sk' = [m EXCEPT ![cur].ssl = state, ![cur].out = IF @ = "record" THEN @ ELSE out]
        PROVE  /\ \A t \in Sockets \ {cur} : sk'[t] = m[t]
               /\ sk'[cur].conn = m[cur].conn /\ sk'[cur].owed = m[cur].owed
               /\ sk'[cur].armed = m[cur].armed
               /\ sk'[cur].ssl_write_wants_read = m[cur].ssl_write_wants_read
               /\ sk'[cur].ssl_read_wants_write = m[cur].ssl_read_wants_write
    BY <1>2, <2>1, <2>2, <2>6 DEF GoodSockets, GoodSocket, SslSockets
  <2> QED
    BY <2>1, <2>3, <2>4, <2>5, <2>6
<1> QED
  BY <1>1, <1>2, <1>5, ReadingFacts

LEMMA RecordPends ==
  ASSUME Inv, Pending, ReadData \/ ReadPart \/ ReadHandshake
  PROVE  Pending'
<1>1. ASSUME NEW t \in Sockets PROVE Calm(sk[t], sk'[t], lastWriteFailed')
  <2>1. CASE t = cur
    BY <2>1, RecordFields DEF Calm
  <2>2. CASE t # cur
    BY <2>2, RecordFields, CalmTrivially
  <2> QED
    BY <2>1, <2>2
<1>2. Onward
  BY RecordFields, SameCalls
<1> QED
  BY <1>1, <1>2, RecordFields, CalmKeeps

LEMMA ReadFailsPends ==
  ASSUME Inv, Pending, ReadFails
  PROVE  Pending'
<1>1. Reading /\ sk[cur].ahead # <<>> /\ UNCHANGED <<cur, retry, inner, lastWriteFailed>> /\ at' = "return"
      /\ sk' = CloseIn(Consumed(sk), cur)
  BY DEF ReadFails, HasRecord, InRead
<1>2. cur \in Sockets
  BY <1>1, ReadingFacts
<1> DEFINE m == Consumed(sk)
<1>3. GoodSockets(m) /\ \A t \in Sockets \ {cur} : m[t] = sk[t]
  BY <1>1, <1>2, ConsumedGood DEF Inv
<1>4. sk' = CloseIn(m, cur)
  BY <1>1
<1> HIDE DEF m
<1>5. sk'[cur].conn = "closed" /\ \A t \in Sockets \ {cur} : sk'[t] = sk[t]
  BY <1>2, <1>3, <1>4, CloseInGood
<1>6. \A t \in Sockets : Calm(sk[t], sk'[t], lastWriteFailed')
  BY <1>5, CalmTrivially
<1>7. Onward
  BY <1>1, <1>2 DEF Reading, Onward, LoopCalled, Waking
<1> QED
  BY <1>1, <1>6, <1>7, CalmKeeps

\* What a write of an SSL does to the sockets.
LEMMA BioWriteFields ==
  ASSUME GoodSockets(sk), NEW s \in Sockets, NEW taken \in BOOLEAN,
         NEW what \in {"none", "answer", "record"}, NEW m, m = BioWrite(sk, s, s, taken, what)
  PROVE  /\ GoodSockets(m) /\ \A t \in Sockets \ {s} : m[t] = sk[t]
         /\ m[s].conn = sk[s].conn /\ m[s].owed = sk[s].owed
         /\ m[s].ssl_write_wants_read = sk[s].ssl_write_wants_read
         /\ m[s].ssl_read_wants_write = sk[s].ssl_read_wants_write
         /\ sk[s].armed => m[s].armed
         /\ ~taken /\ CanSend(s) => m[s].armed
<1>1. GoodSocket(s, sk[s])
  BY DEF GoodSockets
<1>2. /\ GoodSockets(m) /\ \A t \in Sockets \ {s} : m[t] = sk[t]
      /\ m[s] = AfterWrite(sk[s], s, taken, what)
  BY BioWriteGood
<1>3. /\ m[s].conn = sk[s].conn /\ m[s].owed = sk[s].owed
      /\ m[s].ssl_write_wants_read = sk[s].ssl_write_wants_read
      /\ m[s].ssl_read_wants_write = sk[s].ssl_read_wants_write
      /\ m[s].armed = (sk[s].armed \/ (~taken /\ CanSend(s)))
  BY <1>1, <1>2, AfterWriteFields
<1> QED
  BY <1>2, <1>3

\* The end of a read of m, where m waits for no more than sk.
LEMMA ExhaustedPends ==
  ASSUME Inv, Pending, Reading, NEW m, GoodSockets(m), Exhausted(m), UNCHANGED <<bio, cur, retry, inner, read>>,
         lastWriteFailed => lastWriteFailed',
         \A t \in Sockets \ {cur} : m[t] = sk[t],
         Calm(sk[cur], m[cur], lastWriteFailed')
  PROVE  Pending'
<1>1. cur \in Sockets
  BY ReadingFacts
<1>2. CASE bio.input # <<>>
  <2>1. sk' = CloseIn(m, cur) /\ at' = "return"
    BY <1>2 DEF Exhausted
  <2>2. sk'[cur].conn = "closed" /\ \A t \in Sockets \ {cur} : sk'[t] = sk[t]
    BY <1>1, <2>1, CloseInGood
  <2>3. \A t \in Sockets : Calm(sk[t], sk'[t], lastWriteFailed')
    BY <2>2, CalmTrivially
  <2>4. Onward
    BY <1>1, <2>1 DEF Reading, Onward, LoopCalled, Waking
  <2> QED
    BY <2>3, <2>4, CalmKeeps
<1>3. CASE bio.input = <<>>
  <2>1. sk' = m /\ at' = "tail"
    BY <1>3 DEF Exhausted
  <2>2. \A t \in Sockets : Calm(sk[t], sk'[t], lastWriteFailed')
    BY <2>1, CalmTrivially
  <2>3. Onward
    BY <1>1, <2>1 DEF Reading, Onward, LoopCalled, Waking
  <2> QED
    BY <2>2, <2>3, CalmKeeps
<1> QED
  BY <1>2, <1>3

LEMMA ReadWantsReadPends ==
  ASSUME Inv, Pending, ReadWantsRead
  PROVE  Pending'
<1>1. Reading /\ Exhausted(sk) /\ UNCHANGED <<bio, cur, retry, inner, read, lastWriteFailed>>
  BY DEF ReadWantsRead, InRead
<1>2. Calm(sk[cur], sk[cur], lastWriteFailed')
  BY CalmTrivially
<1> QED
  BY <1>1, <1>2, ExhaustedPends DEF Inv

LEMMA ReadAnswersPends ==
  ASSUME Inv, Pending, ReadAnswers
  PROVE  Pending'
<1>1. Reading /\ UNCHANGED <<bio, cur, retry, inner, read>>
  BY DEF ReadAnswers
<1>2. cur \in Sockets /\ bio.target = cur
  BY <1>1, ReadingFacts
<1>3. PICK taken \in BOOLEAN :
        /\ LET m == BioWrite(sk, cur, bio.target, taken, "answer")
           IN  IF taken THEN sk' = m /\ UNCHANGED <<at, cb>>
               ELSE Exhausted([m EXCEPT ![cur].ssl_read_wants_write = TRUE])
        /\ Failed(bio.target, taken)
  BY DEF ReadAnswers
<1> DEFINE m == BioWrite(sk, cur, cur, taken, "answer")
<1>4. GoodSockets(sk)
  BY DEF Inv
<1>5. /\ \A t \in Sockets \ {cur} : m[t] = sk[t]
      /\ m[cur].conn = sk[cur].conn /\ m[cur].owed = sk[cur].owed
      /\ m[cur].ssl_write_wants_read = sk[cur].ssl_write_wants_read
      /\ m[cur].ssl_read_wants_write = sk[cur].ssl_read_wants_write
      /\ sk[cur].armed => m[cur].armed
      /\ ~taken /\ CanSend(cur) => m[cur].armed
  BY <1>2, <1>4, BioWriteFields
<1>6. GoodSockets(m)
  BY <1>2, <1>4, BioWriteFields
<1>7. IF taken THEN sk' = m /\ UNCHANGED <<at, cb>>
      ELSE Exhausted([m EXCEPT ![cur].ssl_read_wants_write = TRUE])
  BY <1>2, <1>3
<1>8. (lastWriteFailed => lastWriteFailed') /\ (~taken /\ CanSend(cur) => lastWriteFailed')
  BY <1>2, <1>3 DEF Failed
<1> HIDE DEF m
<1>9. CASE taken
  <2>1. sk' = m /\ UNCHANGED at
    BY <1>7, <1>9
  <2>2. ASSUME NEW t \in Sockets PROVE Calm(sk[t], sk'[t], lastWriteFailed')
    BY <1>5, <2>1 DEF Calm
  <2>3. Onward
    BY <1>1, <1>2, <2>1 DEF Onward, LoopCalled, Waking
  <2> QED
    BY <1>8, <2>2, <2>3, CalmKeeps
<1>10. CASE ~taken
  <2> DEFINE r == [m[cur] EXCEPT !.ssl_read_wants_write = TRUE]
             n == [m EXCEPT ![cur].ssl_read_wants_write = TRUE]
  <2>1. GoodSocket(cur, m[cur])
    BY <1>2, <1>6 DEF GoodSockets
  <2>2. GoodSocket(cur, r) /\ r.conn = m[cur].conn /\ r.owed = m[cur].owed /\ r.armed = m[cur].armed
        /\ r.ssl_write_wants_read = m[cur].ssl_write_wants_read
    BY <2>1 DEF GoodSocket, SslSockets
  <2>3. Put(m, cur, r, n)
    BY <1>6, <2>1 DEF Put, GoodSockets, GoodSocket, SslSockets
  <2>4. Exhausted(n)
    BY <1>7, <1>10
  <2> HIDE DEF r, n
  <2>5. GoodSockets(n) /\ n[cur] = r /\ \A t \in Sockets \ {cur} : n[t] = m[t]
    BY <1>2, <1>6, <2>2, <2>3, PutGood
  <2>6. \A t \in Sockets \ {cur} : n[t] = sk[t]
    BY <1>5, <2>5
  <2>7. Calm(sk[cur], n[cur], lastWriteFailed')
    BY <1>5, <1>8, <1>10, <2>2, <2>5 DEF Calm, CanSend
  <2> QED
    BY <1>1, <1>8, <2>4, <2>5, <2>6, <2>7, ExhaustedPends
<1> QED
  BY <1>9, <1>10

\* The steps of the library that leave the sockets alone.
LEMMA MovesPend ==
  ASSUME Inv, Pending, EmitFull \/ Restart \/ Tailed \/ DataDone
  PROVE  Pending'
<1>1. at # "idle" /\ at # "written" /\ UNCHANGED <<cur, retry, lastWriteFailed>>
  BY DEF EmitFull, Restart, Tailed, DataDone
<1>2. cur \in Sockets
  BY <1>1 DEF Inv, Typing
<1>3. \A t \in Sockets : Waking(t) => Waking(t)'
  BY <1>1 DEF EmitFull, Restart, Tailed, DataDone, Waking
<1>4. LoopCalled' => LoopCalled
  BY <1>1 DEF EmitFull, Restart, Tailed, DataDone, LoopCalled, Inv, Typing
<1>5. at' # "written"
  BY DEF EmitFull, Restart, Tailed, DataDone
<1>6. sk' = sk
  <2>1. DataDone => Spent
    BY DEF DataDone, Inv, Aimed
  <2> QED
    BY <2>1, DropInputSame DEF EmitFull, Restart, Tailed, DataDone
<1> QED
  BY <1>1, <1>2, <1>3, <1>4, <1>5, <1>6, StillPends DEF Onward

LEMMA GetShutdownPends ==
  ASSUME Inv, Pending, GetShutdown
  PROVE  Pending'
<1>1. at = "get_shutdown" /\ at' = "return" /\ UNCHANGED <<cur, retry, inner, lastWriteFailed>> /\ cur \in Sockets
  BY DEF GetShutdown, Inv, Typing
<1>2. Onward
  BY <1>1, SameCalls
<1> QED
  BY <1>1, <1>2, ClosePends, StillPends DEF GetShutdown

\* EmitWritable, Written and Writable decide about the sockets that are awaited.
LEMMA EmitWritablePends ==
  ASSUME Inv, Pending, EmitWritable
  PROVE  Pending'
<1>1. /\ at \in {"writable", "retried"} /\ UNCHANGED <<bio, cur, retry, inner, read, lastWriteFailed>>
      /\ sk' = [sk EXCEPT ![cur].owed = FALSE] /\ at' = IF inner THEN "tailed" ELSE "written"
  BY DEF EmitWritable
<1>2. cur \in Sockets /\ GoodSocket(cur, sk[cur])
  BY <1>1 DEF Inv, Typing, GoodSockets
<1>3. sk'[cur] = [sk[cur] EXCEPT !.owed = FALSE] /\ \A t \in Sockets \ {cur} : sk'[t] = sk[t]
  BY <1>1, <1>2 DEF Inv, GoodSockets
<1>4. /\ ~sk'[cur].owed /\ sk'[cur].conn = sk[cur].conn /\ sk'[cur].armed = sk[cur].armed
      /\ sk'[cur].ssl_read_wants_write = sk[cur].ssl_read_wants_write
  BY <1>2, <1>3 DEF GoodSocket, SslSockets
<1>5. Armed'
  <2>1. ASSUME NEW t \in Sockets PROVE Woken(t, sk[t])'
    <3>1. Woken(t, sk[t])
      BY DEF Pending, Armed, Woken
    <3>2. CASE t = cur
      BY <1>4, <3>1, <3>2 DEF Woken
    <3>3. CASE t # cur
      <4>1. ~Waking(t) /\ sk'[t] = sk[t]
        BY <1>3, <3>3 DEF Waking
      <4> QED
        BY <3>1, <4>1 DEF Woken
    <3> QED
      BY <3>2, <3>3
  <2> QED
    BY <2>1 DEF Armed, Woken
<1>6. FailureKept'
  <2>1. LoopCalled' => LoopCalled
    BY <1>1 DEF LoopCalled, Inv, Typing
  <2> QED
    BY <1>1, <1>4, <2>1 DEF Pending, FailureKept
<1> QED
  BY <1>5, <1>6 DEF Pending

LEMMA WrittenPends ==
  ASSUME Inv, Pending, Written
  PROVE  Pending'
<1> DEFINE e == sk[cur].armed /\ ~Closed(cur) /\ lastWriteFailed
<1>1. /\ at = "written" /\ UNCHANGED <<bio, cur, inner, read, lastWriteFailed>>
      /\ sk' = [sk EXCEPT ![cur].armed = e] /\ at' = "idle"
  BY DEF Written
<1>2. cur \in Sockets /\ GoodSocket(cur, sk[cur]) /\ ~inner
  BY <1>1 DEF Inv, Typing, Control, GoodSockets
<1>3. sk'[cur] = [sk[cur] EXCEPT !.armed = e] /\ \A t \in Sockets \ {cur} : sk'[t] = sk[t]
  BY <1>1, <1>2 DEF Inv, GoodSockets
<1>4. e \in BOOLEAN /\ (sk[cur].conn = "open" => e = (sk[cur].armed /\ lastWriteFailed))
  BY <1>2 DEF Closed, GoodSocket, SslSockets
<1> HIDE DEF e
<1>5. /\ sk'[cur].armed = e /\ sk'[cur].conn = sk[cur].conn /\ sk'[cur].owed = sk[cur].owed
      /\ sk'[cur].ssl_write_wants_read = sk[cur].ssl_write_wants_read
      /\ sk'[cur].ssl_read_wants_write = sk[cur].ssl_read_wants_write
  BY <1>2, <1>3 DEF GoodSocket, SslSockets
<1>6. Armed'
  <2>1. ASSUME NEW t \in Sockets PROVE Woken(t, sk[t])'
    <3>1. Woken(t, sk[t]) /\ ~Waking(t)
      BY <1>2 DEF Pending, Armed, Woken, Waking
    <3>2. CASE t = cur
      <4>1. sk[cur].conn = "open" => 
              /\ sk[cur].ssl_read_wants_write => lastWriteFailed
              /\ sk[cur].owed => lastWriteFailed \/ sk[cur].ssl_write_wants_read
        BY <1>1 DEF Pending, FailureKept, LoopCalled
      <4> QED
        BY <1>4, <1>5, <3>1, <3>2, <4>1 DEF Woken
    <3>3. CASE t # cur
      BY <1>3, <3>1, <3>3 DEF Woken
    <3> QED
      BY <3>2, <3>3
  <2> QED
    BY <2>1 DEF Armed, Woken
<1>7. FailureKept'
  BY <1>1 DEF FailureKept, LoopCalled
<1> QED
  BY <1>6, <1>7 DEF Pending

\* Both ways of Retry leave no read that waits to write.
LEMMA RetryFields ==
  ASSUME Spent, NEW m, GoodSockets(m), NEW s \in Sockets, Retry(m, s)
  PROVE  /\ cur' = s /\ at' \in {"bye", "read", "writable"}
         /\ \A t \in Sockets \ {s} : sk'[t] = m[t]
         /\ sk'[s].conn = m[s].conn /\ sk'[s].owed = m[s].owed /\ sk'[s].armed = m[s].armed
         /\ sk'[s].ssl_write_wants_read = m[s].ssl_write_wants_read
         /\ ~sk'[s].ssl_read_wants_write
<1>1. GoodSocket(s, m[s])
  BY DEF GoodSockets
<1>2. CASE m[s].ssl_read_wants_write
  <2>1. sk' = [m EXCEPT ![s].ssl_read_wants_write = FALSE] /\ Begin(s, <<>>)
    BY <1>2, DropInputSame DEF Retry
  <2>2. sk'[s] = [m[s] EXCEPT !.ssl_read_wants_write = FALSE] /\ \A t \in Sockets \ {s} : sk'[t] = m[t]
    BY <1>1, <2>1 DEF GoodSockets
  <2> QED
    BY <1>1, <2>1, <2>2 DEF Begin, GoodSocket, SslSockets
<1>3. CASE ~m[s].ssl_read_wants_write
  BY <1>3 DEF Retry
<1> QED
  BY <1>2, <1>3

LEMMA WritablePends ==
  ASSUME Inv, Pending, NEW s \in Sockets, Writable(s)
  PROVE  Pending'
<1>1. at = "idle" /\ ~inner /\ ~inner' /\ Retry(sk, s) /\ Spent /\ GoodSockets(sk)
  BY DEF Writable, Inv, Control, Aimed
<1>2. /\ cur' = s /\ at' \in {"bye", "read", "writable"}
      /\ \A t \in Sockets \ {s} : sk'[t] = sk[t]
      /\ sk'[s].conn = sk[s].conn /\ sk'[s].owed = sk[s].owed /\ sk'[s].armed = sk[s].armed
      /\ sk'[s].ssl_write_wants_read = sk[s].ssl_write_wants_read
      /\ ~sk'[s].ssl_read_wants_write
  BY <1>1, RetryFields
<1>3. Armed'
  <2>1. ASSUME NEW t \in Sockets PROVE Woken(t, sk[t])'
    <3>1. Woken(t, sk[t]) /\ ~Waking(t)
      BY <1>1 DEF Pending, Armed, Woken, Waking
    <3> QED
      BY <1>2, <3>1 DEF Woken
  <2> QED
    BY <2>1 DEF Armed, Woken
<1>4. FailureKept'
  BY <1>2 DEF FailureKept
<1> QED
  BY <1>3, <1>4 DEF Pending

LEMMA TailWritablePends ==
  ASSUME Inv, Pending, TailWritable
  PROVE  Pending'
<1>1. at = "tail" /\ UNCHANGED <<retry, cb, lastWriteFailed>>
  BY DEF TailWritable, EndOfData
<1>2. Spent /\ cur \in Sockets /\ GoodSockets(sk)
  BY <1>1 DEF Inv, Aimed, Typing
<1>3. CASE Closed(cur) \/ ~sk[cur].ssl_write_wants_read
  <2>1. at' \in {"return", "get_shutdown"} /\ UNCHANGED <<sk, bio, cur, inner, read>>
    BY <1>3 DEF TailWritable, EndOfData
  <2>2. Onward
    BY <1>1, <1>2, <2>1 DEF Onward, LoopCalled, Waking
  <2> QED
    BY <1>1, <2>1, <2>2, StillPends
<1>4. CASE ~Closed(cur) /\ sk[cur].ssl_write_wants_read
  <2> DEFINE r == [sk[cur] EXCEPT !.ssl_write_wants_read = FALSE]
             m == [sk EXCEPT ![cur].ssl_write_wants_read = FALSE]
  <2>1. Retry(m, cur) /\ inner' = TRUE
    BY <1>4 DEF TailWritable, EndOfData
  <2>2. GoodSocket(cur, sk[cur])
    BY <1>2 DEF GoodSockets
  <2>3. /\ GoodSocket(cur, r) /\ r.conn = sk[cur].conn /\ r.armed = sk[cur].armed
        /\ r.ssl_read_wants_write = sk[cur].ssl_read_wants_write
    BY <2>2 DEF GoodSocket, SslSockets
  <2>4. Put(sk, cur, r, m)
    BY <2>2 DEF Put, GoodSockets, GoodSocket, SslSockets
  <2> HIDE DEF r, m
  <2>5. GoodSockets(m) /\ m[cur] = r /\ \A t \in Sockets \ {cur} : m[t] = sk[t]
    BY <1>2, <2>3, <2>4, PutGood
  <2>6. /\ cur' = cur /\ at' \in {"bye", "read", "writable"}
        /\ \A t \in Sockets \ {cur} : sk'[t] = m[t]
        /\ ~sk'[cur].ssl_read_wants_write
    BY <1>2, <2>1, <2>5, RetryFields
  <2>7. Armed'
    <3>1. ASSUME NEW t \in Sockets PROVE Woken(t, sk[t])'
      <4>1. Woken(t, sk[t])
        BY DEF Pending, Armed, Woken
      <4>2. CASE t = cur
        <5>1. Waking(t)'
          BY <2>1, <2>6, <4>2 DEF Waking
        <5> QED
          BY <2>6, <4>2, <5>1 DEF Woken
      <4>3. CASE t # cur
        <5>1. ~Waking(t) /\ sk'[t] = sk[t]
          BY <2>5, <2>6, <4>3 DEF Waking
        <5> QED
          BY <4>1, <5>1 DEF Woken
      <4> QED
        BY <4>2, <4>3
    <3> QED
      BY <3>1 DEF Armed, Woken
  <2>8. FailureKept'
    BY <2>6 DEF FailureKept
  <2> QED
    BY <2>7, <2>8 DEF Pending
<1> QED
  BY <1>3, <1>4

LEMMA WritePends ==
  ASSUME Inv, Careful, Pending, AheadKept, NEW s \in Sockets, Write(s)
  PROVE  Pending'
<1>1. sk[s].conn = "open" /\ UNCHANGED local /\ ~BeingRead(s) /\ GoodSockets(sk) /\ GoodSocket(s, sk[s])
  BY MayUseSpent DEF Write, BeingRead, Inv, GoodSockets
<1>2. PICK k \in 0..Len(sk[s].ahead), state \in {"init", "up"}, taken \in BOOLEAN,
           out \in {"answer", "record"}, owed \in BOOLEAN, wants \in BOOLEAN :
        /\ sk' = Wrote(s, k, state, taken, out, owed, wants)
        /\ Failed(s, taken)
        /\ sk[s].ssl_write_wants_read => wants
        /\ taken /\ owed => wants \/ Rest(s, k) # <<>>
  BY WriteEnds
<1>3. \A t \in Sockets \ {s} : sk'[t] = sk[t]
  BY <1>1, <1>2, WroteGood
<1>4. /\ sk'[s].owed = owed /\ sk'[s].ssl_write_wants_read = wants
      /\ sk'[s].ssl_read_wants_write = sk[s].ssl_read_wants_write
      /\ sk'[s].armed = (sk[s].armed \/ (~taken /\ CanSend(s)))
  BY <1>1, <1>2, WroteGood
<1>5. (lastWriteFailed => lastWriteFailed') /\ (~taken => lastWriteFailed') /\ CanSend(s)
  BY <1>1, <1>2 DEF Failed, CanSend
<1>6. taken /\ owed => wants \/ sk[s].ssl_read_wants_write
  <2>1. sk[s].ahead = <<>> => Rest(s, k) = <<>>
    BY DEF Rest
  <2> QED
    BY <1>1, <1>2, <2>1 DEF AheadKept, Unread
<1>7. Calm(sk[s], sk'[s], lastWriteFailed')
  BY <1>1, <1>4, <1>5, <1>6 DEF Calm
<1>8. \A t \in Sockets : Calm(sk[t], sk'[t], lastWriteFailed')
  BY <1>3, <1>7, CalmTrivially
<1>9. Onward
  BY <1>1 DEF Inv, Typing, Onward, LoopCalled, Waking, local
<1> QED
  BY <1>5, <1>8, <1>9, CalmKeeps

LEMMA ShutdownPends ==
  ASSUME Inv, Careful, Pending, NEW s \in Sockets, Shutdown(s)
  PROVE  Pending'
<1>1. UNCHANGED local /\ (lastWriteFailed => lastWriteFailed')
  <2>1. UNCHANGED local
    BY DEF Shutdown
  <2>2. UNCHANGED lastWriteFailed \/ \E taken \in BOOLEAN : Failed(bio'.target, taken)
    BY DEF Shutdown
  <2>3. ASSUME NEW taken \in BOOLEAN, Failed(bio'.target, taken), lastWriteFailed
        PROVE  lastWriteFailed'
    BY <2>3 DEF Failed
  <2> QED
    BY <2>1, <2>2, <2>3
<1>2. \A t \in Sockets : Calm(sk[t], sk'[t], lastWriteFailed')
  BY ShutdownGood, CalmTrivially
<1>3. Onward
  BY <1>1 DEF Inv, Typing, Onward, LoopCalled, Waking, local
<1> QED
  BY <1>1, <1>2, <1>3, CalmKeeps

LEMMA PendingStep ==
  ASSUME Careful, Inv, Pending, AheadKept, [Next]_vars
  PROVE  Pending'
<1>1. UNCHANGED local => Onward
  BY DEF Inv, Typing, Onward, LoopCalled, Waking, local
<1>2. CASE UNCHANGED vars
  BY <1>1, <1>2, StillPends DEF vars, local
<1>3. CASE Library
  BY <1>3, FillPends, ByePends, RecordPends, ReadFailsPends, ReadAnswersPends,
     ReadWantsReadPends, MovesPend, GetShutdownPends, TailWritablePends, EmitWritablePends, WrittenPends DEF Library
<1>4. CASE Return
  BY <1>1, <1>4, StillPends DEF Return
<1>5. ASSUME NEW s \in Sockets,
             Open(s) \/ End(s) \/ Recv(s) \/ Writable(s) \/ Write(s) \/ Shutdown(s) \/ Close(s)
      PROVE  Pending'
  <2>1. End(s) \/ Close(s) => sk' = CloseIn(sk, s) /\ UNCHANGED <<local, lastWriteFailed>>
    BY DEF End, Close
  <2> QED
    BY <1>1, <1>5, <2>1, ClosePends, OpenPends, RecvPends, WritablePends, WritePends, ShutdownPends
<1> QED
  BY <1>2, <1>3, <1>4, <1>5 DEF Next

-----------------------------------------------------------------------------
(* What OpenSSL has read ahead.                                              *)

\* A step that changes at most s.
LEMMA OthersKept ==
  ASSUME AheadKept, NEW s \in Sockets, \A t \in Sockets \ {s} : sk'[t] = sk[t],
         \A t \in Sockets \ {s} : BeingRead(t) => BeingRead(t)',
         BeingRead(s)' \/ Unread(sk', s)
  PROVE  AheadKept'
BY DEF AheadKept, Unread

\* A step of the library, which works for cur.
LEMMA CurKept ==
  ASSUME Inv, AheadKept, at # "idle", cur' = cur, \A t \in Sockets \ {cur} : sk'[t] = sk[t],
         \/ at' \in {"read", "full"} \/ sk'[cur].conn # "open" \/ sk'[cur].ahead = <<>>
         \/ sk'[cur].ssl_read_wants_write
  PROVE  AheadKept'
<1>1. cur \in Sockets
  BY DEF Inv, Typing
<1>2. \A t \in Sockets \ {cur} : ~BeingRead(t)
  BY DEF BeingRead
<1>3. BeingRead(cur)' \/ Unread(sk', cur)
  BY DEF BeingRead, Unread
<1> QED
  BY <1>1, <1>2, <1>3, OthersKept

\* A step outside SSL_read that leaves what is ahead alone.
LEMMA SameKept ==
  ASSUME AheadKept, at \notin {"read", "full"},
         \A t \in Sockets : Unread(sk, t) => Unread(sk', t)
  PROVE  AheadKept'
BY DEF AheadKept, BeingRead

LEMMA FillKept ==
  ASSUME Inv, AheadKept, Fill
  PROVE  AheadKept'
<1>1. at \in {"bye", "read"} /\ UNCHANGED <<at, cur>> /\ cur \in Sockets
  BY DEF Fill, InRead, Reading, Inv, Typing, local
<1>2. PICK k \in 1..Len(bio.input) :
        sk' = [sk EXCEPT ![cur].ahead = SubSeq(bio.input, 1, k), ![cur].mixed = @ \cup ({bio.of} \ {cur})]
  BY DEF Fill
<1>3. GoodSocket(cur, sk[cur]) /\ (at = "bye" => sk[cur].conn # "open")
  BY <1>1 DEF Inv, GoodSockets, Aimed, ShutDown
<1>4. PICK q, w : sk' = [sk EXCEPT ![cur].ahead = q, ![cur].mixed = w]
  BY <1>1, <1>2, <1>3 DEF Inv, GoodSockets, GoodSocket, SslSockets
<1>5. sk'[cur].conn = sk[cur].conn /\ \A t \in Sockets \ {cur} : sk'[t] = sk[t]
  BY <1>1, <1>3, <1>4 DEF Inv, GoodSockets, GoodSocket, SslSockets
<1> QED
  BY <1>1, <1>3, <1>5, CurKept

LEMMA ByeKept ==
  ASSUME Inv, AheadKept, Bye
  PROVE  AheadKept'
<1>1. at = "bye" /\ cur' = cur /\ cur \in Sockets /\ ShutDown(cur) /\ GoodSockets(sk)
  BY DEF Bye, Inv, Typing, Aimed
<1>2. CASE sk' = CloseIn(sk, cur)
  BY <1>1, <1>2, CloseInGood, CurKept
<1>3. ASSUME NEW left \in Skipped(sk[cur].ahead), sk' = [sk EXCEPT ![cur].ahead = left]
      PROVE  AheadKept'
  <2>1. left \in Seq(Records)
    BY <1>1, SkippedRecords DEF GoodSockets, GoodSocket, SslSockets
  <2>3. sk' = WithAhead(sk, cur, left)
    BY <1>3 DEF WithAhead
  <2>2. sk'[cur].conn # "open" /\ \A t \in Sockets \ {cur} : sk'[t] = sk[t]
    BY <1>1, <2>1, <2>3, AheadGood DEF ShutDown
  <2> QED
    BY <1>1, <2>2, CurKept
<1> QED
  BY <1>2, <1>3 DEF Bye

LEMMA ReadFailsKept ==
  ASSUME Inv, AheadKept, ReadFails
  PROVE  AheadKept'
<1>1. Reading /\ sk[cur].ahead # <<>> /\ cur' = cur
  BY DEF ReadFails, HasRecord, InRead
<1>2. cur \in Sockets /\ at = "read"
  BY <1>1, ReadingFacts
<1> DEFINE m == Consumed(sk)
<1>3. GoodSockets(m) /\ \A t \in Sockets \ {cur} : m[t] = sk[t]
  BY <1>1, <1>2, ConsumedGood DEF Inv
<1>4. sk' = CloseIn(m, cur)
  BY DEF ReadFails
<1> HIDE DEF m
<1>5. sk'[cur].conn = "closed" /\ \A t \in Sockets \ {cur} : sk'[t] = sk[t]
  BY <1>2, <1>3, <1>4, CloseInGood
<1> QED
  BY <1>1, <1>2, <1>5, CurKept

\* A read that cannot write its answer leaves the flag with what is ahead.
LEMMA ReadAnswersKept ==
  ASSUME Inv, AheadKept, ReadAnswers
  PROVE  AheadKept'
<1>1. Reading /\ cur' = cur
  BY DEF ReadAnswers
<1>2. cur \in Sockets /\ bio.target = cur /\ at = "read" /\ GoodSockets(sk)
  BY <1>1, ReadingFacts DEF Inv
<1>3. PICK taken \in BOOLEAN :
        LET m == BioWrite(sk, cur, bio.target, taken, "answer")
        IN  IF taken THEN sk' = m /\ UNCHANGED <<at, cb>>
            ELSE Exhausted([m EXCEPT ![cur].ssl_read_wants_write = TRUE])
  BY DEF ReadAnswers
<1> DEFINE m == BioWrite(sk, cur, cur, taken, "answer")
           n == [m EXCEPT ![cur].ssl_read_wants_write = TRUE]
<1>4. GoodSockets(m) /\ \A t \in Sockets \ {cur} : m[t] = sk[t]
  BY <1>2, BioWriteFields
<1>5. IF taken THEN sk' = m /\ UNCHANGED <<at, cb>> ELSE Exhausted(n)
  BY <1>2, <1>3
<1> HIDE DEF m
<1>6. CASE taken
  BY <1>1, <1>2, <1>4, <1>5, <1>6, CurKept
<1>7. CASE ~taken
  <2> DEFINE r == [m[cur] EXCEPT !.ssl_read_wants_write = TRUE]
  <2>1. GoodSocket(cur, m[cur])
    BY <1>2, <1>4 DEF GoodSockets
  <2>2. GoodSocket(cur, r) /\ r.ssl_read_wants_write
    BY <2>1 DEF GoodSocket, SslSockets
  <2>3. Put(m, cur, r, n)
    BY <1>4, <2>1 DEF Put, GoodSockets, GoodSocket, SslSockets
  <2>4. Exhausted(n)
    BY <1>5, <1>7
  <2> HIDE DEF r, n
  <2>5. GoodSockets(n) /\ n[cur].ssl_read_wants_write /\ \A t \in Sockets \ {cur} : n[t] = sk[t]
    BY <1>2, <1>4, <2>2, <2>3, PutGood
  <2>6. CASE bio.input # <<>>
    <3>1. sk' = CloseIn(n, cur)
      BY <2>4, <2>6 DEF Exhausted
    <3>2. sk'[cur].conn = "closed" /\ \A t \in Sockets \ {cur} : sk'[t] = sk[t]
      BY <1>2, <2>5, <3>1, CloseInGood
    <3> QED
      BY <1>1, <1>2, <3>2, CurKept
  <2>7. CASE bio.input = <<>>
    <3>1. sk' = n
      BY <2>4, <2>7 DEF Exhausted
    <3> QED
      BY <1>1, <1>2, <2>5, <3>1, CurKept
  <2> QED
    BY <2>6, <2>7
<1> QED
  BY <1>6, <1>7

LEMMA ReadOnKept ==
  ASSUME Inv, AheadKept, ReadWantsRead \/ EmitFull \/ Restart
  PROVE  AheadKept'
<1>1. at \in {"read", "full"} /\ cur' = cur /\ sk' = sk
  BY DEF ReadWantsRead, InRead, Reading, Exhausted, EmitFull, Restart
<1>2. at' \in {"read", "full"} \/ sk'[cur].conn # "open" \/ sk'[cur].ahead = <<>>
  BY <1>1 DEF ReadWantsRead, InRead, EmitFull, Restart, Closed
<1> QED
  BY <1>1, <1>2, CurKept

\* A socket is taken to ssl_on_writable with what is ahead, or reads it first.
LEMMA RetryKept ==
  ASSUME AheadKept, Spent, at \notin {"read", "full"}, NEW s \in Sockets, NEW m, GoodSockets(m),
         \A t \in Sockets \ {s} : m[t] = sk[t], m[s].conn = sk[s].conn, Unread(m, s), Retry(m, s)
  PROVE  AheadKept'
<1>1. /\ cur' = s /\ at' \in {"bye", "read", "writable"}
      /\ \A t \in Sockets \ {s} : sk'[t] = sk[t]
      /\ sk'[s].conn = sk[s].conn
  BY RetryFields
<1>2. BeingRead(s)' \/ Unread(sk', s)
  <2>1. CASE m[s].ssl_read_wants_write
    <3>1. at' = IF ShutDown(s) THEN "bye" ELSE "read"
      BY <2>1 DEF Retry, Begin
    <3> QED
      BY <1>1, <3>1 DEF BeingRead, Unread, ShutDown
  <2>2. CASE ~m[s].ssl_read_wants_write
    BY <2>2 DEF Retry, Unread
  <2> QED
    BY <2>1, <2>2
<1>3. \A t \in Sockets : ~BeingRead(t)
  BY DEF BeingRead
<1> QED
  BY <1>1, <1>2, <1>3, OthersKept

LEMMA TailWritableKept ==
  ASSUME Inv, AheadKept, TailWritable
  PROVE  AheadKept'
<1>1. at = "tail" /\ Spent /\ cur \in Sockets /\ GoodSockets(sk)
  BY DEF TailWritable, EndOfData, Inv, Aimed, Typing
<1>2. CASE sk' = sk
  BY <1>1, <1>2, SameKept DEF Unread
<1>3. CASE Retry([sk EXCEPT ![cur].ssl_write_wants_read = FALSE], cur)
  <2> DEFINE r == [sk[cur] EXCEPT !.ssl_write_wants_read = FALSE]
             m == [sk EXCEPT ![cur].ssl_write_wants_read = FALSE]
  <2>1. GoodSocket(cur, sk[cur])
    BY <1>1 DEF GoodSockets
  <2>2. /\ GoodSocket(cur, r) /\ r.conn = sk[cur].conn /\ r.ahead = sk[cur].ahead
        /\ r.ssl_read_wants_write = sk[cur].ssl_read_wants_write
    BY <2>1 DEF GoodSocket, SslSockets
  <2>3. Put(sk, cur, r, m)
    BY <2>1 DEF Put, GoodSockets, GoodSocket, SslSockets
  <2>4. Retry(m, cur)
    BY <1>3
  <2> HIDE DEF r, m
  <2>5. GoodSockets(m) /\ m[cur] = r /\ \A t \in Sockets \ {cur} : m[t] = sk[t]
    BY <1>1, <2>2, <2>3, PutGood
  <2>6. Unread(m, cur)
    BY <1>1, <2>2, <2>5 DEF AheadKept, BeingRead, Unread
  <2> QED
    BY <1>1, <2>2, <2>4, <2>5, <2>6, RetryKept
<1> QED
  BY <1>2, <1>3 DEF TailWritable, EndOfData

LEMMA MovesKept ==
  ASSUME Inv, AheadKept, Tailed \/ GetShutdown \/ DataDone \/ EmitWritable \/ Written
  PROVE  AheadKept'
<1>1. at \notin {"idle", "read", "full"} /\ cur' = cur
  BY DEF Tailed, GetShutdown, DataDone, EmitWritable, Written
<1>2. cur \in Sockets /\ GoodSockets(sk) /\ GoodSocket(cur, sk[cur])
  BY <1>1 DEF Inv, Typing, GoodSockets
<1>3. CASE sk' = sk
  BY <1>1, <1>3, SameKept DEF Unread
<1>4. CASE sk' = CloseIn(sk, cur)
  BY <1>1, <1>2, <1>4, CloseInGood, CurKept
<1>5. ASSUME NEW e, sk' = [sk EXCEPT ![cur].owed = e] \/ sk' = [sk EXCEPT ![cur].armed = e]
      PROVE  AheadKept'
  <2>1. /\ \A t \in Sockets \ {cur} : sk'[t] = sk[t]
        /\ sk'[cur].conn = sk[cur].conn /\ sk'[cur].ahead = sk[cur].ahead
        /\ sk'[cur].ssl_read_wants_write = sk[cur].ssl_read_wants_write
    BY <1>2, <1>5 DEF GoodSockets, GoodSocket, SslSockets
  <2> QED
    BY <1>1, <2>1, SameKept DEF Unread
<1>6. DataDone => sk' = sk
  BY DropInputSame DEF DataDone, Inv, Aimed
<1>7. Written => sk' = [sk EXCEPT ![cur].armed = sk[cur].armed /\ ~Closed(cur) /\ lastWriteFailed]
  BY DEF Written
<1> QED
  BY <1>3, <1>4, <1>5, <1>6, <1>7 DEF Tailed, GetShutdown, EmitWritable

LEMMA WriteKept ==
  ASSUME Inv, Careful, AheadKept, NEW s \in Sockets, Write(s)
  PROVE  AheadKept'
<1>1. sk[s].conn = "open" /\ UNCHANGED local /\ ~BeingRead(s) /\ GoodSockets(sk) /\ GoodSocket(s, sk[s])
  BY MayUseSpent DEF Write, BeingRead, Inv, GoodSockets
<1>2. PICK k \in 0..Len(sk[s].ahead), state \in {"init", "up"}, taken \in BOOLEAN,
           out \in {"answer", "record"}, owed \in BOOLEAN, wants \in BOOLEAN :
        sk' = Wrote(s, k, state, taken, out, owed, wants)
  BY WriteEnds
<1>3. \A t \in Sockets \ {s} : sk'[t] = sk[t]
  BY <1>1, <1>2, WroteGood
<1>4. sk'[s].ahead = Rest(s, k) /\ sk'[s].ssl_read_wants_write = sk[s].ssl_read_wants_write
  BY <1>1, <1>2, WroteGood
<1>5. sk[s].ahead = <<>> => sk'[s].ahead = <<>>
  BY <1>4 DEF Rest
<1>6. Unread(sk', s)
  BY <1>1, <1>4, <1>5 DEF AheadKept, Unread
<1> QED
  BY <1>1, <1>3, <1>6, OthersKept DEF BeingRead, local

LEMMA CallsKept ==
  ASSUME Inv, Careful, AheadKept, NEW s \in Sockets,
         Open(s) \/ End(s) \/ Recv(s) \/ Writable(s) \/ Write(s) \/ Shutdown(s) \/ Close(s)
  PROVE  AheadKept'
<1>1. GoodSockets(sk) /\ GoodSocket(s, sk[s])
  BY DEF Inv, GoodSockets
<1>2. CASE Open(s)
  <2>1. /\ sk' = [sk EXCEPT ![s] = [Blank EXCEPT !.conn = "open", !.ssl = "init"]]
        /\ UNCHANGED local
    BY <1>2 DEF Open
  <2>2. sk'[s].ahead = <<>> /\ \A t \in Sockets \ {s} : sk'[t] = sk[t]
    BY <1>1, <2>1 DEF GoodSockets, Blank
  <2> QED
    BY <2>1, <2>2, OthersKept DEF Unread, BeingRead, local
<1>3. CASE End(s) \/ Close(s)
  <2>1. sk' = CloseIn(sk, s) /\ UNCHANGED local
    BY <1>3 DEF End, Close
  <2>2. sk'[s].conn = "closed" /\ \A t \in Sockets \ {s} : sk'[t] = sk[t]
    BY <1>1, <2>1, CloseInGood
  <2> QED
    BY <2>1, <2>2, OthersKept DEF Unread, BeingRead, local
<1>4. CASE Recv(s)
  <2>1. PICK w \in Windows : Begin(s, w) /\ sk' = [DropInput(sk) EXCEPT ![s].mid = w[Len(w)] = "part"]
    BY <1>4 DEF Recv
  <2>2. DropInput(sk) = sk /\ at = "idle"
    BY <1>4, DropInputSame DEF Recv, Inv, Aimed
  <2>3. sk'[s].conn = sk[s].conn /\ \A t \in Sockets \ {s} : sk'[t] = sk[t]
    BY <1>1, <2>1, <2>2 DEF GoodSockets, GoodSocket, SslSockets
  <2>4. BeingRead(s)' \/ Unread(sk', s)
    BY <2>1, <2>3 DEF Begin, BeingRead, Unread, ShutDown
  <2> QED
    BY <2>2, <2>3, <2>4, OthersKept DEF BeingRead
<1>5. CASE Writable(s)
  <2>1. at = "idle" /\ Spent /\ Retry(sk, s)
    BY <1>5 DEF Writable, Inv, Aimed
  <2>2. Unread(sk, s)
    BY <2>1 DEF AheadKept, BeingRead
  <2> QED
    BY <1>1, <2>1, <2>2, RetryKept
<1>6. CASE Shutdown(s)
  <2>1. UNCHANGED local
    BY <1>6 DEF Shutdown
  <2> QED
    BY <1>6, <2>1, ShutdownGood, OthersKept DEF Unread, BeingRead, local
<1> QED
  BY <1>2, <1>3, <1>4, <1>5, <1>6, WriteKept

LEMMA AheadStep ==
  ASSUME Careful, Inv, AheadKept, [Next]_vars
  PROVE  AheadKept'
<1>1. CASE UNCHANGED vars \/ Return
  BY <1>1 DEF vars, local, Return, AheadKept, Unread, BeingRead
<1>2. CASE ReadData \/ ReadPart \/ ReadHandshake
  BY <1>2, RecordFields, CurKept
<1>3. CASE Library /\ ~(ReadData \/ ReadPart \/ ReadHandshake)
  BY <1>3, FillKept, ByeKept, ReadFailsKept, ReadAnswersKept, ReadOnKept, TailWritableKept,
     MovesKept DEF Library
<1> QED
  BY <1>1, <1>2, <1>3, CallsKept DEF Next

(* No socket waits for ever: a write that was cut short, a read that could   *)
(* not write its answer and what OpenSSL has read ahead wait for an event     *)
(* that is armed, also when handlers write in the middle of ssl_on_data       *)
(* (openssl.c:300-351, loop.c:311-325).                                       *)
THEOREM SslWaitsAreWoken ==
  ASSUME Careful
  PROVE  Spec => []RetryArmed
<1>1. Init => Inv /\ Pending /\ AheadKept
  <2>1. Init => Armed /\ AheadKept
    BY DEF Init, Armed, Woken, AheadKept, Unread, Blank
  <2>2. Init => FailureKept
    BY DEF Init, FailureKept, LoopCalled
  <2> QED
    BY <2>1, <2>2, InitGood DEF Pending
<1>2. (Inv /\ Pending /\ AheadKept) /\ [Next]_vars => (Inv /\ Pending /\ AheadKept)'
  BY InvStep, PendingStep, AheadStep
<1>3. Pending /\ AheadKept => RetryArmed
  BY DEF Pending, Armed, Woken, AheadKept, Unread, RetryArmed
<1> QED
  BY <1>1, <1>2, <1>3, PTL DEF Spec
=============================================================================
