----------------------------- MODULE Quic_proofs -----------------------------
(***************************************************************************)
(* Proofs about QUIC, for any number of contexts, connections and streams,  *)
(* batches of any length cut off anywhere, and any size of the pool.        *)
(***************************************************************************)
EXTENDS Quic, FiniteSetTheorems, SequenceTheorems, WellFoundedInduction, TLAPS

\* Every set of natural numbers has a least element.
LEMMA LeastNumber ==
  ASSUME NEW S \in SUBSET Nat, S # {}
  PROVE  \E m \in S : \A k \in S : m <= k
<1> DEFINE R == StrictSubsetOrdering(Nat)
           F == FiniteSubsetsOf(Nat)
           T == {0..n : n \in S}
<1>1. IsWellFoundedOn(R, F)
  BY FS_StrictSubsetOrderingWellFounded
<1>2. T \subseteq F
  <2> SUFFICES ASSUME NEW n \in S PROVE 0..n \in F
    OBVIOUS
  <2>. QED BY FS_Interval DEF FiniteSubsetsOf
<1>3. T # {}
  OBVIOUS
<1> HIDE DEF R, F
<1>4. \E x \in T : \A y \in T : ~ (<<y, x>> \in R)
  <2> HIDE DEF T
  <2>. QED BY <1>1, <1>2, <1>3, WFMin
<1>5. PICK m \in S : \A k \in S : <<0..k, 0..m>> \notin R
  BY <1>4
<1>6. ASSUME NEW k \in S, k < m PROVE FALSE
  <2>1. 0..k \subseteq 0..m /\ 0..k # 0..m /\ 0..k \subseteq Nat /\ 0..m \subseteq Nat
    BY <1>6
  <2>2. <<0..k, 0..m>> \in R
    BY <2>1 DEF R, StrictSubsetOrdering
  <2>. QED BY <1>5, <2>2
<1>. QED BY <1>5, <1>6

-----------------------------------------------------------------------------
(* Numbered packets.                                                         *)

AllPackets == [c : Conns, n : Nat]

\* A connection sends its next packet.
LEMMA NumberedNext ==
  ASSUME NEW c \in Conns, NEW q \in Seq(AllPackets), NEW n \in Nat, Numbered(c, q, n)
  PROVE  Numbered(c, Append(q, [c |-> c, n |-> n + 1]), n + 1)
<1> DEFINE p == [c |-> c, n |-> n + 1]
           r == Append(q, p)
<1>1. /\ p \in AllPackets /\ r \in Seq(AllPackets) /\ DOMAIN r = 1..Len(q) + 1 /\ DOMAIN q = 1..Len(q)
      /\ Len(q) \in Nat /\ r[Len(q) + 1] = p /\ \A i \in DOMAIN q : r[i] = q[i]
  BY DEF AllPackets
<1>2. p.c = c /\ p.n = n + 1
  OBVIOUS
<1>3. ASSUME NEW k \in 1..n + 1 PROVE \E i \in DOMAIN r : r[i] = [c |-> c, n |-> k]
  <2>1. CASE k = n + 1
    BY <1>1, <2>1
  <2>2. CASE k \in 1..n
    <3>1. PICK i \in DOMAIN q : q[i] = [c |-> c, n |-> k]
      BY <2>2 DEF Numbered
    <3> HIDE DEF r
    <3> QED
      BY <1>1, <3>1
  <2> QED
    BY <2>1, <2>2
<1> HIDE DEF p, r
<1>4. ASSUME NEW i \in DOMAIN r, r[i].c = c PROVE r[i].n \in 1..n + 1
  <2>1. CASE i = Len(q) + 1
    BY <1>1, <1>2, <2>1
  <2>2. CASE i \in DOMAIN q
    BY <1>1, <1>4, <2>2 DEF Numbered
  <2> QED
    BY <1>1, <2>1, <2>2
<1>5. ASSUME NEW i \in DOMAIN r, NEW j \in DOMAIN r, i < j, r[i].c = c, r[j].c = c PROVE r[i].n < r[j].n
  <2>1. i \in DOMAIN q /\ r[i] = q[i] /\ q[i].n \in 1..n
    BY <1>1, <1>5 DEF Numbered
  <2>2. CASE j = Len(q) + 1
    BY <1>1, <1>2, <2>1, <2>2
  <2>3. CASE j \in DOMAIN q
    BY <1>1, <1>5, <2>1, <2>3 DEF Numbered
  <2> QED
    BY <1>1, <2>2, <2>3
<1> QED
  BY <1>3, <1>4, <1>5 DEF Numbered, p, r

\* The packets of others between a and b do not matter.
LEMMA NumberedBetween ==
  ASSUME NEW c, NEW a \in Seq(AllPackets), NEW r \in Seq(AllPackets), NEW b \in Seq(AllPackets), NEW n,
         \A i \in DOMAIN r : r[i].c # c
  PROVE  Numbered(c, a \o b, n) <=> Numbered(c, a \o (r \o b), n)
<1> DEFINE s == a \o b
           t == a \o (r \o b)
           A == Len(a)
           R == Len(r)
           B == Len(b)
           f(i) == IF i <= A THEN i ELSE i + R
           back(j) == IF j <= A THEN j ELSE j - R
<1>1. /\ A \in Nat /\ R \in Nat /\ B \in Nat
      /\ DOMAIN s = 1..A + B /\ DOMAIN t = 1..A + (R + B) /\ DOMAIN r = 1..R
  <2>1. s \in Seq(AllPackets) /\ Len(s) = A + B /\ r \o b \in Seq(AllPackets) /\ Len(r \o b) = R + B
    BY ConcatProperties
  <2>2. t \in Seq(AllPackets) /\ Len(t) = A + (R + B)
    BY <2>1, ConcatProperties
  <2> QED
    BY <2>1, <2>2, LenProperties
<1>2. \A i \in 1..A + B : s[i] = IF i <= A THEN a[i] ELSE b[i - A]
  BY ConcatProperties
<1>3. \A j \in 1..A + (R + B) : t[j] = IF j <= A THEN a[j] ELSE IF j <= A + R THEN r[j - A] ELSE b[j - A - R]
  <2>1. r \o b \in Seq(AllPackets) /\ Len(r \o b) = R + B
    BY ConcatProperties
  <2>2. \A i \in 1..R + B : (r \o b)[i] = IF i <= R THEN r[i] ELSE b[i - R]
    BY ConcatProperties
  <2>3. \A j \in 1..A + (R + B) : t[j] = IF j <= A THEN a[j] ELSE (r \o b)[j - A]
    BY <2>1, ConcatProperties
  <2> HIDE DEF t, A, R, B
  <2>4. ASSUME NEW j \in 1..A + (R + B), j > A
        PROVE  t[j] = IF j <= A + R THEN r[j - A] ELSE b[j - A - R]
    <3>1. j - A \in 1..R + B /\ (j - A <= R <=> j <= A + R)
      BY <1>1, <2>4
    <3> DEFINE x == (r \o b)[j - A]
    <3>0. t[j] = IF j <= A THEN a[j] ELSE x
      BY <2>3
    <3>4. ~(j <= A)
      BY <1>1, <2>4
    <3> HIDE DEF x
    <3>5. t[j] = x
      BY <3>0, <3>4
    <3>2. t[j] = (r \o b)[j - A]
      BY <3>5 DEF x
    <3>3. (r \o b)[j - A] = IF j - A <= R THEN r[j - A] ELSE b[(j - A) - R]
      BY <2>2, <3>1
    <3> QED
      BY <3>1, <3>2, <3>3
  <2> QED
    BY <1>1, <2>3, <2>4
<1> HIDE DEF s, t, A, R, B
<1>4. \A i \in DOMAIN s : f(i) \in DOMAIN t /\ t[f(i)] = s[i]
  BY <1>1, <1>2, <1>3
<1>5. \A j \in DOMAIN t : t[j].c = c => back(j) \in DOMAIN s /\ s[back(j)] = t[j] /\ f(back(j)) = j
  <2> SUFFICES ASSUME NEW j \in DOMAIN t, t[j].c = c
               PROVE  back(j) \in DOMAIN s /\ s[back(j)] = t[j] /\ f(back(j)) = j
    OBVIOUS
  <2>1. ~(j > A /\ j <= A + R)
    <3> SUFFICES ASSUME j > A, j <= A + R PROVE FALSE
      BY <1>1
    <3>1. t[j] = r[j - A] /\ j - A \in DOMAIN r
      BY <1>1, <1>3
    <3> QED
      BY <3>1
  <2>2. CASE j <= A
    <3>1. j \in 1..A + B /\ back(j) = j /\ f(j) = j
      BY <1>1, <2>2
    <3>2. s[j] = a[j] /\ t[j] = a[j]
      BY <1>1, <1>2, <1>3, <2>2, <3>1
    <3> QED
      BY <1>1, <3>1, <3>2
  <2>3. CASE j > A + R
    <3>1. j - R \in 1..A + B /\ back(j) = j - R /\ f(j - R) = j /\ ~(j - R <= A) /\ ~(j <= A)
      BY <1>1, <2>3
    <3>2. s[j - R] = b[(j - R) - A] /\ t[j] = b[j - A - R]
      BY <1>1, <1>2, <1>3, <2>3, <3>1
    <3>3. (j - R) - A = j - A - R
      BY <1>1
    <3> QED
      BY <1>1, <3>1, <3>2, <3>3
  <2> QED
    BY <1>1, <2>1, <2>2, <2>3
<1>6. \A i, j \in DOMAIN s : i < j <=> f(i) < f(j)
  BY <1>1
<1>7. ASSUME NEW k, NEW i \in DOMAIN t, t[i] = [c |-> c, n |-> k] PROVE t[i].c = c
  BY <1>7
<1> HIDE DEF f, back
<1>8. ASSUME Numbered(c, s, n) PROVE Numbered(c, t, n)
  <2>1. \A k \in 1..n : \E i \in DOMAIN t : t[i] = [c |-> c, n |-> k]
    BY <1>4, <1>8 DEF Numbered
  <2>2. \A i \in DOMAIN t : t[i].c = c => t[i].n \in 1..n
    BY <1>5, <1>8 DEF Numbered
  <2>3. \A i, j \in DOMAIN t : i < j /\ t[i].c = c /\ t[j].c = c => t[i].n < t[j].n
    BY <1>5, <1>6, <1>8 DEF Numbered
  <2> QED
    BY <2>1, <2>2, <2>3 DEF Numbered
<1>9. ASSUME Numbered(c, t, n) PROVE Numbered(c, s, n)
  <2>1. \A k \in 1..n : \E i \in DOMAIN s : s[i] = [c |-> c, n |-> k]
    BY <1>5, <1>7, <1>9 DEF Numbered
  <2>2. \A i \in DOMAIN s : s[i].c = c => s[i].n \in 1..n
    BY <1>4, <1>9 DEF Numbered
  <2>3. \A i, j \in DOMAIN s : i < j /\ s[i].c = c /\ s[j].c = c => s[i].n < s[j].n
    BY <1>4, <1>6, <1>9 DEF Numbered
  <2> QED
    BY <2>1, <2>2, <2>3 DEF Numbered
<1> QED
  BY <1>8, <1>9 DEF s, t

\* So packets of others may come after.
LEMMA NumberedOther ==
  ASSUME NEW c, NEW q \in Seq(AllPackets), NEW p \in AllPackets, p.c # c, NEW n, Numbered(c, q, n)
  PROVE  Numbered(c, Append(q, p), n)
<1>1. <<p>> \in Seq(AllPackets) /\ <<>> \in Seq(AllPackets) /\ \A i \in DOMAIN <<p>> : <<p>>[i].c # c
  OBVIOUS
<1>2. q \o <<>> = q /\ <<p>> \o <<>> = <<p>>
  BY <1>1, ConcatEmptySeq
<1>3. Numbered(c, q \o (<<p>> \o <<>>), n)
  BY <1>1, <1>2, NumberedBetween
<1>4. Append(q, p) = q \o <<p>>
  BY AppendIsConcat
<1> QED
  BY <1>2, <1>3, <1>4

\* A connection without packets.
LEMMA NumberedNone ==
  ASSUME NEW c, NEW q, \A i \in DOMAIN q : q[i].c # c
  PROVE  Numbered(c, q, 0)
BY DEF Numbered

\* The run of datagrams exists, is for one socket, and is not longer than the batch.
LEMMA RunIsOfOneSocket ==
  ASSUME NEW q, NEW from \in Nat, NEW n \in Nat, from < n
  PROVE  /\ RunLength(q, from, n) \in 1..n - from
         /\ \A i \in 1..RunLength(q, from, n) : UdpOf(q[from + i]) = UdpOf(q[from + 1])
<1> DEFINE Ends(k) == \/ from + k = n \/ k = MaxIov
                      \/ UdpOf(q[from + k + 1]) # UdpOf(q[from + 1])
           S == {k \in 1..n - from : Ends(k)}
           P(k) == /\ k <= MaxIov
                   /\ \A i \in 1..k : UdpOf(q[from + i]) = UdpOf(q[from + 1])
                   /\ Ends(k)
<1>1. S \in SUBSET Nat /\ n - from \in S
  OBVIOUS
<1>2. PICK m \in S : \A k \in S : m <= k
  <2> HIDE DEF S
  <2> QED
    BY <1>1, LeastNumber
<1>3. m \in 1..n - from /\ Ends(m)
  BY <1>2
<1>4. m <= MaxIov
  <2> SUFFICES ASSUME m > MaxIov PROVE FALSE
    BY <1>3, RunAssumption
  <2>1. MaxIov \in S
    BY <1>3, RunAssumption
  <2> QED
    BY <1>2, <1>3, <2>1, RunAssumption
<1>5. ASSUME NEW i \in 1..m PROVE UdpOf(q[from + i]) = UdpOf(q[from + 1])
  <2>1. CASE i = 1
    BY <2>1
  <2>2. CASE i # 1
    <3>1. i - 1 \in 1..n - from /\ i - 1 < m
      BY <1>3, <2>2
    <3>2. i - 1 \notin S
      BY <1>2, <1>3, <3>1
    <3>3. UdpOf(q[from + (i - 1) + 1]) = UdpOf(q[from + 1])
      BY <3>1, <3>2
    <3>4. from + (i - 1) + 1 = from + i
      BY <1>3
    <3> QED
      BY <3>3, <3>4
  <2> QED
    BY <2>1, <2>2
<1>6. P(m)
  BY <1>3, <1>4, <1>5
<1>7. RunLength(q, from, n) = CHOOSE k \in 1..n - from : P(k)
  BY DEF RunLength
<1> HIDE DEF P
<1>8. RunLength(q, from, n) \in 1..n - from /\ P(RunLength(q, from, n))
  BY <1>3, <1>6, <1>7
<1> QED
  BY <1>8 DEF P

-----------------------------------------------------------------------------
(* Packets.                                                                  *)

ConnStates == [state : {"none", "open", "closed"}, engine : Engines \cup {NoEngine},
               udp : Udps \cup {None}, packets : Nat]

\* A connection that was made has an engine and a socket, for good.
ConnsOK ==
  /\ conn \in [Conns -> ConnStates]
  /\ \A c \in Conns :
       IF conn[c].state = "none" THEN conn[c].engine = NoEngine /\ conn[c].packets = 0
       ELSE conn[c].engine \in Engines /\ conn[c].udp \in Udps

\* A batch is the beginning of what its engine holds, and not sent yet to the end.
BatchOK ==
  \/ sending = Idle(NoEngine)
  \/ /\ sending = [e |-> sending.e, n |-> sending.n, sent |-> sending.sent]
     /\ sending.e \in Engines /\ sending.n \in 1..Len(unsent[sending.e])
     /\ sending.sent \in 0..sending.n - 1

\* Packets are of connections that were made, and held by their engines.
Owned ==
  /\ unsent \in [Engines -> Seq(AllPackets)] /\ wire \in [Udps -> Seq(AllPackets)]
  /\ \A e \in Engines : \A i \in DOMAIN unsent[e] : conn[unsent[e][i].c].engine = e
  /\ \A u \in Udps : \A i \in DOMAIN wire[u] : conn[wire[u][i].c].engine \in Engines

PacketInv == ConnsOK /\ BatchOK /\ Owned /\ PacketsOnce

\* Connections that were not made have no engine.
LEMMA NoEngineIsNone == NoEngine \notin Engines
BY DEF NoEngine, Engines, Roles, None

\* What an engine holds, while it rests and while it sends.
LEMMA HoldsOf ==
  ASSUME BatchOK, Owned, NEW e \in Engines
  PROVE  /\ Holds(e) \in Seq(AllPackets)
         /\ Resting => Holds(e) = unsent[e]
         /\ sending.e # e => Holds(e) = unsent[e]
         /\ \A i \in DOMAIN Holds(e) : \E j \in DOMAIN unsent[e] : Holds(e)[i] = unsent[e][j]
<1> DEFINE q == unsent[e]
<1>1. q \in Seq(AllPackets)
  BY DEF Owned
<1>2. CASE sending.e # e
  BY <1>1, <1>2, NoEngineIsNone DEF Holds
<1>3. CASE sending.e = e
  <2>1. sending.n \in 1..Len(q) /\ sending.sent \in 0..sending.n - 1
    BY <1>3, NoEngineIsNone DEF BatchOK, Idle
  <2> DEFINE m == sending.sent + 1
             h == SubSeq(q, m, Len(q))
  <2>2. Holds(e) = h
    BY <1>3 DEF Holds
  <2>3. m \in 1..Len(q) /\ Len(q) \in Nat /\ DOMAIN q = 1..Len(q)
    BY <1>1, <2>1
  <2> HIDE DEF m, q
  <2>4. h \in Seq(AllPackets) /\ Len(h) = Len(q) - m + 1 /\ \A i \in 1..Len(q) - m + 1 : h[i] = q[m + i - 1]
    BY <1>1, <2>3, SubSeqProperties
  <2>5. ~Resting
    BY <2>1 DEF Resting
  <2>6. DOMAIN h = 1..Len(q) - m + 1
    BY <2>4
  <2>7. \A i \in DOMAIN h : m + i - 1 \in DOMAIN q
    BY <2>3, <2>6
  <2>8. \A i \in DOMAIN h : \E j \in DOMAIN q : h[i] = q[j]
    BY <2>4, <2>6, <2>7
  <2> QED
    BY <1>3, <2>2, <2>4, <2>5, <2>8 DEF q
<1> QED
  BY <1>2, <1>3

\* The start.
LEMMA PacketsStart ==
  ASSUME Init
  PROVE  PacketInv
<1>1. conn = [c \in Conns |-> NoConn] /\ NoConn \in ConnStates
      /\ NoConn.state = "none" /\ NoConn.engine = NoEngine /\ NoConn.packets = 0
  BY DEF Init, NoConn, ConnStates
<1>2. ConnsOK
  BY <1>1 DEF ConnsOK
<1>3. BatchOK
  BY DEF Init, BatchOK
<1>4. Owned
  BY DEF Init, Owned
<1>5. PacketsOnce
  BY <1>1 DEF PacketsOnce
<1> QED
  BY <1>2, <1>3, <1>4, <1>5 DEF PacketInv

\* A step that makes a connection of an engine and with a socket, or only closes one.
LEMMA PacketsConn ==
  ASSUME PacketInv, UNCHANGED packetVars, NEW c \in Conns, NEW to \in ConnStates,
         conn' = [conn EXCEPT ![c] = to], to.packets = conn[c].packets, to.state # "none",
         to.engine \in Engines, to.udp \in Udps,
         conn[c].state # "none" => to.engine = conn[c].engine /\ to.udp = conn[c].udp
  PROVE  PacketInv'
<1>1. /\ unsent' = unsent /\ wire' = wire /\ sending' = sending
      /\ conn \in [Conns -> ConnStates]
  BY DEF packetVars, PacketInv, ConnsOK
<1>2. conn'[c] = to /\ (\A d \in Conns \ {c} : conn'[d] = conn[d]) /\ conn' \in [Conns -> ConnStates]
  BY <1>1
<1>3. ConnsOK'
  BY <1>2 DEF PacketInv, ConnsOK
<1>4. BatchOK'
  BY <1>1 DEF PacketInv, BatchOK
<1>5. \A d \in Conns : conn[d].engine \in Engines => conn'[d].engine = conn[d].engine
  BY <1>2, NoEngineIsNone DEF PacketInv, ConnsOK
<1>6. /\ \A e \in Engines : \A i \in DOMAIN unsent[e] : unsent[e][i].c \in Conns
      /\ \A u \in Udps : \A i \in DOMAIN wire[u] : wire[u][i].c \in Conns
  <2>1. \A p \in AllPackets : p.c \in Conns
    BY DEF AllPackets
  <2>2. \A q \in Seq(AllPackets) : \A i \in DOMAIN q : q[i] \in AllPackets
    OBVIOUS
  <2> QED
    BY <2>1, <2>2 DEF PacketInv, Owned
<1>7. Owned'
  BY <1>1, <1>5, <1>6 DEF PacketInv, Owned
<1>8. \A e \in Engines : Holds(e)' = Holds(e)
  BY <1>1 DEF Holds
<1>9. ASSUME NEW d \in Conns, conn'[d].state # "none"
      PROVE  Numbered(d, wire[conn'[d].udp] \o Holds(conn'[d].engine), conn'[d].packets)
  <2>1. CASE conn[d].state # "none"
    <3>1. conn'[d].udp = conn[d].udp /\ conn'[d].engine = conn[d].engine /\ conn'[d].packets = conn[d].packets
      BY <1>2, <2>1
    <3> QED
      BY <2>1, <3>1 DEF PacketInv, PacketsOnce
  <2>2. CASE conn[d].state = "none"
    <3>1. d = c /\ conn[d].engine = NoEngine /\ to.packets = 0
      BY <1>2, <1>9, <2>2 DEF PacketInv, ConnsOK
    <3> DEFINE w == wire[to.udp]
               h == Holds(to.engine)
    <3>2. w \in Seq(AllPackets) /\ \A i \in DOMAIN w : w[i].c # d
      BY <3>1, NoEngineIsNone DEF PacketInv, Owned
    <3>3. h \in Seq(AllPackets) /\ \A i \in DOMAIN h : h[i].c # d
      BY <3>1, NoEngineIsNone, HoldsOf DEF PacketInv, Owned
    <3> HIDE DEF w, h
    <3>4. \A i \in DOMAIN (w \o h) : (w \o h)[i].c # d
      BY <3>2, <3>3
    <3>5. Numbered(d, w \o h, 0)
      BY <3>4, NumberedNone
    <3> QED
      BY <1>2, <3>1, <3>5 DEF w, h
  <2> QED
    BY <2>1, <2>2
<1>10. PacketsOnce'
  <2>1. \A d \in Conns : conn'[d].state # "none" => conn'[d].engine \in Engines
    BY <1>3 DEF ConnsOK
  <2> QED
    BY <1>1, <1>8, <1>9, <2>1 DEF PacketsOnce
<1> QED
  BY <1>3, <1>4, <1>7, <1>10 DEF PacketInv

\* A step that leaves connections and packets alone.
LEMMA PacketsSame ==
  ASSUME PacketInv, UNCHANGED <<conn, unsent, sending, wire>>
  PROVE  PacketInv'
BY DEF PacketInv, ConnsOK, BatchOK, Owned, PacketsOnce, Holds

\* The engine is told of one packet more.
LEMMA PacketMade ==
  ASSUME PacketInv, NEW e \in Engines, NEW c \in Conns, Packet(e, c)
  PROVE  PacketInv'
<1> DEFINE k == conn[c].packets
           p == [c |-> c, n |-> k + 1]
           to == [conn[c] EXCEPT !.packets = k + 1]
<1>1. /\ Resting /\ conn[c].engine = e
      /\ conn' = [conn EXCEPT ![c] = to]
      /\ unsent' = [unsent EXCEPT ![e] = Append(unsent[e], p)]
      /\ sending' = sending /\ wire' = wire
  BY DEF Packet, Processing
<1>2. conn \in [Conns -> ConnStates] /\ conn[c] \in ConnStates /\ k \in Nat
  BY DEF PacketInv, ConnsOK, ConnStates
<1>3. /\ to \in ConnStates /\ to.state = conn[c].state /\ to.engine = e /\ to.udp = conn[c].udp
      /\ to.packets = k + 1
  BY <1>1, <1>2 DEF ConnStates
<1>4. p \in AllPackets /\ p.c = c /\ p.n = k + 1
  BY <1>2 DEF AllPackets
<1>5. p = [c |-> c, n |-> k + 1]
  OBVIOUS
<1>0. k = conn[c].packets
  OBVIOUS
<1> HIDE DEF k, p, to
<1>6. conn'[c] = to /\ (\A d \in Conns \ {c} : conn'[d] = conn[d]) /\ conn' \in [Conns -> ConnStates]
  BY <1>1, <1>2, <1>3
<1>7. conn[c].state # "none" /\ conn[c].udp \in Udps
  BY <1>1, NoEngineIsNone DEF PacketInv, ConnsOK
<1>8. ConnsOK'
  BY <1>3, <1>6, <1>7 DEF PacketInv, ConnsOK
<1>9. /\ unsent' \in [Engines -> Seq(AllPackets)]
      /\ unsent'[e] = Append(unsent[e], p) /\ \A f \in Engines \ {e} : unsent'[f] = unsent[f]
  BY <1>1, <1>4 DEF PacketInv, Owned
<1>10. sending = Idle(NoEngine)
  BY <1>1 DEF PacketInv, BatchOK, Resting
<1>11. BatchOK'
  BY <1>1, <1>10 DEF BatchOK
<1>12. \A d \in Conns : conn'[d].engine = conn[d].engine /\ conn'[d].udp = conn[d].udp
                          /\ conn'[d].state = conn[d].state
  BY <1>1, <1>3, <1>6
<1>13. /\ \A q \in Seq(AllPackets) : \A i \in DOMAIN q : q[i].c \in Conns
       /\ \A f \in Engines : unsent[f] \in Seq(AllPackets)
       /\ \A u \in Udps : wire[u] \in Seq(AllPackets)
  <2>1. \A q \in AllPackets : q.c \in Conns
    BY DEF AllPackets
  <2>2. \A q \in Seq(AllPackets) : \A i \in DOMAIN q : q[i] \in AllPackets
    OBVIOUS
  <2> QED
    BY <2>1, <2>2 DEF PacketInv, Owned
<1>14. Owned'
  <2>1. ASSUME NEW f \in Engines, NEW i \in DOMAIN unsent'[f] PROVE conn'[unsent'[f][i].c].engine = f
    <3>1. CASE f = e /\ i = Len(unsent[e]) + 1
      <4>1. unsent'[f][i] = p
        BY <1>4, <1>9, <1>13, <3>1, AppendProperties
      <4> QED
        BY <1>1, <1>4, <1>12, <3>1, <4>1
    <3>2. CASE i \in DOMAIN unsent[f]
      <4>1. unsent'[f][i] = unsent[f][i]
        <5>1. CASE f = e
          BY <1>4, <1>9, <1>13, <3>2, <5>1
        <5>2. CASE f # e
          BY <1>9, <5>2
        <5> QED
          BY <5>1, <5>2
      <4>2. unsent[f][i].c \in Conns /\ conn[unsent[f][i].c].engine = f
        BY <1>13, <3>2 DEF PacketInv, Owned
      <4> QED
        BY <1>12, <4>1, <4>2
    <3>3. (f = e /\ i = Len(unsent[e]) + 1) \/ i \in DOMAIN unsent[f]
      <4>1. CASE f = e
        BY <1>4, <1>9, <1>13, <2>1, <4>1
      <4>2. CASE f # e
        BY <1>9, <2>1, <4>2
      <4> QED
        BY <4>1, <4>2
    <3> QED
      BY <3>1, <3>2, <3>3
  <2>2. \A u \in Udps : \A i \in DOMAIN wire'[u] : conn'[wire'[u][i].c].engine \in Engines
    BY <1>1, <1>12, <1>13 DEF PacketInv, Owned
  <2> QED
    BY <1>1, <1>9, <2>1, <2>2 DEF PacketInv, Owned
<1>15. \A f \in Engines : Holds(f) = unsent[f] /\ Holds(f)' = unsent'[f]
  BY <1>1, <1>10, NoEngineIsNone DEF Holds, Idle
<1>16. ASSUME NEW d \in Conns, conn'[d].state # "none"
       PROVE  Numbered(d, wire'[conn'[d].udp] \o unsent'[conn'[d].engine], conn'[d].packets)
  <2> DEFINE w == wire[conn[d].udp]
             h == unsent[conn[d].engine]
  <2>1. conn[d].state # "none" /\ conn[d].engine \in Engines /\ conn[d].udp \in Udps
    BY <1>12, <1>16 DEF PacketInv, ConnsOK
  <2>2. Numbered(d, w \o h, conn[d].packets)
    BY <1>15, <2>1 DEF PacketInv, PacketsOnce
  <2>3. w \in Seq(AllPackets) /\ h \in Seq(AllPackets)
    BY <1>13, <2>1
  <2>4. wire'[conn'[d].udp] = w /\ unsent'[conn'[d].engine] = unsent'[conn[d].engine]
    BY <1>1, <1>12, <2>1
  <2>5. CASE conn[d].engine = e
    <3>1. unsent'[conn[d].engine] = Append(h, p)
      BY <1>9, <2>5
    <3> HIDE DEF w, h
    <3>2. w \o h \in Seq(AllPackets) /\ w \o Append(h, p) = Append(w \o h, p)
      <4>1. Append(h, p) = h \o <<p>> /\ <<p>> \in Seq(AllPackets) /\ w \o h \in Seq(AllPackets)
        BY <1>4, <2>3, AppendIsConcat, ConcatProperties
      <4>2. Append(w \o h, p) = (w \o h) \o <<p>>
        BY <1>4, <4>1, AppendIsConcat
      <4> QED
        BY <2>3, <4>1, <4>2, ConcatAssociative
    <3>3. CASE d = c
      <4>1. Numbered(c, Append(w \o h, p), k + 1)
        BY <1>0, <1>2, <1>5, <2>2, <3>2, <3>3, NumberedNext
      <4> QED
        BY <1>3, <1>6, <2>4, <3>1, <3>2, <3>3, <4>1
    <3>4. CASE d # c
      <4>1. Numbered(d, Append(w \o h, p), conn[d].packets)
        BY <1>4, <2>2, <3>2, <3>4, NumberedOther
      <4> QED
        BY <1>6, <2>4, <3>1, <3>2, <3>4, <4>1
    <3> QED
      BY <3>3, <3>4
  <2>6. CASE conn[d].engine # e
    <3>1. d # c /\ unsent'[conn[d].engine] = h
      BY <1>1, <1>9, <2>1, <2>6
    <3> QED
      BY <1>6, <2>2, <2>4, <3>1
  <2> QED
    BY <2>5, <2>6
<1>17. PacketsOnce'
  <2>1. \A d \in Conns : conn'[d].state # "none" => conn'[d].engine \in Engines
    BY <1>8 DEF ConnsOK
  <2> QED
    BY <1>15, <1>16, <2>1 DEF PacketsOnce
<1> QED
  BY <1>8, <1>11, <1>14, <1>17 DEF PacketInv

\* A batch is handed over: it starts with all that the engine holds.
LEMMA PacketsFlushed ==
  ASSUME PacketInv, NEW e \in Engines, Flush(e)
  PROVE  PacketInv'
<1>1. UNCHANGED <<conn, unsent, wire>> /\ Resting
  BY DEF Flush, connVars
<1>2. sending = Idle(NoEngine)
  BY <1>1 DEF PacketInv, BatchOK, Resting
<1>3. CASE UNCHANGED sending
  BY <1>1, <1>3, PacketsSame
<1>4. ASSUME NEW n \in 1..Len(unsent[e]), sending' = [e |-> e, n |-> n, sent |-> 0]
      PROVE  PacketInv'
  <2>1. unsent[e] \in Seq(AllPackets) /\ Len(unsent[e]) \in Nat
    BY DEF PacketInv, Owned
  <2>2. BatchOK'
    BY <1>1, <1>4, <2>1 DEF BatchOK
  <2>3. Holds(e)' = unsent[e]
    <3>1. SubSeq(unsent[e], 1, Len(unsent[e])) = unsent[e]
      BY <2>1, SubSeqFull
    <3> QED
      BY <1>1, <1>4, <3>1 DEF Holds
  <2>4. \A f \in Engines : Holds(f) = unsent[f] /\ Holds(f)' = unsent[f]
    BY <1>1, <1>2, <1>4, <2>3, NoEngineIsNone DEF Holds, Idle
  <2>5. \A d \in Conns : conn[d].state # "none" => conn[d].engine \in Engines
    BY DEF PacketInv, ConnsOK
  <2>6. PacketsOnce'
    BY <1>1, <2>4, <2>5 DEF PacketInv, PacketsOnce
  <2> QED
    BY <1>1, <2>2, <2>6 DEF PacketInv, ConnsOK, Owned
<1> QED
  BY <1>3, <1>4 DEF Flush

\* One system call: what it takes goes from the engine to the socket.
LEMMA PacketsSent ==
  ASSUME PacketInv, NEW k \in 0..sending.n, SendRun(k)
  PROVE  PacketInv'
<1>0. PICK e, s, n, q : e = sending.e /\ s = sending.sent /\ n = sending.n /\ q = unsent[e]
  OBVIOUS
<1>a. PICK udp, part, rest, run : /\ udp = UdpOf(q[s + 1]) /\ part = SubSeq(q, s + 1, s + k)
                                  /\ rest = SubSeq(q, s + k + 1, Len(q)) /\ run = RunLength(q, s, n)
  OBVIOUS
<1>1. /\ conn' = conn /\ e \in Engines /\ q \in Seq(AllPackets) /\ Len(q) \in Nat /\ DOMAIN q = 1..Len(q)
      /\ n \in 1..Len(q) /\ s \in 0..n - 1 /\ sending = [e |-> e, n |-> n, sent |-> s]
  <2>1. ~Resting /\ conn' = conn
    BY DEF SendRun, connVars
  <2>2. sending # Idle(NoEngine)
    BY <2>1 DEF Resting, Idle
  <2> QED
    BY <1>0, <2>1, <2>2 DEF PacketInv, BatchOK, Owned
<1>2. /\ wire' = [wire EXCEPT ![udp] = wire[udp] \o part]
      /\ k <= run
      /\ \/ /\ s + k # n /\ sending' = [sending EXCEPT !.sent = s + k] /\ unsent' = unsent
         \/ /\ sending' = Idle(NoEngine) /\ unsent' = [unsent EXCEPT ![e] = rest]
  BY <1>0, <1>a DEF SendRun, Answer
<1>3. run \in 1..n - s /\ \A i \in 1..run : UdpOf(q[s + i]) = udp
  <2>1. s \in Nat /\ n \in Nat /\ s < n
    BY <1>1
  <2> QED
    BY <1>a, <2>1, RunIsOfOneSocket
<1>4. /\ k \in Nat /\ s + k <= n /\ s + k \in 0..Len(q) /\ s + 1 \in 1..Len(q) /\ s + k + 1 \in 1..Len(q) + 1
  BY <1>1, <1>2, <1>3
<1>b. /\ s \in Nat /\ s + k \in Nat /\ Len(q) \in Nat /\ k \in Nat
      /\ \A i \in DOMAIN q : q[i] \in AllPackets
  BY <1>1, <1>4
<1>5. /\ part \in Seq(AllPackets) /\ DOMAIN part = 1..k
      /\ \A i \in 1..k : s + i \in DOMAIN q /\ part[i] = q[s + i]
  <2> DEFINE m == s + 1
             l == s + k
  <2>1. m \in Int /\ l \in Int /\ l - m + 1 = k /\ (IF m <= l THEN l - m + 1 ELSE 0) = k
    BY <1>b
  <2>2. \A i \in m..l : q[i] \in AllPackets
    BY <1>1, <1>4, <1>b
  <2>3. \A i \in 1..k : m + i - 1 = s + i /\ s + i \in DOMAIN q
    <3>1. DOMAIN q = 1..Len(q) /\ s + k <= Len(q)
      BY <1>1, <1>4
    <3> QED
      BY <1>b, <3>1
  <2>4. part = SubSeq(q, m, l)
    BY <1>a
  <2> HIDE DEF m, l
  <2>5. /\ part \in Seq(AllPackets) /\ Len(part) = k
        /\ \A i \in 1..k : part[i] = q[m + i - 1]
    BY <2>1, <2>2, <2>4, SubSeqProperties
  <2> QED
    BY <2>3, <2>5
<1>6. rest \in Seq(AllPackets) /\ \A i \in DOMAIN rest : \E j \in DOMAIN q : rest[i] = q[j]
  <2> DEFINE m == s + k + 1
             l == Len(q)
             r == IF m <= l THEN l - m + 1 ELSE 0
  <2>1. m \in Int /\ l \in Int /\ r \in Nat /\ r <= l - m + 1
    <3>1. s + k <= Len(q)
      BY <1>4
    <3> QED
      BY <1>b, <3>1
  <2>2. \A i \in m..l : q[i] \in AllPackets
    BY <1>1, <1>b
  <2>3. \A i \in 1..r : i \in 1..l - m + 1 /\ m + i - 1 \in DOMAIN q
    BY <1>1, <1>b
  <2>4. rest = SubSeq(q, m, l)
    BY <1>a
  <2> HIDE DEF m, l
  <2>5. /\ rest \in Seq(AllPackets) /\ Len(rest) = r
        /\ \A i \in 1..l - m + 1 : rest[i] = q[m + i - 1]
    BY <2>1, <2>2, <2>4, SubSeqProperties
  <2> HIDE DEF r
  <2>6. DOMAIN rest = 1..r
    BY <2>1, <2>5
  <2>7. \A i \in DOMAIN rest : m + i - 1 \in DOMAIN q /\ rest[i] = q[m + i - 1]
    BY <2>3, <2>5, <2>6
  <2> QED
    BY <2>5, <2>7
<1>7. Holds(e) = part \o rest
  <2>1. Holds(e) = SubSeq(q, s + 1, Len(q))
    BY <1>0 DEF Holds
  <2>2. SubSeq(q, s + 1, s + k) \o SubSeq(q, s + k + 1, Len(q)) = SubSeq(q, s + 1, Len(q))
    <3>1. s + 1 \in 1..Len(q) + 1 /\ s + k \in (s + 1) - 1..Len(q) /\ Len(q) \in s + k..Len(q)
      BY <1>1, <1>4
    <3> HIDE DEF Holds
    <3> QED
      BY <1>1, <3>1, ConcatAdjacentSubSeq
  <2> QED
    BY <1>a, <2>1, <2>2
<1>8. \A i \in DOMAIN part : conn[part[i].c].udp = udp /\ part[i].c \in Conns /\ conn[part[i].c].engine = e
  <2> SUFFICES ASSUME NEW i \in 1..k
               PROVE  conn[part[i].c].udp = udp /\ part[i].c \in Conns /\ conn[part[i].c].engine = e
    BY <1>5
  <2>1. part[i] = q[s + i] /\ s + i \in DOMAIN q /\ i \in 1..run
    BY <1>2, <1>3, <1>5
  <2>2. UdpOf(q[s + i]) = udp
    BY <1>3, <2>1
  <2>3. q[s + i] \in AllPackets
    BY <1>1, <2>1
  <2> QED
    BY <1>0, <1>1, <2>1, <2>2, <2>3 DEF UdpOf, AllPackets, PacketInv, Owned
<1>9. udp \in Udps
  <2>1. s + 1 \in DOMAIN q /\ q[s + 1] \in AllPackets
    BY <1>1, <1>4
  <2>2. q[s + 1].c \in Conns /\ conn[q[s + 1].c].engine = e
    BY <1>0, <1>1, <2>1 DEF AllPackets, PacketInv, Owned
  <2> QED
    BY <1>1, <1>a, <2>2, NoEngineIsNone DEF UdpOf, PacketInv, ConnsOK
<1>10. /\ wire' \in [Udps -> Seq(AllPackets)] /\ wire'[udp] = wire[udp] \o part
       /\ \A u \in Udps \ {udp} : wire'[u] = wire[u]
       /\ \A u \in Udps : wire[u] \in Seq(AllPackets)
  <2>1. wire \in [Udps -> Seq(AllPackets)] /\ wire[udp] \o part \in Seq(AllPackets)
    BY <1>5, <1>9, ConcatProperties DEF PacketInv, Owned
  <2> QED
    BY <1>2, <1>9, <2>1
<1>11. /\ unsent \in [Engines -> Seq(AllPackets)] /\ unsent' \in [Engines -> Seq(AllPackets)]
       /\ unsent'[e] \in {unsent[e], rest} /\ \A f \in Engines \ {e} : unsent'[f] = unsent[f]
  BY <1>1, <1>2, <1>6 DEF PacketInv, Owned
<1>12. Holds(e)' = rest
  <2>1. CASE s + k # n /\ sending' = [sending EXCEPT !.sent = s + k] /\ unsent' = unsent
    <3>1. sending'.e = e /\ sending'.sent = s + k
      BY <1>1, <2>1
    <3>2. Holds(e)' = SubSeq(unsent[e], s + k + 1, Len(unsent[e]))
      BY <2>1, <3>1 DEF Holds
    <3> QED
      BY <1>0, <1>a, <3>2
  <2>2. CASE sending' = Idle(NoEngine) /\ unsent' = [unsent EXCEPT ![e] = rest]
    BY <1>1, <1>11, <2>2, NoEngineIsNone DEF Holds, Idle
  <2> QED
    BY <1>2, <2>1, <2>2
<1>13. \A f \in Engines \ {e} : Holds(f)' = Holds(f)
  <2>1. sending'.e \in {e, NoEngine} /\ sending.e = e
    BY <1>1, <1>2, <1>0 DEF Idle
  <2> QED
    BY <1>11, <2>1, NoEngineIsNone DEF Holds
<1>14. BatchOK'
  <2>1. CASE s + k # n /\ sending' = [sending EXCEPT !.sent = s + k] /\ unsent' = unsent
    <3>1. sending' = [e |-> e, n |-> n, sent |-> s + k] /\ s + k \in 0..n - 1 /\ n \in 1..Len(unsent'[e])
      BY <1>0, <1>1, <1>4, <2>1
    <3> QED
      BY <1>1, <3>1 DEF BatchOK
  <2>2. CASE sending' = Idle(NoEngine)
    BY <2>2 DEF BatchOK
  <2> QED
    BY <1>2, <2>1, <2>2
<1>15. Owned'
  <2>1. ASSUME NEW f \in Engines, NEW i \in DOMAIN unsent'[f] PROVE conn[unsent'[f][i].c].engine = f
    <3>1. CASE f # e \/ unsent'[f] = unsent[f]
      BY <1>11, <2>1, <3>1 DEF PacketInv, Owned
    <3>2. CASE f = e /\ unsent'[f] = rest
      <4>1. PICK j \in DOMAIN unsent[e] : rest[i] = unsent[e][j]
        BY <1>0, <1>6, <2>1, <3>2
      <4> QED
        BY <1>1, <3>2, <4>1 DEF PacketInv, Owned
    <3> QED
      BY <1>11, <3>1, <3>2
  <2>2. ASSUME NEW u \in Udps, NEW i \in DOMAIN wire'[u] PROVE conn[wire'[u][i].c].engine \in Engines
    <3>1. CASE u # udp
      BY <1>10, <2>2, <3>1 DEF PacketInv, Owned
    <3>2. CASE u = udp
      <4> DEFINE w == wire[udp]
      <4>1. w \in Seq(AllPackets) /\ part \in Seq(AllPackets) /\ wire'[u] = w \o part
        BY <1>5, <1>9, <1>10, <3>2
      <4>2. \A j \in DOMAIN w : conn[w[j].c].engine \in Engines
        BY <1>9 DEF PacketInv, Owned
      <4> HIDE DEF w
      <4>3. (\E j \in DOMAIN w : (w \o part)[i] = w[j]) \/ (\E j \in DOMAIN part : (w \o part)[i] = part[j])
        BY <2>2, <4>1
      <4> QED
        BY <1>1, <1>8, <4>1, <4>2, <4>3
    <3> QED
      BY <3>1, <3>2
  <2> QED
    BY <1>1, <1>10, <1>11, <2>1, <2>2 DEF Owned
<1>16. ASSUME NEW d \in Conns, conn[d].state # "none", NEW f, f = conn[d].engine
       PROVE  Numbered(d, wire'[conn[d].udp] \o Holds(f)', conn[d].packets)
  <2> DEFINE u == conn[d].udp
             w == wire[u]
             h == Holds(f)
  <2>1. f \in Engines /\ u \in Udps /\ w \in Seq(AllPackets) /\ h \in Seq(AllPackets)
    BY <1>10, <1>16, HoldsOf DEF PacketInv, ConnsOK
  <2>2. Numbered(d, w \o h, conn[d].packets)
    BY <1>16 DEF PacketInv, PacketsOnce
  <2>3. CASE f = e /\ u = udp
    <3>1. wire'[u] \o Holds(f)' = (w \o part) \o rest /\ h = part \o rest
      BY <1>7, <1>10, <1>12, <2>3
    <3> HIDE DEF w, h, u
    <3>2. (w \o part) \o rest = w \o (part \o rest)
      BY <1>5, <1>6, <2>1, ConcatAssociative
    <3>3. Numbered(d, wire'[u] \o Holds(f)', conn[d].packets)
      BY <2>2, <3>1, <3>2
    <3> QED
      BY <3>3 DEF u
  <2>4. CASE f = e /\ u # udp
    <3>1. wire'[u] = w /\ Holds(f)' = rest /\ h = part \o rest
      BY <1>7, <1>10, <1>12, <2>1, <2>4
    <3>2. \A i \in DOMAIN part : part[i].c # d
      BY <1>8, <2>4
    <3> HIDE DEF w, h
    <3>3. Numbered(d, w \o rest, conn[d].packets)
      BY <1>5, <1>6, <2>1, <2>2, <3>1, <3>2, NumberedBetween
    <3> QED
      BY <3>1, <3>3
  <2>5. CASE f # e
    <3>1. Holds(f)' = h
      BY <1>13, <2>1, <2>5
    <3>2. CASE u = udp
      <4>1. wire'[u] = w \o part
        BY <1>10, <3>2
      <4>2. \A i \in DOMAIN part : part[i].c # d
        BY <1>8, <1>16, <2>5
      <4> HIDE DEF w, h
      <4>3. Numbered(d, w \o (part \o h), conn[d].packets)
        BY <1>5, <2>1, <2>2, <4>2, NumberedBetween
      <4>4. (w \o part) \o h = w \o (part \o h)
        BY <1>5, <2>1, ConcatAssociative
      <4> QED
        BY <3>1, <4>1, <4>3, <4>4
    <3>3. CASE u # udp
      BY <1>10, <2>1, <2>2, <3>1, <3>3
    <3> QED
      BY <3>2, <3>3
  <2> QED
    BY <2>3, <2>4, <2>5
<1>17. PacketsOnce'
  <2>1. ASSUME NEW d \in Conns, conn'[d].state # "none"
        PROVE  Numbered(d, wire[conn[d].udp] \o Holds(conn[d].engine), conn[d].packets)'
    <3> DEFINE f == conn[d].engine
    <3>1. conn'[d] = conn[d] /\ conn[d].state # "none"
      BY <1>1, <2>1
    <3>2. f \in Engines
      BY <3>1 DEF PacketInv, ConnsOK
    <3> HIDE DEF f
    <3>3. PICK g \in Engines : g = f
      BY <3>2
    <3>4. Numbered(d, wire'[conn[d].udp] \o Holds(g)', conn[d].packets)
      BY <1>16, <3>1, <3>3 DEF f
    <3>5. Holds(conn[d].engine)' = Holds(g)'
      BY <1>1, <3>3 DEF f, Holds
    <3> QED
      BY <1>1, <3>4, <3>5
  <2> QED
    BY <2>1 DEF PacketsOnce
<1>18. ConnsOK'
  BY <1>1 DEF PacketInv, ConnsOK
<1> QED
  BY <1>14, <1>15, <1>17, <1>18 DEF PacketInv

\* Every step.
LEMMA PacketsStep ==
  ASSUME PacketInv, [Next]_vars
  PROVE  PacketInv'
<1> USE DEF packetVars, connVars, Calls
<1>1. ASSUME NEW x \in Contexts, CreateContext(x) \/ Listen(x) PROVE PacketInv'
  BY <1>1, PacketsSame DEF CreateContext, Listen
<1>2. ASSUME NEW x \in Contexts, NEW c \in Conns, Connect(x, c) PROVE PacketInv'
  <2> DEFINE to == [conn[c] EXCEPT !.state = "open", !.udp = c, !.engine = <<x, "client">>]
  <2>1. conn[c] \in ConnStates /\ <<x, "client">> \in Engines /\ c \in Udps
    BY DEF PacketInv, ConnsOK, Engines, Roles, Udps
  <2>2. /\ to \in ConnStates /\ to.state = "open" /\ to.packets = conn[c].packets
        /\ to.engine = <<x, "client">> /\ to.udp = c
    BY <2>1 DEF ConnStates
  <2>3. conn' = [conn EXCEPT ![c] = to] /\ conn[c].state = "none" /\ UNCHANGED packetVars
    BY <1>2 DEF Connect
  <2> HIDE DEF to
  <2> QED
    BY <2>1, <2>2, <2>3, PacketsConn
<1>3. ASSUME TimerCb \/ \E u \in Udps : UdpRead(u) PROVE PacketInv'
  BY <1>3, PacketsSame DEF TimerCb, UdpRead
<1>4. ASSUME NEW e \in Engines, Engine(e) PROVE PacketInv'
  <2>1. CASE Flush(e)
    BY <2>1, PacketsFlushed
  <2>2. ASSUME NEW c \in Conns, Packet(e, c) PROVE PacketInv'
    BY <2>2, PacketMade
  <2>3. ASSUME NEW c \in Conns, OnNewConn(e, c) PROVE PacketInv'
    <3> DEFINE to == [conn[c] EXCEPT !.state = "open", !.engine = e, !.udp = e[1]]
    <3>1. conn[c] \in ConnStates /\ e[1] \in Udps
      BY DEF PacketInv, ConnsOK, Engines, Roles, Udps
    <3>2. /\ to \in ConnStates /\ to.state = "open" /\ to.packets = conn[c].packets
          /\ to.engine = e /\ to.udp = e[1]
      BY <3>1 DEF ConnStates
    <3>3. conn' = [conn EXCEPT ![c] = to] /\ conn[c].state = "none" /\ UNCHANGED packetVars
      BY <2>3 DEF OnNewConn
    <3> HIDE DEF to
    <3> QED
      BY <3>1, <3>2, <3>3, PacketsConn
  <2>4. ASSUME NEW c \in Conns, OnConnClosed(e, c) PROVE PacketInv'
    <3> DEFINE to == [conn[c] EXCEPT !.state = "closed"]
    <3>1. conn[c] \in ConnStates /\ conn[c].state = "open" /\ conn[c].engine = e
      BY <2>4 DEF PacketInv, ConnsOK, OnConnClosed
    <3>2. /\ to \in ConnStates /\ to.state = "closed" /\ to.packets = conn[c].packets
          /\ to.engine = e /\ to.udp = conn[c].udp
      BY <3>1 DEF ConnStates
    <3>3. conn' = [conn EXCEPT ![c] = to] /\ UNCHANGED packetVars /\ conn[c].udp \in Udps
      BY <2>4, <3>1 DEF OnConnClosed, PacketInv, ConnsOK
    <3> HIDE DEF to
    <3> QED
      BY <3>1, <3>2, <3>3, PacketsConn
  <2>5. ASSUME NEW c \in Conns, NEW s \in Streams, OnNewStream(e, c, s) PROVE PacketInv'
    BY <2>5, PacketsSame DEF OnNewStream
  <2>6. ASSUME NEW s \in Streams, Decode(e, s) \/ Arrives(e, s) \/ OnRead(e, s) \/ OnWrite(e, s)
        PROVE  PacketInv'
    BY <2>6, PacketsSame DEF Decode, Arrives, OnRead, OnWrite
  <2> QED
    BY <1>4, <2>1, <2>2, <2>3, <2>4, <2>5, <2>6 DEF Engine
<1>5. CASE Sends
  BY <1>5, PacketsSent DEF Sends
<1>6. CASE UNCHANGED vars
  BY <1>6, PacketsSame DEF vars
<1> QED
  BY <1>1, <1>2, <1>3, <1>4, <1>5, <1>6 DEF Next

\* However short bsd_sendmmsg falls and wherever send_packets_out ends a run, each packet
\* of a connection is sent once, in order and on its own socket, or still held.
THEOREM PacketsAreSentOnce == Spec => []PacketsOnce
<1>1. Init => PacketInv
  BY PacketsStart
<1>2. PacketInv /\ [Next]_vars => PacketInv'
  BY PacketsStep
<1>3. PacketInv => PacketsOnce
  BY DEF PacketInv
<1> QED
  BY <1>1, <1>2, <1>3, PTL DEF Spec

-----------------------------------------------------------------------------
(* Streams.                                                                  *)

Kinds == {"open", "headers", "data", "end"}

StreamStates ==
  [state : {"none", "open", "closed"}, conn : Conns \cup {None},
   headers : {None, "decoded", "taken"}, data : Nat, received : Nat,
   fin : BOOLEAN, wantRead : BOOLEAN, wantWrite : BOOLEAN,
   events : Seq(Kinds \X Streams)]

DataEvents(ev) == {i \in DOMAIN ev : ev[i][1] = "data"}

\* The handlers of s were called in order; after the end nothing more is read.
InOrder(s, ev) ==
  \A i \in DOMAIN ev : /\ ev[i][2] = s
                       /\ ev[i][1] = "open" <=> i = 1
                       /\ ev[i][1] = "headers" <=> i = 2

\* The state st of stream s: nothing is readable before the headers, which are the
\* second event, and nothing is read after the end.
StreamOK(s, st) ==
  /\ InOrder(s, st.events)
  /\ \A i \in DOMAIN st.events : st.events[i][1] = "end" =>
       i = Len(st.events) /\ st.data = 0 /\ st.fin /\ ~st.wantRead
  /\ Cardinality(DataEvents(st.events)) + st.data = st.received
  /\ st.state = "none" => st.headers = None /\ st.events = <<>>
  /\ st.state = "open" => st.events # <<>>
  /\ st.headers = None => st.data = 0 /\ ~st.fin
  /\ IF st.headers = "taken" THEN Len(st.events) >= 2 ELSE Len(st.events) <= 1

Pools == [top : Nat, last : Nat, owner : [1..PoolSize -> Streams \cup {None}]]

\* The set decoded last is that of the one stream that was not told of its headers.
PoolOK ==
  /\ pool \in Pools
  /\ \A s \in Streams : Undelivered(s) =>
       /\ pool.owner[pool.last] = s
       /\ \A t \in Streams : Undelivered(t) => t = s

StreamInv ==
  /\ stream \in [Streams -> StreamStates]
  /\ \A s \in Streams : StreamOK(s, stream[s])
  /\ PoolOK

\* One event more.
LEMMA DataCount ==
  ASSUME NEW ev \in Seq(Kinds \X Streams), NEW x \in Kinds \X Streams
  PROVE  /\ Cardinality(DataEvents(ev)) \in Nat
         /\ Cardinality(DataEvents(Append(ev, x)))
              = IF x[1] = "data" THEN Cardinality(DataEvents(ev)) + 1 ELSE Cardinality(DataEvents(ev))
<1>1. /\ DOMAIN ev = 1..Len(ev) /\ Len(ev) \in Nat
      /\ DOMAIN Append(ev, x) = 1..Len(ev) + 1
      /\ \A i \in DOMAIN ev : Append(ev, x)[i] = ev[i]
      /\ Append(ev, x)[Len(ev) + 1] = x
  OBVIOUS
<1>2. IsFiniteSet(DataEvents(ev))
  <2>1. IsFiniteSet(1..Len(ev))
    BY <1>1, FS_Interval
  <2> QED
    BY <1>1, <2>1, FS_Subset DEF DataEvents
<1>3. Cardinality(DataEvents(ev)) \in Nat
  BY <1>2, FS_CardinalityType
<1>4. CASE x[1] = "data"
  <2>1. DataEvents(Append(ev, x)) = DataEvents(ev) \cup {Len(ev) + 1} /\ Len(ev) + 1 \notin DataEvents(ev)
    BY <1>1, <1>4 DEF DataEvents
  <2> QED
    BY <1>2, <1>3, <1>4, <2>1, FS_AddElement
<1>5. CASE x[1] # "data"
  <2>1. DataEvents(Append(ev, x)) = DataEvents(ev)
    BY <1>1, <1>5 DEF DataEvents
  <2> QED
    BY <1>3, <1>5, <2>1
<1> QED
  BY <1>3, <1>4, <1>5

\* A stream that was not opened has had no data.
LEMMA NoData == Cardinality(DataEvents(<<>>)) = 0
<1>1. DataEvents(<<>>) = {}
  BY DEF DataEvents
<1> QED
  BY <1>1, FS_EmptySet

\* An event of its own kind and place keeps the order.
LEMMA EventInOrder ==
  ASSUME NEW s \in Streams, NEW ev \in Seq(Kinds \X Streams), InOrder(s, ev), NEW k \in Kinds,
         k = "open" <=> Len(ev) = 0, k = "headers" <=> Len(ev) = 1
  PROVE  InOrder(s, Append(ev, <<k, s>>))
<1> DEFINE x == <<k, s>>
           r == Append(ev, x)
<1>1. /\ DOMAIN ev = 1..Len(ev) /\ Len(ev) \in Nat
      /\ DOMAIN r = 1..Len(ev) + 1 /\ r[Len(ev) + 1] = x
      /\ \A i \in DOMAIN ev : r[i] = ev[i]
  OBVIOUS
<1>2. x[1] = k /\ x[2] = s
  OBVIOUS
<1> HIDE DEF r, x
<1>3. ASSUME NEW i \in DOMAIN r
      PROVE  r[i][2] = s /\ (r[i][1] = "open" <=> i = 1) /\ (r[i][1] = "headers" <=> i = 2)
  <2>1. CASE i \in DOMAIN ev
    BY <1>1, <2>1 DEF InOrder
  <2>2. CASE i = Len(ev) + 1
    BY <1>1, <1>2, <2>2
  <2> QED
    BY <1>1, <2>1, <2>2
<1> QED
  BY <1>3 DEF InOrder, r, x

\* The application's calls in a handler.
LEMMA CallsKeep ==
  ASSUME NEW s \in Streams, NEW st \in StreamStates, StreamOK(s, st), st.events # <<>>, st.state # "none",
         NEW after \in AfterCalls(st)
  PROVE  /\ after \in StreamStates /\ StreamOK(s, after)
         /\ after.headers = st.headers /\ after.state \in {st.state, "closed"}
<1>1. /\ after \in StreamStates /\ after.headers = st.headers /\ after.state \in {st.state, "closed"}
      /\ after.events = st.events /\ after.data = st.data /\ after.fin = st.fin
      /\ after.wantRead = st.wantRead /\ after.received = st.received
  BY DEF AfterCalls, StreamStates
<1> QED
  BY <1>1 DEF StreamOK

\* The headers are the second event.
LEMMA HeadersKeep ==
  ASSUME StreamInv, NEW s \in Streams, stream[s].state = "open",
         stream[s].headers # None
  PROVE  /\ HeadersTaken(s) \in StreamStates /\ StreamOK(s, HeadersTaken(s))
         /\ HeadersTaken(s).headers = "taken" /\ HeadersTaken(s).state = "open"
         /\ HeadersTaken(s).wantRead = stream[s].wantRead
<1> DEFINE st == stream[s]
           x  == <<"headers", s>>
           to == [st EXCEPT !.headers = "taken", !.events = Append(st.events, x)]
<1>1. st \in StreamStates /\ StreamOK(s, st) /\ st.state = "open"
  BY DEF StreamInv
<1>2. CASE st.headers # "decoded"
  <2>1. HeadersTaken(s) = st /\ st.headers = "taken"
    BY <1>1, <1>2 DEF HeadersTaken, StreamStates
  <2> QED
    BY <1>1, <2>1
<1>3. CASE st.headers = "decoded"
  <2>1. HeadersTaken(s) = to
    BY <1>1, <1>3 DEF HeadersTaken, StreamInv, PoolOK, Undelivered
  <2>2. /\ st.events \in Seq(Kinds \X Streams) /\ x \in Kinds \X Streams /\ x[1] = "headers"
        /\ Append(st.events, x) \in Seq(Kinds \X Streams)
    BY <1>1 DEF StreamStates, Kinds
  <2>3. /\ to \in StreamStates /\ to.headers = "taken" /\ to.events = Append(st.events, x)
        /\ to.data = st.data /\ to.received = st.received /\ to.fin = st.fin
        /\ to.wantRead = st.wantRead /\ to.state = st.state
    BY <1>1, <2>2 DEF StreamStates
  <2> HIDE DEF st, to
  <2>4. Len(st.events) = 1 /\ Len(Append(st.events, x)) = 2
    <3>1. st.events # <<>> /\ Len(st.events) <= 1
      BY <1>1, <1>3 DEF StreamOK
    <3>2. Len(st.events) # 0 /\ Len(st.events) \in Nat
      BY <2>2, <3>1, EmptySeq
    <3>3. Len(st.events) = 1
      <4>1. PICK l \in Nat : l = Len(st.events)
        BY <3>2
      <4>2. l <= 1 /\ l # 0
        BY <3>1, <3>2, <4>1
      <4>3. l = 1
        BY <4>2
      <4> QED
        BY <4>1, <4>3
    <3>4. Len(Append(st.events, x)) = Len(st.events) + 1
      BY <2>2, AppendProperties
    <3> QED
      BY <3>3, <3>4
  <2>5. InOrder(s, Append(st.events, x))
    <3>1. InOrder(s, st.events) /\ "headers" \in Kinds
      BY <1>1 DEF StreamOK, Kinds
    <3> QED
      BY <2>2, <2>4, <3>1, EventInOrder
  <2>6. \A i \in DOMAIN Append(st.events, x) : Append(st.events, x)[i][1] # "end"
    BY <2>2, <2>4, <2>5 DEF InOrder
  <2>7. Cardinality(DataEvents(Append(st.events, x))) = Cardinality(DataEvents(st.events))
    BY <2>2, DataCount
  <2> HIDE DEF x
  <2>8. StreamOK(s, to)
    BY <1>1, <2>3, <2>4, <2>5, <2>6, <2>7 DEF StreamOK, None
  <2> QED
    BY <1>1, <2>1, <2>3, <2>8 DEF st
<1> QED
  BY <1>2, <1>3

\* A read: a chunk, the end, or nothing.
LEMMA ReadKeeps ==
  ASSUME NEW s \in Streams, NEW st \in StreamStates, StreamOK(s, st), st.headers = "taken",
         st.state = "open", st.wantRead
  PROVE  /\ Read(s, st) \in StreamStates /\ StreamOK(s, Read(s, st))
         /\ Read(s, st).headers = "taken" /\ Read(s, st).state = "open"
<1>1. ASSUME NEW k \in {"data", "end"}
      PROVE  /\ st.events \in Seq(Kinds \X Streams) /\ <<k, s>> \in Kinds \X Streams
             /\ Append(st.events, <<k, s>>) \in Seq(Kinds \X Streams)
             /\ InOrder(s, Append(st.events, <<k, s>>))
             /\ Len(Append(st.events, <<k, s>>)) = Len(st.events) + 1
             /\ Len(st.events) \in Nat /\ Len(st.events) >= 2
             /\ \A i \in DOMAIN Append(st.events, <<k, s>>) :
                  Append(st.events, <<k, s>>)[i][1] = "end" => k = "end" /\ i = Len(st.events) + 1
  <2>1. st.events \in Seq(Kinds \X Streams) /\ Len(st.events) >= 2 /\ InOrder(s, st.events)
        /\ <<k, s>> \in Kinds \X Streams
    BY DEF StreamStates, StreamOK, Kinds
  <2>2. k \in Kinds /\ k # "open" /\ k # "headers"
    BY DEF Kinds
  <2>3. InOrder(s, Append(st.events, <<k, s>>))
    BY <2>1, <2>2, EventInOrder
  <2>4. \A i \in DOMAIN st.events : st.events[i][1] # "end"
    BY DEF StreamOK
  <2> DEFINE ev == st.events
             x == <<k, s>>
  <2>5. /\ DOMAIN ev = 1..Len(ev) /\ Len(ev) \in Nat
        /\ DOMAIN Append(ev, x) = 1..Len(ev) + 1
        /\ \A i \in DOMAIN ev : Append(ev, x)[i] = ev[i]
        /\ Append(ev, x)[Len(ev) + 1] = x /\ x[1] = k
        /\ Append(ev, x) \in Seq(Kinds \X Streams)
    BY <2>1
  <2>6. \A i \in DOMAIN Append(ev, x) : Append(ev, x)[i][1] = "end" => k = "end" /\ i = Len(ev) + 1
    <3> HIDE DEF ev, x
    <3> QED
      BY <2>4, <2>5 DEF ev
  <2> QED
    BY <2>1, <2>3, <2>5, <2>6
<1>2. CASE st.data > 0
  <2> DEFINE x == <<"data", s>>
             ev == Append(st.events, x)
             to == [st EXCEPT !.data = st.data - 1, !.events = ev]
  <2>1. Read(s, st) = to
    BY <1>2 DEF Read, StreamStates
  <2>6. st.data \in Nat /\ st.received \in Nat /\ st.data - 1 \in Nat
    BY <1>2 DEF StreamStates
  <2>0. ev \in Seq(Kinds \X Streams)
    BY <1>1
  <2>2. /\ to \in StreamStates /\ to.events = ev /\ to.data = st.data - 1 /\ to.received = st.received
        /\ to.headers = "taken" /\ to.state = "open"
    <3> HIDE DEF ev
    <3> QED
      BY <2>0, <2>6 DEF StreamStates
  <2>3. x[1] = "data" /\ x \in Kinds \X Streams /\ st.events \in Seq(Kinds \X Streams)
    BY <1>1
  <2>4. /\ Cardinality(DataEvents(ev)) = Cardinality(DataEvents(st.events)) + 1
        /\ Cardinality(DataEvents(st.events)) \in Nat
    BY <2>3, DataCount
  <2>5. /\ InOrder(s, ev) /\ Len(ev) >= 2 /\ ev # <<>> /\ \A i \in DOMAIN ev : ev[i][1] # "end"
    BY <1>1
  <2> HIDE DEF ev, to, x
  <2>7. StreamOK(s, to)
    BY <2>2, <2>4, <2>5, <2>6 DEF StreamOK, None
  <2> QED
    BY <2>1, <2>2, <2>7
<1>3. CASE st.data = 0 /\ st.fin
  <2> DEFINE x == <<"end", s>>
             ev == Append(st.events, x)
             to == [st EXCEPT !.wantRead = FALSE, !.events = ev]
  <2>1. Read(s, st) = to
    BY <1>3 DEF Read, AtEnd, StreamStates
  <2>2. /\ to \in StreamStates /\ to.events = ev /\ to.data = 0 /\ to.received = st.received /\ to.fin
        /\ ~to.wantRead /\ to.headers = "taken" /\ to.state = "open"
    BY <1>1, <1>3 DEF StreamStates
  <2>3. x[1] = "end" /\ x \in Kinds \X Streams /\ st.events \in Seq(Kinds \X Streams)
    BY <1>1
  <2>4. Cardinality(DataEvents(ev)) = Cardinality(DataEvents(st.events))
    BY <2>3, DataCount
  <2>5. /\ InOrder(s, ev) /\ Len(ev) >= 2 /\ ev # <<>> /\ \A i \in DOMAIN ev : ev[i][1] = "end" => i = Len(ev)
    <3>1. /\ InOrder(s, ev) /\ Len(ev) = Len(st.events) + 1 /\ Len(st.events) \in Nat /\ Len(st.events) >= 2
          /\ ev \in Seq(Kinds \X Streams) /\ \A i \in DOMAIN ev : ev[i][1] = "end" => i = Len(st.events) + 1
      BY <1>1
    <3> HIDE DEF ev
    <3> QED
      BY <3>1
  <2> HIDE DEF ev, to, x
  <2>7. StreamOK(s, to)
    BY <1>3, <2>2, <2>4, <2>5 DEF StreamOK, None
  <2> QED
    BY <2>1, <2>2, <2>7
<1>4. CASE st.data = 0 /\ ~st.fin
  BY <1>4 DEF Read, StreamStates
<1> QED
  BY <1>2, <1>3, <1>4 DEF StreamStates

\* One stream goes to the state st, and no header set is decoded.
LEMMA StreamChanged ==
  ASSUME StreamInv, NEW s \in Streams, NEW st \in StreamStates, StreamOK(s, st),
         stream' = [stream EXCEPT ![s] = st], pool' \in {pool, [pool EXCEPT !.top = 0]},
         st.state = "open" /\ st.headers = "decoded" => Undelivered(s)
  PROVE  StreamInv'
<1>1. pool' \in Pools /\ pool'.owner = pool.owner /\ pool'.last = pool.last
  BY DEF StreamInv, PoolOK, Pools
<1>2. /\ stream' \in [Streams -> StreamStates] /\ stream'[s] = st
      /\ \A t \in Streams \ {s} : stream'[t] = stream[t]
  BY DEF StreamInv
<1>3. \A t \in Streams : StreamOK(t, stream'[t])
  BY <1>2 DEF StreamInv
<1>4. \A t \in Streams : Undelivered(t)' => Undelivered(t)
  BY <1>2 DEF Undelivered
<1>5. PoolOK'
  BY <1>1, <1>4 DEF StreamInv, PoolOK
<1> QED
  BY <1>2, <1>3, <1>5 DEF StreamInv, StreamOK, InOrder, DataEvents

\* A step that leaves streams and the pool alone.
LEMMA StreamsSame ==
  ASSUME StreamInv, UNCHANGED <<stream, pool>>
  PROVE  StreamInv'
BY DEF StreamInv, PoolOK, Undelivered, StreamOK

\* The start.
LEMMA StreamsStart ==
  ASSUME Init
  PROVE  StreamInv
<1>1. stream = [s \in Streams |-> NoStream]
  BY DEF Init
<1>2. /\ NoStream \in StreamStates /\ NoStream.events = <<>> /\ NoStream.data = 0 /\ NoStream.received = 0
      /\ NoStream.headers = None /\ NoStream.fin = FALSE /\ NoStream.state = "none"
  <2>1. <<>> \in Seq(Kinds \X Streams)
    OBVIOUS
  <2> QED
    BY <2>1 DEF NoStream, StreamStates
<1>3. ASSUME NEW s \in Streams PROVE StreamOK(s, NoStream)
  BY <1>2, NoData DEF StreamOK, InOrder, None
<1>4. PoolOK
  <2>1. pool = [top |-> 0, last |-> 0, owner |-> [i \in 1..PoolSize |-> None]]
    BY DEF Init
  <2>2. \A s \in Streams : ~Undelivered(s)
    BY <1>1, <1>2 DEF Undelivered
  <2> QED
    BY <2>1, <2>2 DEF PoolOK, Pools
<1> QED
  BY <1>1, <1>2, <1>3, <1>4 DEF StreamInv

\* A stream opens, and its handler may call.
LEMMA StreamOpened ==
  ASSUME StreamInv, NEW e \in Engines, NEW c \in Conns, NEW s \in Streams, OnNewStream(e, c, s)
  PROVE  StreamInv'
<1> DEFINE st == stream[s]
           to == [st EXCEPT !.state = "open", !.conn = c, !.wantRead = TRUE, !.events = <<<<"open", s>>>>]
<1>1. st \in StreamStates /\ StreamOK(s, st) /\ st.state = "none" /\ UNCHANGED pool
  BY DEF OnNewStream, StreamInv
<1>2. PICK after \in AfterCalls(to) : stream' = [stream EXCEPT ![s] = after]
  BY DEF OnNewStream
<1>3. /\ st.headers = None /\ st.events = <<>> /\ st.data = 0 /\ ~st.fin /\ st.received = 0
  <2>1. st.headers = None /\ st.events = <<>> /\ st.data = 0 /\ ~st.fin
        /\ Cardinality(DataEvents(st.events)) + st.data = st.received
    BY <1>1 DEF StreamOK
  <2> QED
    BY <2>1, NoData
<1>4. <<<<"open", s>>>> = Append(<<>>, <<"open", s>>) /\ <<>> \in Seq(Kinds \X Streams)
      /\ <<"open", s>> \in Kinds \X Streams /\ <<<<"open", s>>>> \in Seq(Kinds \X Streams)
  BY DEF Kinds
<1>5. /\ to \in StreamStates /\ to.state = "open" /\ to.headers = None /\ to.data = 0 /\ ~to.fin
      /\ to.received = 0 /\ to.events = <<<<"open", s>>>>
  BY <1>1, <1>3, <1>4 DEF StreamStates
<1>6. Cardinality(DataEvents(<<<<"open", s>>>>)) = 0
  <2>1. DataEvents(<<<<"open", s>>>>) = {}
    BY DEF DataEvents
  <2> QED
    BY <2>1, FS_EmptySet
<1> HIDE DEF to, st
<1>7. StreamOK(s, to)
  <2>1. to.events # <<>> /\ Len(to.events) = 1 /\ InOrder(s, to.events)
        /\ \A i \in DOMAIN to.events : to.events[i][1] # "end"
    BY <1>5 DEF InOrder
  <2> QED
    BY <1>5, <1>6, <2>1 DEF StreamOK, None
<1>8. to.events # <<>> /\ to.state # "none"
  BY <1>5
<1>9. /\ after \in StreamStates /\ StreamOK(s, after) /\ after.headers = None
  BY <1>2, <1>5, <1>7, <1>8, CallsKeep
<1> QED
  BY <1>1, <1>2, <1>9, StreamChanged DEF None

\* The connection goes, and its streams with it.
LEMMA StreamsClosed ==
  ASSUME StreamInv, NEW e \in Engines, NEW c \in Conns, OnConnClosed(e, c)
  PROVE  StreamInv'
<1> DEFINE closed(s) == [stream[s] EXCEPT !.state = "closed"]
<1>1. /\ stream' = [s \in Streams |-> IF stream[s].conn # c THEN stream[s] ELSE closed(s)]
      /\ UNCHANGED pool
  BY DEF OnConnClosed
<1>2. \A s \in Streams : stream[s] \in StreamStates /\ StreamOK(s, stream[s])
  BY DEF StreamInv
<1>3. ASSUME NEW s \in Streams
      PROVE  /\ closed(s) \in StreamStates /\ StreamOK(s, closed(s)) /\ closed(s).state = "closed"
  <2>1. /\ closed(s) \in StreamStates /\ closed(s).headers = stream[s].headers /\ closed(s).state = "closed"
        /\ closed(s).events = stream[s].events /\ closed(s).data = stream[s].data /\ closed(s).fin = stream[s].fin
        /\ closed(s).wantRead = stream[s].wantRead /\ closed(s).received = stream[s].received
    BY <1>2 DEF StreamStates
  <2> HIDE DEF closed
  <2> QED
    BY <1>2, <2>1 DEF StreamOK
<1> HIDE DEF closed
<1>4. /\ stream' \in [Streams -> StreamStates]
      /\ \A s \in Streams : stream'[s] = stream[s] \/ stream'[s] = closed(s)
  BY <1>1, <1>2, <1>3
<1>5. \A s \in Streams : StreamOK(s, stream'[s])
  BY <1>2, <1>3, <1>4
<1>6. \A t \in Streams : Undelivered(t)' => Undelivered(t)
  BY <1>3, <1>4 DEF Undelivered
<1>7. PoolOK'
  BY <1>1, <1>6 DEF StreamInv, PoolOK
<1> QED
  BY <1>4, <1>5, <1>7 DEF StreamInv, StreamOK, InOrder, DataEvents

\* The headers of a stream are decoded, when no other stream has yet to be told of its own.
LEMMA StreamDecoded ==
  ASSUME StreamInv, "ahead" \notin Inputs, NEW e \in Engines, NEW s \in Streams, Decode(e, s)
  PROVE  StreamInv'
<1>1. CASE UNCHANGED <<pool, stream>>
  BY <1>1, StreamsSame
<1>2. CASE ~UNCHANGED <<pool, stream>>
  <2> DEFINE st == stream[s]
             to == [st EXCEPT !.headers = "decoded"]
             p  == [top |-> pool.top + 2, last |-> pool.top + 1,
                    owner |-> [i \in 1..PoolSize |->
                      IF i \in pool.top + 1..pool.top + 2 THEN s ELSE pool.owner[i]]]
  <2>1. /\ st \in StreamStates /\ StreamOK(s, st) /\ st.state = "open" /\ st.headers = None
        /\ \A t \in Streams : ~Undelivered(t)
    BY DEF Decode, Live, MayDecode, StreamInv
  <2>2. /\ ~(pool.top + 2 > PoolSize) /\ pool' = p /\ stream' = [stream EXCEPT ![s] = to]
    BY <1>2 DEF Decode
  <2>3. pool.top \in Nat /\ pool.owner \in [1..PoolSize -> Streams \cup {None}]
    BY DEF StreamInv, PoolOK, Pools
  <2>4. pool' \in Pools /\ pool'.owner[pool'.last] = s
    <3>1. pool.top + 1 \in 1..PoolSize /\ pool.top + 1 \in pool.top + 1..pool.top + 2
      BY <2>2, <2>3, RunAssumption
    <3>2. [i \in 1..PoolSize |-> IF i \in pool.top + 1..pool.top + 2 THEN s ELSE pool.owner[i]]
            \in [1..PoolSize -> Streams \cup {None}]
      BY <2>3
    <3> QED
      BY <2>2, <2>3, <3>1, <3>2 DEF Pools
  <2>5. /\ to \in StreamStates /\ to.headers = "decoded" /\ to.state = "open" /\ to.events = st.events
        /\ to.data = st.data /\ to.fin = st.fin /\ to.wantRead = st.wantRead /\ to.received = st.received
    BY <2>1 DEF StreamStates
  <2> HIDE DEF to, st, p
  <2>6. StreamOK(s, to)
    BY <2>1, <2>5 DEF StreamOK, None
  <2>7. /\ stream' \in [Streams -> StreamStates] /\ stream'[s] = to
        /\ \A t \in Streams \ {s} : stream'[t] = stream[t]
    BY <2>2, <2>5 DEF StreamInv
  <2>8. \A t \in Streams : StreamOK(t, stream'[t])
    BY <2>6, <2>7 DEF StreamInv
  <2>9. \A t \in Streams : Undelivered(t)' => t = s
    BY <2>1, <2>7 DEF Undelivered
  <2>10. PoolOK'
    BY <2>4, <2>9 DEF PoolOK
  <2> QED
    BY <2>7, <2>8, <2>10 DEF StreamInv, StreamOK, InOrder, DataEvents
<1> QED
  BY <1>1, <1>2

\* A chunk or the end becomes readable.
LEMMA StreamArrived ==
  ASSUME StreamInv, NEW e \in Engines, NEW s \in Streams, Arrives(e, s)
  PROVE  StreamInv'
<1> DEFINE st == stream[s]
           more == [st EXCEPT !.data = st.data + 1, !.received = st.received + 1]
           last == [st EXCEPT !.fin = TRUE]
<1>1. /\ st \in StreamStates /\ StreamOK(s, st) /\ st.state = "open" /\ st.headers # None /\ ~st.fin /\ UNCHANGED pool
  BY DEF Arrives, Live, StreamInv
<1>2. PICK to \in {more, last} : stream' = [stream EXCEPT ![s] = to]
  BY DEF Arrives
<1>3. st.data \in Nat /\ st.received \in Nat /\ st.events \in Seq(Kinds \X Streams)
  BY <1>1 DEF StreamStates
<1>4. Cardinality(DataEvents(st.events)) \in Nat
  <2>1. IsFiniteSet(DOMAIN st.events)
    BY <1>3, FS_Interval
  <2>2. IsFiniteSet(DataEvents(st.events))
    BY <2>1, FS_Subset DEF DataEvents
  <2> QED
    BY <2>2, FS_CardinalityType
<1>5. /\ to \in StreamStates /\ to.headers = st.headers /\ to.state = st.state /\ to.events = st.events
      /\ to.wantRead = st.wantRead
      /\ \/ to.data = st.data + 1 /\ to.received = st.received + 1
         \/ to.data = st.data /\ to.received = st.received
  <2>1. st.data + 1 \in Nat /\ st.received + 1 \in Nat
    BY <1>3
  <2>2. CASE to = more
    BY <1>1, <2>1, <2>2 DEF StreamStates
  <2>3. CASE to = last
    BY <1>1, <2>3 DEF StreamStates
  <2> QED
    BY <1>2, <2>2, <2>3
<1> HIDE DEF more, last
<1>6. StreamOK(s, to)
  BY <1>1, <1>3, <1>4, <1>5 DEF StreamOK
<1> QED
  BY <1>1, <1>2, <1>5, <1>6, StreamChanged DEF Undelivered

\* The application reads, and may call.
LEMMA StreamRead ==
  ASSUME StreamInv, NEW e \in Engines, NEW s \in Streams, OnRead(e, s)
  PROVE  StreamInv'
<1>1. /\ stream[s] \in StreamStates /\ StreamOK(s, stream[s]) /\ stream[s].state = "open" /\ stream[s].wantRead
      /\ stream[s].headers = "decoded" \/ stream[s].data > 0 \/ stream[s].fin
      /\ pool' \in {pool, [pool EXCEPT !.top = 0]}
  BY DEF OnRead, Live, StreamInv
<1>2. stream[s].headers # None
  BY <1>1 DEF StreamOK, None
<1>3. /\ HeadersTaken(s) \in StreamStates /\ StreamOK(s, HeadersTaken(s))
      /\ HeadersTaken(s).headers = "taken" /\ HeadersTaken(s).state = "open" /\ HeadersTaken(s).wantRead
  BY <1>1, <1>2, HeadersKeep
<1>4. ASSUME NEW to \in StreamStates, StreamOK(s, to), to.headers = "taken", to.state = "open",
             NEW after \in AfterCalls(to), stream' = [stream EXCEPT ![s] = after]
      PROVE  StreamInv'
  <2>1. to.events # <<>> /\ to.state # "none"
    BY <1>4 DEF StreamOK
  <2>2. after \in StreamStates /\ StreamOK(s, after) /\ after.headers = "taken"
    BY <1>4, <2>1, CallsKeep
  <2> QED
    BY <1>1, <1>4, <2>2, StreamChanged
<1>5. CASE \E after \in AfterCalls(Read(s, HeadersTaken(s))) : stream' = [stream EXCEPT ![s] = after]
  BY <1>3, <1>4, <1>5, ReadKeeps
<1>6. CASE stream' = [stream EXCEPT ![s] = [HeadersTaken(s) EXCEPT !.state = "closed"]]
  BY <1>3, <1>4, <1>6 DEF AfterCalls
<1> QED
  BY <1>5, <1>6 DEF OnRead

\* The application writes, and may call.
LEMMA StreamWritten ==
  ASSUME StreamInv, NEW e \in Engines, NEW s \in Streams, OnWrite(e, s)
  PROVE  StreamInv'
<1>1. /\ stream[s] \in StreamStates /\ StreamOK(s, stream[s]) /\ stream[s].state = "open" /\ UNCHANGED pool
  BY DEF OnWrite, Live, StreamInv
<1>2. PICK after \in AfterCalls(stream[s]) : stream' = [stream EXCEPT ![s] = after]
  BY DEF OnWrite
<1>3. stream[s].events # <<>>
  BY <1>1 DEF StreamOK
<1>4. after \in StreamStates /\ StreamOK(s, after) /\ after.headers = stream[s].headers
  BY <1>1, <1>2, <1>3, CallsKeep
<1> QED
  BY <1>1, <1>2, <1>4, StreamChanged DEF Undelivered

\* Every step.
LEMMA StreamsStep ==
  ASSUME StreamInv, [Next]_vars, "ahead" \notin Inputs
  PROVE  StreamInv'
<1> USE DEF packetVars, connVars, Calls
<1>1. ASSUME NEW x \in Contexts, CreateContext(x) \/ Listen(x) PROVE StreamInv'
  BY <1>1, StreamsSame DEF CreateContext, Listen
<1>2. ASSUME NEW x \in Contexts, NEW c \in Conns, Connect(x, c) PROVE StreamInv'
  BY <1>2, StreamsSame DEF Connect
<1>3. ASSUME TimerCb \/ \E u \in Udps : UdpRead(u) PROVE StreamInv'
  BY <1>3, StreamsSame DEF TimerCb, UdpRead
<1>4. ASSUME NEW e \in Engines, Engine(e) PROVE StreamInv'
  <2>1. CASE Flush(e)
    BY <2>1, StreamsSame DEF Flush
  <2>2. ASSUME NEW c \in Conns, Packet(e, c) \/ OnNewConn(e, c) PROVE StreamInv'
    BY <2>2, StreamsSame DEF Packet, OnNewConn
  <2>3. ASSUME NEW c \in Conns, OnConnClosed(e, c) PROVE StreamInv'
    BY <2>3, StreamsClosed
  <2>4. ASSUME NEW c \in Conns, NEW s \in Streams, OnNewStream(e, c, s) PROVE StreamInv'
    BY <2>4, StreamOpened
  <2>5. ASSUME NEW s \in Streams, Decode(e, s) \/ Arrives(e, s) \/ OnRead(e, s) \/ OnWrite(e, s)
        PROVE  StreamInv'
    BY <2>5, StreamDecoded, StreamArrived, StreamRead, StreamWritten
  <2> QED
    BY <1>4, <2>1, <2>2, <2>3, <2>4, <2>5 DEF Engine
<1>5. CASE Sends
  BY <1>5, StreamsSame DEF Sends, SendRun
<1>6. CASE UNCHANGED vars
  BY <1>6, StreamsSame DEF vars
<1> QED
  BY <1>1, <1>2, <1>3, <1>4, <1>5, <1>6 DEF Next

\* The handlers on_read calls for a stream come in order and with the stream's own headers,
\* when the engine has a set of headers read before it decodes the next: all streams
\* share one pool and one last_hset.
THEOREM StreamsAreInOrder ==
  ASSUME "ahead" \notin Inputs
  PROVE  Spec => []StreamOrder
<1>1. Init => StreamInv
  BY StreamsStart
<1>2. StreamInv /\ [Next]_vars => StreamInv'
  BY StreamsStep
<1>3. StreamInv => StreamOrder
  BY DEF StreamInv, StreamOK, InOrder, DataEvents, StreamOrder
<1> QED
  BY <1>1, <1>2, <1>3, PTL DEF Spec
=============================================================================
