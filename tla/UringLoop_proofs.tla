---------------------------- MODULE UringLoop_proofs ----------------------------
(***************************************************************************)
(* Proofs about the io_uring loop, for any number of sockets, slots and    *)
(* buffers and any order of the kernel's answers.  Every submission and    *)
(* completion is a token that is in one place at a time; the invariants    *)
(* say where the tokens of a socket, of a slot and of a buffer may be.     *)
(***************************************************************************)
EXTENDS UringLoop, FiniteSetTheorems, TLAPS

-----------------------------------------------------------------------------
(* Queues.                                                                   *)

(* Something of S waits in queue q; and at most one thing of it.              *)
Has(q, S)  == \E i \in DOMAIN q : q[i] \in S
Only(q, S) == \A i, j \in DOMAIN q : q[i] \in S /\ q[j] \in S => i = j

(* Before: everything of A waits in front of everything of B.                 *)
Before(q, A, B) == \A i, j \in DOMAIN q : q[i] \in B /\ q[j] \in A => j < i

(* What a queue holds after something joins it.                               *)
LEMMA AppendFacts ==
  ASSUME NEW T, NEW q \in Seq(T), NEW e \in T
  PROVE  /\ Append(q, e) \in Seq(T)
         /\ \A S : Has(Append(q, e), S) <=> Has(q, S) \/ e \in S
         /\ \A S : Only(q, S) /\ (e \in S => ~Has(q, S)) => Only(Append(q, e), S)
         /\ \A A, B : Before(q, A, B) /\ (e \in A => e \notin B /\ ~Has(q, B)) => Before(Append(q, e), A, B)
<1> DEFINE r == Append(q, e)
<1>1. /\ r \in Seq(T) /\ DOMAIN r = DOMAIN q \cup {Len(q) + 1}
      /\ Len(q) + 1 \notin DOMAIN q /\ r[Len(q) + 1] = e
      /\ \A i \in DOMAIN q : r[i] = q[i] /\ i < Len(q) + 1
  OBVIOUS
<1> HIDE DEF r
<1>2. ASSUME NEW S PROVE Has(r, S) <=> Has(q, S) \/ e \in S
  BY <1>1 DEF Has
<1>3. ASSUME NEW S, Only(q, S), e \in S => ~Has(q, S) PROVE Only(r, S)
  BY <1>1, <1>3 DEF Has, Only
<1>4. ASSUME NEW A, NEW B, Before(q, A, B), e \in A => e \notin B /\ ~Has(q, B) PROVE Before(r, A, B)
  <2>1. SUFFICES ASSUME NEW i \in DOMAIN r, NEW j \in DOMAIN r, r[i] \in B, r[j] \in A
                 PROVE  j < i
    BY DEF Before
  <2>2. CASE i \in DOMAIN q /\ j \in DOMAIN q
    BY <2>1, <2>2, <1>1, <1>4 DEF Before
  <2>3. CASE i = Len(q) + 1
    BY <2>1, <2>3, <1>1, <1>4 DEF Has
  <2>4. CASE i \in DOMAIN q /\ j = Len(q) + 1
    BY <2>1, <2>4, <1>1, <1>4 DEF Has
  <2>. QED BY <2>1, <2>2, <2>3, <2>4, <1>1
<1>. QED BY <1>1, <1>2, <1>3, <1>4 DEF r

(* And after its head leaves it.                                              *)
LEMMA TailFacts ==
  ASSUME NEW T, NEW q \in Seq(T), q # <<>>
  PROVE  /\ Tail(q) \in Seq(T) /\ Head(q) \in T
         /\ \A S : Has(q, S) <=> Head(q) \in S \/ Has(Tail(q), S)
         /\ \A S : Only(q, S) => Only(Tail(q), S) /\ (Head(q) \in S => ~Has(Tail(q), S))
         /\ \A A, B : Before(q, A, B) => Before(Tail(q), A, B) /\ (Head(q) \in B => ~Has(Tail(q), A))
<1> DEFINE r == Tail(q)
<1>1. /\ r \in Seq(T) /\ q[1] \in T /\ Head(q) = q[1] /\ 1 \in DOMAIN q
      /\ \A i \in DOMAIN r : i + 1 \in DOMAIN q /\ r[i] = q[i + 1] /\ i \in Nat /\ i >= 1
      /\ \A i \in DOMAIN q : i # 1 => i - 1 \in DOMAIN r /\ r[i - 1] = q[i] /\ i \in Nat /\ i >= 1
  OBVIOUS
<1> HIDE DEF r
<1>2. ASSUME NEW S PROVE Has(q, S) <=> q[1] \in S \/ Has(r, S)
  <2>1. ASSUME Has(r, S) PROVE Has(q, S)
    BY <1>1, <2>1 DEF Has
  <2>2. ASSUME Has(q, S), q[1] \notin S PROVE Has(r, S)
    BY <1>1, <2>2 DEF Has
  <2>. QED BY <2>1, <2>2, <1>1 DEF Has
<1>3. ASSUME NEW S, Only(q, S) PROVE Only(r, S) /\ (q[1] \in S => ~Has(r, S))
  <2>1. ASSUME NEW i \in DOMAIN r, NEW j \in DOMAIN r, r[i] \in S, r[j] \in S PROVE i = j
    <3>1. i + 1 = j + 1
      BY <2>1, <1>1, <1>3 DEF Only
    <3>. QED BY <3>1, <1>1
  <2>2. ASSUME q[1] \in S, NEW i \in DOMAIN r, r[i] \in S PROVE FALSE
    <3>1. i + 1 = 1
      BY <2>2, <1>1, <1>3 DEF Only
    <3>. QED BY <3>1, <1>1
  <2>. QED BY <2>1, <2>2 DEF Only, Has
<1>4. ASSUME NEW A, NEW B, Before(q, A, B) PROVE Before(r, A, B) /\ (q[1] \in B => ~Has(r, A))
  <2>1. ASSUME NEW i \in DOMAIN r, NEW j \in DOMAIN r, r[i] \in B, r[j] \in A PROVE j < i
    <3>1. j + 1 < i + 1
      BY <2>1, <1>1, <1>4 DEF Before
    <3>. QED BY <3>1, <1>1
  <2>2. ASSUME q[1] \in B, NEW i \in DOMAIN r, r[i] \in A PROVE FALSE
    <3>1. i + 1 < 1
      BY <2>2, <1>1, <1>4 DEF Before
    <3>. QED BY <3>1, <1>1
  <2>. QED BY <2>1, <2>2 DEF Before, Has
<1>. QED BY <1>1, <1>2, <1>3, <1>4 DEF r

(* The elements of two queues, one behind the other.                          *)
LEMMA JoinFacts ==
  ASSUME NEW T, NEW a \in Seq(T), NEW b \in Seq(T)
  PROVE  /\ a \o b \in Seq(T) /\ Len(a \o b) = Len(a) + Len(b)
         /\ \A i \in 1..Len(a) : (a \o b)[i] = a[i]
         /\ \A i \in 1..Len(b) : (a \o b)[Len(a) + i] = b[i]
OBVIOUS

(* A queue that loses one element, wherever it is, holds nothing new and      *)
(* nothing twice.                                                             *)
LEMMA RemoveAtFacts ==
  ASSUME NEW T, NEW q \in Seq(T), NEW k \in DOMAIN q
  PROVE  /\ RemoveAt(q, k) \in Seq(T)
         /\ \A S : Has(RemoveAt(q, k), S) => Has(q, S)
         /\ \A S : Only(q, S) => Only(RemoveAt(q, k), S) /\ (q[k] \in S => ~Has(RemoveAt(q, k), S))
         /\ \A i \in DOMAIN RemoveAt(q, k) : \E j \in DOMAIN q : RemoveAt(q, k)[i] = q[j]
<1> DEFINE r == RemoveAt(q, k)
           at_(i) == IF i < k THEN i ELSE i + 1
<1>1. k \in 1..Len(q) /\ Len(q) \in Nat
  OBVIOUS
<1>2. r \in Seq(T) /\ Len(r) = Len(q) - 1 /\ \A i \in DOMAIN r : r[i] = q[at_(i)]
  <2> DEFINE a == SubSeq(q, 1, k - 1)
             b == SubSeq(q, k + 1, Len(q))
  <2>1. a \in Seq(T) /\ Len(a) = k - 1 /\ \A i \in 1..k - 1 : a[i] = q[i]
    BY <1>1
  <2>2. b \in Seq(T) /\ Len(b) = Len(q) - k /\ \A i \in 1..Len(q) - k : b[i] = q[k + i]
    BY <1>1
  <2> HIDE DEF a, b
  <2>3. /\ a \o b \in Seq(T) /\ Len(a \o b) = Len(q) - 1
        /\ \A i \in 1..k - 1 : (a \o b)[i] = a[i]
        /\ \A i \in 1..Len(q) - k : (a \o b)[k - 1 + i] = b[i]
    <3>1. /\ a \o b \in Seq(T) /\ Len(a \o b) = Len(a) + Len(b)
          /\ \A i \in 1..Len(a) : (a \o b)[i] = a[i]
          /\ \A i \in 1..Len(b) : (a \o b)[Len(a) + i] = b[i]
      <4>1. a \in Seq(T) /\ b \in Seq(T)
        BY <2>1, <2>2
      <4> HIDE DEF r, at_
      <4>. QED BY ONLY <4>1, JoinFacts
    <3>2. Len(a) + Len(b) = Len(q) - 1
      BY <2>1, <2>2, <1>1
    <3>3. Len(a) = k - 1 /\ Len(b) = Len(q) - k
      BY <2>1, <2>2
    <3> HIDE DEF r, at_
    <3>. QED BY ONLY <3>1, <3>2, <3>3
  <2>4. r = a \o b
    BY DEF a, b, RemoveAt
  <2>5. ASSUME NEW i \in 1..Len(q) - 1 PROVE (a \o b)[i] = q[at_(i)]
    <3>1. CASE i < k
      BY <3>1, <2>1, <2>3, <1>1
    <3>2. CASE ~(i < k)
      <4> DEFINE j == i - (k - 1)
      <4>1. j \in 1..Len(q) - k /\ k - 1 + j = i /\ k + j = i + 1
        BY <3>2, <1>1
      <4>2. at_(i) = i + 1
        BY <3>2
      <4> HIDE DEF j, at_
      <4>3. (a \o b)[k - 1 + j] = b[j] /\ b[j] = q[k + j]
        BY <4>1, <2>2, <2>3
      <4>. QED BY <4>1, <4>2, <4>3
    <3>. QED BY <3>1, <3>2
  <2>6. DOMAIN (a \o b) = 1..Len(q) - 1
    BY <2>3, <1>1
  <2> HIDE DEF r, at_
  <2>. QED BY <2>3, <2>4, <2>5, <2>6
<1>3. \A i \in DOMAIN r : at_(i) \in DOMAIN q /\ at_(i) # k /\ i \in Int
  BY <1>1, <1>2
<1> HIDE DEF r
<1>4. ASSUME NEW S, Has(r, S) PROVE Has(q, S)
  BY <1>2, <1>3, <1>4 DEF Has
<1>5. ASSUME NEW S, Only(q, S) PROVE Only(r, S) /\ (q[k] \in S => ~Has(r, S))
  <2>1. ASSUME NEW i \in DOMAIN r, NEW j \in DOMAIN r, r[i] \in S, r[j] \in S PROVE i = j
    <3>1. at_(i) = at_(j)
      BY <2>1, <1>2, <1>3, <1>5 DEF Only
    <3>. QED BY <3>1, <1>1, <1>3
  <2>2. ASSUME q[k] \in S, NEW i \in DOMAIN r, r[i] \in S PROVE FALSE
    BY <2>2, <1>2, <1>3, <1>5 DEF Only
  <2>. QED BY <2>1, <2>2 DEF Only, Has
<1>. QED BY <1>2, <1>3, <1>4, <1>5 DEF r

-----------------------------------------------------------------------------
(* Types.                                                                    *)

(* What the theorems ask of the application and of the kernel: a receive that *)
(* fails holds a buffer; the program accepts or connects, not both; it writes *)
(* on a socket when its last message has arrived and not once it is closed.   *)
Buffered == "bufferless" \notin Inputs
OneRole  == "mixed" \notin Inputs
Orderly  == "overlap" \notin Inputs /\ "late" \notin Inputs

Ops  == {"send", "connect", "recv", "close"}
Sqes == [op : Ops, s : Sockets, dd : Int] \cup [op : {"accept", "read_timer"}, s : {None}, dd : Int]
Cqes ==
  [tag : {"read"}, s : Sockets, res : {"data", "end", "failed", ENOBUFS}, bid : Buffers, dd : {-1}]
  \cup [tag : {"accept", "connect", "write"}, s : Sockets, res : {"done", "failed"},
        bid : Buffers, dd : Dds \cup {-1}]
  \cup [tag : {"timer"}, s : {None}, res : {"done"}, bid : Buffers, dd : {-1}]
States == {"unused", "linked", "open", "closed"}
Socks  == [state : States, dd : Int, timed : BOOLEAN, wrote : Nat]
Peers  == [state : {"away", "here", "gone"}, sent : Nat]
Uses   == [s : Sockets, conn : Sockets]

KernelTyped ==
  /\ kernel \in [accept : {"never", "queued", "armed", "ended"}, timer : {"idle", "armed"},
                 connects : SUBSET Sockets, recvs : SUBSET Uses, sends : Seq(Uses)]
  /\ ring \in Seq(Buffers)
  /\ slots \in [Dds -> Sockets \cup {None}]
  /\ peer \in [Sockets -> Peers]
  /\ got \in [Sockets -> Seq(Sockets \X Nat)]
  /\ cq \in Seq(Cqes)

LoopTyped ==
  /\ sq \in Seq(Sqes)
  /\ list \in Seq(Sockets) /\ rest \in Seq(Sockets)
  /\ sock \in [Sockets -> Socks]
  /\ numSockets \in Nat
  /\ buf \in [Sockets -> Sockets \X Nat]

Typing == KernelTyped /\ LoopTyped

(* The completions the kernel makes, and the fields of any completion.        *)
LEMMA CqeFacts ==
  /\ \A s \in Sockets, r \in {"data", "end", "failed", ENOBUFS} :
       /\ Cqe("read", s, r) \in Cqes
       /\ \A b \in Buffers : [Cqe("read", s, r) EXCEPT !.bid = b] \in Cqes
  /\ \A s \in Sockets, t \in {"accept", "connect", "write"}, r \in {"done", "failed"} :
       /\ Cqe(t, s, r) \in Cqes
       /\ \A d \in Dds : [Cqe(t, s, r) EXCEPT !.dd = d] \in Cqes
  /\ Cqe("timer", None, "done") \in Cqes
  /\ \A e \in Cqes :
       /\ e.tag \in {"read", "accept", "connect", "write", "timer"}
       /\ e.tag # "timer" => e.s \in Sockets
       /\ e.tag = "timer" => e.s = None
       /\ e.bid \in Buffers /\ e.dd \in Dds \cup {-1}
       /\ e.tag = "read" => e.res \in {"data", "end", "failed", ENOBUFS}
       /\ e.tag # "read" => e.res # ENOBUFS
<1>1. 0 \in Buffers /\ \A d \in Dds : d \in Int
  BY SizesAssumption DEF Buffers, Dds
<1>. QED BY <1>1, SocketsAssumption DEF Cqes, Cqe, ENOBUFS, None

(* The submissions the library makes, and the fields of any submission.       *)
LEMMA SqeFacts ==
  /\ \A op \in Ops, s \in Sockets, d \in Int : [op |-> op, s |-> s, dd |-> d] \in Sqes
  /\ [op |-> "accept", s |-> None, dd |-> -1] \in Sqes
  /\ [op |-> "read_timer", s |-> None, dd |-> -1] \in Sqes
  /\ \A e \in Sqes :
       /\ e.op \in Ops \cup {"accept", "read_timer"} /\ e.dd \in Int
       /\ e.op \in Ops => e.s \in Sockets
       /\ e.op \notin Ops => e.s = None
BY SocketsAssumption DEF Sqes, Ops, None

(* The fields of a socket, and the updates that keep them typed.              *)
LEMMA SockFacts ==
  /\ Fresh \in Socks
  /\ \A x \in Socks :
       /\ x.state \in States /\ x.dd \in Int /\ x.timed \in BOOLEAN /\ x.wrote \in Nat
       /\ \A t \in States : [x EXCEPT !.state = t] \in Socks
       /\ \A t \in States, d \in Int : [x EXCEPT !.state = t, !.dd = d] \in Socks
       /\ \A t \in BOOLEAN : [x EXCEPT !.timed = t] \in Socks
       /\ [x EXCEPT !.wrote = x.wrote + 1] \in Socks
<1>1. \A x \in Socks : x.wrote + 1 \in Nat
  BY DEF Socks
<1>2. Fresh \in Socks
  BY DEF Socks, Fresh, States
<1>3. ASSUME NEW x \in Socks
      PROVE  /\ x.state \in States /\ x.dd \in Int /\ x.timed \in BOOLEAN /\ x.wrote \in Nat
             /\ \A t \in States : [x EXCEPT !.state = t] \in Socks
             /\ \A t \in States, d \in Int : [x EXCEPT !.state = t, !.dd = d] \in Socks
             /\ \A n \in Nat : [x EXCEPT !.wrote = n] \in Socks
  BY DEF Socks
<1>4. ASSUME NEW x \in Socks, NEW t \in BOOLEAN PROVE [x EXCEPT !.timed = t] \in Socks
  BY Zenon DEF Socks
<1>. QED BY <1>1, <1>2, <1>3, <1>4

(* The updates of a peer keep it typed.                                       *)
LEMMA PeerFacts ==
  \A p \in Peers :
    /\ \A t \in {"away", "here", "gone"} : [p EXCEPT !.state = t] \in Peers
    /\ [p EXCEPT !.sent = p.sent + 1] \in Peers
<1>1. \A p \in Peers, n \in Nat : [p EXCEPT !.sent = n] \in Peers
  BY DEF Peers
<1>2. \A p \in Peers : p.sent + 1 \in Nat
  BY DEF Peers
<1>3. \A p \in Peers, t \in {"away", "here", "gone"} : [p EXCEPT !.state = t] \in Peers
  BY DEF Peers
<1>. QED BY <1>1, <1>2, <1>3

(* A handler leaves the queue, the sockets and the send buffers typed.        *)
LEMMA HandlerTyped ==
  ASSUME NEW s \in Sockets, NEW was \in [Sockets -> Socks], NEW queue \in Seq(Sqes),
         Handler(s, was, queue), LoopTyped
  PROVE  sq' \in Seq(Sqes) /\ sock' \in [Sockets -> Socks] /\ buf' \in [Sockets -> Sockets \X Nat]
<1>1. sock[s].wrote + 1 \in Nat /\ was[s].dd \in Int /\ buf \in [Sockets -> Sockets \X Nat]
  <2>1. sock[s] \in Socks /\ was[s] \in Socks
    BY DEF LoopTyped
  <2>2. sock[s].wrote \in Nat /\ was[s].dd \in Int
    BY <2>1 DEF Socks
  <2>. QED BY <2>2 DEF LoopTyped
<1>2. CASE sq' = queue /\ sock' = was /\ UNCHANGED buf
  BY <1>1, <1>2
<1>3. CASE /\ buf' = Copied(s)
           /\ sq' = Append(queue, [op |-> "send", s |-> s, dd |-> was[s].dd])
           /\ sock' = [was EXCEPT ![s].wrote = @ + 1]
  <2>1. [op |-> "send", s |-> s, dd |-> was[s].dd] \in Sqes
    BY <1>1, SqeFacts DEF Ops
  <2>2. sq' \in Seq(Sqes)
    BY <1>3, <2>1
  <2>3. sock' \in [Sockets -> Socks]
    BY <1>3, SockFacts
  <2>4. buf' \in [Sockets -> Sockets \X Nat]
    BY <1>1, <1>3 DEF Copied
  <2>. QED BY <2>2, <2>3, <2>4
<1>4. CASE (\E t \in BOOLEAN : sock' = [was EXCEPT ![s].timed = t]) /\ sq' = queue /\ UNCHANGED buf
  <2>1. PICK t \in BOOLEAN : sock' = [was EXCEPT ![s].timed = t]
    BY <1>4
  <2>2. was[s] \in Socks /\ [was[s] EXCEPT !.timed = t] \in Socks
    BY SockFacts
  <2>3. sock' \in [Sockets -> Socks]
    BY <2>1, <2>2
  <2>. QED BY <1>1, <1>4, <2>3
<1>. QED BY <1>2, <1>3, <1>4 DEF Handler

(* A completion of a receive is typed, and so is the ring after it.           *)
LEMMA ReceivedTyped ==
  ASSUME KernelTyped, NEW s \in Sockets, NEW r \in {"data", "end", "failed"}, Received(s, r)
  PROVE  cq' \in Seq(Cqes) /\ ring' \in Seq(Buffers)
<1>1. cq \in Seq(Cqes) /\ ring \in Seq(Buffers)
  BY DEF KernelTyped
<1>2. CASE cq' = Append(cq, Cqe("read", s, r)) /\ UNCHANGED ring
  <2>1. Cqe("read", s, r) \in Cqes
    BY CqeFacts
  <2>. QED BY <1>1, <1>2, <2>1
<1>3. CASE cq' = Append(cq, Cqe("read", s, ENOBUFS)) /\ UNCHANGED ring
  <2>1. Cqe("read", s, ENOBUFS) \in Cqes
    BY CqeFacts
  <2>. QED BY <1>1, <1>3, <2>1
<1>4. CASE ring # <<>> /\ cq' = Append(cq, [Cqe("read", s, r) EXCEPT !.bid = Head(ring)])
           /\ ring' = Tail(ring)
  <2>1. Head(ring) \in Buffers /\ Tail(ring) \in Seq(Buffers)
    BY <1>1, <1>4
  <2>2. [Cqe("read", s, r) EXCEPT !.bid = Head(ring)] \in Cqes
    BY <2>1, CqeFacts
  <2>. QED BY <1>1, <1>4, <2>1, <2>2
<1>. QED BY <1>2, <1>3, <1>4 DEF Received

-----------------------------------------------------------------------------
(* Every action keeps the types.                                             *)

(* Whatever submission the kernel starts, its side stays typed.               *)
LEMMA IssuedTyped ==
  ASSUME Typing, sq # <<>>, Issued(Head(sq)), UNCHANGED <<peer, got>>
  PROVE  KernelTyped'
<1> DEFINE e == Head(sq)
           conn == IF e.dd \in Dds THEN slots[e.dd] ELSE None
<1>1. e \in Sqes /\ (e.op \in Ops => e.s \in Sockets) /\ conn \in Sockets \cup {None}
  BY TailFacts, SqeFacts DEF Typing, LoopTyped, KernelTyped
<1>2. e.op \in {"connect", "recv", "send", "close"} => e.s \in Sockets
  BY <1>1 DEF Ops
<1>3. KernelTyped
  BY DEF Typing
<1>4. CASE UNCHANGED <<cq, ring, slots>> /\ kernel' \in {[kernel EXCEPT !.accept = "armed"], [kernel EXCEPT !.timer = "armed"]}
  BY <1>3, <1>4 DEF KernelTyped
<1>5. CASE e.op = "connect" /\ kernel' = [kernel EXCEPT !.connects = @ \cup {e.s}] /\ UNCHANGED <<cq, ring, slots>>
  BY <1>2, <1>3, <1>5 DEF KernelTyped
<1>6. CASE e.op = "recv" /\ conn # None /\ kernel' = [kernel EXCEPT !.recvs = @ \cup {[s |-> e.s, conn |-> conn]}]
           /\ UNCHANGED <<cq, ring, slots>>
  <2>1. [s |-> e.s, conn |-> conn] \in Uses
    BY <1>1, <1>2, <1>6 DEF Uses
  <2> HIDE DEF e, conn
  <2>. QED BY <2>1, <1>3, <1>6 DEF KernelTyped
<1>7. CASE e.op = "recv" /\ Received(e.s, "failed") /\ UNCHANGED <<kernel, slots>>
  <2>1. cq' \in Seq(Cqes) /\ ring' \in Seq(Buffers)
    BY <1>2, <1>3, <1>7, ReceivedTyped
  <2>. QED BY <2>1, <1>3, <1>7 DEF KernelTyped
<1>8. CASE e.op = "send" /\ conn # None /\ kernel' = [kernel EXCEPT !.sends = Append(@, [s |-> e.s, conn |-> conn])]
           /\ UNCHANGED <<cq, ring, slots>>
  <2>1. [s |-> e.s, conn |-> conn] \in Uses
    BY <1>1, <1>2, <1>8 DEF Uses
  <2> HIDE DEF e, conn
  <2>2. Append(kernel.sends, [s |-> e.s, conn |-> conn]) \in Seq(Uses)
    BY <2>1, <1>3 DEF KernelTyped
  <2>. QED BY <2>2, <1>3, <1>8 DEF KernelTyped
<1>9. CASE e.op = "send" /\ cq' = Append(cq, Cqe("write", e.s, "failed")) /\ UNCHANGED <<ring, kernel, slots>>
  <2>1. Cqe("write", e.s, "failed") \in Cqes
    BY <1>2, <1>9, CqeFacts
  <2> HIDE DEF e, conn
  <2>2. cq' \in Seq(Cqes)
    BY <2>1, <1>3, <1>9 DEF KernelTyped
  <2>. QED BY <2>2, <1>3, <1>9 DEF KernelTyped
<1>10. CASE e.op = "close" /\ slots' = (IF conn = None THEN slots ELSE [slots EXCEPT ![e.dd] = None]) /\ UNCHANGED <<cq, ring, kernel>>
  BY <1>3, <1>10 DEF KernelTyped
<1> HIDE DEF e
<1>. QED BY <1>4, <1>5, <1>6, <1>7, <1>8, <1>9, <1>10 DEF Issued, e

(* The kernel's own steps keep the types.                                     *)
LEMMA KernelStepTyped ==
  ASSUME Typing, KernelNext
  PROVE  Typing'
<1>1. KernelTyped /\ LoopTyped
  BY DEF Typing
<1>2. ASSUME NEW s \in Sockets, Accepts(s) PROVE Typing'
  <2>1. \A r \in {"done", "failed"}, d \in Dds : Cqe("accept", s, r) \in Cqes /\ [Cqe("accept", s, r) EXCEPT !.dd = d] \in Cqes
    BY CqeFacts
  <2>2. cq \in Seq(Cqes) /\ slots \in [Dds -> Sockets \cup {None}] /\ peer \in [Sockets -> Peers]
    BY <1>1 DEF KernelTyped
  <2>3. /\ cq' \in Seq(Cqes) /\ slots' \in [Dds -> Sockets \cup {None}]
        /\ peer' \in [Sockets -> Peers]
    <3>1. ASSUME NEW d \in Dds, slots' = [slots EXCEPT ![d] = s],
                 cq' = Append(cq, [Cqe("accept", s, "done") EXCEPT !.dd = d])
          PROVE  cq' \in Seq(Cqes) /\ slots' \in [Dds -> Sockets \cup {None}]
      BY <2>1, <2>2, <3>1
    <3>2. ASSUME cq' = Append(cq, Cqe("accept", s, "failed")) PROVE cq' \in Seq(Cqes)
      <4>1. Cqe("accept", s, "failed") \in Cqes
        BY CqeFacts
      <4>. QED BY <2>2, <3>2, <4>1
    <3>3. ASSUME NEW t \in {"here", "gone"}, peer' = [peer EXCEPT ![s].state = t]
          PROVE  peer' \in [Sockets -> Peers]
      BY <2>2, <3>3, PeerFacts
    <3>4. \E t \in {"here", "gone"} : peer' = [peer EXCEPT ![s].state = t]
      BY <1>2 DEF Accepts
    <3>5. \/ \E d \in Dds : /\ slots' = [slots EXCEPT ![d] = s]
                           /\ cq' = Append(cq, [Cqe("accept", s, "done") EXCEPT !.dd = d])
          \/ cq' = Append(cq, Cqe("accept", s, "failed")) /\ UNCHANGED slots
      BY <1>2 DEF Accepts
    <3>. QED BY <2>2, <3>1, <3>2, <3>3, <3>4, <3>5
  <2>4. kernel' = kernel \/ kernel' = [kernel EXCEPT !.accept = "ended"]
    BY <1>2 DEF Accepts
  <2>5. UNCHANGED <<sq, list, rest, sock, numSockets, buf, ring, got>>
    BY <1>2 DEF Accepts
  <2>. QED BY <1>1, <2>2, <2>3, <2>4, <2>5 DEF Typing, KernelTyped, LoopTyped
<1>3. ASSUME NEW s \in Sockets, Connected(s) PROVE Typing'
  <2>1. Cqe("connect", s, "done") \in Cqes
    BY CqeFacts
  <2>2. cq' \in Seq(Cqes)
    BY <1>1, <1>3, <2>1 DEF Connected, KernelTyped
  <2>3. peer' \in [Sockets -> Peers]
    <3>1. PICK t \in {"here", "gone"} : peer' = [peer EXCEPT ![s].state = t]
      BY <1>3 DEF Connected
    <3>2. peer \in [Sockets -> Peers] /\ peer[s] \in Peers
      BY <1>1 DEF KernelTyped
    <3>3. [peer[s] EXCEPT !.state = t] \in Peers
      BY <3>2, PeerFacts
    <3>. QED BY <3>1, <3>2, <3>3
  <2>. QED BY <1>1, <1>3, <2>2, <2>3 DEF Connected, Typing, KernelTyped, LoopTyped
<1>4. ASSUME NEW r \in kernel.recvs, PeerSends(r) \/ PeerLeaves(r) PROVE Typing'
  <2>1. r.s \in Sockets /\ r.conn \in Sockets
    BY <1>1 DEF KernelTyped, Uses
  <2>2. cq' \in Seq(Cqes) /\ ring' \in Seq(Buffers)
    BY <1>1, <1>4, <2>1, ReceivedTyped DEF PeerSends, PeerLeaves
  <2>3. peer' \in [Sockets -> Peers]
    <3>1. peer \in [Sockets -> Peers]
      BY <1>1 DEF KernelTyped
    <3>2. \/ peer' = [peer EXCEPT ![r.conn] = [peer[r.conn] EXCEPT !.sent = peer[r.conn].sent + 1]]
          \/ peer' = [peer EXCEPT ![r.conn] = [peer[r.conn] EXCEPT !.state = "gone"]]
      BY <1>4, <2>1, <3>1 DEF PeerSends, PeerLeaves
    <3>3. peer[r.conn] \in Peers
      BY <2>1, <3>1
    <3>4. /\ [peer[r.conn] EXCEPT !.sent = peer[r.conn].sent + 1] \in Peers
          /\ [peer[r.conn] EXCEPT !.state = "gone"] \in Peers
      BY <3>3, PeerFacts
    <3>. QED BY <2>1, <3>1, <3>2, <3>4
  <2>4. kernel' = kernel \/ kernel' = [kernel EXCEPT !.recvs = @ \ {r}]
    BY <1>4 DEF PeerSends, PeerLeaves
  <2>5. UNCHANGED <<sq, list, rest, sock, numSockets, buf, slots, got>>
    BY <1>4 DEF PeerSends, PeerLeaves
  <2>. QED BY <1>1, <2>2, <2>3, <2>4, <2>5 DEF Typing, KernelTyped, LoopTyped
<1>5. ASSUME NEW i \in DOMAIN kernel.sends, Sends(i) PROVE Typing'
  <2>1. kernel.sends \in Seq(Uses)
    BY <1>1 DEF KernelTyped
  <2>2. kernel.sends[i] \in Uses
    BY <2>1
  <2>3. RemoveAt(kernel.sends, i) \in Seq(Uses)
    BY <2>1, RemoveAtFacts
  <2>4. kernel.sends[i].s \in Sockets /\ kernel.sends[i].conn \in Sockets
    BY <2>2 DEF Uses
  <2>5. Cqe("write", kernel.sends[i].s, "done") \in Cqes
    BY <2>4, CqeFacts
  <2>6. cq' \in Seq(Cqes)
    BY <1>1, <1>5, <2>5 DEF Sends, KernelTyped
  <2>7. buf[kernel.sends[i].s] \in Sockets \X Nat
    BY <1>1, <2>4 DEF LoopTyped
  <2>8. got' \in [Sockets -> Seq(Sockets \X Nat)]
    BY <1>1, <1>5, <2>4, <2>7 DEF Sends, KernelTyped
  <2>. QED BY <1>1, <1>5, <2>3, <2>6, <2>8 DEF Sends, Typing, KernelTyped, LoopTyped
<1>6. CASE TimerExpires
  <2>1. Cqe("timer", None, "done") \in Cqes
    BY CqeFacts
  <2>2. cq' \in Seq(Cqes)
    BY <1>1, <1>6, <2>1 DEF TimerExpires, KernelTyped
  <2>. QED BY <1>1, <1>6, <2>2 DEF TimerExpires, Typing, KernelTyped, LoopTyped
<1>. QED BY <1>2, <1>3, <1>4, <1>5, <1>6 DEF KernelNext

(* What a completion at the head names.                                       *)
LEMMA Reaped1 ==
  ASSUME Typing, Reaps
  PROVE  /\ Head(cq) \in Cqes /\ cq' \in Seq(Cqes) /\ cq' = Tail(cq) /\ cq # <<>>
         /\ Head(cq).tag # "timer" => Head(cq).s \in Sockets
         /\ Head(cq).bid \in Buffers /\ Head(cq).dd \in Dds \cup {-1} /\ Head(cq).dd \in Int
         /\ ring \in Seq(Buffers) /\ (GiveBack(Head(cq).bid) => ring' \in Seq(Buffers))
<1>1. cq \in Seq(Cqes) /\ cq # <<>> /\ cq' = Tail(cq)
  BY DEF Typing, KernelTyped, Reaps
<1>2. Head(cq) \in Cqes /\ cq' \in Seq(Cqes)
  BY <1>1, TailFacts
<1>3. \A d \in Dds \cup {-1} : d \in Int
  BY DEF Dds
<1>4. /\ Head(cq).tag # "timer" => Head(cq).s \in Sockets
      /\ Head(cq).bid \in Buffers /\ Head(cq).dd \in Dds \cup {-1}
  BY <1>2, CqeFacts
<1>5. ring \in Seq(Buffers)
  BY DEF Typing, KernelTyped
<1>6. GiveBack(Head(cq).bid) => ring' \in Seq(Buffers)
  BY <1>4, <1>5 DEF GiveBack
<1>. QED BY <1>1, <1>2, <1>3, <1>4, <1>5, <1>6

(* So do the completions the loop takes.                                      *)
LEMMA ReapTyped ==
  ASSUME Typing, Reap
  PROVE  Typing'
<1>1. KernelTyped /\ LoopTyped
  BY DEF Typing
<1>2. Reaps
  BY DEF Reap, ReapAccept, ReapData, ReapEnd, ReapWrite, ReapConnect, ReapTimer
<1> DEFINE e == Head(cq)
<1>3. e \in Cqes /\ cq' \in Seq(Cqes) /\ (e.tag # "timer" => e.s \in Sockets) /\ e.dd \in Int
      /\ (GiveBack(e.bid) => ring' \in Seq(Buffers))
  BY <1>1, <1>2, Reaped1 DEF KernelTyped
<1>4. \A s \in Sockets : sock[s] \in Socks /\ sock[s].dd \in Int
  BY <1>1 DEF LoopTyped, Socks
<1>5. \A s \in Sockets, d \in Int : RecvSqe(s, d) \in Sqes
  BY SqeFacts DEF RecvSqe, Ops
<1> HIDE DEF e
<1>6. CASE ReapAccept
  <2> DEFINE made == [sock EXCEPT ![e.s] = [@ EXCEPT !.state = "open", !.dd = e.dd]]
             queue == IF e.dd >= 0 THEN Append(sq, RecvSqe(e.s, e.dd)) ELSE sq
  <2>1. e.s \in Sockets /\ Handler(e.s, made, queue) /\ list' = <<e.s>> \o list
        /\ UNCHANGED <<rest, numSockets, kernelVars>>
    BY <1>3, <1>6 DEF ReapAccept, Descriptor, e
  <2>2. [sock[e.s] EXCEPT !.state = "open", !.dd = e.dd] \in Socks
    BY <1>3, <1>4, <2>1, SockFacts DEF States
  <2>3. made \in [Sockets -> Socks]
    BY <1>1, <2>1, <2>2 DEF LoopTyped
  <2>4. queue \in Seq(Sqes)
    BY <1>1, <1>3, <1>5, <2>1 DEF LoopTyped
  <2> HIDE DEF made, queue
  <2>5. sq' \in Seq(Sqes) /\ sock' \in [Sockets -> Socks] /\ buf' \in [Sockets -> Sockets \X Nat]
    BY <1>1, <2>1, <2>3, <2>4, HandlerTyped
  <2>6. list' \in Seq(Sockets)
    BY <1>1, <2>1 DEF LoopTyped
  <2>. QED BY <1>1, <1>3, <2>1, <2>5, <2>6 DEF Typing, LoopTyped, KernelTyped, kernelVars
<1>7. CASE ReapData
  <2>1. e.s \in Sockets /\ Handler(e.s, sock, sq) /\ GiveBack(e.bid)
        /\ UNCHANGED <<list, rest, numSockets, kernel, slots, peer, got>>
    BY <1>3, <1>7 DEF ReapData, e
  <2>2. sq' \in Seq(Sqes) /\ sock' \in [Sockets -> Socks] /\ buf' \in [Sockets -> Sockets \X Nat]
    BY <1>1, <2>1, HandlerTyped DEF LoopTyped
  <2>. QED BY <1>1, <1>3, <2>1, <2>2 DEF Typing, LoopTyped, KernelTyped
<1>8. CASE ReapEnd
  <2> DEFINE made == [sock EXCEPT ![e.s].state = "closed"]
             queue == sq \o CloseSqe(e.s)
  <2>1. e.s \in Sockets /\ Handler(e.s, made, queue) /\ GiveBack(e.bid)
        /\ UNCHANGED <<list, rest, numSockets, kernel, slots, peer, got>>
    BY <1>3, <1>8 DEF ReapEnd, e
  <2>2. [sock[e.s] EXCEPT !.state = "closed"] \in Socks
    BY <1>4, <2>1, SockFacts DEF States
  <2>3. made \in [Sockets -> Socks]
    BY <1>1, <2>1, <2>2 DEF LoopTyped
  <2>4. Sqe("close", e.s) \in Sqes
    BY <1>4, <2>1, SqeFacts DEF Sqe, Ops
  <2>5. queue \in Seq(Sqes)
    BY <1>1, <2>4 DEF LoopTyped, CloseSqe
  <2> HIDE DEF made, queue
  <2>6. sq' \in Seq(Sqes) /\ sock' \in [Sockets -> Socks] /\ buf' \in [Sockets -> Sockets \X Nat]
    BY <1>1, <2>1, <2>3, <2>5, HandlerTyped
  <2>. QED BY <1>1, <1>3, <2>1, <2>6 DEF Typing, LoopTyped, KernelTyped
<1>9. CASE ReapWrite
  BY <1>1, <1>3, <1>9 DEF ReapWrite, Typing, LoopTyped, KernelTyped, kernelVars
<1>10. CASE ReapConnect
  <2> DEFINE made == [sock EXCEPT ![e.s].state = "open"]
             queue == Append(sq, RecvSqe(e.s, sock[e.s].dd))
  <2>1. e.s \in Sockets /\ Handler(e.s, made, queue) /\ UNCHANGED <<list, rest, numSockets, kernelVars>>
    BY <1>3, <1>10 DEF ReapConnect, e
  <2>2. [sock[e.s] EXCEPT !.state = "open"] \in Socks
    BY <1>4, <2>1, SockFacts DEF States
  <2>3. made \in [Sockets -> Socks]
    BY <1>1, <2>1, <2>2 DEF LoopTyped
  <2>4. queue \in Seq(Sqes)
    BY <1>1, <1>4, <1>5, <2>1 DEF LoopTyped
  <2> HIDE DEF made, queue
  <2>5. sq' \in Seq(Sqes) /\ sock' \in [Sockets -> Socks] /\ buf' \in [Sockets -> Sockets \X Nat]
    BY <1>1, <2>1, <2>3, <2>4, HandlerTyped
  <2>. QED BY <1>1, <1>3, <2>1, <2>5 DEF Typing, LoopTyped, KernelTyped, kernelVars
<1>11. CASE ReapTimer
  BY <1>1, <1>3, <1>11 DEF ReapTimer, Typing, LoopTyped, KernelTyped, kernelVars
<1>. QED BY <1>6, <1>7, <1>8, <1>9, <1>10, <1>11 DEF Reap

(* So does every step.                                                        *)
LEMMA TypedStep ==
  ASSUME Typing, Next
  PROVE  Typing'
<1>1. KernelTyped /\ LoopTyped
  BY DEF Typing
<1>2. CASE Listen
  <2>1. sq' \in Seq(Sqes)
    BY <1>1, <1>2, SqeFacts DEF Listen, LoopTyped
  <2>. QED BY <1>1, <1>2, <2>1 DEF Listen, Typing, LoopTyped, KernelTyped
<1>3. CASE Run
  <2>1. sq' \in Seq(Sqes)
    BY <1>1, <1>3, SqeFacts DEF Run, LoopTyped
  <2>. QED BY <1>1, <1>3, <2>1 DEF Run, Typing, LoopTyped, KernelTyped, kernelVars
<1>4. ASSUME NEW s \in Sockets, ConnectFails(s) PROVE Typing'
  <2>1. sock[s] \in Socks /\ [sock[s] EXCEPT !.state = "linked"] \in Socks
    BY <1>1, SockFacts DEF LoopTyped, States
  <2>2. sock' \in [Sockets -> Socks] /\ list' \in Seq(Sockets)
    BY <1>1, <1>4, <2>1 DEF ConnectFails, LoopTyped
  <2>. QED BY <1>1, <1>4, <2>2 DEF ConnectFails, Typing, LoopTyped, KernelTyped, kernelVars
<1>5. ASSUME NEW s \in Sockets, Connect(s) PROVE Typing'
  <2>1. sock[s] \in Socks /\ numSockets \in Int /\ numSockets + 1 \in Nat
    BY <1>1 DEF LoopTyped
  <2>2. [sock[s] EXCEPT !.state = "linked", !.dd = numSockets] \in Socks
    BY <2>1, SockFacts DEF States
  <2>3. sock' = [sock EXCEPT ![s] = [sock[s] EXCEPT !.state = "linked", !.dd = numSockets]]
    BY <1>1, <1>5 DEF Connect, LoopTyped
  <2>4. sock' \in [Sockets -> Socks] /\ list' \in Seq(Sockets)
    BY <1>1, <1>5, <2>2, <2>3 DEF Connect, LoopTyped
  <2>5. [op |-> "connect", s |-> s, dd |-> numSockets] \in Sqes
    BY <2>1, SqeFacts DEF Ops
  <2>6. sq' \in Seq(Sqes)
    BY <1>1, <1>5, <2>5 DEF Connect, LoopTyped
  <2>7. slots' \in [Dds -> Sockets \cup {None}]
    BY <1>1, <1>5 DEF Connect, KernelTyped
  <2>. QED BY <1>1, <1>5, <2>1, <2>4, <2>6, <2>7 DEF Connect, Typing, LoopTyped, KernelTyped
<1>6. CASE Issue
  <2>1. KernelTyped'
    BY <1>6, IssuedTyped DEF Issue
  <2>2. sq' \in Seq(Sqes)
    BY <1>1, <1>6, TailFacts DEF Issue, LoopTyped
  <2>. QED BY <1>1, <1>6, <2>1, <2>2 DEF Issue, Typing, LoopTyped
<1>7. CASE Wakes \/ Drained \/ OutOfBuffers
  BY <1>1, <1>7 DEF Wakes, Drained, OutOfBuffers, Typing, LoopTyped, KernelTyped, kernelVars
<1>8. CASE SweepNext
  <2>1. Head(rest) \in Sockets /\ rest' \in Seq(Sockets)
    BY <1>1, <1>8, TailFacts DEF SweepNext, LoopTyped
  <2>2. sq' \in Seq(Sqes) /\ sock' \in [Sockets -> Socks] /\ buf' \in [Sockets -> Sockets \X Nat]
    <3>1. CASE UNCHANGED <<sq, sock, buf>>
      BY <1>1, <3>1 DEF LoopTyped
    <3>2. ASSUME NEW t \in BOOLEAN, Handler(Head(rest), [sock EXCEPT ![Head(rest)].timed = t], sq)
          PROVE  sq' \in Seq(Sqes) /\ sock' \in [Sockets -> Socks] /\ buf' \in [Sockets -> Sockets \X Nat]
      <4>1. sock[Head(rest)] \in Socks
        BY <1>1, <2>1 DEF LoopTyped
      <4>2. [sock[Head(rest)] EXCEPT !.timed = t] \in Socks
        BY <4>1, SockFacts
      <4>3. [sock EXCEPT ![Head(rest)].timed = t] \in [Sockets -> Socks]
        BY <1>1, <2>1, <4>2 DEF LoopTyped
      <4>. QED BY <1>1, <2>1, <3>2, <4>3, HandlerTyped DEF LoopTyped
    <3>. QED BY <1>8, <3>1, <3>2 DEF SweepNext
  <2>. QED BY <1>1, <1>8, <2>1, <2>2 DEF SweepNext, Typing, LoopTyped, KernelTyped, kernelVars
<1>9. CASE SweepDone
  <2>1. sq' \in Seq(Sqes)
    BY <1>1, <1>9, SqeFacts DEF SweepDone, LoopTyped
  <2>. QED BY <1>1, <1>9, <2>1 DEF SweepDone, Typing, LoopTyped, KernelTyped, kernelVars
<1>. QED BY <1>2, <1>3, <1>4, <1>5, <1>6, <1>7, <1>8, <1>9, ReapTyped, KernelStepTyped DEF Next, LoopNext

(* The initial state is typed.                                                *)
LEMMA InitTyped ==
  ASSUME Init
  PROVE  Typing
<1>1. [i \in 1..NumBuffers |-> i - 1] \in Seq(Buffers)
  <2>1. NumBuffers \in Nat
    BY SizesAssumption
  <2>2. [i \in 1..NumBuffers |-> i - 1] \in [1..NumBuffers -> Buffers]
    BY <2>1 DEF Buffers
  <2>. QED BY <2>1, <2>2
<1>2. sq \in Seq(Sqes) /\ cq \in Seq(Cqes) /\ list \in Seq(Sockets) /\ rest \in Seq(Sockets)
  BY DEF Init
<1>3. sock \in [Sockets -> Socks] /\ numSockets \in Nat /\ buf \in [Sockets -> Sockets \X Nat]
  BY SockFacts DEF Init
<1>4. /\ slots \in [Dds -> Sockets \cup {None}] /\ peer \in [Sockets -> Peers]
      /\ got \in [Sockets -> Seq(Sockets \X Nat)]
  BY DEF Init, Peers
<1>5. kernel \in [accept : {"never", "queued", "armed", "ended"}, timer : {"idle", "armed"},
                  connects : SUBSET Sockets, recvs : SUBSET Uses, sends : Seq(Uses)]
  <2>1. <<>> \in Seq(Uses)
    OBVIOUS
  <2>. QED BY <2>1 DEF Init
<1>6. ring \in Seq(Buffers)
  BY <1>1 DEF Init
<1>. QED BY <1>2, <1>3, <1>4, <1>5, <1>6 DEF Typing, KernelTyped, LoopTyped

-----------------------------------------------------------------------------
(* Buffers.                                                                  *)

(* The completions that hold buffer b.                                        *)
Held(b) == {e \in Cqes : e.tag = "read" /\ e.res # ENOBUFS /\ e.bid = b}

(* A buffer waits in the ring or is held, and in one place only.              *)
BufferOK(b) ==
  /\ Only(ring, {b}) /\ Only(cq, Held(b))
  /\ Has(ring, {b}) <=> ~Has(cq, Held(b))

BuffersOK == \A b \in Buffers : BufferOK(b)

(* A step on neither the ring nor the completions.                            *)
LEMMA BuffersSame ==
  ASSUME BuffersOK, UNCHANGED <<ring, cq>>
  PROVE  BuffersOK'
BY DEF BuffersOK, BufferOK

(* A completion that holds no buffer joins.                                   *)
LEMMA BuffersAdd ==
  ASSUME Typing, BuffersOK, UNCHANGED ring, NEW e \in Cqes, e.tag # "read" \/ e.res = ENOBUFS,
         cq' = Append(cq, e)
  PROVE  BuffersOK'
<1>1. cq \in Seq(Cqes) /\ \A b \in Buffers : e \notin Held(b)
  BY DEF Typing, KernelTyped, Held
<1>2. \A b \in Buffers : (Has(cq', Held(b)) <=> Has(cq, Held(b))) /\ (Only(cq, Held(b)) => Only(cq', Held(b)))
  BY <1>1, AppendFacts
<1>. QED BY <1>2 DEF BuffersOK, BufferOK

(* The kernel moves the head of the ring into a completion of a receive.      *)
LEMMA BuffersReceived ==
  ASSUME Typing, BuffersOK, Buffered, NEW s \in Sockets, NEW r \in {"data", "end", "failed"}, Received(s, r)
  PROVE  BuffersOK'
<1>1. CASE cq' = Append(cq, Cqe("read", s, ENOBUFS)) /\ UNCHANGED ring
  <2>1. Cqe("read", s, ENOBUFS) \in Cqes /\ Cqe("read", s, ENOBUFS).res = ENOBUFS
    BY CqeFacts DEF Cqe
  <2>. QED BY <1>1, <2>1, BuffersAdd
<1>2. CASE ring # <<>> /\ cq' = Append(cq, [Cqe("read", s, r) EXCEPT !.bid = Head(ring)])
           /\ ring' = Tail(ring)
  <2> DEFINE e == [Cqe("read", s, r) EXCEPT !.bid = Head(ring)]
  <2>1. cq \in Seq(Cqes) /\ ring \in Seq(Buffers) /\ Head(ring) \in Buffers
    BY <1>2, TailFacts DEF Typing, KernelTyped
  <2>2. e \in Cqes
    BY <2>1, CqeFacts
  <2>3. e.tag = "read" /\ e.res # ENOBUFS /\ e.bid = Head(ring)
    BY DEF Cqe, ENOBUFS
  <2>4. cq' = Append(cq, e)
    BY <1>2
  <2> HIDE DEF e
  <2>5. ASSUME NEW b \in Buffers PROVE BufferOK(b)'
    <3>1. e \in Held(b) <=> b = Head(ring)
      BY <2>2, <2>3 DEF Held
    <3>2. BufferOK(b)
      BY DEF BuffersOK
    <3>3. /\ Has(cq', Held(b)) <=> Has(cq, Held(b)) \/ b = Head(ring)
          /\ (b = Head(ring) => ~Has(cq, Held(b))) => Only(cq', Held(b))
      BY <2>1, <2>2, <2>4, <3>1, <3>2, AppendFacts DEF BufferOK
    <3>4. /\ Has(ring, {b}) <=> b = Head(ring) \/ Has(ring', {b})
          /\ Only(ring', {b}) /\ (b = Head(ring) => ~Has(ring', {b}))
      <4>1. Head(ring) \in {b} <=> b = Head(ring)
        OBVIOUS
      <4>. QED BY <1>2, <2>1, <3>2, <4>1, TailFacts DEF BufferOK
    <3>. QED BY <3>2, <3>3, <3>4 DEF BufferOK
  <2>. QED BY <2>5 DEF BuffersOK
<1>. QED BY <1>1, <1>2 DEF Received, Buffered

(* The loop takes a completion and gives back the buffer it held.             *)
LEMMA BuffersTaken ==
  ASSUME Typing, BuffersOK, Reaps,
         IF Head(cq).tag = "read" THEN GiveBack(Head(cq).bid) ELSE UNCHANGED ring
  PROVE  BuffersOK'
<1> DEFINE e == Head(cq)
<1>1. e \in Cqes /\ cq \in Seq(Cqes) /\ cq # <<>> /\ cq' = Tail(cq) /\ e.res # ENOBUFS
      /\ e.bid \in Buffers /\ ring \in Seq(Buffers)
  BY Reaped1 DEF Typing, KernelTyped, Reaps
<1>2. IF e.tag = "read" THEN ring' = Append(ring, e.bid) ELSE ring' = ring
  BY DEF GiveBack
<1> HIDE DEF e
<1>3. ASSUME NEW b \in Buffers PROVE BufferOK(b)'
  <2>1. e \in Held(b) <=> e.tag = "read" /\ b = e.bid
    BY <1>1 DEF Held
  <2>2. BufferOK(b)
    BY DEF BuffersOK
  <2>3. /\ Has(cq, Held(b)) <=> e \in Held(b) \/ Has(cq', Held(b))
        /\ Only(cq', Held(b)) /\ (e \in Held(b) => ~Has(cq', Held(b)))
    BY <1>1, <2>2, TailFacts DEF BufferOK, e
  <2>4. CASE e.tag = "read"
    <3>1. e.bid \in {b} <=> b = e.bid
      OBVIOUS
    <3>2. ring' = Append(ring, e.bid) /\ Only(ring, {b})
      BY <1>2, <2>2, <2>4 DEF BufferOK
    <3>3. Has(ring', {b}) <=> Has(ring, {b}) \/ b = e.bid
      BY <1>1, <3>1, <3>2, AppendFacts
    <3>4. (b = e.bid => ~Has(ring, {b})) => Only(ring', {b})
      BY <1>1, <3>1, <3>2, AppendFacts
    <3>. QED BY <2>1, <2>2, <2>3, <2>4, <3>3, <3>4 DEF BufferOK
  <2>5. CASE e.tag # "read"
    BY <1>2, <2>1, <2>2, <2>3, <2>5 DEF BufferOK
  <2>. QED BY <2>4, <2>5
<1>. QED BY <1>3 DEF BuffersOK

(* Every step leaves each buffer in one place.                                *)
LEMMA BuffersStep ==
  ASSUME Typing, BuffersOK, Buffered, Next
  PROVE  BuffersOK'
<1>1. CASE UNCHANGED <<ring, cq>>
  BY <1>1, BuffersSame
<1>2. CASE Issue
  <2> DEFINE e == Head(sq)
  <2>1. e \in Sqes
    BY <1>2, TailFacts DEF Issue, Typing, LoopTyped
  <2>2. CASE e.op = "recv" /\ Received(e.s, "failed")
    <3>1. e.s \in Sockets
      BY <2>1, <2>2, SqeFacts DEF Ops
    <3>. QED BY <2>2, <3>1, BuffersReceived
  <2>3. CASE e.op = "send" /\ cq' = Append(cq, Cqe("write", e.s, "failed")) /\ UNCHANGED ring
    <3>1. e.s \in Sockets
      BY <2>1, <2>3, SqeFacts DEF Ops
    <3>2. Cqe("write", e.s, "failed") \in Cqes /\ Cqe("write", e.s, "failed").tag # "read"
      BY <3>1, CqeFacts DEF Cqe
    <3>. QED BY <2>3, <3>2, BuffersAdd
  <2> HIDE DEF e
  <2>. QED BY <1>1, <1>2, <2>2, <2>3 DEF Issue, Issued, e
<1>3. ASSUME NEW s \in Sockets, Accepts(s) PROVE BuffersOK'
  <2>1. ASSUME NEW d \in Dds, cq' = Append(cq, [Cqe("accept", s, "done") EXCEPT !.dd = d]) PROVE BuffersOK'
    <3>1. [Cqe("accept", s, "done") EXCEPT !.dd = d] \in Cqes /\ [Cqe("accept", s, "done") EXCEPT !.dd = d].tag # "read"
      BY CqeFacts DEF Cqe
    <3>. QED BY <1>3, <2>1, <3>1, BuffersAdd DEF Accepts
  <2>2. CASE cq' = Append(cq, Cqe("accept", s, "failed"))
    <3>1. Cqe("accept", s, "failed") \in Cqes /\ Cqe("accept", s, "failed").tag # "read"
      BY CqeFacts DEF Cqe
    <3>. QED BY <1>3, <2>2, <3>1, BuffersAdd DEF Accepts
  <2>. QED BY <1>3, <2>1, <2>2 DEF Accepts
<1>4. ASSUME NEW s \in Sockets, Connected(s) PROVE BuffersOK'
  <2>1. Cqe("connect", s, "done") \in Cqes /\ Cqe("connect", s, "done").tag # "read"
    BY CqeFacts DEF Cqe
  <2>. QED BY <1>4, <2>1, BuffersAdd DEF Connected
<1>5. ASSUME NEW r \in kernel.recvs, PeerSends(r) \/ PeerLeaves(r) PROVE BuffersOK'
  <2>1. r.s \in Sockets
    BY DEF Typing, KernelTyped, Uses
  <2>. QED BY <1>5, <2>1, BuffersReceived DEF PeerSends, PeerLeaves
<1>6. ASSUME NEW i \in DOMAIN kernel.sends, Sends(i) PROVE BuffersOK'
  <2>1. kernel.sends[i].s \in Sockets
    <3>1. kernel.sends \in Seq(Uses)
      BY DEF Typing, KernelTyped
    <3>2. kernel.sends[i] \in Uses
      BY <3>1
    <3>. QED BY <3>2 DEF Uses
  <2>2. Cqe("write", kernel.sends[i].s, "done") \in Cqes /\ Cqe("write", kernel.sends[i].s, "done").tag # "read"
    BY <2>1, CqeFacts DEF Cqe
  <2>. QED BY <1>6, <2>2, BuffersAdd DEF Sends
<1>7. CASE TimerExpires
  <2>1. Cqe("timer", None, "done") \in Cqes /\ Cqe("timer", None, "done").tag # "read"
    BY CqeFacts DEF Cqe
  <2>. QED BY <1>7, <2>1, BuffersAdd DEF TimerExpires
<1>8. CASE Reap
  <2>1. Reaps /\ IF Head(cq).tag = "read" THEN GiveBack(Head(cq).bid) ELSE UNCHANGED ring
    BY <1>8 DEF Reap, ReapAccept, ReapData, ReapEnd, ReapWrite, ReapConnect, ReapTimer, kernelVars
  <2>. QED BY <2>1, BuffersTaken
<1>9. CASE Listen \/ Run \/ Wakes \/ Drained \/ OutOfBuffers \/ SweepNext \/ SweepDone
           \/ \E s \in Sockets : ConnectFails(s) \/ Connect(s)
  <2>1. UNCHANGED <<ring, cq>>
    BY <1>9 DEF Listen, Run, Wakes, Drained, OutOfBuffers, SweepNext, SweepDone, ConnectFails, Connect, kernelVars
  <2>. QED BY <2>1, <1>1
<1>. QED BY <1>2, <1>3, <1>4, <1>5, <1>6, <1>7, <1>8, <1>9 DEF Next, LoopNext, KernelNext

(* At the start every buffer is in the ring.                                  *)
LEMMA BuffersInit ==
  ASSUME Init
  PROVE  BuffersOK
<1>1. NumBuffers \in Nat /\ ring = [i \in 1..NumBuffers |-> i - 1] /\ cq = <<>>
  BY SizesAssumption DEF Init
<1>2. ASSUME NEW b \in Buffers PROVE Only(ring, {b}) /\ Has(ring, {b})
  <2>1. b + 1 \in 1..NumBuffers /\ b \in Int /\ (b + 1) - 1 = b
    BY <1>1 DEF Buffers
  <2>2. Has(ring, {b})
    BY <1>1, <2>1 DEF Has
  <2>3. Only(ring, {b})
    BY <1>1 DEF Only
  <2>. QED BY <2>2, <2>3
<1>3. \A b \in Buffers : Only(cq, Held(b)) /\ ~Has(cq, Held(b))
  BY <1>1 DEF Only, Has
<1>. QED BY <1>2, <1>3 DEF BuffersOK, BufferOK

(* In a queue that holds at most one thing of S, the set of places where it   *)
(* is has one element or none.                                                *)
LEMMA OneIndex ==
  ASSUME NEW T, NEW q \in Seq(T), NEW S, Only(q, S)
  PROVE  Cardinality({i \in DOMAIN q : q[i] \in S}) = IF Has(q, S) THEN 1 ELSE 0
<1>1. CASE Has(q, S)
  <2>1. PICK k \in DOMAIN q : q[k] \in S
    BY <1>1 DEF Has
  <2>2. {i \in DOMAIN q : q[i] \in S} = {k}
    BY <2>1 DEF Only
  <2>. QED BY <1>1, <2>2, FS_Singleton
<1>2. CASE ~Has(q, S)
  <2>1. {i \in DOMAIN q : q[i] \in S} = {}
    BY <1>2 DEF Has
  <2>. QED BY <1>2, <2>1, FS_EmptySet
<1>. QED BY <1>1, <1>2

(* A buffer in one place is counted once.                                     *)
LEMMA BuffersCounted ==
  ASSUME Typing, BuffersOK
  PROVE  BuffersConserved
<1>1. SUFFICES ASSUME NEW b \in Buffers
               PROVE  Cardinality({i \in DOMAIN ring : ring[i] = b})
                        + Cardinality({i \in DOMAIN cq : cq[i].tag = "read" /\ cq[i].res # ENOBUFS
                                                         /\ cq[i].bid = b}) = 1
  BY DEF BuffersConserved
<1>2. ring \in Seq(Buffers) /\ cq \in Seq(Cqes) /\ BufferOK(b)
  BY DEF Typing, KernelTyped, BuffersOK
<1>3. {i \in DOMAIN ring : ring[i] = b} = {i \in DOMAIN ring : ring[i] \in {b}}
  OBVIOUS
<1>4. {i \in DOMAIN cq : cq[i].tag = "read" /\ cq[i].res # ENOBUFS /\ cq[i].bid = b}
        = {i \in DOMAIN cq : cq[i] \in Held(b)}
  BY <1>2 DEF Held
<1>5. Cardinality({i \in DOMAIN ring : ring[i] \in {b}}) = IF Has(ring, {b}) THEN 1 ELSE 0
  BY <1>2, OneIndex DEF BufferOK
<1>6. Cardinality({i \in DOMAIN cq : cq[i] \in Held(b)}) = IF Has(cq, Held(b)) THEN 1 ELSE 0
  BY <1>2, OneIndex DEF BufferOK
<1> DEFINE x == Cardinality({i \in DOMAIN ring : ring[i] = b})
           y == Cardinality({i \in DOMAIN cq : cq[i].tag = "read" /\ cq[i].res # ENOBUFS /\ cq[i].bid = b})
<1>7. x = IF Has(ring, {b}) THEN 1 ELSE 0
  BY ONLY <1>3, <1>5
<1>8. y = IF Has(cq, Held(b)) THEN 1 ELSE 0
  BY ONLY <1>4, <1>6
<1> HIDE DEF x, y
<1>9. x + y = 1
  BY <1>2, <1>7, <1>8 DEF BufferOK
<1>. QED BY <1>9 DEF x, y

(* Every receive buffer is in one place: waiting in the ring or held by one   *)
(* completion, for any number of buffers and sockets.                         *)
THEOREM BuffersStayInOnePlace ==
  ASSUME Buffered
  PROVE  Spec => []BuffersConserved
<1>1. Init => Typing /\ BuffersOK
  BY InitTyped, BuffersInit
<1>2. Typing /\ BuffersOK /\ [Next]_vars => (Typing /\ BuffersOK)'
  <2>1. ASSUME Typing, UNCHANGED vars PROVE Typing'
    BY <2>1 DEF Typing, KernelTyped, LoopTyped, vars
  <2>2. ASSUME BuffersOK, UNCHANGED vars PROVE BuffersOK'
    BY <2>2, BuffersSame DEF vars
  <2>. QED BY <2>1, <2>2, TypedStep, BuffersStep
<1>3. Typing /\ BuffersOK => BuffersConserved
  BY BuffersCounted
<1>. QED BY <1>1, <1>2, <1>3, PTL DEF Spec

-----------------------------------------------------------------------------
(* What is on its way for a socket.                                          *)

(* What is on its way for a socket: submissions of a kind, completions of a   *)
(* kind, the completion that ends its receive, the one that reports its       *)
(* accept at slot d, and its sends in the kernel.                             *)
Sub(op, x)  == {e \in Sqes : e.op = op /\ e.s = x}
Com(tag, x) == {e \in Cqes : e.tag = tag /\ e.s = x}
Final(x)    == {e \in Cqes : e.tag = "read" /\ e.s = x /\ e.res # "data"}
Took(x, d)  == {e \in Cqes : e.tag = "accept" /\ e.s = x /\ e.dd = d}
KSend(x)    == {u \in Uses : u.s = x}

(* An accept is reported once, and before the socket is used.                 *)
AcceptOK(x) ==
  /\ Only(cq, Com("accept", x))
  /\ Has(cq, Com("accept", x)) => sock[x].state = "unused" /\ peer[x].state # "away"
  /\ \A d \in Dds : Has(cq, Took(x, d)) => slots[d] = x

(* A connect is in one place.                                                 *)
ConnectOK(x) ==
  /\ Only(sq, Sub("connect", x)) /\ Only(cq, Com("connect", x))
  /\ Has(sq, Sub("connect", x)) => x \notin kernel.connects /\ ~Has(cq, Com("connect", x))
  /\ x \in kernel.connects => ~Has(cq, Com("connect", x))
  /\ Has(sq, Sub("connect", x)) \/ x \in kernel.connects \/ Has(cq, Com("connect", x))
       => sock[x].state = "linked"

(* So is a receive, and so the end of a socket is seen once.                  *)
Reading(x) == \E r \in kernel.recvs : r.s = x
RecvOK(x) ==
  /\ Only(sq, Sub("recv", x)) /\ Only(cq, Final(x))
  /\ \A r, t \in kernel.recvs : r.s = x /\ t.s = x => r = t
  /\ Has(sq, Sub("recv", x)) => ~Reading(x) /\ ~Has(cq, Final(x))
  /\ Reading(x) => ~Has(cq, Final(x))
  /\ Has(sq, Sub("recv", x)) \/ Reading(x) \/ Has(cq, Final(x)) => sock[x].state = "open"

CloseOK(x) ==
  /\ Only(sq, Sub("close", x))
  /\ Has(sq, Sub("close", x)) => sock[x].state = "closed"

(* Until its close is submitted, the slot a socket believes in is its own.    *)
Holding(x) ==
  \/ sock[x].state \in {"linked", "open"}
  \/ sock[x].state = "closed" /\ Has(sq, Sub("close", x))
HoldOK(x) == Holding(x) /\ sock[x].dd \in Dds => slots[sock[x].dd] = x

SocketOK(x) == AcceptOK(x) /\ ConnectOK(x) /\ RecvOK(x) /\ CloseOK(x) /\ HoldOK(x)

SlotOK(d) == slots[d] # None =>
  \/ sock[slots[d]].state = "unused" /\ Has(cq, Took(slots[d], d))
  \/ Holding(slots[d]) /\ sock[slots[d]].dd = d

(* Submissions name the slot of their socket.                                 *)
Other(x, d) == {e \in Sqes : e.op \in Ops /\ e.s = x /\ e.dd # d}
DdOK(x) == ~Has(sq, Other(x, sock[x].dd))

(* The program accepts or connects, not both.                                 *)
ModeOK ==
  /\ kernel.accept # "never" => numSockets = 0
  /\ kernel.accept = "never" =>
       \A x \in Sockets : sock[x].dd < numSockets /\ ~Has(cq, Com("accept", x))
  /\ Has(sq, Sub("accept", None)) => kernel.accept # "never"

-----------------------------------------------------------------------------
(* Steps that leave what is on its way for x.                                 *)
SameQueue(q, r, S) == (Has(r, S) <=> Has(q, S)) /\ (Only(q, S) => Only(r, S))

Kept(x) ==
  /\ sock'[x].state = sock[x].state /\ sock'[x].dd = sock[x].dd
  /\ peer[x].state # "away" => peer'[x].state # "away"
  /\ \A d \in Dds : slots[d] = x => slots'[d] = x
SameAccept(x) ==
  /\ SameQueue(cq, cq', Com("accept", x))
  /\ \A d \in Dds : SameQueue(cq, cq', Took(x, d))
SameConnect(x) ==
  /\ SameQueue(sq, sq', Sub("connect", x)) /\ SameQueue(cq, cq', Com("connect", x))
  /\ x \in kernel'.connects <=> x \in kernel.connects
SameRecv(x) ==
  /\ SameQueue(sq, sq', Sub("recv", x)) /\ SameQueue(cq, cq', Final(x))
  /\ \A r : r.s = x => (r \in kernel'.recvs <=> r \in kernel.recvs)
SameClose(x) == SameQueue(sq, sq', Sub("close", x))

(* What joins a queue leaves the rest of it alone.                            *)
LEMMA QueueAppend ==
  ASSUME NEW T, NEW q \in Seq(T), NEW e \in T
  PROVE  \A S : e \notin S => SameQueue(q, Append(q, e), S)
BY AppendFacts DEF SameQueue

(* So does what leaves it.                                                    *)
LEMMA QueueTail ==
  ASSUME NEW T, NEW q \in Seq(T), q # <<>>
  PROVE  \A S : Head(q) \notin S => SameQueue(q, Tail(q), S)
BY TailFacts DEF SameQueue

(* A queue that does not change.                                              *)
LEMMA QueueSame ==
  \A q, S : SameQueue(q, q, S)
BY DEF SameQueue

(* A submission concerns its own operation and socket only.                   *)
LEMMA SubAppend ==
  ASSUME NEW q \in Seq(Sqes), NEW e \in Sqes, sq' = Append(q, e)
  PROVE  \A op, x : e.op # op \/ e.s # x => SameQueue(q, sq', Sub(op, x))
<1>1. \A op, x : e.op # op \/ e.s # x => e \notin Sub(op, x)
  BY DEF Sub
<1>. QED BY <1>1, QueueAppend

(* So does one the kernel takes.                                              *)
LEMMA SubTail ==
  ASSUME sq \in Seq(Sqes), sq # <<>>, sq' = Tail(sq)
  PROVE  \A op, x : Head(sq).op # op \/ Head(sq).s # x => SameQueue(sq, sq', Sub(op, x))
<1>1. \A op, x : Head(sq).op # op \/ Head(sq).s # x => Head(sq) \notin Sub(op, x)
  BY DEF Sub
<1>. QED BY <1>1, QueueTail

(* A completion concerns its own kind and socket only, and data ends no       *)
(* receive.                                                                   *)
LEMMA ComAppend ==
  ASSUME cq \in Seq(Cqes), NEW e \in Cqes, cq' = Append(cq, e)
  PROVE  /\ \A tag, x : e.tag # tag \/ e.s # x => SameQueue(cq, cq', Com(tag, x))
         /\ \A x : e.tag # "read" \/ e.s # x \/ e.res = "data" => SameQueue(cq, cq', Final(x))
         /\ \A x, d : e.tag # "accept" \/ e.s # x => SameQueue(cq, cq', Took(x, d))
<1>1. \A tag, x : e.tag # tag \/ e.s # x => e \notin Com(tag, x)
  BY DEF Com
<1>2. \A x : e.tag # "read" \/ e.s # x \/ e.res = "data" => e \notin Final(x)
  BY DEF Final
<1>3. \A x, d : e.tag # "accept" \/ e.s # x => e \notin Took(x, d)
  BY DEF Took
<1>. QED BY <1>1, <1>2, <1>3, QueueAppend

(* So does one the loop takes.                                                *)
LEMMA ComTail ==
  ASSUME cq \in Seq(Cqes), cq # <<>>, cq' = Tail(cq)
  PROVE  /\ \A tag, x : Head(cq).tag # tag \/ Head(cq).s # x => SameQueue(cq, cq', Com(tag, x))
         /\ \A x : Head(cq).tag # "read" \/ Head(cq).s # x \/ Head(cq).res = "data" => SameQueue(cq, cq', Final(x))
         /\ \A x, d : Head(cq).tag # "accept" \/ Head(cq).s # x => SameQueue(cq, cq', Took(x, d))
<1> DEFINE e == Head(cq)
<1>1. \A tag, x : e.tag # tag \/ e.s # x => e \notin Com(tag, x)
  BY DEF Com
<1>2. \A x : e.tag # "read" \/ e.s # x \/ e.res = "data" => e \notin Final(x)
  BY DEF Final
<1>3. \A x, d : e.tag # "accept" \/ e.s # x => e \notin Took(x, d)
  BY DEF Took
<1>. QED BY <1>1, <1>2, <1>3, QueueTail

(* The accept of a socket that a step leaves alone.                           *)
LEMMA AcceptSame ==
  ASSUME NEW x \in Sockets, AcceptOK(x), Kept(x), SameAccept(x)
  PROVE  AcceptOK(x)'
BY DEF AcceptOK, Kept, SameAccept, SameQueue

(* Its connect.                                                               *)
LEMMA ConnectSame ==
  ASSUME NEW x \in Sockets, ConnectOK(x), Kept(x), SameConnect(x)
  PROVE  ConnectOK(x)'
BY DEF ConnectOK, Kept, SameConnect, SameQueue

(* Its receive.                                                               *)
LEMMA RecvSame ==
  ASSUME NEW x \in Sockets, RecvOK(x), Kept(x), SameRecv(x)
  PROVE  RecvOK(x)'
<1>1. Reading(x)' <=> Reading(x)
  BY DEF SameRecv, Reading
<1>. QED BY <1>1 DEF RecvOK, Kept, SameRecv, SameQueue

(* Its close.                                                                 *)
LEMMA CloseSame ==
  ASSUME NEW x \in Sockets, CloseOK(x), Kept(x), SameClose(x)
  PROVE  CloseOK(x)'
BY DEF CloseOK, Kept, SameClose, SameQueue

(* The slot it believes in.                                                   *)
LEMMA HoldSame ==
  ASSUME NEW x \in Sockets, HoldOK(x), Kept(x), SameClose(x)
  PROVE  HoldOK(x)'
BY DEF HoldOK, Holding, Kept, SameClose, SameQueue

(* The socket a slot names, if the slot and what is on its way for the socket *)
(* stay.                                                                      *)
LEMMA SlotSame ==
  ASSUME NEW d \in Dds, SlotOK(d), slots'[d] = slots[d],
         slots[d] # None => Kept(slots[d]) /\ SameAccept(slots[d]) /\ SameClose(slots[d])
  PROVE  SlotOK(d)'
<1> DEFINE x == slots[d]
<1>1. x # None => (Has(sq', Sub("close", x)) <=> Has(sq, Sub("close", x)))
  BY DEF SameClose, SameQueue
<1>2. x # None => (Has(cq', Took(x, d)) <=> Has(cq, Took(x, d)))
  BY DEF SameAccept, SameQueue
<1>3. x # None => sock'[x].state = sock[x].state /\ sock'[x].dd = sock[x].dd
  BY DEF Kept
<1>4. x = slots'[d]
  OBVIOUS
<1> HIDE DEF x
<1>5. x # None =>
        \/ sock[x].state = "unused" /\ Has(cq, Took(x, d))
        \/ Holding(x) /\ sock[x].dd = d
  BY DEF SlotOK, x
<1>6. x # None =>
        \/ sock'[x].state = "unused" /\ Has(cq', Took(x, d))
        \/ /\ \/ sock'[x].state \in {"linked", "open"}
              \/ sock'[x].state = "closed" /\ Has(sq', Sub("close", x))
           /\ sock'[x].dd = d
  BY <1>1, <1>2, <1>3, <1>5 DEF Holding
<1>. QED BY <1>4, <1>6 DEF SlotOK, Holding

(* Every socket and every slot.                                               *)
SlotsOK == (\A x \in Sockets : SocketOK(x)) /\ (\A d \in Dds : SlotOK(d))

(* A step that leaves the slots and what is on its way for every socket.      *)
LEMMA SlotsSame ==
  ASSUME Typing, SlotsOK, UNCHANGED slots,
         \A x \in Sockets : Kept(x) /\ SameAccept(x) /\ SameConnect(x) /\ SameRecv(x) /\ SameClose(x)
  PROVE  SlotsOK'
<1>1. ASSUME NEW x \in Sockets PROVE SocketOK(x)'
  BY <1>1, AcceptSame, ConnectSame, RecvSame, CloseSame, HoldSame DEF SlotsOK, SocketOK
<1>2. ASSUME NEW d \in Dds PROVE SlotOK(d)'
  <2>1. slots[d] \in Sockets \cup {None}
    BY DEF Typing, KernelTyped
  <2>. QED BY <2>1, <1>2, SlotSame DEF SlotsOK
<1>. QED BY <1>1, <1>2 DEF SlotsOK

(* What a handler may do to what is on its way, and to its socket.            *)
LEMMA HandlerFrame ==
  ASSUME NEW s \in Sockets, NEW was \in [Sockets -> Socks], NEW queue \in Seq(Sqes),
         Handler(s, was, queue)
  PROVE  /\ \A x \in Sockets : sock'[x].state = was[x].state /\ sock'[x].dd = was[x].dd
         /\ \A op, x : op # "send" => SameQueue(queue, sq', Sub(op, x))
<1>1. was[s].dd \in Int
  BY SockFacts
<1>2. CASE sq' = queue /\ sock' = was
  BY <1>2, QueueSame
<1>3. CASE /\ sq' = Append(queue, [op |-> "send", s |-> s, dd |-> was[s].dd])
           /\ sock' = [was EXCEPT ![s].wrote = @ + 1]
  <2>1. [op |-> "send", s |-> s, dd |-> was[s].dd] \in Sqes
    BY <1>1, SqeFacts DEF Ops
  <2>2. \A op, x : op # "send" => SameQueue(queue, sq', Sub(op, x))
    BY <1>3, <2>1, SubAppend
  <2>. QED BY <1>3, <2>2
<1>4. CASE (\E t \in BOOLEAN : sock' = [was EXCEPT ![s].timed = t]) /\ sq' = queue
  BY <1>4, QueueSame
<1>. QED BY <1>2, <1>3, <1>4 DEF Handler

-----------------------------------------------------------------------------
(* Steps that move none of it.                                               *)

(* An unused socket is as Init made it and nothing is on its way for it.      *)
FreshOK(x) == sock[x].state = "unused" =>
  /\ sock[x] = Fresh
  /\ ~Has(sq, Sub("send", x)) /\ ~Has(cq, Com("read", x))

Named == \A x \in Sockets : DdOK(x) /\ FreshOK(x)

(* The parts of a frame, for one socket.                                      *)
SockKept(x) == sock'[x].state = sock[x].state /\ sock'[x].dd = sock[x].dd
SqKept(x)   == \A op \in {"connect", "recv", "close"} : SameQueue(sq, sq', Sub(op, x))
CqKept(x) ==
  /\ SameQueue(cq, cq', Com("accept", x)) /\ SameQueue(cq, cq', Com("connect", x))
  /\ SameQueue(cq, cq', Final(x))
  /\ \A d \in Dds : SameQueue(cq, cq', Took(x, d))
KernelKept(x) ==
  /\ x \in kernel'.connects <=> x \in kernel.connects
  /\ \A r : r.s = x => (r \in kernel'.recvs <=> r \in kernel.recvs)
Calm(x) == SockKept(x) /\ SqKept(x) /\ CqKept(x) /\ KernelKept(x)

(* A socket that a step leaves calm keeps what is on its way.                 *)
LEMMA CalmFrame ==
  ASSUME NEW x \in Sockets, Calm(x), UNCHANGED slots,
         peer[x].state # "away" => peer'[x].state # "away"
  PROVE  Kept(x) /\ SameAccept(x) /\ SameConnect(x) /\ SameRecv(x) /\ SameClose(x)
BY DEF Calm, SockKept, SqKept, CqKept, KernelKept, Kept, SameAccept, SameConnect, SameRecv, SameClose

(* No completion comes or goes.                                               *)
LEMMA CqSame ==
  \A x : UNCHANGED cq => CqKept(x)
BY QueueSame DEF CqKept

(* No submission comes or goes.                                               *)
LEMMA SqSame ==
  \A x : UNCHANGED sq => SqKept(x)
BY QueueSame DEF SqKept

(* A completion that is added concerns one socket at most.                    *)
LEMMA CqAdded ==
  ASSUME Typing, NEW e \in Cqes, cq' = Append(cq, e)
  PROVE  /\ \A x : e.s # x => CqKept(x)
         /\ \A x : e.tag \in {"write", "timer"} \/ (e.tag = "read" /\ e.res = "data") => CqKept(x)
<1>1. cq \in Seq(Cqes)
  BY DEF Typing, KernelTyped
<1>. QED BY <1>1, ComAppend DEF CqKept

(* A completion the loop takes concerns one socket at most.                   *)
LEMMA CqTaken ==
  ASSUME Typing, Reaps
  PROVE  /\ \A x : Head(cq).s # x => CqKept(x)
         /\ \A x : Head(cq).tag \in {"write", "timer"} \/ (Head(cq).tag = "read" /\ Head(cq).res = "data") => CqKept(x)
<1>1. cq \in Seq(Cqes) /\ cq # <<>> /\ cq' = Tail(cq)
  BY DEF Typing, KernelTyped, Reaps
<1>. QED BY <1>1, ComTail DEF CqKept

(* Received adds one completion of a read of s.                               *)
LEMMA ReceivedAdds ==
  ASSUME Typing, NEW s \in Sockets, NEW r \in {"data", "end", "failed"}, Received(s, r)
  PROVE  \E e \in Cqes : /\ cq' = Append(cq, e) /\ e.tag = "read" /\ e.s = s
                         /\ e.res = "data" <=> r = "data" /\ ring # <<>>
<1>1. \A x \in {r, ENOBUFS} : /\ Cqe("read", s, x) \in Cqes
                              /\ \A b \in Buffers : [Cqe("read", s, x) EXCEPT !.bid = b] \in Cqes
  BY CqeFacts
<1>2. CASE cq' = Append(cq, Cqe("read", s, r)) /\ r # "data"
  BY <1>1, <1>2 DEF Cqe
<1>3. CASE cq' = Append(cq, Cqe("read", s, ENOBUFS)) /\ ring = <<>>
  BY <1>1, <1>3 DEF Cqe, ENOBUFS
<1>4. CASE cq' = Append(cq, [Cqe("read", s, r) EXCEPT !.bid = Head(ring)]) /\ ring # <<>>
  <2> DEFINE e == [Cqe("read", s, r) EXCEPT !.bid = Head(ring)]
  <2>1. Head(ring) \in Buffers
    BY <1>4 DEF Typing, KernelTyped
  <2>2. e \in Cqes
    BY <1>1, <2>1
  <2>3. e.tag = "read" /\ e.s = s /\ e.res = r
    BY DEF Cqe
  <2>. QED BY <1>4, <2>2, <2>3
<1>. QED BY <1>2, <1>3, <1>4 DEF Received

(* A step that leaves every socket calm.                                      *)
LEMMA SlotsCalm ==
  ASSUME Typing, SlotsOK, UNCHANGED <<slots, peer>>, \A x \in Sockets : Calm(x)
  PROVE  SlotsOK'
BY SlotsSame, CalmFrame

(* A handler submits no connect, receive or close.                            *)
LEMMA HandlerCalm ==
  ASSUME Typing, NEW s \in Sockets, NEW was \in [Sockets -> Socks], Handler(s, was, sq)
  PROVE  \A x \in Sockets :
           SqKept(x) /\ (was[x].state = sock[x].state /\ was[x].dd = sock[x].dd => SockKept(x))
<1>1. sq \in Seq(Sqes)
  BY DEF Typing, LoopTyped
<1>. QED BY <1>1, HandlerFrame DEF SqKept, SockKept

(* Setting the timers of a socket changes neither its state nor its slot.     *)
LEMMA TimedAgain ==
  ASSUME Typing, NEW s \in Sockets, NEW t \in BOOLEAN
  PROVE  /\ [sock EXCEPT ![s].timed = t] \in [Sockets -> Socks]
         /\ \A x \in Sockets : LET y == [sock EXCEPT ![s].timed = t][x] IN
              y.state = sock[x].state /\ y.dd = sock[x].dd /\ y.wrote = sock[x].wrote
<1>1. sock \in [Sockets -> Socks] /\ sock[s] \in Socks
  BY DEF Typing, LoopTyped
<1>2. [sock[s] EXCEPT !.timed = t] \in Socks
  BY <1>1, SockFacts
<1>3. /\ [sock[s] EXCEPT !.timed = t].state = sock[s].state
      /\ [sock[s] EXCEPT !.timed = t].dd = sock[s].dd
      /\ [sock[s] EXCEPT !.timed = t].wrote = sock[s].wrote
  BY <1>1 DEF Socks
<1>. QED BY <1>1, <1>2, <1>3

(* Steps that move neither an accept, nor a connect, a receive or a close.    *)
LEMMA CalmSteps ==
  ASSUME Typing, SlotsOK,
         \/ Listen \/ Run \/ Wakes \/ Drained \/ OutOfBuffers \/ SweepNext \/ SweepDone
         \/ ReapData \/ ReapWrite \/ ReapTimer
         \/ TimerExpires \/ \E i \in DOMAIN kernel.sends : Sends(i)
  PROVE  SlotsOK'
<1>1. sq \in Seq(Sqes) /\ sock \in [Sockets -> Socks] /\ cq \in Seq(Cqes)
  BY DEF Typing, LoopTyped, KernelTyped
<1>2. \A x \in Sockets : UNCHANGED kernel => KernelKept(x)
  BY DEF KernelKept
<1>3. \A x \in Sockets : UNCHANGED sock => SockKept(x)
  BY DEF SockKept
<1>4. ASSUME NEW e \in Sqes, sq' = Append(sq, e), e.op \in {"accept", "read_timer"}
      PROVE  \A x \in Sockets : SqKept(x)
  BY <1>1, <1>4, SubAppend DEF SqKept
<1>5. CASE Listen
  <2>1. \A x \in Sockets : SqKept(x)
    BY <1>4, <1>5, SqeFacts DEF Listen
  <2>2. \A x \in Sockets : KernelKept(x)
    <3>1. kernel'.connects = kernel.connects /\ kernel'.recvs = kernel.recvs
      BY <1>5 DEF Listen, Typing, KernelTyped
    <3>. QED BY <3>1 DEF KernelKept
  <2>. QED BY <1>3, <1>5, <2>1, <2>2, CqSame, SlotsCalm DEF Listen, Calm
<1>6. CASE Run
  <2>1. \A x \in Sockets : SqKept(x)
    BY <1>4, <1>6, SqeFacts DEF Run
  <2>. QED BY <1>2, <1>3, <1>6, <2>1, CqSame, SlotsCalm DEF Run, Calm, kernelVars
<1>7. CASE Wakes \/ Drained \/ OutOfBuffers
  BY <1>2, <1>3, <1>7, SqSame, CqSame, SlotsCalm DEF Wakes, Drained, OutOfBuffers, Calm, kernelVars
<1>8. CASE SweepNext
  <2>1. Head(rest) \in Sockets
    BY <1>8, TailFacts DEF SweepNext, Typing, LoopTyped
  <2>2. \A x \in Sockets : SqKept(x) /\ SockKept(x)
    <3>1. CASE UNCHANGED <<sq, sock, buf>>
      BY <1>3, <3>1, SqSame
    <3>2. ASSUME NEW t \in BOOLEAN, Handler(Head(rest), [sock EXCEPT ![Head(rest)].timed = t], sq)
          PROVE  \A x \in Sockets : SqKept(x) /\ SockKept(x)
      <4> DEFINE was == [sock EXCEPT ![Head(rest)].timed = t]
      <4>1. /\ was \in [Sockets -> Socks]
            /\ \A x \in Sockets : was[x].state = sock[x].state /\ was[x].dd = sock[x].dd
        BY <2>1, TimedAgain
      <4>2. Handler(Head(rest), was, sq)
        BY <3>2
      <4> HIDE DEF was
      <4>. QED BY <2>1, <4>1, <4>2, HandlerCalm
    <3>. QED BY <1>8, <3>1, <3>2 DEF SweepNext
  <2>. QED BY <1>2, <1>8, <2>2, CqSame, SlotsCalm DEF SweepNext, Calm, kernelVars
<1>9. CASE SweepDone
  <2>1. \A x \in Sockets : SqKept(x)
    BY <1>4, <1>9, SqeFacts DEF SweepDone
  <2>. QED BY <1>2, <1>3, <1>9, <2>1, CqSame, SlotsCalm DEF SweepDone, Calm, kernelVars
<1>10. CASE ReapData
  <2>1. Reaps /\ Head(cq).tag = "read" /\ Head(cq).res = "data" /\ Handler(Head(cq).s, sock, sq)
        /\ UNCHANGED <<kernel, slots, peer>>
    BY <1>10 DEF ReapData
  <2>2. Head(cq).s \in Sockets
    BY <2>1, Reaped1
  <2>3. \A x \in Sockets : SqKept(x) /\ SockKept(x)
    BY <1>1, <2>1, <2>2, HandlerCalm
  <2>. QED BY <1>2, <2>1, <2>3, CqTaken, SlotsCalm DEF Calm
<1>11. CASE ReapWrite \/ ReapTimer
  BY <1>2, <1>3, <1>11, SqSame, CqTaken, SlotsCalm DEF ReapWrite, ReapTimer, Calm, kernelVars
<1>12. CASE TimerExpires
  <2>1. Cqe("timer", None, "done") \in Cqes /\ Cqe("timer", None, "done").tag = "timer"
    BY CqeFacts DEF Cqe
  <2>2. \A x : CqKept(x)
    BY <1>12, <2>1, CqAdded DEF TimerExpires
  <2>3. \A x \in Sockets : KernelKept(x)
    <3>1. kernel'.connects = kernel.connects /\ kernel'.recvs = kernel.recvs
      BY <1>12 DEF TimerExpires, Typing, KernelTyped
    <3>. QED BY <3>1 DEF KernelKept
  <2>. QED BY <1>3, <1>12, <2>2, <2>3, SqSame, SlotsCalm DEF TimerExpires, Calm
<1>13. ASSUME NEW i \in DOMAIN kernel.sends, Sends(i) PROVE SlotsOK'
  <2>1. kernel.sends[i].s \in Sockets
    <3>1. kernel.sends \in Seq(Uses)
      BY DEF Typing, KernelTyped
    <3>2. kernel.sends[i] \in Uses
      BY <3>1
    <3>. QED BY <3>2 DEF Uses
  <2>2. Cqe("write", kernel.sends[i].s, "done") \in Cqes /\ Cqe("write", kernel.sends[i].s, "done").tag = "write"
    BY <2>1, CqeFacts DEF Cqe
  <2>3. \A x : CqKept(x)
    BY <1>13, <2>2, CqAdded DEF Sends
  <2>4. \A x \in Sockets : KernelKept(x)
    <3>1. kernel'.connects = kernel.connects /\ kernel'.recvs = kernel.recvs
      BY <1>13 DEF Sends, Typing, KernelTyped
    <3>. QED BY <3>1 DEF KernelKept
  <2>. QED BY <1>3, <1>13, <2>3, <2>4, SqSame, SlotsCalm DEF Sends, Calm
<1>. QED BY <1>5, <1>6, <1>7, <1>8, <1>9, <1>10, <1>11, <1>12, <1>13

-----------------------------------------------------------------------------
(* Connects and receives are submitted.                                      *)

(* A step on one socket s, and on the slots it takes or gives up.             *)
LEMMA SlotsChange ==
  ASSUME Typing, SlotsOK, NEW s \in Sockets,
         \A x \in Sockets \ {s} : Kept(x) /\ SameAccept(x) /\ SameConnect(x) /\ SameRecv(x) /\ SameClose(x),
         SocketOK(s)',
         \A d \in Dds : slots'[d] # slots[d] \/ slots[d] = s => SlotOK(d)'
  PROVE  SlotsOK'
<1>1. ASSUME NEW x \in Sockets PROVE SocketOK(x)'
  BY <1>1, AcceptSame, ConnectSame, RecvSame, CloseSame, HoldSame DEF SlotsOK, SocketOK
<1>2. ASSUME NEW d \in Dds PROVE SlotOK(d)'
  <2>1. slots[d] \in Sockets \cup {None}
    BY DEF Typing, KernelTyped
  <2>. QED BY <2>1, <1>2, SlotSame DEF SlotsOK
<1>. QED BY <1>1, <1>2 DEF SlotsOK

(* A connect or a receive of s moves on.                                      *)
LEMMA SlotsMove ==
  ASSUME Typing, SlotsOK, UNCHANGED slots, NEW s \in Sockets,
         \A x \in Sockets : Kept(x) /\ SameAccept(x) /\ SameClose(x),
         \A x \in Sockets \ {s} : SameConnect(x) /\ SameRecv(x),
         ConnectOK(s)', RecvOK(s)'
  PROVE  SlotsOK'
<1>1. SocketOK(s)'
  BY AcceptSame, CloseSame, HoldSame DEF SlotsOK, SocketOK
<1>2. ASSUME NEW d \in Dds, slots[d] = s PROVE SlotOK(d)'
  BY <1>2, SlotSame DEF SlotsOK
<1>. QED BY <1>1, <1>2, SlotsChange

(* The other submissions of the queue.                                        *)
LEMMA SqTaken ==
  ASSUME Typing, sq # <<>>, sq' = Tail(sq)
  PROVE  /\ \A op, x : Head(sq).op # op \/ Head(sq).s # x => SameQueue(sq, sq', Sub(op, x))
         /\ \A S : Has(sq, S) <=> Head(sq) \in S \/ Has(sq', S)
         /\ \A S : Only(sq, S) => Only(sq', S) /\ (Head(sq) \in S => ~Has(sq', S))
         /\ \A x : Head(sq) \in Sub(Head(sq).op, Head(sq).s)
<1>1. sq \in Seq(Sqes)
  BY DEF Typing, LoopTyped
<1>2. Head(sq) \in Sqes
  BY <1>1, TailFacts
<1>3. Head(sq) \in Sub(Head(sq).op, Head(sq).s)
  BY <1>2 DEF Sub
<1>. QED BY <1>1, <1>3, SubTail, TailFacts

(* The queue of completions after one joins.                                  *)
LEMMA CqAdds ==
  ASSUME Typing, NEW e \in Cqes, cq' = Append(cq, e)
  PROVE  /\ \A S : Has(cq', S) <=> Has(cq, S) \/ e \in S
         /\ \A S : Only(cq, S) /\ (e \in S => ~Has(cq, S)) => Only(cq', S)
         /\ \A tag, x : e.tag # tag \/ e.s # x => SameQueue(cq, cq', Com(tag, x))
         /\ \A x : e.tag # "read" \/ e.s # x \/ e.res = "data" => SameQueue(cq, cq', Final(x))
         /\ \A x, d : e.tag # "accept" \/ e.s # x => SameQueue(cq, cq', Took(x, d))
<1>1. cq \in Seq(Cqes)
  BY DEF Typing, KernelTyped
<1>. QED BY <1>1, AppendFacts, ComAppend

(* And after the loop takes one.                                              *)
LEMMA CqTakes ==
  ASSUME Typing, Reaps
  PROVE  /\ \A S : Has(cq, S) <=> Head(cq) \in S \/ Has(cq', S)
         /\ \A S : Only(cq, S) => Only(cq', S) /\ (Head(cq) \in S => ~Has(cq', S))
         /\ \A tag, x : Head(cq).tag # tag \/ Head(cq).s # x => SameQueue(cq, cq', Com(tag, x))
         /\ \A x : Head(cq).tag # "read" \/ Head(cq).s # x \/ Head(cq).res = "data" => SameQueue(cq, cq', Final(x))
         /\ \A x, d : Head(cq).tag # "accept" \/ Head(cq).s # x => SameQueue(cq, cq', Took(x, d))
<1>1. cq \in Seq(Cqes) /\ cq # <<>> /\ cq' = Tail(cq)
  BY DEF Typing, KernelTyped, Reaps
<1>. QED BY <1>1, TailFacts, ComTail

(* A connect goes from the queue to the kernel.                               *)
LEMMA ConnectIssued ==
  ASSUME Typing, SlotsOK, Issue, Head(sq).op = "connect", NEW s \in Sockets, Head(sq).s = s
  PROVE  SlotsOK'
<1>1. /\ sq # <<>> /\ sq' = Tail(sq) /\ UNCHANGED <<cq, slots, sock, peer>>
      /\ kernel'.connects = kernel.connects \cup {s} /\ kernel'.recvs = kernel.recvs
  BY DEF Issue, Issued, Typing, KernelTyped
<1>2. s \in Sockets
  OBVIOUS
<1>3. \A x \in Sockets : Kept(x) /\ SameAccept(x) /\ SameClose(x)
  BY <1>1, SqTaken, QueueSame DEF Kept, SameAccept, SameClose
<1>4. \A x \in Sockets : SameRecv(x)
  BY <1>1, SqTaken, QueueSame DEF SameRecv
<1>5. \A x \in Sockets \ {s} : SameConnect(x)
  BY <1>1, SqTaken, QueueSame DEF SameConnect
<1>6. ConnectOK(s)'
  <2>1. ConnectOK(s) /\ Head(sq) \in Sub("connect", s)
    BY <1>1, <1>2, SqTaken DEF SlotsOK, SocketOK
  <2>2. Only(sq', Sub("connect", s)) /\ ~Has(sq', Sub("connect", s)) /\ Has(sq, Sub("connect", s))
    BY <1>1, <2>1, SqTaken DEF ConnectOK
  <2>. QED BY <1>1, <2>1, <2>2 DEF ConnectOK
<1>7. RecvOK(s)'
  BY <1>2, <1>3, <1>4, RecvSame DEF SlotsOK, SocketOK
<1>. QED BY <1>1, <1>2, <1>3, <1>4, <1>5, <1>6, <1>7, SlotsMove

(* A receive goes from the queue to the kernel or, with nobody at the other   *)
(* end, straight to its last completion.                                      *)
LEMMA RecvIssued ==
  ASSUME Typing, SlotsOK, Issue, Head(sq).op = "recv", NEW s \in Sockets, Head(sq).s = s
  PROVE  SlotsOK'
<1>1. sq # <<>> /\ sq' = Tail(sq) /\ UNCHANGED <<slots, sock, peer>> /\ kernel'.connects = kernel.connects
  BY DEF Issue, Issued, Typing, KernelTyped
<1>2. s \in Sockets
  OBVIOUS
<1>3. RecvOK(s) /\ Head(sq) \in Sub("recv", s)
  BY <1>1, <1>2, SqTaken DEF SlotsOK, SocketOK
<1>4. Only(sq', Sub("recv", s)) /\ ~Has(sq', Sub("recv", s)) /\ Has(sq, Sub("recv", s))
  BY <1>1, <1>3, SqTaken DEF RecvOK
<1>5. \/ UNCHANGED cq /\ \E r : r.s = s /\ kernel'.recvs = kernel.recvs \cup {r}
      \/ /\ UNCHANGED kernel
         /\ \E e \in Cqes : cq' = Append(cq, e) /\ e.tag = "read" /\ e.s = s /\ e.res # "data"
  <2> DEFINE conn == IF Head(sq).dd \in Dds THEN slots[Head(sq).dd] ELSE None
  <2>1. CASE UNCHANGED cq /\ kernel' = [kernel EXCEPT !.recvs = @ \cup {[s |-> s, conn |-> conn]}]
    BY <2>1 DEF Typing, KernelTyped
  <2>2. CASE Received(s, "failed") /\ UNCHANGED kernel
    <3>1. PICK e \in Cqes : cq' = Append(cq, e) /\ e.tag = "read" /\ e.s = s /\ e.res # "data"
      BY <1>2, <2>2, ReceivedAdds
    <3>. QED BY <2>2, <3>1
  <2>. QED BY <2>1, <2>2 DEF Issue, Issued
<1>6. /\ \A x \in Sockets : Kept(x) /\ SameAccept(x) /\ SameClose(x) /\ SameConnect(x)
      /\ \A x \in Sockets \ {s} : SameRecv(x)
      /\ RecvOK(s)'
  <2>1. ASSUME UNCHANGED cq, NEW r, r.s = s, kernel'.recvs = kernel.recvs \cup {r}
        PROVE  <1>6!:
    <3>1. \A x \in Sockets : Kept(x) /\ SameAccept(x) /\ SameClose(x) /\ SameConnect(x)
      BY <1>1, <2>1, SqTaken, QueueSame DEF Kept, SameAccept, SameClose, SameConnect
    <3>2. \A x \in Sockets \ {s} : SameRecv(x)
      BY <1>1, <2>1, SqTaken, QueueSame DEF SameRecv
    <3>3. Reading(s)' /\ ~Reading(s)
      BY <1>3, <1>4, <2>1 DEF RecvOK, Reading
    <3>4. \A q, t \in kernel'.recvs : q.s = s /\ t.s = s => q = t
      BY <2>1, <3>3 DEF Reading
    <3>5. RecvOK(s)'
      BY <1>1, <1>3, <1>4, <2>1, <3>4 DEF RecvOK
    <3>. QED BY <3>1, <3>2, <3>5
  <2>2. ASSUME UNCHANGED kernel, NEW e \in Cqes, cq' = Append(cq, e), e.tag = "read", e.s = s, e.res # "data"
        PROVE  <1>6!:
    <3>1. \A x \in Sockets : Kept(x) /\ SameAccept(x) /\ SameClose(x) /\ SameConnect(x)
      BY <1>1, <2>2, SqTaken, CqAdds DEF Kept, SameAccept, SameClose, SameConnect
    <3>2. \A x \in Sockets \ {s} : SameRecv(x)
      BY <1>1, <2>2, SqTaken, CqAdds DEF SameRecv
    <3>3. ~Reading(s)' /\ ~Has(cq, Final(s)) /\ sock[s].state = "open"
      BY <1>3, <1>4, <2>2 DEF RecvOK, Reading
    <3>4. Only(cq', Final(s))
      BY <1>3, <2>2, <3>3, CqAdds DEF RecvOK
    <3>5. RecvOK(s)'
      BY <1>1, <1>3, <1>4, <2>2, <3>3, <3>4 DEF RecvOK, Reading
    <3>. QED BY <3>1, <3>2, <3>5
  <2>. QED BY <1>5, <2>1, <2>2
<1>7. ConnectOK(s)'
  BY <1>2, <1>6, ConnectSame DEF SlotsOK, SocketOK
<1>. QED BY <1>1, <1>2, <1>6, <1>7, SlotsMove

-----------------------------------------------------------------------------
(* Closes are submitted, and the kernel answers.                             *)

(* The head of the queue names the slot of its socket.                        *)
LEMMA HeadNames ==
  ASSUME Typing, sq # <<>>, NEW s \in Sockets, Head(sq).s = s, Head(sq).op \in Ops, DdOK(s)
  PROVE  Head(sq).dd = sock[s].dd
<1>1. sq \in Seq(Sqes)
  BY DEF Typing, LoopTyped
<1>2. Head(sq) \in Sqes /\ \A S : Head(sq) \in S => Has(sq, S)
  BY <1>1, TailFacts
<1>. QED BY <1>2 DEF DdOK, Other

(* A close frees the slot of its own socket: the slot in the submission is    *)
(* still that socket's.                                                       *)
LEMMA CloseIssued ==
  ASSUME Typing, SlotsOK, Issue, Head(sq).op = "close", NEW s \in Sockets, Head(sq).s = s, DdOK(s)
  PROVE  SlotsOK'
<1> DEFINE d0 == sock[s].dd
<1>1. /\ sq # <<>> /\ sq' = Tail(sq) /\ UNCHANGED <<cq, kernel, sock, peer>>
      /\ Head(sq).dd = d0
      /\ slots' = IF (IF d0 \in Dds THEN slots[d0] ELSE None) = None THEN slots ELSE [slots EXCEPT ![d0] = None]
  <2>1. Head(sq).dd = d0
    BY HeadNames DEF Issue, Ops
  <2>. QED BY <2>1 DEF Issue, Issued
<1>2. SocketOK(s) /\ slots \in [Dds -> Sockets \cup {None}]
  BY DEF SlotsOK, Typing, KernelTyped
<1>3. /\ Head(sq) \in Sub("close", s) /\ Has(sq, Sub("close", s)) /\ ~Has(sq', Sub("close", s))
      /\ Only(sq', Sub("close", s)) /\ sock[s].state = "closed"
  BY <1>1, <1>2, SqTaken DEF SocketOK, CloseOK
<1>4. d0 \in Dds => slots[d0] = s /\ slots' = [slots EXCEPT ![d0] = None]
  BY <1>1, <1>2, <1>3, SocketsAssumption DEF SocketOK, HoldOK, Holding, None
<1>5. d0 \notin Dds => slots' = slots
  BY <1>1
<1> HIDE DEF d0
<1>6. \A d \in Dds : slots'[d] # slots[d] => slots[d] = s /\ slots'[d] = None
  BY <1>2, <1>4, <1>5
<1>7. ASSUME NEW x \in Sockets \ {s}
      PROVE  Kept(x) /\ SameAccept(x) /\ SameConnect(x) /\ SameRecv(x) /\ SameClose(x)
  <2>1. \A d \in Dds : slots[d] = x => slots'[d] = x
    BY <1>6
  <2>. QED BY <1>1, <2>1, SqTaken, QueueSame DEF Kept, SameAccept, SameConnect, SameRecv, SameClose
<1>8. SocketOK(s)'
  <2>1. SameConnect(s) /\ SameRecv(s)
    BY <1>1, SqTaken, QueueSame DEF SameConnect, SameRecv
  <2>2. AcceptOK(s)'
    <3>1. ~Has(cq, Com("accept", s))
      BY <1>2, <1>3 DEF SocketOK, AcceptOK
    <3>2. \A d \in Dds : ~Has(cq, Took(s, d))
      BY <3>1 DEF Has, Took, Com
    <3>. QED BY <1>1, <1>2, <3>1, <3>2 DEF AcceptOK, SocketOK
  <2>3. ConnectOK(s)'
    BY <1>1, <1>2, <2>1 DEF ConnectOK, SameConnect, SameQueue, SocketOK
  <2>4. RecvOK(s)'
    BY <1>1, <1>2, <2>1 DEF RecvOK, Reading, SameRecv, SameQueue, SocketOK
  <2>5. CloseOK(s)' /\ HoldOK(s)'
    BY <1>1, <1>3 DEF CloseOK, HoldOK, Holding
  <2>. QED BY <2>2, <2>3, <2>4, <2>5 DEF SocketOK
<1>9. ASSUME NEW d \in Dds, slots'[d] # slots[d] \/ slots[d] = s PROVE SlotOK(d)'
  <2>1. slots[d] = s
    BY <1>6, <1>9
  <2>2. d = d0
    <3>1. SlotOK(d)
      BY DEF SlotsOK
    <3>2. s # None
      BY SocketsAssumption DEF None
    <3>. QED BY <1>3, <2>1, <3>1, <3>2 DEF SlotOK, d0
  <2>3. slots'[d] = None
    BY <1>2, <1>4, <2>2
  <2>. QED BY <2>3 DEF SlotOK
<1>. QED BY <1>7, <1>8, <1>9, SlotsChange

(* The kernel accepts a connection into a free slot, or fails.                *)
LEMMA AcceptsKeep ==
  ASSUME Typing, SlotsOK, NEW s \in Sockets, Accepts(s)
  PROVE  SlotsOK'
<1>1. /\ peer[s].state = "away" /\ sock[s].state = "unused" /\ UNCHANGED <<sq, sock>>
      /\ kernel'.connects = kernel.connects /\ kernel'.recvs = kernel.recvs
  BY DEF Accepts, Typing, KernelTyped
<1>2. SocketOK(s) /\ slots \in [Dds -> Sockets \cup {None}] /\ peer \in [Sockets -> Peers] /\ s # None
  BY SocketsAssumption DEF SlotsOK, Typing, KernelTyped, None
<1>3. ~Has(cq, Com("accept", s))
  BY <1>1, <1>2 DEF SocketOK, AcceptOK
<1>4. \A d \in Dds : ~Has(cq, Took(s, d))
  BY <1>3 DEF Has, Took, Com
<1>5. peer'[s].state # "away" /\ \A x \in Sockets \ {s} : peer'[x] = peer[x]
  <2>1. PICK t \in {"here", "gone"} : peer' = [peer EXCEPT ![s] = [peer[s] EXCEPT !.state = t]]
    BY <1>2 DEF Accepts
  <2>. QED BY <1>2, <2>1 DEF Peers
<1>6. ASSUME NEW e \in Cqes, cq' = Append(cq, e), e.tag = "accept", e.s = s,
             \A d \in Dds : slots'[d] # slots[d] => slots[d] = None /\ slots'[d] = s /\ e.dd = d,
             \A d \in Dds : e.dd = d => slots'[d] = s
      PROVE  SlotsOK'
  <2>1. \A x \in Sockets : \A d \in Dds : slots[d] = x => slots'[d] = x
    BY <1>6, SocketsAssumption DEF None
  <2>2. \A x \in Sockets : Kept(x) /\ SameConnect(x) /\ SameRecv(x) /\ SameClose(x)
    BY <1>1, <1>5, <1>6, <2>1, CqAdds, QueueSame DEF Kept, SameConnect, SameRecv, SameClose
  <2>3. \A x \in Sockets \ {s} : SameAccept(x)
    BY <1>6, CqAdds DEF SameAccept
  <2>4. e \in Com("accept", s) /\ \A d : e \in Took(s, d) <=> e.dd = d
    BY <1>6 DEF Com, Took
  <2>5. AcceptOK(s)'
    <3>1. Only(cq', Com("accept", s))
      BY <1>2, <1>3, <1>6, CqAdds DEF SocketOK, AcceptOK
    <3>2. ASSUME NEW d \in Dds, Has(cq', Took(s, d)) PROVE slots'[d] = s
      <4>1. e \in Took(s, d)
        BY <1>4, <1>6, <3>2, CqAdds
      <4>. QED BY <1>6, <2>4, <4>1
    <3>. QED BY <1>1, <1>5, <3>1, <3>2 DEF AcceptOK
  <2>6. SocketOK(s)'
    BY <1>2, <2>2, <2>5, ConnectSame, RecvSame, CloseSame, HoldSame DEF SocketOK
  <2>7. ASSUME NEW d \in Dds, slots'[d] # slots[d] \/ slots[d] = s PROVE SlotOK(d)'
    <3>1. slots'[d] # slots[d]
      BY <1>1, <1>2, <1>4, <2>7 DEF SlotsOK, SlotOK, Holding, SocketOK, CloseOK
    <3>2. slots'[d] = s /\ e \in Took(s, d)
      BY <1>6, <2>4, <3>1
    <3>3. Has(cq', Took(s, d))
      BY <1>6, <3>2, CqAdds
    <3>. QED BY <1>1, <3>2, <3>3 DEF SlotOK
  <2>. QED BY <2>2, <2>3, <2>6, <2>7, SlotsChange
<1>7. ASSUME NEW d \in Dds, slots[d] = None, slots' = [slots EXCEPT ![d] = s],
             cq' = Append(cq, [Cqe("accept", s, "done") EXCEPT !.dd = d])
      PROVE  SlotsOK'
  <2> DEFINE e == [Cqe("accept", s, "done") EXCEPT !.dd = d]
  <2>1. e \in Cqes
    BY CqeFacts
  <2>2. e.tag = "accept" /\ e.s = s /\ e.dd = d
    BY DEF Cqe
  <2>3. cq' = Append(cq, e)
    BY <1>7
  <2> HIDE DEF e
  <2>4. \A c \in Dds : slots'[c] # slots[c] => slots[c] = None /\ slots'[c] = s /\ e.dd = c
    BY <1>2, <1>7, <2>2
  <2>5. \A c \in Dds : e.dd = c => slots'[c] = s
    BY <1>2, <1>7, <2>2
  <2>. QED BY <1>6, <2>1, <2>2, <2>3, <2>4, <2>5
<1>8. CASE cq' = Append(cq, Cqe("accept", s, "failed")) /\ UNCHANGED slots
  <2> DEFINE e == Cqe("accept", s, "failed")
  <2>1. e \in Cqes
    BY CqeFacts
  <2>2. e.tag = "accept" /\ e.s = s /\ e.dd = -1
    BY DEF Cqe
  <2>3. \A d \in Dds : e.dd # d
    BY <2>2 DEF Dds
  <2>4. cq' = Append(cq, e)
    BY <1>8
  <2> HIDE DEF e
  <2>. QED BY <1>6, <1>8, <2>1, <2>2, <2>3, <2>4
<1>. QED BY <1>7, <1>8 DEF Accepts

(* The kernel completes a connect.                                            *)
LEMMA ConnectedKeeps ==
  ASSUME Typing, SlotsOK, NEW s \in Sockets, Connected(s)
  PROVE  SlotsOK'
<1>1. /\ UNCHANGED <<sq, sock, slots>> /\ s \in kernel.connects
      /\ kernel'.connects = kernel.connects \ {s} /\ kernel'.recvs = kernel.recvs
  BY DEF Connected, Typing, KernelTyped
<1> DEFINE e == Cqe("connect", s, "done")
<1>2. e \in Cqes /\ cq' = Append(cq, e)
  BY CqeFacts DEF Connected
<1>3. e.tag = "connect" /\ e.s = s
  BY DEF Cqe
<1> HIDE DEF e
<1>4. \A x \in Sockets : peer[x].state # "away" => peer'[x].state # "away"
  <2>1. PICK t \in {"here", "gone"} : peer' = [peer EXCEPT ![s] = [peer[s] EXCEPT !.state = t]]
    BY DEF Connected, Typing, KernelTyped
  <2>. QED BY <2>1 DEF Typing, KernelTyped, Peers
<1>5. \A x \in Sockets : Kept(x) /\ SameAccept(x) /\ SameClose(x) /\ SameRecv(x)
  BY <1>1, <1>2, <1>3, <1>4, CqAdds, QueueSame DEF Kept, SameAccept, SameClose, SameRecv
<1>6. \A x \in Sockets \ {s} : SameConnect(x)
  BY <1>1, <1>2, <1>3, CqAdds, QueueSame DEF SameConnect
<1>7. ConnectOK(s) /\ RecvOK(s)
  BY DEF SlotsOK, SocketOK
<1>8. Only(cq', Com("connect", s))
  BY <1>1, <1>2, <1>7, CqAdds DEF ConnectOK
<1>9. ConnectOK(s)'
  BY <1>1, <1>7, <1>8 DEF ConnectOK
<1>10. RecvOK(s)'
  BY <1>5, <1>7, RecvSame
<1>. QED BY <1>1, <1>5, <1>6, <1>9, <1>10, SlotsMove

(* A peer sends or leaves: the receive goes on, or ends in one completion.    *)
LEMMA PeerKeeps ==
  ASSUME Typing, SlotsOK, NEW r \in kernel.recvs, PeerSends(r) \/ PeerLeaves(r)
  PROVE  SlotsOK'
<1>1. PICK s \in Sockets : r.s = s
  BY DEF Typing, KernelTyped, Uses
<1>2. /\ UNCHANGED <<sq, sock, slots>> /\ kernel'.connects = kernel.connects
      /\ r.conn \in Sockets
  BY DEF PeerSends, PeerLeaves, Typing, KernelTyped, Uses
<1>3. \A x \in Sockets : peer[x].state # "away" => peer'[x].state # "away"
  <2>1. peer \in [Sockets -> Peers]
    BY DEF Typing, KernelTyped
  <2>2. \/ peer' = [peer EXCEPT ![r.conn] = [peer[r.conn] EXCEPT !.sent = peer[r.conn].sent + 1]]
        \/ peer' = [peer EXCEPT ![r.conn] = [peer[r.conn] EXCEPT !.state = "gone"]]
    BY <1>2, <2>1 DEF PeerSends, PeerLeaves
  <2>. QED BY <1>2, <2>1, <2>2 DEF Peers
<1>4. PICK e \in Cqes : /\ cq' = Append(cq, e) /\ e.tag = "read" /\ e.s = s
                        /\ \/ e.res = "data" /\ kernel' = kernel
                           \/ e.res # "data" /\ kernel'.recvs = kernel.recvs \ {r}
  <2>1. CASE PeerSends(r)
    <3>1. PICK e \in Cqes : /\ cq' = Append(cq, e) /\ e.tag = "read" /\ e.s = s
                            /\ e.res = "data" <=> ring # <<>>
      BY <1>1, <2>1, ReceivedAdds DEF PeerSends
    <3>. QED BY <2>1, <3>1 DEF PeerSends, Typing, KernelTyped
  <2>2. CASE PeerLeaves(r)
    <3>1. PICK e \in Cqes : /\ cq' = Append(cq, e) /\ e.tag = "read" /\ e.s = s
                            /\ e.res # "data"
      BY <1>1, <2>2, ReceivedAdds DEF PeerLeaves
    <3>. QED BY <2>2, <3>1 DEF PeerLeaves, Typing, KernelTyped
  <2>. QED BY <2>1, <2>2
<1>5. \A x \in Sockets : Kept(x) /\ SameAccept(x) /\ SameClose(x) /\ SameConnect(x)
  BY <1>2, <1>3, <1>4, CqAdds, QueueSame DEF Kept, SameAccept, SameClose, SameConnect
<1>6. RecvOK(s) /\ ConnectOK(s)
  BY DEF SlotsOK, SocketOK
<1>7. CASE e.res = "data" /\ kernel' = kernel
  <2>1. \A x \in Sockets : SameRecv(x)
    BY <1>2, <1>4, <1>7, CqAdds, QueueSame DEF SameRecv
  <2>. QED BY <1>2, <1>5, <2>1, SlotsSame
<1>8. CASE e.res # "data" /\ kernel'.recvs = kernel.recvs \ {r}
  <2>1. \A x \in Sockets \ {s} : SameRecv(x)
    BY <1>1, <1>2, <1>4, <1>8, CqAdds, QueueSame DEF SameRecv
  <2>2. Reading(s) /\ ~Reading(s)' /\ ~Has(cq, Final(s))
    BY <1>1, <1>6, <1>8 DEF RecvOK, Reading
  <2>3. Only(cq', Final(s))
    BY <1>4, <1>6, <2>2, CqAdds DEF RecvOK
  <2>4. RecvOK(s)'
    BY <1>2, <1>6, <1>8, <2>2, <2>3 DEF RecvOK
  <2>5. ConnectOK(s)'
    BY <1>5, <1>6, ConnectSame
  <2>. QED BY <1>2, <1>5, <2>1, <2>4, <2>5, SlotsMove
<1>. QED BY <1>4, <1>7, <1>8

-----------------------------------------------------------------------------
(* Connections are made and accepted.                                        *)

(* A handler of s that runs after the library queued e.                       *)
LEMMA Handed ==
  ASSUME Typing, NEW s \in Sockets, NEW was \in [Sockets -> Socks], NEW e \in Sqes,
         Handler(s, was, Append(sq, e))
  PROVE  /\ \A x \in Sockets : sock'[x].state = was[x].state /\ sock'[x].dd = was[x].dd
         /\ \A op, x : op # "send" /\ (e.op # op \/ e.s # x) => SameQueue(sq, sq', Sub(op, x))
         /\ \A op, x : op # "send" /\ ~Has(sq, Sub(op, x)) => Only(sq', Sub(op, x))
         /\ \A op, x : op # "send" /\ e.op = op /\ e.s = x => Has(sq', Sub(op, x))
<1> DEFINE queue == Append(sq, e)
<1>1. sq \in Seq(Sqes) /\ queue \in Seq(Sqes)
  BY DEF Typing, LoopTyped
<1>2. /\ \A S : Has(queue, S) <=> Has(sq, S) \/ e \in S
      /\ \A S : Only(sq, S) /\ (e \in S => ~Has(sq, S)) => Only(queue, S)
      /\ \A S : e \notin S => SameQueue(sq, queue, S)
  BY <1>1, AppendFacts, QueueAppend
<1>3. Handler(s, was, queue)
  OBVIOUS
<1> HIDE DEF queue
<1>4. /\ \A x \in Sockets : sock'[x].state = was[x].state /\ sock'[x].dd = was[x].dd
      /\ \A op, x : op # "send" => SameQueue(queue, sq', Sub(op, x))
  BY <1>1, <1>3, HandlerFrame
<1>5. \A op, x : e \in Sub(op, x) <=> e.op = op /\ e.s = x
  BY DEF Sub
<1>6. \A S : ~Has(sq, S) => Only(sq, S)
  BY DEF Has, Only
<1>7. \A op, x : op # "send" /\ (e.op # op \/ e.s # x) => SameQueue(sq, sq', Sub(op, x))
  BY <1>2, <1>4, <1>5 DEF SameQueue
<1>8. \A op, x : op # "send" /\ ~Has(sq, Sub(op, x)) => Only(sq', Sub(op, x))
  BY <1>2, <1>4, <1>6 DEF SameQueue
<1>9. \A op, x : op # "send" /\ e.op = op /\ e.s = x => Has(sq', Sub(op, x))
  BY <1>2, <1>4, <1>5 DEF SameQueue
<1>. QED BY <1>4, <1>7, <1>8, <1>9

(* A connect that fails leaves a socket in the list that has no slot.         *)
LEMMA ConnectFailsKeeps ==
  ASSUME Typing, SlotsOK, Named, NEW s \in Sockets, ConnectFails(s)
  PROVE  SlotsOK'
<1>1. UNCHANGED <<sq, cq, slots, kernel, peer>> /\ peer[s].state = "away" /\ sock[s].state = "unused"
  BY DEF ConnectFails, MayConnect, kernelVars
<1>2. SocketOK(s) /\ sock[s].dd = -1 /\ sock \in [Sockets -> Socks]
  BY <1>1 DEF SlotsOK, Named, FreshOK, Fresh, Typing, LoopTyped
<1>3. sock'[s].state = "linked" /\ sock'[s].dd = -1 /\ \A x \in Sockets \ {s} : sock'[x] = sock[x]
  BY <1>2 DEF ConnectFails, Socks
<1>4. \A x \in Sockets \ {s} : Kept(x)
  BY <1>1, <1>3 DEF Kept
<1>5. \A x \in Sockets : SameAccept(x) /\ SameConnect(x) /\ SameRecv(x) /\ SameClose(x)
  BY <1>1, QueueSame DEF SameAccept, SameConnect, SameRecv, SameClose
<1>6. ~Has(cq, Com("accept", s))
  BY <1>1, <1>2 DEF SocketOK, AcceptOK
<1>7. \A d \in Dds : ~Has(cq, Took(s, d)) /\ d # -1
  BY <1>6 DEF Has, Took, Com, Dds
<1>8. SocketOK(s)'
  <2>1. AcceptOK(s)'
    BY <1>1, <1>2, <1>6, <1>7 DEF AcceptOK, SocketOK
  <2>2. ConnectOK(s)'
    BY <1>1, <1>2, <1>3 DEF ConnectOK, SocketOK
  <2>3. RecvOK(s)'
    BY <1>1, <1>2 DEF RecvOK, Reading, SocketOK
  <2>4. CloseOK(s)' /\ HoldOK(s)'
    BY <1>1, <1>2, <1>3, <1>7 DEF CloseOK, HoldOK, SocketOK
  <2>. QED BY <2>1, <2>2, <2>3, <2>4 DEF SocketOK
<1>9. \A d \in Dds : slots[d] # s
  BY <1>1, <1>2, <1>7, SocketsAssumption DEF SlotsOK, SlotOK, Holding, SocketOK, CloseOK, None
<1>. QED BY <1>1, <1>4, <1>5, <1>8, <1>9, SlotsChange

(* A connect takes the next number of the counter as its slot, which nobody   *)
(* holds while the program does not accept.                                   *)
LEMMA ConnectKeeps ==
  ASSUME Typing, OneRole, SlotsOK, Named, ModeOK, NEW s \in Sockets, Connect(s)
  PROVE  SlotsOK'
<1> DEFINE e == [op |-> "connect", s |-> s, dd |-> numSockets]
<1>1. /\ UNCHANGED <<cq, kernel, peer>> /\ peer[s].state = "away" /\ sock[s].state = "unused"
      /\ sq' = Append(sq, e) /\ kernel.accept = "never"
      /\ slots' = IF numSockets \in Dds THEN [slots EXCEPT ![numSockets] = s] ELSE slots
  BY DEF Connect, MayConnect, OneRole
<1>2. /\ SocketOK(s) /\ sock \in [Sockets -> Socks] /\ numSockets \in Int /\ sq \in Seq(Sqes)
      /\ slots \in [Dds -> Sockets \cup {None}] /\ s # None
  BY SocketsAssumption DEF SlotsOK, Typing, LoopTyped, KernelTyped, None
<1>3. e \in Sqes /\ e.op = "connect" /\ e.s = s
  BY <1>2, SqeFacts DEF Ops
<1> HIDE DEF e
<1>4. sock'[s].state = "linked" /\ sock'[s].dd = numSockets /\ \A x \in Sockets \ {s} : sock'[x] = sock[x]
  <2>1. sock' = [sock EXCEPT ![s] = [sock[s] EXCEPT !.state = "linked", !.dd = numSockets]]
    BY <1>2 DEF Connect
  <2>2. sock[s] \in Socks
    BY <1>2
  <2>3. [sock[s] EXCEPT !.state = "linked", !.dd = numSockets].state = "linked"
    BY <2>2 DEF Socks
  <2>4. [sock[s] EXCEPT !.state = "linked", !.dd = numSockets].dd = numSockets
    BY <2>2 DEF Socks
  <2>. QED BY <1>2, <2>1, <2>3, <2>4
<1>5. \A x \in Sockets : sock[x].dd < numSockets /\ ~Has(cq, Com("accept", x))
  BY <1>1 DEF ModeOK
<1>6. \A x \in Sockets, d \in Dds : ~Has(cq, Took(x, d))
  BY <1>5 DEF Has, Took, Com
<1>7. numSockets \in Dds => slots[numSockets] = None
  <2>1. ASSUME numSockets \in Dds, slots[numSockets] # None PROVE FALSE
    <3>1. PICK x \in Sockets : slots[numSockets] = x
      BY <1>2, <2>1
    <3>2. sock[x].dd = numSockets
      BY <1>6, <2>1, <3>1 DEF SlotsOK, SlotOK
    <3>3. sock[x].dd \in Int
      BY <1>2 DEF Socks
    <3>. QED BY <1>2, <1>5, <3>2, <3>3
  <2>. QED BY <2>1
<1>8. \A d \in Dds : (slots'[d] # slots[d] => slots[d] = None /\ slots'[d] = s /\ d = numSockets)
                     /\ slots[d] # s
  <2>1. \A d \in Dds : slots[d] # s
    BY <1>1, <1>2, <1>6 DEF SlotsOK, SlotOK, Holding, SocketOK, CloseOK
  <2>. QED BY <1>1, <1>2, <1>7, <2>1
<1>9. /\ \A S : Has(sq', S) <=> Has(sq, S) \/ e \in S
      /\ \A S : Only(sq, S) /\ (e \in S => ~Has(sq, S)) => Only(sq', S)
      /\ \A op, x : e.op # op \/ e.s # x => SameQueue(sq, sq', Sub(op, x))
  BY <1>1, <1>2, <1>3, AppendFacts, SubAppend
<1>10. ASSUME NEW x \in Sockets
       PROVE  SameAccept(x) /\ SameRecv(x) /\ SameClose(x) /\ (x # s => Kept(x) /\ SameConnect(x))
  <2>1. SameAccept(x) /\ SameRecv(x) /\ SameClose(x)
    BY <1>1, <1>3, <1>9, QueueSame DEF SameAccept, SameRecv, SameClose
  <2>2. x # s => SameConnect(x)
    BY <1>1, <1>3, <1>9, QueueSame DEF SameConnect
  <2>3. x # s => Kept(x)
    BY <1>1, <1>4, <1>8, SocketsAssumption DEF Kept, None
  <2>. QED BY <2>1, <2>2, <2>3
<1>11. SocketOK(s)'
  <2>1. AcceptOK(s)'
    BY <1>1, <1>2, <1>5, <1>6 DEF AcceptOK, SocketOK
  <2>2. ConnectOK(s)'
    <3>1. ~Has(sq, Sub("connect", s)) /\ s \notin kernel.connects /\ ~Has(cq, Com("connect", s))
      BY <1>1, <1>2 DEF SocketOK, ConnectOK
    <3>2. Only(sq', Sub("connect", s)) /\ Only(cq, Com("connect", s))
      BY <1>2, <1>9, <3>1 DEF SocketOK, ConnectOK
    <3>. QED BY <1>1, <1>4, <3>1, <3>2 DEF ConnectOK
  <2>3. RecvOK(s)'
    BY <1>1, <1>2, <1>10 DEF RecvOK, Reading, SameRecv, SameQueue, SocketOK
  <2>4. CloseOK(s)'
    BY <1>1, <1>2, <1>10 DEF CloseOK, SameClose, SameQueue, SocketOK
  <2>5. HoldOK(s)'
    BY <1>1, <1>2, <1>4 DEF HoldOK
  <2>. QED BY <2>1, <2>2, <2>3, <2>4, <2>5 DEF SocketOK
<1>12. ASSUME NEW d \in Dds, slots'[d] # slots[d] \/ slots[d] = s PROVE SlotOK(d)'
  BY <1>4, <1>8, <1>12 DEF SlotOK, Holding
<1>. QED BY <1>10, <1>11, <1>12, SlotsChange

(* The completion of an accept makes the socket that owns its slot.           *)
LEMMA AcceptReaped ==
  ASSUME Typing, SlotsOK, Named, ReapAccept, NEW s \in Sockets, Head(cq).s = s
  PROVE  SlotsOK'
<1> DEFINE d0 == Head(cq).dd
           was == [sock EXCEPT ![s] = [sock[s] EXCEPT !.state = "open", !.dd = d0]]
<1>1. /\ Reaps /\ Head(cq).tag = "accept" /\ UNCHANGED <<kernel, slots, peer>>
      /\ Handler(s, was, IF d0 >= 0 THEN Append(sq, RecvSqe(s, d0)) ELSE sq)
  BY DEF ReapAccept, Descriptor, kernelVars
<1>2. Head(cq) \in Cqes /\ d0 \in Dds \cup {-1} /\ d0 \in Int
  BY <1>1, Reaped1
<1>3. SocketOK(s) /\ sock \in [Sockets -> Socks] /\ sock[s] \in Socks /\ sq \in Seq(Sqes) /\ s # None
  BY SocketsAssumption DEF SlotsOK, Typing, LoopTyped, None
<1>4. was \in [Sockets -> Socks]
  <2>1. [sock[s] EXCEPT !.state = "open", !.dd = d0] \in Socks
    BY <1>2, <1>3, SockFacts DEF States
  <2>. QED BY <1>3, <2>1
<1>5. was[s].state = "open" /\ was[s].dd = d0 /\ \A x \in Sockets \ {s} : was[x] = sock[x]
  <2>1. [sock[s] EXCEPT !.state = "open", !.dd = d0].state = "open"
    BY <1>3 DEF Socks
  <2>2. [sock[s] EXCEPT !.state = "open", !.dd = d0].dd = d0
    BY <1>3 DEF Socks
  <2>. QED BY <1>3, <2>1, <2>2
<1>6. RecvSqe(s, d0) \in Sqes /\ RecvSqe(s, d0).op = "recv" /\ RecvSqe(s, d0).s = s
  BY <1>2, SqeFacts DEF RecvSqe, Ops
<1>7. Head(cq) \in Com("accept", s) /\ Has(cq, Com("accept", s)) /\ ~Has(cq', Com("accept", s)) /\ Only(cq', Com("accept", s))
  <2>1. Head(cq) \in Com("accept", s)
    BY <1>1, <1>2 DEF Com
  <2>. QED BY <1>1, <1>3, <2>1, CqTakes DEF SocketOK, AcceptOK
<1>8. sock[s].state = "unused" /\ \A d \in Dds : ~Has(cq', Took(s, d))
  <2>1. sock[s].state = "unused"
    BY <1>3, <1>7 DEF SocketOK, AcceptOK
  <2>. QED BY <1>7, <2>1 DEF Has, Took, Com
<1>9. \A d \in Dds : Has(cq, Took(s, d)) <=> d = d0
  <2>1. \A d : Head(cq) \in Took(s, d) <=> d = d0
    BY <1>1, <1>2 DEF Took
  <2>. QED BY <1>1, <1>8, <2>1, CqTakes
<1>10. ~Has(sq, Sub("recv", s)) /\ ~Has(sq, Sub("close", s))
  BY <1>3, <1>8 DEF SocketOK, RecvOK, CloseOK
<1> HIDE DEF was, d0
<1>11. /\ \A x \in Sockets : sock'[x].state = was[x].state /\ sock'[x].dd = was[x].dd
       /\ \A op, x : op # "send" /\ (op # "recv" \/ x # s) => SameQueue(sq, sq', Sub(op, x))
       /\ Only(sq', Sub("recv", s))
  <2>1. CASE d0 >= 0
    <3>1. Handler(s, was, Append(sq, RecvSqe(s, d0)))
      BY <1>1, <2>1
    <3>. QED BY <1>4, <1>6, <1>10, <3>1, Handed
  <2>2. CASE ~(d0 >= 0)
    <3>1. Handler(s, was, sq)
      BY <1>1, <2>2
    <3>2. /\ \A x \in Sockets : sock'[x].state = was[x].state /\ sock'[x].dd = was[x].dd
          /\ \A op, x : op # "send" => SameQueue(sq, sq', Sub(op, x))
      BY <1>3, <1>4, <3>1, HandlerFrame
    <3>3. Only(sq, Sub("recv", s))
      BY <1>3 DEF SocketOK, RecvOK
    <3>. QED BY <3>2, <3>3 DEF SameQueue
  <2>. QED BY <2>1, <2>2
<1>12. sock'[s].state = "open" /\ sock'[s].dd = d0
  BY <1>5, <1>11
<1>13. ASSUME NEW x \in Sockets \ {s}
       PROVE  Kept(x) /\ SameAccept(x) /\ SameConnect(x) /\ SameRecv(x) /\ SameClose(x)
  <2>1. SameAccept(x) /\ SameConnect(x) /\ SameRecv(x) /\ SameClose(x)
    BY <1>1, <1>11, CqTakes DEF SameAccept, SameConnect, SameRecv, SameClose
  <2>2. Kept(x)
    BY <1>1, <1>5, <1>11 DEF Kept
  <2>. QED BY <2>1, <2>2
<1>14. SocketOK(s)'
  <2>1. AcceptOK(s)'
    BY <1>7, <1>8 DEF AcceptOK
  <2>2. ConnectOK(s)'
    <3>1. /\ ~Has(sq, Sub("connect", s)) /\ s \notin kernel.connects /\ ~Has(cq, Com("connect", s))
          /\ Only(sq, Sub("connect", s)) /\ Only(cq, Com("connect", s))
      BY <1>3, <1>8 DEF SocketOK, ConnectOK
    <3>2. SameConnect(s)
      BY <1>1, <1>11, CqTakes DEF SameConnect
    <3>. QED BY <1>1, <3>1, <3>2 DEF ConnectOK, SameConnect, SameQueue
  <2>3. RecvOK(s)'
    <3>1. ~Reading(s) /\ ~Has(cq, Final(s)) /\ Only(cq, Final(s))
      BY <1>3, <1>8 DEF SocketOK, RecvOK
    <3>2. SameQueue(cq, cq', Final(s))
      BY <1>1, CqTakes
    <3>3. ~Reading(s)' /\ ~Has(cq', Final(s)) /\ Only(cq', Final(s))
      BY <1>1, <3>1, <3>2 DEF SameQueue, Reading
    <3>. QED BY <1>1, <1>11, <1>12, <3>1, <3>3 DEF RecvOK, Reading
  <2>4. CloseOK(s)'
    BY <1>10, <1>11, <1>3 DEF CloseOK, SameQueue, SocketOK
  <2>5. HoldOK(s)'
    <3>1. d0 \in Dds => slots[d0] = s
      BY <1>3, <1>9 DEF SocketOK, AcceptOK
    <3>. QED BY <1>1, <1>12, <3>1 DEF HoldOK
  <2>. QED BY <2>1, <2>2, <2>3, <2>4, <2>5 DEF SocketOK
<1>15. ASSUME NEW d \in Dds, slots[d] = s PROVE SlotOK(d)'
  <2>1. d = d0
    BY <1>3, <1>8, <1>9, <1>10, <1>15 DEF SlotsOK, SlotOK, Holding
  <2>. QED BY <1>1, <1>12, <1>15, <2>1 DEF SlotOK, Holding
<1>. QED BY <1>1, <1>13, <1>14, <1>15, SlotsChange

-----------------------------------------------------------------------------
(* Connections end, and every action.                                        *)

(* The socket s in another state, its slot the same.                          *)
LEMMA StateChanged ==
  ASSUME Typing, NEW s \in Sockets, NEW t \in States
  PROVE  LET was == [sock EXCEPT ![s].state = t] IN
         /\ was \in [Sockets -> Socks]
         /\ was[s].state = t /\ was[s].dd = sock[s].dd /\ was[s].wrote = sock[s].wrote
         /\ \A x \in Sockets \ {s} : was[x] = sock[x]
<1>1. sock \in [Sockets -> Socks] /\ sock[s] \in Socks
  BY DEF Typing, LoopTyped
<1>2. [sock[s] EXCEPT !.state = t] \in Socks
  BY <1>1, SockFacts
<1>3. /\ [sock[s] EXCEPT !.state = t].state = t
      /\ [sock[s] EXCEPT !.state = t].dd = sock[s].dd
      /\ [sock[s] EXCEPT !.state = t].wrote = sock[s].wrote
  BY <1>1 DEF Socks
<1>. QED BY <1>1, <1>2, <1>3

(* The completion that ends a receive queues the close of the slot.           *)
LEMMA EndReaped ==
  ASSUME Typing, SlotsOK, ReapEnd, NEW s \in Sockets, Head(cq).s = s
  PROVE  SlotsOK'
<1> DEFINE was == [sock EXCEPT ![s].state = "closed"]
           e == Sqe("close", s)
<1>1. sq \in Seq(Sqes) /\ SocketOK(s) /\ s # None /\ sock[s].dd \in Int
  <2>1. sock[s] \in Socks
    BY DEF Typing, LoopTyped
  <2>. QED BY <2>1, SocketsAssumption DEF Typing, LoopTyped, SlotsOK, None, Socks
<1>2. e \in Sqes /\ e.op = "close" /\ e.s = s
  BY <1>1, SqeFacts DEF Sqe, Ops
<1>3. /\ Reaps /\ Head(cq).tag = "read" /\ Head(cq).res # "data" /\ UNCHANGED <<kernel, slots, peer>>
      /\ Handler(s, was, Append(sq, e))
  <2>1. sq \o CloseSqe(s) = Append(sq, e)
    BY <1>1 DEF CloseSqe
  <2>2. Handler(s, was, sq \o CloseSqe(s))
    BY DEF ReapEnd
  <2>3. Reaps /\ Head(cq).tag = "read" /\ Head(cq).res # "data" /\ UNCHANGED <<kernel, slots, peer>>
    BY DEF ReapEnd
  <2>. QED BY <2>1, <2>2, <2>3
<1>4. /\ was \in [Sockets -> Socks] /\ was[s].state = "closed" /\ was[s].dd = sock[s].dd
      /\ \A x \in Sockets \ {s} : was[x] = sock[x]
  BY StateChanged DEF States
<1> HIDE DEF was, e
<1>5. Head(cq) \in Final(s) /\ Has(cq, Final(s)) /\ ~Has(cq', Final(s)) /\ Only(cq', Final(s))
  <2>1. Head(cq) \in Final(s)
    BY <1>3, Reaped1 DEF Final
  <2>. QED BY <1>1, <1>3, <2>1, CqTakes DEF SocketOK, RecvOK
<1>6. sock[s].state = "open" /\ ~Has(sq, Sub("recv", s)) /\ ~Reading(s) /\ ~Has(sq, Sub("close", s))
  BY <1>1, <1>5 DEF SocketOK, RecvOK, CloseOK
<1>7. /\ sock'[s].state = "closed" /\ sock'[s].dd = sock[s].dd
      /\ \A x \in Sockets \ {s} : sock'[x].state = sock[x].state /\ sock'[x].dd = sock[x].dd
      /\ \A op, x : op # "send" /\ (op # "close" \/ x # s) => SameQueue(sq, sq', Sub(op, x))
      /\ Only(sq', Sub("close", s)) /\ Has(sq', Sub("close", s))
  <2>1. /\ \A x \in Sockets : sock'[x].state = was[x].state /\ sock'[x].dd = was[x].dd
        /\ \A op, x : op # "send" /\ (op # "close" \/ x # s) => SameQueue(sq, sq', Sub(op, x))
        /\ Only(sq', Sub("close", s)) /\ Has(sq', Sub("close", s))
    BY <1>2, <1>3, <1>4, <1>6, Handed
  <2>. QED BY <1>4, <2>1
<1>8. ASSUME NEW x \in Sockets \ {s}
      PROVE  Kept(x) /\ SameAccept(x) /\ SameConnect(x) /\ SameRecv(x) /\ SameClose(x)
  <2>1. SameAccept(x) /\ SameConnect(x) /\ SameRecv(x) /\ SameClose(x)
    BY <1>3, <1>7, CqTakes DEF SameAccept, SameConnect, SameRecv, SameClose
  <2>2. Kept(x)
    BY <1>3, <1>7 DEF Kept
  <2>. QED BY <2>1, <2>2
<1>9. SameAccept(s) /\ SameConnect(s)
  BY <1>3, <1>7, CqTakes DEF SameAccept, SameConnect
<1>10. SocketOK(s)'
  <2>1. AcceptOK(s)'
    BY <1>1, <1>3, <1>6, <1>9 DEF AcceptOK, SameAccept, SameQueue, SocketOK
  <2>2. ConnectOK(s)'
    BY <1>1, <1>3, <1>6, <1>9 DEF ConnectOK, SameConnect, SameQueue, SocketOK
  <2>3. RecvOK(s)'
    <3>1. Only(sq', Sub("recv", s)) /\ ~Has(sq', Sub("recv", s))
      BY <1>1, <1>6, <1>7 DEF SameQueue, SocketOK, RecvOK
    <3>2. ~Reading(s)'
      BY <1>3, <1>6 DEF Reading
    <3>. QED BY <1>1, <1>3, <1>5, <3>1, <3>2 DEF RecvOK, Reading, SocketOK
  <2>4. CloseOK(s)'
    BY <1>7 DEF CloseOK
  <2>5. HoldOK(s)'
    BY <1>1, <1>3, <1>6, <1>7 DEF HoldOK, Holding, SocketOK
  <2>. QED BY <2>1, <2>2, <2>3, <2>4, <2>5 DEF SocketOK
<1>11. ASSUME NEW d \in Dds, slots[d] = s PROVE SlotOK(d)'
  <2>1. sock[s].dd = d
    BY <1>1, <1>6, <1>11 DEF SlotsOK, SlotOK
  <2>. QED BY <1>3, <1>7, <1>11, <2>1 DEF SlotOK, Holding
<1>. QED BY <1>3, <1>8, <1>10, <1>11, SlotsChange

(* The completion of a connect queues the first receive.                      *)
LEMMA ConnectReaped ==
  ASSUME Typing, SlotsOK, ReapConnect, NEW s \in Sockets, Head(cq).s = s
  PROVE  SlotsOK'
<1> DEFINE was == [sock EXCEPT ![s].state = "open"]
           e == RecvSqe(s, sock[s].dd)
<1>1. sq \in Seq(Sqes) /\ SocketOK(s) /\ s # None /\ sock[s].dd \in Int
  <2>1. sock[s] \in Socks
    BY DEF Typing, LoopTyped
  <2>. QED BY <2>1, SocketsAssumption DEF Typing, LoopTyped, SlotsOK, None, Socks
<1>2. e \in Sqes /\ e.op = "recv" /\ e.s = s
  BY <1>1, SqeFacts DEF RecvSqe, Ops
<1>3. /\ Reaps /\ Head(cq).tag = "connect" /\ UNCHANGED <<kernel, slots, peer>>
      /\ Handler(s, was, Append(sq, e))
  BY DEF ReapConnect, kernelVars
<1>4. /\ was \in [Sockets -> Socks] /\ was[s].state = "open" /\ was[s].dd = sock[s].dd
      /\ \A x \in Sockets \ {s} : was[x] = sock[x]
  BY StateChanged DEF States
<1> HIDE DEF was, e
<1>5. /\ Head(cq) \in Com("connect", s) /\ Has(cq, Com("connect", s)) /\ ~Has(cq', Com("connect", s))
      /\ Only(cq', Com("connect", s))
  <2>1. Head(cq) \in Com("connect", s)
    BY <1>3, Reaped1 DEF Com
  <2>. QED BY <1>1, <1>3, <2>1, CqTakes DEF SocketOK, ConnectOK
<1>6. /\ sock[s].state = "linked" /\ ~Has(sq, Sub("recv", s)) /\ ~Reading(s) /\ ~Has(cq, Final(s))
      /\ ~Has(sq, Sub("connect", s)) /\ s \notin kernel.connects
  BY <1>1, <1>5 DEF SocketOK, RecvOK, ConnectOK
<1>7. /\ sock'[s].state = "open" /\ sock'[s].dd = sock[s].dd
      /\ \A x \in Sockets \ {s} : sock'[x].state = sock[x].state /\ sock'[x].dd = sock[x].dd
      /\ \A op, x : op # "send" /\ (op # "recv" \/ x # s) => SameQueue(sq, sq', Sub(op, x))
      /\ Only(sq', Sub("recv", s))
  <2>1. /\ \A x \in Sockets : sock'[x].state = was[x].state /\ sock'[x].dd = was[x].dd
        /\ \A op, x : op # "send" /\ (op # "recv" \/ x # s) => SameQueue(sq, sq', Sub(op, x))
        /\ Only(sq', Sub("recv", s))
    BY <1>2, <1>3, <1>4, <1>6, Handed
  <2>. QED BY <1>4, <2>1
<1>8. ASSUME NEW x \in Sockets \ {s}
      PROVE  Kept(x) /\ SameAccept(x) /\ SameConnect(x) /\ SameRecv(x) /\ SameClose(x)
  <2>1. SameAccept(x) /\ SameConnect(x) /\ SameRecv(x) /\ SameClose(x)
    BY <1>3, <1>7, CqTakes DEF SameAccept, SameConnect, SameRecv, SameClose
  <2>2. Kept(x)
    BY <1>3, <1>7 DEF Kept
  <2>. QED BY <2>1, <2>2
<1>9. SameAccept(s) /\ SameClose(s) /\ SameQueue(cq, cq', Final(s)) /\ SameQueue(sq, sq', Sub("connect", s))
  BY <1>3, <1>7, CqTakes DEF SameAccept, SameClose
<1>10. SocketOK(s)'
  <2>1. AcceptOK(s)'
    BY <1>1, <1>3, <1>6, <1>9 DEF AcceptOK, SameAccept, SameQueue, SocketOK
  <2>2. ConnectOK(s)'
    BY <1>1, <1>3, <1>5, <1>6, <1>9 DEF ConnectOK, SameQueue, SocketOK
  <2>3. RecvOK(s)'
    <3>1. Only(cq', Final(s)) /\ ~Has(cq', Final(s))
      BY <1>1, <1>6, <1>9 DEF SameQueue, SocketOK, RecvOK
    <3>2. ~Reading(s)'
      BY <1>3, <1>6 DEF Reading
    <3>. QED BY <1>1, <1>3, <1>7, <3>1, <3>2 DEF RecvOK, Reading, SocketOK
  <2>4. CloseOK(s)'
    BY <1>1, <1>6, <1>9 DEF CloseOK, SameClose, SameQueue, SocketOK
  <2>5. HoldOK(s)'
    BY <1>1, <1>3, <1>6, <1>7 DEF HoldOK, Holding, SocketOK
  <2>. QED BY <2>1, <2>2, <2>3, <2>4, <2>5 DEF SocketOK
<1>11. ASSUME NEW d \in Dds, slots[d] = s PROVE SlotOK(d)'
  <2>1. sock[s].dd = d
    BY <1>1, <1>6, <1>11 DEF SlotsOK, SlotOK
  <2>. QED BY <1>3, <1>7, <1>11, <2>1 DEF SlotOK, Holding
<1>. QED BY <1>3, <1>8, <1>10, <1>11, SlotsChange

(* A submission of no such kind is started: nothing of the sort moves.        *)
LEMMA OtherIssued ==
  ASSUME Typing, SlotsOK, Issue, Head(sq).op \in {"accept", "read_timer", "send"}
  PROVE  SlotsOK'
<1>1. /\ sq # <<>> /\ sq' = Tail(sq) /\ UNCHANGED <<slots, sock, peer>>
      /\ kernel'.connects = kernel.connects /\ kernel'.recvs = kernel.recvs
  BY DEF Issue, Issued, Typing, KernelTyped
<1>2. \A x \in Sockets : SqKept(x)
  BY <1>1, SqTaken DEF SqKept
<1>3. \A x \in Sockets : CqKept(x)
  <2>1. CASE UNCHANGED cq
    BY <2>1, CqSame
  <2>2. CASE Head(sq).op = "send" /\ cq' = Append(cq, Cqe("write", Head(sq).s, "failed"))
    <3>1. Head(sq) \in Sqes
      BY <1>1, TailFacts DEF Typing, LoopTyped
    <3>2. Head(sq).s \in Sockets
      BY <2>2, <3>1, SqeFacts DEF Ops
    <3>3. Cqe("write", Head(sq).s, "failed") \in Cqes /\ Cqe("write", Head(sq).s, "failed").tag = "write"
      BY <3>2, CqeFacts DEF Cqe
    <3>. QED BY <2>2, <3>3, CqAdded
  <2>. QED BY <2>1, <2>2 DEF Issue, Issued
<1>. QED BY <1>1, <1>2, <1>3, SlotsCalm DEF Calm, SockKept, KernelKept

(* Every step keeps what is on its way in one place and every slot owned.     *)
LEMMA SlotsStep ==
  ASSUME Typing, OneRole, SlotsOK, Named, ModeOK, Next
  PROVE  SlotsOK'
<1>1. CASE Issue
  <2>1. Head(sq) \in Sqes
    BY <1>1, TailFacts DEF Issue, Typing, LoopTyped
  <2>2. Head(sq).op \in {"accept", "read_timer", "send"} \/ Head(sq).op \in {"connect", "recv", "close"}
    BY <2>1, SqeFacts DEF Ops
  <2>3. Head(sq).op \in {"connect", "recv", "close"} => \E s \in Sockets : Head(sq).s = s
    BY <2>1, SqeFacts DEF Ops
  <2>. QED BY <1>1, <2>2, <2>3, OtherIssued, ConnectIssued, RecvIssued, CloseIssued DEF Named
<1>2. CASE Reap
  <2>1. Reaps
    BY <1>2 DEF Reap, ReapAccept, ReapData, ReapEnd, ReapWrite, ReapConnect, ReapTimer
  <2>2. Head(cq).tag # "timer" => \E s \in Sockets : Head(cq).s = s
    BY <2>1, Reaped1
  <2>3. CASE ReapAccept \/ ReapEnd \/ ReapConnect
    <3>1. \E s \in Sockets : Head(cq).s = s
      BY <2>2, <2>3 DEF ReapAccept, ReapEnd, ReapConnect
    <3>. QED BY <2>3, <3>1, AcceptReaped, EndReaped, ConnectReaped
  <2>. QED BY <1>2, <2>3, CalmSteps DEF Reap
<1>3. CASE KernelNext
  BY <1>3, AcceptsKeep, ConnectedKeeps, PeerKeeps, CalmSteps DEF KernelNext
<1>4. CASE \E s \in Sockets : ConnectFails(s) \/ Connect(s)
  BY <1>4, ConnectFailsKeeps, ConnectKeeps
<1>. QED BY <1>1, <1>2, <1>3, <1>4, CalmSteps DEF Next, LoopNext

-----------------------------------------------------------------------------
(* Submissions name the slot of their socket.                                *)

(* The part of Named about the queue of submissions.                          *)
SentFresh(x) == sock[x].state = "unused" => sock[x] = Fresh /\ ~Has(sq, Sub("send", x))
Addressed == \A x \in Sockets : DdOK(x) /\ SentFresh(x)

(* Named, in its part about submissions and its part about completions.       *)
LEMMA NamedParts ==
  Named <=> Addressed /\ \A x \in Sockets : sock[x].state = "unused" => ~Has(cq, Com("read", x))
BY DEF Named, Addressed, FreshOK, SentFresh

(* Nothing is queued for an unused socket.                                    *)
LEMMA UnusedIdle ==
  ASSUME Typing, SlotsOK, Named, NEW s \in Sockets, sock[s].state = "unused"
  PROVE  \A d : ~Has(sq, Other(s, d))
<1>1. \A op \in Ops : ~Has(sq, Sub(op, s))
  BY DEF SlotsOK, SocketOK, ConnectOK, RecvOK, CloseOK, Named, FreshOK, Ops
<1>. QED BY <1>1 DEF Has, Other, Sub

(* A handler's send names the slot of its socket.                             *)
LEMMA HandlerAddresses ==
  ASSUME NEW s \in Sockets, NEW was \in [Sockets -> Socks], NEW queue \in Seq(Sqes),
         Handler(s, was, queue), was[s].state # "unused",
         \A x \in Sockets : ~Has(queue, Other(x, was[x].dd)),
         \A x \in Sockets : was[x].state = "unused" => was[x] = Fresh /\ ~Has(queue, Sub("send", x))
  PROVE  Addressed'
<1>1. was[s] \in Socks /\ was[s].dd \in Int
  BY SockFacts
<1>2. \A x \in Sockets \ {s} : sock'[x] = was[x]
  BY DEF Handler
<1>3. sock'[s].state = was[s].state /\ sock'[s].dd = was[s].dd
  BY HandlerFrame
<1>4. /\ \A x \in Sockets : ~Has(sq', Other(x, was[x].dd))
      /\ \A x \in Sockets \ {s} : ~Has(queue, Sub("send", x)) => ~Has(sq', Sub("send", x))
  <2>1. CASE sq' = queue
    BY <2>1
  <2>2. CASE sq' = Append(queue, [op |-> "send", s |-> s, dd |-> was[s].dd])
    <3> DEFINE e == [op |-> "send", s |-> s, dd |-> was[s].dd]
    <3>1. e \in Sqes
      BY <1>1, SqeFacts DEF Ops
    <3>2. \A x \in Sockets : e \notin Other(x, was[x].dd) /\ (x # s => e \notin Sub("send", x))
      BY DEF Other, Sub
    <3>3. sq' = Append(queue, e)
      BY <2>2
    <3> HIDE DEF e
    <3>. QED BY <3>1, <3>2, <3>3, AppendFacts
  <2>. QED BY <2>1, <2>2 DEF Handler
<1>5. ASSUME NEW x \in Sockets PROVE DdOK(x)'
  BY <1>2, <1>3, <1>4 DEF DdOK
<1>6. ASSUME NEW x \in Sockets PROVE SentFresh(x)'
  BY <1>2, <1>3, <1>4 DEF SentFresh
<1>. QED BY <1>5, <1>6 DEF Addressed

(* Unless a socket changes, a queue that only loses submissions stays good.   *)
LEMMA FewerAddressed ==
  ASSUME Addressed, UNCHANGED sock, \A x, d : Has(sq', Other(x, d)) => Has(sq, Other(x, d)),
         \A x : Has(sq', Sub("send", x)) => Has(sq, Sub("send", x))
  PROVE  Addressed'
BY DEF Addressed, DdOK, SentFresh

(* Every submission names the slot of its socket, through every step.         *)
LEMMA AddressedStep ==
  ASSUME Typing, SlotsOK, Named, Next
  PROVE  Addressed'
<1>1. Addressed
  BY NamedParts
<1>2. sq \in Seq(Sqes) /\ sock \in [Sockets -> Socks] /\ \A x \in Sockets : sock[x] \in Socks /\ sock[x].dd \in Int
  <2>1. sock \in [Sockets -> Socks]
    BY DEF Typing, LoopTyped
  <2>. QED BY <2>1 DEF Typing, LoopTyped, Socks
<1>3. ASSUME UNCHANGED <<sq, sock>> PROVE Addressed'
  BY <1>1, <1>3, FewerAddressed
<1>4. ASSUME NEW e \in Sqes, e.op \notin Ops, sq' = Append(sq, e), UNCHANGED sock PROVE Addressed'
  <2>1. \A x, d : e \notin Other(x, d) /\ e \notin Sub("send", x)
    BY <1>4 DEF Other, Sub, Ops
  <2>. QED BY <1>1, <1>2, <1>4, <2>1, AppendFacts, FewerAddressed
<1>5. CASE Listen \/ Run \/ SweepDone
  BY <1>4, <1>5, SqeFacts DEF Listen, Run, SweepDone, Ops
<1>6. CASE Issue
  BY <1>1, <1>2, <1>6, TailFacts, FewerAddressed DEF Issue
<1>7. CASE Wakes \/ Drained \/ OutOfBuffers \/ ReapWrite \/ ReapTimer \/ KernelNext
  BY <1>3, <1>7 DEF Wakes, Drained, OutOfBuffers, ReapWrite, ReapTimer, KernelNext, Accepts, Connected,
                    PeerSends, PeerLeaves, Sends, TimerExpires
<1>8. ASSUME NEW s \in Sockets, ConnectFails(s) PROVE Addressed'
  <2>1. sock[s].state = "unused" /\ UNCHANGED sq /\ sock' = [sock EXCEPT ![s] = [sock[s] EXCEPT !.state = "linked"]]
    BY <1>2, <1>8 DEF ConnectFails, MayConnect
  <2>2. sock'[s].dd = sock[s].dd /\ sock'[s].state = "linked" /\ \A x \in Sockets \ {s} : sock'[x] = sock[x]
    BY <1>2, <2>1 DEF Socks
  <2>. QED BY <1>1, <2>1, <2>2 DEF Addressed, DdOK, SentFresh
<1>9. ASSUME NEW s \in Sockets, Connect(s) PROVE Addressed'
  <2> DEFINE e == [op |-> "connect", s |-> s, dd |-> numSockets]
  <2>1. /\ sock[s].state = "unused" /\ sq' = Append(sq, e) /\ numSockets \in Int
        /\ sock' = [sock EXCEPT ![s] = [sock[s] EXCEPT !.state = "linked", !.dd = numSockets]]
    <3>1. numSockets \in Int
      BY DEF Typing, LoopTyped
    <3>2. sock' = [sock EXCEPT ![s] = [sock[s] EXCEPT !.state = "linked", !.dd = numSockets]]
      BY <1>2, <1>9 DEF Connect
    <3>3. sock[s].state = "unused" /\ sq' = Append(sq, e)
      BY <1>9 DEF Connect, MayConnect
    <3>. QED BY <3>1, <3>2, <3>3
  <2>2. e \in Sqes
    BY <2>1, SqeFacts DEF Ops
  <2>3. \A x : (x # s => \A d : e \notin Other(x, d)) /\ e \notin Other(s, numSockets) /\ e \notin Sub("send", x)
    BY DEF Other, Sub
  <2> HIDE DEF e
  <2>4. sock'[s].dd = numSockets /\ sock'[s].state = "linked" /\ \A x \in Sockets \ {s} : sock'[x] = sock[x]
    <3>1. [sock[s] EXCEPT !.state = "linked", !.dd = numSockets].dd = numSockets
      BY <1>2 DEF Socks
    <3>2. [sock[s] EXCEPT !.state = "linked", !.dd = numSockets].state = "linked"
      BY <1>2 DEF Socks
    <3>. QED BY <1>2, <2>1, <3>1, <3>2
  <2>5. ~Has(sq, Other(s, numSockets))
    BY <2>1, UnusedIdle
  <2>6. \A S : Has(sq', S) <=> Has(sq, S) \/ e \in S
    BY <1>2, <2>1, <2>2, AppendFacts
  <2>. QED BY <1>1, <2>3, <2>4, <2>5, <2>6 DEF Addressed, DdOK, SentFresh
<1>10. CASE SweepNext
  <2>1. PICK s \in Sockets : Head(rest) = s
    BY <1>10, TailFacts DEF SweepNext, Typing, LoopTyped
  <2>2. CASE UNCHANGED <<sq, sock, buf>>
    BY <1>3, <2>2
  <2>3. ASSUME NEW t \in BOOLEAN, sock[s].timed, Handler(s, [sock EXCEPT ![s].timed = t], sq) PROVE Addressed'
    <3> DEFINE was == [sock EXCEPT ![s].timed = t]
    <3>1. sock[s].state # "unused"
      BY <1>1, <2>3 DEF Addressed, SentFresh, Fresh
    <3>2. /\ was \in [Sockets -> Socks]
          /\ \A x \in Sockets : was[x].state = sock[x].state /\ was[x].dd = sock[x].dd
          /\ \A x \in Sockets \ {s} : was[x] = sock[x]
      BY <1>2, TimedAgain
    <3>3. Handler(s, was, sq)
      BY <2>3
    <3> HIDE DEF was
    <3>4. \A x \in Sockets : ~Has(sq, Other(x, was[x].dd))
      BY <1>1, <3>2 DEF Addressed, DdOK
    <3>5. \A x \in Sockets : was[x].state = "unused" => was[x] = Fresh /\ ~Has(sq, Sub("send", x))
      BY <1>1, <3>1, <3>2 DEF Addressed, SentFresh
    <3>. QED BY <1>2, <3>1, <3>2, <3>3, <3>4, <3>5, HandlerAddresses
  <2>. QED BY <1>10, <2>1, <2>2, <2>3 DEF SweepNext
<1>11. CASE ReapData
  <2>1. Reaps /\ Head(cq).tag = "read" /\ Handler(Head(cq).s, sock, sq)
    BY <1>11 DEF ReapData
  <2>2. PICK s \in Sockets : Head(cq).s = s
    BY <2>1, Reaped1
  <2>3. Has(cq, Com("read", s))
    <3>1. Head(cq) \in Com("read", s)
      BY <2>1, <2>2, Reaped1 DEF Com
    <3>. QED BY <2>1, <3>1, CqTakes
  <2>4. sock[s].state # "unused"
    BY <2>3 DEF Named, FreshOK
  <2>5. \A x \in Sockets : ~Has(sq, Other(x, sock[x].dd))
    BY <1>1 DEF Addressed, DdOK
  <2>6. \A x \in Sockets : sock[x].state = "unused" => sock[x] = Fresh /\ ~Has(sq, Sub("send", x))
    BY <1>1 DEF Addressed, SentFresh
  <2>. QED BY <1>2, <2>1, <2>2, <2>4, <2>5, <2>6, HandlerAddresses
<1>12. ASSUME NEW s \in Sockets, NEW was \in [Sockets -> Socks], NEW e \in Sqes,
              was[s].state # "unused", was[s].dd = sock[s].dd \/ sock[s].state = "unused",
              \A x \in Sockets \ {s} : was[x] = sock[x],
              e.op # "send", e.s = s, e.dd = was[s].dd, Handler(s, was, Append(sq, e))
       PROVE  Addressed'
  <2> DEFINE queue == Append(sq, e)
  <2>1. queue \in Seq(Sqes) /\ \A S : Has(queue, S) <=> Has(sq, S) \/ e \in S
    BY <1>2, AppendFacts
  <2>2. Handler(s, was, queue)
    BY <1>12
  <2> HIDE DEF queue
  <2>3. \A x \in Sockets : e \notin Other(x, was[x].dd) /\ e \notin Sub("send", x)
    BY <1>12 DEF Other, Sub
  <2>4. \A x \in Sockets : ~Has(sq, Other(x, was[x].dd))
    BY <1>1, <1>12, UnusedIdle DEF Addressed, DdOK
  <2>5. \A x \in Sockets : ~Has(queue, Other(x, was[x].dd))
    BY <2>1, <2>3, <2>4
  <2>6. \A x \in Sockets : was[x].state = "unused" => was[x] = Fresh /\ ~Has(queue, Sub("send", x))
    BY <1>1, <1>12, <2>1, <2>3 DEF Addressed, SentFresh
  <2>. QED BY <1>12, <2>1, <2>2, <2>5, <2>6, HandlerAddresses
<1>13. CASE ReapEnd
  <2>1. Reaps /\ Head(cq).tag = "read"
    BY <1>13 DEF ReapEnd
  <2>2. PICK s \in Sockets : Head(cq).s = s
    BY <2>1, Reaped1
  <2> DEFINE was == [sock EXCEPT ![s].state = "closed"]
             e == Sqe("close", s)
  <2>3. sq \o CloseSqe(s) = Append(sq, e)
    BY <1>2 DEF CloseSqe
  <2>4. Handler(s, was, sq \o CloseSqe(s))
    BY <1>13, <2>2 DEF ReapEnd
  <2>5. Handler(s, was, Append(sq, e))
    BY <2>3, <2>4
  <2>6. e \in Sqes /\ e.op = "close" /\ e.s = s /\ e.dd = sock[s].dd
    BY <1>2, SqeFacts DEF Sqe, Ops
  <2>7. /\ was \in [Sockets -> Socks] /\ was[s].state = "closed" /\ was[s].dd = sock[s].dd
        /\ \A x \in Sockets \ {s} : was[x] = sock[x]
    BY StateChanged DEF States
  <2> HIDE DEF was, e
  <2>. QED BY <1>12, <2>5, <2>6, <2>7
<1>14. CASE ReapConnect
  <2>1. Reaps /\ Head(cq).tag = "connect"
    BY <1>14 DEF ReapConnect
  <2>2. PICK s \in Sockets : Head(cq).s = s
    BY <2>1, Reaped1
  <2> DEFINE was == [sock EXCEPT ![s].state = "open"]
             e == RecvSqe(s, sock[s].dd)
  <2>5. Handler(s, was, Append(sq, e))
    BY <1>14, <2>2 DEF ReapConnect
  <2>6. e \in Sqes /\ e.op = "recv" /\ e.s = s /\ e.dd = sock[s].dd
    BY <1>2, SqeFacts DEF RecvSqe, Ops
  <2>7. /\ was \in [Sockets -> Socks] /\ was[s].state = "open" /\ was[s].dd = sock[s].dd
        /\ \A x \in Sockets \ {s} : was[x] = sock[x]
    BY StateChanged DEF States
  <2> HIDE DEF was, e
  <2>. QED BY <1>12, <2>5, <2>6, <2>7
<1>15. CASE ReapAccept
  <2>1. Reaps /\ Head(cq).tag = "accept"
    BY <1>15 DEF ReapAccept
  <2>2. PICK s \in Sockets : Head(cq).s = s
    BY <2>1, Reaped1
  <2>3. Head(cq).dd \in Int /\ Head(cq) \in Com("accept", s)
    BY <2>1, <2>2, Reaped1 DEF Com
  <2>4. sock[s].state = "unused"
    BY <2>1, <2>3, CqTakes DEF SlotsOK, SocketOK, AcceptOK
  <2> DEFINE d0 == Head(cq).dd
             was == [sock EXCEPT ![s] = [sock[s] EXCEPT !.state = "open", !.dd = d0]]
             e == RecvSqe(s, d0)
  <2>5. Handler(s, was, IF d0 >= 0 THEN Append(sq, e) ELSE sq)
    BY <1>15, <2>2 DEF ReapAccept, Descriptor
  <2>6. e \in Sqes /\ e.op = "recv" /\ e.s = s /\ e.dd = d0
    BY <2>3, SqeFacts DEF RecvSqe, Ops
  <2>7. was \in [Sockets -> Socks]
    <3>1. [sock[s] EXCEPT !.state = "open", !.dd = d0] \in Socks
      BY <1>2, <2>3, SockFacts DEF States
    <3>. QED BY <1>2, <3>1
  <2>8. was[s].state = "open" /\ was[s].dd = d0 /\ \A x \in Sockets \ {s} : was[x] = sock[x]
    <3>1. [sock[s] EXCEPT !.state = "open", !.dd = d0].state = "open"
      BY <1>2 DEF Socks
    <3>2. [sock[s] EXCEPT !.state = "open", !.dd = d0].dd = d0
      BY <1>2 DEF Socks
    <3>. QED BY <1>2, <3>1, <3>2
  <2> HIDE DEF was, e, d0
  <2>9. CASE Handler(s, was, Append(sq, e))
    BY <1>12, <2>4, <2>6, <2>7, <2>8, <2>9
  <2>10. CASE Handler(s, was, sq)
    <3>1. \A x \in Sockets : ~Has(sq, Other(x, was[x].dd))
      BY <1>1, <2>4, <2>8, UnusedIdle DEF Addressed, DdOK
    <3>2. \A x \in Sockets : was[x].state = "unused" => was[x] = Fresh /\ ~Has(sq, Sub("send", x))
      BY <1>1, <2>8 DEF Addressed, SentFresh
    <3>. QED BY <1>2, <2>7, <2>8, <2>10, <3>1, <3>2, HandlerAddresses
  <2>. QED BY <2>5, <2>9, <2>10
<1>. QED BY <1>5, <1>6, <1>7, <1>8, <1>9, <1>10, <1>11, <1>13, <1>14, <1>15 DEF Next, LoopNext, Reap

-----------------------------------------------------------------------------
(* No completion for an unused socket.                                       *)

(* The part of Named about the completions.                                   *)
ReadFresh == \A x \in Sockets : sock[x].state = "unused" => ~Has(cq, Com("read", x))

(* A step that adds no completion of a read.                                  *)
LEMMA FewerRead ==
  ASSUME ReadFresh, \A x \in Sockets : sock'[x].state = "unused" => sock[x].state = "unused",
         \A x \in Sockets : Has(cq', Com("read", x)) => Has(cq, Com("read", x))
  PROVE  ReadFresh'
BY DEF ReadFresh

(* A completion of a read is of a socket in use.                              *)
LEMMA NewCompletion ==
  ASSUME Typing, ReadFresh, NEW e \in Cqes, cq' = Append(cq, e), UNCHANGED sock,
         \A x \in Sockets : e.tag = "read" /\ e.s = x => sock[x].state # "unused"
  PROVE  ReadFresh'
<1>1. \A x \in Sockets : sock[x].state = "unused" => e \notin Com("read", x)
  BY DEF Com
<1>. QED BY <1>1, CqAdds DEF ReadFresh

(* A handler makes no socket unused.                                          *)
LEMMA ReapedUnused ==
  ASSUME Typing, NEW s \in Sockets, NEW was \in [Sockets -> Socks], NEW queue \in Seq(Sqes),
         Handler(s, was, queue), was[s].state # "unused" \/ was[s].state = sock[s].state,
         \A x \in Sockets \ {s} : was[x].state = sock[x].state
  PROVE  \A x \in Sockets : sock'[x].state = "unused" => sock[x].state = "unused"
BY HandlerFrame

(* No step makes a socket unused again.                                       *)
LEMMA NeverUnused ==
  ASSUME Typing, Next
  PROVE  \A x \in Sockets : sock'[x].state = "unused" => sock[x].state = "unused"
<1>1. sq \in Seq(Sqes) /\ sock \in [Sockets -> Socks] /\ \A x \in Sockets : sock[x] \in Socks /\ sock[x].dd \in Int
  <2>1. sock \in [Sockets -> Socks]
    BY DEF Typing, LoopTyped
  <2>. QED BY <2>1 DEF Typing, LoopTyped, Socks
<1>2. CASE UNCHANGED sock
  BY <1>2
<1>3. CASE KernelNext
  BY <1>3 DEF KernelNext, Accepts, Connected, PeerSends, PeerLeaves, Sends, TimerExpires
<1>4. CASE \E s \in Sockets : ConnectFails(s) \/ Connect(s)
  <2>1. PICK s \in Sockets : ConnectFails(s) \/ Connect(s)
    BY <1>4
  <2>2. sock[s].state = "unused" /\ \A x \in Sockets \ {s} : sock'[x] = sock[x]
    BY <1>1, <2>1 DEF ConnectFails, Connect, MayConnect
  <2>. QED BY <2>2
<1>5. CASE SweepNext
  <2>1. PICK s \in Sockets : Head(rest) = s
    BY <1>5, TailFacts DEF SweepNext, Typing, LoopTyped
  <2>2. ASSUME NEW t \in BOOLEAN, Handler(s, [sock EXCEPT ![s].timed = t], sq)
        PROVE  \A x \in Sockets : sock'[x].state = "unused" => sock[x].state = "unused"
    <3> DEFINE was == [sock EXCEPT ![s].timed = t]
    <3>1. was \in [Sockets -> Socks] /\ \A x \in Sockets : was[x].state = sock[x].state
      BY TimedAgain
    <3>2. Handler(s, was, sq)
      BY <2>2
    <3> HIDE DEF was
    <3>. QED BY <1>1, <3>1, <3>2, ReapedUnused
  <2>. QED BY <1>2, <1>5, <2>1, <2>2 DEF SweepNext
<1>6. ASSUME Reaps, Head(cq).tag # "timer" PROVE \E s \in Sockets : Head(cq).s = s /\ Head(cq).dd \in Int
  BY <1>6, Reaped1
<1>7. CASE ReapData
  BY <1>1, <1>6, <1>7, ReapedUnused DEF ReapData
<1>8. CASE ReapEnd
  <2>1. PICK s \in Sockets : Head(cq).s = s
    BY <1>6, <1>8 DEF ReapEnd
  <2> DEFINE was == [sock EXCEPT ![s].state = "closed"]
             queue == sq \o CloseSqe(s)
  <2>2. Handler(s, was, queue)
    BY <1>8, <2>1 DEF ReapEnd
  <2>3. queue \in Seq(Sqes)
    <3>1. Sqe("close", s) \in Sqes
      BY <1>1, SqeFacts DEF Sqe, Ops
    <3>. QED BY <1>1, <3>1 DEF CloseSqe
  <2>4. was \in [Sockets -> Socks] /\ was[s].state = "closed" /\ \A x \in Sockets \ {s} : was[x] = sock[x]
    BY StateChanged DEF States
  <2> HIDE DEF was, queue
  <2>. QED BY <2>2, <2>3, <2>4, ReapedUnused
<1>9. CASE ReapConnect
  <2>1. PICK s \in Sockets : Head(cq).s = s
    BY <1>6, <1>9 DEF ReapConnect
  <2> DEFINE was == [sock EXCEPT ![s].state = "open"]
             queue == Append(sq, RecvSqe(s, sock[s].dd))
  <2>2. Handler(s, was, queue)
    BY <1>9, <2>1 DEF ReapConnect
  <2>3. queue \in Seq(Sqes)
    <3>1. RecvSqe(s, sock[s].dd) \in Sqes
      BY <1>1, SqeFacts DEF RecvSqe, Ops
    <3>. QED BY <1>1, <3>1
  <2>4. was \in [Sockets -> Socks] /\ was[s].state = "open" /\ \A x \in Sockets \ {s} : was[x] = sock[x]
    BY StateChanged DEF States
  <2> HIDE DEF was, queue
  <2>. QED BY <2>2, <2>3, <2>4, ReapedUnused
<1>10. CASE ReapAccept
  <2>1. PICK s \in Sockets : Head(cq).s = s /\ Head(cq).dd \in Int
    BY <1>6, <1>10 DEF ReapAccept
  <2> DEFINE d0 == Head(cq).dd
             was == [sock EXCEPT ![s] = [sock[s] EXCEPT !.state = "open", !.dd = d0]]
             queue == IF d0 >= 0 THEN Append(sq, RecvSqe(s, d0)) ELSE sq
  <2>2. Handler(s, was, queue)
    BY <1>10, <2>1 DEF ReapAccept, Descriptor
  <2>3. queue \in Seq(Sqes)
    <3>1. RecvSqe(s, d0) \in Sqes
      BY <2>1, SqeFacts DEF RecvSqe, Ops
    <3>. QED BY <1>1, <3>1
  <2>4. was \in [Sockets -> Socks] /\ was[s].state = "open" /\ \A x \in Sockets \ {s} : was[x] = sock[x]
    <3>1. [sock[s] EXCEPT !.state = "open", !.dd = d0] \in Socks
      BY <1>1, <2>1, SockFacts DEF States
    <3>2. [sock[s] EXCEPT !.state = "open", !.dd = d0].state = "open"
      BY <1>1 DEF Socks
    <3>. QED BY <1>1, <3>1, <3>2
  <2> HIDE DEF was, queue
  <2>. QED BY <2>2, <2>3, <2>4, ReapedUnused
<1>. QED BY <1>2, <1>3, <1>4, <1>5, <1>7, <1>8, <1>9, <1>10
         DEF Next, LoopNext, Reap, Listen, Run, Issue, Wakes, Drained, OutOfBuffers, SweepDone, ReapWrite, ReapTimer

(* No completion of a read is for an unused socket, through every step.       *)
LEMMA ReadFreshStep ==
  ASSUME Typing, SlotsOK, ReadFresh, Next
  PROVE  ReadFresh'
<1>1. \A x \in Sockets : sock'[x].state = "unused" => sock[x].state = "unused"
  BY NeverUnused
<1>2. CASE UNCHANGED cq
  BY <1>1, <1>2, FewerRead
<1>3. CASE Reaps
  BY <1>1, <1>3, CqTakes, FewerRead
<1>4. CASE Issue
  <2>1. Head(sq) \in Sqes /\ UNCHANGED sock /\ sq # <<>> /\ sq' = Tail(sq)
    BY <1>4, TailFacts DEF Issue, Typing, LoopTyped
  <2>2. CASE Head(sq).op = "recv" /\ Received(Head(sq).s, "failed")
    <3>1. PICK s \in Sockets : Head(sq).s = s
      BY <2>1, <2>2, SqeFacts DEF Ops
    <3>2. PICK e \in Cqes : cq' = Append(cq, e) /\ e.tag = "read" /\ e.s = s
      BY <2>2, <3>1, ReceivedAdds
    <3>3. Has(sq, Sub("recv", s))
      BY <2>1, <2>2, <3>1, SqTaken
    <3>4. sock[s].state # "unused"
      BY <3>3 DEF SlotsOK, SocketOK, RecvOK
    <3>. QED BY <2>1, <3>2, <3>4, NewCompletion
  <2>3. CASE Head(sq).op = "send" /\ cq' = Append(cq, Cqe("write", Head(sq).s, "failed"))
    <3>1. Head(sq).s \in Sockets
      BY <2>1, <2>3, SqeFacts DEF Ops
    <3>2. Cqe("write", Head(sq).s, "failed") \in Cqes /\ Cqe("write", Head(sq).s, "failed").tag = "write"
      BY <3>1, CqeFacts DEF Cqe
    <3>. QED BY <2>1, <2>3, <3>2, NewCompletion
  <2>. QED BY <1>2, <1>4, <2>2, <2>3 DEF Issue, Issued
<1>5. ASSUME NEW s \in Sockets, Accepts(s) PROVE ReadFresh'
  <2>1. \E e \in Cqes : cq' = Append(cq, e) /\ e.tag = "accept"
    <3>1. Cqe("accept", s, "failed") \in Cqes /\ Cqe("accept", s, "failed").tag = "accept"
      BY CqeFacts DEF Cqe
    <3>2. \A d \in Dds : /\ [Cqe("accept", s, "done") EXCEPT !.dd = d] \in Cqes
                         /\ [Cqe("accept", s, "done") EXCEPT !.dd = d].tag = "accept"
      BY CqeFacts DEF Cqe
    <3>. QED BY <1>5, <3>1, <3>2 DEF Accepts
  <2>. QED BY <1>5, <2>1, NewCompletion DEF Accepts
<1>6. ASSUME NEW s \in Sockets, Connected(s) PROVE ReadFresh'
  <2>1. Cqe("connect", s, "done") \in Cqes /\ Cqe("connect", s, "done").tag = "connect"
    BY CqeFacts DEF Cqe
  <2>. QED BY <1>6, <2>1, NewCompletion DEF Connected
<1>7. ASSUME NEW r \in kernel.recvs, PeerSends(r) \/ PeerLeaves(r) PROVE ReadFresh'
  <2>1. PICK s \in Sockets : r.s = s
    BY DEF Typing, KernelTyped, Uses
  <2>2. sock[s].state # "unused"
    BY <2>1 DEF SlotsOK, SocketOK, RecvOK, Reading
  <2>3. PICK e \in Cqes : cq' = Append(cq, e) /\ e.tag = "read" /\ e.s = s
    BY <1>7, <2>1, ReceivedAdds DEF PeerSends, PeerLeaves
  <2>. QED BY <1>7, <2>2, <2>3, NewCompletion DEF PeerSends, PeerLeaves
<1>8. ASSUME NEW i \in DOMAIN kernel.sends, Sends(i) PROVE ReadFresh'
  <2>1. kernel.sends \in Seq(Uses)
    BY DEF Typing, KernelTyped
  <2>2. kernel.sends[i] \in Uses
    BY <2>1
  <2>3. kernel.sends[i].s \in Sockets
    BY <2>2 DEF Uses
  <2>4. Cqe("write", kernel.sends[i].s, "done") \in Cqes /\ Cqe("write", kernel.sends[i].s, "done").tag = "write"
    BY <2>3, CqeFacts DEF Cqe
  <2>. QED BY <1>8, <2>4, NewCompletion DEF Sends
<1>9. CASE TimerExpires
  <2>1. Cqe("timer", None, "done") \in Cqes /\ Cqe("timer", None, "done").tag = "timer"
    BY CqeFacts DEF Cqe
  <2>. QED BY <1>9, <2>1, NewCompletion DEF TimerExpires
<1>. QED BY <1>2, <1>3, <1>4, <1>5, <1>6, <1>7, <1>8, <1>9
         DEF Next, LoopNext, Reap, Listen, Run, Wakes, Drained, OutOfBuffers, SweepDone, SweepNext, KernelNext,
             ConnectFails, Connect, kernelVars, ReapAccept, ReapData, ReapEnd, ReapWrite, ReapConnect, ReapTimer

(* Every step keeps Named.                                                    *)
LEMMA NamedStep ==
  ASSUME Typing, SlotsOK, Named, Next
  PROVE  Named'
<1>1. ReadFresh
  BY NamedParts DEF ReadFresh
<1>2. Addressed' /\ ReadFresh'
  BY <1>1, AddressedStep, ReadFreshStep
<1>. QED BY <1>2, NamedParts DEF Named, Addressed, SentFresh, FreshOK, ReadFresh

-----------------------------------------------------------------------------
(* The program accepts or connects; slots are owned.                         *)

(* A step that neither listens, connects nor accepts.                         *)
LEMMA ModeSame ==
  ASSUME ModeOK, kernel'.accept = kernel.accept, UNCHANGED numSockets,
         \A x \in Sockets : kernel.accept = "never" =>
           sock'[x].dd = sock[x].dd /\ (Has(cq', Com("accept", x)) => Has(cq, Com("accept", x))),
         Has(sq', Sub("accept", None)) => Has(sq, Sub("accept", None))
  PROVE  ModeOK'
BY DEF ModeOK

(* A completion of another kind, or one fewer, changes no accept.             *)
LEMMA AcceptCount ==
  ASSUME Typing, UNCHANGED cq \/ Reaps \/ \E e \in Cqes : e.tag # "accept" /\ cq' = Append(cq, e)
  PROVE  \A x \in Sockets : Has(cq', Com("accept", x)) => Has(cq, Com("accept", x))
<1>1. \A e \in Cqes : e.tag # "accept" => \A x : e \notin Com("accept", x)
  BY DEF Com
<1>. QED BY <1>1, CqTakes, CqAdds

(* The kernel starts a submission: an accept only if the program listens.     *)
LEMMA ModeIssued ==
  ASSUME Typing, ModeOK, Issue
  PROVE  ModeOK'
<1>1. Head(sq) \in Sqes /\ UNCHANGED <<sock, numSockets>> /\ sq # <<>> /\ sq' = Tail(sq)
  BY TailFacts DEF Issue, Typing, LoopTyped
<1>2. \A S : Has(sq', S) => Has(sq, S)
  BY <1>1, SqTaken
<1>3. CASE Head(sq).op = "accept" /\ kernel' = [kernel EXCEPT !.accept = "armed"] /\ UNCHANGED cq
  <2>1. Head(sq).s = None
    BY <1>1, <1>3, SqeFacts DEF Ops
  <2>2. Has(sq, Sub("accept", None))
    BY <1>1, <1>3, <2>1, SqTaken
  <2>3. kernel'.accept = "armed"
    BY <1>3 DEF Typing, KernelTyped
  <2>. QED BY <1>1, <1>2, <2>2, <2>3 DEF ModeOK
<1>4. CASE Head(sq).op # "accept"
  <2>1. kernel'.accept = kernel.accept
    BY <1>4 DEF Issue, Issued, Typing, KernelTyped
  <2>2. UNCHANGED cq \/ \E e \in Cqes : e.tag # "accept" /\ cq' = Append(cq, e)
    <3>1. Head(sq).op = "send" => Head(sq).s \in Sockets
      BY <1>1, SqeFacts DEF Ops
    <3>2. Head(sq).op = "send" => Cqe("write", Head(sq).s, "failed") \in Cqes /\ Cqe("write", Head(sq).s, "failed").tag # "accept"
      BY <3>1, CqeFacts DEF Cqe
    <3>3. Head(sq).op = "recv" => Head(sq).s \in Sockets
      BY <1>1, SqeFacts DEF Ops
    <3>4. Head(sq).op = "recv" /\ Received(Head(sq).s, "failed") => \E e \in Cqes : e.tag # "accept" /\ cq' = Append(cq, e)
      BY <3>3, ReceivedAdds
    <3>. QED BY <1>4, <3>2, <3>4 DEF Issue, Issued
  <2>. QED BY <1>1, <1>2, <2>1, <2>2, AcceptCount, ModeSame
<1>. QED BY <1>3, <1>4 DEF Issue, Issued

(* The kernel's own steps: accepted connections only if the program listens.  *)
LEMMA ModeKernel ==
  ASSUME Typing, ModeOK, KernelNext
  PROVE  ModeOK'
<1>1. ASSUME NEW s \in Sockets, Accepts(s) PROVE ModeOK'
  <2>1. /\ kernel.accept = "armed" /\ kernel'.accept \in {"armed", "ended"} /\ UNCHANGED <<sq, sock, numSockets>>
    BY <1>1 DEF Accepts, Typing, KernelTyped
  <2>. QED BY <2>1 DEF ModeOK
<1>2. ASSUME UNCHANGED <<sq, sock, numSockets>>, kernel'.accept = kernel.accept,
             \E e \in Cqes : e.tag # "accept" /\ cq' = Append(cq, e)
      PROVE  ModeOK'
  BY <1>2, AcceptCount, ModeSame
<1>3. ASSUME NEW s \in Sockets, Connected(s) PROVE ModeOK'
  <2>1. Cqe("connect", s, "done") \in Cqes /\ Cqe("connect", s, "done").tag = "connect"
    BY CqeFacts DEF Cqe
  <2>2. kernel'.accept = kernel.accept
    BY <1>3 DEF Connected, Typing, KernelTyped
  <2>. QED BY <1>2, <1>3, <2>1, <2>2 DEF Connected
<1>4. ASSUME NEW r \in kernel.recvs, PeerSends(r) \/ PeerLeaves(r) PROVE ModeOK'
  <2>1. PICK s \in Sockets : r.s = s
    BY DEF Typing, KernelTyped, Uses
  <2>2. PICK e \in Cqes : cq' = Append(cq, e) /\ e.tag = "read"
    BY <1>4, <2>1, ReceivedAdds DEF PeerSends, PeerLeaves
  <2>3. kernel'.accept = kernel.accept
    BY <1>4 DEF PeerSends, PeerLeaves, Typing, KernelTyped
  <2>. QED BY <1>2, <1>4, <2>2, <2>3 DEF PeerSends, PeerLeaves
<1>5. ASSUME NEW i \in DOMAIN kernel.sends, Sends(i) PROVE ModeOK'
  <2>1. kernel.sends \in Seq(Uses)
    BY DEF Typing, KernelTyped
  <2>2. kernel.sends[i] \in Uses
    BY <2>1
  <2>3. kernel.sends[i].s \in Sockets
    BY <2>2 DEF Uses
  <2>4. Cqe("write", kernel.sends[i].s, "done") \in Cqes /\ Cqe("write", kernel.sends[i].s, "done").tag = "write"
    BY <2>3, CqeFacts DEF Cqe
  <2>5. kernel'.accept = kernel.accept
    BY <1>5 DEF Sends, Typing, KernelTyped
  <2>. QED BY <1>2, <1>5, <2>4, <2>5 DEF Sends
<1>6. CASE TimerExpires
  <2>1. Cqe("timer", None, "done") \in Cqes /\ Cqe("timer", None, "done").tag = "timer"
    BY CqeFacts DEF Cqe
  <2>2. kernel'.accept = kernel.accept
    BY <1>6 DEF TimerExpires, Typing, KernelTyped
  <2>. QED BY <1>2, <1>6, <2>1, <2>2 DEF TimerExpires
<1>. QED BY <1>1, <1>3, <1>4, <1>5, <1>6 DEF KernelNext

(* A handler queues no accept.                                                *)
LEMMA ModeHandled ==
  ASSUME Typing, ModeOK, NEW s \in Sockets, NEW was \in [Sockets -> Socks], NEW queue \in Seq(Sqes),
         Handler(s, was, queue), UNCHANGED <<kernel, numSockets>>, UNCHANGED cq \/ Reaps,
         kernel.accept = "never" => \A x \in Sockets : was[x].dd = sock[x].dd,
         Has(queue, Sub("accept", None)) => Has(sq, Sub("accept", None))
  PROVE  ModeOK'
<1>1. /\ \A x \in Sockets : sock'[x].dd = was[x].dd
      /\ Has(sq', Sub("accept", None)) => Has(queue, Sub("accept", None))
  BY HandlerFrame DEF SameQueue
<1>. QED BY <1>1, AcceptCount, ModeSame

(* Every step keeps the program in its role.                                  *)
LEMMA ModeStep ==
  ASSUME Typing, OneRole, ModeOK, Next
  PROVE  ModeOK'
<1>1. sq \in Seq(Sqes) /\ sock \in [Sockets -> Socks] /\ \A x \in Sockets : sock[x] \in Socks /\ sock[x].dd \in Int
  <2>1. sock \in [Sockets -> Socks]
    BY DEF Typing, LoopTyped
  <2>. QED BY <2>1 DEF Typing, LoopTyped, Socks
<1>2. CASE Listen
  <2>1. kernel'.accept = "queued" /\ numSockets' = 0
    BY <1>2 DEF Listen, OneRole, Typing, KernelTyped
  <2>. QED BY <2>1 DEF ModeOK
<1>3. CASE Run \/ SweepDone
  <2> DEFINE e == [op |-> "read_timer", s |-> None, dd |-> -1]
  <2>1. e \in Sqes /\ e \notin Sub("accept", None)
    BY SqeFacts DEF Sub
  <2>2. sq' = Append(sq, e)
    BY <1>3 DEF Run, SweepDone
  <2> HIDE DEF e
  <2>3. Has(sq', Sub("accept", None)) => Has(sq, Sub("accept", None))
    BY <1>1, <2>1, <2>2, AppendFacts
  <2>. QED BY <1>3, <2>3, ModeSame DEF Run, SweepDone, kernelVars
<1>4. CASE Wakes \/ Drained \/ OutOfBuffers
  BY <1>4, ModeSame DEF Wakes, Drained, OutOfBuffers, kernelVars
<1>5. ASSUME NEW s \in Sockets, ConnectFails(s) PROVE ModeOK'
  <2>1. \A x \in Sockets : sock'[x].dd = sock[x].dd
    BY <1>1, <1>5 DEF ConnectFails, Socks
  <2>. QED BY <1>5, <2>1, ModeSame DEF ConnectFails, kernelVars
<1>6. ASSUME NEW s \in Sockets, Connect(s) PROVE ModeOK'
  <2> DEFINE e == [op |-> "connect", s |-> s, dd |-> numSockets]
  <2>1. numSockets \in Nat /\ numSockets' = numSockets + 1 /\ UNCHANGED <<cq, kernel>> /\ kernel.accept = "never"
        /\ sq' = Append(sq, e)
    BY <1>6 DEF Connect, MayConnect, OneRole, Typing, LoopTyped
  <2>2. e \in Sqes /\ e \notin Sub("accept", None)
    BY <2>1, SqeFacts DEF Sub, Ops
  <2> HIDE DEF e
  <2>3. Has(sq', Sub("accept", None)) => Has(sq, Sub("accept", None))
    BY <1>1, <2>1, <2>2, AppendFacts
  <2>4. sock'[s].dd = numSockets /\ \A x \in Sockets \ {s} : sock'[x] = sock[x]
    <3>1. sock' = [sock EXCEPT ![s] = [sock[s] EXCEPT !.state = "linked", !.dd = numSockets]]
      BY <1>1, <1>6 DEF Connect
    <3>2. [sock[s] EXCEPT !.state = "linked", !.dd = numSockets].dd = numSockets
      BY <1>1 DEF Socks
    <3>. QED BY <1>1, <3>1, <3>2
  <2>5. \A x \in Sockets : sock'[x].dd < numSockets + 1
    <3>1. \A x \in Sockets : sock[x].dd < numSockets /\ sock[x].dd \in Int
      BY <1>1, <2>1 DEF ModeOK
    <3>2. ASSUME NEW x \in Sockets, x # s PROVE sock'[x].dd < numSockets + 1
      BY <2>1, <2>4, <3>1, <3>2
    <3>. QED BY <2>1, <2>4, <3>2
  <2>. QED BY <2>1, <2>3, <2>5 DEF ModeOK
<1>7. CASE SweepNext
  <2>1. PICK s \in Sockets : Head(rest) = s
    BY <1>7, TailFacts DEF SweepNext, Typing, LoopTyped
  <2>2. UNCHANGED <<cq, kernel, numSockets>>
    BY <1>7 DEF SweepNext, kernelVars
  <2>3. CASE UNCHANGED <<sq, sock, buf>>
    BY <2>2, <2>3, ModeSame
  <2>4. ASSUME NEW t \in BOOLEAN, Handler(s, [sock EXCEPT ![s].timed = t], sq) PROVE ModeOK'
    <3> DEFINE was == [sock EXCEPT ![s].timed = t]
    <3>1. was \in [Sockets -> Socks] /\ \A x \in Sockets : was[x].dd = sock[x].dd
      BY TimedAgain
    <3>2. Handler(s, was, sq)
      BY <2>4
    <3> HIDE DEF was
    <3>. QED BY <1>1, <2>2, <3>1, <3>2, ModeHandled
  <2>. QED BY <1>7, <2>1, <2>3, <2>4 DEF SweepNext
<1>8. ASSUME Reaps, Head(cq).tag # "timer" PROVE \E s \in Sockets : Head(cq).s = s /\ Head(cq).dd \in Int
  BY <1>8, Reaped1
<1>9. CASE ReapData
  <2>1. PICK s \in Sockets : Head(cq).s = s
    BY <1>8, <1>9 DEF ReapData
  <2>2. Reaps /\ Handler(s, sock, sq) /\ UNCHANGED <<kernel, numSockets>>
    BY <1>9, <2>1 DEF ReapData
  <2>. QED BY <1>1, <2>2, ModeHandled
<1>10. ASSUME NEW s \in Sockets, NEW was \in [Sockets -> Socks], NEW e \in Sqes, e.op # "accept",
              Handler(s, was, Append(sq, e)), Reaps, UNCHANGED <<kernel, numSockets>>,
              kernel.accept = "never" => \A x \in Sockets : was[x].dd = sock[x].dd
       PROVE  ModeOK'
  <2> DEFINE queue == Append(sq, e)
  <2>1. queue \in Seq(Sqes) /\ \A S : Has(queue, S) <=> Has(sq, S) \/ e \in S
    BY <1>1, AppendFacts
  <2>2. e \notin Sub("accept", None)
    BY <1>10 DEF Sub
  <2>3. Handler(s, was, queue)
    BY <1>10
  <2> HIDE DEF queue
  <2>. QED BY <1>10, <2>1, <2>2, <2>3, ModeHandled
<1>11. CASE ReapEnd
  <2>1. PICK s \in Sockets : Head(cq).s = s
    BY <1>8, <1>11 DEF ReapEnd
  <2> DEFINE was == [sock EXCEPT ![s].state = "closed"]
             e == Sqe("close", s)
  <2>2. sq \o CloseSqe(s) = Append(sq, e)
    BY <1>1 DEF CloseSqe
  <2>3. Handler(s, was, sq \o CloseSqe(s)) /\ Reaps /\ UNCHANGED <<kernel, numSockets>>
    BY <1>11, <2>1 DEF ReapEnd
  <2>4. Handler(s, was, Append(sq, e))
    BY <2>2, <2>3
  <2>5. e \in Sqes /\ e.op # "accept"
    BY <1>1, SqeFacts DEF Sqe, Ops
  <2>6. was \in [Sockets -> Socks] /\ was[s].dd = sock[s].dd /\ \A x \in Sockets \ {s} : was[x] = sock[x]
    BY StateChanged DEF States
  <2> HIDE DEF was, e
  <2>7. \A x \in Sockets : was[x].dd = sock[x].dd
    BY <2>6
  <2>. QED BY <1>10, <2>3, <2>4, <2>5, <2>6, <2>7
<1>12. CASE ReapConnect
  <2>1. PICK s \in Sockets : Head(cq).s = s
    BY <1>8, <1>12 DEF ReapConnect
  <2> DEFINE was == [sock EXCEPT ![s].state = "open"]
             e == RecvSqe(s, sock[s].dd)
  <2>4. Handler(s, was, Append(sq, e)) /\ Reaps /\ UNCHANGED <<kernel, numSockets>>
    BY <1>12, <2>1 DEF ReapConnect, kernelVars
  <2>5. e \in Sqes /\ e.op # "accept"
    BY <1>1, SqeFacts DEF RecvSqe, Ops
  <2>6. was \in [Sockets -> Socks] /\ was[s].dd = sock[s].dd /\ \A x \in Sockets \ {s} : was[x] = sock[x]
    BY StateChanged DEF States
  <2> HIDE DEF was, e
  <2>7. \A x \in Sockets : was[x].dd = sock[x].dd
    BY <2>6
  <2>. QED BY <1>10, <2>4, <2>5, <2>6, <2>7
<1>13. CASE ReapAccept
  <2>1. PICK s \in Sockets : Head(cq).s = s /\ Head(cq).dd \in Int
    BY <1>8, <1>13 DEF ReapAccept
  <2> DEFINE d0 == Head(cq).dd
             was == [sock EXCEPT ![s] = [sock[s] EXCEPT !.state = "open", !.dd = d0]]
             e == RecvSqe(s, d0)
  <2>2. Handler(s, was, IF d0 >= 0 THEN Append(sq, e) ELSE sq) /\ Reaps /\ UNCHANGED <<kernel, numSockets>>
    BY <1>13, <2>1 DEF ReapAccept, Descriptor, kernelVars
  <2>3. e \in Sqes /\ e.op # "accept"
    BY <2>1, SqeFacts DEF RecvSqe, Ops
  <2>4. was \in [Sockets -> Socks]
    <3>1. [sock[s] EXCEPT !.state = "open", !.dd = d0] \in Socks
      BY <1>1, <2>1, SockFacts DEF States
    <3>. QED BY <1>1, <3>1
  <2>5. kernel.accept # "never"
    <3>1. Head(cq) \in Com("accept", s)
      BY <1>13, <2>1, <2>2, Reaped1 DEF Com, ReapAccept
    <3>. QED BY <2>2, <3>1, CqTakes DEF ModeOK
  <2> HIDE DEF was, e, d0
  <2>6. CASE Handler(s, was, Append(sq, e))
    BY <1>10, <2>2, <2>3, <2>4, <2>5, <2>6
  <2>7. CASE Handler(s, was, sq)
    BY <1>1, <2>2, <2>4, <2>5, <2>7, ModeHandled
  <2>. QED BY <2>2, <2>6, <2>7
<1>14. CASE ReapWrite \/ ReapTimer
  <2>1. Reaps /\ UNCHANGED <<sq, sock, kernel, numSockets>>
    BY <1>14 DEF ReapWrite, ReapTimer, kernelVars
  <2>. QED BY <2>1, AcceptCount, ModeSame
<1>. QED BY <1>2, <1>3, <1>4, <1>5, <1>6, <1>7, <1>9, <1>11, <1>12, <1>13, <1>14, ModeIssued, ModeKernel
         DEF Next, LoopNext, Reap

(* The invariant behind the ownership of slots.                               *)
SlotsInv == Typing /\ SlotsOK /\ Named /\ ModeOK

(* The invariant holds at the start, when nothing is on its way.              *)
LEMMA SlotsInitially ==
  ASSUME Init
  PROVE  SlotsInv
<1>1. Typing
  BY InitTyped
<1>2. \A S : ~Has(sq, S) /\ Only(sq, S) /\ ~Has(cq, S) /\ Only(cq, S)
  BY DEF Init, Has, Only
<1>3. /\ \A x \in Sockets : sock[x] = Fresh
      /\ kernel.connects = {} /\ kernel.recvs = {} /\ kernel.accept = "never" /\ numSockets = 0
      /\ \A d \in Dds : slots[d] = None
  BY DEF Init
<1>4. \A x \in Sockets : sock[x].state = "unused" /\ sock[x].dd = -1 /\ sock[x].dd < 0
  BY <1>3 DEF Fresh
<1>5. SlotsOK
  BY <1>2, <1>3, <1>4 DEF SlotsOK, SocketOK, AcceptOK, ConnectOK, RecvOK, Reading, CloseOK, HoldOK, Holding, SlotOK
<1>6. Named
  BY <1>2, <1>3 DEF Named, DdOK, FreshOK
<1>7. ModeOK
  BY <1>2, <1>3, <1>4 DEF ModeOK
<1>. QED BY <1>1, <1>5, <1>6, <1>7 DEF SlotsInv

(* Every step keeps the invariant.                                            *)
LEMMA SlotsInvStep ==
  ASSUME OneRole, SlotsInv, [Next]_vars
  PROVE  SlotsInv'
<1>1. CASE Next
  BY <1>1, TypedStep, SlotsStep, NamedStep, ModeStep DEF SlotsInv
<1>2. CASE UNCHANGED vars
  BY <1>2 DEF vars, SlotsInv, Typing, KernelTyped, LoopTyped, SlotsOK, SocketOK, AcceptOK, ConnectOK, RecvOK,
              Reading, CloseOK, HoldOK, Holding, SlotOK, Named, DdOK, FreshOK, ModeOK
<1>. QED BY <1>1, <1>2

(* A slot named by its socket, or by a completion or close on its way, is     *)
(* owned.                                                                     *)
LEMMA SlotsInvOwned ==
  ASSUME SlotsInv
  PROVE  SlotsOwned
<1> SUFFICES ASSUME NEW d \in Dds, slots[d] # None
             PROVE  LET s == slots[d] IN
                    CASE sock[s].state = "unused" ->
                           \E i \in DOMAIN cq : cq[i].tag = "accept" /\ cq[i].s = s /\ cq[i].dd = d
                      [] sock[s].state \in {"linked", "open"} -> sock[s].dd = d
                      [] sock[s].state = "closed" ->
                           \E i \in DOMAIN sq : sq[i].op = "close" /\ sq[i].dd = d
  BY DEF SlotsOwned
<1>1. PICK s \in Sockets : slots[d] = s
  BY DEF SlotsInv, Typing, KernelTyped
<1>2. sock[s].state \in {"unused", "linked", "open", "closed"}
  <2>1. sock[s] \in Socks
    BY DEF SlotsInv, Typing, LoopTyped
  <2>. QED BY <2>1 DEF Socks, States
<1>3. SlotOK(d) /\ DdOK(s)
  BY DEF SlotsInv, SlotsOK, Named
<1>4. CASE sock[s].state = "unused"
  BY <1>1, <1>3, <1>4 DEF SlotOK, Holding, Has, Took
<1>5. CASE sock[s].state \in {"linked", "open"}
  BY <1>1, <1>3, <1>5 DEF SlotOK
<1>6. CASE sock[s].state = "closed"
  <2>1. Has(sq, Sub("close", s)) /\ sock[s].dd = d
    BY <1>1, <1>3, <1>6 DEF SlotOK, Holding
  <2>2. PICK i \in DOMAIN sq : sq[i] \in Sub("close", s)
    BY <2>1 DEF Has
  <2>3. sq[i].dd = d
    BY <1>3, <2>1, <2>2 DEF DdOK, Has, Other, Sub, Ops
  <2>. QED BY <1>1, <1>6, <2>2, <2>3 DEF Sub
<1>. QED BY <1>1, <1>2, <1>4, <1>5, <1>6

(* Every slot of the direct descriptor table belongs to a socket that will    *)
(* give it up: its accept is on its way, it is in use and believes in this    *)
(* very slot, or its close is queued.  So no slot leaks and none is freed     *)
(* under its owner, for any number of sockets and slots, if the program       *)
(* either accepts or connects; with both, the counter of the connects runs    *)
(* into slots the kernel gave to accepted sockets.                            *)
THEOREM SlotsAreOwned ==
  ASSUME OneRole
  PROVE  Spec => []SlotsOwned
<1>1. Init => SlotsInv
  BY SlotsInitially
<1>2. SlotsInv /\ [Next]_vars => SlotsInv'
  BY SlotsInvStep
<1>3. SlotsInv => SlotsOwned
  BY SlotsInvOwned
<1>. QED BY <1>1, <1>2, <1>3, PTL DEF Spec

-----------------------------------------------------------------------------
(* Sends.                                                                    *)

(* A send is in one place, ahead of the close of its socket; the buffer holds *)
(* the last message written, which is the next the peer is to receive.        *)
SendOK(x) ==
  /\ Only(sq, Sub("send", x)) /\ Only(kernel.sends, KSend(x))
  /\ Has(sq, Sub("send", x)) =>
       ~Has(kernel.sends, KSend(x)) /\ (sock[x].state = "closed" => Has(sq, Sub("close", x)))
  /\ Before(sq, Sub("send", x), Sub("close", x))
  /\ Has(sq, Sub("send", x)) \/ Has(kernel.sends, KSend(x)) => sock[x].wrote = Len(got[x]) + 1
  /\ \A i \in DOMAIN kernel.sends : kernel.sends[i].s = x => kernel.sends[i].conn = x
  /\ buf[x] = <<x, sock[x].wrote>>
  /\ got[x] = [i \in 1..Len(got[x]) |-> <<x, i>>]
SendsOK == \A x \in Sockets : SendOK(x)

(* A step that leaves the sends of x where they are.                          *)
SameSend(x) ==
  /\ SameQueue(sq, sq', Sub("send", x))
  /\ Before(sq, Sub("send", x), Sub("close", x)) => Before(sq', Sub("send", x), Sub("close", x))
  /\ Has(sq, Sub("close", x)) => Has(sq', Sub("close", x))
  /\ sock'[x].state = "closed" => sock[x].state = "closed" \/ Has(sq', Sub("close", x))
  /\ sock'[x].wrote = sock[x].wrote /\ buf'[x] = buf[x]

(* A step that leaves the sends, the messages and the buffer of x alone.      *)
LEMMA SendSame ==
  ASSUME NEW x \in Sockets, SendOK(x), SameSend(x), kernel'.sends = kernel.sends, UNCHANGED got
  PROVE  SendOK(x)'
BY DEF SendOK, SameSend, SameQueue

(* The library queues a receive, a connect or a close: sends stay ahead of    *)
(* closes.                                                                    *)
LEMMA LibraryQueues ==
  ASSUME Typing, NEW e \in Sqes, e.op # "send"
  PROVE  \A x : /\ SameQueue(sq, Append(sq, e), Sub("send", x))
                /\ Before(sq, Sub("send", x), Sub("close", x))
                     => Before(Append(sq, e), Sub("send", x), Sub("close", x))
                /\ Has(sq, Sub("close", x)) => Has(Append(sq, e), Sub("close", x))
                /\ e.op # "close" \/ e.s # x => (Has(Append(sq, e), Sub("close", x)) <=> Has(sq, Sub("close", x)))
                /\ e.op = "close" /\ e.s = x => Has(Append(sq, e), Sub("close", x))
<1>1. sq \in Seq(Sqes)
  BY DEF Typing, LoopTyped
<1>2. \A x : e \notin Sub("send", x) /\ (e \in Sub("close", x) <=> e.op = "close" /\ e.s = x)
  BY DEF Sub
<1>. QED BY <1>1, <1>2, AppendFacts, QueueAppend

(* A handler may queue a send: by then the last one has arrived, so the       *)
(* buffer is free, and no close of the socket is queued yet.                  *)
LEMMA HandlerSends ==
  ASSUME Typing, SlotsOK, SendsOK, Orderly,
         NEW s \in Sockets, NEW was \in [Sockets -> Socks], NEW queue \in Seq(Sqes), Handler(s, was, queue),
         kernel'.sends = kernel.sends, UNCHANGED got,
         \A x \in Sockets :
           /\ SameQueue(sq, queue, Sub("send", x))
           /\ Before(sq, Sub("send", x), Sub("close", x)) => Before(queue, Sub("send", x), Sub("close", x))
           /\ Has(sq, Sub("close", x)) => Has(queue, Sub("close", x))
           /\ was[x].state = "closed" => sock[x].state = "closed" \/ Has(queue, Sub("close", x))
           /\ was[x].wrote = sock[x].wrote,
         was[s].state # "closed" => ~Has(queue, Sub("close", s))
  PROVE  SendsOK'
<1>1. \A x \in Sockets : was[x] \in Socks /\ sock[x] \in Socks /\ sock[x].wrote \in Nat
  <2>1. sock \in [Sockets -> Socks]
    BY DEF Typing, LoopTyped
  <2>. QED BY <2>1 DEF Socks
<1>2. CASE sq' = queue /\ sock' = was /\ UNCHANGED buf
  BY <1>2, SendSame DEF SendsOK, SameSend
<1>3. CASE (\E t \in BOOLEAN : sock' = [was EXCEPT ![s].timed = t]) /\ sq' = queue /\ UNCHANGED buf
  <2>1. \A x \in Sockets : sock'[x].state = was[x].state /\ sock'[x].wrote = was[x].wrote
    BY <1>1, <1>3 DEF Socks
  <2>. QED BY <1>3, <2>1, SendSame DEF SendsOK, SameSend
<1>4. CASE /\ MayWrite(s, was)
           /\ buf' = Copied(s)
           /\ sq' = Append(queue, [op |-> "send", s |-> s, dd |-> was[s].dd])
           /\ sock' = [was EXCEPT ![s].wrote = @ + 1]
  <2> DEFINE e == [op |-> "send", s |-> s, dd |-> was[s].dd]
  <2>1. e \in Sqes
    <3>1. was[s].dd \in Int
      BY <1>1 DEF Socks
    <3>. QED BY <3>1, SqeFacts DEF Ops
  <2>2. sq' = Append(queue, e) /\ e.op = "send" /\ e.s = s
    BY <1>4
  <2> HIDE DEF e
  <2>3. \A x : (e \in Sub("send", x) <=> x = s) /\ e \notin Sub("close", x)
    BY <2>1, <2>2 DEF Sub
  <2>4. /\ \A S : Has(sq', S) <=> Has(queue, S) \/ e \in S
        /\ \A S : Only(queue, S) /\ (e \in S => ~Has(queue, S)) => Only(sq', S)
        /\ \A A, B : Before(queue, A, B) /\ (e \in A => e \notin B /\ ~Has(queue, B)) => Before(sq', A, B)
    BY <2>1, <2>2, AppendFacts
  <2>5. sock[s].wrote = Len(got[s]) /\ was[s].state # "closed"
    BY <1>4 DEF MayWrite, Orderly, Quiet
  <2>6. ASSUME NEW x \in Sockets, x # s PROVE SendOK(x)'
    <3>1. SameQueue(sq, sq', Sub("send", x))
      BY <2>3, <2>4, <2>6 DEF SameQueue
    <3>2. Before(sq, Sub("send", x), Sub("close", x)) => Before(sq', Sub("send", x), Sub("close", x))
      BY <2>3, <2>4, <2>6
    <3>3. sock'[x] = was[x] /\ buf'[x] = buf[x]
      BY <1>4, <2>6 DEF Copied, Typing, LoopTyped
    <3>. QED BY <2>4, <2>6, <3>1, <3>2, <3>3, SendSame DEF SendsOK, SameSend
  <2>7. SendOK(s)'
    <3>1. SendOK(s)
      BY DEF SendsOK
    <3>2. Len(got[s]) \in Nat
      BY DEF Typing, KernelTyped
    <3>3. ~Has(sq, Sub("send", s)) /\ ~Has(kernel.sends, KSend(s))
      BY <2>5, <3>1, <3>2 DEF SendOK
    <3>4. ~Has(queue, Sub("send", s)) /\ Only(queue, Sub("send", s)) /\ ~Has(queue, Sub("close", s))
          /\ Before(queue, Sub("send", s), Sub("close", s))
      BY <2>5, <3>1, <3>3 DEF SendOK, SameQueue
    <3>5. Only(sq', Sub("send", s)) /\ Before(sq', Sub("send", s), Sub("close", s))
      BY <2>3, <2>4, <3>4
    <3>6. sock'[s].state = was[s].state /\ sock'[s].wrote = sock[s].wrote + 1
      BY <1>1, <1>4 DEF Socks
    <3>7. buf'[s] = <<s, sock'[s].wrote>>
      BY <1>4, <3>6 DEF Copied, Typing, LoopTyped
    <3>. QED BY <2>5, <3>1, <3>3, <3>5, <3>6, <3>7 DEF SendOK
  <2>. QED BY <2>6, <2>7 DEF SendsOK
<1>. QED BY <1>2, <1>3, <1>4 DEF Handler

(* Steps of the loop that run no handler.                                     *)
LEMMA SendsKept ==
  ASSUME SendsOK, UNCHANGED <<sq, buf, got>>, kernel'.sends = kernel.sends,
         \A x \in Sockets : sock'[x].wrote = sock[x].wrote /\ (sock'[x].state = "closed" => sock[x].state = "closed")
  PROVE  SendsOK'
BY SendSame, QueueSame DEF SendsOK, SameSend

(* Steps that queue a submission and run no handler.                          *)
LEMMA SendsQueued ==
  ASSUME Typing, SendsOK, UNCHANGED <<buf, got>>, kernel'.sends = kernel.sends,
         NEW e \in Sqes, e.op # "send", sq' = Append(sq, e),
         \A x \in Sockets : sock'[x].wrote = sock[x].wrote /\ (sock'[x].state = "closed" => sock[x].state = "closed")
  PROVE  SendsOK'
BY LibraryQueues, SendSame DEF SendsOK, SameSend

(* A send the kernel starts goes to the connection of its own socket, because *)
(* no close of it has freed the slot.                                         *)
LEMMA SendIssued ==
  ASSUME Typing, SlotsOK, Named, SendsOK, Issue
  PROVE  SendsOK'
<1>1. sq \in Seq(Sqes) /\ sq # <<>> /\ sq' = Tail(sq) /\ UNCHANGED <<sock, buf, got>>
  BY DEF Issue, Typing, LoopTyped
<1> DEFINE e == Head(sq)
<1>2. /\ e \in Sqes
      /\ \A S : Has(sq, S) <=> e \in S \/ Has(sq', S)
      /\ \A S : Only(sq, S) => Only(sq', S) /\ (e \in S => ~Has(sq', S))
      /\ \A A, B : Before(sq, A, B) => Before(sq', A, B) /\ (e \in B => ~Has(sq', A))
  BY <1>1, TailFacts
<1>3. \A op, x : e \in Sub(op, x) <=> e.op = op /\ e.s = x
  BY <1>2 DEF Sub
<1>4. ASSUME NEW x \in Sockets, e.op # "send" \/ e.s # x
      PROVE  /\ SameQueue(sq, sq', Sub("send", x)) /\ Before(sq', Sub("send", x), Sub("close", x))
             /\ Has(sq', Sub("send", x)) => (sock[x].state = "closed" => Has(sq', Sub("close", x)))
  <2>1. SendOK(x)
    BY DEF SendsOK
  <2>2. SameQueue(sq, sq', Sub("send", x)) /\ Before(sq', Sub("send", x), Sub("close", x))
    BY <1>2, <1>3, <1>4, <2>1 DEF SendOK, SameQueue
  <2>3. e \in Sub("close", x) => ~Has(sq', Sub("send", x))
    BY <1>2, <2>1 DEF SendOK
  <2>. QED BY <1>2, <2>1, <2>2, <2>3 DEF SendOK, SameQueue
<1>5. CASE kernel'.sends = kernel.sends
  <2>1. ASSUME NEW x \in Sockets PROVE SendOK(x)'
    <3>1. SendOK(x)
      BY DEF SendsOK
    <3>2. CASE e.op # "send" \/ e.s # x
      BY <1>1, <1>4, <1>5, <3>1, <3>2 DEF SendOK, SameQueue
    <3>3. CASE e.op = "send" /\ e.s = x
      <4>1. /\ ~Has(sq', Sub("send", x)) /\ Only(sq', Sub("send", x))
            /\ Before(sq', Sub("send", x), Sub("close", x))
        BY <1>2, <1>3, <3>1, <3>3 DEF SendOK
      <4>. QED BY <1>1, <1>5, <3>1, <4>1 DEF SendOK
    <3>. QED BY <3>2, <3>3
  <2>. QED BY <2>1 DEF SendsOK
<1>6. CASE e.op = "send" /\ \E c \in Sockets : /\ kernel'.sends = Append(kernel.sends, [s |-> e.s, conn |-> c])
                                             /\ e.dd \in Dds /\ c = slots[e.dd]
  <2>1. PICK s \in Sockets : e.s = s
    BY <1>2, <1>6, SqeFacts DEF Ops
  <2>2. SendOK(s) /\ Has(sq, Sub("send", s)) /\ ~Has(sq', Sub("send", s)) /\ Only(sq', Sub("send", s))
        /\ Before(sq', Sub("send", s), Sub("close", s))
    BY <1>2, <1>3, <1>6, <2>1 DEF SendsOK, SendOK
  <2>3. e.dd = sock[s].dd
    BY <1>1, <1>6, <2>1, HeadNames DEF Named, Ops
  <2>4. Holding(s)
    <3>1. sock[s].state # "unused"
      BY <2>2 DEF Named, FreshOK
    <3>2. sock[s].state \in States
      <4>1. sock[s] \in Socks
        BY DEF Typing, LoopTyped
      <4>. QED BY <4>1 DEF Socks
    <3>. QED BY <2>2, <3>1, <3>2 DEF SendOK, Holding, States
  <2>5. slots[e.dd] = s
    BY <1>6, <2>3, <2>4 DEF SlotsOK, SocketOK, HoldOK
  <2> DEFINE u == [s |-> s, conn |-> s]
  <2>6. u \in Uses /\ kernel'.sends = Append(kernel.sends, u) /\ kernel.sends \in Seq(Uses) /\ u.s = s /\ u.conn = s
    BY <1>6, <2>1, <2>5 DEF Uses, Typing, KernelTyped
  <2> HIDE DEF u, e
  <2>7. /\ \A S : Has(kernel'.sends, S) <=> Has(kernel.sends, S) \/ u \in S
        /\ \A S : Only(kernel.sends, S) /\ (u \in S => ~Has(kernel.sends, S)) => Only(kernel'.sends, S)
    BY <2>6, AppendFacts
  <2>8. \A x : u \in KSend(x) <=> x = s
    BY <2>6 DEF KSend
  <2>9. ASSUME NEW x \in Sockets, NEW i \in DOMAIN kernel'.sends, kernel'.sends[i].s = x PROVE kernel'.sends[i].conn = x
    <3>1. CASE i \in DOMAIN kernel.sends
      <4>1. kernel'.sends[i] = kernel.sends[i]
        BY <2>6, <3>1
      <4>. QED BY <2>9, <3>1, <4>1 DEF SendsOK, SendOK
    <3>2. CASE i \notin DOMAIN kernel.sends
      <4>1. kernel'.sends[i] = u
        BY <2>6, <2>9, <3>2
      <4>. QED BY <2>6, <2>9, <4>1
    <3>. QED BY <3>1, <3>2
  <2>10. ASSUME NEW x \in Sockets PROVE SendOK(x)'
    <3>1. SendOK(x)
      BY DEF SendsOK
    <3>2. CASE x # s
      <4>1. (Has(kernel'.sends, KSend(x)) <=> Has(kernel.sends, KSend(x))) /\ Only(kernel'.sends, KSend(x))
        BY <2>7, <2>8, <3>1, <3>2 DEF SendOK
      <4>. QED BY <1>1, <1>4, <2>1, <2>9, <3>1, <3>2, <4>1 DEF SendOK, SameQueue
    <3>3. CASE x = s
      <4>1. ~Has(kernel.sends, KSend(s)) /\ Only(kernel'.sends, KSend(s)) /\ sock[s].wrote = Len(got[s]) + 1
        BY <2>2, <2>7 DEF SendOK
      <4>. QED BY <1>1, <2>2, <2>9, <3>1, <3>3, <4>1 DEF SendOK
    <3>. QED BY <3>2, <3>3
  <2>. QED BY <2>10 DEF SendsOK
<1>7. kernel'.sends = kernel.sends \/
      (e.op = "send" /\ \E c \in Sockets : /\ kernel'.sends = Append(kernel.sends, [s |-> e.s, conn |-> c])
                                          /\ e.dd \in Dds /\ c = slots[e.dd])
  <2>1. slots \in [Dds -> Sockets \cup {None}]
    BY DEF Typing, KernelTyped
  <2>. QED BY <2>1 DEF Issue, Issued, Typing, KernelTyped
<1>. QED BY <1>5, <1>6, <1>7

(* The kernel executes a send: the peer receives the next message of its      *)
(* socket.                                                                    *)
LEMMA SendExecuted ==
  ASSUME Typing, SendsOK, NEW i \in DOMAIN kernel.sends, Sends(i)
  PROVE  SendsOK'
<1>1. kernel.sends \in Seq(Uses) /\ kernel.sends[i] \in Uses
  <2>1. kernel.sends \in Seq(Uses)
    BY DEF Typing, KernelTyped
  <2>. QED BY <2>1
<1>2. PICK s \in Sockets : kernel.sends[i].s = s
  BY <1>1 DEF Uses
<1>3. SendOK(s) /\ kernel.sends[i].conn = s /\ kernel.sends[i] \in KSend(s)
  BY <1>1, <1>2 DEF SendsOK, SendOK, KSend
<1>4. UNCHANGED <<sq, sock, buf>> /\ got' = [got EXCEPT ![s] = Append(got[s], buf[s])] /\ got \in [Sockets -> Seq(Sockets \X Nat)]
      /\ kernel'.sends = RemoveAt(kernel.sends, i)
  BY <1>2, <1>3 DEF Sends, Typing, KernelTyped
<1>5. /\ \A S : Has(kernel'.sends, S) => Has(kernel.sends, S)
      /\ \A S : Only(kernel.sends, S) => Only(kernel'.sends, S) /\ (kernel.sends[i] \in S => ~Has(kernel'.sends, S))
      /\ \A j \in DOMAIN kernel'.sends : \E k \in DOMAIN kernel.sends : kernel'.sends[j] = kernel.sends[k]
  BY <1>1, <1>4, RemoveAtFacts
<1>6. Has(kernel.sends, KSend(s)) /\ ~Has(kernel'.sends, KSend(s)) /\ ~Has(sq, Sub("send", s))
  BY <1>3, <1>5 DEF SendOK, Has
<1>7. ASSUME NEW x \in Sockets, NEW j \in DOMAIN kernel'.sends, kernel'.sends[j].s = x
      PROVE  kernel'.sends[j].conn = x
  <2>1. PICK k \in DOMAIN kernel.sends : kernel'.sends[j] = kernel.sends[k]
    BY <1>5
  <2>2. \A n \in DOMAIN kernel.sends : kernel.sends[n].s = x => kernel.sends[n].conn = x
    BY DEF SendsOK, SendOK
  <2>. QED BY <1>7, <2>1, <2>2
<1>8. ASSUME NEW x \in Sockets, x # s PROVE SendOK(x)'
  <2>1. SendOK(x) /\ got'[x] = got[x]
    BY <1>4, <1>8 DEF SendsOK
  <2>. QED BY <1>4, <1>5, <1>7, <2>1 DEF SendOK
<1>9. SendOK(s)'
  <2>1. sock[s].wrote = Len(got[s]) + 1 /\ buf[s] = <<s, Len(got[s]) + 1>> /\ got[s] = [k \in 1..Len(got[s]) |-> <<s, k>>]
    BY <1>3, <1>6 DEF SendOK
  <2>2. got'[s] = [k \in 1..Len(got'[s]) |-> <<s, k>>]
    <3>1. got'[s] = Append(got[s], <<s, Len(got[s]) + 1>>)
      BY <1>4, <2>1
    <3>2. got[s] \in Seq(Sockets \X Nat)
      BY <1>4
    <3>3. Len(got'[s]) = Len(got[s]) + 1
      BY <3>1, <3>2
    <3>4. DOMAIN got'[s] = 1..Len(got'[s])
      BY <3>1, <3>2
    <3>5. \A k \in 1..Len(got'[s]) : got'[s][k] = <<s, k>>
      <4>1. \A k \in 1..Len(got[s]) : got[s][k] = <<s, k>>
        BY <2>1
      <4>. QED BY <3>1, <3>2, <3>3, <4>1
    <3>6. got'[s] = [k \in DOMAIN got'[s] |-> got'[s][k]]
      BY <3>1, <3>2
    <3>. QED BY <3>4, <3>5, <3>6
  <2>3. Only(kernel'.sends, KSend(s))
    BY <1>3, <1>5 DEF SendOK
  <2>. QED BY <1>3, <1>4, <1>6, <1>7, <2>2, <2>3 DEF SendOK
<1>. QED BY <1>8, <1>9 DEF SendsOK

-----------------------------------------------------------------------------
(* A peer receives what was written to it.                                   *)

(* The record of a socket that a completion finds, under a new state.         *)
LEMMA SockTyped ==
  ASSUME Typing
  PROVE  \A x \in Sockets : sock[x] \in Socks /\ sock[x].dd \in Int
<1>1. \A x \in Sockets : sock[x] \in Socks
  BY DEF Typing, LoopTyped
<1>. QED BY <1>1 DEF Socks

(* The completions the loop takes.                                            *)
LEMMA SendsReaped ==
  ASSUME Typing, SlotsOK, SendsOK, Orderly, Reap
  PROVE  SendsOK'
<1>1. sq \in Seq(Sqes) /\ sock \in [Sockets -> Socks] /\ \A x \in Sockets : sock[x] \in Socks /\ sock[x].dd \in Int
  BY SockTyped DEF Typing, LoopTyped
<1>2. ASSUME Reaps, Head(cq).tag # "timer" PROVE \E s \in Sockets : Head(cq).s = s /\ Head(cq).dd \in Int
  BY <1>2, Reaped1
<1>3. ASSUME NEW x \in Sockets, sock[x].state # "closed" PROVE ~Has(sq, Sub("close", x))
  BY <1>3 DEF SlotsOK, SocketOK, CloseOK
<1>4. CASE ReapWrite \/ ReapTimer
  BY <1>4, SendsKept DEF ReapWrite, ReapTimer, kernelVars
<1>5. CASE ReapData
  <2>1. PICK s \in Sockets : Head(cq).s = s
    BY <1>2, <1>5 DEF ReapData
  <2>2. Handler(s, sock, sq) /\ UNCHANGED <<kernel, got>>
    BY <1>5, <2>1 DEF ReapData
  <2>. QED BY <1>1, <1>3, <2>2, HandlerSends, QueueSame
<1>6. ASSUME NEW s \in Sockets, NEW was \in [Sockets -> Socks], NEW e \in Sqes, e.op # "send",
             Handler(s, was, Append(sq, e)), UNCHANGED <<kernel, got>>,
             \A x \in Sockets \ {s} : was[x] = sock[x], was[s].wrote = sock[s].wrote,
             \/ e.op = "close" /\ e.s = s /\ was[s].state = "closed"
             \/ e.op # "close" /\ was[s].state # "closed" /\ sock[s].state # "closed"
      PROVE  SendsOK'
  <2> DEFINE queue == Append(sq, e)
  <2>1. queue \in Seq(Sqes) /\ Handler(s, was, queue)
    BY <1>1, <1>6
  <2>2. \A x : /\ SameQueue(sq, queue, Sub("send", x))
               /\ Before(sq, Sub("send", x), Sub("close", x)) => Before(queue, Sub("send", x), Sub("close", x))
               /\ Has(sq, Sub("close", x)) => Has(queue, Sub("close", x))
               /\ e.op # "close" \/ e.s # x => (Has(queue, Sub("close", x)) <=> Has(sq, Sub("close", x)))
               /\ e.op = "close" /\ e.s = x => Has(queue, Sub("close", x))
    BY <1>6, LibraryQueues
  <2> HIDE DEF queue
  <2>3. was[s].state # "closed" => ~Has(queue, Sub("close", s))
    BY <1>3, <1>6, <2>2
  <2>4. \A x \in Sockets :
          /\ was[x].state = "closed" => sock[x].state = "closed" \/ Has(queue, Sub("close", x))
          /\ was[x].wrote = sock[x].wrote
    BY <1>6, <2>2
  <2>. QED BY <1>6, <2>1, <2>2, <2>3, <2>4, HandlerSends
<1>7. CASE ReapEnd
  <2>1. PICK s \in Sockets : Head(cq).s = s
    BY <1>2, <1>7 DEF ReapEnd
  <2> DEFINE was == [sock EXCEPT ![s].state = "closed"]
             e == Sqe("close", s)
  <2>2. sq \o CloseSqe(s) = Append(sq, e)
    BY <1>1 DEF CloseSqe
  <2>3. Handler(s, was, sq \o CloseSqe(s)) /\ UNCHANGED <<kernel, got>>
    BY <1>7, <2>1 DEF ReapEnd
  <2>4. Handler(s, was, Append(sq, e))
    BY <2>2, <2>3
  <2>5. e \in Sqes /\ e.op = "close" /\ e.s = s
    BY <1>1, SqeFacts DEF Sqe, Ops
  <2>6. /\ was \in [Sockets -> Socks] /\ was[s].state = "closed" /\ was[s].wrote = sock[s].wrote
        /\ \A x \in Sockets \ {s} : was[x] = sock[x]
    BY StateChanged DEF States
  <2> HIDE DEF was, e
  <2>. QED BY <1>6, <2>3, <2>4, <2>5, <2>6
<1>8. CASE ReapConnect
  <2>1. PICK s \in Sockets : Head(cq).s = s
    BY <1>2, <1>8 DEF ReapConnect
  <2>2. sock[s].state # "closed"
    <3>1. Reaps /\ Head(cq) \in Com("connect", s)
      BY <1>8, <2>1, Reaped1 DEF ReapConnect, Com
    <3>. QED BY <3>1, CqTakes DEF SlotsOK, SocketOK, ConnectOK
  <2> DEFINE was == [sock EXCEPT ![s].state = "open"]
             e == RecvSqe(s, sock[s].dd)
  <2>3. Handler(s, was, Append(sq, e)) /\ UNCHANGED <<kernel, got>>
    BY <1>8, <2>1 DEF ReapConnect, kernelVars
  <2>4. e \in Sqes /\ e.op = "recv"
    BY <1>1, SqeFacts DEF RecvSqe, Ops
  <2>5. /\ was \in [Sockets -> Socks] /\ was[s].state = "open" /\ was[s].wrote = sock[s].wrote
        /\ \A x \in Sockets \ {s} : was[x] = sock[x]
    BY StateChanged DEF States
  <2> HIDE DEF was, e
  <2>. QED BY <1>6, <2>2, <2>3, <2>4, <2>5
<1>9. CASE ReapAccept
  <2>1. PICK s \in Sockets : Head(cq).s = s /\ Head(cq).dd \in Int
    BY <1>2, <1>9 DEF ReapAccept
  <2>2. sock[s].state # "closed"
    <3>1. Reaps /\ Head(cq) \in Com("accept", s)
      BY <1>9, <2>1, Reaped1 DEF ReapAccept, Com
    <3>. QED BY <3>1, CqTakes DEF SlotsOK, SocketOK, AcceptOK
  <2> DEFINE d0 == Head(cq).dd
             was == [sock EXCEPT ![s] = [sock[s] EXCEPT !.state = "open", !.dd = d0]]
             e == RecvSqe(s, d0)
  <2>3. Handler(s, was, IF d0 >= 0 THEN Append(sq, e) ELSE sq) /\ UNCHANGED <<kernel, got>>
    BY <1>9, <2>1 DEF ReapAccept, Descriptor, kernelVars
  <2>4. e \in Sqes /\ e.op = "recv"
    BY <2>1, SqeFacts DEF RecvSqe, Ops
  <2>5. /\ was \in [Sockets -> Socks] /\ was[s].state = "open" /\ was[s].wrote = sock[s].wrote
        /\ \A x \in Sockets \ {s} : was[x] = sock[x]
    <3> DEFINE new == [sock[s] EXCEPT !.state = "open", !.dd = d0]
    <3>1. new \in Socks /\ new.state = "open" /\ new.wrote = sock[s].wrote
      <4>1. new \in Socks
        BY <1>1, <2>1, SockFacts DEF States
      <4>2. new.state = "open"
        BY <1>1 DEF Socks
      <4>3. new.wrote = sock[s].wrote
        BY <1>1 DEF Socks
      <4>. QED BY <4>1, <4>2, <4>3
    <3>2. was = [sock EXCEPT ![s] = new]
      OBVIOUS
    <3> HIDE DEF was, new
    <3>. QED BY <1>1, <3>1, <3>2
  <2> HIDE DEF was, e, d0
  <2>6. CASE Handler(s, was, Append(sq, e))
    BY <1>6, <2>2, <2>3, <2>4, <2>5, <2>6
  <2>7. CASE Handler(s, was, sq)
    <3>1. \A x \in Sockets :
            /\ was[x].state = "closed" => sock[x].state = "closed"
            /\ was[x].wrote = sock[x].wrote
      BY <2>5
    <3>. QED BY <1>1, <1>3, <2>2, <2>3, <2>5, <2>7, <3>1, HandlerSends, QueueSame
  <2>. QED BY <2>3, <2>6, <2>7
<1>. QED BY <1>4, <1>5, <1>7, <1>8, <1>9 DEF Reap

(* Every step keeps the sends in order and on their own connection.           *)
LEMMA SendsStep ==
  ASSUME Typing, SlotsOK, Named, SendsOK, Orderly, Next
  PROVE  SendsOK'
<1>1. sq \in Seq(Sqes) /\ sock \in [Sockets -> Socks] /\ \A x \in Sockets : sock[x] \in Socks /\ sock[x].dd \in Int
  BY SockTyped DEF Typing, LoopTyped
<1>2. CASE Listen \/ Run \/ SweepDone
  <2>1. PICK e \in Sqes : e.op # "send" /\ sq' = Append(sq, e)
    BY <1>2, SqeFacts DEF Listen, Run, SweepDone
  <2>2. UNCHANGED <<sock, buf, got>> /\ kernel'.sends = kernel.sends
    BY <1>2 DEF Listen, Run, SweepDone, kernelVars, Typing, KernelTyped
  <2>. QED BY <2>1, <2>2, SendsQueued
<1>3. CASE Wakes \/ Drained \/ OutOfBuffers
  BY <1>3, SendsKept DEF Wakes, Drained, OutOfBuffers, kernelVars
<1>4. ASSUME NEW s \in Sockets, ConnectFails(s) PROVE SendsOK'
  <2>1. \A x \in Sockets : sock'[x].wrote = sock[x].wrote /\ (sock'[x].state = "closed" => sock[x].state = "closed")
    BY <1>1, <1>4 DEF ConnectFails, Socks
  <2>. QED BY <1>4, <2>1, SendsKept DEF ConnectFails, kernelVars
<1>5. ASSUME NEW s \in Sockets, Connect(s) PROVE SendsOK'
  <2> DEFINE e == [op |-> "connect", s |-> s, dd |-> numSockets]
  <2>1. numSockets \in Int /\ UNCHANGED <<kernel, buf, got>> /\ sq' = Append(sq, e)
    BY <1>5 DEF Connect, Typing, LoopTyped
  <2>2. e \in Sqes /\ e.op # "send"
    BY <2>1, SqeFacts DEF Ops
  <2> HIDE DEF e
  <2>3. sock' = [sock EXCEPT ![s] = [sock[s] EXCEPT !.state = "linked", !.dd = numSockets]]
    BY <1>1, <1>5 DEF Connect
  <2>4. sock'[s].wrote = sock[s].wrote /\ sock'[s].state = "linked" /\ \A x \in Sockets \ {s} : sock'[x] = sock[x]
    BY <1>1, <2>1, <2>3 DEF Socks
  <2>5. \A x \in Sockets : sock'[x].wrote = sock[x].wrote /\ (sock'[x].state = "closed" => sock[x].state = "closed")
    BY <2>4
  <2>. QED BY <2>1, <2>2, <2>5, SendsQueued
<1>6. CASE SweepNext
  <2>1. PICK s \in Sockets : Head(rest) = s
    BY <1>6, TailFacts DEF SweepNext, Typing, LoopTyped
  <2>2. UNCHANGED <<kernel, got>>
    BY <1>6 DEF SweepNext, kernelVars
  <2>3. CASE UNCHANGED <<sq, sock, buf>>
    BY <2>2, <2>3, SendsKept
  <2>4. ASSUME NEW t \in BOOLEAN, Handler(s, [sock EXCEPT ![s].timed = t], sq) PROVE SendsOK'
    <3> DEFINE was == [sock EXCEPT ![s].timed = t]
    <3>1. was \in [Sockets -> Socks] /\ \A x \in Sockets : was[x].state = sock[x].state /\ was[x].wrote = sock[x].wrote
      BY TimedAgain
    <3>2. Handler(s, was, sq)
      BY <2>4
    <3> HIDE DEF was
    <3>3. was[s].state # "closed" => ~Has(sq, Sub("close", s))
      BY <3>1 DEF SlotsOK, SocketOK, CloseOK
    <3>. QED BY <1>1, <2>2, <3>1, <3>2, <3>3, HandlerSends, QueueSame
  <2>. QED BY <1>6, <2>1, <2>3, <2>4 DEF SweepNext
<1>7. CASE KernelNext
  <2>1. CASE \E i \in DOMAIN kernel.sends : Sends(i)
    BY <2>1, SendExecuted
  <2>2. CASE \/ \E s \in Sockets : Accepts(s) \/ Connected(s)
             \/ \E r \in kernel.recvs : PeerSends(r) \/ PeerLeaves(r)
             \/ TimerExpires
    <3>1. UNCHANGED <<sq, sock, buf, got>> /\ kernel'.sends = kernel.sends
      BY <2>2 DEF Accepts, Connected, PeerSends, PeerLeaves, TimerExpires, Typing, KernelTyped
    <3>. QED BY <3>1, SendsKept
  <2>. QED BY <1>7, <2>1, <2>2 DEF KernelNext
<1>. QED BY <1>2, <1>3, <1>4, <1>5, <1>6, <1>7, SendIssued, SendsReaped DEF Next, LoopNext

(* What a peer has received is what was written on its socket, in order and   *)
(* once, although a submission names a slot and a buffer that are read later: *)
(* for an application that writes on an open socket after its last message    *)
(* has arrived, in a program that either accepts or connects.                 *)
THEOREM OnlyOwnSends ==
  ASSUME OneRole, Orderly
  PROVE  Spec => []OwnSends
<1>1. Init => SlotsInv /\ SendsOK
  <2>1. ASSUME Init PROVE SendsOK
    <3>1. \A S : ~Has(sq, S) /\ Only(sq, S) /\ ~Has(kernel.sends, S) /\ Only(kernel.sends, S)
      BY <2>1 DEF Init, Has, Only
    <3>2. \A A, B : Before(sq, A, B)
      BY <2>1 DEF Init, Before
    <3>3. \A x \in Sockets : buf[x] = <<x, 0>> /\ got[x] = <<>> /\ sock[x].wrote = 0 /\ kernel.sends = <<>>
      BY <2>1 DEF Init, Fresh
    <3>4. \A x \in Sockets : got[x] = [i \in 1..Len(got[x]) |-> <<x, i>>]
      BY <3>3
    <3>. QED BY <3>1, <3>2, <3>3, <3>4 DEF SendsOK, SendOK
  <2>. QED BY <2>1, SlotsInitially
<1>2. SlotsInv /\ SendsOK /\ [Next]_vars => SlotsInv' /\ SendsOK'
  <2>1. SlotsInv /\ SendsOK /\ Next => SendsOK'
    BY SendsStep DEF SlotsInv
  <2>2. SendsOK /\ UNCHANGED vars => SendsOK'
    BY SendsKept DEF vars
  <2>. QED BY <2>1, <2>2, SlotsInvStep
<1>3. SendsOK => OwnSends
  BY DEF SendsOK, SendOK, OwnSends
<1>. QED BY <1>1, <1>2, <1>3, PTL DEF Spec

=================================================================================
