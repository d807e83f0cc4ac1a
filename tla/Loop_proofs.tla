----------------------------- MODULE Loop_proofs -----------------------------
(***************************************************************************)
(* Proofs about the lists of uSockets, then about the event loop that links *)
(* sockets into them, for any number of blocks and contexts, any budget and *)
(* any handlers that make calls.                                            *)
(*                                                                         *)
(* An operation takes a block out of its list and puts it into another one, *)
(* so the invariant of the lists is stated with one block left out: all of  *)
(* ListsOK holds of the other blocks, and none of them points at x.         *)
(*                                                                         *)
(* Supported leaves three uses of the library out: a write to a socket that *)
(* waits in the low-priority queue, which the run LoopQueuedWrite refutes;  *)
(* the adoption of a socket that polls for nothing by another block, which  *)
(* leaves its ready event to the old block; and on_close handlers that      *)
(* close or adopt other sockets while us_socket_context_close runs.         *)
(***************************************************************************)
EXTENDS Loop, FiniteSetTheorems, TLAPS

-----------------------------------------------------------------------------
(* The lists.                                                                 *)

NextBut(m, x) == \A b \in Blocks :
  b # x /\ Live(m, b) /\ m.next[b] # NULL =>
    /\ m.next[b] # x
    /\ Live(m, m.next[b])
    /\ ListOf(m, m.next[b]) = ListOf(m, b)
    /\ m.prev[m.next[b]] = b

PrevBut(m, x) == \A b \in Blocks :
  b # x /\ Live(m, b) =>
    IF m.prev[b] = NULL
    THEN m.head[ListOf(m, b)] = b
    ELSE m.prev[b] \in Blocks /\ m.prev[b] # x /\ Live(m, m.prev[b]) /\ m.next[m.prev[b]] = b

HeadBut(m, x) == \A k \in Lists :
  m.head[k] # NULL =>
    /\ m.head[k] # x
    /\ Live(m, m.head[k])
    /\ ListOf(m, m.head[k]) = k
    /\ m.prev[m.head[k]] = NULL

ClosedBut(m, x) ==
  /\ m.closed # NULL => m.closed # x /\ Closed(m, m.closed)
  /\ \A b \in Blocks : b # x /\ Closed(m, b) =>
       /\ m.next[b] # NULL => m.next[b] # x /\ Closed(m, m.next[b]) /\ m.next[b] # m.closed
       /\ b = m.closed \/ \E a \in Blocks : a # x /\ Closed(m, a) /\ m.next[a] = b
  /\ \A a, b \in Blocks :
       /\ a # x /\ Closed(m, a) /\ b # x /\ Closed(m, b)
       /\ m.next[a] = m.next[b] /\ m.next[a] # NULL
       => a = b

IteratorBut(m, x) == \A c \in Contexts :
  m.iterator[c] # NULL => m.iterator[c] # x /\ Linked(m, m.iterator[c], c)

KindBut(m, x) == \A b \in Blocks :
  b # x /\ m.kind[b] \in {"free", "listen", "connecting"} => m.lowPrio[b] = 0

ContextBut(m, x) == \A b \in Blocks : b # x /\ ~Free(m, b) => m.context[b] \in Contexts

\* Each list is walked downhill: a new member comes on top.
Downhill(m, x, r) == \A b \in Blocks :
  b # x /\ Live(m, b) /\ m.next[b] # NULL => r[m.next[b]] < r[b]

ListsBut(m, x) ==
  /\ KindBut(m, x) /\ ContextBut(m, x)
  /\ NextBut(m, x) /\ PrevBut(m, x) /\ HeadBut(m, x)
  /\ ClosedBut(m, x) /\ IteratorBut(m, x)
  /\ \E r \in [Blocks -> Int] : Downhill(m, x, r)

(* What the assumption on the constants comes to.                            *)
LEMMA PointerFacts ==
  /\ NULL \notin Blocks /\ NULL \notin Contexts
  /\ \A b \in Blocks : b \notin Contexts
  /\ LowPrio \in Lists
  /\ \A c \in Contexts : <<c, "sockets">> \in Lists /\ <<c, "listen">> \in Lists
  /\ \A c \in Contexts : <<c, "sockets">> # LowPrio /\ <<c, "listen">> # LowPrio
  /\ \A c, d \in Contexts : <<c, "sockets">> # <<d, "listen">>
BY PointerAssumption DEF Lists, LowPrio

(* Nothing left out: ListsBut without an exception is the invariant ListsOK.  *)
LEMMA ButNothing ==
  ASSUME NEW m \in Memory, ListsBut(m, NULL)
  PROVE  ListsOK(m)
<1>1. KindOK(m) /\ ContextOK(m)
  BY PointerFacts DEF ListsBut, KindBut, KindOK, ContextBut, ContextOK
<1>2. NextOK(m) /\ PrevOK(m) /\ HeadOK(m)
  BY PointerFacts DEF ListsBut, NextBut, NextOK, PrevBut, PrevOK, HeadBut, HeadOK
<1>3. ClosedOK(m) /\ IteratorOK(m)
  BY PointerFacts DEF ListsBut, ClosedBut, ClosedOK, IteratorBut, IteratorOK
<1>. QED BY <1>1, <1>2, <1>3 DEF ListsOK

(* What Unlink changes, in both of its branches: the neighbours of s are     *)
(* joined.  The test prev = next is right because a list is no ring.         *)
LEMMA UnlinkFields ==
  ASSUME NEW m \in Memory, ListsBut(m, NULL),
         NEW s \in Blocks, Live(m, s), m.lowPrio[s] # 1
  PROVE  /\ Unlink(m, s) \in Memory
         /\ Unlink(m, s).kind = m.kind
         /\ Unlink(m, s).context = m.context
         /\ Unlink(m, s).lowPrio = m.lowPrio
         /\ Unlink(m, s).closed = m.closed
         /\ Unlink(m, s).next = Store(m.next, m.prev[s], m.next[s])
         /\ Unlink(m, s).prev = Store(m.prev, m.next[s], m.prev[s])
         /\ Unlink(m, s).iterator =
              [m.iterator EXCEPT ![m.context[s]] = IF @ = s THEN m.next[s] ELSE @]
         /\ Unlink(m, s).head =
              [m.head EXCEPT ![ListOf(m, s)] = IF m.prev[s] = NULL THEN m.next[s] ELSE @]
<1> DEFINE p == m.prev[s]
           n == m.next[s]
           c == m.context[s]
           k == ContextList(m, s)
<1>1. c \in Contexts /\ k \in Lists /\ k = ListOf(m, s)
  BY PointerFacts DEF ListsBut, ContextBut, Live, ContextList, ListOf, Lists
<1>2. p \in Pointers /\ n \in Pointers
  BY PointerFacts DEF ListsBut, PrevBut, Live, Memory, Pointers
<1>3. p = n => p = NULL /\ n = NULL
  <2>1. SUFFICES ASSUME p = n, n # NULL PROVE FALSE
    OBVIOUS
  <2>2. n \in Blocks /\ Live(m, n) /\ m.next[n] = s
    BY <2>1, <1>2, PointerFacts DEF ListsBut, PrevBut, Pointers
  <2>3. PICK r \in [Blocks -> Int] : Downhill(m, NULL, r)
    BY DEF ListsBut
  <2>4. r[n] < r[s] /\ r[s] < r[n]
    BY <2>1, <2>2, <2>3, PointerFacts DEF Downhill
  <2>. QED BY <2>2, <2>4
<1>4. m.iterator[c] \in Pointers /\ m.head[k] \in Pointers
  BY <1>1 DEF Memory
<1> DEFINE u == Unlink(m, s)
<1>5. /\ u.kind = m.kind /\ u.context = m.context
      /\ u.lowPrio = m.lowPrio /\ u.closed = m.closed
  BY DEF Unlink, Memory
<1>6. u.iterator = [m.iterator EXCEPT ![c] = IF @ = s THEN n ELSE @]
  BY <1>1, <1>4 DEF Unlink, Memory
<1>7. u.next = Store(m.next, p, n) /\ u.prev = Store(m.prev, n, p)
  <2>1. CASE p = n
    BY <2>1, <1>3, PointerFacts DEF Unlink, Store, Memory
  <2>2. CASE p # n
    BY <2>2 DEF Unlink, Memory
  <2>. QED BY <2>1, <2>2
<1>8. u.head = [m.head EXCEPT ![k] = IF p = NULL THEN n ELSE @]
  <2>1. CASE p = n
    BY <2>1, <1>3 DEF Unlink, Memory
  <2>2. CASE p # n
    BY <2>2 DEF Unlink, Memory
  <2>. QED BY <2>1, <2>2
<1>9. u \in Memory
  <2>1. u = [next |-> u.next, prev |-> u.prev, context |-> u.context, lowPrio |-> u.lowPrio,
             kind |-> u.kind, head |-> u.head, iterator |-> u.iterator, closed |-> u.closed]
    BY DEF Unlink, Memory
  <2>2. u.next \in [Blocks -> Pointers] /\ u.prev \in [Blocks -> Pointers \cup Contexts]
    BY <1>2, <1>7 DEF Store, Memory, Pointers
  <2>3. u.head \in [Lists -> Pointers] /\ u.iterator \in [Contexts -> Pointers]
    BY <1>2, <1>6, <1>8 DEF Memory
  <2>. QED BY <2>1, <2>2, <2>3, <1>5 DEF Memory
<1>. QED BY <1>1, <1>5, <1>6, <1>7, <1>8, <1>9

-----------------------------------------------------------------------------
(* Where a live socket stands: its neighbours are other members of its list. *)
LEMMA Neighbours ==
  ASSUME NEW m \in Memory, ListsBut(m, NULL), NEW s \in Blocks, Live(m, s)
  PROVE  /\ m.prev[s] \in Pointers /\ m.next[s] \in Pointers
         /\ m.prev[s] # s /\ m.next[s] # s
         /\ m.prev[s] # NULL =>
              /\ Live(m, m.prev[s])
              /\ m.next[m.prev[s]] = s
              /\ ListOf(m, m.prev[s]) = ListOf(m, s)
         /\ m.next[s] # NULL =>
              /\ Live(m, m.next[s])
              /\ m.prev[m.next[s]] = s
              /\ ListOf(m, m.next[s]) = ListOf(m, s)
         /\ ListOf(m, s) \in Lists
         /\ m.context[s] \in Contexts
<1>1. PICK r \in [Blocks -> Int] : Downhill(m, NULL, r)
  BY DEF ListsBut
<1>2. m.prev[s] \in Pointers /\ m.next[s] \in Pointers
  BY PointerFacts DEF ListsBut, PrevBut, Memory, Pointers
<1>3. m.prev[s] # NULL =>
        m.prev[s] \in Blocks /\ Live(m, m.prev[s]) /\ m.next[m.prev[s]] = s
  BY PointerFacts DEF ListsBut, PrevBut
<1>4. m.next[s] # NULL =>
        Live(m, m.next[s]) /\ m.prev[m.next[s]] = s /\ ListOf(m, m.next[s]) = ListOf(m, s)
  BY PointerFacts DEF ListsBut, NextBut
<1>5. m.prev[s] # NULL => ListOf(m, m.prev[s]) = ListOf(m, s)
  BY <1>3, PointerFacts DEF ListsBut, NextBut
<1>6. m.next[s] # s
  <2>1. m.next[s] # NULL => r[m.next[s]] < r[s]
    BY <1>1, PointerFacts DEF Downhill
  <2>. QED BY <2>1, PointerFacts
<1>7. m.prev[s] # s
  BY <1>3, <1>6, PointerFacts
<1>8. m.context[s] \in Contexts /\ ListOf(m, s) \in Lists
  BY PointerFacts DEF ListsBut, ContextBut, Live, ContextList, ListOf, Lists
<1>. QED BY <1>2, <1>3, <1>4, <1>5, <1>6, <1>7, <1>8

(* Memory u is m with the neighbours of s joined around it.                  *)
Joins(m, u, s) ==
  /\ u.closed = m.closed
  /\ \A b \in Blocks : b # s =>
       /\ u.kind[b] = m.kind[b]
       /\ u.context[b] = m.context[b]
       /\ u.lowPrio[b] = m.lowPrio[b]
       /\ u.next[b] = IF b = m.prev[s] THEN m.next[s] ELSE m.next[b]
       /\ u.prev[b] = IF b = m.next[s] THEN m.prev[s] ELSE m.prev[b]
  /\ \A k \in Lists : u.head[k] =
       IF k = ListOf(m, s) /\ m.prev[s] = NULL THEN m.next[s] ELSE m.head[k]
  /\ \A c \in Contexts : u.iterator[c] =
       IF m.iterator[c] = s THEN m.next[s] ELSE m.iterator[c]

(* That leaves a well-formed memory without s.                               *)
LEMMA JoinsDetaches ==
  ASSUME NEW m \in Memory, ListsBut(m, NULL), NEW s \in Blocks, Live(m, s),
         NEW u \in Memory, Joins(m, u, s)
  PROVE  ListsBut(u, s)
<1> USE DEF Joins
<1> DEFINE p == m.prev[s]
           n == m.next[s]
<1>1. /\ p \in Pointers /\ n \in Pointers /\ p # s /\ n # s
      /\ p # NULL => Live(m, p) /\ m.next[p] = s /\ ListOf(m, p) = ListOf(m, s)
      /\ n # NULL => Live(m, n) /\ m.prev[n] = s /\ ListOf(m, n) = ListOf(m, s)
      /\ ListOf(m, s) \in Lists
  BY Neighbours
<1>2. \A b \in Blocks : b # s =>
        /\ Live(u, b) <=> Live(m, b)
        /\ Closed(u, b) <=> Closed(m, b)
        /\ Free(u, b) <=> Free(m, b)
        /\ ListOf(u, b) = ListOf(m, b)
  <2>1. SUFFICES ASSUME NEW b \in Blocks, b # s
                 PROVE  /\ Live(u, b) <=> Live(m, b)
                        /\ Closed(u, b) <=> Closed(m, b)
                        /\ Free(u, b) <=> Free(m, b)
                        /\ ListOf(u, b) = ListOf(m, b)
    OBVIOUS
  <2>2. Free(u, b) <=> Free(m, b)
    BY <2>1 DEF Free
  <2>3. ListOf(u, b) = ListOf(m, b)
    BY <2>1 DEF ListOf, ContextList
  <2>4. ~Free(m, b) => (u.prev[b] = u.context[b] <=> m.prev[b] = m.context[b])
    <3>1. CASE b = n
      <4>1. m.context[b] \in Contexts /\ m.prev[b] = s
        BY <3>1, <1>1, <2>1, Neighbours, PointerFacts
      <4>. QED BY <4>1, <3>1, <2>1, <1>1, PointerFacts DEF Pointers
    <3>2. CASE b # n
      BY <3>2, <2>1
    <3>. QED BY <3>1, <3>2
  <2>. QED BY <2>2, <2>3, <2>4 DEF Live, Closed
<1>3. NextBut(u, s)
  <2>1. SUFFICES ASSUME NEW b \in Blocks, b # s, Live(u, b), u.next[b] # NULL
                 PROVE  /\ u.next[b] # s /\ Live(u, u.next[b])
                        /\ ListOf(u, u.next[b]) = ListOf(u, b)
                        /\ u.prev[u.next[b]] = b
    BY DEF NextBut
  <2>2. Live(m, b)
    BY <1>2, <2>1
  <2>3. CASE b = p
    <3>1. u.next[b] = n /\ n \in Blocks /\ n # s
      BY <2>1, <2>3, <1>1 DEF Pointers
    <3>2. Live(u, n) /\ ListOf(u, n) = ListOf(m, s) /\ ListOf(u, b) = ListOf(m, s)
      BY <3>1, <2>1, <2>3, <1>1, <1>2, PointerFacts
    <3>3. u.prev[n] = b
      BY <3>1, <2>3
    <3>. QED BY <3>1, <3>2, <3>3
  <2>4. CASE b # p
    <3>1. u.next[b] = m.next[b] /\ m.next[b] # NULL /\ m.next[b] \in Blocks
      BY <2>1, <2>2, <2>4, Neighbours DEF Pointers
    <3>2. /\ Live(m, m.next[b]) /\ m.prev[m.next[b]] = b
          /\ ListOf(m, m.next[b]) = ListOf(m, b)
      BY <3>1, <2>2, Neighbours
    <3>3. m.next[b] # s /\ m.next[b] # n
      BY <3>1, <3>2, <2>1, <2>4, <1>1
    <3>. QED BY <3>1, <3>2, <3>3, <2>1, <1>2
  <2>. QED BY <2>3, <2>4
<1>4. PrevBut(u, s)
  <2>1. SUFFICES ASSUME NEW b \in Blocks, b # s, Live(u, b)
                 PROVE  IF u.prev[b] = NULL
                        THEN u.head[ListOf(u, b)] = b
                        ELSE /\ u.prev[b] \in Blocks /\ u.prev[b] # s
                             /\ Live(u, u.prev[b]) /\ u.next[u.prev[b]] = b
    BY DEF PrevBut
  <2>2. Live(m, b) /\ ListOf(u, b) = ListOf(m, b) /\ ListOf(m, b) \in Lists
    BY <1>2, <2>1, Neighbours
  <2>3. CASE b = n
    <3>1. u.prev[b] = p
      BY <2>1, <2>3
    <3>2. CASE p = NULL
      BY <3>1, <3>2, <2>2, <2>3, <1>1, PointerFacts
    <3>3. CASE p # NULL
      <4>1. p \in Blocks /\ p # s /\ Live(u, p)
        BY <3>3, <1>1, <1>2 DEF Pointers
      <4>2. u.next[p] = b
        BY <4>1, <2>3
      <4>. QED BY <4>1, <4>2, <3>1, <3>3
    <3>. QED BY <3>2, <3>3
  <2>4. CASE b # n
    <3>1. u.prev[b] = m.prev[b]
      BY <2>1, <2>4
    <3>2. CASE m.prev[b] = NULL
      <4>1. m.head[ListOf(m, b)] = b
        BY <2>2, <3>2, PointerFacts DEF ListsBut, PrevBut
      <4>2. p = NULL => m.head[ListOf(m, s)] = s
        BY PointerFacts DEF ListsBut, PrevBut
      <4>. QED BY <4>1, <4>2, <3>1, <3>2, <2>1, <2>2
    <3>3. CASE m.prev[b] # NULL
      <4>1. /\ m.prev[b] \in Blocks /\ Live(m, m.prev[b]) /\ m.next[m.prev[b]] = b
        BY <3>3, <2>2, Neighbours DEF Pointers
      <4>2. m.prev[b] # s /\ m.prev[b] # p
        BY <4>1, <3>3, <2>1, <2>4, <1>1
      <4>3. Live(u, m.prev[b])
        BY <4>1, <4>2, <1>2
      <4>4. u.next[m.prev[b]] = b
        BY <4>1, <4>2
      <4>. QED BY <4>1, <4>2, <4>3, <4>4, <3>1, <3>3
    <3>. QED BY <3>2, <3>3
  <2>. QED BY <2>3, <2>4
<1>5. HeadBut(u, s)
  <2>1. SUFFICES ASSUME NEW k \in Lists, u.head[k] # NULL
                 PROVE  /\ u.head[k] # s /\ Live(u, u.head[k])
                        /\ ListOf(u, u.head[k]) = k /\ u.prev[u.head[k]] = NULL
    BY DEF HeadBut
  <2>2. CASE k = ListOf(m, s) /\ p = NULL
    BY <2>1, <2>2, <1>1, <1>2 DEF Pointers
  <2>3. CASE ~(k = ListOf(m, s) /\ p = NULL)
    <3>1. u.head[k] = m.head[k] /\ m.head[k] \in Blocks
      BY <2>1, <2>3 DEF Memory, Pointers
    <3>2. Live(m, m.head[k]) /\ ListOf(m, m.head[k]) = k /\ m.prev[m.head[k]] = NULL
      BY <3>1, <2>1 DEF ListsBut, HeadBut
    <3>3. m.head[k] # s /\ m.head[k] # n
      BY <3>1, <3>2, <2>3, <1>1, PointerFacts
    <3>. QED BY <3>1, <3>2, <3>3, <1>2
  <2>. QED BY <2>2, <2>3
<1>6. ClosedBut(u, s)
  <2>1. ~Closed(m, s) /\ (p # NULL => ~Closed(m, p))
    BY <1>1 DEF Live, Closed
  <2>2. \A b \in Blocks : Closed(m, b) =>
          b # s /\ Closed(u, b) /\ u.next[b] = m.next[b]
    BY <1>1, <1>2, <2>1, PointerFacts
  <2>3. \A b \in Blocks : b # s /\ Closed(u, b) => Closed(m, b)
    BY <1>2
  <2>4. m.closed \in Pointers /\ \A b \in Blocks : m.next[b] \in Pointers
    BY DEF Memory
  <2>5. ClosedBut(m, NULL)
    BY DEF ListsBut
  <2>6. u.closed # NULL => u.closed # s /\ Closed(u, u.closed)
    BY <2>2, <2>4, <2>5 DEF ClosedBut, Pointers
  <2>7. \A b \in Blocks : b # s /\ Closed(u, b) /\ u.next[b] # NULL =>
          u.next[b] # s /\ Closed(u, u.next[b]) /\ u.next[b] # u.closed
    BY <2>2, <2>3, <2>4, <2>5, PointerFacts DEF ClosedBut, Pointers
  <2>8. \A b \in Blocks : b # s /\ Closed(u, b) =>
          b = u.closed \/ \E a \in Blocks : a # s /\ Closed(u, a) /\ u.next[a] = b
    BY <2>2, <2>3, <2>5, PointerFacts DEF ClosedBut
  <2>9. \A a, b \in Blocks :
          /\ a # s /\ Closed(u, a) /\ b # s /\ Closed(u, b)
          /\ u.next[a] = u.next[b] /\ u.next[a] # NULL
          => a = b
    BY <2>2, <2>3, <2>5, PointerFacts DEF ClosedBut
  <2>. QED BY <2>6, <2>7, <2>8, <2>9 DEF ClosedBut
<1>7. IteratorBut(u, s)
  <2>1. SUFFICES ASSUME NEW c \in Contexts, u.iterator[c] # NULL
                 PROVE  u.iterator[c] # s /\ Linked(u, u.iterator[c], c)
    BY DEF IteratorBut
  <2>2. m.iterator[c] # NULL /\ m.iterator[c] \in Blocks /\ Linked(m, m.iterator[c], c)
    BY <2>1, PointerFacts DEF ListsBut, IteratorBut, Memory, Pointers
  <2>3. CASE m.iterator[c] = s
    BY <2>1, <2>2, <2>3, <1>1, <1>2 DEF Linked, Pointers
  <2>4. CASE m.iterator[c] # s
    BY <2>1, <2>2, <2>4, <1>2 DEF Linked
  <2>. QED BY <2>3, <2>4
<1>8. KindBut(u, s) /\ ContextBut(u, s)
  BY <1>2, PointerFacts DEF ListsBut, KindBut, ContextBut
<1>9. \E r \in [Blocks -> Int] : Downhill(u, s, r)
  <2>1. PICK r \in [Blocks -> Int] : Downhill(m, NULL, r)
    BY DEF ListsBut
  <2>2. Downhill(u, s, r)
    <3>1. SUFFICES ASSUME NEW b \in Blocks, b # s, Live(u, b), u.next[b] # NULL
                   PROVE  r[u.next[b]] < r[b]
      BY DEF Downhill
    <3>2. Live(m, b)
      BY <1>2, <3>1
    <3>3. CASE b = p
      <4>1. n \in Blocks /\ u.next[b] = n
        BY <3>1, <3>3, <1>1 DEF Pointers
      <4>2. r[n] < r[s] /\ r[s] < r[b]
        BY <4>1, <3>2, <3>3, <2>1, <1>1, PointerFacts DEF Downhill
      <4>. QED BY <4>1, <4>2
    <3>4. CASE b # p
      BY <3>1, <3>2, <3>4, <2>1, PointerFacts DEF Downhill
    <3>. QED BY <3>3, <3>4
  <2>. QED BY <2>2
<1>. QED BY <1>3, <1>4, <1>5, <1>6, <1>7, <1>8, <1>9 DEF ListsBut

(* Memory u is m with block s pushed on top of list k.                       *)
Pushes(m, u, s, k) ==
  /\ u.closed = m.closed /\ u.iterator = m.iterator
  /\ \A b \in Blocks : b # s =>
       /\ u.kind[b] = m.kind[b]
       /\ u.context[b] = m.context[b]
       /\ u.lowPrio[b] = m.lowPrio[b]
       /\ u.next[b] = m.next[b]
       /\ u.prev[b] = IF b = m.head[k] THEN s ELSE m.prev[b]
  /\ u.next[s] = m.head[k] /\ u.prev[s] = NULL
  /\ u.head = [m.head EXCEPT ![k] = s]
  /\ u.kind[s] # "free" /\ u.context[s] \in Contexts /\ ListOf(u, s) = k
  /\ u.kind[s] \in {"listen", "connecting"} => u.lowPrio[s] = 0

(* That makes a memory without s whole again.                                *)
LEMMA PushesAttaches ==
  ASSUME NEW m \in Memory, NEW s \in Blocks, ListsBut(m, s),
         NEW k \in Lists, NEW u \in Memory, Pushes(m, u, s, k)
  PROVE  ListsBut(u, NULL)
<1> USE DEF Pushes
<1> DEFINE top == m.head[k]
<1>1. /\ top \in Pointers /\ top # s
      /\ top # NULL => Live(m, top) /\ ListOf(m, top) = k /\ m.prev[top] = NULL
  BY PointerFacts DEF ListsBut, HeadBut, Memory, Pointers
<1>2. Live(u, s) /\ ~Closed(u, s) /\ ~Free(u, s)
  BY PointerFacts DEF Live, Closed, Free
<1>3. \A b \in Blocks : b # s =>
        /\ Live(u, b) <=> Live(m, b)
        /\ Closed(u, b) <=> Closed(m, b)
        /\ Free(u, b) <=> Free(m, b)
        /\ ListOf(u, b) = ListOf(m, b)
  <2>1. SUFFICES ASSUME NEW b \in Blocks, b # s
                 PROVE  /\ Live(u, b) <=> Live(m, b)
                        /\ Closed(u, b) <=> Closed(m, b)
                        /\ Free(u, b) <=> Free(m, b)
                        /\ ListOf(u, b) = ListOf(m, b)
    OBVIOUS
  <2>2. (Free(u, b) <=> Free(m, b)) /\ ListOf(u, b) = ListOf(m, b)
    BY <2>1 DEF Free, ListOf, ContextList
  <2>3. ~Free(m, b) => (u.prev[b] = u.context[b] <=> m.prev[b] = m.context[b])
    <3>1. CASE b = top
      <4>1. ~Free(m, b) => m.context[b] \in Contexts
        BY <2>1 DEF ListsBut, ContextBut
      <4>. QED BY <4>1, <3>1, <2>1, <1>1, PointerFacts DEF Live
    <3>2. CASE b # top
      BY <3>2, <2>1
    <3>. QED BY <3>1, <3>2
  <2>. QED BY <2>2, <2>3 DEF Live, Closed
<1>4. NextBut(u, NULL)
  <2>1. SUFFICES ASSUME NEW b \in Blocks, Live(u, b), u.next[b] # NULL
                 PROVE  /\ u.next[b] # NULL /\ Live(u, u.next[b])
                        /\ ListOf(u, u.next[b]) = ListOf(u, b)
                        /\ u.prev[u.next[b]] = b
    BY DEF NextBut
  <2>2. CASE b = s
    <3>1. u.next[b] = top /\ top \in Blocks
      BY <2>1, <2>2, <1>1 DEF Pointers
    <3>2. Live(u, top) /\ ListOf(u, top) = k /\ u.prev[top] = s
      BY <3>1, <2>1, <1>1, <1>3
    <3>. QED BY <3>1, <3>2, <2>1, <2>2
  <2>3. CASE b # s
    <3>1. Live(m, b) /\ u.next[b] = m.next[b] /\ m.next[b] \in Blocks
      BY <2>1, <2>3, <1>3 DEF Memory, Pointers
    <3>2. /\ m.next[b] # s /\ Live(m, m.next[b])
          /\ ListOf(m, m.next[b]) = ListOf(m, b) /\ m.prev[m.next[b]] = b
      BY <3>1, <2>1, <2>3 DEF ListsBut, NextBut
    <3>3. m.next[b] # top
      BY <3>1, <3>2, <2>1, <1>1, PointerFacts
    <3>4. Live(u, m.next[b]) /\ ListOf(u, m.next[b]) = ListOf(u, b)
      BY <3>1, <3>2, <2>3, <1>3
    <3>5. u.prev[m.next[b]] = b
      BY <3>1, <3>2, <3>3
    <3>. QED BY <3>1, <3>4, <3>5, <2>1
  <2>. QED BY <2>2, <2>3
<1>5. PrevBut(u, NULL)
  <2>1. SUFFICES ASSUME NEW b \in Blocks, Live(u, b)
                 PROVE  IF u.prev[b] = NULL
                        THEN u.head[ListOf(u, b)] = b
                        ELSE /\ u.prev[b] \in Blocks /\ u.prev[b] # NULL
                             /\ Live(u, u.prev[b]) /\ u.next[u.prev[b]] = b
    BY DEF PrevBut
  <2>2. CASE b = s
    BY <2>2, PointerFacts DEF Memory
  <2>3. CASE b = top /\ b # s
    BY <2>3, <1>2, PointerFacts
  <2>4. CASE b # s /\ b # top
    <3>1. Live(m, b) /\ u.prev[b] = m.prev[b] /\ ListOf(u, b) = ListOf(m, b)
      BY <2>1, <2>4, <1>3
    <3>2. IF m.prev[b] = NULL
          THEN m.head[ListOf(m, b)] = b
          ELSE /\ m.prev[b] \in Blocks /\ m.prev[b] # s
               /\ Live(m, m.prev[b]) /\ m.next[m.prev[b]] = b
      BY <3>1, <2>4 DEF ListsBut, PrevBut
    <3>3. CASE m.prev[b] = NULL
      <4>1. ListOf(m, b) # k /\ m.head[ListOf(m, b)] = b
        BY <3>2, <3>3, <2>4
      <4>. QED BY <4>1, <3>1, <3>3 DEF Memory
    <3>4. CASE m.prev[b] # NULL
      <4>1. Live(u, m.prev[b]) /\ u.next[m.prev[b]] = b
        BY <3>2, <3>4, <1>3
      <4>. QED BY <4>1, <3>1, <3>2, <3>4
    <3>. QED BY <3>3, <3>4
  <2>. QED BY <2>2, <2>3, <2>4
<1>6. HeadBut(u, NULL)
  <2>1. SUFFICES ASSUME NEW l \in Lists, u.head[l] # NULL
                 PROVE  /\ Live(u, u.head[l]) /\ ListOf(u, u.head[l]) = l
                        /\ u.prev[u.head[l]] = NULL
    BY DEF HeadBut
  <2>2. CASE l = k
    BY <2>2, <1>2 DEF Memory
  <2>3. CASE l # k
    <3>1. u.head[l] = m.head[l] /\ m.head[l] \in Blocks
      BY <2>1, <2>3 DEF Memory, Pointers
    <3>2. /\ m.head[l] # s /\ Live(m, m.head[l]) /\ ListOf(m, m.head[l]) = l
          /\ m.prev[m.head[l]] = NULL
      BY <3>1, <2>1 DEF ListsBut, HeadBut
    <3>3. m.head[l] # top
      BY <3>1, <3>2, <2>3, <1>1, PointerFacts
    <3>. QED BY <3>1, <3>2, <3>3, <1>3
  <2>. QED BY <2>2, <2>3
<1>7. ClosedBut(u, NULL)
  <2>1. ClosedBut(m, s)
    BY DEF ListsBut
  <2>2. m.closed \in Pointers /\ \A b \in Blocks : m.next[b] \in Pointers
    BY DEF Memory
  <2>3. \A b \in Blocks : Closed(u, b) => b # s /\ Closed(m, b) /\ u.next[b] = m.next[b]
    BY <1>2, <1>3
  <2>4. \A b \in Blocks : b # s /\ Closed(m, b) => Closed(u, b)
    BY <1>3
  <2>5. u.closed # NULL => Closed(u, u.closed)
    BY <2>1, <2>2, <2>4 DEF ClosedBut, Pointers
  <2>6. \A b \in Blocks : Closed(u, b) /\ u.next[b] # NULL =>
          Closed(u, u.next[b]) /\ u.next[b] # u.closed
    BY <2>1, <2>2, <2>3, <2>4 DEF ClosedBut, Pointers
  <2>7. \A b \in Blocks : Closed(u, b) =>
          b = u.closed \/ \E a \in Blocks : Closed(u, a) /\ u.next[a] = b
    BY <2>1, <2>3, <2>4 DEF ClosedBut
  <2>8. \A a, b \in Blocks :
          Closed(u, a) /\ Closed(u, b) /\ u.next[a] = u.next[b] /\ u.next[a] # NULL => a = b
    BY <2>1, <2>3, <2>4 DEF ClosedBut
  <2>. QED BY <2>5, <2>6, <2>7, <2>8, PointerFacts DEF ClosedBut
<1>8. IteratorBut(u, NULL)
  <2>1. SUFFICES ASSUME NEW c \in Contexts, u.iterator[c] # NULL
                 PROVE  Linked(u, u.iterator[c], c)
    BY DEF IteratorBut
  <2>2. m.iterator[c] \in Blocks /\ m.iterator[c] # s /\ Linked(m, m.iterator[c], c)
    BY <2>1 DEF ListsBut, IteratorBut, Memory, Pointers
  <2>. QED BY <2>2, <1>3 DEF Linked
<1>9. KindBut(u, NULL) /\ ContextBut(u, NULL)
  BY <1>3 DEF ListsBut, KindBut, ContextBut, Free
<1>10. \E r \in [Blocks -> Int] : Downhill(u, NULL, r)
  <2>1. PICK r \in [Blocks -> Int] : Downhill(m, s, r)
    BY DEF ListsBut
  <2> DEFINE q == [r EXCEPT ![s] = IF top \in Blocks THEN r[top] + 1 ELSE 0]
  <2>2. q \in [Blocks -> Int] /\ \A b \in Blocks : b # s => q[b] = r[b]
    OBVIOUS
  <2>3. top # NULL => q[top] < q[s]
    BY <1>1 DEF Pointers
  <2>4. Downhill(u, NULL, q)
    <3>1. SUFFICES ASSUME NEW b \in Blocks, Live(u, b), u.next[b] # NULL
                   PROVE  q[u.next[b]] < q[b]
      BY DEF Downhill
    <3>2. CASE b = s
      BY <3>1, <3>2, <2>3
    <3>3. CASE b # s
      <4>1. Live(m, b) /\ u.next[b] = m.next[b] /\ m.next[b] \in Blocks
        BY <3>1, <3>3, <1>3 DEF Memory, Pointers
      <4>2. m.next[b] # s /\ r[m.next[b]] < r[b]
        BY <4>1, <3>1, <3>3, <2>1 DEF ListsBut, NextBut, Downhill
      <4>. QED BY <4>1, <4>2, <3>3, <2>2
    <3>. QED BY <3>2, <3>3
  <2>. QED BY <2>2, <2>4
<1>. QED BY <1>4, <1>5, <1>6, <1>7, <1>8, <1>9, <1>10 DEF ListsBut

(* Pushing the detached block s on the closed list does so, too.             *)
LEMMA PushClosedAttaches ==
  ASSUME NEW m \in Memory, NEW s \in Blocks, ListsBut(m, s),
         m.kind[s] # "free", m.context[s] \in Contexts,
         m.kind[s] \in {"listen", "connecting"} => m.lowPrio[s] = 0
  PROVE  PushClosed(m, s) \in Memory /\ ListsBut(PushClosed(m, s), NULL)
<1> DEFINE u == PushClosed(m, s)
<1>1. u \in Memory
  BY DEF PushClosed, Memory, Pointers
<1>2. /\ u.kind = m.kind /\ u.context = m.context /\ u.lowPrio = m.lowPrio
      /\ u.head = m.head /\ u.iterator = m.iterator
      /\ u.closed = s /\ u.next[s] = m.closed /\ u.prev[s] = m.context[s]
      /\ \A b \in Blocks : b # s => u.next[b] = m.next[b] /\ u.prev[b] = m.prev[b]
  BY DEF PushClosed, Memory
<1>3. \A b \in Blocks : b # s =>
        /\ Live(u, b) <=> Live(m, b)
        /\ Closed(u, b) <=> Closed(m, b)
        /\ Free(u, b) <=> Free(m, b)
        /\ ListOf(u, b) = ListOf(m, b)
  BY <1>2 DEF Live, Closed, Free, ListOf, ContextList
<1>4. Closed(u, s) /\ ~Live(u, s) /\ ~Free(u, s)
  BY <1>2 DEF Live, Closed, Free
<1>5. NextBut(u, NULL) /\ PrevBut(u, NULL) /\ HeadBut(u, NULL)
  <2>1. NextBut(u, NULL)
    BY <1>2, <1>3, <1>4, PointerFacts DEF ListsBut, NextBut, Memory, Pointers
  <2>2. PrevBut(u, NULL)
    BY <1>2, <1>3, <1>4, PointerFacts DEF ListsBut, PrevBut
  <2>3. HeadBut(u, NULL)
    BY <1>2, <1>3, <1>4, PointerFacts DEF ListsBut, HeadBut, Memory, Pointers
  <2>. QED BY <2>1, <2>2, <2>3
<1>6. ClosedBut(u, NULL)
  <2>1. ClosedBut(m, s)
    BY DEF ListsBut
  <2>2. m.closed \in Pointers /\ \A b \in Blocks : m.next[b] \in Pointers
    BY DEF Memory
  <2>3. m.closed # NULL => m.closed \in Blocks /\ m.closed # s /\ Closed(u, m.closed)
    BY <2>1, <2>2, <1>3 DEF ClosedBut, Pointers
  <2>4. \A b \in Blocks : b # s /\ Closed(u, b) /\ u.next[b] # NULL =>
          u.next[b] # s /\ Closed(u, u.next[b]) /\ u.next[b] # m.closed
    BY <2>1, <2>2, <1>2, <1>3 DEF ClosedBut, Pointers
  <2>5. \A b \in Blocks : Closed(u, b) /\ u.next[b] # NULL =>
          Closed(u, u.next[b]) /\ u.next[b] # u.closed
    BY <2>3, <2>4, <1>2
  <2>6. \A b \in Blocks : Closed(u, b) =>
          b = u.closed \/ \E a \in Blocks : Closed(u, a) /\ u.next[a] = b
    <3>1. SUFFICES ASSUME NEW b \in Blocks, Closed(u, b), b # s
                   PROVE  \E a \in Blocks : Closed(u, a) /\ u.next[a] = b
      BY <1>2
    <3>2. b = m.closed \/ \E a \in Blocks : a # s /\ Closed(m, a) /\ m.next[a] = b
      BY <3>1, <2>1, <1>3 DEF ClosedBut
    <3>. QED BY <3>2, <1>2, <1>3, <1>4
  <2>7. \A a, b \in Blocks :
          Closed(u, a) /\ Closed(u, b) /\ u.next[a] = u.next[b] /\ u.next[a] # NULL => a = b
    <3>1. \A a, b \in Blocks :
            /\ a # s /\ b # s /\ Closed(u, a) /\ Closed(u, b)
            /\ u.next[a] = u.next[b] /\ u.next[a] # NULL
            => a = b
      BY <2>1, <1>2, <1>3 DEF ClosedBut
    <3>2. \A a \in Blocks : a # s /\ Closed(u, a) /\ u.next[a] = u.next[s] => u.next[a] = NULL
      BY <2>4, <1>2
    <3>. QED BY <3>1, <3>2
  <2>. QED BY <2>3, <2>5, <2>6, <2>7, <1>2, <1>4, PointerFacts DEF ClosedBut
<1>7. IteratorBut(u, NULL)
  BY <1>2, <1>3, PointerFacts DEF ListsBut, IteratorBut, Linked, Memory, Pointers
<1>8. KindBut(u, NULL) /\ ContextBut(u, NULL)
  BY <1>2, <1>3 DEF ListsBut, KindBut, ContextBut, Free
<1>9. \E r \in [Blocks -> Int] : Downhill(u, NULL, r)
  BY <1>2, <1>3, <1>4 DEF ListsBut, Downhill
<1>. QED BY <1>1, <1>5, <1>6, <1>7, <1>8, <1>9 DEF ListsBut

(* A detached block may be moved: nothing points at it.                       *)
LEMMA MoveDetached ==
  ASSUME NEW m \in Memory, NEW s \in Blocks, ListsBut(m, s),
         NEW n \in Blocks, n = s \/ Free(m, n)
  PROVE  /\ Move(m, s, n) \in Memory
         /\ ListsBut(Move(m, s, n), n)
         /\ Move(m, s, n).kind[n] = m.kind[s]
         /\ Move(m, s, n).lowPrio[n] = m.lowPrio[s]
<1>1. CASE n = s
  BY <1>1 DEF Move
<1>2. CASE n # s
  <2> DEFINE u == Move(m, s, n)
  <2>1. u \in Memory
    <3>1. /\ m.next[s] \in Pointers /\ m.prev[s] \in Pointers \cup Contexts
          /\ m.context[s] \in Contexts \cup {NULL} /\ m.lowPrio[s] \in 0..2
          /\ m.kind[s] \in Kinds /\ "free" \in Kinds
          /\ NULL \in Pointers
      BY DEF Memory, Pointers, Kinds
    <3>2. u = [next |-> [m.next EXCEPT ![n] = m.next[s], ![s] = NULL],
               prev |-> [m.prev EXCEPT ![n] = m.prev[s], ![s] = NULL],
               context |-> [m.context EXCEPT ![n] = m.context[s], ![s] = NULL],
               lowPrio |-> [m.lowPrio EXCEPT ![n] = m.lowPrio[s], ![s] = 0],
               kind |-> [m.kind EXCEPT ![n] = m.kind[s], ![s] = "free"],
               head |-> m.head, iterator |-> m.iterator, closed |-> m.closed]
      BY <1>2 DEF Move, Memory
    <3>3. /\ [m.next EXCEPT ![n] = m.next[s], ![s] = NULL] \in [Blocks -> Pointers]
          /\ [m.prev EXCEPT ![n] = m.prev[s], ![s] = NULL] \in [Blocks -> Pointers \cup Contexts]
      BY <3>1 DEF Memory
    <3>4. /\ [m.context EXCEPT ![n] = m.context[s], ![s] = NULL] \in [Blocks -> Contexts \cup {NULL}]
          /\ [m.lowPrio EXCEPT ![n] = m.lowPrio[s], ![s] = 0] \in [Blocks -> 0..2]
          /\ [m.kind EXCEPT ![n] = m.kind[s], ![s] = "free"] \in [Blocks -> Kinds]
      BY <3>1 DEF Memory
    <3>. QED BY <3>2, <3>3, <3>4 DEF Memory
  <2>2. /\ u.head = m.head /\ u.iterator = m.iterator /\ u.closed = m.closed
        /\ u.kind[n] = m.kind[s] /\ u.lowPrio[n] = m.lowPrio[s]
        /\ u.kind[s] = "free" /\ u.lowPrio[s] = 0
        /\ \A b \in Blocks : b # s /\ b # n =>
             /\ u.next[b] = m.next[b] /\ u.prev[b] = m.prev[b] /\ u.kind[b] = m.kind[b]
             /\ u.context[b] = m.context[b] /\ u.lowPrio[b] = m.lowPrio[b]
    BY <1>2 DEF Move, Memory
  <2>3. \A b \in Blocks : b # s /\ b # n =>
          /\ Live(u, b) <=> Live(m, b)
          /\ Closed(u, b) <=> Closed(m, b)
          /\ Free(u, b) <=> Free(m, b)
          /\ ListOf(u, b) = ListOf(m, b)
    BY <2>2 DEF Live, Closed, Free, ListOf, ContextList
  <2>4. ~Live(u, s) /\ ~Closed(u, s) /\ Free(u, s) /\ ~Live(m, n) /\ ~Closed(m, n)
    BY <1>2, <2>2 DEF Live, Closed, Free
  <2>5. NextBut(u, n)
    BY <2>2, <2>3, <2>4 DEF ListsBut, NextBut, Memory, Pointers
  <2>6. PrevBut(u, n)
    BY <2>2, <2>3, <2>4 DEF ListsBut, PrevBut
  <2>7. HeadBut(u, n)
    BY <2>2, <2>3, <2>4 DEF ListsBut, HeadBut, Memory, Pointers
  <2>8. ClosedBut(u, n)
    <3>1. ClosedBut(m, s)
      BY DEF ListsBut
    <3>2. m.closed \in Pointers /\ \A b \in Blocks : m.next[b] \in Pointers
      BY DEF Memory
    <3>3. \A b \in Blocks : b # n /\ Closed(u, b) => b # s /\ Closed(m, b) /\ u.next[b] = m.next[b]
      BY <2>2, <2>3, <2>4
    <3>4. \A b \in Blocks : b # s /\ Closed(m, b) => b # n /\ Closed(u, b) /\ u.next[b] = m.next[b]
      BY <2>2, <2>3, <2>4
    <3>5. u.closed # NULL => u.closed # n /\ Closed(u, u.closed)
      BY <2>2, <3>1, <3>2, <3>4 DEF ClosedBut, Pointers
    <3>6. \A b \in Blocks : b # n /\ Closed(u, b) /\ u.next[b] # NULL =>
            u.next[b] # n /\ Closed(u, u.next[b]) /\ u.next[b] # u.closed
      BY <2>2, <3>1, <3>2, <3>3, <3>4 DEF ClosedBut, Pointers
    <3>7. \A b \in Blocks : b # n /\ Closed(u, b) =>
            b = u.closed \/ \E a \in Blocks : a # n /\ Closed(u, a) /\ u.next[a] = b
      BY <2>2, <3>1, <3>3, <3>4 DEF ClosedBut
    <3>8. \A a, b \in Blocks :
            /\ a # n /\ Closed(u, a) /\ b # n /\ Closed(u, b)
            /\ u.next[a] = u.next[b] /\ u.next[a] # NULL
            => a = b
      BY <3>1, <3>3 DEF ClosedBut
    <3>. QED BY <3>5, <3>6, <3>7, <3>8 DEF ClosedBut
  <2>9. IteratorBut(u, n)
    BY <2>2, <2>3, <2>4 DEF ListsBut, IteratorBut, Linked, Memory, Pointers
  <2>10. KindBut(u, n) /\ ContextBut(u, n)
    BY <2>2, <2>3, <2>4 DEF ListsBut, KindBut, ContextBut, Free
  <2>11. \E r \in [Blocks -> Int] : Downhill(u, n, r)
    BY <2>2, <2>3, <2>4 DEF ListsBut, Downhill
  <2>. QED BY <2>1, <2>2, <2>5, <2>6, <2>7, <2>8, <2>9, <2>10, <2>11 DEF ListsBut
<1>. QED BY <1>1, <1>2

-----------------------------------------------------------------------------
(* The list surgery of the library, in terms of the lemmas above.            *)

(* Unlink takes a block out of the list of its context.                      *)
LEMMA UnlinkDetaches ==
  ASSUME NEW m \in Memory, ListsBut(m, NULL),
         NEW s \in Blocks, Live(m, s), m.lowPrio[s] # 1
  PROVE  Unlink(m, s) \in Memory /\ ListsBut(Unlink(m, s), s)
<1> DEFINE u == Unlink(m, s)
<1>1. /\ u \in Memory /\ u.kind = m.kind /\ u.context = m.context
      /\ u.lowPrio = m.lowPrio /\ u.closed = m.closed
      /\ u.next = Store(m.next, m.prev[s], m.next[s])
      /\ u.prev = Store(m.prev, m.next[s], m.prev[s])
      /\ u.iterator = [m.iterator EXCEPT ![m.context[s]] = IF @ = s THEN m.next[s] ELSE @]
      /\ u.head = [m.head EXCEPT ![ListOf(m, s)] = IF m.prev[s] = NULL THEN m.next[s] ELSE @]
  BY UnlinkFields
<1>2. \A b \in Blocks :
        /\ u.next[b] = IF b = m.prev[s] THEN m.next[s] ELSE m.next[b]
        /\ u.prev[b] = IF b = m.next[s] THEN m.prev[s] ELSE m.prev[b]
  BY <1>1 DEF Store, Memory
<1>3. \A k \in Lists : u.head[k] =
        IF k = ListOf(m, s) /\ m.prev[s] = NULL THEN m.next[s] ELSE m.head[k]
  BY <1>1 DEF Memory
<1>4. \A c \in Contexts : u.iterator[c] =
        IF m.iterator[c] = s THEN m.next[s] ELSE m.iterator[c]
  <2>1. \A c \in Contexts : m.iterator[c] = s => m.context[s] = c
    BY PointerFacts DEF ListsBut, IteratorBut, Linked, ListOf, ContextList
  <2>. QED BY <1>1, <2>1 DEF Memory
<1>5. ListsBut(u, s)
  <2>1. Joins(m, u, s)
    BY <1>1, <1>2, <1>3, <1>4 DEF Joins
  <2>. QED BY <2>1, <1>1, JoinsDetaches
<1>. QED BY <1>1, <1>5

(* So does us_socket_close for a member of the low-priority queue.            *)
LEMMA UnlinkLowPrioDetaches ==
  ASSUME NEW m \in Memory, ListsBut(m, NULL),
         NEW s \in Blocks, Live(m, s), m.lowPrio[s] = 1
  PROVE  /\ UnlinkLowPrio(m, s) \in Memory
         /\ ListsBut(UnlinkLowPrio(m, s), s)
         /\ UnlinkLowPrio(m, s).lowPrio[s] = 0
         /\ UnlinkLowPrio(m, s).kind = m.kind
         /\ UnlinkLowPrio(m, s).context = m.context
<1> DEFINE u == UnlinkLowPrio(m, s)
           p == m.prev[s]
           n == m.next[s]
<1>1. p \in Pointers /\ n \in Pointers /\ NULL \in Pointers
  BY Neighbours DEF Pointers
<1>2. ListOf(m, s) = LowPrio /\ LowPrio \in Lists
  BY PointerFacts DEF ListOf
<1>3  /\ u.context = m.context /\ u.kind = m.kind
      /\ u.iterator = m.iterator /\ u.closed = m.closed
      /\ u.next = [Store(m.next, p, n) EXCEPT ![s] = NULL]
      /\ u.prev = [Store(m.prev, n, p) EXCEPT ![s] = NULL]
      /\ u.lowPrio = [m.lowPrio EXCEPT ![s] = 0]
      /\ u.head = [m.head EXCEPT ![LowPrio] = IF p = NULL THEN n ELSE @]
  <2>1. /\ u.context = m.context /\ u.kind = m.kind
        /\ u.iterator = m.iterator /\ u.closed = m.closed
    BY DEF UnlinkLowPrio, Memory
  <2>2. u.next = [Store(m.next, p, n) EXCEPT ![s] = NULL]
    BY DEF UnlinkLowPrio, Memory
  <2>3. u.prev = [Store(m.prev, n, p) EXCEPT ![s] = NULL]
    BY DEF UnlinkLowPrio, Memory
  <2>4. u.lowPrio = [m.lowPrio EXCEPT ![s] = 0]
    BY DEF UnlinkLowPrio, Memory
  <2>5. u.head = [m.head EXCEPT ![LowPrio] = IF p = NULL THEN n ELSE @]
    BY DEF UnlinkLowPrio, Memory
  <2>. QED BY <2>1, <2>2, <2>3, <2>4, <2>5
<1>4. u \in Memory
  <2> DEFINE v == [m EXCEPT !.next = [Store(@, p, n) EXCEPT ![s] = NULL]]
             w == [v EXCEPT !.prev = [Store(@, n, p) EXCEPT ![s] = NULL]]
             x == [w EXCEPT !.head = [@ EXCEPT ![LowPrio] = IF p = NULL THEN n ELSE m.head[LowPrio]]]
             y == [x EXCEPT !.lowPrio = [@ EXCEPT ![s] = 0]]
  <2>1. v \in Memory
    BY <1>1 DEF Store, Memory
  <2>2. w \in Memory
    BY <2>1, <1>1 DEF Store, Memory
  <2> HIDE DEF v, w
  <2>3. x \in Memory
    BY <2>2, <1>1, <1>2 DEF Memory
  <2> HIDE DEF x
  <2>4. y \in Memory
    BY <2>3 DEF Memory
  <2>. QED BY <2>4 DEF UnlinkLowPrio, v, w, x
<1>5. \A b \in Blocks : b # s =>
        /\ u.kind[b] = m.kind[b] /\ u.context[b] = m.context[b] /\ u.lowPrio[b] = m.lowPrio[b]
        /\ u.next[b] = IF b = m.prev[s] THEN m.next[s] ELSE m.next[b]
        /\ u.prev[b] = IF b = m.next[s] THEN m.prev[s] ELSE m.prev[b]
  BY <1>3 DEF Store, Memory
<1>6. \A k \in Lists : u.head[k] =
        IF k = ListOf(m, s) /\ m.prev[s] = NULL THEN m.next[s] ELSE m.head[k]
  BY <1>2, <1>3 DEF Memory
<1>7. \A c \in Contexts : u.iterator[c] =
        IF m.iterator[c] = s THEN m.next[s] ELSE m.iterator[c]
  <2>1. \A c \in Contexts : m.iterator[c] # s
    BY <1>2, PointerFacts DEF ListsBut, IteratorBut, Linked
  <2>. QED BY <1>3, <2>1
<1>8. ListsBut(u, s)
  <2>1. Joins(m, u, s)
    BY <1>3, <1>5, <1>6, <1>7 DEF Joins
  <2>. QED BY <2>1, <1>4, JoinsDetaches
<1>. QED BY <1>3, <1>4, <1>8 DEF Memory

(* us_internal_socket_context_link_socket and its listen twin put a detached  *)
(* block on top of the list of context c.                                     *)
LEMMA LinkAttaches ==
  ASSUME NEW m \in Memory, NEW s \in Blocks, ListsBut(m, s), NEW c \in Contexts,
         m.kind[s] # "free", m.lowPrio[s] # 1,
         m.kind[s] \in {"listen", "connecting"} => m.lowPrio[s] = 0
  PROVE  /\ Link(m, s, c) \in Memory
         /\ ListsBut(Link(m, s, c), NULL)
         /\ Link(m, s, c).lowPrio = m.lowPrio
         /\ Link(m, s, c).kind = m.kind
         /\ Live(Link(m, s, c), s)
<1> DEFINE u == Link(m, s, c)
           k == <<c, IF m.kind[s] = "listen" THEN "listen" ELSE "sockets">>
           old == m.head[k]
<1>1. k \in Lists /\ old \in Pointers /\ NULL \in Pointers
  BY PointerFacts DEF Memory, Pointers
<1>2  /\ u.lowPrio = m.lowPrio /\ u.kind = m.kind
      /\ u.iterator = m.iterator /\ u.closed = m.closed
      /\ u.next = [m.next EXCEPT ![s] = old]
      /\ u.prev = Store([m.prev EXCEPT ![s] = NULL], old, s)
      /\ u.context = [m.context EXCEPT ![s] = c]
      /\ u.head = [m.head EXCEPT ![k] = s]
  <2>1. /\ u.lowPrio = m.lowPrio /\ u.kind = m.kind
        /\ u.iterator = m.iterator /\ u.closed = m.closed
    BY DEF Link, Memory
  <2>2. u.next = [m.next EXCEPT ![s] = old]
    BY DEF Link, Memory
  <2>3. u.prev = Store([m.prev EXCEPT ![s] = NULL], old, s)
    BY DEF Link, Memory
  <2>4. u.context = [m.context EXCEPT ![s] = c]
    BY DEF Link, Memory
  <2>5. u.head = [m.head EXCEPT ![k] = s]
    BY DEF Link, Memory
  <2>. QED BY <2>1, <2>2, <2>3, <2>4, <2>5
<1>3. u \in Memory
  <2> DEFINE v == [m EXCEPT !.context = [@ EXCEPT ![s] = c]]
             w == [v EXCEPT !.next = [@ EXCEPT ![s] = old]]
             x == [w EXCEPT !.prev = Store([@ EXCEPT ![s] = NULL], old, s)]
             y == [x EXCEPT !.head = [@ EXCEPT ![k] = s]]
  <2>1. v \in Memory
    BY DEF Memory
  <2>2. w \in Memory
    BY <2>1, <1>1 DEF Memory
  <2>3. x \in Memory
    BY <2>2, <1>1 DEF Store, Memory, Pointers
  <2>4. y \in Memory
    BY <2>3, <1>1 DEF Memory, Pointers
  <2>. QED BY <2>4 DEF Link
<1>4. old # s
  BY <1>1, PointerFacts DEF ListsBut, HeadBut
<1>5. \A b \in Blocks : b # s =>
        /\ u.kind[b] = m.kind[b] /\ u.context[b] = m.context[b] /\ u.lowPrio[b] = m.lowPrio[b]
        /\ u.next[b] = m.next[b]
        /\ u.prev[b] = IF b = m.head[k] THEN s ELSE m.prev[b]
  BY <1>2 DEF Store, Memory
<1>6. u.next[s] = m.head[k] /\ u.prev[s] = NULL /\ u.context[s] = c
  BY <1>2, <1>4 DEF Store, Memory
<1>7. ListOf(u, s) = k
  BY <1>2, <1>6 DEF ListOf, ContextList
<1>8. ListsBut(u, NULL)
  <2>1. Pushes(m, u, s, k)
    BY <1>2, <1>5, <1>6, <1>7 DEF Pushes
  <2>. QED BY <2>1, <1>1, <1>3, PushesAttaches
<1>9. Live(u, s)
  BY <1>2, <1>6, PointerFacts DEF Live, Free
<1>. QED BY <1>2, <1>3, <1>8, <1>9

(* The dispatcher puts a detached socket on top of the low-priority queue.    *)
LEMMA PushLowPrioAttaches ==
  ASSUME NEW m \in Memory, NEW s \in Blocks, ListsBut(m, s),
         m.kind[s] \in {"socket", "shut_down"}, m.context[s] \in Contexts
  PROVE  PushLowPrio(m, s) \in Memory /\ ListsBut(PushLowPrio(m, s), NULL)
<1> DEFINE u == PushLowPrio(m, s)
           old == m.head[LowPrio]
<1>1. LowPrio \in Lists /\ old \in Pointers /\ NULL \in Pointers
  BY PointerFacts DEF Memory, Pointers
<1>2  /\ u.context = m.context /\ u.kind = m.kind
      /\ u.iterator = m.iterator /\ u.closed = m.closed
      /\ u.next = [m.next EXCEPT ![s] = old]
      /\ u.prev = Store([m.prev EXCEPT ![s] = NULL], old, s)
      /\ u.lowPrio = [m.lowPrio EXCEPT ![s] = 1]
      /\ u.head = [m.head EXCEPT ![LowPrio] = s]
  <2>1. /\ u.context = m.context /\ u.kind = m.kind
        /\ u.iterator = m.iterator /\ u.closed = m.closed
    BY DEF PushLowPrio, Memory
  <2>2. u.next = [m.next EXCEPT ![s] = old]
    BY DEF PushLowPrio, Memory
  <2>3. u.prev = Store([m.prev EXCEPT ![s] = NULL], old, s)
    BY DEF PushLowPrio, Memory
  <2>4. u.lowPrio = [m.lowPrio EXCEPT ![s] = 1]
    BY DEF PushLowPrio, Memory
  <2>5. u.head = [m.head EXCEPT ![LowPrio] = s]
    BY DEF PushLowPrio, Memory
  <2>. QED BY <2>1, <2>2, <2>3, <2>4, <2>5
<1>3. u \in Memory
  <2> DEFINE v == [m EXCEPT !.next = [@ EXCEPT ![s] = old]]
             w == [v EXCEPT !.prev = Store([@ EXCEPT ![s] = NULL], old, s)]
             x == [w EXCEPT !.head = [@ EXCEPT ![LowPrio] = s]]
             y == [x EXCEPT !.lowPrio = [@ EXCEPT ![s] = 1]]
  <2>1. v \in Memory
    BY <1>1 DEF Memory
  <2>2. w \in Memory
    BY <2>1, <1>1 DEF Store, Memory, Pointers
  <2> HIDE DEF v, w
  <2>3. x \in Memory
    BY <2>2, <1>1 DEF Memory, Pointers
  <2> HIDE DEF x
  <2>4. y \in Memory
    BY <2>3 DEF Memory
  <2>. QED BY <2>4 DEF PushLowPrio, v, w, x
<1>4. old # s
  BY <1>1, PointerFacts DEF ListsBut, HeadBut
<1>5. \A b \in Blocks : b # s =>
        /\ u.kind[b] = m.kind[b] /\ u.context[b] = m.context[b] /\ u.lowPrio[b] = m.lowPrio[b]
        /\ u.next[b] = m.next[b]
        /\ u.prev[b] = IF b = m.head[LowPrio] THEN s ELSE m.prev[b]
  BY <1>2 DEF Store, Memory
<1>6. u.next[s] = m.head[LowPrio] /\ u.prev[s] = NULL /\ u.lowPrio[s] = 1
  BY <1>2, <1>4 DEF Store, Memory
<1>7. ListOf(u, s) = LowPrio
  BY <1>6 DEF ListOf
<1>8. ListsBut(u, NULL)
  <2>1. Pushes(m, u, s, LowPrio)
    BY <1>2, <1>5, <1>6, <1>7 DEF Pushes
  <2>. QED BY <2>1, <1>1, <1>3, PushesAttaches
<1>. QED BY <1>3, <1>8

-----------------------------------------------------------------------------
(* The inductive invariant: ListsOK, and the lists are no rings.              *)
Good(m) == m \in Memory /\ ListsBut(m, NULL)

(* The initial memory: there is no block to speak of.                         *)
LEMMA EmptyGood == Good(EmptyMemory)
<1> DEFINE m == EmptyMemory
<1>1. m \in Memory
  BY DEF EmptyMemory, Memory, Pointers, Kinds
<1>2. \A b \in Blocks : Free(m, b) /\ ~Live(m, b) /\ ~Closed(m, b)
  BY DEF EmptyMemory, Free, Live, Closed
<1>3. /\ m.closed = NULL /\ \A k \in Lists : m.head[k] = NULL
      /\ \A c \in Contexts : m.iterator[c] = NULL
      /\ \A b \in Blocks : m.lowPrio[b] = 0
  BY DEF EmptyMemory
<1>4. KindBut(m, NULL) /\ ContextBut(m, NULL) /\ IteratorBut(m, NULL)
  BY <1>2, <1>3 DEF KindBut, ContextBut, IteratorBut
<1>5. NextBut(m, NULL) /\ PrevBut(m, NULL) /\ HeadBut(m, NULL) /\ ClosedBut(m, NULL)
  BY <1>2, <1>3 DEF NextBut, PrevBut, HeadBut, ClosedBut
<1>6. \E r \in [Blocks -> Int] : Downhill(m, NULL, r)
  <2>1. [b \in Blocks |-> 0] \in [Blocks -> Int]
    OBVIOUS
  <2>2. Downhill(m, NULL, [b \in Blocks |-> 0])
    BY <1>2 DEF Downhill
  <2>. QED BY <2>1, <2>2
<1>. QED BY <1>1, <1>4, <1>5, <1>6 DEF Good, ListsBut

(* A change that leaves the links alone, and every block in its list.         *)
Keeps(m, u) ==
  /\ u.next = m.next /\ u.prev = m.prev /\ u.context = m.context
  /\ u.head = m.head /\ u.closed = m.closed
  /\ \A b \in Blocks : (Free(u, b) <=> Free(m, b)) /\ ListOf(u, b) = ListOf(m, b)

(* Such a change keeps the memory good if kinds and iterators still fit.      *)
LEMMA KeepsGood ==
  ASSUME NEW m, Good(m), NEW u \in Memory, Keeps(m, u),
         KindBut(u, NULL), IteratorBut(u, NULL)
  PROVE  Good(u)
<1>1. \A b \in Blocks : /\ Live(u, b) <=> Live(m, b)
                        /\ Closed(u, b) <=> Closed(m, b)
                        /\ Free(u, b) <=> Free(m, b)
                        /\ ListOf(u, b) = ListOf(m, b)
  BY DEF Keeps, Live, Closed
<1>2. /\ u.next = m.next /\ u.prev = m.prev /\ u.context = m.context
      /\ u.head = m.head /\ u.closed = m.closed
  BY DEF Keeps
<1>3. m \in Memory /\ ListsBut(m, NULL)
  BY DEF Good
<1>4. NextBut(u, NULL)
  BY <1>1, <1>2, <1>3 DEF ListsBut, NextBut, Memory, Pointers
<1>5. PrevBut(u, NULL)
  BY <1>1, <1>2, <1>3 DEF ListsBut, PrevBut
<1>6. HeadBut(u, NULL)
  BY <1>1, <1>2, <1>3 DEF ListsBut, HeadBut, Memory, Pointers
<1>7. ClosedBut(u, NULL)
  BY <1>1, <1>2, <1>3 DEF ListsBut, ClosedBut, Memory, Pointers
<1>8. ContextBut(u, NULL)
  BY <1>1, <1>2, <1>3 DEF ListsBut, ContextBut
<1>9. \E r \in [Blocks -> Int] : Downhill(u, NULL, r)
  BY <1>1, <1>2, <1>3 DEF ListsBut, Downhill
<1>. QED BY <1>4, <1>5, <1>6, <1>7, <1>8, <1>9 DEF Good, ListsBut

(* Memory u is m with block s given a new kind or a new low_prio_state.       *)
Relabels(m, u, s, k, l) ==
  /\ Live(m, s) /\ m.kind[s] # "listen"
  /\ k \in Kinds \ {"free", "listen"}
  /\ l \in 0..2 /\ (l = 1 <=> m.lowPrio[s] = 1)
  /\ k = "connecting" => l = 0
  /\ u.next = m.next /\ u.prev = m.prev /\ u.context = m.context
  /\ u.head = m.head /\ u.closed = m.closed /\ u.iterator = m.iterator
  /\ u.kind = [m.kind EXCEPT ![s] = k]
  /\ u.lowPrio = [m.lowPrio EXCEPT ![s] = l]

(* It stays in its list, and the lists stay good.                             *)
LEMMA RelabelGood ==
  ASSUME NEW m, Good(m), NEW s \in Blocks, NEW k, NEW l,
         NEW u \in Memory, Relabels(m, u, s, k, l)
  PROVE  Good(u)
<1> USE DEF Relabels
<1>1. m \in Memory /\ ListsBut(m, NULL)
  BY DEF Good
<1>2. /\ \A b \in Blocks \ {s} : u.kind[b] = m.kind[b] /\ u.lowPrio[b] = m.lowPrio[b]
      /\ u.kind[s] = k /\ u.lowPrio[s] = l
  BY <1>1 DEF Memory
<1>3. \A b \in Blocks : (Free(u, b) <=> Free(m, b)) /\ ListOf(u, b) = ListOf(m, b)
  BY <1>2 DEF Live, Free, ListOf, ContextList
<1>4. Keeps(m, u)
  BY <1>3 DEF Keeps
<1>5. KindBut(u, NULL)
  BY <1>1, <1>2, PointerFacts DEF ListsBut, KindBut
<1>6. IteratorBut(u, NULL)
  BY <1>1, <1>3, PointerFacts DEF ListsBut, IteratorBut, Linked, Live, Memory, Pointers
<1>. QED BY <1>4, <1>5, <1>6, KeepsGood

-----------------------------------------------------------------------------
(* The operations.                                                            *)

(* A free block given a kind is a detached one.                               *)
LEMMA CreateGood ==
  ASSUME NEW m, Good(m), NEW s \in Blocks, Free(m, s), NEW c \in Contexts,
         NEW k \in {"listen", "connecting", "socket"}
  PROVE  Good(Create(m, s, c, k))
<1> DEFINE u == [m EXCEPT !.kind[s] = k, !.lowPrio[s] = 0]
<1>1. m \in Memory /\ ListsBut(m, NULL)
  BY DEF Good
<1>2. u \in Memory
  <2> DEFINE v == [m EXCEPT !.kind = [@ EXCEPT ![s] = k]]
             w == [v EXCEPT !.lowPrio = [@ EXCEPT ![s] = 0]]
  <2>1. v \in Memory
    BY <1>1 DEF Memory, Kinds
  <2> HIDE DEF v
  <2>2. w \in Memory
    BY <2>1 DEF Memory
  <2>. QED BY <2>2 DEF v
<1>3. /\ u.next = m.next /\ u.prev = m.prev /\ u.context = m.context
      /\ u.head = m.head /\ u.closed = m.closed /\ u.iterator = m.iterator
      /\ u.kind[s] = k /\ u.lowPrio[s] = 0
      /\ \A b \in Blocks : b # s => u.kind[b] = m.kind[b] /\ u.lowPrio[b] = m.lowPrio[b]
  BY <1>1 DEF Memory
<1> HIDE DEF u
<1>4. \A b \in Blocks : b # s =>
        /\ Live(u, b) <=> Live(m, b)
        /\ Closed(u, b) <=> Closed(m, b)
        /\ Free(u, b) <=> Free(m, b)
        /\ ListOf(u, b) = ListOf(m, b)
  BY <1>3 DEF Live, Closed, Free, ListOf, ContextList
<1>5. ~Live(m, s) /\ ~Closed(m, s)
  BY DEF Live, Closed
<1>6. NextBut(u, s)
  BY <1>1, <1>3, <1>4, <1>5, PointerFacts DEF ListsBut, NextBut, Memory, Pointers
<1>7. PrevBut(u, s)
  BY <1>1, <1>3, <1>4, <1>5, PointerFacts DEF ListsBut, PrevBut
<1>8. HeadBut(u, s)
  BY <1>1, <1>3, <1>4, <1>5 DEF ListsBut, HeadBut, Memory, Pointers
<1>9. ClosedBut(u, s)
  <2>1. ClosedBut(m, NULL)
    BY <1>1 DEF ListsBut
  <2>2. m.closed \in Pointers /\ \A b \in Blocks : m.next[b] \in Pointers
    BY <1>1 DEF Memory
  <2>3. \A b \in Blocks : Closed(m, b) <=> (b # s /\ Closed(u, b))
    BY <1>4, <1>5
  <2>4. u.closed # NULL => u.closed # s /\ Closed(u, u.closed)
    BY <1>3, <2>1, <2>2, <2>3 DEF ClosedBut, Pointers
  <2>5. \A b \in Blocks : b # s /\ Closed(u, b) /\ u.next[b] # NULL =>
          u.next[b] # s /\ Closed(u, u.next[b]) /\ u.next[b] # u.closed
    BY <1>3, <2>1, <2>2, <2>3, PointerFacts DEF ClosedBut, Pointers
  <2>6. \A b \in Blocks : b # s /\ Closed(u, b) =>
          b = u.closed \/ \E a \in Blocks : a # s /\ Closed(u, a) /\ u.next[a] = b
    BY <1>3, <2>1, <2>3, PointerFacts DEF ClosedBut
  <2>7. \A a, b \in Blocks :
          /\ a # s /\ Closed(u, a) /\ b # s /\ Closed(u, b)
          /\ u.next[a] = u.next[b] /\ u.next[a] # NULL
          => a = b
    BY <1>3, <2>1, <2>3, PointerFacts DEF ClosedBut
  <2>. QED BY <2>4, <2>5, <2>6, <2>7 DEF ClosedBut
<1>10. KindBut(u, s) /\ ContextBut(u, s)
  BY <1>1, <1>3, <1>4, PointerFacts DEF ListsBut, KindBut, ContextBut
<1>11. IteratorBut(u, s)
  BY <1>1, <1>3, <1>4, <1>5 DEF ListsBut, IteratorBut, Linked, Memory, Pointers
<1>12. \E r \in [Blocks -> Int] : Downhill(u, s, r)
  BY <1>1, <1>3, <1>4, PointerFacts DEF ListsBut, Downhill
<1>13. ListsBut(u, s)
  BY <1>6, <1>7, <1>8, <1>9, <1>10, <1>11, <1>12 DEF ListsBut
<1>14. Good(Link(u, s, c))
  BY <1>2, <1>3, <1>13, LinkAttaches DEF Good
<1>. QED BY <1>14 DEF Create, u

(* us_socket_close, whichever of the lists the socket hangs in.               *)
LEMMA CloseGood ==
  ASSUME NEW m, Good(m), NEW s \in Blocks, Live(m, s)
  PROVE  Good(Close(m, s))
<1>1. m \in Memory /\ ListsBut(m, NULL)
  BY DEF Good
<1>2. m.kind[s] # "free" /\ m.context[s] \in Contexts
  BY <1>1, Neighbours DEF Live, Free
<1>3. m.kind[s] \in {"listen", "connecting"} => m.lowPrio[s] = 0
  BY <1>1, PointerFacts DEF ListsBut, KindBut
<1>4. CASE m.lowPrio[s] = 1
  <2> DEFINE u == UnlinkLowPrio(m, s)
  <2>1. /\ u \in Memory /\ ListsBut(u, s) /\ u.lowPrio[s] = 0
        /\ u.kind = m.kind /\ u.context = m.context
    BY <1>1, <1>4, UnlinkLowPrioDetaches
  <2> HIDE DEF u
  <2>2. PushClosed(u, s) \in Memory /\ ListsBut(PushClosed(u, s), NULL)
    BY <1>2, <2>1, PushClosedAttaches
  <2>. QED BY <1>4, <2>2 DEF Close, Good, u
<1>5. CASE m.lowPrio[s] # 1
  <2> DEFINE u == Unlink(m, s)
  <2>1. u \in Memory /\ ListsBut(u, s)
    BY <1>1, <1>5, UnlinkDetaches
  <2>2. u.kind = m.kind /\ u.context = m.context /\ u.lowPrio = m.lowPrio
    BY <1>1, <1>5, UnlinkFields
  <2> HIDE DEF u
  <2>3. PushClosed(u, s) \in Memory /\ ListsBut(PushClosed(u, s), NULL)
    BY <1>2, <1>3, <2>1, <2>2, PushClosedAttaches
  <2>. QED BY <1>5, <2>3 DEF Close, Good, u
<1>. QED BY <1>4, <1>5

(* The semi-sockets need not look at the queue: they are never in it.         *)
LEMMA CloseSemiGood ==
  ASSUME NEW m, Good(m), NEW s \in Blocks, Live(m, s),
         m.kind[s] \in {"listen", "connecting"}
  PROVE  Good(CloseSemi(m, s))
<1>1. m.lowPrio[s] = 0
  BY PointerFacts DEF Good, ListsBut, KindBut
<1>2. CloseSemi(m, s) = Close(m, s)
  BY <1>1 DEF Close, CloseSemi
<1>. QED BY <1>2, CloseGood

(* A readable socket is put off to the queue.                                 *)
LEMMA DeferGood ==
  ASSUME NEW m, Good(m), NEW s \in Blocks, Live(m, s), m.lowPrio[s] # 1,
         m.kind[s] \in {"socket", "shut_down"}
  PROVE  Good(Defer(m, s))
<1> DEFINE u == Unlink(m, s)
<1>1. m \in Memory /\ ListsBut(m, NULL)
  BY DEF Good
<1>2. u \in Memory /\ ListsBut(u, s)
  BY <1>1, UnlinkDetaches
<1>3. u.kind = m.kind /\ u.context = m.context
  BY <1>1, UnlinkFields
<1>4. m.context[s] \in Contexts
  BY <1>1, Neighbours
<1> HIDE DEF u
<1>5. PushLowPrio(u, s) \in Memory /\ ListsBut(PushLowPrio(u, s), NULL)
  BY <1>2, <1>3, <1>4, PushLowPrioAttaches
<1>. QED BY <1>5 DEF Defer, Good, u

(* The head of the queue goes back to its context.  That it still carries     *)
(* low_prio_state 1 while it is linked makes no difference.                   *)
LEMMA ResumeGood ==
  ASSUME NEW m, Good(m), m.head[LowPrio] # NULL
  PROVE  Good(Resume(m))
<1> DEFINE s == m.head[LowPrio]
           n == m.next[s]
           c == m.context[s]
           u == [m EXCEPT !.head[LowPrio] = n, !.prev = Store(@, n, NULL), !.next[s] = NULL]
           v == [u EXCEPT !.lowPrio[s] = 2]
<1>1. m \in Memory /\ ListsBut(m, NULL)
  BY DEF Good
<1>2. /\ s \in Blocks /\ Live(m, s) /\ ListOf(m, s) = LowPrio /\ m.prev[s] = NULL
      /\ LowPrio \in Lists
  BY <1>1, PointerFacts DEF ListsBut, HeadBut, Memory, Pointers
<1>3. n \in Pointers /\ n # s /\ c \in Contexts /\ NULL \in Pointers
  BY <1>1, <1>2, Neighbours DEF Pointers
<1>4. m.lowPrio[s] = 1 /\ m.kind[s] \in {"socket", "shut_down"}
  <2>1. m.lowPrio[s] = 1
    BY <1>2, <1>3, PointerFacts DEF ListOf, ContextList
  <2>. QED BY <1>1, <1>2, <2>1, PointerFacts DEF ListsBut, KindBut, Memory, Kinds
<1> HIDE DEF s
<1>5. /\ u.context = m.context /\ u.kind = m.kind /\ u.lowPrio = m.lowPrio
      /\ u.iterator = m.iterator /\ u.closed = m.closed
      /\ u.next = [m.next EXCEPT ![s] = NULL]
      /\ u.prev = Store(m.prev, n, NULL)
      /\ u.head = [m.head EXCEPT ![LowPrio] = n]
  <2>1. /\ u.context = m.context /\ u.kind = m.kind /\ u.lowPrio = m.lowPrio
        /\ u.iterator = m.iterator /\ u.closed = m.closed
    BY <1>1 DEF Memory
  <2>2. u.next = [m.next EXCEPT ![s] = NULL]
    BY <1>1 DEF Memory
  <2>3. u.prev = Store(m.prev, n, NULL)
    BY <1>1 DEF Memory
  <2>4. u.head = [m.head EXCEPT ![LowPrio] = n]
    BY <1>1 DEF Memory
  <2>. QED BY <2>1, <2>2, <2>3, <2>4
<1>6. u \in Memory
  <2> DEFINE x == [m EXCEPT !.head = [@ EXCEPT ![LowPrio] = n]]
             y == [x EXCEPT !.prev = Store(@, n, NULL)]
             z == [y EXCEPT !.next = [@ EXCEPT ![s] = NULL]]
  <2> HIDE DEF n
  <2>1. x \in Memory
    BY <1>1, <1>3 DEF Memory
  <2> HIDE DEF x
  <2>2. y \in Memory
    BY <2>1, <1>3 DEF Store, Memory
  <2> HIDE DEF y
  <2>3. z \in Memory
    BY <2>2, <1>3 DEF Memory
  <2>. QED BY <2>3 DEF x, y
<1> HIDE DEF u
<1>7. /\ v \in Memory
      /\ v.context = u.context /\ v.kind = u.kind /\ v.lowPrio = [u.lowPrio EXCEPT ![s] = 2]
      /\ v.iterator = u.iterator /\ v.closed = u.closed
      /\ v.next = u.next /\ v.prev = u.prev /\ v.head = u.head
  BY <1>2, <1>6 DEF Memory
<1>8. Joins(m, v, s)
  <2>1. \A b \in Blocks : b # s =>
          /\ v.kind[b] = m.kind[b] /\ v.context[b] = m.context[b]
          /\ v.lowPrio[b] = m.lowPrio[b] /\ v.next[b] = m.next[b]
          /\ v.prev[b] = IF b = m.next[s] THEN m.prev[s] ELSE m.prev[b]
    BY <1>1, <1>2, <1>5, <1>7 DEF Store, Memory
  <2>2. \A k \in Lists : v.head[k] = IF k = LowPrio THEN n ELSE m.head[k]
    BY <1>1, <1>5, <1>7 DEF Memory
  <2>3. \A d \in Contexts : m.iterator[d] # s
    BY <1>1, <1>2, PointerFacts DEF ListsBut, IteratorBut, Linked
  <2>4. \A b \in Blocks : b # m.prev[s]
    BY <1>2, PointerFacts
  <2>. QED BY <1>2, <1>5, <1>7, <2>1, <2>2, <2>3, <2>4 DEF Joins
<1>9. ListsBut(v, s)
  BY <1>1, <1>2, <1>7, <1>8, JoinsDetaches
<1>10. Good(Link(v, s, c))
  <2>1. v.kind[s] \in {"socket", "shut_down"} /\ v.lowPrio[s] = 2
    BY <1>1, <1>2, <1>4, <1>5, <1>7 DEF Memory
  <2>2. v \in Memory
    BY <1>7
  <2> HIDE DEF v, c
  <2>3. Link(v, s, c) \in Memory /\ ListsBut(Link(v, s, c), NULL)
    BY <1>2, <1>3, <1>9, <2>1, <2>2, LinkAttaches
  <2>. QED BY <2>3 DEF Good
<1>11. Resume(m) = Link(v, s, c)
  <2> HIDE DEF c
  <2>1. [Link(u, s, c) EXCEPT !.lowPrio[s] = 2] = Link(v, s, c)
    BY <1>2, <1>6 DEF Link, Memory
  <2>. QED BY <2>1 DEF Resume, u, s, c
<1>. QED BY <1>10, <1>11

(* Memory u is m with block n in the place of s; n was free, s is now.        *)
Replaces(m, u, s, n) ==
  LET to(p)   == IF p = s THEN n ELSE p
      from(b) == IF b = n THEN s ELSE b
  IN  /\ u.closed = m.closed /\ u.iterator = m.iterator
      /\ Free(u, s) /\ u.lowPrio[s] = 0
      /\ \A b \in Blocks : b # s =>
           /\ u.kind[b] = m.kind[from(b)]
           /\ u.context[b] = m.context[from(b)]
           /\ u.lowPrio[b] = m.lowPrio[from(b)]
           /\ ~Free(m, from(b)) => /\ u.next[b] = to(m.next[from(b)])
                                   /\ u.prev[b] = to(m.prev[from(b)])
      /\ \A k \in Lists : u.head[k] = to(m.head[k])

(* A queued socket may be replaced where it stands.                           *)
LEMMA ReplacesGood ==
  ASSUME NEW m, Good(m), NEW s \in Blocks, Live(m, s), m.lowPrio[s] = 1,
         NEW n \in Blocks, Free(m, n), NEW u \in Memory, Replaces(m, u, s, n)
  PROVE  Good(u)
<1> DEFINE to(p)   == IF p = s THEN n ELSE p
           from(b) == IF b = n THEN s ELSE b
<1>1. m \in Memory /\ ListsBut(m, NULL)
  BY DEF Good
<1>2. n # s /\ ~Live(m, n) /\ ~Closed(m, n) /\ ~Closed(m, s)
  BY DEF Live, Closed
<1>3. \A b \in Blocks : Live(m, b) => m.next[b] # n /\ m.prev[b] # n
  BY <1>1, <1>2, Neighbours, PointerFacts
<1>4. \A b \in Blocks : b # s =>
        /\ u.kind[b] = m.kind[from(b)]
        /\ u.context[b] = m.context[from(b)]
        /\ u.lowPrio[b] = m.lowPrio[from(b)]
        /\ ~Free(m, from(b)) => /\ u.next[b] = to(m.next[from(b)])
                                /\ u.prev[b] = to(m.prev[from(b)])
  BY DEF Replaces
<1>5. /\ u.closed = m.closed /\ u.iterator = m.iterator
      /\ Free(u, s) /\ u.lowPrio[s] = 0
      /\ \A k \in Lists : u.head[k] = to(m.head[k])
  BY DEF Replaces
<1>6. m.context[s] \in Contexts
  BY <1>1, Neighbours
<1>7. \A b \in Blocks : b # s =>
        /\ Live(u, b) <=> Live(m, from(b))
        /\ Closed(u, b) <=> Closed(m, from(b))
        /\ Free(u, b) <=> Free(m, from(b))
        /\ ListOf(u, b) = ListOf(m, from(b))
  <2>1. SUFFICES ASSUME NEW b \in Blocks, b # s
                 PROVE  /\ Live(u, b) <=> Live(m, from(b))
                        /\ Closed(u, b) <=> Closed(m, from(b))
                        /\ Free(u, b) <=> Free(m, from(b))
                        /\ ListOf(u, b) = ListOf(m, from(b))
    OBVIOUS
  <2>2. Free(u, b) <=> Free(m, from(b))
    BY <2>1, <1>4 DEF Free
  <2>3. ListOf(u, b) = ListOf(m, from(b))
    BY <2>1, <1>4 DEF ListOf, ContextList
  <2>4. ~Free(m, from(b)) => m.context[from(b)] \in Contexts
    BY <1>1, <1>6, PointerFacts DEF ListsBut, ContextBut
  <2>5. ~Free(m, from(b)) =>
          (u.prev[b] = u.context[b] <=> m.prev[from(b)] = m.context[from(b)])
    BY <2>1, <2>4, <1>4, PointerFacts
  <2>. QED BY <2>2, <2>3, <2>5 DEF Live, Closed
<1>8. ~Live(u, s) /\ ~Closed(u, s)
  BY <1>5 DEF Live, Closed
<1>9. \A b \in Blocks : b # s /\ Live(u, b) =>
        /\ from(b) \in Blocks /\ Live(m, from(b)) /\ from(b) # n
        /\ m.next[from(b)] # n /\ m.prev[from(b)] # n
        /\ to(from(b)) = b
  BY <1>2, <1>3, <1>7
<1>10. \A b \in Blocks : Live(m, b) =>
         /\ to(b) \in Blocks /\ to(b) # s /\ Live(u, to(b))
         /\ ListOf(u, to(b)) = ListOf(m, b) /\ from(to(b)) = b
         /\ u.next[to(b)] = to(m.next[b]) /\ u.prev[to(b)] = to(m.prev[b])
  BY <1>2, <1>4, <1>7 DEF Live
<1>11. NextBut(u, NULL)
  <2>1. SUFFICES ASSUME NEW b \in Blocks, Live(u, b), u.next[b] # NULL
                 PROVE  /\ u.next[b] # NULL /\ Live(u, u.next[b])
                        /\ ListOf(u, u.next[b]) = ListOf(u, b)
                        /\ u.prev[u.next[b]] = b
    BY DEF NextBut
  <2>2. PICK a \in Blocks : a = from(b) /\ Live(m, a) /\ b = to(a) /\ u.next[b] = to(m.next[a])
    BY <2>1, <1>4, <1>8, <1>9 DEF Live
  <2>3. m.next[a] # NULL
    BY <2>1, <2>2, PointerFacts
  <2>4. /\ m.next[a] \in Blocks /\ Live(m, m.next[a]) /\ m.prev[m.next[a]] = a
        /\ ListOf(m, m.next[a]) = ListOf(m, a)
    BY <2>2, <2>3, <1>1, Neighbours DEF Pointers
  <2>. QED BY <2>1, <2>2, <2>4, <1>10
<1>12. PrevBut(u, NULL)
  <2>1. SUFFICES ASSUME NEW b \in Blocks, Live(u, b)
                 PROVE  IF u.prev[b] = NULL
                        THEN u.head[ListOf(u, b)] = b
                        ELSE /\ u.prev[b] \in Blocks /\ u.prev[b] # NULL
                             /\ Live(u, u.prev[b]) /\ u.next[u.prev[b]] = b
    BY DEF PrevBut
  <2>2. PICK a \in Blocks : /\ a = from(b) /\ Live(m, a) /\ b = to(a)
                            /\ u.prev[b] = to(m.prev[a]) /\ ListOf(u, b) = ListOf(m, a)
    BY <2>1, <1>4, <1>7, <1>8, <1>9 DEF Live
  <2>3. ListOf(m, a) \in Lists
    BY <2>2, <1>1, Neighbours
  <2>4. CASE m.prev[a] = NULL
    <3>1. m.head[ListOf(m, a)] = a
      BY <2>2, <2>4, <1>1, PointerFacts DEF ListsBut, PrevBut
    <3>2. u.prev[b] = NULL
      BY <2>2, <2>4, PointerFacts
    <3>. QED BY <2>2, <2>3, <3>1, <3>2, <1>5
  <2>5. CASE m.prev[a] # NULL
    <3>1. m.prev[a] \in Blocks /\ Live(m, m.prev[a]) /\ m.next[m.prev[a]] = a
      BY <2>2, <2>5, <1>1, Neighbours DEF Pointers
    <3>2. u.prev[b] \in Blocks /\ Live(u, u.prev[b]) /\ u.next[u.prev[b]] = b
      BY <2>2, <3>1, <1>10
    <3>. QED BY <3>2, PointerFacts
  <2>. QED BY <2>4, <2>5
<1>13. HeadBut(u, NULL)
  <2>1. SUFFICES ASSUME NEW k \in Lists, u.head[k] # NULL
                 PROVE  /\ u.head[k] # NULL /\ Live(u, u.head[k])
                        /\ ListOf(u, u.head[k]) = k /\ u.prev[u.head[k]] = NULL
    BY DEF HeadBut
  <2>2. PICK a \in Blocks : a = m.head[k] /\ u.head[k] = to(a)
    BY <2>1, <1>1, <1>5, PointerFacts DEF Memory, Pointers
  <2>3. Live(m, a) /\ ListOf(m, a) = k /\ m.prev[a] = NULL
    BY <2>2, <1>1, PointerFacts DEF ListsBut, HeadBut
  <2>. QED BY <2>1, <2>2, <2>3, <1>10, PointerFacts
<1>14. ClosedBut(u, NULL)
  <2>1. ClosedBut(m, NULL)
    BY <1>1 DEF ListsBut
  <2>2. m.closed \in Pointers /\ \A b \in Blocks : m.next[b] \in Pointers
    BY <1>1 DEF Memory
  <2>3. \A b \in Blocks : Closed(u, b) <=> Closed(m, b)
    BY <1>2, <1>7, <1>8
  <2>4. \A b \in Blocks : Closed(m, b) => b # s /\ b # n /\ m.next[b] # s
    BY <2>1, <2>2, <1>2, PointerFacts DEF ClosedBut, Pointers
  <2>5. \A b \in Blocks : Closed(m, b) => u.next[b] = m.next[b]
    BY <2>4, <1>4 DEF Closed
  <2>. QED BY <2>1, <2>2, <2>3, <2>5, <1>5 DEF ClosedBut, Pointers
<1>15. IteratorBut(u, NULL)
  <2>1. SUFFICES ASSUME NEW c \in Contexts, u.iterator[c] # NULL
                 PROVE  Linked(u, u.iterator[c], c)
    BY DEF IteratorBut
  <2>2. PICK a \in Blocks : a = m.iterator[c] /\ a = u.iterator[c]
    BY <2>1, <1>1, <1>5 DEF Memory, Pointers
  <2>3. Live(m, a) /\ ListOf(m, a) = <<c, "sockets">>
    BY <2>1, <2>2, <1>1, <1>5 DEF ListsBut, IteratorBut, Linked
  <2>4. a # s
    BY <2>3, PointerFacts DEF ListOf
  <2>. QED BY <2>2, <2>3, <2>4, <1>10 DEF Linked
<1>16. KindBut(u, NULL) /\ ContextBut(u, NULL)
  <2>1. KindBut(u, NULL)
    <3>1. \A b \in Blocks : m.kind[b] \in {"free", "listen", "connecting"} => m.lowPrio[b] = 0
      BY <1>1, PointerFacts DEF ListsBut, KindBut
    <3>2. \A b \in Blocks : u.kind[b] \in {"free", "listen", "connecting"} => u.lowPrio[b] = 0
      BY <3>1, <1>4, <1>5
    <3>. QED BY <3>2 DEF KindBut
  <2>2. ContextBut(u, NULL)
    <3>1. \A b \in Blocks : ~Free(m, b) => m.context[b] \in Contexts
      BY <1>1, PointerFacts DEF ListsBut, ContextBut
    <3>2. \A b \in Blocks : ~Free(u, b) => u.context[b] \in Contexts
      BY <3>1, <1>4, <1>5, <1>7
    <3>. QED BY <3>2 DEF ContextBut
  <2>. QED BY <2>1, <2>2
<1>17. \E r \in [Blocks -> Int] : Downhill(u, NULL, r)
  <2>1. PICK r \in [Blocks -> Int] : Downhill(m, NULL, r)
    BY <1>1 DEF ListsBut
  <2> DEFINE q == [b \in Blocks |-> r[from(b)]]
  <2>2. q \in [Blocks -> Int]
    OBVIOUS
  <2>3. ASSUME NEW b \in Blocks, Live(u, b), u.next[b] # NULL
        PROVE  q[u.next[b]] < q[b]
    <3>1. PICK a \in Blocks : a = from(b) /\ Live(m, a) /\ u.next[b] = to(m.next[a])
      BY <2>3, <1>4, <1>8, <1>9 DEF Live
    <3>2. m.next[a] # NULL
      BY <2>3, <3>1, PointerFacts
    <3>3. m.next[a] \in Blocks /\ Live(m, m.next[a]) /\ r[m.next[a]] < r[a]
      BY <2>1, <3>1, <3>2, <1>1, Neighbours, PointerFacts DEF Downhill, Pointers
    <3>4. to(m.next[a]) \in Blocks /\ from(to(m.next[a])) = m.next[a]
      BY <3>3, <1>10
    <3>. QED BY <3>1, <3>3, <3>4
  <2>4. Downhill(u, NULL, q)
    BY <2>3 DEF Downhill
  <2>. QED BY <2>2, <2>4
<1>. QED BY <1>11, <1>12, <1>13, <1>14, <1>15, <1>16, <1>17 DEF Good, ListsBut

(* us_socket_context_adopt_socket: a linked socket moves to the head of its   *)
(* new context, a queued one is replaced where it stands.                     *)
LEMMA AdoptGood ==
  ASSUME NEW m, Good(m), NEW s \in Blocks, Live(m, s),
         m.kind[s] \in {"socket", "shut_down"},
         NEW c \in Contexts, NEW n \in Blocks, n = s \/ Free(m, n)
  PROVE  Good(Adopt(m, s, c, n))
<1>1. m \in Memory /\ ListsBut(m, NULL)
  BY DEF Good
<1>2. CASE m.lowPrio[s] # 1
  <2> DEFINE u == Unlink(m, s)
             v == Move(u, s, n)
  <2>1. u \in Memory /\ ListsBut(u, s)
    BY <1>1, <1>2, UnlinkDetaches
  <2>2. u.kind = m.kind /\ u.lowPrio = m.lowPrio
    BY <1>1, <1>2, UnlinkFields
  <2>3. n = s \/ Free(u, n)
    BY <2>2 DEF Free
  <2> HIDE DEF u
  <2>4. /\ v \in Memory /\ ListsBut(v, n)
        /\ v.kind[n] = m.kind[s] /\ v.lowPrio[n] = m.lowPrio[s]
    BY <2>1, <2>2, <2>3, MoveDetached
  <2> HIDE DEF v
  <2>5. Link(v, n, c) \in Memory /\ ListsBut(Link(v, n, c), NULL)
    BY <1>2, <2>4, LinkAttaches
  <2>. QED BY <1>2, <2>5 DEF Adopt, Good, u, v
<1>3. CASE m.lowPrio[s] = 1
  <2> DEFINE p == m.prev[s]
             x == m.next[s]
             v == Move(m, s, n)
             w == Adopt(m, s, c, n)
  <2>1. /\ p \in Pointers /\ x \in Pointers /\ p # s /\ x # s
        /\ p # NULL => Live(m, p) /\ m.next[p] = s
        /\ x # NULL => Live(m, x) /\ m.prev[x] = s
    BY <1>1, Neighbours
  <2>2. ListOf(m, s) = LowPrio /\ LowPrio \in Lists
    BY <1>3, PointerFacts DEF ListOf
  <2>3. p = NULL => m.head[LowPrio] = s
    BY <1>1, <2>2, PointerFacts DEF ListsBut, PrevBut
  <2>4. n # s => p # n /\ x # n
    BY <2>1, PointerFacts DEF Live, Pointers
  <2>5. /\ v.prev[n] = p /\ v.next[n] = x
        /\ v.head = m.head /\ v.iterator = m.iterator /\ v.closed = m.closed
        /\ v.next = IF n = s THEN m.next ELSE [m.next EXCEPT ![n] = x, ![s] = NULL]
        /\ v.prev = IF n = s THEN m.prev ELSE [m.prev EXCEPT ![n] = p, ![s] = NULL]
    BY <1>1 DEF Move, Memory
  <2>6. /\ v.kind = IF n = s THEN m.kind ELSE [m.kind EXCEPT ![n] = m.kind[s], ![s] = "free"]
        /\ v.context = IF n = s THEN m.context
                       ELSE [m.context EXCEPT ![n] = m.context[s], ![s] = NULL]
        /\ v.lowPrio = IF n = s THEN m.lowPrio
                       ELSE [m.lowPrio EXCEPT ![n] = m.lowPrio[s], ![s] = 0]
    BY <1>1 DEF Move, Memory
  <2>7. v \in Memory
    <3>1. CASE n = s
      BY <1>1, <3>1 DEF Move
    <3>2. CASE n # s
      <4>1. v = [next |-> v.next, prev |-> v.prev, context |-> v.context, lowPrio |-> v.lowPrio,
                 kind |-> v.kind, head |-> v.head, iterator |-> v.iterator, closed |-> v.closed]
        BY <1>1, <3>2 DEF Move, Memory
      <4>2. v.next \in [Blocks -> Pointers] /\ v.prev \in [Blocks -> Pointers \cup Contexts]
        BY <1>1, <2>1, <2>5, <3>2 DEF Memory, Pointers
      <4>3. v.kind \in [Blocks -> Kinds] /\ v.lowPrio \in [Blocks -> 0..2]
        BY <1>1, <2>6, <3>2 DEF Memory, Kinds
      <4>4. v.context \in [Blocks -> Contexts \cup {NULL}]
        BY <1>1, <2>6, <3>2 DEF Memory
      <4>. QED BY <4>1, <4>2, <4>3, <4>4, <2>5, <1>1 DEF Memory
    <3>. QED BY <3>1, <3>2
  <2>8. w = [v EXCEPT !.head[LowPrio] = IF p = NULL THEN n ELSE @,
                      !.next          = Store(@, p, n),
                      !.prev          = Store(@, x, n)]
    BY <1>3, <2>5 DEF Adopt
  <2> HIDE DEF v, w, p, x
  <2>9. /\ w.kind = v.kind /\ w.context = v.context /\ w.lowPrio = v.lowPrio
        /\ w.iterator = v.iterator /\ w.closed = v.closed
        /\ w.next = Store(v.next, p, n) /\ w.prev = Store(v.prev, x, n)
        /\ w.head = [v.head EXCEPT ![LowPrio] = IF p = NULL THEN n ELSE @]
    <3>1. /\ w.kind = v.kind /\ w.context = v.context /\ w.lowPrio = v.lowPrio
          /\ w.iterator = v.iterator /\ w.closed = v.closed
      BY <2>7, <2>8 DEF Memory
    <3>2. w.next = Store(v.next, p, n)
      BY <2>7, <2>8 DEF Memory
    <3>3. w.prev = Store(v.prev, x, n)
      BY <2>7, <2>8 DEF Memory
    <3>4. w.head = [v.head EXCEPT ![LowPrio] = IF p = NULL THEN n ELSE @]
      BY <2>7, <2>8 DEF Memory
    <3>. QED BY <3>1, <3>2, <3>3, <3>4
  <2>10. w \in Memory
    <3> DEFINE a == [v EXCEPT !.head = [@ EXCEPT ![LowPrio] = IF p = NULL THEN n ELSE v.head[LowPrio]]]
               b == [a EXCEPT !.next = Store(@, p, n)]
               d == [b EXCEPT !.prev = Store(@, x, n)]
    <3>1. a \in Memory
      BY <2>2, <2>7 DEF Memory, Pointers
    <3> HIDE DEF a
    <3>2. b \in Memory
      BY <2>1, <3>1 DEF Store, Memory, Pointers
    <3> HIDE DEF b
    <3>3. d \in Memory
      BY <2>1, <3>2 DEF Store, Memory, Pointers
    <3>. QED BY <2>8, <3>3 DEF a, b
  <2>11. CASE n = s
    <3>1. w.next = m.next /\ w.prev = m.prev /\ w.head = m.head
      <4>1. w.next = m.next
        BY <1>1, <2>1, <2>5, <2>9, <2>11, PointerFacts DEF Store, Memory
      <4>2. w.prev = m.prev
        BY <1>1, <2>1, <2>5, <2>9, <2>11, PointerFacts DEF Store, Memory
      <4>3. w.head = m.head
        BY <1>1, <2>2, <2>3, <2>5, <2>9, <2>11 DEF Memory
      <4>. QED BY <4>1, <4>2, <4>3
    <3>2. /\ w.kind = m.kind /\ w.context = m.context /\ w.lowPrio = m.lowPrio
          /\ w.iterator = m.iterator /\ w.closed = m.closed
      BY <2>5, <2>6, <2>9, <2>11
    <3>3. Keeps(m, w)
      BY <3>1, <3>2 DEF Keeps, Free, ListOf, ContextList
    <3>4. KindBut(w, NULL) /\ IteratorBut(w, NULL)
      BY <1>1, <3>1, <3>2 DEF ListsBut, KindBut, IteratorBut, Linked, Live, Free, ListOf, ContextList
    <3>. QED BY <2>10, <3>3, <3>4, KeepsGood DEF w
  <2>12. CASE n # s
    <3>1. Free(m, n)
      BY <2>12
    <3>2. ASSUME NEW b \in Blocks, ~Free(m, b)
          PROVE  /\ m.next[b] = s <=> b = p
                 /\ m.prev[b] = s <=> b = x
                 /\ m.next[b] # n /\ b # n
      <4>1. CASE Live(m, b)
        <5>1. m.next[b] = s <=> b = p
          BY <4>1, <1>1, <2>1, Neighbours, PointerFacts DEF p
        <5>2. m.prev[b] = s <=> b = x
          BY <4>1, <1>1, <2>1, Neighbours, PointerFacts DEF x
        <5>3. m.next[b] # n
          BY <3>1, <4>1, <1>1, Neighbours, PointerFacts DEF Live
        <5>. QED BY <5>1, <5>2, <5>3, <3>1, <3>2
      <4>2. CASE ~Live(m, b)
        <5>1. Closed(m, b) /\ ~Closed(m, s) /\ ~Closed(m, n)
          BY <3>1, <3>2, <4>2 DEF Live, Closed, Free
        <5>2. m.next[b] # s /\ m.next[b] # n
          BY <5>1, <1>1, PointerFacts DEF ListsBut, ClosedBut
        <5>3. m.prev[b] # s
          BY <5>1, <3>2, <1>1, PointerFacts DEF ListsBut, ContextBut, Closed
        <5>4. b # p /\ b # x
          BY <4>2, <2>1, PointerFacts DEF Pointers
        <5>. QED BY <5>2, <5>3, <5>4, <3>1, <3>2
      <4>. QED BY <4>1, <4>2
    <3>3. Replaces(m, w, s, n)
      <4> DEFINE to(y)   == IF y = s THEN n ELSE y
                 from(b) == IF b = n THEN s ELSE b
      <4>1. \A b \in Blocks : b # s =>
              /\ w.kind[b] = m.kind[from(b)]
              /\ w.context[b] = m.context[from(b)]
              /\ w.lowPrio[b] = m.lowPrio[from(b)]
        BY <1>1, <2>6, <2>9, <2>12 DEF Memory
      <4>2. Free(w, s) /\ w.lowPrio[s] = 0
        BY <1>1, <2>6, <2>9, <2>12 DEF Memory, Free
      <4>3. w.closed = m.closed /\ w.iterator = m.iterator
        BY <2>5, <2>9
      <4>4. \A k \in Lists : w.head[k] = to(m.head[k])
        <5>1. \A k \in Lists : w.head[k] = IF k = LowPrio /\ p = NULL THEN n ELSE m.head[k]
          BY <1>1, <2>2, <2>5, <2>9 DEF Memory
        <5>2. \A k \in Lists : m.head[k] = s => k = LowPrio /\ p = NULL
          BY <1>1, <2>2, PointerFacts DEF ListsBut, HeadBut, p
        <5>. QED BY <5>1, <5>2, <2>3
      <4>5. \A b \in Blocks : b # s =>
              /\ w.next[b] = IF b = p THEN n ELSE IF b = n THEN x ELSE m.next[b]
              /\ w.prev[b] = IF b = x THEN n ELSE IF b = n THEN p ELSE m.prev[b]
        BY <1>1, <2>4, <2>5, <2>7, <2>9, <2>12 DEF Store, Memory
      <4>6. ASSUME NEW b \in Blocks, b # s, ~Free(m, from(b))
            PROVE  w.next[b] = to(m.next[from(b)]) /\ w.prev[b] = to(m.prev[from(b)])
        <5>1. CASE b = n
          BY <5>1, <4>5, <2>1, <2>4, <2>12, <4>6 DEF p, x
        <5>2. CASE b # n
          BY <5>2, <4>5, <4>6, <3>2
        <5>. QED BY <5>1, <5>2
      <4>. QED BY <4>1, <4>2, <4>3, <4>4, <4>6 DEF Replaces
    <3>. QED BY <1>3, <2>10, <3>1, <3>3, ReplacesGood DEF w
  <2>. QED BY <2>11, <2>12 DEF w
<1>. QED BY <1>2, <1>3

(* One round of us_internal_free_closed_sockets takes the head of the closed  *)
(* list, and nothing else points at it.                                       *)
LEMMA FreeGood ==
  ASSUME NEW m, Good(m), m.closed # NULL
  PROVE  Good(FreeHead(m))
<1> DEFINE s == m.closed
           u == FreeHead(m)
<1>1. m \in Memory /\ ListsBut(m, NULL)
  BY DEF Good
<1>2. s \in Blocks /\ Closed(m, s) /\ ~Live(m, s) /\ m.next[s] \in Pointers
  BY <1>1 DEF ListsBut, ClosedBut, Memory, Pointers, Closed, Live
<1>3. /\ u.closed = m.next[s] /\ u.head = m.head /\ u.iterator = m.iterator
      /\ u.kind = [m.kind EXCEPT ![s] = "free"]
      /\ u.context = [m.context EXCEPT ![s] = NULL]
      /\ u.lowPrio = [m.lowPrio EXCEPT ![s] = 0]
      /\ u.next = [m.next EXCEPT ![s] = NULL]
      /\ u.prev = [m.prev EXCEPT ![s] = NULL]
  <2>1. u.closed = m.next[s] /\ u.head = m.head /\ u.iterator = m.iterator
    BY <1>1 DEF FreeHead, Memory
  <2>2. u.kind = [m.kind EXCEPT ![s] = "free"] /\ u.context = [m.context EXCEPT ![s] = NULL]
    BY <1>1 DEF FreeHead, Memory
  <2>3. u.lowPrio = [m.lowPrio EXCEPT ![s] = 0] /\ u.next = [m.next EXCEPT ![s] = NULL]
    BY <1>1 DEF FreeHead, Memory
  <2>4. u.prev = [m.prev EXCEPT ![s] = NULL]
    BY <1>1 DEF FreeHead, Memory
  <2>. QED BY <2>1, <2>2, <2>3, <2>4
<1>4. u \in Memory
  <2>1. NULL \in Pointers /\ "free" \in Kinds
    BY DEF Pointers, Kinds
  <2> DEFINE v == [m EXCEPT !.closed = m.next[s]]
             w == [v EXCEPT !.next = [@ EXCEPT ![s] = NULL]]
             x == [w EXCEPT !.prev = [@ EXCEPT ![s] = NULL]]
             y == [x EXCEPT !.context = [@ EXCEPT ![s] = NULL]]
             z == [y EXCEPT !.lowPrio = [@ EXCEPT ![s] = 0]]
             f == [z EXCEPT !.kind = [@ EXCEPT ![s] = "free"]]
  <2>2. v \in Memory
    BY <1>1, <1>2 DEF Memory
  <2> HIDE DEF v
  <2>3. w \in Memory
    BY <2>1, <2>2 DEF Memory
  <2> HIDE DEF w
  <2>4. x \in Memory
    BY <2>1, <2>3 DEF Memory
  <2> HIDE DEF x
  <2>5. y \in Memory
    BY <2>4 DEF Memory
  <2> HIDE DEF y
  <2>6. z \in Memory
    BY <2>5 DEF Memory
  <2> HIDE DEF z
  <2>7. f \in Memory
    BY <2>1, <2>6 DEF Memory
  <2>. QED BY <2>7 DEF FreeHead, v, w, x, y, z
<1> HIDE DEF u
<1>5. \A b \in Blocks : b # s =>
        /\ u.next[b] = m.next[b] /\ u.prev[b] = m.prev[b] /\ u.kind[b] = m.kind[b]
        /\ u.context[b] = m.context[b] /\ u.lowPrio[b] = m.lowPrio[b]
  BY <1>1, <1>3 DEF Memory
<1>6. \A b \in Blocks : b # s =>
        /\ Live(u, b) <=> Live(m, b)
        /\ Closed(u, b) <=> Closed(m, b)
        /\ Free(u, b) <=> Free(m, b)
        /\ ListOf(u, b) = ListOf(m, b)
  BY <1>5 DEF Live, Closed, Free, ListOf, ContextList
<1>7. Free(u, s) /\ ~Live(u, s) /\ ~Closed(u, s) /\ u.lowPrio[s] = 0
  BY <1>1, <1>2, <1>3 DEF Free, Live, Closed, Memory
<1>8. NextBut(u, NULL)
  BY <1>1, <1>2, <1>5, <1>6, <1>7 DEF ListsBut, NextBut, Memory, Pointers
<1>9. PrevBut(u, NULL)
  BY <1>1, <1>2, <1>3, <1>5, <1>6, <1>7 DEF ListsBut, PrevBut
<1>10. HeadBut(u, NULL)
  BY <1>1, <1>2, <1>3, <1>5, <1>6 DEF ListsBut, HeadBut, Memory, Pointers
<1>11. ClosedBut(u, NULL)
  <2>1. ClosedBut(m, NULL)
    BY <1>1 DEF ListsBut
  <2>2. \A b \in Blocks : m.next[b] \in Pointers
    BY <1>1 DEF Memory
  <2>3. \A b \in Blocks : Closed(m, b) => m.next[b] # s
    BY <2>1, <1>2, PointerFacts DEF ClosedBut
  <2>4. \A b \in Blocks : Closed(u, b) <=> b # s /\ Closed(m, b)
    BY <1>6, <1>7
  <2>5. u.closed # NULL => Closed(u, u.closed)
    BY <2>1, <2>2, <2>3, <2>4, <1>2, <1>3, PointerFacts DEF ClosedBut, Pointers
  <2>6. \A b \in Blocks : Closed(u, b) /\ u.next[b] # NULL =>
          Closed(u, u.next[b]) /\ u.next[b] # u.closed
    BY <2>1, <2>2, <2>3, <2>4, <1>2, <1>3, <1>5, PointerFacts DEF ClosedBut, Pointers
  <2>7. \A b \in Blocks : Closed(u, b) =>
          b = u.closed \/ \E a \in Blocks : a # NULL /\ Closed(u, a) /\ u.next[a] = b
    BY <2>1, <2>4, <1>3, <1>5, PointerFacts DEF ClosedBut
  <2>8. \A a, b \in Blocks :
          Closed(u, a) /\ Closed(u, b) /\ u.next[a] = u.next[b] /\ u.next[a] # NULL => a = b
    BY <2>1, <2>4, <1>5, PointerFacts DEF ClosedBut
  <2>. QED BY <2>5, <2>6, <2>7, <2>8 DEF ClosedBut
<1>12. IteratorBut(u, NULL)
  BY <1>1, <1>2, <1>3, <1>6 DEF ListsBut, IteratorBut, Linked, Memory, Pointers
<1>13. KindBut(u, NULL) /\ ContextBut(u, NULL)
  BY <1>1, <1>5, <1>6, <1>7 DEF ListsBut, KindBut, ContextBut
<1>14. \E r \in [Blocks -> Int] : Downhill(u, NULL, r)
  BY <1>1, <1>5, <1>6, <1>7 DEF ListsBut, Downhill
<1>. QED BY <1>4, <1>8, <1>9, <1>10, <1>11, <1>12, <1>13, <1>14 DEF Good, ListsBut, u

-----------------------------------------------------------------------------
(* The sweep may stand on any live socket of the context it is in.            *)
LEMMA IteratorGood ==
  ASSUME NEW m, Good(m), NEW c \in Contexts, NEW s \in Pointers,
         s # NULL => s \in Blocks /\ Linked(m, s, c)
  PROVE  Good([m EXCEPT !.iterator[c] = s])
<1> DEFINE u == [m EXCEPT !.iterator[c] = s]
<1>1. m \in Memory /\ ListsBut(m, NULL)
  BY DEF Good
<1>2. u \in Memory
  BY <1>1 DEF Memory
<1>3. /\ u.next = m.next /\ u.prev = m.prev /\ u.context = m.context /\ u.kind = m.kind
      /\ u.head = m.head /\ u.closed = m.closed /\ u.lowPrio = m.lowPrio
      /\ u.iterator = [m.iterator EXCEPT ![c] = s]
  BY <1>1 DEF Memory
<1> HIDE DEF u
<1>4. \A b \in Blocks : /\ Free(u, b) <=> Free(m, b)
                        /\ Live(u, b) <=> Live(m, b)
                        /\ ListOf(u, b) = ListOf(m, b)
  BY <1>3 DEF Free, Live, ListOf, ContextList
<1>5. Keeps(m, u) /\ KindBut(u, NULL)
  BY <1>1, <1>3, <1>4 DEF Keeps, ListsBut, KindBut
<1>6. IteratorBut(u, NULL)
  BY <1>1, <1>3, <1>4, PointerFacts DEF ListsBut, IteratorBut, Linked, Memory, Pointers
<1>7. Good(u)
  BY <1>2, <1>5, <1>6, KeepsGood
<1>. QED BY <1>7 DEF u

(* The inductive step: one case for each operation.                           *)
LEMMA GoodStep ==
  ASSUME Good(h), [ListNext]_h
  PROVE  Good(h')
<1>1. h \in Memory /\ ListsBut(h, NULL)
  BY DEF Good
<1>2. CASE UNCHANGED h
  BY <1>2
<1>3. CASE \E s \in Blocks, c \in Contexts, k \in {"listen", "connecting", "socket"} :
             ListCreate(s, c, k)
  BY <1>3, CreateGood DEF ListCreate
<1>4. ASSUME NEW s \in Blocks, ListConnected(s) PROVE Good(h')
  <2>1. h.lowPrio[s] = 0 /\ h.lowPrio[s] \in 0..2 /\ h.kind[s] = "connecting"
    BY <1>1, <1>4, PointerFacts DEF ListConnected, ListsBut, KindBut, Memory
  <2>2. /\ h' \in Memory
        /\ h'.next = h.next /\ h'.prev = h.prev /\ h'.context = h.context
        /\ h'.head = h.head /\ h'.closed = h.closed /\ h'.iterator = h.iterator
        /\ h'.kind = [h.kind EXCEPT ![s] = "socket"]
        /\ h'.lowPrio = [h.lowPrio EXCEPT ![s] = h.lowPrio[s]]
    BY <1>1, <1>4 DEF ListConnected, Memory, Kinds
  <2>3. Relabels(h, h', s, "socket", h.lowPrio[s])
    BY <1>4, <2>1, <2>2 DEF Relabels, ListConnected, Kinds
  <2>. QED BY <2>2, <2>3, RelabelGood
<1>5. ASSUME NEW s \in Blocks, ListShutDown(s) PROVE Good(h')
  <2>1. h.lowPrio[s] \in 0..2 /\ h.kind[s] = "socket"
    BY <1>1, <1>5 DEF ListShutDown, Memory
  <2>2. /\ h' \in Memory
        /\ h'.next = h.next /\ h'.prev = h.prev /\ h'.context = h.context
        /\ h'.head = h.head /\ h'.closed = h.closed /\ h'.iterator = h.iterator
        /\ h'.kind = [h.kind EXCEPT ![s] = "shut_down"]
        /\ h'.lowPrio = [h.lowPrio EXCEPT ![s] = h.lowPrio[s]]
    BY <1>1, <1>5 DEF ListShutDown, Memory, Kinds
  <2>3. Relabels(h, h', s, "shut_down", h.lowPrio[s])
    BY <1>5, <2>1, <2>2 DEF Relabels, ListShutDown, Kinds
  <2>. QED BY <2>2, <2>3, RelabelGood
<1>6. ASSUME NEW s \in Blocks, ListServed(s) PROVE Good(h')
  <2>1. h.lowPrio[s] = 2 /\ h.kind[s] \in {"socket", "shut_down"} /\ h.kind[s] \in Kinds
    BY <1>1, <1>6, PointerFacts DEF ListServed, ListsBut, KindBut, Memory, Kinds
  <2>2. /\ h' \in Memory
        /\ h'.next = h.next /\ h'.prev = h.prev /\ h'.context = h.context
        /\ h'.head = h.head /\ h'.closed = h.closed /\ h'.iterator = h.iterator
        /\ h'.kind = [h.kind EXCEPT ![s] = h.kind[s]]
        /\ h'.lowPrio = [h.lowPrio EXCEPT ![s] = 0]
    BY <1>1, <1>6 DEF ListServed, Memory
  <2>3. Relabels(h, h', s, h.kind[s], 0)
    BY <1>6, <2>1, <2>2 DEF Relabels, ListServed, Kinds
  <2>. QED BY <2>2, <2>3, RelabelGood
<1>7. ASSUME NEW s \in Blocks, ListClose(s) PROVE Good(h')
  BY <1>7, CloseGood DEF ListClose
<1>8. ASSUME NEW s \in Blocks, ListCloseSemi(s) PROVE Good(h')
  BY <1>8, CloseSemiGood DEF ListCloseSemi
<1>9. ASSUME NEW s \in Blocks, ListDefer(s) PROVE Good(h')
  BY <1>9, DeferGood DEF ListDefer, Queued
<1>10. ASSUME NEW s \in Blocks, NEW n \in Blocks, NEW c \in Contexts, ListAdopt(s, c, n)
       PROVE  Good(h')
  BY <1>10, AdoptGood DEF ListAdopt
<1>11. ASSUME NEW s \in Blocks, NEW c \in Contexts, ListSweepAt(s, c) PROVE Good(h')
  BY <1>11, IteratorGood DEF ListSweepAt, Pointers
<1>12. ASSUME NEW c \in Contexts, ListSweepEnd(c) PROVE Good(h')
  BY <1>12, IteratorGood DEF ListSweepEnd, Pointers
<1>13. CASE ListResume
  BY <1>13, ResumeGood DEF ListResume
<1>14. CASE ListFree
  BY <1>14, FreeGood DEF ListFree
<1>. QED
  BY <1>2, <1>3, <1>4, <1>5, <1>6, <1>7, <1>8, <1>9, <1>10, <1>11, <1>12, <1>13, <1>14
     DEF ListNext

-----------------------------------------------------------------------------
GoodMemory == Good(h)

(* Goodness is invariant under the operations of the lists, for any number of *)
(* blocks and contexts.                                                       *)
THEOREM GoodInvariant == ListSpec => []GoodMemory
<1>1. ListInit => GoodMemory
  BY EmptyGood DEF ListInit, GoodMemory
<1>2. GoodMemory /\ [ListNext]_h => GoodMemory'
  BY GoodStep DEF GoodMemory
<1>. QED BY <1>1, <1>2, PTL DEF ListSpec

(* The memory keeps its shape: no operation of the library stores anything    *)
(* but a block, a context or null in a link.                                  *)
THEOREM MemoryTyped == ListSpec => []MemoryTypeOK
<1>1. GoodMemory => MemoryTypeOK
  BY DEF GoodMemory, Good, MemoryTypeOK
<1>. QED BY <1>1, GoodInvariant, PTL

(* However many sockets are created, closed, queued, resumed, adopted, freed  *)
(* and swept, in whatever order: the lists stay well formed.                  *)
THEOREM ListsStayWellFormed == ListSpec => []ListsWellFormed
<1>1. GoodMemory => ListsWellFormed
  BY ButNothing DEF GoodMemory, Good, ListsWellFormed
<1>. QED BY <1>1, GoodInvariant, PTL

-----------------------------------------------------------------------------
(* The blocks outside S are what they were.                                   *)
Others(m, u, S) == \A b \in Blocks \ S :
  /\ u.kind[b] = m.kind[b] /\ u.context[b] = m.context[b] /\ u.lowPrio[b] = m.lowPrio[b]
  /\ Live(u, b) <=> Live(m, b)

(* Who walks a list of a context, or sweeps one, passes s by.                 *)
Skips(m, u, s) ==
  /\ \A b \in Blocks \ {s} : Live(m, b) /\ ListOf(m, b) # LowPrio =>
       u.next[b] = IF m.next[b] = s THEN m.next[s] ELSE m.next[b]
  /\ \A c \in Contexts :
       u.iterator[c] = IF m.iterator[c] = s THEN m.next[s] ELSE m.iterator[c]

(* The fields of the memory after a close.                                    *)
LEMMA CloseFields ==
  ASSUME NEW m, Good(m), NEW s \in Blocks, Live(m, s)
  PROVE  /\ Close(m, s).kind = m.kind
         /\ Close(m, s).context = m.context
         /\ Close(m, s).lowPrio = [m.lowPrio EXCEPT ![s] = IF @ = 1 THEN 0 ELSE @]
         /\ Close(m, s).closed = s
         /\ Close(m, s).next = [Store(m.next, m.prev[s], m.next[s]) EXCEPT ![s] = m.closed]
         /\ Close(m, s).prev = [Store(m.prev, m.next[s], m.prev[s]) EXCEPT ![s] = m.context[s]]
         /\ \A c \in Contexts : Close(m, s).iterator[c] =
              IF m.iterator[c] = s THEN m.next[s] ELSE m.iterator[c]
<1> DEFINE p == m.prev[s]
           n == m.next[s]
           u == IF m.lowPrio[s] = 1 THEN UnlinkLowPrio(m, s) ELSE Unlink(m, s)
<1>1. m \in Memory /\ ListsBut(m, NULL)
  BY DEF Good
<1>2. p # s /\ n # s /\ p \in Pointers /\ n \in Pointers
  BY <1>1, Neighbours
<1>3. /\ u \in Memory /\ u.kind = m.kind /\ u.context = m.context /\ u.closed = m.closed
      /\ u.lowPrio = [m.lowPrio EXCEPT ![s] = IF @ = 1 THEN 0 ELSE @]
      /\ [u.next EXCEPT ![s] = m.closed] = [Store(m.next, p, n) EXCEPT ![s] = m.closed]
      /\ [u.prev EXCEPT ![s] = m.context[s]] = [Store(m.prev, n, p) EXCEPT ![s] = m.context[s]]
      /\ \A c \in Contexts : u.iterator[c] = IF m.iterator[c] = s THEN n ELSE m.iterator[c]
  <2>1. CASE m.lowPrio[s] = 1
    <3>1. u = UnlinkLowPrio(m, s) /\ u \in Memory
      BY <1>1, <2>1, UnlinkLowPrioDetaches
    <3>2. u.kind = m.kind /\ u.context = m.context /\ u.closed = m.closed /\ u.iterator = m.iterator
      BY <1>1, <2>1 DEF UnlinkLowPrio, Memory
    <3>3. u.lowPrio = [m.lowPrio EXCEPT ![s] = 0]
      BY <1>1, <2>1 DEF UnlinkLowPrio, Memory
    <3>4. u.next = [Store(m.next, p, n) EXCEPT ![s] = NULL]
      BY <1>1, <2>1 DEF UnlinkLowPrio, Memory
    <3>5. u.prev = [Store(m.prev, n, p) EXCEPT ![s] = NULL]
      BY <1>1, <2>1 DEF UnlinkLowPrio, Memory
    <3>6. \A c \in Contexts : m.iterator[c] # s
      BY <1>1, <2>1, PointerFacts DEF ListsBut, IteratorBut, Linked, ListOf
    <3>7. [u.next EXCEPT ![s] = m.closed] = [Store(m.next, p, n) EXCEPT ![s] = m.closed]
      BY <1>1, <1>2, <3>4 DEF Store, Memory
    <3>8. [u.prev EXCEPT ![s] = m.context[s]] = [Store(m.prev, n, p) EXCEPT ![s] = m.context[s]]
      BY <1>1, <1>2, <3>5 DEF Store, Memory
    <3>. QED BY <2>1, <1>1, <3>1, <3>2, <3>3, <3>6, <3>7, <3>8 DEF Memory
  <2>2. CASE m.lowPrio[s] # 1
    <3>1. u = Unlink(m, s)
      BY <2>2
    <3> HIDE DEF u
    <3>2. \A c \in Contexts : m.iterator[c] = s => c = m.context[s]
      BY <1>1, PointerFacts, <2>2 DEF ListsBut, IteratorBut, Linked, ListOf, ContextList
    <3>3. /\ u \in Memory /\ u.kind = m.kind /\ u.context = m.context /\ u.closed = m.closed
          /\ u.lowPrio = m.lowPrio /\ u.next = Store(m.next, p, n) /\ u.prev = Store(m.prev, n, p)
          /\ u.iterator = [m.iterator EXCEPT ![m.context[s]] = IF @ = s THEN m.next[s] ELSE @]
      BY <1>1, <2>2, <3>1, UnlinkFields
    <3>4. m.lowPrio = [m.lowPrio EXCEPT ![s] = IF @ = 1 THEN 0 ELSE @]
      BY <2>2, <1>1 DEF Memory
    <3>5. \A c \in Contexts : u.iterator[c] = IF m.iterator[c] = s THEN n ELSE m.iterator[c]
      BY <1>1, <3>2, <3>3 DEF Memory
    <3>. QED BY <3>3, <3>4, <3>5
  <2>. QED BY <2>1, <2>2
<1> HIDE DEF u
<1>4. /\ PushClosed(u, s).kind = u.kind /\ PushClosed(u, s).context = u.context
      /\ PushClosed(u, s).lowPrio = u.lowPrio /\ PushClosed(u, s).closed = s
      /\ PushClosed(u, s).iterator = u.iterator
      /\ PushClosed(u, s).next = [u.next EXCEPT ![s] = u.closed]
      /\ PushClosed(u, s).prev = [u.prev EXCEPT ![s] = u.context[s]]
  BY <1>3 DEF PushClosed, Memory
<1>5. Close(m, s) = PushClosed(u, s)
  BY DEF Close, u
<1>. QED BY <1>3, <1>4, <1>5

(* A close takes the socket, and no other, out of its list.                   *)
LEMMA CloseEffect ==
  ASSUME NEW m, Good(m), NEW s \in Blocks, Live(m, s)
  PROVE  /\ Others(m, Close(m, s), {s}) /\ Skips(m, Close(m, s), s)
         /\ Closed(Close(m, s), s) /\ ~Live(Close(m, s), s) /\ ~Free(Close(m, s), s)
         /\ Close(m, s).kind = m.kind /\ Close(m, s).context = m.context
<1> DEFINE u == Close(m, s)
           p == m.prev[s]
           n == m.next[s]
<1>1. m \in Memory /\ ListsBut(m, NULL)
  BY DEF Good
<1>2. /\ p # s /\ n # s /\ p \in Pointers /\ n \in Pointers
      /\ n # NULL => Live(m, n) /\ m.prev[n] = s
      /\ p # NULL => Live(m, p) /\ m.next[p] = s
      /\ m.context[s] \in Contexts
  BY <1>1, Neighbours
<1>3. /\ u.kind = m.kind /\ u.context = m.context
      /\ u.lowPrio = [m.lowPrio EXCEPT ![s] = IF @ = 1 THEN 0 ELSE @]
      /\ u.next = [Store(m.next, p, n) EXCEPT ![s] = m.closed]
      /\ u.prev = [Store(m.prev, n, p) EXCEPT ![s] = m.context[s]]
      /\ \A c \in Contexts : u.iterator[c] = IF m.iterator[c] = s THEN n ELSE m.iterator[c]
  BY CloseFields
<1> HIDE DEF u
<1>4. \A b \in Blocks \ {s} : u.prev[b] = IF b = n THEN p ELSE m.prev[b]
  BY <1>1, <1>2, <1>3 DEF Store, Memory
<1>5. n # NULL => p # m.context[n]
  <2>1. n # NULL => m.context[n] \in Contexts
    BY <1>1, <1>2, PointerFacts DEF ListsBut, ContextBut, Live, Pointers
  <2>. QED BY <2>1, <1>2, PointerFacts DEF Pointers
<1>6. Others(m, u, {s})
  BY <1>1, <1>2, <1>3, <1>4, <1>5, PointerFacts DEF Others, Live, Free, Memory
<1>7. \A b \in Blocks : Live(m, b) /\ m.next[b] = s => b = p
  BY <1>1, Neighbours, PointerFacts
<1>8. Skips(m, u, s)
  <2>1. \A b \in Blocks \ {s} : u.next[b] = IF b = p THEN n ELSE m.next[b]
    BY <1>1, <1>2, <1>3 DEF Store, Memory
  <2>. QED BY <2>1, <1>2, <1>3, <1>7, PointerFacts DEF Skips
<1>9. u.prev[s] = m.context[s]
  BY <1>1, <1>3 DEF Store, Memory
<1>. QED BY <1>3, <1>6, <1>8, <1>9 DEF Closed, Live, Free, u

(* A block is live when prev is a link of a list.                             *)
LEMMA LiveByPrev ==
  ASSUME NEW m, Good(m), NEW b \in Blocks
  PROVE  /\ ~Free(m, b) => m.context[b] \in Contexts
         /\ Live(m, b) <=> ~Free(m, b) /\ m.prev[b] \in Pointers
<1>1. m \in Memory /\ ListsBut(m, NULL)
  BY DEF Good
<1>2. ~Free(m, b) => m.context[b] \in Contexts
  BY <1>1, PointerFacts DEF ListsBut, ContextBut
<1>3. Live(m, b) => m.prev[b] \in Pointers
  BY <1>1, Neighbours
<1>. QED BY <1>2, <1>3, PointerFacts DEF Live, Free, Pointers

(* A way to show Others: the fields that say whose a block is are kept, and   *)
(* prev stays or moves between pointers.                                      *)
LEMMA OthersByPrev ==
  ASSUME NEW m, Good(m), NEW u, NEW S,
         \A b \in Blocks \ S :
           /\ u.kind[b] = m.kind[b] /\ u.context[b] = m.context[b] /\ u.lowPrio[b] = m.lowPrio[b]
           /\ u.prev[b] = m.prev[b] \/ (Live(m, b) /\ u.prev[b] \in Pointers)
  PROVE  Others(m, u, S)
<1>1. ASSUME NEW b \in Blocks \ S PROVE Live(u, b) <=> Live(m, b)
  BY LiveByPrev, PointerFacts DEF Live, Free, Pointers
<1>. QED BY <1>1 DEF Others

(* Nothing points at a free block.                                            *)
LEMMA FreeUnreached ==
  ASSUME NEW m, Good(m), NEW s \in Blocks, Free(m, s)
  PROVE  /\ \A b \in Blocks : ~Free(m, b) => m.next[b] # s
         /\ \A k \in Lists : m.head[k] # s
         /\ \A c \in Contexts : m.iterator[c] # s
         /\ m.closed # s
<1>1. m \in Memory /\ ListsBut(m, NULL) /\ ~Live(m, s) /\ ~Closed(m, s)
  BY DEF Good, Live, Closed
<1>2. ASSUME NEW b \in Blocks, ~Free(m, b) PROVE m.next[b] # s
  <2>1. CASE Live(m, b)
    BY <2>1, <1>1, PointerFacts, Neighbours
  <2>2. CASE Closed(m, b)
    BY <2>2, <1>1, PointerFacts DEF ListsBut, ClosedBut
  <2>. QED BY <1>2, <2>1, <2>2 DEF Live, Closed
<1>3. (\A k \in Lists : m.head[k] # s) /\ m.closed # s
  BY <1>1, PointerFacts DEF ListsBut, HeadBut, ClosedBut
<1>4. \A c \in Contexts : m.iterator[c] # s
  BY <1>1, PointerFacts DEF ListsBut, IteratorBut, Linked
<1>. QED BY <1>2, <1>3, <1>4

(* What us_internal_socket_context_link_* changes, field by field.            *)
LEMMA LinkFields ==
  ASSUME NEW v \in Memory, NEW s \in Blocks, NEW c \in Contexts
  PROVE  LET u   == Link(v, s, c)
             top == v.head[<<c, IF v.kind[s] = "listen" THEN "listen" ELSE "sockets">>]
         IN  /\ u.kind = v.kind /\ u.lowPrio = v.lowPrio
             /\ u.iterator = v.iterator /\ u.closed = v.closed
             /\ u.context = [v.context EXCEPT ![s] = c]
             /\ u.next = [v.next EXCEPT ![s] = top]
             /\ u.prev = Store([v.prev EXCEPT ![s] = NULL], top, s)
<1> DEFINE u   == Link(v, s, c)
           k   == <<c, IF v.kind[s] = "listen" THEN "listen" ELSE "sockets">>
           top == v.head[k]
<1>1. /\ u.kind = v.kind /\ u.lowPrio = v.lowPrio
      /\ u.iterator = v.iterator /\ u.closed = v.closed
  BY DEF Link, Memory
<1>2. u.context = [v.context EXCEPT ![s] = c]
  BY DEF Link, Memory
<1>3. u.next = [v.next EXCEPT ![s] = top]
  BY DEF Link, Memory
<1>4. u.prev = Store([v.prev EXCEPT ![s] = NULL], top, s)
  BY DEF Link, Memory
<1>. QED BY <1>1, <1>2, <1>3, <1>4

(* What a block in use holds.                                                 *)
UsedKinds == Kinds \ {"free"}

(* A new block heads its list; the others keep their links but for the prev   *)
(* of the old head.                                                           *)
LEMMA CreateEffect ==
  ASSUME NEW m, Good(m), NEW s \in Blocks, Free(m, s), NEW c \in Contexts,
         NEW k \in UsedKinds
  PROVE  LET u == Create(m, s, c, k)
         IN  /\ Others(m, u, {s}) /\ Skips(m, u, s)
             /\ Live(u, s) /\ u.kind[s] = k /\ u.context[s] = c /\ u.lowPrio[s] = 0
             /\ u.prev[s] = NULL /\ \A b \in Blocks \ {s} : u.next[b] = m.next[b]
<1> DEFINE v == [m EXCEPT !.kind[s] = k, !.lowPrio[s] = 0]
           u == Link(v, s, c)
           top == v.head[<<c, IF v.kind[s] = "listen" THEN "listen" ELSE "sockets">>]
<1>1. /\ m \in Memory /\ ListsBut(m, NULL) /\ NULL \notin Blocks /\ NULL \notin Contexts
      /\ k \in Kinds /\ k # "free"
  BY PointerFacts DEF Good, UsedKinds
<1>2. /\ v.next = m.next /\ v.prev = m.prev /\ v.context = m.context
      /\ v.head = m.head /\ v.closed = m.closed /\ v.iterator = m.iterator
      /\ v.kind = [m.kind EXCEPT ![s] = k] /\ v.lowPrio = [m.lowPrio EXCEPT ![s] = 0]
  BY <1>1 DEF Memory
<1>3. v \in Memory
  <2> DEFINE w == [m EXCEPT !.kind = [@ EXCEPT ![s] = k]]
             x == [w EXCEPT !.lowPrio = [@ EXCEPT ![s] = 0]]
  <2>1. w \in Memory
    BY <1>1 DEF Memory, Kinds
  <2> HIDE DEF w
  <2>2. x \in Memory
    BY <2>1 DEF Memory
  <2>. QED BY <2>2 DEF w
<1> HIDE DEF v
<1>4. /\ u.kind = v.kind /\ u.lowPrio = v.lowPrio
      /\ u.iterator = v.iterator /\ u.closed = v.closed
      /\ u.context = [v.context EXCEPT ![s] = c]
      /\ u.next = [v.next EXCEPT ![s] = top]
      /\ u.prev = Store([v.prev EXCEPT ![s] = NULL], top, s)
  BY <1>3, LinkFields
<1> HIDE DEF u
<1>5. top = NULL \/ (top \in Blocks /\ top # s /\ Live(m, top))
  <2>1. <<c, IF v.kind[s] = "listen" THEN "listen" ELSE "sockets">> \in Lists
    BY DEF Lists
  <2>. QED BY <2>1, <1>1, <1>2, FreeUnreached DEF ListsBut, HeadBut, Memory, Pointers
<1> HIDE DEF top
<1>6. Others(m, u, {s})
  <2>1. ASSUME NEW b \in Blocks \ {s}
        PROVE  /\ u.kind[b] = m.kind[b] /\ u.context[b] = m.context[b] /\ u.lowPrio[b] = m.lowPrio[b]
               /\ u.prev[b] = m.prev[b] \/ (Live(m, b) /\ u.prev[b] \in Pointers)
    BY <1>1, <1>2, <1>4, <1>5 DEF Memory, Store, Pointers
  <2>. QED BY <2>1, OthersByPrev
<1>7. u.prev[s] = NULL /\ \A b \in Blocks \ {s} : u.next[b] = m.next[b]
  BY <1>1, <1>2, <1>4, <1>5 DEF Memory, Store
<1>8. u.kind[s] = k /\ u.context[s] = c /\ u.lowPrio[s] = 0
  BY <1>1, <1>2, <1>4 DEF Memory
<1>9. Live(u, s)
  BY <1>1, <1>7, <1>8 DEF Live, Free
<1>10. Skips(m, u, s)
  BY <1>2, <1>4, <1>7, FreeUnreached DEF Skips, Live
<1>. QED BY <1>6, <1>7, <1>8, <1>9, <1>10 DEF Create, u, v

(* A socket put off to the queue stays live.                                  *)
LEMMA DeferEffect ==
  ASSUME NEW m, Good(m), NEW s \in Blocks, Live(m, s), m.lowPrio[s] # 1,
         m.kind[s] \in {"socket", "shut_down"}
  PROVE  LET u == Defer(m, s)
         IN  /\ Others(m, u, {s})
             /\ Live(u, s) /\ u.kind = m.kind /\ u.context = m.context /\ u.lowPrio[s] = 1
             /\ u.prev[s] = NULL
             /\ \A b \in Blocks \ {s} :
                  u.next[b] = m.next[b] \/ (m.next[b] = s /\ u.next[b] = m.next[s])
<1> DEFINE v == Unlink(m, s)
           u == PushLowPrio(v, s)
           p == m.prev[s]
           n == m.next[s]
           top == v.head[LowPrio]
<1>1. m \in Memory /\ ListsBut(m, NULL) /\ NULL \notin Blocks /\ NULL \notin Contexts /\ LowPrio \in Lists
  BY PointerFacts DEF Good
<1>2. /\ p # s /\ n # s /\ p \in Pointers /\ n \in Pointers
      /\ n # NULL => Live(m, n) /\ m.prev[n] = s
      /\ p # NULL => Live(m, p) /\ m.next[p] = s
      /\ m.context[s] \in Contexts /\ ListOf(m, s) \in Lists /\ ListOf(m, s) # LowPrio
  BY <1>1, Neighbours, PointerFacts DEF ListOf, ContextList
<1>3. /\ v \in Memory /\ v.kind = m.kind /\ v.context = m.context /\ v.lowPrio = m.lowPrio
      /\ v.next = Store(m.next, p, n) /\ v.prev = Store(m.prev, n, p)
      /\ v.head = [m.head EXCEPT ![ListOf(m, s)] = IF p = NULL THEN n ELSE @]
  <2>1. Live(m, s) /\ m.lowPrio[s] # 1
    OBVIOUS
  <2>. QED BY ONLY <1>1, <2>1, UnlinkFields
<1> HIDE DEF v
<1>4. /\ u.kind = v.kind /\ u.context = v.context
      /\ u.lowPrio = [v.lowPrio EXCEPT ![s] = 1]
      /\ u.next = [v.next EXCEPT ![s] = top]
      /\ u.prev = Store([v.prev EXCEPT ![s] = NULL], top, s)
  <2>1. u.kind = v.kind /\ u.context = v.context
    BY <1>3 DEF PushLowPrio, Memory
  <2>2. u.lowPrio = [v.lowPrio EXCEPT ![s] = 1]
    BY <1>3 DEF PushLowPrio, Memory
  <2>3. u.next = [v.next EXCEPT ![s] = top]
    BY <1>3 DEF PushLowPrio, Memory
  <2>4. u.prev = Store([v.prev EXCEPT ![s] = NULL], top, s)
    BY <1>3 DEF PushLowPrio, Memory
  <2>. QED BY <2>1, <2>2, <2>3, <2>4
<1> HIDE DEF u
<1>5. top = NULL \/ (top \in Blocks /\ top # s /\ Live(m, top))
  <2>1. top = m.head[LowPrio]
    BY <1>1, <1>2, <1>3 DEF Memory
  <2>. QED BY <2>1, <1>1, <1>2 DEF ListsBut, HeadBut, Memory, Pointers
<1> HIDE DEF top
<1>6. Others(m, u, {s})
  <2>1. ASSUME NEW b \in Blocks \ {s}
        PROVE  /\ u.kind[b] = m.kind[b] /\ u.context[b] = m.context[b] /\ u.lowPrio[b] = m.lowPrio[b]
               /\ u.prev[b] = m.prev[b] \/ (Live(m, b) /\ u.prev[b] \in Pointers)
    <3>1. u.prev[b] = IF b = top THEN s ELSE v.prev[b]
      BY <1>1, <1>3, <1>4, <1>5 DEF Memory, Store
    <3>2. v.prev[b] = IF b = n THEN p ELSE m.prev[b]
      BY <1>1, <1>2, <1>3 DEF Memory, Store
    <3>3. u.kind[b] = m.kind[b] /\ u.context[b] = m.context[b] /\ u.lowPrio[b] = m.lowPrio[b]
      BY <1>1, <1>3, <1>4 DEF Memory
    <3>. QED BY <3>1, <3>2, <3>3, <1>1, <1>2, <1>5 DEF Pointers
  <2>. QED BY <2>1, OthersByPrev
<1>7. u.prev[s] = NULL
  BY <1>1, <1>3, <1>4, <1>5 DEF Memory, Store
<1>8. \A b \in Blocks \ {s} :
        u.next[b] = m.next[b] \/ (m.next[b] = s /\ u.next[b] = m.next[s])
  BY <1>1, <1>2, <1>3, <1>4, PointerFacts DEF Memory, Store, Pointers
<1>9. Live(u, s) /\ u.lowPrio[s] = 1
  BY <1>1, <1>2, <1>3, <1>4, <1>7 DEF Live, Free, Memory
<1>. QED BY <1>3, <1>4, <1>6, <1>7, <1>8, <1>9 DEF Defer, u, v

(* The head of the queue is live, and queued.                                 *)
LEMMA QueueHead ==
  ASSUME NEW m, Good(m), m.head[LowPrio] # NULL
  PROVE  LET s == m.head[LowPrio]
         IN  /\ s \in Blocks /\ Live(m, s) /\ Queued(m, s) /\ m.prev[s] = NULL
             /\ m.kind[s] \in {"socket", "shut_down"}
<1> DEFINE s == m.head[LowPrio]
<1>1. m \in Memory /\ ListsBut(m, NULL)
  BY DEF Good
<1>2. s \in Blocks /\ Live(m, s) /\ ListOf(m, s) = LowPrio /\ m.prev[s] = NULL
  BY <1>1, PointerFacts DEF ListsBut, HeadBut, Memory, Pointers
<1>3. m.lowPrio[s] = 1
  BY <1>1, <1>2, PointerFacts, Neighbours DEF ListOf, ContextList
<1>4. m.kind[s] \in {"socket", "shut_down"}
  BY <1>1, <1>2, <1>3, PointerFacts DEF ListsBut, KindBut, Memory, Kinds
<1>. QED BY <1>2, <1>3, <1>4 DEF Queued

(* The head of the low-priority queue becomes the head of its context's list. *)
LEMMA ResumeEffect ==
  ASSUME NEW m, Good(m), m.head[LowPrio] # NULL
  PROVE  LET s == m.head[LowPrio]
             u == Resume(m)
         IN  /\ Others(m, u, {s})
             /\ Live(u, s) /\ u.kind = m.kind /\ u.context = m.context /\ u.lowPrio[s] = 2
             /\ u.prev[s] = NULL /\ \A b \in Blocks \ {s} : u.next[b] = m.next[b]
<1> DEFINE s == m.head[LowPrio]
           n == m.next[s]
           c == m.context[s]
           v == [m EXCEPT !.head[LowPrio] = n, !.prev = Store(@, n, NULL), !.next[s] = NULL]
           w == Link(v, s, c)
           top == v.head[<<c, IF v.kind[s] = "listen" THEN "listen" ELSE "sockets">>]
           u == [w EXCEPT !.lowPrio[s] = 2]
<1>1. m \in Memory /\ ListsBut(m, NULL) /\ NULL \notin Blocks /\ NULL \notin Contexts /\ LowPrio \in Lists
  BY PointerFacts DEF Good
<1>2. s \in Blocks /\ Live(m, s) /\ m.lowPrio[s] = 1
  BY QueueHead DEF Queued
<1>3. /\ n # s /\ n \in Pointers
      /\ n # NULL => Live(m, n) /\ m.prev[n] = s
      /\ c \in Contexts
  BY <1>1, <1>2, Neighbours
<1> HIDE DEF s
<1>4. /\ v.kind = m.kind /\ v.context = m.context /\ v.lowPrio = m.lowPrio
      /\ v.next = [m.next EXCEPT ![s] = NULL] /\ v.prev = Store(m.prev, n, NULL)
      /\ v.head = [m.head EXCEPT ![LowPrio] = n]
      /\ v \in Memory
  <2> HIDE DEF n
  <2> DEFINE x == [m EXCEPT !.head = [@ EXCEPT ![LowPrio] = n]]
             y == [x EXCEPT !.prev = Store(@, n, NULL)]
             z == [y EXCEPT !.next = [@ EXCEPT ![s] = NULL]]
  <2>1. x \in Memory
    BY <1>1, <1>3 DEF Memory
  <2>2. y \in Memory
    <3> HIDE DEF x
    <3>. QED BY <2>1, <1>3 DEF Store, Memory, Pointers
  <2>3. z \in Memory
    <3> HIDE DEF y
    <3>. QED BY <2>2, <1>2 DEF Memory, Pointers
  <2>4. v.kind = m.kind /\ v.context = m.context /\ v.lowPrio = m.lowPrio
    BY <1>1 DEF Memory
  <2>5. v.next = [m.next EXCEPT ![s] = NULL]
    BY <1>1 DEF Memory
  <2>6. v.prev = Store(m.prev, n, NULL)
    BY <1>1 DEF Memory
  <2>7. v.head = [m.head EXCEPT ![LowPrio] = n]
    BY <1>1 DEF Memory
  <2>. QED BY <2>3, <2>4, <2>5, <2>6, <2>7
<1> HIDE DEF v
<1> HIDE DEF c
<1>5. /\ w.kind = v.kind /\ w.lowPrio = v.lowPrio
      /\ w.context = [v.context EXCEPT ![s] = c]
      /\ w.next = [v.next EXCEPT ![s] = top]
      /\ w.prev = Store([v.prev EXCEPT ![s] = NULL], top, s)
  <2>1. v \in Memory /\ s \in Blocks /\ c \in Contexts
    BY <1>2, <1>3, <1>4
  <2>. QED BY ONLY <2>1, LinkFields
<1> USE DEF c
<1>6. top = NULL \/ (top \in Blocks /\ top # s /\ Live(m, top))
  <2>1. <<c, IF v.kind[s] = "listen" THEN "listen" ELSE "sockets">> \in Lists \ {LowPrio}
    BY <1>3, PointerFacts DEF Lists
  <2>2. top = m.head[<<c, IF v.kind[s] = "listen" THEN "listen" ELSE "sockets">>]
    BY <2>1, <1>1, <1>4 DEF Memory
  <2>3. ListOf(m, s) = LowPrio
    BY <1>2 DEF ListOf
  <2>. QED BY <2>1, <2>2, <2>3, <1>1 DEF ListsBut, HeadBut, Memory, Pointers
<1> HIDE DEF top
<1>7. /\ u.kind = m.kind /\ u.context = m.context /\ u.lowPrio = [m.lowPrio EXCEPT ![s] = 2]
      /\ u.next = w.next /\ u.prev = w.prev
  <2>1. w \in [next : {w.next}, prev : {w.prev}, context : {w.context}, lowPrio : {w.lowPrio},
                kind : {w.kind}, head : {w.head}, iterator : {w.iterator}, closed : {w.closed}]
    BY <1>4 DEF Link, Memory
  <2>2. u.kind = w.kind /\ u.context = w.context /\ u.next = w.next /\ u.prev = w.prev
        /\ u.lowPrio = [w.lowPrio EXCEPT ![s] = 2]
    <3> HIDE DEF w
    <3>. QED BY <2>1
  <2>3. m.context = [m.context EXCEPT ![s] = c]
    BY <1>1 DEF Memory
  <2>. QED BY <2>2, <2>3, <1>4, <1>5
<1> HIDE DEF u, w
<1>8. Others(m, u, {s})
  <2>1. ASSUME NEW b \in Blocks \ {s}
        PROVE  /\ u.kind[b] = m.kind[b] /\ u.context[b] = m.context[b] /\ u.lowPrio[b] = m.lowPrio[b]
               /\ u.prev[b] = m.prev[b] \/ (Live(m, b) /\ u.prev[b] \in Pointers)
    <3>1. u.prev[b] = IF b = top THEN s ELSE v.prev[b]
      BY <1>1, <1>4, <1>5, <1>6, <1>7 DEF Memory, Store
    <3>2. v.prev[b] = IF b = n THEN NULL ELSE m.prev[b]
      BY <1>1, <1>2, <1>3, <1>4 DEF Memory, Store
    <3>3. u.kind[b] = m.kind[b] /\ u.context[b] = m.context[b] /\ u.lowPrio[b] = m.lowPrio[b]
      BY <1>1, <1>7 DEF Memory
    <3>. QED BY <3>1, <3>2, <3>3, <1>1, <1>2, <1>3, <1>6 DEF Pointers
  <2>. QED BY <2>1, OthersByPrev
<1>9. u.prev[s] = NULL /\ \A b \in Blocks \ {s} : u.next[b] = m.next[b]
  BY <1>1, <1>2, <1>4, <1>5, <1>6, <1>7 DEF Memory, Store
<1>10. Live(u, s) /\ u.lowPrio[s] = 2
  BY <1>1, <1>2, <1>3, <1>7, <1>9 DEF Live, Free, Memory
<1>. QED BY <1>7, <1>8, <1>9, <1>10 DEF Resume, u, w, v, s

(* What moving a block does to the fields of the memory.                      *)
LEMMA MoveFields ==
  ASSUME NEW u \in Memory, NEW s \in Blocks, NEW n \in Blocks
  PROVE  LET v == Move(u, s, n)
         IN  /\ v.iterator = u.iterator /\ v.head = u.head /\ v.closed = u.closed
             /\ \A b \in Blocks \ {s, n} :
                  /\ v.next[b] = u.next[b] /\ v.prev[b] = u.prev[b] /\ v.kind[b] = u.kind[b]
                  /\ v.context[b] = u.context[b] /\ v.lowPrio[b] = u.lowPrio[b]
             /\ v.next[n] = u.next[s] /\ v.prev[n] = u.prev[s] /\ v.kind[n] = u.kind[s]
             /\ v.context[n] = u.context[s] /\ v.lowPrio[n] = u.lowPrio[s]
             /\ n # s => v.kind[s] = "free" /\ v.next[s] = NULL
<1>1. CASE n = s
  BY <1>1 DEF Move
<1>2. CASE n # s
  <2> DEFINE v == Move(u, s, n)
  <2>1. v.iterator = u.iterator /\ v.head = u.head /\ v.closed = u.closed
    BY <1>2 DEF Move, Memory
  <2>2. v.next = [u.next EXCEPT ![n] = u.next[s], ![s] = NULL]
    BY <1>2 DEF Move, Memory
  <2>3. v.prev = [u.prev EXCEPT ![n] = u.prev[s], ![s] = NULL]
    BY <1>2 DEF Move, Memory
  <2>4. v.context = [u.context EXCEPT ![n] = u.context[s], ![s] = NULL]
    BY <1>2 DEF Move, Memory
  <2>5. v.lowPrio = [u.lowPrio EXCEPT ![n] = u.lowPrio[s], ![s] = 0]
    BY <1>2 DEF Move, Memory
  <2>6. v.kind = [u.kind EXCEPT ![n] = u.kind[s], ![s] = "free"]
    BY <1>2 DEF Move, Memory
  <2> HIDE DEF v
  <2>7. /\ \A b \in Blocks \ {s, n} :
                  /\ v.next[b] = u.next[b] /\ v.prev[b] = u.prev[b] /\ v.kind[b] = u.kind[b]
                  /\ v.context[b] = u.context[b] /\ v.lowPrio[b] = u.lowPrio[b]
        /\ v.next[n] = u.next[s] /\ v.prev[n] = u.prev[s] /\ v.kind[n] = u.kind[s]
        /\ v.context[n] = u.context[s] /\ v.lowPrio[n] = u.lowPrio[s]
        /\ n # s => v.kind[s] = "free" /\ v.next[s] = NULL
    BY <1>2, <2>2, <2>3, <2>4, <2>5, <2>6 DEF Memory
  <2>. QED BY <2>1, <2>7 DEF v
<1>. QED BY <1>1, <1>2

(* Adopting moves the socket to block n, and touches no other socket.         *)
LEMMA AdoptEffect ==
  ASSUME NEW m, Good(m), NEW s \in Blocks, Live(m, s),
         m.kind[s] \in {"socket", "shut_down"},
         NEW c \in Contexts, NEW n \in Blocks, n = s \/ Free(m, n)
  PROVE  LET u == Adopt(m, s, c, n)
         IN  /\ Others(m, u, {s, n}) /\ Skips(m, u, s)
             /\ Live(u, n) /\ u.kind[n] = m.kind[s] /\ u.lowPrio[n] = m.lowPrio[s]
             /\ u.context[n] = IF m.lowPrio[s] = 1 THEN m.context[s] ELSE c
             /\ n # s => Free(u, s)
             /\ \A b \in Blocks \ {s, n} : m.next[b] # s => u.next[b] = m.next[b]
<1> DEFINE p == m.prev[s]
           x == m.next[s]
           w == Adopt(m, s, c, n)
<1>1. m \in Memory /\ ListsBut(m, NULL) /\ NULL \notin Blocks /\ NULL \notin Contexts /\ LowPrio \in Lists
  BY PointerFacts DEF Good
<1>2. /\ p # s /\ x # s /\ p \in Pointers /\ x \in Pointers
      /\ x # NULL => Live(m, x) /\ m.prev[x] = s /\ ListOf(m, x) = ListOf(m, s)
      /\ p # NULL => Live(m, p) /\ m.next[p] = s /\ ListOf(m, p) = ListOf(m, s)
      /\ m.context[s] \in Contexts /\ ListOf(m, s) \in Lists
  BY <1>1, Neighbours
<1>3. p # n /\ x # n
  BY <1>1, <1>2 DEF Live, Pointers
<1>4. \A b \in Blocks : ~Free(m, b) => (m.next[b] = s <=> b = p)
  <2>1. ASSUME NEW b \in Blocks, Live(m, b) PROVE m.next[b] = s <=> b = p
    BY <1>1, <2>1, <1>2, Neighbours, PointerFacts
  <2>2. ASSUME NEW b \in Blocks, Closed(m, b) PROVE m.next[b] # s /\ b # p
    BY <1>1, <2>2, <1>2 DEF ListsBut, ClosedBut, Closed, Live, Pointers
  <2>. QED BY <2>1, <2>2 DEF Live, Closed
<1> HIDE DEF p, x, w
<1>5. CASE m.lowPrio[s] # 1
  <2> DEFINE u == Unlink(m, s)
             v == Move(u, s, n)
             top == v.head[<<c, IF v.kind[n] = "listen" THEN "listen" ELSE "sockets">>]
  <2>1. /\ u \in Memory /\ u.kind = m.kind /\ u.context = m.context /\ u.lowPrio = m.lowPrio
        /\ u.next = Store(m.next, p, x) /\ u.prev = Store(m.prev, x, p)
        /\ u.iterator = [m.iterator EXCEPT ![m.context[s]] = IF @ = s THEN x ELSE @]
        /\ u.head = [m.head EXCEPT ![ListOf(m, s)] = IF p = NULL THEN x ELSE @]
    BY <1>1, <1>5, UnlinkFields DEF p, x
  <2>2. ListsBut(u, s)
    BY <1>1, <1>5, UnlinkDetaches
  <2> HIDE DEF u
  <2>3. v \in Memory
    <3>1. n = s \/ Free(u, n)
      BY <2>1 DEF Free
    <3>. QED BY <2>1, <2>2, <3>1, MoveDetached
  <2>4. /\ v.iterator = u.iterator /\ v.head = u.head
        /\ \A b \in Blocks \ {s, n} :
             /\ v.next[b] = u.next[b] /\ v.prev[b] = u.prev[b] /\ v.kind[b] = u.kind[b]
             /\ v.context[b] = u.context[b] /\ v.lowPrio[b] = u.lowPrio[b]
        /\ v.kind[n] = u.kind[s] /\ v.lowPrio[n] = u.lowPrio[s]
        /\ n # s => v.kind[s] = "free"
    BY <2>1, MoveFields
  <2> HIDE DEF v
  <2>5. w = Link(v, n, c)
    BY <1>5 DEF Adopt, u, v, w
  <2>6. /\ w.kind = v.kind /\ w.lowPrio = v.lowPrio /\ w.iterator = v.iterator
        /\ w.context = [v.context EXCEPT ![n] = c]
        /\ w.next = [v.next EXCEPT ![n] = top]
        /\ w.prev = Store([v.prev EXCEPT ![n] = NULL], top, n)
    BY ONLY <2>3, <2>5, LinkFields, n \in Blocks, c \in Contexts
  <2>7. top = NULL \/ (top \in Blocks /\ top # s /\ top # n /\ Live(m, top))
    <3> DEFINE k == <<c, IF v.kind[n] = "listen" THEN "listen" ELSE "sockets">>
    <3>1. k \in Lists
      BY PointerFacts
    <3> HIDE DEF k
    <3>2. top = m.head[k] \/ (top = x /\ k = ListOf(m, s) /\ p = NULL)
      BY <3>1, <1>1, <1>2, <2>1, <2>4 DEF Memory, k
    <3>3. m.head[k] = NULL \/ (m.head[k] \in Blocks /\ Live(m, m.head[k])
                                 /\ ListOf(m, m.head[k]) = k /\ m.prev[m.head[k]] = NULL)
      BY <3>1, <1>1 DEF ListsBut, HeadBut, Memory, Pointers
    <3>4. top = s => p = NULL /\ k = ListOf(m, s)
      BY <3>2, <3>3, <1>1, <1>2 DEF p
    <3>5. top # s
      BY <3>1, <3>4, <1>1, <1>2, <2>1, <2>4 DEF Memory, k
    <3>. QED BY <3>2, <3>3, <3>5, <1>1, <1>2, <1>3 DEF Live, Pointers
  <2> HIDE DEF top
  <2>8. \A b \in Blocks \ {s, n} :
          /\ w.kind[b] = m.kind[b] /\ w.context[b] = m.context[b] /\ w.lowPrio[b] = m.lowPrio[b]
          /\ w.next[b] = IF b = p THEN x ELSE m.next[b]
          /\ w.prev[b] = IF b = top THEN n ELSE IF b = x THEN p ELSE m.prev[b]
    <3>1. \A b \in Blocks \ {s, n} : w.kind[b] = m.kind[b] /\ w.context[b] = m.context[b] /\ w.lowPrio[b] = m.lowPrio[b]
      BY <1>1, <2>1, <2>3, <2>4, <2>6 DEF Memory
    <3>2. \A b \in Blocks \ {s, n} : w.next[b] = IF b = p THEN x ELSE m.next[b]
      BY <1>1, <2>1, <2>3, <2>4, <2>6 DEF Memory, Store
    <3>3. \A b \in Blocks \ {s, n} : w.prev[b] = IF b = top THEN n ELSE IF b = x THEN p ELSE m.prev[b]
      BY <1>1, <2>1, <2>3, <2>4, <2>6 DEF Memory, Store
    <3>. QED BY <3>1, <3>2, <3>3
  <2>9. Others(m, w, {s, n})
    <3>1. ASSUME NEW b \in Blocks \ {s, n}
          PROVE  /\ w.kind[b] = m.kind[b] /\ w.context[b] = m.context[b] /\ w.lowPrio[b] = m.lowPrio[b]
                 /\ w.prev[b] = m.prev[b] \/ (Live(m, b) /\ w.prev[b] \in Pointers)
      BY <1>1, <1>2, <2>7, <2>8 DEF Pointers
    <3>. QED BY <3>1, OthersByPrev
  <2>10. Skips(m, w, s)
    <3>1. \A b \in Blocks \ {s} : Live(m, b) =>
            w.next[b] = IF m.next[b] = s THEN x ELSE m.next[b]
      BY <1>4, <2>8 DEF Live
    <3>2. \A d \in Contexts : w.iterator[d] = IF m.iterator[d] = s THEN x ELSE m.iterator[d]
      <4>1. \A d \in Contexts : m.iterator[d] = s => d = m.context[s]
        BY <1>1, <1>5 DEF ListsBut, IteratorBut, Linked, ListOf, ContextList
      <4>. QED BY <4>1, <1>1, <1>2, <2>1, <2>4, <2>6 DEF Memory
    <3>. QED BY <3>1, <3>2 DEF Skips, x
  <2>11. w.kind[n] = m.kind[s] /\ w.lowPrio[n] = m.lowPrio[s] /\ w.context[n] = c
    BY <2>1, <2>3, <2>4, <2>6 DEF Memory
  <2>12. w.prev[n] = NULL
    BY <2>3, <2>6, <2>7 DEF Memory, Store
  <2>13. Live(w, n)
    BY <2>11, <2>12, <1>1 DEF Live, Free
  <2>14. n # s => Free(w, s)
    BY <2>4, <2>6 DEF Free
  <2>15. \A b \in Blocks \ {s, n} : m.next[b] # s => w.next[b] = m.next[b]
    BY <1>2, <2>8, <1>1 DEF Pointers
  <2>. QED BY <1>5, <2>9, <2>10, <2>11, <2>13, <2>14, <2>15 DEF w
<1>6. CASE m.lowPrio[s] = 1
  <2> DEFINE v == Move(m, s, n)
  <2>1. /\ v.iterator = m.iterator
        /\ \A b \in Blocks \ {s, n} :
             /\ v.next[b] = m.next[b] /\ v.prev[b] = m.prev[b] /\ v.kind[b] = m.kind[b]
             /\ v.context[b] = m.context[b] /\ v.lowPrio[b] = m.lowPrio[b]
        /\ v.next[n] = x /\ v.prev[n] = p /\ v.kind[n] = m.kind[s]
        /\ v.context[n] = m.context[s] /\ v.lowPrio[n] = m.lowPrio[s]
        /\ n # s => v.kind[s] = "free"
    BY <1>1, MoveFields DEF p, x
  <2>2. DOMAIN v.next = Blocks /\ DOMAIN v.prev = Blocks
    BY <1>1 DEF Move, Memory
  <2>3. w = [v EXCEPT !.head[LowPrio] = IF p = NULL THEN n ELSE @,
                      !.next          = Store(@, p, n),
                      !.prev          = Store(@, x, n)]
    BY <1>6, <2>1 DEF Adopt, w
  <2>4. /\ w.kind = v.kind /\ w.context = v.context /\ w.lowPrio = v.lowPrio
        /\ w.iterator = v.iterator
        /\ w.next = Store(v.next, p, n) /\ w.prev = Store(v.prev, x, n)
    <3>1. /\ w.kind = v.kind /\ w.context = v.context /\ w.lowPrio = v.lowPrio
          /\ w.iterator = v.iterator
      BY <2>3, <1>1 DEF Move, Memory
    <3>2. w.next = Store(v.next, p, n)
      BY <2>3, <1>1 DEF Move, Memory
    <3>3. w.prev = Store(v.prev, x, n)
      BY <2>3, <1>1 DEF Move, Memory
    <3>. QED BY <3>1, <3>2, <3>3
  <2> HIDE DEF v
  <2>5. \A b \in Blocks :
          /\ w.next[b] = IF b = p THEN n ELSE v.next[b]
          /\ w.prev[b] = IF b = x THEN n ELSE v.prev[b]
    BY <2>2, <2>4, <1>1 DEF Store
  <2>6. Others(m, w, {s, n})
    <3>1. ASSUME NEW b \in Blocks \ {s, n}
          PROVE  /\ w.kind[b] = m.kind[b] /\ w.context[b] = m.context[b] /\ w.lowPrio[b] = m.lowPrio[b]
                 /\ w.prev[b] = m.prev[b] \/ (Live(m, b) /\ w.prev[b] \in Pointers)
      BY <1>1, <1>2, <2>1, <2>4, <2>5 DEF Pointers
    <3>. QED BY <3>1, OthersByPrev
  <2>7. ListOf(m, s) = LowPrio
    BY <1>6 DEF ListOf
  <2>8. Skips(m, w, s)
    <3>1. \A b \in Blocks \ {s} : Live(m, b) /\ ListOf(m, b) # LowPrio =>
            w.next[b] = m.next[b] /\ m.next[b] # s
      BY <1>1, <1>2, <1>4, <2>1, <2>5, <2>7 DEF Live
    <3>2. \A d \in Contexts : w.iterator[d] = m.iterator[d] /\ m.iterator[d] # s
      BY <1>1, <2>1, <2>4, <2>7, PointerFacts DEF ListsBut, IteratorBut, Linked
    <3>. QED BY <3>1, <3>2 DEF Skips
  <2>9. w.kind[n] = m.kind[s] /\ w.lowPrio[n] = m.lowPrio[s] /\ w.context[n] = m.context[s]
    BY <2>1, <2>4
  <2>10. Live(w, n)
    <3>1. w.prev[n] \in Pointers
      BY <1>2, <1>3, <2>1, <2>5 DEF Pointers
    <3>. QED BY <2>9, <3>1, <1>2, PointerFacts DEF Live, Free, Pointers
  <2>11. n # s => Free(w, s)
    BY <2>1, <2>4 DEF Free
  <2>12. \A b \in Blocks \ {s, n} : m.next[b] # s => w.next[b] = m.next[b]
    BY <1>1, <1>2, <2>1, <2>5 DEF Pointers
  <2>. QED BY <1>6, <2>6, <2>8, <2>9, <2>10, <2>11, <2>12 DEF w
<1>. QED BY <1>5, <1>6

(* Freeing the head of the closed list touches nothing else.                  *)
LEMMA FreeEffect ==
  ASSUME NEW m, Good(m), m.closed # NULL
  PROVE  LET s == m.closed
             u == FreeHead(m)
         IN  /\ s \in Blocks /\ Closed(m, s) /\ Others(m, u, {s}) /\ Free(u, s)
             /\ u.iterator = m.iterator /\ u.head = m.head
             /\ \A b \in Blocks \ {s} : u.next[b] = m.next[b] /\ u.prev[b] = m.prev[b]
<1> DEFINE s == m.closed
           u == FreeHead(m)
<1>1. m \in Memory /\ ListsBut(m, NULL)
  BY DEF Good
<1>2. s \in Blocks /\ Closed(m, s)
  BY <1>1 DEF ListsBut, ClosedBut, Memory, Pointers
<1>3. /\ u.head = m.head /\ u.iterator = m.iterator
      /\ u.kind = [m.kind EXCEPT ![s] = "free"]
      /\ u.context = [m.context EXCEPT ![s] = NULL]
      /\ u.lowPrio = [m.lowPrio EXCEPT ![s] = 0]
  BY <1>1 DEF FreeHead, Memory
<1>4. u.next = [m.next EXCEPT ![s] = NULL] /\ u.prev = [m.prev EXCEPT ![s] = NULL]
  BY <1>1 DEF FreeHead, Memory
<1> HIDE DEF u
<1>5. \A b \in Blocks \ {s} :
        /\ u.next[b] = m.next[b] /\ u.prev[b] = m.prev[b] /\ u.kind[b] = m.kind[b]
        /\ u.context[b] = m.context[b] /\ u.lowPrio[b] = m.lowPrio[b]
  BY <1>1, <1>3, <1>4 DEF Memory
<1>6. Others(m, u, {s}) /\ Free(u, s)
  BY <1>1, <1>2, <1>3, <1>5 DEF Others, Live, Free, Memory
<1>. QED BY <1>2, <1>3, <1>5, <1>6 DEF u

-----------------------------------------------------------------------------
(* Every nonempty set of natural numbers has a least member.                  *)
LEMMA Least ==
  ASSUME NEW S \in SUBSET Nat, S # {}
  PROVE  \E m \in S : \A k \in S : m <= k
<1> DEFINE R == StrictSubsetOrdering(Nat)
           F == FiniteSubsetsOf(Nat)
           T == {0..n : n \in S}
<1>1. IsWellFoundedOn(R, F)
  BY FS_StrictSubsetOrderingWellFounded
<1>2. T \subseteq F
  <2> SUFFICES ASSUME NEW n \in S PROVE 0..n \in F
    OBVIOUS
  <2>. QED BY FS_Interval DEF FiniteSubsetsOf
<1>3. T # {}
  OBVIOUS
<1> HIDE DEF R, F
<1>4. \E x \in T : \A y \in T : ~ (<<y, x>> \in R)
  <2> HIDE DEF T
  <2>. QED BY <1>1, <1>2, <1>3, WFMin
<1>5. PICK m \in S : \A k \in S : <<0..k, 0..m>> \notin R
  BY <1>4
<1>6. ASSUME NEW k \in S, k < m PROVE FALSE
  <2>1. 0..k \subseteq 0..m /\ 0..k # 0..m /\ 0..k \subseteq Nat /\ 0..m \subseteq Nat
    BY <1>6
  <2>2. <<0..k, 0..m>> \in R
    BY <2>1 DEF R, StrictSubsetOrdering
  <2>. QED BY <1>5, <2>2
<1>. QED BY <1>5, <1>6

(* Of finitely many blocks one ranks highest.                                 *)
LEMMA Highest ==
  ASSUME IsFiniteSet(Blocks), NEW r \in [Blocks -> Int], NEW S \in SUBSET Blocks, S # {}
  PROVE  \E b \in S : \A a \in S : r[a] <= r[b]
<1> DEFINE U(b) == {t \in Blocks : r[t] >= r[b]}
           R == StrictSubsetOrdering(Blocks)
           F == FiniteSubsetsOf(Blocks)
           T == {U(b) : b \in S}
<1>1. IsWellFoundedOn(R, F)
  BY FS_StrictSubsetOrderingWellFounded
<1>2. T \subseteq F
  <2> SUFFICES ASSUME NEW b \in S PROVE U(b) \in F
    OBVIOUS
  <2>1. U(b) \subseteq Blocks
    OBVIOUS
  <2>2. IsFiniteSet(U(b))
    BY <2>1, FS_Subset
  <2>. QED BY <2>1, <2>2 DEF FiniteSubsetsOf
<1>3. T # {}
  OBVIOUS
<1> HIDE DEF R, F
<1>4. \E x \in T : \A y \in T : ~ (<<y, x>> \in R)
  <2> HIDE DEF T
  <2>. QED BY <1>1, <1>2, <1>3, WFMin
<1>5. PICK b \in S : \A a \in S : <<U(a), U(b)>> \notin R
  BY <1>4
<1>6. ASSUME NEW a \in S, r[a] > r[b] PROVE FALSE
  <2>1. U(a) \subseteq U(b) /\ b \in U(b) /\ b \notin U(a)
    BY <1>6
  <2>2. U(a) \in SUBSET Blocks /\ U(b) \in SUBSET Blocks
    OBVIOUS
  <2> HIDE DEF U
  <2>3. <<U(a), U(b)>> \in R
    BY <2>1, <2>2 DEF R, StrictSubsetOrdering
  <2>. QED BY <1>5, <2>3
<1>7. \A a \in S : r[a] <= r[b]
  BY <1>6
<1>. QED BY <1>7

(* Set T holds the blocks that following f from pointer x meets.              *)
HoldsFrom(f, x, T) == x \in T \cup {NULL} /\ \A t \in T : f[t] \in T \cup {NULL}

(* Following f from pointer x meets block b: b is in every set that holds     *)
(* what is met.                                                               *)
Reach(f, x, b) == \A T \in SUBSET Blocks : HoldsFrom(f, x, T) => b \in T

(* The members of a list.                                                     *)
Members(m, k) == {b \in Blocks : Live(m, b) /\ ListOf(m, b) = k}

(* A walk from the head of a list meets only members of that list.            *)
LEMMA MembersHeld ==
  ASSUME NEW m, Good(m), NEW k \in Lists
  PROVE  HoldsFrom(m.next, m.head[k], Members(m, k))
<1>1. m \in Memory /\ ListsBut(m, NULL)
  BY DEF Good
<1>2. m.head[k] \in Members(m, k) \cup {NULL}
  BY <1>1 DEF ListsBut, HeadBut, Members, Memory, Pointers
<1>3. \A b \in Members(m, k) : m.next[b] \in Members(m, k) \cup {NULL}
  BY <1>1, PointerFacts DEF ListsBut, NextBut, Members, Memory, Pointers
<1>. QED BY <1>2, <1>3 DEF HoldsFrom

(* A walk from the head of a list meets each of its members.                  *)
LEMMA HeadReaches ==
  ASSUME IsFiniteSet(Blocks), NEW m, Good(m), NEW b \in Blocks, Live(m, b)
  PROVE  Reach(m.next, m.head[ListOf(m, b)], b)
<1> DEFINE k == ListOf(m, b)
<1>1. m \in Memory /\ ListsBut(m, NULL)
  BY DEF Good
<1>2. k \in Lists
  BY <1>1, Neighbours
<1> HIDE DEF k
<1>3. PICK r \in [Blocks -> Int] : Downhill(m, NULL, r)
  BY <1>1 DEF ListsBut
<1>4. SUFFICES ASSUME NEW T \in SUBSET Blocks, HoldsFrom(m.next, m.head[k], T), b \notin T
               PROVE  FALSE
  BY DEF Reach, k
<1> DEFINE S == Members(m, k) \ T
<1>5. S \in SUBSET Blocks /\ S # {}
  BY <1>4 DEF Members, k
<1>6. PICK t \in S : \A a \in S : r[a] <= r[t]
  <2> HIDE DEF S
  <2>. QED BY <1>5, Highest
<1>7. t \in Blocks /\ Live(m, t) /\ ListOf(m, t) = k /\ t \notin T
  BY DEF Members
<1>8. CASE m.prev[t] = NULL
  <2>1. m.head[k] = t
    BY <1>1, <1>7, <1>8, PointerFacts DEF ListsBut, PrevBut
  <2>. QED BY <2>1, <1>4, <1>7, PointerFacts DEF HoldsFrom
<1>9. CASE m.prev[t] # NULL
  <2> DEFINE p == m.prev[t]
  <2>1. p \in Blocks /\ Live(m, p) /\ m.next[p] = t /\ ListOf(m, p) = k
    BY <1>1, <1>7, <1>9, Neighbours DEF Pointers
  <2>2. r[t] < r[p]
    BY <2>1, <1>3, <1>7, PointerFacts DEF Downhill
  <2>3. p \notin S
    BY <2>1, <2>2, <1>6, <1>7
  <2>4. p \in T
    BY <2>1, <2>3 DEF Members
  <2>. QED BY <2>1, <2>4, <1>4, <1>7, PointerFacts DEF HoldsFrom
<1>. QED BY <1>8, <1>9

-----------------------------------------------------------------------------
(* The closed list is walked downhill too.                                    *)
ClosedDownhill(m) == \E r \in [Blocks -> Int] : \A b \in Blocks :
  Closed(m, b) /\ m.next[b] # NULL => r[m.next[b]] < r[b]

(* ... as long as nothing is added below its head.                            *)
LEMMA ClosedStay ==
  ASSUME NEW m, ClosedDownhill(m), NEW u,
         \A b \in Blocks : Closed(u, b) => Closed(m, b) /\ u.next[b] = m.next[b]
  PROVE  ClosedDownhill(u)
BY DEF ClosedDownhill

(* Taking an open socket out of its list disturbs no chain of closed ones.    *)
LEMMA ClosedStayOthers ==
  ASSUME NEW m, Good(m), ClosedDownhill(m), NEW u, NEW S, Others(m, u, S),
         \A b \in S \cap Blocks : ~Closed(u, b),
         NEW s, ~Closed(m, s), s # NULL,
         \A b \in Blocks \ S : u.next[b] = m.next[b] \/ m.next[b] = s
  PROVE  ClosedDownhill(u)
<1>1. \A b \in Blocks \ S : Closed(u, b) <=> Closed(m, b)
  BY DEF Others, Closed, Live, Free
<1>2. \A b \in Blocks : Closed(m, b) => m.next[b] # s
  <2>1. ClosedBut(m, NULL)
    BY DEF Good, ListsBut
  <2>. QED BY <2>1, PointerFacts DEF ClosedBut
<1>. QED BY <1>1, <1>2, ClosedStay

(* A close puts the socket on top.                                            *)
LEMMA CloseClosedDownhill ==
  ASSUME NEW m, Good(m), ClosedDownhill(m), NEW s \in Blocks, Live(m, s)
  PROVE  ClosedDownhill(Close(m, s))
<1> DEFINE u == Close(m, s)
           n == m.closed
<1>1. m \in Memory /\ ListsBut(m, NULL) /\ n \in Pointers /\ ~Closed(m, s)
  BY DEF Good, Memory, Closed, Live
<1>2. Others(m, u, {s}) /\ u.next = [Store(m.next, m.prev[s], m.next[s]) EXCEPT ![s] = n]
  BY CloseEffect, CloseFields
<1>3. \A b \in Blocks : Closed(m, b) => b # m.prev[s] /\ m.next[b] # s /\ b # s
  <2>1. m.prev[s] # NULL => Live(m, m.prev[s])
    BY <1>1, Neighbours
  <2>2. ClosedBut(m, NULL)
    BY <1>1 DEF ListsBut
  <2>. QED BY <1>1, <2>1, <2>2, PointerFacts DEF ClosedBut, Closed, Live
<1> HIDE DEF u
<1>4. \A b \in Blocks \ {s} : Closed(u, b) => Closed(m, b) /\ u.next[b] = m.next[b]
  <2>1. \A b \in Blocks \ {s} : Closed(u, b) => Closed(m, b)
    BY <1>2 DEF Others, Closed, Live, Free
  <2>2. \A b \in Blocks \ {s} : b # m.prev[s] => u.next[b] = m.next[b]
    BY <1>1, <1>2 DEF Memory, Store
  <2>. QED BY <1>3, <2>1, <2>2
<1>5. u.next[s] = n
  BY <1>1, <1>2 DEF Memory, Store
<1>6. PICK r \in [Blocks -> Int] : \A b \in Blocks :
        Closed(m, b) /\ m.next[b] # NULL => r[m.next[b]] < r[b]
  BY DEF ClosedDownhill
<1> DEFINE q == [r EXCEPT ![s] = IF n = NULL THEN 0 ELSE r[n] + 1]
<1>7. q \in [Blocks -> Int] /\ q[s] = (IF n = NULL THEN 0 ELSE r[n] + 1)
      /\ \A b \in Blocks \ {s} : q[b] = r[b]
  BY <1>1 DEF Pointers
<1>8. n # s
  <2>1. ClosedBut(m, NULL)
    BY <1>1 DEF ListsBut
  <2>. QED BY <1>1, <2>1, PointerFacts DEF ClosedBut
<1> HIDE DEF q
<1>9. ASSUME NEW b \in Blocks, Closed(u, b), u.next[b] # NULL PROVE q[u.next[b]] < q[b]
  <2>1. CASE b = s
    BY <2>1, <1>1, <1>5, <1>7, <1>8, <1>9 DEF Pointers
  <2>2. CASE b # s
    <3>1. Closed(m, b) /\ u.next[b] = m.next[b] /\ m.next[b] # s /\ m.next[b] \in Blocks
      BY <2>2, <1>1, <1>3, <1>4, <1>9 DEF Memory, Pointers
    <3>. QED BY <3>1, <2>2, <1>6, <1>7, <1>9
  <2>. QED BY <2>1, <2>2
<1>. QED BY <1>7, <1>9 DEF ClosedDownhill, u

(* A listening or connecting socket is never queued.                          *)
LEMMA SemiIsClose ==
  ASSUME NEW m, Good(m), NEW s \in Blocks, m.kind[s] \in {"listen", "connecting"}
  PROVE  CloseSemi(m, s) = Close(m, s)
BY PointerFacts DEF Good, ListsBut, KindBut, CloseSemi, Close

(* Both parts of what every operation keeps.                                  *)
Sound(m) == Good(m) /\ ClosedDownhill(m)

(* The lists stay well formed, and the closed list runs downhill, through     *)
(* every operation.                                                           *)
LEMMA SoundStep ==
  ASSUME Sound(h), [ListNext]_h
  PROVE  Sound(h')
<1>1. Good(h) /\ Good(h') /\ h \in Memory
  BY GoodStep DEF Sound, Good
<1> USE DEF Sound
<1>2. CASE UNCHANGED h
  BY <1>2
<1>3. ASSUME NEW s \in Blocks, NEW c \in Contexts, NEW k \in {"listen", "connecting", "socket"},
             ListCreate(s, c, k)
      PROVE  Sound(h')
  <2>1. Free(h, s) /\ h' = Create(h, s, c, k)
    BY <1>3 DEF ListCreate
  <2>2. Others(h, h', {s}) /\ Live(h', s) /\ \A b \in Blocks \ {s} : h'.next[b] = h.next[b]
    <3>1. s \in Blocks /\ c \in Contexts /\ k \in UsedKinds
      BY DEF Kinds, UsedKinds
    <3>2. Others(h, Create(h, s, c, k), {s})
      BY ONLY <1>1, <2>1, <3>1, CreateEffect
    <3>3. Live(Create(h, s, c, k), s)
      BY ONLY <1>1, <2>1, <3>1, CreateEffect
    <3>4. \A b \in Blocks \ {s} : Create(h, s, c, k).next[b] = h.next[b]
      BY ONLY <1>1, <2>1, <3>1, <3>2, <3>3, CreateEffect
    <3>. QED BY ONLY <2>1, <3>2, <3>3, <3>4
  <2>3. ~Closed(h', s) /\ ~Closed(h, s) /\ s # NULL
    BY <2>1, <2>2, PointerFacts DEF Live, Closed
  <2>. QED BY <1>1, <2>2, <2>3, ClosedStayOthers
<1>4. ASSUME NEW s \in Blocks, ListConnected(s) \/ ListShutDown(s) \/ ListServed(s)
      PROVE  Sound(h')
  <2>1. h'.next = h.next /\ h'.prev = h.prev /\ h'.context = h.context
    BY <1>1, <1>4 DEF ListConnected, ListShutDown, ListServed, Memory
  <2>2. \A b \in Blocks : Closed(h', b) => Closed(h, b)
    <3>1. \A b \in Blocks : h'.kind[b] = h.kind[b] \/ ~Free(h, b)
      BY <1>1, <1>4 DEF ListConnected, ListShutDown, ListServed, Memory, Live, Free
    <3>. QED BY <3>1, <2>1 DEF Closed, Free
  <2>. QED BY <1>1, <2>1, <2>2, ClosedStay
<1>5. ASSUME NEW s \in Blocks, ListClose(s) \/ ListCloseSemi(s)
      PROVE  Sound(h')
  <2>1. Live(h, s) /\ h' = Close(h, s)
    BY <1>1, <1>5, SemiIsClose DEF ListClose, ListCloseSemi
  <2>. QED BY <1>1, <2>1, CloseClosedDownhill
<1>6. ASSUME NEW s \in Blocks, ListDefer(s) PROVE Sound(h')
  <2>1. /\ Live(h, s) /\ h.lowPrio[s] # 1 /\ h.kind[s] \in {"socket", "shut_down"}
        /\ h' = Defer(h, s)
    BY <1>6 DEF ListDefer, Queued
  <2>2. /\ Others(h, h', {s}) /\ Live(h', s)
        /\ \A b \in Blocks \ {s} : h'.next[b] = h.next[b] \/ h.next[b] = s
    BY <1>1, <2>1, DeferEffect
  <2>3. ~Closed(h', s) /\ ~Closed(h, s) /\ s # NULL
    BY <2>1, <2>2, PointerFacts DEF Closed, Live
  <2>. QED BY <1>1, <2>2, <2>3, ClosedStayOthers
<1>7. ASSUME NEW s \in Blocks, NEW n \in Blocks, NEW c \in Contexts, ListAdopt(s, c, n)
      PROVE  Sound(h')
  <2>1. /\ Others(h, h', {s, n}) /\ Live(h', n)
        /\ n # s => Free(h', s)
        /\ \A b \in Blocks \ {s, n} : h'.next[b] = h.next[b] \/ h.next[b] = s
    BY <1>1, <1>7, AdoptEffect DEF ListAdopt
  <2>2. ~Closed(h', n) /\ ~Closed(h, s)
    BY <2>1, <1>7 DEF Closed, Live, ListAdopt
  <2>3. ~Closed(h', s)
    BY <2>1, <2>2 DEF Closed
  <2>4. s # NULL
    BY PointerFacts
  <2>5. \A b \in {s, n} \cap Blocks : ~Closed(h', b)
    BY <2>2, <2>3
  <2>. QED BY <1>1, <2>1, <2>2, <2>4, <2>5, ClosedStayOthers
<1>8. ASSUME NEW c \in Contexts, NEW p, h' = [h EXCEPT !.iterator[c] = p] PROVE Sound(h')
  <2>1. h'.next = h.next /\ h'.prev = h.prev /\ h'.context = h.context /\ h'.kind = h.kind
    BY <1>1, <1>8 DEF Memory
  <2>. QED BY <1>1, <2>1, ClosedStay DEF Closed, Free
<1>9. CASE ListResume
  <2> DEFINE s == h.head[LowPrio]
  <2>1. /\ Others(h, h', {s}) /\ Live(h', s)
        /\ \A b \in Blocks \ {s} : h'.next[b] = h.next[b]
    BY <1>1, <1>9, ResumeEffect DEF ListResume
  <2>2. ~Closed(h', s) /\ ~Closed(h, s) /\ s # NULL
    BY <2>1, <1>1, <1>9, QueueHead, PointerFacts DEF Closed, Live, ListResume
  <2> HIDE DEF s
  <2>. QED BY <1>1, <2>1, <2>2, ClosedStayOthers
<1>10. CASE ListFree
  <2>1. /\ Others(h, h', {h.closed}) /\ Free(h', h.closed)
        /\ \A b \in Blocks \ {h.closed} : h'.next[b] = h.next[b]
    BY <1>1, <1>10, FreeEffect DEF ListFree
  <2>2. \A b \in Blocks : Closed(h', b) => b # h.closed /\ Closed(h, b)
    BY <2>1 DEF Others, Closed, Live, Free
  <2>. QED BY <1>1, <2>1, <2>2, ClosedStay
<1>11. ASSUME NEW s \in Blocks, NEW c \in Contexts, ListSweepAt(s, c) PROVE Sound(h')
  BY <1>8, <1>11 DEF ListSweepAt
<1>12. ASSUME NEW c \in Contexts, ListSweepEnd(c) PROVE Sound(h')
  BY <1>8, <1>12 DEF ListSweepEnd
<1>. QED
  BY <1>2, <1>3, <1>4, <1>5, <1>6, <1>7, <1>9, <1>10, <1>11, <1>12 DEF ListNext

-----------------------------------------------------------------------------
(* One more step of a walk.                                                   *)
Onward(m, S) == S \cup ({m.next[b] : b \in S} \ {NULL})

(* Function f is a walk of N steps that starts with the blocks of A.           *)
Course(m, A, N, f) == f = [i \in 0..N |-> IF i = 0 THEN A ELSE Onward(m, f[i-1])]

(* A walk of any length exists: the recursive function has a value.           *)
LEMMA WalkExists ==
  ASSUME NEW m, NEW A, NEW N \in Nat
  PROVE  \E f : Course(m, A, N, f)
<1> DEFINE Has(n) == \E f : Course(m, A, n, f)
           Bad == {n \in Nat : ~Has(n)}
<1>1. SUFFICES ASSUME Bad # {} PROVE FALSE
  OBVIOUS
<1>2. PICK n \in Bad : \A k \in Bad : n <= k
  <2> HIDE DEF Bad
  <2>1. Bad \in SUBSET Nat
    BY DEF Bad
  <2>. QED BY <1>1, <2>1, Least
<1>3. CASE n = 0
  <2> DEFINE f == [i \in 0..0 |-> A]
  <2>1. f = [i \in 0..0 |-> IF i = 0 THEN A ELSE Onward(m, f[i-1])]
    OBVIOUS
  <2>2. Has(0)
    BY <2>1 DEF Course
  <2>. QED BY <1>3, <2>2
<1>4. CASE n # 0
  <2>1. n \in Nat /\ n-1 \in Nat /\ n-1 \notin Bad
    <3> HIDE DEF Has
    <3>. QED BY <1>2, <1>4
  <2>2. PICK g : g = [i \in 0..(n-1) |-> IF i = 0 THEN A ELSE Onward(m, g[i-1])]
    BY <2>1 DEF Course
  <2> DEFINE f == [i \in 0..n |-> IF i = n THEN Onward(m, g[n-1]) ELSE g[i]]
             e == [i \in 0..n |-> IF i = 0 THEN A ELSE Onward(m, f[i-1])]
  <2>3. ASSUME NEW i \in 0..n PROVE f[i] = e[i]
    <3>1. CASE i = 0
      <4>1. g[0] = A
        BY <2>1, <2>2
      <4>. QED BY <4>1, <3>1, <1>4
    <3>2. CASE i = n
      <4>1. f[n-1] = g[n-1] /\ f[n] = Onward(m, g[n-1])
        BY <2>1
      <4>. QED BY <4>1, <3>2, <1>4
    <3>3. CASE i # 0 /\ i # n
      <4>1. i-1 \in 0..n /\ i-1 # n /\ i \in 0..(n-1)
        BY <3>3, <2>1
      <4>2. g[i] = Onward(m, g[i-1])
        BY <4>1, <3>3, <2>2
      <4>3. f[i-1] = g[i-1] /\ f[i] = g[i]
        BY <4>1, <3>3
      <4>. QED BY <4>2, <4>3, <3>3
    <3>. QED BY <3>1, <3>2, <3>3
  <2>4. f = e
    BY <2>3
  <2> HIDE DEF f
  <2>5. Has(n)
    BY <2>4 DEF Course
  <2>. QED BY <2>5
<1>. QED BY <1>3, <1>4

(* The steps of a walk.                                                       *)
LEMMA WalkSteps ==
  ASSUME NEW m, NEW p, IsFiniteSet(Blocks)
  PROVE  \E f : /\ Cardinality(Blocks) \in Nat
                /\ f[0] = {p} \ {NULL}
                /\ \A i \in 1..Cardinality(Blocks) : f[i] = Onward(m, f[i-1])
                /\ Walk(m, p) = f[Cardinality(Blocks)]
<1> DEFINE N == Cardinality(Blocks)
           A == {p} \ {NULL}
           W == CHOOSE f : Course(m, A, N, f)
<1>1. N \in Nat
  BY FS_CardinalityType
<1>2. Walk(m, p) = W[N]
  BY DEF Walk, Onward, Course
<1> HIDE DEF A
<1>3. W = [i \in 0..N |-> IF i = 0 THEN A ELSE Onward(m, W[i-1])]
  <2> HIDE DEF N
  <2>1. \E f : Course(m, A, N, f)
    BY <1>1, WalkExists
  <2>2. Course(m, A, N, W)
    BY <2>1
  <2>. QED BY <2>2 DEF Course
<1> HIDE DEF W
<1>4. W[0] = A /\ \A i \in 1..N : W[i] = Onward(m, W[i-1])
  <2> HIDE DEF N
  <2>1. 0 \in 0..N /\ \A i \in 1..N : i \in 0..N /\ i # 0
    BY <1>1
  <2>. QED BY <1>3, <2>1
<1>. QED BY <1>1, <1>2, <1>4 DEF A

(* A walk is as long as it has to be: every step but the last ones meets a    *)
(* new block, and there are no more blocks than steps.                        *)
LEMMA WalkMeets ==
  ASSUME IsFiniteSet(Blocks), NEW m \in Memory, NEW p \in Pointers
  PROVE  /\ Walk(m, p) \in SUBSET Blocks
         /\ HoldsFrom(m.next, p, Walk(m, p))
         /\ \A T \in SUBSET Blocks : HoldsFrom(m.next, p, T) => Walk(m, p) \subseteq T
<1> DEFINE N == Cardinality(Blocks)
           A == {p} \ {NULL}
           Ends(S) == \A b \in S : m.next[b] \in S \cup {NULL}
<1>1. PICK f : /\ N \in Nat
               /\ f[0] = A
               /\ \A i \in 1..N : f[i] = Onward(m, f[i-1])
               /\ Walk(m, p) = f[N]
  BY WalkSteps
<1>2. A \in SUBSET Blocks /\ m.next \in [Blocks -> Pointers] /\ NULL \notin Blocks
  BY PointerFacts DEF Pointers, Memory
<1> DEFINE Fine(i) == /\ f[i] \in SUBSET Blocks /\ A \subseteq f[i]
                      /\ \A T \in SUBSET Blocks : HoldsFrom(m.next, p, T) => f[i] \subseteq T
                      /\ Ends(f[i]) \/ Cardinality(f[i]) >= i + 1
           Bad == {i \in 0..N : ~Fine(i)}
<1>3. Fine(0)
  <2>1. \A T \in SUBSET Blocks : HoldsFrom(m.next, p, T) => A \subseteq T
    BY DEF HoldsFrom
  <2>2. Ends(A) \/ Cardinality(A) >= 0 + 1
    <3>1. CASE p = NULL
      BY <3>1
    <3>2. CASE p # NULL
      <4>1. A = {p}
        BY <3>2
      <4>2. Cardinality({p}) = 1
        BY FS_Singleton
      <4>. QED BY <4>1, <4>2
    <3>. QED BY <3>1, <3>2
  <2>. QED BY <1>1, <1>2, <2>1, <2>2
<1>4. ASSUME NEW i \in 1..N, Fine(i-1) PROVE Fine(i)
  <2> DEFINE S == f[i-1]
             U == Onward(m, S)
  <2>1. f[i] = U
    BY <1>1
  <2>2. S \in SUBSET Blocks /\ A \subseteq S
        /\ (\A T \in SUBSET Blocks : HoldsFrom(m.next, p, T) => S \subseteq T)
        /\ (Ends(S) \/ Cardinality(S) >= i)
    <3>1. (i - 1) + 1 = i
      BY <1>1
    <3>. QED BY <1>4, <3>1
  <2> HIDE DEF S
  <2>3. U \in SUBSET Blocks /\ A \subseteq U /\ S \subseteq U
    BY <1>2, <2>2 DEF Onward, Pointers
  <2>4. ASSUME NEW T \in SUBSET Blocks, HoldsFrom(m.next, p, T) PROVE U \subseteq T
    BY <2>2, <2>4 DEF Onward, HoldsFrom
  <2>5. Ends(U) \/ Cardinality(U) >= i + 1
    <3>1. CASE Ends(S)
      <4>1. U = S
        BY <3>1 DEF Onward
      <4>. QED BY <3>1, <4>1
    <3>2. CASE ~Ends(S)
      <4>1. PICK b \in S : m.next[b] \notin S \cup {NULL}
        BY <3>2
      <4>2. m.next[b] \in U /\ m.next[b] \notin S
        BY <4>1 DEF Onward
      <4>3. IsFiniteSet(U) /\ IsFiniteSet(S)
        BY <2>2, <2>3, FS_Subset
      <4> HIDE DEF U
      <4>4. Cardinality(S) < Cardinality(U)
        <5>1. Cardinality(S) <= Cardinality(U) /\ (Cardinality(S) = Cardinality(U) => S = U)
          BY <2>3, <4>3, FS_Subset
        <5>2. Cardinality(S) \in Nat /\ Cardinality(U) \in Nat
          BY <4>3, FS_CardinalityType
        <5>. QED BY <5>1, <5>2, <4>2
      <4>5. Cardinality(S) \in Nat /\ Cardinality(U) \in Nat /\ i \in Int
        BY <4>3, <1>1, FS_CardinalityType
      <4>6. Cardinality(S) >= i
        BY <2>2, <3>2
      <4>7. Cardinality(U) >= i + 1
        BY <4>4, <4>5, <4>6
      <4>. QED BY <4>7
    <3>. QED BY <3>1, <3>2
  <2> HIDE DEF U
  <2>. QED BY <2>1, <2>3, <2>4, <2>5
<1>5. Bad = {}
  <2>1. SUFFICES ASSUME Bad # {} PROVE FALSE
    OBVIOUS
  <2>2. Bad \in SUBSET Nat
    BY <1>1
  <2>3. PICK i \in Bad : \A k \in Bad : i <= k
    <3> HIDE DEF Bad
    <3>. QED BY <2>1, <2>2, Least
  <2>4. i \in 0..N /\ ~Fine(i)
    BY <2>3
  <2> HIDE DEF Fine
  <2>5. i # 0
    BY <2>4, <1>3
  <2>6. i \in 1..N /\ i-1 \in 0..N /\ i-1 < i
    BY <2>4, <2>5, <1>1
  <2>7. ~Fine(i-1)
    BY <2>4, <2>6, <1>4
  <2>8. i-1 \in Bad
    BY <2>6, <2>7
  <2>. QED BY <2>3, <2>6, <2>8
<1>6. Fine(N)
  <2>1. N \in 0..N
    BY <1>1
  <2> HIDE DEF Fine
  <2>. QED BY <1>5, <2>1
<1>7. Ends(f[N])
  <2>1. Cardinality(f[N]) <= N /\ Cardinality(f[N]) \in Nat
    <3>1. f[N] \in SUBSET Blocks
      BY <1>6
    <3>. QED BY <3>1, FS_Subset, FS_CardinalityType
  <2>2. Ends(f[N]) \/ Cardinality(f[N]) >= N + 1
    BY <1>6
  <2> HIDE DEF Ends
  <2>. QED BY <2>1, <2>2, <1>1
<1>8. HoldsFrom(m.next, p, f[N])
  BY <1>6, <1>7 DEF HoldsFrom
<1>. QED BY <1>1, <1>6, <1>8

(* Nothing is lost: the inductive step keeps Sound, and Sound memories have    *)
(* their members on the walks.                                                *)
LEMMA SoundWalks ==
  ASSUME IsFiniteSet(Blocks), NEW m, Sound(m)
  PROVE  /\ \A k \in Lists : Walk(m, m.head[k]) = Members(m, k)
         /\ Walk(m, m.closed) = {b \in Blocks : Closed(m, b)}
<1>1. m \in Memory /\ ListsBut(m, NULL) /\ Good(m)
  BY DEF Sound, Good
<1>2. ASSUME NEW k \in Lists PROVE Walk(m, m.head[k]) = Members(m, k)
  <2> DEFINE W == Walk(m, m.head[k])
  <2>1. m.head[k] \in Pointers
    BY <1>1 DEF Memory
  <2>2. /\ W \in SUBSET Blocks /\ HoldsFrom(m.next, m.head[k], W)
        /\ \A T \in SUBSET Blocks : HoldsFrom(m.next, m.head[k], T) => W \subseteq T
    BY <1>1, <2>1, WalkMeets
  <2> HIDE DEF W
  <2>3. W \subseteq Members(m, k)
    <3>1. Members(m, k) \in SUBSET Blocks
      BY DEF Members
    <3>. QED BY <1>1, <2>2, <3>1, MembersHeld
  <2>4. ASSUME NEW b \in Members(m, k) PROVE b \in W
    <3>1. b \in Blocks /\ Live(m, b) /\ ListOf(m, b) = k
      BY DEF Members
    <3>2. Reach(m.next, m.head[k], b)
      BY <1>1, <3>1, HeadReaches
    <3>. QED BY <2>2, <3>2 DEF Reach
  <2>. QED BY <2>3, <2>4 DEF W
<1>3. Walk(m, m.closed) = {b \in Blocks : Closed(m, b)}
  <2> DEFINE W == Walk(m, m.closed)
             C == {b \in Blocks : Closed(m, b)}
  <2>1. m.closed \in Pointers /\ m.next \in [Blocks -> Pointers]
    BY <1>1 DEF Memory
  <2>2. /\ W \in SUBSET Blocks /\ HoldsFrom(m.next, m.closed, W)
        /\ \A T \in SUBSET Blocks : HoldsFrom(m.next, m.closed, T) => W \subseteq T
    BY <1>1, <2>1, WalkMeets
  <2> HIDE DEF W
  <2>3. ClosedBut(m, NULL)
    BY <1>1 DEF ListsBut
  <2>4. HoldsFrom(m.next, m.closed, C)
    <3>1. m.closed \in C \cup {NULL}
      BY <2>1, <2>3 DEF ClosedBut, Pointers
    <3>2. \A b \in C : m.next[b] \in C \cup {NULL}
      BY <2>1, <2>3, PointerFacts DEF ClosedBut, Pointers
    <3>. QED BY <3>1, <3>2 DEF HoldsFrom
  <2>5. W \subseteq C
    BY <2>2, <2>4
  <2>6. ASSUME C \ W # {} PROVE FALSE
    <3>1. PICK r \in [Blocks -> Int] : \A b \in Blocks :
            Closed(m, b) /\ m.next[b] # NULL => r[m.next[b]] < r[b]
      BY DEF Sound, ClosedDownhill
    <3> DEFINE S == C \ W
    <3>2. PICK t \in S : \A a \in S : r[a] <= r[t]
      <4>1. S \in SUBSET Blocks /\ S # {}
        BY <2>6
      <4> HIDE DEF S
      <4>. QED BY <4>1, Highest
    <3>3. t \in Blocks /\ Closed(m, t) /\ t \notin W
      BY <3>2
    <3>4. t # m.closed
      BY <2>2, <3>3, PointerFacts DEF HoldsFrom
    <3>5. PICK a \in Blocks : Closed(m, a) /\ m.next[a] = t
      BY <2>3, <3>3, <3>4, PointerFacts DEF ClosedBut
    <3>6. r[t] < r[a]
      BY <3>1, <3>3, <3>5, PointerFacts
    <3>7. a \notin S
      BY <3>2, <3>3, <3>5, <3>6
    <3>8. a \in W
      BY <3>5, <3>7
    <3>. QED BY <2>2, <3>3, <3>5, <3>8, PointerFacts DEF HoldsFrom
  <2>. QED BY <2>5, <2>6 DEF W
<1>. QED BY <1>2, <1>3

SoundMemory == Sound(h)

(* Memory in which no block was used is sound.                                *)
LEMMA EmptySound == Sound(EmptyMemory)
<1>1. \A b \in Blocks : ~Closed(EmptyMemory, b)
  BY DEF Closed, Free, EmptyMemory
<1>2. [b \in Blocks |-> 0] \in [Blocks -> Int]
  OBVIOUS
<1>3. ClosedDownhill(EmptyMemory)
  BY <1>1, <1>2 DEF ClosedDownhill
<1>. QED BY <1>3, EmptyGood DEF Sound

(* The lists stay sound, for any number of blocks and contexts.               *)
THEOREM SoundInvariant == ListSpec => []SoundMemory
<1>1. ListInit => SoundMemory
  BY EmptySound DEF ListInit, SoundMemory
<1>2. SoundMemory /\ [ListNext]_h => SoundMemory'
  BY SoundStep DEF SoundMemory
<1>. QED BY <1>1, <1>2, PTL DEF ListSpec

(* A walk of a list of a context, or of the low-priority queue, meets exactly  *)
(* its live sockets, and a walk of the closed list exactly the closed ones.   *)
(* Blocks of memory are finitely many.                                        *)
THEOREM NothingIsLost ==
  ASSUME IsFiniteSet(Blocks)
  PROVE  ListSpec => []NoSocketLost
<1>1. SoundMemory => NoSocketLost
  BY SoundWalks DEF SoundMemory, NoSocketLost, Members
<1>. QED BY <1>1, SoundInvariant, PTL

-----------------------------------------------------------------------------
(* The event loop.                                                             *)

Supported == Inputs \cap {"write_queued", "adopt_unpolled", "nested"} = {}

-----------------------------------------------------------------------------
(* The inductive invariant.                                                   *)

\* What the point the library has reached says of the poll it works on.
CurOK ==
  /\ at = "connect_error" => cur \in Blocks /\ h.kind[cur] = "connecting"
  /\ at \in {"accept", "pre_opened", "accepted"} => cur \in Blocks /\ h.kind[cur] = "listen"
  /\ at \in {"writable", "more"} => cur \in Blocks /\ h.kind[cur] \in {"socket", "shut_down"}
  /\ at = "writable" /\ readable /\ Live(h, cur) => ~Queued(h, cur)
  /\ at \in {"prio", "recv"} => InLibrary /\ cur \in Blocks /\ Established(cur)
  /\ at = "prio" => ~Queued(h, cur)
  /\ at = "seek" => InLibrary /\ (cur # NULL => cur \in Blocks /\ Linked(h, cur, sweeping))
  /\ at \in {"long", "advance"} => cur \in Blocks
  /\ at \in {"seek", "long", "advance"} => sweeping \in Contexts

\* us_socket_context_close stands on a live socket of the list it closes.
ClosingOK ==
  /\ closing.at = "idle" => closing = Idle
  /\ closing.at # "idle" =>
       /\ closing.c \in Contexts
       /\ closing.s # NULL => Live(h, closing.s) /\ ListOf(h, closing.s) = <<closing.c, closing.at>>

\* What a poll asks for, and whose ready events are kept.
PollsOK ==
  /\ \A b \in Blocks : sock[b].reported # {} => Live(h, b)
  /\ ReadableArmed

LInv == TypeOK /\ Sound(h) /\ CurOK /\ ClosingOK /\ PollsOK

(* What the operations leave alone stays what it was.                         *)
LEMMA OthersSame ==
  ASSUME NEW m, NEW u, NEW S, Others(m, u, S), NEW b \in Blocks \ S
  PROVE  /\ u.kind[b] = m.kind[b] /\ u.context[b] = m.context[b] /\ u.lowPrio[b] = m.lowPrio[b]
         /\ Live(u, b) <=> Live(m, b)
         /\ Free(u, b) <=> Free(m, b)
         /\ Closed(u, b) <=> Closed(m, b)
         /\ Queued(u, b) <=> Queued(m, b)
         /\ ListOf(u, b) = ListOf(m, b)
         /\ \A c \in Contexts : Linked(u, b, c) <=> Linked(m, b, c)
BY DEF Others, Live, Free, Closed, Queued, Linked, ListOf, ContextList

(* A block is free, live or closed.                                           *)
LEMMA OneState ==
  ASSUME NEW m, NEW b
  PROVE  /\ Live(m, b) => ~Free(m, b) /\ ~Closed(m, b)
         /\ Closed(m, b) => ~Free(m, b)
         /\ ~Free(m, b) => Live(m, b) \/ Closed(m, b)
BY DEF Live, Closed, Free

-----------------------------------------------------------------------------
(* Each step uses the lists as their contract says.                           *)
LEMMA ListStep ==
  ASSUME LInv, Next, Supported
  PROVE  [ListNext]_h
<1>1. h \in Memory /\ Good(h) /\ ListsBut(h, NULL) /\ cur \in Pointers
  BY DEF LInv, TypeOK, Sound, Good
<1> USE DEF ListNext
<1>2. CASE RunLoop
  <2>1. CASE HandleLowPrio
    BY <2>1 DEF HandleLowPrio, ListResume
  <2>2. CASE FreeClosed
    BY <2>2 DEF FreeClosed, ListFree
  <2>3. CASE LoopPre \/ LoopExit \/ LowPrioHandled \/ EpollWait
             \/ DispatchUser \/ ReadyListDone \/ LoopPost
    BY <2>3 DEF LoopPre, LoopExit, LowPrioHandled, EpollWait, DispatchUser, ReadyListDone, LoopPost
  <2>. QED BY <1>2, <2>1, <2>2, <2>3 DEF RunLoop
<1>3. CASE Dispatch
  <2>1. ASSUME NEW s \in Blocks, DispatchConnected(s) PROVE [ListNext]_h
    BY <2>1 DEF DispatchConnected, ListConnected
  <2>2. CASE CloseFailedConnect
    <3>1. CASE Closed(h, cur)
      BY <2>2, <3>1 DEF CloseFailedConnect
    <3>2. CASE ~Closed(h, cur)
      <4>1. cur \in Blocks /\ h.kind[cur] = "connecting" /\ h' = CloseSemi(h, cur)
        BY <2>2, <3>2 DEF CloseFailedConnect, LInv, CurOK, CloseSemiSocket
      <4>2. Live(h, cur)
        BY <3>2, <4>1 DEF Live, Closed, Free
      <4>. QED BY <4>1, <4>2 DEF ListCloseSemi
    <3>. QED BY <3>1, <3>2
  <2>3. ASSUME NEW s \in Blocks, AcceptSocket(s) PROVE [ListNext]_h
    <3>1. cur \in Blocks /\ h.kind[cur] = "listen"
      BY <2>3 DEF AcceptSocket, LInv, CurOK
    <3>2. h.context[cur] \in Contexts
      BY <3>1, <1>1, LiveByPrev DEF Free
    <3>3. ListCreate(s, h.context[cur], "socket")
      BY <2>3 DEF AcceptSocket, ListCreate
    <3>. QED BY <3>2, <3>3
  <2>4. ASSUME NEW s \in Blocks, DispatchError(s) PROVE [ListNext]_h
    BY <2>4 DEF DispatchError, CloseSocket, Established, ListClose
  <2>5. CASE ReadResumed
    BY <2>5 DEF ReadResumed, ListServed, LInv, CurOK, Established
  <2>6. CASE ReadDeferred
    BY <2>6 DEF ReadDeferred, ListDefer, LInv, CurOK, Established
  <2>7. CASE RecvClose
    BY <2>7 DEF RecvClose, CloseSocket, ListClose, LInv, CurOK, Established
  <2>8. ASSUME NEW s \in Blocks, DispatchConnectError(s) \/ DispatchListen(s)
                                 \/ DispatchWritable(s) \/ DispatchReadable(s)
        PROVE [ListNext]_h
    BY <2>8 DEF DispatchConnectError, DispatchListen, DispatchWritable, DispatchReadable
  <2>9. CASE PreOpen \/ PreOpenExports \/ AcceptNext \/ AcceptDone \/ AfterWritable
    BY <2>9 DEF PreOpen, PreOpenExports, AcceptNext, AcceptDone, AfterWritable
  <2>10. CASE ReadNow \/ ReadWithinBudget \/ RecvData \/ RecvAgain \/ RecvDone \/ RecvEnd
    BY <2>10 DEF ReadNow, ReadWithinBudget, RecvData, RecvAgain, RecvDone, RecvEnd
  <2>. QED BY <1>3, <2>1, <2>2, <2>3, <2>4, <2>5, <2>6, <2>7, <2>8, <2>9, <2>10 DEF Dispatch
<1>4. CASE Sweep
  <2>1. CASE SeekFound
    BY <2>1 DEF SeekFound, ListSweepAt, LInv, CurOK
  <2>2. CASE SweepContextDone
    BY <2>2 DEF SweepContextDone, ListSweepEnd, LInv, CurOK
  <2>3. ASSUME NEW c \in Contexts, SweepContext(c) PROVE [ListNext]_h
    BY <2>3 DEF SweepContext
  <2>4. CASE DispatchSweep \/ SeekNext \/ SweepLong \/ SweepAdvance \/ SweepDone
    BY <2>4 DEF DispatchSweep, SeekNext, SweepLong, SweepAdvance, SweepDone
  <2>. QED BY <1>4, <2>1, <2>2, <2>3, <2>4 DEF Sweep
<1>5. CASE ContextClose
  <2>1. closing.s # NULL => closing.s \in Blocks
    BY DEF LInv, TypeOK, Pointers
  <2>2. CASE ContextCloseListen
    <3>1. CASE closing.s = NULL
      BY <2>2, <3>1 DEF ContextCloseListen
    <3>2. CASE closing.s # NULL
      <4>1. /\ Live(h, closing.s) /\ ListOf(h, closing.s) = <<closing.c, "listen">>
            /\ closing.c \in Contexts /\ h' = CloseSemi(h, closing.s)
        BY <2>2, <3>2 DEF ContextCloseListen, CloseSemiSocket, LInv, ClosingOK
      <4>2. h.kind[closing.s] = "listen"
        BY <4>1, PointerFacts DEF ListOf, ContextList
      <4>. QED BY <2>1, <3>2, <4>1, <4>2 DEF ListCloseSemi
    <3>. QED BY <3>1, <3>2
  <2>3. CASE ContextCloseSocket
    <3>1. CASE Closed(h, closing.s)
      BY <2>3, <3>1 DEF ContextCloseSocket
    <3>2. CASE ~Closed(h, closing.s)
      <4>1. /\ Live(h, closing.s) /\ ListOf(h, closing.s) = <<closing.c, "sockets">>
            /\ closing.c \in Contexts /\ h' = Close(h, closing.s) /\ closing.s # NULL
        BY <2>3, <3>2 DEF ContextCloseSocket, CloseSocket, LInv, ClosingOK
      <4>2. h.kind[closing.s] # "listen"
        BY <4>1, PointerFacts DEF ListOf, ContextList
      <4>. QED BY <2>1, <4>1, <4>2 DEF ListClose
    <3>. QED BY <3>1, <3>2
  <2>4. CASE ContextCloseDone
    BY <2>4 DEF ContextCloseDone
  <2>. QED BY <1>5, <2>2, <2>3, <2>4 DEF ContextClose
<1>6. CASE AppCall
  <2>1. ASSUME NEW s \in Blocks, NEW c \in Contexts, AppListen(s, c) \/ AppConnect(s, c)
        PROVE  [ListNext]_h
    BY <2>1 DEF AppListen, AppConnect, ListCreate
  <2>2. ASSUME NEW s \in Blocks, NEW c \in Contexts, NEW n \in Blocks, AppAdopt(s, c, n)
        PROVE  [ListNext]_h
    BY <2>2 DEF AppAdopt, ListAdopt, Established
  <2>3. ASSUME NEW s \in Blocks, AppClose(s) PROVE [ListNext]_h
    BY <2>3 DEF AppClose, CloseSocket, ListClose, Established
  <2>4. ASSUME NEW s \in Blocks, AppCloseSemi(s) PROVE [ListNext]_h
    BY <2>4 DEF AppCloseSemi, CloseSemiSocket, ListCloseSemi
  <2>5. ASSUME NEW s \in Blocks, AppShutdown(s) PROVE [ListNext]_h
    BY <2>5 DEF AppShutdown, ListShutDown
  <2>6. ASSUME NEW s \in Blocks, AppWrite(s) \/ AppWrite2(s) PROVE [ListNext]_h
    BY <2>6 DEF AppWrite, AppWrite2
  <2>7. ASSUME NEW s \in Blocks, NEW timer \in {"off", "later"},
               AppTimeout(s, timer) \/ AppLongTimeout(s, timer)
        PROVE  [ListNext]_h
    BY <2>7 DEF AppTimeout, AppLongTimeout
  <2>8. ASSUME NEW c \in Contexts, AppContextClose(c) PROVE [ListNext]_h
    BY <2>8 DEF AppContextClose
  <2>. QED BY <1>6, <2>1, <2>2, <2>3, <2>4, <2>5, <2>6, <2>7, <2>8 DEF AppCall
<1>7. CASE Return
  BY <1>7 DEF Return
<1>. QED BY <1>2, <1>3, <1>4, <1>5, <1>6, <1>7 DEF Next, Library

------------------------------------------------------------------------------

(* Types of a step on sockets. *)

-----------------------------------------------------------------------------
(* The parts of TypeOK beside the memory.                                     *)
SockTyped == sock \in [Blocks -> Socket]
RestTyped ==
  /\ at \in Points /\ cur \in Pointers /\ readable \in BOOLEAN
  /\ cb \in [ev : Handlers, s : Pointers]
  /\ closing \in [at : {"idle", "listen", "sockets"}, c : Contexts \cup {NULL},
                  s : Pointers, all : SUBSET Blocks]
  /\ ready \subseteq {"sweep", "user"}
  /\ unswept \subseteq Contexts /\ sweeping \in Contexts \cup {NULL}
  /\ budget \in 0..MaxLowPrio /\ lastWriteFailed \in BOOLEAN

EventSets  == SUBSET {"R", "W"}
ReportSets == SUBSET {"R", "W", "E"}
Counts     == 0..2

(* The fields of a socket, with sets the provers need not expand.             *)
LEMMA SocketFields ==
  Socket = [events : EventSets, reported : ReportSets, short : Timers, long : Timers,
            opens : Counts, closes : Counts, ended : BOOLEAN, owed : BOOLEAN,
            home : Contexts \cup {NULL}]
BY DEF Socket, EventSets, ReportSets, Counts

(* What those sets hold and are closed under.                                 *)
LEMMA FieldFacts ==
  /\ {} \in EventSets /\ {"R"} \in EventSets /\ {"W"} \in EventSets /\ {"R", "W"} \in EventSets
  /\ \A e \in EventSets :
       /\ e \cup {"R"} \in EventSets /\ e \cap {"R"} \in EventSets /\ e \cap {"W"} \in EventSets
       /\ (e \cup {"E"}) \cap Inputs \in ReportSets
  /\ {} \in ReportSets
  /\ "off" \in Timers /\ "later" \in Timers /\ "due" \in Timers
  /\ 0 \in Counts /\ 1 \in Counts
  /\ \A n \in Counts : Told(n) \in Counts
<1>1. /\ {} \in EventSets /\ {"R"} \in EventSets /\ {"W"} \in EventSets /\ {"R", "W"} \in EventSets
      /\ {} \in ReportSets
  BY DEF EventSets, ReportSets
<1>2. ASSUME NEW e \in EventSets
      PROVE  /\ e \cup {"R"} \in EventSets /\ e \cap {"R"} \in EventSets /\ e \cap {"W"} \in EventSets
             /\ (e \cup {"E"}) \cap Inputs \in ReportSets
  BY DEF EventSets, ReportSets
<1>3. "off" \in Timers /\ "later" \in Timers /\ "due" \in Timers
  BY DEF Timers
<1>4. 0 \in Counts /\ 1 \in Counts /\ \A n \in Counts : Told(n) \in Counts
  BY DEF Counts, Told
<1>. QED BY <1>1, <1>2, <1>3, <1>4

(* A blank block and a new socket are typed.                                  *)
LEMMA NewTyped ==
  /\ Blank \in Socket
  /\ \A c \in Contexts :
       New(c) = [events |-> {}, reported |-> {}, short |-> "off", long |-> "off",
          opens |-> 0, closes |-> 0, ended |-> FALSE, owed |-> FALSE, home |-> c]
<1>1. Blank \in Socket
  BY SocketFields, FieldFacts DEF Blank
<1>2. ASSUME NEW c \in Contexts
      PROVE  New(c) = [events |-> {}, reported |-> {}, short |-> "off", long |-> "off",
          opens |-> 0, closes |-> 0, ended |-> FALSE, owed |-> FALSE, home |-> c]
  <2>1. New(c) = [Blank EXCEPT !.home = c]
    BY DEF New
  <2>2. Blank = [events |-> {}, reported |-> {}, short |-> "off", long |-> "off",
          opens |-> 0, closes |-> 0, ended |-> FALSE, owed |-> FALSE, home |-> NULL]
    BY DEF Blank
  <2>. QED BY ONLY <2>1, <2>2
<1>. QED BY <1>1, <1>2

(* So is a new socket that polls, and one that has seen on_open.              *)
LEMMA NewPolls ==
  ASSUME NEW c \in Contexts, NEW e \in EventSets, NEW n \in Counts
  PROVE  [New(c) EXCEPT !.events = e] \in Socket /\ [New(c) EXCEPT !.events = e, !.opens = n] \in Socket
<1>1. New(c) \in Socket
  <2>1. c \in Contexts \cup {NULL}
    OBVIOUS
  <2>2. New(c) = [events |-> {}, reported |-> {}, short |-> "off", long |-> "off",
          opens |-> 0, closes |-> 0, ended |-> FALSE, owed |-> FALSE, home |-> c]
    BY NewTyped
  <2>. QED BY ONLY <2>1, <2>2, SocketFields, FieldFacts
<1> DEFINE x == New(c)
<1>2. x \in Socket
  BY <1>1
<1> HIDE DEF x
<1>3. [x EXCEPT !.events = e] \in Socket
  BY <1>2, SocketFields
<1>4. [x EXCEPT !.events = e, !.opens = n] \in Socket
  BY <1>2, SocketFields
<1>. QED BY <1>3, <1>4 DEF x

(* Closing a socket leaves it typed.                                          *)
LEMMA CloseTyped ==
  ASSUME SockTyped, NEW s \in Blocks, CloseSocket(s) \/ CloseSemiSocket(s)
  PROVE  SockTyped'
<1>1. sock[s] \in Socket
  BY DEF SockTyped
<1>2. Stopped(s) \in Socket
  BY <1>1, SocketFields, FieldFacts DEF Stopped
<1>3. [Stopped(s) EXCEPT !.closes = Told(@)] \in Socket
  <2> DEFINE x == Stopped(s)
  <2>1. x \in Socket
    BY <1>2
  <2> HIDE DEF x
  <2>2. [x EXCEPT !.closes = Told(@)] \in Socket
    BY <2>1, SocketFields, FieldFacts
  <2>. QED BY <2>2 DEF x
<1>4. sock' = [sock EXCEPT ![s] = Stopped(s)] \/ sock' = [sock EXCEPT ![s] = [Stopped(s) EXCEPT !.closes = Told(@)]]
  BY DEF CloseSocket, CloseSemiSocket
<1>. QED BY <1>2, <1>3, <1>4 DEF SockTyped

(* The fields of every socket stay typed through every action.                *)
LEMMA SockStep ==
  ASSUME LInv, Next
  PROVE  SockTyped'
<1>1. sock \in [Blocks -> Socket] /\ h \in Memory /\ cur \in Pointers
  BY DEF LInv, TypeOK
<1> USE DEF SockTyped
<1>2. CASE RunLoop
  <2>1. CASE HandleLowPrio
    BY <1>1, SocketFields, FieldFacts, NewTyped, <2>1 DEF HandleLowPrio
  <2>2. CASE FreeClosed
    <3>1. Blank \in Socket
      BY NewTyped
    <3>. QED BY <1>1, SocketFields, FieldFacts, NewTyped, <2>2, <3>1 DEF FreeClosed
  <2>3. CASE EpollWait
    <3>1. \A b \in Blocks : (sock[b].events \cup {"E"}) \cap Inputs \in ReportSets
      BY <1>1, SocketFields, FieldFacts
    <3>. QED BY <1>1, SocketFields, FieldFacts, NewTyped, <2>3, <3>1 DEF EpollWait
  <2>4. CASE ReadyListDone
    BY <1>1, SocketFields, FieldFacts, NewTyped, <2>4 DEF ReadyListDone
  <2>5. CASE LoopPre \/ LoopExit \/ LowPrioHandled \/ DispatchUser \/ LoopPost
    BY <1>1, SocketFields, FieldFacts, NewTyped, <2>5 DEF LoopPre, LoopExit, LowPrioHandled, DispatchUser, LoopPost
  <2>. QED BY <1>2, <2>1, <2>2, <2>3, <2>4, <2>5 DEF RunLoop
<1>3. CASE Dispatch
  <2>1. ASSUME NEW s \in Blocks, DispatchConnected(s) PROVE SockTyped'
    BY <1>1, SocketFields, FieldFacts, NewTyped, <2>1 DEF DispatchConnected
  <2>2. CASE CloseFailedConnect
    <3>1. cur \in Blocks
      BY <2>2 DEF CloseFailedConnect, LInv, CurOK
    <3>. QED BY <1>1, <2>2, <3>1, CloseTyped DEF CloseFailedConnect
  <2>3. ASSUME NEW s \in Blocks, AcceptSocket(s) PROVE SockTyped'
    <3>1. h.context[cur] \in Contexts
      <4>1. cur \in Blocks /\ h.kind[cur] = "listen"
        BY <2>3 DEF AcceptSocket, LInv, CurOK
      <4>. QED BY <4>1, LiveByPrev DEF LInv, Sound, Free
    <3>. QED BY <1>1, FieldFacts, NewPolls, <2>3, <3>1 DEF AcceptSocket
  <2>4. ASSUME NEW s \in Blocks, DispatchError(s) PROVE SockTyped'
    BY <1>1, <2>4, CloseTyped DEF DispatchError
  <2>5. CASE RecvClose
    <3>1. cur \in Blocks
      BY <2>5 DEF RecvClose, LInv, CurOK
    <3>. QED BY <1>1, <2>5, <3>1, CloseTyped DEF RecvClose
  <2>6. ASSUME NEW s \in Blocks, DispatchConnectError(s) \/ DispatchListen(s) \/ DispatchReadable(s)
        PROVE  SockTyped'
    BY <1>1, SocketFields, FieldFacts, NewTyped, <2>6 DEF DispatchConnectError, DispatchListen, DispatchReadable
  <2>7. ASSUME NEW s \in Blocks, DispatchWritable(s) PROVE SockTyped'
    BY <1>1, SocketFields, FieldFacts, NewTyped, <2>7 DEF DispatchWritable
  <2>8. CASE AfterWritable
    <3>1. cur \in Blocks /\ sock[cur] \in Socket
      BY <1>1, <2>8 DEF AfterWritable, LInv, CurOK
    <3>2. [sock EXCEPT ![cur].events = @ \cap {"R"}] \in [Blocks -> Socket]
      BY <1>1, <3>1, SocketFields, FieldFacts
    <3>. QED BY <1>1, <2>8, <3>2 DEF AfterWritable
  <2>9. CASE ReadDeferred
    BY <1>1, SocketFields, FieldFacts, NewTyped, <2>9 DEF ReadDeferred
  <2>10. CASE RecvEnd
    BY <1>1, SocketFields, FieldFacts, NewTyped, <2>10 DEF RecvEnd
  <2>11. CASE PreOpen \/ PreOpenExports \/ AcceptNext \/ AcceptDone
    BY <1>1, SocketFields, FieldFacts, NewTyped, <2>11 DEF PreOpen, PreOpenExports, AcceptNext, AcceptDone
  <2>12. CASE ReadNow \/ ReadResumed \/ ReadWithinBudget \/ RecvData \/ RecvAgain \/ RecvDone
    BY <1>1, SocketFields, FieldFacts, NewTyped, <2>12 DEF ReadNow, ReadResumed, ReadWithinBudget, RecvData, RecvAgain, RecvDone
  <2>. QED BY <1>3, <2>1, <2>2, <2>3, <2>4, <2>5, <2>6, <2>7, <2>8, <2>9, <2>10, <2>11, <2>12
           DEF Dispatch
<1>4. CASE Sweep
  <2>1. CASE SeekFound
    <3>1. cur \in Blocks
      BY <2>1 DEF SeekFound, LInv, CurOK
    <3>2. [sock EXCEPT ![cur].short = "off"] \in [Blocks -> Socket]
      BY <1>1, <3>1, SocketFields, FieldFacts
    <3>. QED BY <1>1, <2>1, <3>2 DEF SeekFound
  <2>2. CASE SweepLong
    <3>1. cur \in Blocks
      BY <2>2 DEF SweepLong, LInv, CurOK
    <3>2. [sock EXCEPT ![cur].long = "off"] \in [Blocks -> Socket]
      BY <1>1, <3>1, SocketFields, FieldFacts
    <3>. QED BY <1>1, <2>2, <3>2 DEF SweepLong
  <2>3. CASE SweepContextDone
    BY <1>1, SocketFields, FieldFacts, NewTyped, <2>3 DEF SweepContextDone
  <2>4. ASSUME NEW c \in Contexts, SweepContext(c) PROVE SockTyped'
    <3>1. PICK shorts \in SUBSET {b \in Blocks : h.context[b] = c /\ sock[b].short = "later"},
               longs \in SUBSET {b \in Blocks : h.context[b] = c /\ sock[b].long = "later"} :
            sock' = [b \in Blocks |->
              [sock[b] EXCEPT !.short = IF b \in shorts THEN "due" ELSE @,
                              !.long  = IF b \in longs THEN "due" ELSE @]]
      BY ONLY <2>4, Zenon DEF SweepContext
    <3>2. ASSUME NEW b \in Blocks
          PROVE  [sock[b] EXCEPT !.short = IF b \in shorts THEN "due" ELSE @,
                                 !.long  = IF b \in longs THEN "due" ELSE @] \in Socket
      <4>1. sock[b] \in Socket
        BY <1>1
      <4>2. sock[b].short \in Timers /\ sock[b].long \in Timers
        BY <4>1 DEF Socket
      <4>3. /\ (IF b \in shorts THEN "due" ELSE sock[b].short) \in Timers
            /\ (IF b \in longs THEN "due" ELSE sock[b].long) \in Timers
        BY <4>2, FieldFacts
      <4>. QED BY ONLY <4>1, <4>3, SocketFields
    <3>. QED BY ONLY <3>1, <3>2 DEF SockTyped
  <2>5. CASE DispatchSweep \/ SeekNext \/ SweepAdvance \/ SweepDone
    BY <1>1, SocketFields, FieldFacts, NewTyped, <2>5 DEF DispatchSweep, SeekNext, SweepAdvance, SweepDone
  <2>. QED BY <1>4, <2>1, <2>2, <2>3, <2>4, <2>5 DEF Sweep
<1>8. closing.s # NULL => closing.s \in Blocks
  BY DEF LInv, TypeOK, Pointers
<1>5. CASE ContextClose
  <2>1. CASE ContextCloseListen
    BY <1>1, <2>1, <1>8, CloseTyped DEF ContextCloseListen
  <2>2. CASE ContextCloseSocket
    BY <1>1, <2>2, <1>8, CloseTyped DEF ContextCloseSocket
  <2>3. CASE ContextCloseDone
    BY <1>1, SocketFields, FieldFacts, NewTyped, <2>3 DEF ContextCloseDone
  <2>. QED BY <1>5, <2>1, <2>2, <2>3 DEF ContextClose
<1>6. CASE AppCall
  <2>1. ASSUME NEW s \in Blocks, NEW c \in Contexts, AppListen(s, c) \/ AppConnect(s, c)
        PROVE  SockTyped'
    BY <1>1, FieldFacts, NewPolls, <2>1 DEF AppListen, AppConnect
  <2>2. ASSUME NEW s \in Blocks, NEW c \in Contexts, NEW n \in Blocks, AppAdopt(s, c, n)
        PROVE  SockTyped'
    <3> DEFINE kept == [sock[s] EXCEPT !.short = "off", !.long = "off", !.home = c]
    <3>1. kept \in Socket
      BY <1>1, SocketFields, FieldFacts
    <3>2. [kept EXCEPT !.reported = {}] \in Socket
      <4> HIDE DEF kept
      <4>. QED BY <3>1, SocketFields, FieldFacts
    <3>3. Blank \in Socket
      BY NewTyped
    <3>4. [Blank EXCEPT !.reported = sock[s].reported] \in Socket
      BY <1>1, SocketFields, FieldFacts DEF Blank
    <3>5. \E x, y \in Socket : sock' = [sock EXCEPT ![n] = x] \/ sock' = [sock EXCEPT ![n] = x, ![s] = y]
      <4>1. CASE n = s
        BY <2>2, <4>1, <3>1 DEF AppAdopt
      <4>2. CASE n # s
        BY <2>2, <4>2, <3>1, <3>2, <3>3, <3>4 DEF AppAdopt
      <4>. QED BY <4>1, <4>2
    <3>. QED BY <1>1, SocketFields, FieldFacts, NewTyped, <3>5
  <2>3. ASSUME NEW s \in Blocks, AppClose(s) PROVE SockTyped'
    BY <1>1, <2>3, CloseTyped DEF AppClose
  <2>4. ASSUME NEW s \in Blocks, AppCloseSemi(s) PROVE SockTyped'
    BY <1>1, <2>4, CloseTyped DEF AppCloseSemi
  <2>5. ASSUME NEW s \in Blocks, AppShutdown(s) PROVE SockTyped'
    BY <1>1, SocketFields, FieldFacts, NewTyped, <2>5 DEF AppShutdown
  <2>6. ASSUME NEW s \in Blocks, AppWrite(s) \/ AppWrite2(s) PROVE SockTyped'
    <3>1. [sock EXCEPT ![s].events = {"R", "W"}, ![s].owed = TRUE] \in [Blocks -> Socket]
      BY <1>1, SocketFields, FieldFacts
    <3>. QED BY <2>6, <3>1 DEF AppWrite, AppWrite2
  <2>7. ASSUME NEW s \in Blocks, NEW timer \in {"off", "later"},
               AppTimeout(s, timer) \/ AppLongTimeout(s, timer)
        PROVE  SockTyped'
    <3>1. timer \in Timers
      BY FieldFacts
    <3>2. [sock EXCEPT ![s].short = timer] \in [Blocks -> Socket]
      BY <1>1, <3>1, SocketFields
    <3>3. [sock EXCEPT ![s].long = timer] \in [Blocks -> Socket]
      BY <1>1, <3>1, SocketFields
    <3>. QED BY <2>7, <3>2, <3>3 DEF AppTimeout, AppLongTimeout
  <2>8. ASSUME NEW c \in Contexts, AppContextClose(c) PROVE SockTyped'
    BY <1>1, SocketFields, FieldFacts, NewTyped, <2>8 DEF AppContextClose
  <2>. QED BY <1>6, <2>1, <2>2, <2>3, <2>4, <2>5, <2>6, <2>7, <2>8 DEF AppCall
<1>7. CASE Return
  BY <1>1, SocketFields, FieldFacts, NewTyped, <1>7 DEF Return
<1>. QED BY <1>2, <1>3, <1>4, <1>5, <1>6, <1>7 DEF Next, Library

------------------------------------------------------------------------------

(* Types of the rest of the loop, and of every action. *)

(* The rest of the state keeps its type.                                      *)
LEMMA RestStep ==
  ASSUME LInv, Next
  PROVE  RestTyped'
<1>1. /\ at \in Points /\ cur \in Pointers /\ readable \in BOOLEAN
      /\ cb \in [ev : Handlers, s : Pointers]
      /\ closing \in [at : {"idle", "listen", "sockets"}, c : Contexts \cup {NULL},
                      s : Pointers, all : SUBSET Blocks]
      /\ ready \subseteq {"sweep", "user"}
      /\ unswept \subseteq Contexts /\ sweeping \in Contexts \cup {NULL}
      /\ budget \in 0..MaxLowPrio /\ lastWriteFailed \in BOOLEAN
  BY DEF LInv, TypeOK
<1>2. \A ev \in Handlers, s \in Pointers : [ev |-> ev, s |-> s] \in [ev : Handlers, s : Pointers]
  OBVIOUS
<1>3. NULL \in Pointers /\ \A s \in Blocks : s \in Pointers
  BY DEF Pointers
<1>4. NoCallback \in [ev : Handlers, s : Pointers]
  BY <1>3 DEF NoCallback, Handlers
<1>5. \A b \in Blocks : h.next[b] \in Pointers
  BY DEF LInv, TypeOK, Memory
<1> USE <1>1, <1>2, <1>3 DEF RestTyped, Emit
<1>6. CASE RunLoop
  <2>1. CASE LoopPre
    BY <2>1, BudgetAssumption DEF LoopPre, Points, sweepVars
  <2>2. CASE LoopExit
    BY <2>2 DEF LoopExit, Handlers, position, sweepVars, ioVars
  <2>6. CASE DispatchUser
    BY <2>6 DEF DispatchUser, Handlers, position, sweepVars, ioVars
  <2>7. CASE LowPrioHandled
    BY <2>7 DEF LowPrioHandled, Points, Handlers, sweepVars, ioVars
  <2>8. CASE LoopPost
    BY <2>8 DEF LoopPost, Points, Handlers, sweepVars, ioVars
  <2>3. CASE HandleLowPrio
    BY <2>3, BudgetAssumption DEF HandleLowPrio, position, sweepVars
  <2>4. CASE EpollWait \/ ReadyListDone
    BY <2>4 DEF EpollWait, ReadyListDone, Points, sweepVars, ioVars
  <2>5. CASE FreeClosed
    BY <2>5 DEF FreeClosed, position, sweepVars, ioVars
  <2>. QED BY <1>6, <2>1, <2>2, <2>3, <2>4, <2>5, <2>6, <2>7, <2>8 DEF RunLoop
<1>7. CASE Dispatch
  <2>1. ASSUME NEW s \in Blocks, DispatchConnected(s) \/ DispatchError(s)
        PROVE  RestTyped'
    BY <2>1 DEF DispatchConnected, DispatchError, CloseSocket, Handlers, position, sweepVars, ioVars
  <2>2. ASSUME NEW s \in Blocks, DispatchConnectError(s) \/ DispatchListen(s) \/ DispatchReadable(s)
        PROVE  RestTyped'
    BY <2>2 DEF DispatchConnectError, DispatchListen, DispatchReadable, Handlers, Points, sweepVars, ioVars
  <2>3. ASSUME NEW s \in Blocks, DispatchWritable(s)
        PROVE  RestTyped'
    <3>1. readable' \in BOOLEAN
      <4>1. readable' = FALSE \/ readable' = ("R" \in sock[s].reported \cap sock[s].events)
        BY ONLY <2>3, Zenon DEF DispatchWritable
      <4>2. ("R" \in sock[s].reported \cap sock[s].events) \in BOOLEAN
        BY ONLY TRUE
      <4>. QED BY ONLY <4>1, <4>2
    <3>2. at' \in Points /\ cur' \in Pointers /\ cb' \in [ev : Handlers, s : Pointers]
      BY <2>3 DEF DispatchWritable, Handlers, Points
    <3>3. UNCHANGED <<closing, ready, sweepVars, budget>> /\ lastWriteFailed' \in BOOLEAN
      BY <2>3 DEF DispatchWritable
    <3>. QED BY <3>1, <3>2, <3>3 DEF sweepVars
  <2>4. ASSUME NEW s \in Blocks, AcceptSocket(s)
        PROVE  RestTyped'
    BY <2>4 DEF AcceptSocket, Handlers, Points, sweepVars, ioVars
  <2>5. CASE CloseFailedConnect
    BY <2>5 DEF CloseFailedConnect, CloseSemiSocket, Points, sweepVars, ioVars
  <2>6. CASE PreOpen
    BY <2>6 DEF PreOpen, Handlers, Points, sweepVars, ioVars
  <2>12. CASE PreOpenExports \/ AcceptNext \/ AcceptDone
    BY <2>12 DEF PreOpenExports, AcceptNext, AcceptDone, Points, sweepVars, ioVars
  <2>7. CASE AfterWritable
    BY <2>7 DEF AfterWritable, Points, sweepVars, ioVars
  <2>8. CASE ReadNow \/ ReadResumed \/ ReadWithinBudget
    <3>1. budget' \in 0..MaxLowPrio
      <4>1. CASE ReadNow
        BY <4>1 DEF ReadNow, ioVars
      <4>2. CASE ReadResumed
        BY <4>2, BudgetAssumption DEF ReadResumed, ioVars
      <4>3. CASE ReadWithinBudget
        BY <4>3, BudgetAssumption DEF ReadWithinBudget
      <4>. QED BY <2>8, <4>1, <4>2, <4>3
    <3>. QED BY <2>8, <3>1 DEF ReadNow, ReadResumed, ReadWithinBudget, Points, sweepVars, ioVars
  <2>9. CASE ReadDeferred \/ RecvDone
    BY <2>9 DEF ReadDeferred, RecvDone, Points, sweepVars, ioVars
  <2>10. CASE RecvData
    BY <2>10 DEF RecvData, Handlers, Points, sweepVars, ioVars
  <2>13. CASE RecvAgain
    BY <2>13 DEF RecvAgain, Points, sweepVars, ioVars
  <2>11. CASE RecvEnd \/ RecvClose
    BY <2>11 DEF RecvEnd, RecvClose, CloseSocket, Handlers, Points, sweepVars, ioVars
  <2>. QED BY <1>7, <2>1, <2>2, <2>3, <2>4, <2>5, <2>6, <2>7, <2>8, <2>9, <2>10, <2>11, <2>12, <2>13
           DEF Dispatch
<1>8. CASE Sweep
  <2>1. ASSUME NEW c \in Contexts, SweepContext(c) PROVE RestTyped'
    <3>1. h.head[<<c, "sockets">>] \in Pointers
      BY PointerFacts DEF LInv, TypeOK, Memory
    <3>. QED BY <2>1, <3>1 DEF SweepContext, Points, ioVars
  <2>2. CASE SeekNext
    <3>1. h.next[cur] \in Pointers
      BY <2>2, <1>5 DEF SeekNext, LInv, CurOK
    <3>. QED BY <2>2, <3>1 DEF SeekNext, sweepVars, ioVars
  <2>3. CASE SeekFound
    BY <2>3 DEF SeekFound, Handlers, Points, sweepVars, ioVars
  <2>4. CASE SweepLong
    BY <2>4 DEF SweepLong, Handlers, Points, sweepVars, ioVars
  <2>5. CASE SweepAdvance
    <3>1. cur \in Blocks /\ sweeping \in Contexts
      BY <2>5 DEF SweepAdvance, LInv, CurOK
    <3>2. h.next[cur] \in Pointers /\ h.iterator[sweeping] \in Pointers
      BY <3>1, <1>5 DEF LInv, TypeOK, Memory
    <3>. QED BY <2>5, <3>2 DEF SweepAdvance, Points, sweepVars, ioVars
  <2>6. CASE DispatchSweep \/ SweepContextDone \/ SweepDone
    BY <2>6 DEF DispatchSweep, SweepContextDone, SweepDone, Points, sweepVars, ioVars
  <2>. QED BY <1>8, <2>1, <2>2, <2>3, <2>4, <2>5, <2>6 DEF Sweep
<1>9. CASE ContextClose
  <2>1. closing.at # "idle" => closing.c \in Contexts
    BY DEF LInv, ClosingOK
  <2>2. CASE ContextCloseListen
    <3>1. h.head[<<closing.c, "sockets">>] \in Pointers
      BY <2>1, <2>2, PointerFacts DEF ContextCloseListen, LInv, TypeOK, Memory
    <3>2. closing.s # NULL => h.next[closing.s] \in Pointers
      BY <1>5 DEF Pointers
    <3>. QED BY <2>2, <3>1, <3>2 DEF ContextCloseListen, CloseSemiSocket, position, sweepVars, ioVars
  <2>3. CASE ContextCloseSocket
    <3>1. closing.s \in Blocks
      BY <2>3 DEF ContextCloseSocket, Pointers
    <3>. QED BY <2>3, <3>1, <1>5 DEF ContextCloseSocket, CloseSocket, Handlers, position, sweepVars, ioVars
  <2>4. CASE ContextCloseDone
    BY <2>4 DEF ContextCloseDone, Idle, Handlers, position, sweepVars, ioVars
  <2>. QED BY <1>9, <2>2, <2>3, <2>4 DEF ContextClose
<1>10. CASE AppCall
  <2>1. ASSUME NEW s \in Blocks, NEW c \in Contexts, AppListen(s, c) \/ AppConnect(s, c)
        PROVE  RestTyped'
    BY <2>1 DEF AppListen, AppConnect, LoopHandlers, position, sweepVars, ioVars
  <2>2. ASSUME NEW s \in Blocks, NEW c \in Contexts, NEW n \in Blocks, AppAdopt(s, c, n)
        PROVE  RestTyped'
    BY <2>2 DEF AppAdopt, sweepVars, ioVars
  <2>3. ASSUME NEW s \in Blocks, AppClose(s) PROVE RestTyped'
    BY <2>3 DEF AppClose, CloseSocket, Handlers, position, sweepVars, ioVars
  <2>4. ASSUME NEW s \in Blocks, AppCloseSemi(s) \/ AppShutdown(s) PROVE RestTyped'
    BY <2>4 DEF AppCloseSemi, CloseSemiSocket, AppShutdown, LoopHandlers, position, sweepVars, ioVars
  <2>5. ASSUME NEW s \in Blocks, AppWrite(s) \/ AppWrite2(s) PROVE RestTyped'
    BY <2>5 DEF AppWrite, AppWrite2, LoopHandlers, position, sweepVars, ioVars
  <2>6. ASSUME NEW s \in Blocks, NEW timer \in {"off", "later"},
               AppTimeout(s, timer) \/ AppLongTimeout(s, timer)
        PROVE  RestTyped'
    BY <2>6 DEF AppTimeout, AppLongTimeout, LoopHandlers, position, sweepVars, ioVars
  <2>7. ASSUME NEW c \in Contexts, AppContextClose(c) PROVE RestTyped'
    <3>1. h.head[<<c, "listen">>] \in Pointers
      BY PointerFacts DEF LInv, TypeOK, Memory
    <3>. QED BY <2>7, <3>1, <1>4 DEF AppContextClose, position, sweepVars, ioVars
  <2>. QED BY <1>10, <2>1, <2>2, <2>3, <2>4, <2>5, <2>6, <2>7 DEF AppCall
<1>11. CASE Return
  BY <1>11, <1>4 DEF Return, position, sweepVars, ioVars
<1>. QED BY <1>6, <1>7, <1>8, <1>9, <1>10, <1>11 DEF Next, Library

(* The state keeps its type.                                                  *)
LEMMA TypeStep ==
  ASSUME LInv, Next, Supported
  PROVE  TypeOK' /\ Sound(h')
<1>1. Sound(h')
  BY ListStep, SoundStep DEF LInv
<1>2. h' \in Memory
  BY <1>1 DEF Sound, Good
<1>3. SockTyped' /\ RestTyped'
  BY SockStep, RestStep
<1>. QED BY <1>1, <1>2, <1>3 DEF SockTyped, RestTyped, TypeOK

------------------------------------------------------------------------------

(* The socket under dispatch. *)

(* At these points the library holds no pointer.                              *)
LEMMA CurIdle ==
  ASSUME at \in {"pre", "low_prio", "wait", "dispatch", "post", "sweep"}
  PROVE  CurOK
BY DEF CurOK

(* While a handler runs, or us_socket_context_close, the poll the library     *)
(* works on stays what it is: it may be closed, shut down or moved.           *)
LEMMA CurKept ==
  ASSUME CurOK, ~InLibrary, UNCHANGED <<at, readable, sweeping>>,
         cur \in Blocks => cur' \in Blocks,
         cur \in Blocks /\ ~Free(h, cur) =>
           /\ h'.kind[cur'] = h.kind[cur] \/ {h'.kind[cur'], h.kind[cur]} \subseteq {"socket", "shut_down"}
           /\ Live(h', cur') => Live(h, cur) /\ h'.lowPrio[cur'] = h.lowPrio[cur]
  PROVE  CurOK'
<1>1. at \notin {"prio", "recv", "seek"}
  BY DEF CurOK
<1>2. cur \in Blocks /\ h.kind[cur] # "free" => ~Free(h, cur)
  BY DEF Free
<1>. QED BY <1>1, <1>2 DEF CurOK, Queued

(* The handlers run outside of the library.                                   *)
LEMMA MayOutside ==
  ASSUME NEW call, May(call)
  PROVE  ~InLibrary
BY CallersAssumption DEF May, InLibrary, NoCallback

(* us_socket_context_close runs in a handler or beside the loop, never in the *)
(* library.                                                                   *)
LEMMA ClosingOutside ==
  ASSUME closing.at # "idle"
  PROVE  ~InLibrary
BY DEF InLibrary, Idle

(* What the point of the loop says of the poll it works on survives every     *)
(* action.                                                                    *)
LEMMA CurStep ==
  ASSUME LInv, Next, Supported
  PROVE  CurOK'
<1>1. CurOK /\ h \in Memory /\ Good(h) /\ ListsBut(h, NULL) /\ cur \in Pointers
  BY DEF LInv, TypeOK, Sound, Good
<1>2. CASE RunLoop
  <2>1. CASE LoopPre \/ LoopExit \/ HandleLowPrio \/ LowPrioHandled \/ EpollWait
    BY <2>1, CurIdle DEF LoopPre, LoopExit, HandleLowPrio, LowPrioHandled, EpollWait, CurOK, position
  <2>2. CASE DispatchUser \/ ReadyListDone \/ FreeClosed \/ LoopPost
    BY <2>2 DEF DispatchUser, ReadyListDone, FreeClosed, LoopPost, CurOK, position
  <2>. QED BY <1>2, <2>1, <2>2 DEF RunLoop
<1>3. CASE Dispatch
  <2>1. ASSUME NEW s \in Blocks, DispatchConnected(s) \/ DispatchError(s)
        PROVE  CurOK'
    BY <2>1 DEF DispatchConnected, DispatchError, CurOK, position
  <2>2. ASSUME NEW s \in Blocks, DispatchConnectError(s) \/ DispatchListen(s)
        PROVE  CurOK'
    BY <2>2 DEF DispatchConnectError, DispatchListen, CurOK
  <2>3. ASSUME NEW s \in Blocks, AcceptSocket(s)
        PROVE  CurOK'
    <3>1. /\ cur \in Blocks /\ h.kind[cur] = "listen" /\ Free(h, s) /\ at' = "accepted"
          /\ h' = Create(h, s, h.context[cur], "socket") /\ UNCHANGED cur
      BY <1>1, <2>3 DEF AcceptSocket, CurOK
    <3>2. h.context[cur] \in Contexts /\ cur # s
      BY <3>1, <1>1, LiveByPrev DEF Free
    <3>3. "socket" \in UsedKinds
      BY DEF Kinds, UsedKinds
    <3>4. Others(h, h', {s})
      BY <1>1, <3>1, <3>2, <3>3, CreateEffect
    <3>. QED BY <3>1, <3>2, <3>4 DEF CurOK, Others
  <2>4. ASSUME NEW s \in Blocks, DispatchWritable(s)
        PROVE  CurOK'
    <3>1. /\ Established(s) /\ at' = "writable" /\ cur' = s /\ UNCHANGED h
          /\ (readable' = FALSE \/ readable' = ("R" \in sock[s].reported \cap sock[s].events))
      BY ONLY <2>4, Zenon DEF DispatchWritable
    <3>2. readable' => ~Queued(h, s)
      BY <3>1 DEF LInv, PollsOK, ReadableArmed
    <3>3. Established(s)' <=> Established(s)
      BY <3>1 DEF Established, Live, Free
    <3>4. Queued(h', cur') <=> Queued(h, s)
      BY <3>1
    <3>. QED BY <3>1, <3>2, <3>4 DEF CurOK, Established
  <2>5. ASSUME NEW s \in Blocks, DispatchReadable(s)
        PROVE  CurOK'
    <3>1. /\ Established(s) /\ "R" \in sock[s].events /\ InLibrary
          /\ at' = "prio" /\ cur' = s /\ UNCHANGED <<h, cb, closing>>
      BY <2>5 DEF DispatchReadable
    <3>2. ~Queued(h, s)
      BY <3>1 DEF LInv, PollsOK, ReadableArmed
    <3>. QED BY <3>1, <3>2 DEF CurOK, Established, Queued, Live, Free, InLibrary
  <2>6. CASE AfterWritable
    <3>1. CASE Live(h, cur) /\ readable
      <4>1. at' = "prio" /\ InLibrary /\ UNCHANGED <<h, cur, cb, closing>> /\ at = "writable"
        BY <2>6, <3>1 DEF AfterWritable
      <4>2. cur \in Blocks /\ Established(cur) /\ ~Queued(h, cur)
        BY <1>1, <3>1, <4>1 DEF CurOK, Established
      <4>. QED BY <4>1, <4>2 DEF CurOK, Established, Queued, Live, Free, InLibrary
    <3>2. CASE ~(Live(h, cur) /\ readable)
      BY <2>6, <3>2 DEF AfterWritable, CurOK
    <3>. QED BY <3>1, <3>2
  <2>7. CASE ReadNow \/ ReadWithinBudget
    BY <1>1, <2>7 DEF ReadNow, ReadWithinBudget, CurOK, Established, Live, Free, InLibrary
  <2>8. CASE ReadResumed
    <3>1. /\ cur \in Blocks /\ Established(cur) /\ h' = [h EXCEPT !.lowPrio[cur] = 0] /\ InLibrary
          /\ at' = "recv" /\ UNCHANGED <<cur, cb, closing>>
      BY <1>1, <2>8 DEF ReadResumed, CurOK
    <3>2. h'.kind = h.kind /\ h'.prev = h.prev /\ h'.context = h.context
      BY <1>1, <3>1 DEF Memory
    <3>. QED BY <3>1, <3>2 DEF CurOK, Established, Live, Free, InLibrary
  <2>9. CASE RecvData \/ RecvAgain
    BY <1>1, <2>9 DEF RecvData, RecvAgain, CurOK, Established, Live, Free, InLibrary
  <2>10. CASE PreOpen \/ PreOpenExports \/ AcceptNext \/ AcceptDone
    BY <1>1, <2>10 DEF PreOpen, PreOpenExports, AcceptNext, AcceptDone, CurOK
  <2>11. CASE CloseFailedConnect \/ ReadDeferred \/ RecvDone \/ RecvEnd \/ RecvClose
    BY <2>11 DEF CloseFailedConnect, ReadDeferred, RecvDone, RecvEnd, RecvClose, CurOK
  <2>. QED BY <1>3, <2>1, <2>2, <2>3, <2>4, <2>5, <2>6, <2>7, <2>8, <2>9, <2>10, <2>11 DEF Dispatch
<1>4. CASE Sweep
  <2>1. ASSUME NEW c \in Contexts, SweepContext(c) PROVE CurOK'
    <3>1. /\ at' = "seek" /\ cur' = h.head[<<c, "sockets">>] /\ sweeping' = c /\ InLibrary
          /\ UNCHANGED <<h, cb, closing>>
      BY <2>1 DEF SweepContext
    <3>2. cur' # NULL => Live(h, cur') /\ ListOf(h, cur') = <<c, "sockets">> /\ cur' \in Blocks
      BY <1>1, <3>1, PointerFacts DEF ListsBut, HeadBut, Memory, Pointers
    <3>. QED BY <3>1, <3>2 DEF CurOK, Linked, ListOf, ContextList, Live, Free, InLibrary
  <2>2. CASE SeekNext
    <3>1. /\ at = "seek" /\ InLibrary /\ cur' = h.next[cur] /\ UNCHANGED <<h, at, sweeping, cb, closing>>
          /\ cur \in Blocks /\ Linked(h, cur, sweeping) /\ sweeping \in Contexts
      BY <1>1, <2>2 DEF SeekNext, CurOK, sweepVars
    <3>2. cur' # NULL => cur' \in Blocks /\ Linked(h, cur', sweeping)
      BY <1>1, <3>1, Neighbours DEF Linked, Pointers
    <3>. QED BY <3>1, <3>2 DEF CurOK, Linked, ListOf, ContextList, Live, Free, InLibrary
  <2>3. CASE SeekFound
    BY <1>1, <2>3 DEF SeekFound, CurOK, sweepVars
  <2>4. CASE SweepLong
    BY <1>1, <2>4 DEF SweepLong, CurOK, sweepVars
  <2>5. CASE SweepAdvance
    <3>1. /\ at = "advance" /\ at' = "seek" /\ InLibrary /\ UNCHANGED <<h, sweeping, cb, closing>>
          /\ cur \in Blocks /\ sweeping \in Contexts
          /\ cur' = IF h.iterator[sweeping] = cur THEN h.next[cur] ELSE h.iterator[sweeping]
      BY <1>1, <2>5 DEF SweepAdvance, CurOK, sweepVars
    <3>2. /\ h.iterator[sweeping] \in Pointers
          /\ h.iterator[sweeping] # NULL => Linked(h, h.iterator[sweeping], sweeping)
      BY <1>1, <3>1, PointerFacts DEF ListsBut, IteratorBut, Memory
    <3>3. cur' # NULL => cur' \in Blocks /\ Linked(h, cur', sweeping)
      <4>1. CASE h.iterator[sweeping] = cur
        <5>1. Linked(h, cur, sweeping) /\ cur' = h.next[cur]
          BY <3>1, <3>2, <4>1, PointerFacts
        <5>. QED BY <1>1, <3>1, <5>1, Neighbours DEF Linked, Pointers
      <4>2. CASE h.iterator[sweeping] # cur
        BY <3>1, <3>2, <4>2 DEF Pointers
      <4>. QED BY <4>1, <4>2
    <3>. QED BY <3>1, <3>3 DEF CurOK, Linked, ListOf, ContextList, Live, Free, InLibrary
  <2>6. CASE DispatchSweep \/ SweepContextDone \/ SweepDone
    BY <2>6 DEF DispatchSweep, SweepContextDone, SweepDone, CurOK
  <2>. QED BY <1>4, <2>1, <2>2, <2>3, <2>4, <2>5, <2>6 DEF Sweep
<1>5. CASE ContextClose
  <2>1. closing.s # NULL => closing.s \in Blocks
    BY DEF LInv, TypeOK, Pointers
  <2>2. CASE UNCHANGED h
    <3>1. ~InLibrary /\ UNCHANGED <<at, cur, readable, sweeping>>
      BY <1>5, ClosingOutside DEF ContextClose, ContextCloseListen, ContextCloseSocket, ContextCloseDone,
         position, sweepVars
    <3>. QED BY <1>1, <2>2, <3>1, CurKept DEF Live, Free
  <2>3. ASSUME closing.s \in Blocks, Live(h, closing.s), h' = Close(h, closing.s)
        PROVE  CurOK'
    <3>1. ~InLibrary /\ UNCHANGED <<at, cur, readable, sweeping>>
      BY <1>5, ClosingOutside DEF ContextClose, ContextCloseListen, ContextCloseSocket, ContextCloseDone,
         position, sweepVars
    <3>2. Others(h, h', {closing.s}) /\ h'.kind = h.kind /\ ~Live(h', closing.s)
      BY <1>1, <2>3, CloseEffect
    <3>3. cur \in Blocks /\ Live(h', cur) => Live(h, cur) /\ h'.lowPrio[cur] = h.lowPrio[cur]
      BY <3>2 DEF Others
    <3>. QED BY <1>1, <3>1, <3>2, <3>3, CurKept
  <2>4. \/ UNCHANGED h
        \/ closing.s \in Blocks /\ Live(h, closing.s) /\ h' = Close(h, closing.s)
    <3>1. CASE ContextCloseListen
      <4>1. closing.s # NULL => Live(h, closing.s) /\ ListOf(h, closing.s) = <<closing.c, "listen">>
                                 /\ closing.c \in Contexts
        BY <3>1 DEF ContextCloseListen, LInv, ClosingOK
      <4>2. closing.s # NULL => h.kind[closing.s] = "listen"
        BY <4>1, PointerFacts DEF ListOf, ContextList
      <4>. QED BY <1>1, <2>1, <3>1, <4>1, <4>2, SemiIsClose DEF ContextCloseListen, CloseSemiSocket
    <3>2. CASE ContextCloseSocket
      BY <2>1, <3>2 DEF ContextCloseSocket, CloseSocket, LInv, ClosingOK
    <3>3. CASE ContextCloseDone
      BY <3>3 DEF ContextCloseDone
    <3>. QED BY <1>5, <3>1, <3>2, <3>3 DEF ContextClose
  <2>. QED BY <2>2, <2>3, <2>4
<1>6. CASE AppCall
  <2>1. ASSUME NEW s \in Blocks, NEW c \in Contexts, AppListen(s, c) \/ AppConnect(s, c)
        PROVE  CurOK'
    <3>1. ~InLibrary /\ UNCHANGED <<at, cur, readable, sweeping>> /\ Free(h, s)
      BY <2>1, MayOutside DEF AppListen, AppConnect, LoopHandlers, position, sweepVars
    <3>2. PICK k \in UsedKinds : h' = Create(h, s, c, k)
      BY <2>1 DEF AppListen, AppConnect, Kinds, UsedKinds
    <3>3. Others(h, h', {s})
      BY <1>1, <3>1, <3>2, CreateEffect
    <3>4. cur \in Blocks /\ ~Free(h, cur) =>
            h'.kind[cur] = h.kind[cur] /\ h'.lowPrio[cur] = h.lowPrio[cur] /\ (Live(h', cur) <=> Live(h, cur))
      BY <3>1, <3>3 DEF Others
    <3>. QED BY <1>1, <3>1, <3>4, CurKept
  <2>2. ASSUME NEW s \in Blocks, NEW c \in Contexts, NEW n \in Blocks, AppAdopt(s, c, n)
        PROVE  CurOK'
    <3>1. /\ ~InLibrary /\ UNCHANGED <<at, readable, sweeping>> /\ Established(s)
          /\ n = s \/ Free(h, n)
          /\ h' = Adopt(h, s, c, n)
          /\ cur' = IF cur = s /\ at \in {"writable", "more"} THEN n ELSE cur
      BY <2>2, MayOutside DEF AppAdopt, sweepVars
    <3>2. Live(h, s) /\ h.kind[s] \in {"socket", "shut_down"} /\ ~Free(h, s)
      BY <3>1 DEF Established, Live
    <3>3. /\ Others(h, h', {s, n}) /\ h'.kind[n] = h.kind[s] /\ h'.lowPrio[n] = h.lowPrio[s]
          /\ n # s => Free(h', s)
      <4>1. Good(h) /\ (n = s \/ Free(h, n))
        BY <1>1, <3>1
      <4> DEFINE u == Adopt(h, s, c, n)
      <4>2. Others(h, u, {s, n})
        BY ONLY <3>2, <4>1, AdoptEffect, s \in Blocks, n \in Blocks, c \in Contexts
      <4>3. u.kind[n] = h.kind[s] /\ u.lowPrio[n] = h.lowPrio[s]
        BY ONLY <3>2, <4>1, <4>2, AdoptEffect, s \in Blocks, n \in Blocks, c \in Contexts
      <4>4. n # s => Free(u, s)
        BY ONLY <3>2, <4>1, <4>2, AdoptEffect, s \in Blocks, n \in Blocks, c \in Contexts
      <4>. QED BY <3>1, <4>2, <4>3, <4>4
    <3>4. CASE at \in {"writable", "more"} \/ n = s \/ cur # s
      <4>1. cur \in Blocks /\ ~Free(h, cur) =>
              /\ h'.kind[cur'] = h.kind[cur] /\ h'.lowPrio[cur'] = h.lowPrio[cur]
              /\ Live(h', cur') => Live(h, cur)
        <5>1. CASE cur = s
          <6>1. cur' = n
            BY <3>1, <3>4, <5>1
          <6>. QED BY <3>2, <3>3, <5>1, <6>1
        <5>2. CASE cur # s
          <6>1. cur' = cur
            BY <3>1, <5>2
          <6>2. ~Free(h, cur) => cur # n
            BY <3>1, <5>2
          <6>. QED BY <3>3, <5>2, <6>1, <6>2 DEF Others
        <5>. QED BY <5>1, <5>2
      <4>2. cur \in Blocks => cur' \in Blocks
        BY <3>1
      <4>. QED BY <1>1, <3>1, <4>1, <4>2, CurKept
    <3>5. CASE at \notin {"writable", "more"} /\ cur = s
      <4>1. at \notin {"connect_error", "accept", "pre_opened", "accepted"}
        BY <1>1, <3>2, <3>5 DEF CurOK
      <4>2. at \notin {"prio", "recv", "seek"}
        BY <1>1, <3>1 DEF CurOK
      <4>. QED BY <1>1, <3>1, <3>5, <4>1, <4>2 DEF CurOK
    <3>. QED BY <3>4, <3>5
  <2>3. ASSUME NEW s \in Blocks, AppClose(s) \/ AppCloseSemi(s)
        PROVE  CurOK'
    <3>1. ~InLibrary /\ UNCHANGED <<at, cur, readable, sweeping>> /\ Live(h, s)
      BY <2>3, MayOutside DEF AppClose, AppCloseSemi, LoopHandlers, position, sweepVars, Established
    <3>2. h' = Close(h, s)
      BY <1>1, <2>3, SemiIsClose DEF AppClose, AppCloseSemi, CloseSocket, CloseSemiSocket
    <3>3. Others(h, h', {s}) /\ h'.kind = h.kind /\ ~Live(h', s)
      BY <1>1, <3>1, <3>2, CloseEffect
    <3>4. cur \in Blocks /\ Live(h', cur) => Live(h, cur) /\ h'.lowPrio[cur] = h.lowPrio[cur]
      BY <3>3 DEF Others
    <3>. QED BY <1>1, <3>1, <3>3, <3>4, CurKept
  <2>4. ASSUME NEW s \in Blocks, AppShutdown(s)
        PROVE  CurOK'
    <3>1. /\ ~InLibrary /\ UNCHANGED <<at, cur, readable, sweeping>>
          /\ h.kind[s] = "socket" /\ h' = [h EXCEPT !.kind[s] = "shut_down"]
      BY <2>4, MayOutside DEF AppShutdown, LoopHandlers, position, sweepVars
    <3>2. h'.kind = [h.kind EXCEPT ![s] = "shut_down"] /\ h'.prev = h.prev /\ h'.context = h.context
          /\ h'.lowPrio = h.lowPrio
      BY <1>1, <3>1 DEF Memory
    <3>3. cur \in Blocks =>
            /\ h'.kind[cur] = h.kind[cur] \/ {h'.kind[cur], h.kind[cur]} \subseteq {"socket", "shut_down"}
            /\ Live(h', cur) => Live(h, cur) /\ h'.lowPrio[cur] = h.lowPrio[cur]
      BY <1>1, <3>1, <3>2 DEF Live, Free, Memory
    <3>. QED BY <1>1, <3>1, <3>3, CurKept
  <2>5. CASE UNCHANGED <<h, at, cur, readable, sweeping>> /\ ~InLibrary
    BY <1>1, <2>5, CurKept
  <2>6. ASSUME NEW s \in Blocks, AppWrite(s) \/ AppWrite2(s)
        PROVE  UNCHANGED <<h, at, cur, readable, sweeping>> /\ ~InLibrary
    BY <2>6, MayOutside DEF AppWrite, AppWrite2, LoopHandlers, position, sweepVars
  <2>7. ASSUME NEW s \in Blocks, NEW timer \in {"off", "later"},
               AppTimeout(s, timer) \/ AppLongTimeout(s, timer)
        PROVE  UNCHANGED <<h, at, cur, readable, sweeping>> /\ ~InLibrary
    BY <2>7, MayOutside DEF AppTimeout, AppLongTimeout, LoopHandlers, position, sweepVars
  <2>8. ASSUME NEW c \in Contexts, AppContextClose(c)
        PROVE  UNCHANGED <<h, at, cur, readable, sweeping>> /\ ~InLibrary
    BY <2>8, MayOutside DEF AppContextClose, position, sweepVars
  <2>. QED BY <1>6, <2>1, <2>2, <2>3, <2>4, <2>5, <2>6, <2>7, <2>8 DEF AppCall
<1>7. CASE Return
  <2>1. UNCHANGED <<h, at, cur, readable, sweeping>> /\ ~InLibrary
    BY <1>7 DEF Return, InApp, InLibrary, position, sweepVars
  <2>. QED BY <1>1, <2>1, CurKept
<1>. QED BY <1>2, <1>3, <1>4, <1>5, <1>6, <1>7 DEF Next, Library

------------------------------------------------------------------------------

(* A context close walks its own lists. *)

(* A step of us_socket_context_close closes the socket it stands on, if it    *)
(* closes any.                                                                *)
LEMMA ContextCloseCloses ==
  ASSUME LInv, ContextClose
  PROVE  /\ ~InLibrary /\ UNCHANGED <<at, cur, readable, sweeping>>
         /\ \/ UNCHANGED <<h, sock>>
            \/ /\ closing.s \in Blocks /\ Live(h, closing.s) /\ h' = Close(h, closing.s)
               /\ CloseSocket(closing.s) \/ CloseSemiSocket(closing.s)
<1>1. Good(h)
  BY DEF LInv, Sound
<1>2. closing.s # NULL => closing.s \in Blocks
  BY DEF LInv, TypeOK, Pointers
<1>3. ~InLibrary /\ UNCHANGED <<at, cur, readable, sweeping>>
  BY ClosingOutside DEF ContextClose, ContextCloseListen, ContextCloseSocket, ContextCloseDone,
     position, sweepVars
<1>4. CASE ContextCloseListen
  <2>1. closing.s # NULL => Live(h, closing.s) /\ ListOf(h, closing.s) = <<closing.c, "listen">>
                             /\ closing.c \in Contexts
    BY <1>4 DEF ContextCloseListen, LInv, ClosingOK
  <2>2. closing.s # NULL => h.kind[closing.s] = "listen"
    BY <2>1, PointerFacts DEF ListOf, ContextList
  <2>3. CASE closing.s = NULL
    BY <1>3, <1>4, <2>3 DEF ContextCloseListen
  <2>4. CASE closing.s # NULL
    BY <1>1, <1>2, <1>3, <1>4, <2>1, <2>2, <2>4, SemiIsClose DEF ContextCloseListen, CloseSemiSocket
  <2>. QED BY <2>3, <2>4
<1>5. CASE ContextCloseSocket
  <2>1. Live(h, closing.s) /\ closing.s \in Blocks
    BY <1>2, <1>5 DEF ContextCloseSocket, LInv, ClosingOK
  <2>2. ~Closed(h, closing.s)
    BY <2>1 DEF Live, Closed
  <2>. QED BY <1>3, <1>5, <2>1, <2>2 DEF ContextCloseSocket, CloseSocket
<1>6. CASE ContextCloseDone
  BY <1>3, <1>6 DEF ContextCloseDone
<1>. QED BY <1>4, <1>5, <1>6 DEF ContextClose

(* Nothing to say while no us_socket_context_close runs.                      *)
LEMMA ClosingIdle ==
  ASSUME closing = Idle, UNCHANGED closing
  PROVE  ClosingOK'
BY DEF ClosingOK, Idle

(* The walk of us_socket_context_close stands where it stood if its socket is *)
(* left alone.                                                                *)
LEMMA ClosingKept ==
  ASSUME LInv, UNCHANGED closing, NEW S, Others(h, h', S), closing.s \notin S
  PROVE  ClosingOK'
<1>1. ClosingOK /\ (closing.s # NULL => closing.s \in Blocks)
  BY DEF LInv, TypeOK, Pointers
<1>2. closing.s # NULL /\ Live(h, closing.s) =>
        Live(h', closing.s) /\ ListOf(h', closing.s) = ListOf(h, closing.s)
  BY <1>1, OthersSame
<1>. QED BY <1>1, <1>2 DEF ClosingOK

(* The socket the walk stands on survives every action.                       *)
LEMMA ClosingStep ==
  ASSUME LInv, Next, Supported
  PROVE  ClosingOK'
<1>1. /\ h \in Memory /\ Good(h) /\ ListsBut(h, NULL) /\ ClosingOK
      /\ closing.s # NULL => closing.s \in Blocks
  BY DEF LInv, TypeOK, Sound, Good, Pointers
<1>2. CASE RunLoop
  BY <1>2, ClosingIdle DEF RunLoop, LoopPre, LoopExit, HandleLowPrio, LowPrioHandled, EpollWait,
     DispatchUser, ReadyListDone, FreeClosed, LoopPost, InLibrary
<1>3. CASE Dispatch
  <2>1. InLibrary /\ UNCHANGED closing
    <3>1. ASSUME NEW s \in Blocks,
                 DispatchConnected(s) \/ DispatchConnectError(s) \/ DispatchListen(s) \/ AcceptSocket(s)
          PROVE  InLibrary /\ UNCHANGED closing
      BY <3>1 DEF DispatchConnected, DispatchConnectError, DispatchListen, AcceptSocket
    <3>2. ASSUME NEW s \in Blocks, DispatchError(s) \/ DispatchWritable(s) \/ DispatchReadable(s)
          PROVE  InLibrary /\ UNCHANGED closing
      BY <3>2 DEF DispatchError, DispatchWritable, DispatchReadable
    <3>3. CASE CloseFailedConnect \/ PreOpen \/ PreOpenExports \/ AcceptNext \/ AcceptDone \/ AfterWritable
      BY <3>3 DEF CloseFailedConnect, PreOpen, PreOpenExports, AcceptNext, AcceptDone, AfterWritable
    <3>4. CASE ReadNow \/ ReadResumed \/ ReadWithinBudget \/ ReadDeferred
      BY <3>4 DEF ReadNow, ReadResumed, ReadWithinBudget, ReadDeferred
    <3>5. CASE RecvData \/ RecvAgain \/ RecvDone \/ RecvEnd \/ RecvClose
      BY <3>5 DEF RecvData, RecvAgain, RecvDone, RecvEnd, RecvClose
    <3>. QED BY <1>3, <3>1, <3>2, <3>3, <3>4, <3>5 DEF Dispatch
  <2>. QED BY <2>1, ClosingIdle DEF InLibrary
<1>4. CASE Sweep
  <2>1. InLibrary /\ UNCHANGED closing
    BY <1>4 DEF Sweep, DispatchSweep, SweepContext, SeekNext, SeekFound, SweepLong, SweepAdvance,
       SweepContextDone, SweepDone
  <2>. QED BY <2>1, ClosingIdle DEF InLibrary
<1>5. CASE ContextClose
  <2>1. closing.at # "idle" /\ closing.c \in Contexts
    BY <1>1, <1>5 DEF ContextClose, ContextCloseListen, ContextCloseSocket, ContextCloseDone, ClosingOK
  <2>2. CASE closing.s # NULL
    <3>1. /\ closing.s \in Blocks /\ Live(h, closing.s) /\ ListOf(h, closing.s) = <<closing.c, closing.at>>
          /\ closing' = [closing EXCEPT !.s = h.next[closing.s]]
      BY <1>1, <1>5, <2>1, <2>2
         DEF ClosingOK, ContextClose, ContextCloseListen, ContextCloseSocket, ContextCloseDone
    <3>2. closing'.at = closing.at /\ closing'.c = closing.c /\ closing'.s = h.next[closing.s]
      BY <3>1 DEF LInv, TypeOK
    <3>3. h' = Close(h, closing.s) \/ UNCHANGED h
      BY <1>5, ContextCloseCloses
    <3>4. Others(h, h', {closing.s})
      BY <1>1, <3>1, <3>3, CloseEffect DEF Others
    <3>5. /\ h.next[closing.s] \in Pointers /\ h.next[closing.s] # closing.s
          /\ h.next[closing.s] # NULL =>
               Live(h, h.next[closing.s]) /\ ListOf(h, h.next[closing.s]) = ListOf(h, closing.s)
      BY <1>1, <3>1, Neighbours
    <3>6. closing'.s # NULL => Live(h', closing'.s) /\ ListOf(h', closing'.s) = ListOf(h, closing.s)
      <4>1. closing'.s # NULL => closing'.s \in Blocks \ {closing.s}
        BY <3>2, <3>5 DEF Pointers
      <4>2. \A b \in Blocks \ {closing.s} : (Live(h', b) <=> Live(h, b)) /\ ListOf(h', b) = ListOf(h, b)
        BY <3>4, OthersSame
      <4>. QED BY <3>2, <3>5, <4>1, <4>2
    <3>. QED BY <2>1, <3>1, <3>2, <3>6 DEF ClosingOK
  <2>3. CASE closing.s = NULL
    <3>1. CASE ContextCloseListen
      <4>1. /\ closing' = [closing EXCEPT !.at = "sockets", !.s = h.head[<<closing.c, "sockets">>]]
            /\ UNCHANGED h
        BY <2>3, <3>1 DEF ContextCloseListen
      <4>2. /\ closing'.at = "sockets" /\ closing'.c = closing.c
            /\ closing'.s = h.head[<<closing.c, "sockets">>]
        BY <4>1 DEF LInv, TypeOK
      <4>3. closing'.s # NULL => Live(h, closing'.s) /\ ListOf(h, closing'.s) = <<closing.c, "sockets">>
        BY <1>1, <2>1, <4>2, PointerFacts DEF ListsBut, HeadBut
      <4>. QED BY <2>1, <4>1, <4>2, <4>3 DEF ClosingOK, Live, Free, ListOf, ContextList
    <3>2. CASE ContextCloseDone
      BY <3>2 DEF ContextCloseDone, ClosingOK, Idle
    <3>. QED BY <1>5, <2>3, <3>1, <3>2 DEF ContextClose, ContextCloseSocket
  <2>. QED BY <2>2, <2>3
<1>6. CASE AppCall
  <2>1. ASSUME NEW s \in Blocks, NEW c \in Contexts, AppListen(s, c) \/ AppConnect(s, c)
        PROVE  ClosingOK'
    <3>1. UNCHANGED closing /\ Free(h, s)
      BY <2>1 DEF AppListen, AppConnect, LoopHandlers
    <3>2. PICK k \in UsedKinds : h' = Create(h, s, c, k)
      BY <2>1 DEF AppListen, AppConnect, Kinds, UsedKinds
    <3>3. Others(h, h', {s})
      BY <1>1, <3>1, <3>2, CreateEffect
    <3>4. CASE closing.s = s
      <4>1. closing.at = "idle"
        BY <1>1, <3>1, <3>4, PointerFacts DEF ClosingOK, Live
      <4>. QED BY <1>1, <3>1, <4>1, ClosingIdle DEF ClosingOK
    <3>5. CASE closing.s # s
      BY <3>1, <3>3, <3>5, ClosingKept
    <3>. QED BY <3>4, <3>5
  <2>2. ASSUME NEW s \in Blocks, AppShutdown(s)
        PROVE  ClosingOK'
    <3>1. UNCHANGED closing /\ h.kind[s] = "socket" /\ h' = [h EXCEPT !.kind[s] = "shut_down"]
      BY <2>2 DEF AppShutdown, LoopHandlers
    <3>2. \A b \in Blocks : (Live(h', b) <=> Live(h, b)) /\ ListOf(h', b) = ListOf(h, b)
      BY <1>1, <3>1 DEF Live, Free, ListOf, ContextList, Memory
    <3>. QED BY <1>1, <3>1, <3>2 DEF ClosingOK
  <2>3. CASE closing = Idle /\ UNCHANGED closing
    BY <2>3, ClosingIdle
  <2>4. ASSUME NEW s \in Blocks, NEW c \in Contexts, NEW n \in Blocks, AppAdopt(s, c, n)
        PROVE  closing = Idle /\ UNCHANGED closing
    BY <2>4 DEF AppAdopt, MayRelink, Supported
  <2>5. ASSUME NEW s \in Blocks, AppClose(s) \/ AppCloseSemi(s)
        PROVE  closing = Idle /\ UNCHANGED closing
    BY <2>5 DEF AppClose, AppCloseSemi, LoopHandlers, MayRelink, Supported
  <2>6. CASE UNCHANGED <<h, closing>>
    BY <1>1, <2>6 DEF ClosingOK, Live, Free, ListOf, ContextList
  <2>7. ASSUME NEW s \in Blocks, AppWrite(s) \/ AppWrite2(s)
        PROVE  UNCHANGED <<h, closing>>
    BY <2>7 DEF AppWrite, AppWrite2, LoopHandlers
  <2>8. ASSUME NEW s \in Blocks, NEW timer \in {"off", "later"},
               AppTimeout(s, timer) \/ AppLongTimeout(s, timer)
        PROVE  UNCHANGED <<h, closing>>
    BY <2>8 DEF AppTimeout, AppLongTimeout, LoopHandlers
  <2>9. ASSUME NEW c \in Contexts, AppContextClose(c)
        PROVE  ClosingOK'
    <3>1. /\ UNCHANGED h /\ closing'.at = "listen" /\ closing'.c = c
          /\ closing'.s = h.head[<<c, "listen">>]
      BY <2>9 DEF AppContextClose
    <3>2. closing'.s # NULL => Live(h, closing'.s) /\ ListOf(h, closing'.s) = <<c, "listen">>
      BY <1>1, <3>1, PointerFacts DEF ListsBut, HeadBut
    <3>. QED BY <3>1, <3>2 DEF ClosingOK, Live, Free, ListOf, ContextList
  <2>. QED BY <1>6, <2>1, <2>2, <2>3, <2>4, <2>5, <2>6, <2>7, <2>8, <2>9 DEF AppCall
<1>7. CASE Return
  BY <1>1, <1>7 DEF Return, ClosingOK, Live, Free, ListOf, ContextList
<1>. QED BY <1>2, <1>3, <1>4, <1>5, <1>6, <1>7 DEF Next, Library

------------------------------------------------------------------------------

(* Polls and the interest they keep. *)

(* PollsOK, of one block.                                                     *)
PollOK(b) ==
  /\ sock[b].reported # {} => Live(h, b)
  /\ Established(b) /\ ~Queued(h, b) /\ ~sock[b].ended => "R" \in sock[b].events
  /\ Established(b) /\ Queued(h, b) => "R" \notin sock[b].events

(* PollsOK speaks of each poll alone.                                         *)
LEMMA PollByPoll == PollsOK <=> \A b \in Blocks : PollOK(b)
BY DEF PollsOK, PollOK, ReadableArmed

(* A block whose poll asks for readable as it did, and that stays in its       *)
(* list, is right.                                                            *)
LEMMA PollsKept ==
  ASSUME LInv, NEW S, Others(h, h', S),
         \A b \in Blocks \ S :
           /\ sock'[b].reported = sock[b].reported \/ sock'[b].reported = {}
           /\ sock'[b].ended = sock[b].ended
           /\ "R" \in sock'[b].events <=> "R" \in sock[b].events,
         \A b \in S \cap Blocks : PollOK(b)'
  PROVE  PollsOK'
<1>1. ASSUME NEW b \in Blocks \ S PROVE PollOK(b)'
  <2>1. h'.kind[b] = h.kind[b] /\ (Live(h', b) <=> Live(h, b)) /\ (Queued(h', b) <=> Queued(h, b))
    BY OthersSame
  <2>2. Established(b)' <=> Established(b)
    BY <2>1 DEF Established
  <2>3. PollOK(b)
    BY PollByPoll DEF LInv
  <2>. QED BY <2>1, <2>2, <2>3 DEF PollOK
<1>2. \A b \in Blocks : PollOK(b)'
  BY <1>1
<1>. QED BY <1>2, PollByPoll DEF PollsOK, PollOK, ReadableArmed

(* A step on one socket: the polls of the others stay right.                  *)
LEMMA PollsBut ==
  ASSUME LInv, NEW s \in Blocks, Others(h, h', {s}),
         \A b \in Blocks \ {s} : sock'[b] = sock[b],
         PollOK(s)'
  PROVE  PollsOK'
<1>1. \A b \in {s} \cap Blocks : PollOK(b)'
  OBVIOUS
<1>. QED BY <1>1, PollsKept

(* Setting the iterator of a context touches no block.                        *)
LEMMA IteratorOthers ==
  ASSUME h \in Memory, NEW c \in Contexts, NEW p, h' = [h EXCEPT !.iterator[c] = p]
  PROVE  Others(h, h', {}) /\ h'.kind = h.kind /\ h'.next = h.next /\ h'.prev = h.prev
         /\ h'.context = h.context /\ h'.lowPrio = h.lowPrio
         /\ h'.iterator = [h.iterator EXCEPT ![c] = p]
<1>1. /\ h'.kind = h.kind /\ h'.next = h.next /\ h'.prev = h.prev
      /\ h'.context = h.context /\ h'.lowPrio = h.lowPrio
      /\ h'.iterator = [h.iterator EXCEPT ![c] = p]
  BY DEF Memory
<1>. QED BY <1>1 DEF Others, Live, Free

(* A step that leaves the lists, the FINs and the readable interests alone.   *)
LEMMA PollsSame ==
  ASSUME LInv, UNCHANGED h,
         \A b \in Blocks :
           /\ sock'[b].reported = sock[b].reported \/ sock'[b].reported = {}
           /\ sock'[b].ended = sock[b].ended
           /\ "R" \in sock'[b].events <=> "R" \in sock[b].events
  PROVE  PollsOK'
<1>1. Others(h, h', {})
  BY DEF Others
<1>. QED BY <1>1, PollsKept

(* A closed socket polls for nothing.                                         *)
LEMMA ClosePolls ==
  ASSUME LInv, NEW s \in Blocks, Live(h, s), h' = Close(h, s), CloseSocket(s) \/ CloseSemiSocket(s)
  PROVE  PollsOK'
<1>1. Good(h) /\ sock \in [Blocks -> Socket] /\ SockTyped
  BY DEF LInv, TypeOK, Sound, SockTyped
<1>2. Others(h, h', {s}) /\ ~Live(h', s)
  BY <1>1, CloseEffect
<1>3. sock[s] \in Socket
  BY <1>1
<1>4. Stopped(s).reported = {} /\ [Stopped(s) EXCEPT !.closes = Told(@)].reported = {}
  <2>1. Stopped(s) \in Socket /\ Stopped(s).reported = {}
    BY <1>3, SocketFields, FieldFacts DEF Stopped
  <2> DEFINE x == Stopped(s)
  <2>2. x \in Socket /\ x.reported = {}
    BY <2>1
  <2> HIDE DEF x
  <2>3. [x EXCEPT !.closes = Told(@)].reported = {}
    BY <2>2, SocketFields
  <2>. QED BY <2>1, <2>3 DEF x
<1>5. sock' = [sock EXCEPT ![s] = Stopped(s)] \/ sock' = [sock EXCEPT ![s] = [Stopped(s) EXCEPT !.closes = Told(@)]]
  BY DEF CloseSocket, CloseSemiSocket
<1>6. sock'[s].reported = {} /\ \A b \in Blocks \ {s} : sock'[b] = sock[b]
  BY <1>1, <1>4, <1>5
<1>7. PollOK(s)'
  BY <1>2, <1>6 DEF PollOK, Established
<1>. QED BY <1>2, <1>6, <1>7, PollsKept

(* A new socket is live and of its kind.                                      *)
LEMMA CreateKind ==
  ASSUME NEW m, Good(m), NEW s \in Blocks, Free(m, s), NEW c \in Contexts, NEW k \in UsedKinds
  PROVE  /\ Others(m, Create(m, s, c, k), {s}) /\ Live(Create(m, s, c, k), s)
         /\ Create(m, s, c, k).kind[s] = k /\ Create(m, s, c, k).lowPrio[s] = 0
         /\ \A b \in Blocks \ {s} : Create(m, s, c, k).next[b] = m.next[b]
<1> DEFINE u == Create(m, s, c, k)
<1>1. Others(m, u, {s}) /\ Live(u, s)
  BY CreateEffect
<1>2. u.kind[s] = k
  BY <1>1, CreateEffect
<1>3. u.lowPrio[s] = 0
  BY <1>1, CreateEffect
<1>5. \A b \in Blocks \ {s} : u.next[b] = m.next[b]
  BY <1>1, CreateEffect
<1>. QED BY <1>1, <1>2, <1>3, <1>5

(* What an adoption leaves in the block that takes the socket over.           *)
LEMMA AdoptKind ==
  ASSUME NEW m, Good(m), NEW s \in Blocks, Live(m, s), m.kind[s] \in {"socket", "shut_down"},
         NEW c \in Contexts, NEW n \in Blocks, n = s \/ Free(m, n)
  PROVE  /\ Others(m, Adopt(m, s, c, n), {s, n}) /\ Live(Adopt(m, s, c, n), n)
         /\ Adopt(m, s, c, n).kind[n] = m.kind[s] /\ Adopt(m, s, c, n).lowPrio[n] = m.lowPrio[s]
         /\ n # s => Free(Adopt(m, s, c, n), s)
         /\ Skips(m, Adopt(m, s, c, n), s)
<1> DEFINE u == Adopt(m, s, c, n)
<1>1. Others(m, u, {s, n})
  BY AdoptEffect
<1>2. Live(u, n)
  BY <1>1, AdoptEffect
<1>3. u.kind[n] = m.kind[s]
  BY <1>1, <1>2, AdoptEffect
<1>4. u.lowPrio[n] = m.lowPrio[s]
  BY <1>1, <1>2, AdoptEffect
<1>5. n # s => Free(u, s)
  BY <1>1, <1>2, AdoptEffect
<1>6. Skips(m, u, s)
  BY <1>1, <1>2, AdoptEffect
<1>. QED BY <1>1, <1>2, <1>3, <1>4, <1>5, <1>6

(* A new socket polls for readable.                                           *)
LEMMA CreatePolls ==
  ASSUME LInv, NEW s \in Blocks, Free(h, s), NEW c \in Contexts, NEW k \in UsedKinds,
         h' = Create(h, s, c, k),
         \A b \in Blocks \ {s} : sock'[b] = sock[b],
         sock'[s].reported = {}, k \in {"socket", "shut_down"} => "R" \in sock'[s].events
  PROVE  PollsOK'
<1>1. Good(h)
  BY DEF LInv, Sound
<1>2. Others(h, h', {s})
  BY <1>1, CreateEffect
<1>3. Live(h', s) /\ h'.kind[s] = k /\ h'.lowPrio[s] = 0
  <2> DEFINE u == Create(h, s, c, k)
  <2>1. Others(h, u, {s}) /\ Live(u, s)
    BY <1>1, CreateKind
  <2>2. u.kind[s] = k
    BY <1>1, <2>1, CreateKind
  <2>3. u.lowPrio[s] = 0
    BY <1>1, <2>1, CreateKind
  <2>. QED BY <2>1, <2>2, <2>3
<1>4. PollOK(s)'
  BY <1>3 DEF PollOK, Established, Queued
<1>. QED BY <1>2, <1>4, PollsKept

------------------------------------------------------------------------------

(* Polls through every action. *)

(* What a new socket polls for, and that nothing is reported for it.          *)
LEMMA NewFields ==
  ASSUME NEW c \in Contexts, NEW e \in EventSets, NEW n \in Counts
  PROVE  /\ [New(c) EXCEPT !.events = e].reported = {}
         /\ [New(c) EXCEPT !.events = e].events = e
         /\ [New(c) EXCEPT !.events = e, !.opens = n].reported = {}
         /\ [New(c) EXCEPT !.events = e, !.opens = n].events = e
<1>1. New(c) = [events |-> {}, reported |-> {}, short |-> "off", long |-> "off",
          opens |-> 0, closes |-> 0, ended |-> FALSE, owed |-> FALSE, home |-> c]
  BY NewTyped
<1>. QED BY ONLY <1>1

(* What is reported and polled for stays right.                               *)
LEMMA PollsStep ==
  ASSUME LInv, Next, Supported
  PROVE  PollsOK'
<1>1. /\ sock \in [Blocks -> Socket] /\ h \in Memory /\ Good(h) /\ ListsBut(h, NULL) /\ CurOK
      /\ PollsOK
  BY DEF LInv, TypeOK, Sound, Good
<1>2. \A b \in Blocks : PollOK(b)
  BY <1>1, PollByPoll
<1>3. \A b \in Blocks : sock[b] \in Socket
  BY <1>1
<1>4. CASE RunLoop
  <2>1. CASE HandleLowPrio
    <3>a. h.head[LowPrio] # NULL
      BY <2>1 DEF HandleLowPrio
    <3>b. h.head[LowPrio] \in Blocks
      BY <1>1, <3>a, QueueHead
    <3>c. PICK s \in Blocks : s = h.head[LowPrio]
      BY <3>b
    <3>1. s # NULL /\ h' = Resume(h) /\ sock' = [sock EXCEPT ![s].events = @ \cup {"R"}]
      BY <2>1, <3>c DEF HandleLowPrio
    <3>3. Others(h, h', {s})
      BY <1>1, <3>a, <3>c, <3>1, ResumeEffect
    <3>4. Live(h', s)
      BY <1>1, <3>a, <3>c, <3>1, <3>3, ResumeEffect
    <3>5. h'.lowPrio[s] = 2
      BY <1>1, <3>a, <3>c, <3>1, <3>3, <3>4, ResumeEffect
    <3>6. "R" \in sock'[s].events /\ \A b \in Blocks \ {s} : sock'[b] = sock[b]
      BY <1>1, <1>3, <3>1, SocketFields
    <3>7. PollOK(s)'
      BY <3>4, <3>5, <3>6 DEF PollOK, Queued
    <3>. QED BY <3>3, <3>6, <3>7, PollsBut
  <2>2. CASE FreeClosed
    <3>a. h.closed # NULL
      BY <2>2 DEF FreeClosed
    <3>b. h.closed \in Blocks
      BY <1>1, <3>a, FreeEffect
    <3>c. PICK s \in Blocks : s = h.closed
      BY <3>b
    <3>1. h' = FreeHead(h) /\ sock' = [sock EXCEPT ![s] = Blank]
      BY <2>2, <3>c DEF FreeClosed
    <3>3. Others(h, h', {s})
      BY <1>1, <3>a, <3>1, <3>c, FreeEffect
    <3>4. Free(h', s)
      BY <1>1, <3>a, <3>1, <3>c, <3>3, FreeEffect
    <3>5. sock'[s].reported = {} /\ \A b \in Blocks \ {s} : sock'[b] = sock[b]
      BY <1>1, <3>1 DEF Blank
    <3>6. PollOK(s)'
      BY <3>4, <3>5 DEF PollOK, Established, Live
    <3>. QED BY <3>3, <3>5, <3>6, PollsBut
  <2>3. CASE EpollWait
    <3>1. UNCHANGED h
      BY <2>3 DEF EpollWait
    <3>2. \A b \in Blocks : /\ sock'[b].ended = sock[b].ended /\ sock'[b].events = sock[b].events
                            /\ sock'[b].reported # {} => Live(h, b)
      BY <1>1, <1>3, <2>3, SocketFields DEF EpollWait
    <3>3. \A b \in Blocks : PollOK(b)'
      BY <1>2, <3>1, <3>2 DEF PollOK, Established, Live, Free, Queued
    <3>. QED BY <3>3, PollByPoll DEF PollsOK, PollOK, ReadableArmed
  <2>4. CASE ReadyListDone
    <3>1. UNCHANGED h
      BY <2>4 DEF ReadyListDone
    <3>2. \A b \in Blocks : /\ sock'[b].ended = sock[b].ended /\ sock'[b].events = sock[b].events
                            /\ sock'[b].reported = {}
      BY <1>1, <1>3, <2>4, SocketFields DEF ReadyListDone
    <3>. QED BY <3>1, <3>2, PollsSame
  <2>5. CASE LoopPre \/ LoopExit \/ LowPrioHandled \/ DispatchUser \/ LoopPost
    BY <2>5, PollsSame DEF LoopPre, LoopExit, LowPrioHandled, DispatchUser, LoopPost
  <2>. QED BY <1>4, <2>1, <2>2, <2>3, <2>4, <2>5 DEF RunLoop
<1>5. CASE Dispatch
  <2>1. ASSUME NEW s \in Blocks, DispatchConnected(s) PROVE PollsOK'
    <3>1. /\ Live(h, s) /\ h.kind[s] = "connecting" /\ h' = [h EXCEPT !.kind[s] = "socket"]
          /\ sock' = [sock EXCEPT ![s].events = {"R"}, ![s].reported = {},
                                  ![s].short = "off", ![s].opens = Told(@)]
      BY <2>1 DEF DispatchConnected
    <3>2. h.lowPrio[s] = 0
      BY <1>1, <3>1, PointerFacts DEF ListsBut, KindBut
    <3>3. Others(h, h', {s}) /\ h'.lowPrio = h.lowPrio
      BY <1>1, <3>1 DEF Others, Live, Free, Memory
    <3>4. /\ sock'[s].events = {"R"} /\ sock'[s].reported = {}
          /\ \A b \in Blocks \ {s} : sock'[b] = sock[b]
      BY <1>1, <1>3, <3>1, SocketFields
    <3>5. PollOK(s)'
      BY <3>2, <3>3, <3>4 DEF PollOK, Queued
    <3>. QED BY <3>3, <3>4, <3>5, PollsBut
  <2>2. CASE CloseFailedConnect
    <3>1. cur \in Blocks /\ h.kind[cur] = "connecting"
      BY <1>1, <2>2 DEF CloseFailedConnect, CurOK
    <3>2. CASE Closed(h, cur)
      BY <2>2, <3>2, PollsSame DEF CloseFailedConnect
    <3>3. CASE ~Closed(h, cur)
      <4>1. CloseSemiSocket(cur) /\ Live(h, cur)
        BY <2>2, <3>1, <3>3 DEF CloseFailedConnect, Live, Closed, Free
      <4>2. h' = Close(h, cur)
        BY <1>1, <3>1, <4>1, SemiIsClose DEF CloseSemiSocket
      <4>. QED BY <3>1, <4>1, <4>2, ClosePolls
    <3>. QED BY <3>2, <3>3
  <2>3. ASSUME NEW s \in Blocks, AcceptSocket(s) PROVE PollsOK'
    <3>1. cur \in Blocks /\ h.kind[cur] = "listen" /\ Free(h, s)
      BY <1>1, <2>3 DEF AcceptSocket, CurOK
    <3>2. h.context[cur] \in Contexts
      BY <1>1, <3>1, LiveByPrev DEF Free
    <3>3. h' = Create(h, s, h.context[cur], "socket") /\ "socket" \in UsedKinds
      BY <2>3 DEF AcceptSocket, Kinds, UsedKinds
    <3>4. sock' = [sock EXCEPT ![s] = [New(h.context[cur]) EXCEPT !.events = {"R"}, !.opens = 1]]
      BY <2>3 DEF AcceptSocket
    <3>5. sock'[s].reported = {} /\ sock'[s].events = {"R"} /\ \A b \in Blocks \ {s} : sock'[b] = sock[b]
      BY <1>1, <3>2, <3>4, NewFields, FieldFacts
    <3>. QED BY <3>1, <3>2, <3>3, <3>5, CreatePolls
  <2>4. ASSUME NEW s \in Blocks, DispatchError(s) PROVE PollsOK'
    BY <2>4, ClosePolls DEF DispatchError, CloseSocket, Established
  <2>5. CASE RecvClose
    BY <1>1, <2>5, ClosePolls DEF RecvClose, CloseSocket, Established, CurOK
  <2>6. ASSUME NEW s \in Blocks, DispatchConnectError(s) \/ DispatchListen(s) \/ DispatchReadable(s)
        PROVE  PollsOK'
    <3>1. UNCHANGED h /\ sock' = [sock EXCEPT ![s].reported = {}]
      BY <2>6 DEF DispatchConnectError, DispatchListen, DispatchReadable
    <3>2. \A b \in Blocks :
            /\ sock'[b].reported = sock[b].reported \/ sock'[b].reported = {}
            /\ sock'[b].ended = sock[b].ended /\ sock'[b].events = sock[b].events
      BY <1>1, <1>3, <3>1, SocketFields
    <3>. QED BY <3>1, <3>2, PollsSame
  <2>7. ASSUME NEW s \in Blocks, DispatchWritable(s) PROVE PollsOK'
    <3>1. UNCHANGED h /\ sock' = [sock EXCEPT ![s].reported = {}, ![s].owed = FALSE]
      BY <2>7 DEF DispatchWritable
    <3>2. \A b \in Blocks :
            /\ sock'[b].reported = sock[b].reported \/ sock'[b].reported = {}
            /\ sock'[b].ended = sock[b].ended /\ sock'[b].events = sock[b].events
      BY <1>1, <1>3, <3>1, SocketFields
    <3>. QED BY <3>1, <3>2, PollsSame
  <2>8. CASE AfterWritable
    <3>1. cur \in Blocks /\ UNCHANGED h
      BY <1>1, <2>8 DEF AfterWritable, CurOK
    <3>2. UNCHANGED sock \/ sock' = [sock EXCEPT ![cur].events = @ \cap {"R"}]
      BY <2>8 DEF AfterWritable
    <3>3. \A b \in Blocks :
            /\ sock'[b].reported = sock[b].reported
            /\ sock'[b].ended = sock[b].ended
            /\ "R" \in sock'[b].events <=> "R" \in sock[b].events
      BY <1>1, <1>3, <3>1, <3>2, SocketFields
    <3>. QED BY <3>1, <3>3, PollsSame
  <2>9. CASE ReadDeferred
    <3>0. PICK s \in Blocks : s = cur
      BY <1>1, <2>9 DEF ReadDeferred, CurOK
    <3>1. /\ Established(s) /\ ~Queued(h, s)
          /\ h' = Defer(h, s) /\ sock' = [sock EXCEPT ![s].events = @ \cap {"W"}]
      BY <1>1, <2>9, <3>0 DEF ReadDeferred, CurOK
    <3>2. Live(h, s) /\ h.lowPrio[s] # 1 /\ h.kind[s] \in {"socket", "shut_down"}
      BY <3>1 DEF Established, Queued
    <3>3. Others(h, h', {s})
      BY <1>1, <3>1, <3>2, DeferEffect
    <3>4. Live(h', s)
      BY <1>1, <3>1, <3>2, <3>3, DeferEffect
    <3>5. h'.lowPrio[s] = 1
      BY <1>1, <3>1, <3>2, <3>3, <3>4, DeferEffect
    <3>6. "R" \notin sock'[s].events /\ \A b \in Blocks \ {s} : sock'[b] = sock[b]
      BY <1>1, <1>3, <3>1, SocketFields
    <3>7. PollOK(s)'
      BY <3>4, <3>5, <3>6 DEF PollOK, Queued
    <3>. QED BY <3>3, <3>6, <3>7, PollsBut
  <2>10. CASE RecvEnd
    <3>0. PICK s \in Blocks : s = cur
      BY <1>1, <2>10 DEF RecvEnd, CurOK
    <3>1. /\ UNCHANGED h
          /\ sock' = [sock EXCEPT ![s].events = @ \cap {"W"}, ![s].ended = TRUE]
      BY <1>1, <2>10, <3>0 DEF RecvEnd, CurOK
    <3>2. /\ sock'[s].events = sock[s].events \cap {"W"} /\ sock'[s].ended = TRUE
          /\ sock'[s].reported = sock[s].reported
          /\ \A b \in Blocks \ {s} : sock'[b] = sock[b]
      BY <1>1, <1>3, <3>1, SocketFields
    <3>3. PollOK(s)'
      BY <1>2, <3>1, <3>2 DEF PollOK, Queued, Established, Live, Free
    <3>4. Others(h, h', {s})
      BY <3>1 DEF Others
    <3>. QED BY <3>2, <3>3, <3>4, PollsBut
  <2>11. CASE PreOpen \/ PreOpenExports \/ AcceptNext \/ AcceptDone
    BY <2>11, PollsSame DEF PreOpen, PreOpenExports, AcceptNext, AcceptDone
  <2>12. CASE ReadNow \/ ReadWithinBudget \/ RecvData \/ RecvAgain \/ RecvDone
    BY <2>12, PollsSame DEF ReadNow, ReadWithinBudget, RecvData, RecvAgain, RecvDone
  <2>13. CASE ReadResumed
    <3>0. PICK s \in Blocks : s = cur
      BY <1>1, <2>13 DEF ReadResumed, CurOK
    <3>1. h.lowPrio[s] = 2 /\ h' = [h EXCEPT !.lowPrio[s] = 0] /\ UNCHANGED sock
      BY <1>1, <2>13, <3>0 DEF ReadResumed, CurOK
    <3>2. Others(h, h', {s}) /\ h'.kind = h.kind /\ h'.lowPrio[s] = 0 /\ (Live(h', s) <=> Live(h, s))
      BY <1>1, <3>1 DEF Others, Live, Free, Memory
    <3>3. PollOK(s)'
      BY <1>2, <3>1, <3>2 DEF PollOK, Queued, Established
    <3>. QED BY <3>1, <3>2, <3>3, PollsBut
  <2>. QED BY <1>5, <2>1, <2>2, <2>3, <2>4, <2>5, <2>6, <2>7, <2>8, <2>9, <2>10, <2>11, <2>12, <2>13
           DEF Dispatch
<1>6. CASE Sweep
  <2>1. CASE SeekFound
    <3>1. /\ cur \in Blocks /\ sweeping \in Contexts /\ h' = [h EXCEPT !.iterator[sweeping] = cur]
          /\ UNCHANGED sock \/ sock' = [sock EXCEPT ![cur].short = "off"]
      BY <1>1, <2>1 DEF SeekFound, CurOK
    <3>2. Others(h, h', {})
      BY <1>1, <3>1, IteratorOthers
    <3>3. \A b \in Blocks : /\ sock'[b].reported = sock[b].reported /\ sock'[b].ended = sock[b].ended
                            /\ sock'[b].events = sock[b].events
      BY <1>1, <1>3, <3>1, SocketFields
    <3>. QED BY <3>2, <3>3, PollsKept
  <2>2. CASE SweepLong
    <3>1. /\ cur \in Blocks /\ UNCHANGED h
          /\ UNCHANGED sock \/ sock' = [sock EXCEPT ![cur].long = "off"]
      BY <1>1, <2>2 DEF SweepLong, CurOK
    <3>2. \A b \in Blocks : /\ sock'[b].reported = sock[b].reported /\ sock'[b].ended = sock[b].ended
                            /\ sock'[b].events = sock[b].events
      BY <1>1, <1>3, <3>1, SocketFields
    <3>. QED BY <3>1, <3>2, PollsSame
  <2>3. CASE SweepContextDone
    <3>1. /\ h' = [h EXCEPT !.iterator[sweeping] = NULL] /\ sweeping \in Contexts
          /\ sock' = [b \in Blocks |->
               IF h.context[b] # sweeping THEN sock[b]
               ELSE [sock[b] EXCEPT !.short = IF @ = "due" THEN "later" ELSE @,
                                    !.long  = IF @ = "due" THEN "later" ELSE @]]
      BY <1>1, <2>3 DEF SweepContextDone, CurOK
    <3>2. Others(h, h', {})
      BY <1>1, <3>1, IteratorOthers
    <3>3. \A b \in Blocks : /\ sock'[b].reported = sock[b].reported /\ sock'[b].ended = sock[b].ended
                            /\ sock'[b].events = sock[b].events
      BY <1>1, <1>3, <3>1, SocketFields
    <3>. QED BY <3>2, <3>3, PollsKept
  <2>4. ASSUME NEW c \in Contexts, SweepContext(c) PROVE PollsOK'
    <3>1. PICK shorts \in SUBSET {b \in Blocks : h.context[b] = c /\ sock[b].short = "later"},
               longs \in SUBSET {b \in Blocks : h.context[b] = c /\ sock[b].long = "later"} :
            sock' = [b \in Blocks |->
              [sock[b] EXCEPT !.short = IF b \in shorts THEN "due" ELSE @,
                              !.long  = IF b \in longs THEN "due" ELSE @]]
      BY ONLY <2>4, Zenon DEF SweepContext
    <3>2. \A b \in Blocks : /\ sock'[b].reported = sock[b].reported /\ sock'[b].ended = sock[b].ended
                            /\ sock'[b].events = sock[b].events
      BY <1>1, <1>3, <3>1, SocketFields
    <3>3. UNCHANGED h
      BY <2>4 DEF SweepContext
    <3>. QED BY <3>2, <3>3, PollsSame
  <2>5. CASE DispatchSweep \/ SeekNext \/ SweepAdvance \/ SweepDone
    BY <2>5, PollsSame DEF DispatchSweep, SeekNext, SweepAdvance, SweepDone
  <2>. QED BY <1>6, <2>1, <2>2, <2>3, <2>4, <2>5 DEF Sweep
<1>7. CASE ContextClose
  BY <1>7, ContextCloseCloses, ClosePolls, PollsSame
<1>8. CASE AppCall
  <2>1. ASSUME NEW s \in Blocks, NEW c \in Contexts, AppListen(s, c) \/ AppConnect(s, c)
        PROVE  PollsOK'
    <3>1. Free(h, s)
      BY <2>1 DEF AppListen, AppConnect
    <3>2. PICK k \in {"listen", "connecting"}, e \in EventSets :
            h' = Create(h, s, c, k) /\ sock' = [sock EXCEPT ![s] = [New(c) EXCEPT !.events = e]]
      BY <2>1, FieldFacts DEF AppListen, AppConnect
    <3>3. k \in UsedKinds /\ k \notin {"socket", "shut_down"}
      BY DEF Kinds, UsedKinds
    <3>4. sock'[s].reported = {} /\ \A b \in Blocks \ {s} : sock'[b] = sock[b]
      BY <1>1, <3>2, NewFields, FieldFacts
    <3>. QED BY <3>1, <3>2, <3>3, <3>4, CreatePolls
  <2>2. ASSUME NEW s \in Blocks, NEW c \in Contexts, NEW n \in Blocks, AppAdopt(s, c, n)
        PROVE  PollsOK'
    <3> DEFINE kept == [sock[s] EXCEPT !.short = "off", !.long = "off", !.home = c]
    <3>1. /\ Established(s)
          /\ n = s \/ Free(h, n)
          /\ h' = Adopt(h, s, c, n)
          /\ n # s => sock[s].events # {}
      BY <2>2 DEF AppAdopt, Supported
    <3>2. sock' = IF n = s THEN [sock EXCEPT ![s] = kept] ELSE [sock EXCEPT ![n] = kept, ![s] = Blank]
      BY <2>2, <3>1 DEF AppAdopt
    <3>3. Good(h) /\ (n = s \/ Free(h, n)) /\ Live(h, s) /\ h.kind[s] \in {"socket", "shut_down"}
      BY <1>1, <3>1 DEF Established
    <3> DEFINE u == Adopt(h, s, c, n)
    <3>4. Others(h, u, {s, n})
      BY ONLY <3>3, AdoptEffect, s \in Blocks, n \in Blocks, c \in Contexts
    <3>5. Live(u, n)
      BY ONLY <3>3, <3>4, AdoptEffect, s \in Blocks, n \in Blocks, c \in Contexts
    <3>6. u.kind[n] = h.kind[s] /\ u.lowPrio[n] = h.lowPrio[s]
      BY ONLY <3>3, <3>4, <3>5, AdoptEffect, s \in Blocks, n \in Blocks, c \in Contexts
    <3>7. n # s => Free(u, s)
      BY ONLY <3>3, <3>4, <3>5, AdoptEffect, s \in Blocks, n \in Blocks, c \in Contexts
    <3> HIDE DEF u
    <3>8. h' = u
      BY <3>1 DEF u
    <3>9. /\ kept.events = sock[s].events /\ kept.reported = sock[s].reported
          /\ kept.ended = sock[s].ended
      BY <1>1, <1>3, SocketFields
    <3>10. Blank.reported = {}
      BY DEF Blank
    <3> HIDE DEF kept
    <3>11. /\ sock'[n] = kept
           /\ n # s => sock'[s] = Blank
           /\ \A b \in Blocks \ {s, n} : sock'[b] = sock[b]
      BY <1>1, <3>2
    <3>12. PollOK(n)'
      BY <1>2, <3>3, <3>5, <3>6, <3>8, <3>9, <3>11 DEF PollOK, Established, Queued
    <3>13. n # s => PollOK(s)'
      BY <3>7, <3>8, <3>10, <3>11 DEF PollOK, Established, Live
    <3>. QED BY <3>4, <3>8, <3>11, <3>12, <3>13, PollsKept
  <2>3. ASSUME NEW s \in Blocks, AppClose(s) PROVE PollsOK'
    BY <2>3, ClosePolls DEF AppClose, CloseSocket, Established
  <2>4. ASSUME NEW s \in Blocks, AppCloseSemi(s) PROVE PollsOK'
    <3>1. Live(h, s) /\ h' = Close(h, s) /\ CloseSemiSocket(s)
      BY <1>1, <2>4, SemiIsClose DEF AppCloseSemi, CloseSemiSocket
    <3>. QED BY <3>1, ClosePolls
  <2>5. ASSUME NEW s \in Blocks, AppShutdown(s) PROVE PollsOK'
    <3>1. /\ Live(h, s) /\ h.kind[s] = "socket" /\ h' = [h EXCEPT !.kind[s] = "shut_down"]
          /\ sock' = [sock EXCEPT ![s].events = @ \cap {"R"}, ![s].owed = FALSE]
      BY <2>5 DEF AppShutdown
    <3>2. Others(h, h', {s}) /\ h'.lowPrio = h.lowPrio /\ Live(h', s)
      BY <1>1, <3>1 DEF Others, Live, Free, Memory
    <3>3. /\ sock'[s].events = sock[s].events \cap {"R"} /\ sock'[s].reported = sock[s].reported
          /\ sock'[s].ended = sock[s].ended /\ \A b \in Blocks \ {s} : sock'[b] = sock[b]
      BY <1>1, <1>3, <3>1, SocketFields
    <3>4. PollOK(s)'
      BY <1>2, <3>1, <3>2, <3>3 DEF PollOK, Established, Queued
    <3>. QED BY <3>2, <3>3, <3>4, PollsBut
  <2>6. ASSUME NEW s \in Blocks, AppWrite(s) \/ AppWrite2(s) PROVE PollsOK'
    <3>1. /\ Live(h, s) /\ ~Queued(h, s) /\ UNCHANGED h
          /\ sock' = [sock EXCEPT ![s].events = {"R", "W"}, ![s].owed = TRUE]
      BY <2>6 DEF AppWrite, AppWrite2, Supported
    <3>2. /\ sock'[s].events = {"R", "W"} /\ \A b \in Blocks \ {s} : sock'[b] = sock[b]
      BY <1>1, <1>3, <3>1, SocketFields
    <3>3. PollOK(s)'
      BY <3>1, <3>2 DEF PollOK, Queued, Live, Free
    <3>4. Others(h, h', {s})
      BY <3>1 DEF Others
    <3>. QED BY <3>2, <3>3, <3>4, PollsBut
  <2>7. ASSUME NEW s \in Blocks, NEW timer \in {"off", "later"},
               AppTimeout(s, timer) \/ AppLongTimeout(s, timer)
        PROVE  PollsOK'
    <3>1. UNCHANGED h /\ (sock' = [sock EXCEPT ![s].short = timer] \/ sock' = [sock EXCEPT ![s].long = timer])
      BY <2>7 DEF AppTimeout, AppLongTimeout
    <3>2. \A b \in Blocks : /\ sock'[b].reported = sock[b].reported /\ sock'[b].ended = sock[b].ended
                            /\ sock'[b].events = sock[b].events
      BY <1>1, <1>3, <3>1, SocketFields, <2>7
    <3>. QED BY <3>1, <3>2, PollsSame
  <2>8. ASSUME NEW c \in Contexts, AppContextClose(c) PROVE PollsOK'
    BY <2>8, PollsSame DEF AppContextClose
  <2>. QED BY <1>8, <2>1, <2>2, <2>3, <2>4, <2>5, <2>6, <2>7, <2>8 DEF AppCall
<1>9. CASE Return
  BY <1>9, PollsSame DEF Return
<1>. QED BY <1>4, <1>5, <1>6, <1>7, <1>8, <1>9 DEF Next, Library

------------------------------------------------------------------------------

(* The invariant, and what follows from it. *)

(* The inductive invariant holds at the start.                                *)
LEMMA LInit ==
  ASSUME Init
  PROVE  LInv
<1>1. h = EmptyMemory
  BY DEF Init, ListInit
<1>2. Sound(h) /\ h \in Memory
  BY <1>1, EmptySound DEF Sound, Good
<1>3. \A b \in Blocks : sock[b] = Blank /\ Free(h, b)
  BY <1>1 DEF Init, EmptyMemory, Free
<1>4. SockTyped
  BY NewTyped DEF Init, SockTyped
<1>5. RestTyped
  <2>1. cb \in [ev : Handlers, s : Pointers] /\ at \in Points
    BY DEF Init, Handlers, Pointers, Points
  <2>2. closing \in [at : {"idle", "listen", "sockets"}, c : Contexts \cup {NULL},
                     s : Pointers, all : SUBSET Blocks]
    BY DEF Init, Idle, Pointers
  <2>3. ready \subseteq {"sweep", "user"} /\ unswept \subseteq Contexts
    BY DEF Init
  <2>4. budget \in 0..MaxLowPrio
    BY BudgetAssumption DEF Init
  <2>5. cur \in Pointers /\ readable \in BOOLEAN /\ sweeping \in Contexts \cup {NULL}
        /\ lastWriteFailed \in BOOLEAN
    BY DEF Init, Pointers
  <2>. QED BY <2>1, <2>2, <2>3, <2>4, <2>5 DEF RestTyped
<1>6. CurOK /\ ClosingOK
  BY DEF Init, CurOK, ClosingOK, Idle
<1>7. PollsOK
  BY <1>3 DEF PollsOK, ReadableArmed, Established, Live, Blank
<1>. QED BY <1>2, <1>4, <1>5, <1>6, <1>7 DEF LInv, TypeOK, SockTyped, RestTyped

(* Every step keeps the inductive invariant.                                  *)
LEMMA LStep ==
  ASSUME LInv, [Next]_vars, Supported
  PROVE  LInv'
<1>1. CASE Next
  BY <1>1, TypeStep, CurStep, ClosingStep, PollsStep DEF LInv
<1>2. CASE UNCHANGED vars
  BY <1>2 DEF vars, LInv, TypeOK, CurOK, ClosingOK, PollsOK, ReadableArmed, InLibrary, Established,
     Live, Free, Queued, Linked, ListOf, ContextList
<1>. QED BY <1>1, <1>2

(* The inductive invariant of the event loop holds throughout: types, lists,  *)
(* what each point of the dispatch and of the sweep says of the poll it works *)
(* on, the socket us_socket_context_close stands on, and the interests of the *)
(* polls.                                                                     *)
THEOREM LoopInvariant ==
  ASSUME Supported
  PROVE  Spec => []LInv
BY LInit, LStep, PTL DEF Spec

(* The loop, the sockets and the memory stay typed in every behaviour.        *)
THEOREM LoopTyped ==
  ASSUME Supported
  PROVE  Spec => []TypeOK
<1>1. LInv => TypeOK
  BY DEF LInv
<1>. QED BY <1>1, LoopInvariant, PTL

(* What the inductive invariant says of the library's locals and of the ready *)
(* list is that none of them dangles.                                         *)
LEMMA NotDangling ==
  ASSUME LInv
  PROVE  NoDangling
<1>1. cb = NoCallback =>
       /\ at \in {"connect_error", "accept", "pre_opened", "accepted", "writable", "more"} =>
            ~Free(h, cur)
       /\ at \in {"prio", "recv"} => Established(cur)
       /\ at = "seek" /\ cur # NULL => Linked(h, cur, sweeping)
  BY DEF LInv, CurOK, Free
<1>2. closing.s # NULL => Live(h, closing.s) /\ h.context[closing.s] = closing.c
  <2>1. CASE closing.at = "idle"
    BY <2>1 DEF LInv, ClosingOK, Idle
  <2>2. CASE closing.at # "idle" /\ closing.s # NULL
    <3>1. Live(h, closing.s) /\ ListOf(h, closing.s) = <<closing.c, closing.at>> /\ closing.c \in Contexts
      BY <2>2 DEF LInv, ClosingOK
    <3>2. ListOf(h, closing.s) = ContextList(h, closing.s)
      BY <3>1, PointerFacts DEF ListOf, LowPrio
    <3>. QED BY <3>1, <3>2 DEF ContextList
  <2>. QED BY <2>1, <2>2
<1>3. \A b \in Blocks : sock[b].reported # {} => Live(h, b)
  BY DEF LInv, PollsOK
<1>. QED BY <1>1, <1>2, <1>3 DEF NoDangling

(* The library never follows a pointer to a block that was freed or moved:    *)
(* whatever the handlers close, adopt and open, its locals across a handler   *)
(* (in dispatch, the accept loop, the sweep and us_socket_context_close) and  *)
(* the ready list name blocks that are still there and still of the kind the  *)
(* code goes on to use.                                                       *)
THEOREM NothingDangles ==
  ASSUME Supported
  PROVE  Spec => []NoDangling
BY NotDangling, LoopInvariant, PTL

(* An open socket that has not seen the peer's FIN polls for readable unless  *)
(* it waits in the low-priority queue, and then it does not: no path through  *)
(* the dispatch, the budget of the queue or a handler loses the interest.     *)
THEOREM ReadableStaysArmed ==
  ASSUME Supported
  PROVE  Spec => []ReadableArmed
<1>1. LInv => ReadableArmed
  BY DEF LInv, PollsOK
<1>. QED BY <1>1, LoopInvariant, PTL

(* Refinement: every step of the loop and of the application is a step of     *)
(* SocketLists or leaves the lists alone, so the callers of the list          *)
(* operations keep their contract (a live block, of the right kind, in the    *)
(* right list).                                                               *)
THEOREM LoopKeepsListContract ==
  ASSUME Supported
  PROVE  Spec => ListContract
<1>1. Init => ListInit
  BY DEF Init
<1>2. LInv /\ [Next]_vars => [ListNext]_h
  BY ListStep DEF vars
<1>. QED BY <1>1, <1>2, LoopInvariant, PTL DEF Spec, ListContract, ListSpec

(* Hence the lists the loop drives stay well formed: every live socket linked *)
(* in both directions into the list its low_prio_state and context name,      *)
(* every iterator of a running sweep on a socket of its context.              *)
THEOREM LoopListsWellFormed ==
  ASSUME Supported
  PROVE  Spec => []ListsWellFormed
BY LoopKeepsListContract, ListsStayWellFormed, PTL DEF ListContract

(* And a walk of any list meets exactly the sockets that belong to it, for    *)
(* any finite number of sockets.                                              *)
THEOREM LoopLosesNoSocket ==
  ASSUME Supported, IsFiniteSet(Blocks)
  PROVE  Spec => []NoSocketLost
BY LoopKeepsListContract, NothingIsLost, PTL DEF ListContract

------------------------------------------------------------------------------

(* Events go to open sockets. *)

(* What NoEventAfterClose says of a step.                                     *)
EventOnLive ==
  cb' # cb => \A s \in Blocks : cb'.s = s =>
       /\ cb'.ev \in {"on_open", "on_timeout", "on_long_timeout"} => Live(h, s)'
       /\ cb'.ev \in {"on_writable", "on_data", "on_end"} => Established(s)'

(* A step that calls no handler of this kind.                                 *)
LEMMA SilentStep ==
  ASSUME cb' = cb \/ cb'.ev \notin {"on_open", "on_timeout", "on_long_timeout",
                                     "on_writable", "on_data", "on_end"}
  PROVE  EventOnLive
BY DEF EventOnLive

(* Every step calls handlers of live sockets only, and data handlers of open  *)
(* ones.                                                                      *)
LEMMA EventStep ==
  ASSUME LInv, Next, Supported
  PROVE  EventOnLive
<1>1. /\ h \in Memory /\ Good(h) /\ ListsBut(h, NULL) /\ CurOK
  BY DEF LInv, TypeOK, Sound, Good
<1> USE DEF Emit
<1>2. CASE RunLoop
  BY <1>2, SilentStep DEF RunLoop, LoopPre, LoopExit, HandleLowPrio, LowPrioHandled, EpollWait,
     DispatchUser, ReadyListDone, FreeClosed, LoopPost
<1>3. CASE Dispatch
  <2>1. ASSUME NEW s \in Blocks, DispatchConnected(s) PROVE EventOnLive
    <3>1. Live(h, s) /\ h' = [h EXCEPT !.kind[s] = "socket"] /\ cb' = [ev |-> "on_open", s |-> s]
      BY <2>1 DEF DispatchConnected
    <3>2. Live(h', s)
      BY <1>1, <3>1 DEF Live, Free, Memory
    <3>. QED BY <3>1, <3>2 DEF EventOnLive
  <2>2. ASSUME NEW s \in Blocks, AcceptSocket(s) PROVE EventOnLive
    <3>1. /\ cur \in Blocks /\ h.kind[cur] = "listen" /\ Free(h, s) /\ cb' = [ev |-> "on_open", s |-> s]
          /\ h' = Create(h, s, h.context[cur], "socket")
      BY <1>1, <2>2 DEF AcceptSocket, CurOK
    <3>2. h.context[cur] \in Contexts
      BY <3>1, <1>1, LiveByPrev DEF Free
    <3>3. "socket" \in UsedKinds
      BY DEF Kinds, UsedKinds
    <3> DEFINE u == Create(h, s, h.context[cur], "socket")
    <3>4. Others(h, u, {s}) /\ Live(u, s)
      BY ONLY <1>1, <3>1, <3>2, <3>3, s \in Blocks, CreateEffect
    <3>. QED BY <3>1, <3>4 DEF EventOnLive
  <2>3. ASSUME NEW s \in Blocks, DispatchWritable(s) PROVE EventOnLive
    BY <2>3 DEF DispatchWritable, EventOnLive, Established, Live, Free
  <2>4. CASE RecvData
    BY <1>1, <2>4 DEF RecvData, EventOnLive, CurOK, Established, Live, Free
  <2>5. CASE RecvEnd
    BY <1>1, <2>5 DEF RecvEnd, EventOnLive, CurOK, Established, Live, Free
  <2>6. ASSUME NEW s \in Blocks, DispatchConnectError(s) \/ DispatchListen(s) \/ DispatchReadable(s)
        PROVE  EventOnLive
    BY <2>6, SilentStep DEF DispatchConnectError, DispatchListen, DispatchReadable
  <2>7. ASSUME NEW s \in Blocks, DispatchError(s) PROVE EventOnLive
    BY <2>7, SilentStep DEF DispatchError, CloseSocket
  <2>8. CASE CloseFailedConnect \/ PreOpen \/ PreOpenExports \/ AcceptNext \/ AcceptDone \/ AfterWritable
    BY <2>8, SilentStep DEF CloseFailedConnect, CloseSemiSocket, PreOpen, PreOpenExports, AcceptNext,
       AcceptDone, AfterWritable
  <2>9. CASE ReadNow \/ ReadResumed \/ ReadWithinBudget \/ ReadDeferred
    BY <2>9, SilentStep DEF ReadNow, ReadResumed, ReadWithinBudget, ReadDeferred
  <2>10. CASE RecvAgain \/ RecvDone \/ RecvClose
    BY <2>10, SilentStep DEF RecvAgain, RecvDone, RecvClose, CloseSocket
  <2>. QED BY <1>3, <2>1, <2>2, <2>3, <2>4, <2>5, <2>6, <2>7, <2>8, <2>9, <2>10 DEF Dispatch
<1>4. CASE Sweep
  <2>1. CASE SeekFound
    <3>1. Live(h, cur) /\ cur \in Blocks /\ sweeping \in Contexts
      BY <1>1, <2>1 DEF SeekFound, CurOK, Linked
    <3>2. h' = [h EXCEPT !.iterator[sweeping] = cur] /\ (cb' = cb \/ cb' = [ev |-> "on_timeout", s |-> cur])
      BY <2>1 DEF SeekFound
    <3>3. Live(h', cur)
      BY <1>1, <3>1, <3>2, IteratorOthers DEF Live, Free
    <3>. QED BY <3>2, <3>3 DEF EventOnLive
  <2>2. CASE SweepLong
    <3>1. cur \in Blocks /\ sweeping \in Contexts /\ UNCHANGED h
      BY <1>1, <2>2 DEF SweepLong, CurOK
    <3>2. CASE h.iterator[sweeping] = cur
      <4>1. Live(h, cur)
        BY <1>1, <3>1, <3>2, PointerFacts DEF ListsBut, IteratorBut, Linked
      <4>2. cb' = cb \/ cb' = [ev |-> "on_long_timeout", s |-> cur]
        BY <2>2 DEF SweepLong
      <4>. QED BY <3>1, <4>1, <4>2 DEF EventOnLive, Live, Free
    <3>3. CASE h.iterator[sweeping] # cur
      BY <2>2, <3>3, SilentStep DEF SweepLong
    <3>. QED BY <3>2, <3>3
  <2>3. ASSUME NEW c \in Contexts, SweepContext(c) PROVE EventOnLive
    BY <2>3, SilentStep DEF SweepContext
  <2>4. CASE DispatchSweep \/ SeekNext \/ SweepAdvance \/ SweepContextDone \/ SweepDone
    BY <2>4, SilentStep DEF DispatchSweep, SeekNext, SweepAdvance, SweepContextDone, SweepDone
  <2>. QED BY <1>4, <2>1, <2>2, <2>3, <2>4 DEF Sweep
<1>5. CASE ContextClose
  BY <1>5, SilentStep DEF ContextClose, ContextCloseListen, ContextCloseSocket, ContextCloseDone,
     CloseSocket, CloseSemiSocket
<1>6. CASE AppCall
  <2>1. ASSUME NEW s \in Blocks, NEW c \in Contexts, AppListen(s, c) \/ AppConnect(s, c)
        PROVE  EventOnLive
    BY <2>1, SilentStep DEF AppListen, AppConnect, LoopHandlers
  <2>2. ASSUME NEW s \in Blocks, NEW c \in Contexts, NEW n \in Blocks, AppAdopt(s, c, n)
        PROVE  EventOnLive
    BY <2>2, SilentStep DEF AppAdopt
  <2>3. ASSUME NEW s \in Blocks, AppClose(s) \/ AppCloseSemi(s) \/ AppShutdown(s) PROVE EventOnLive
    BY <2>3, SilentStep DEF AppClose, CloseSocket, AppCloseSemi, AppShutdown, LoopHandlers
  <2>4. ASSUME NEW s \in Blocks, AppWrite(s) \/ AppWrite2(s) PROVE EventOnLive
    BY <2>4, SilentStep DEF AppWrite, AppWrite2, LoopHandlers
  <2>5. ASSUME NEW s \in Blocks, NEW timer \in {"off", "later"},
               AppTimeout(s, timer) \/ AppLongTimeout(s, timer)
        PROVE  EventOnLive
    BY <2>5, SilentStep DEF AppTimeout, AppLongTimeout, LoopHandlers
  <2>6. ASSUME NEW c \in Contexts, AppContextClose(c) PROVE EventOnLive
    BY <2>6, SilentStep DEF AppContextClose, NoCallback
  <2>. QED BY <1>6, <2>1, <2>2, <2>3, <2>4, <2>5, <2>6 DEF AppCall
<1>7. CASE Return
  BY <1>7, SilentStep DEF Return, NoCallback
<1>. QED BY <1>2, <1>3, <1>4, <1>5, <1>6, <1>7 DEF Next, Library

(* NoEventAfterClose.                                                         *)
THEOREM EventsOnlyOnOpenSockets ==
  ASSUME Supported
  PROVE  Spec => NoEventAfterClose
<1>1. LInv /\ [Next]_vars => [EventOnLive]_vars
  BY EventStep
<1>. QED BY <1>1, LoopInvariant, PTL DEF Spec, NoEventAfterClose, EventOnLive

------------------------------------------------------------------------------

(* The history of a socket. *)

(* What a block has seen: a socket its on_open, a closed one as many on_close *)
(* as on_open, and a semi-socket nothing.                                     *)
HistoryOK(b) ==
  /\ sock[b].opens <= 1 /\ sock[b].closes <= sock[b].opens
  /\ Established(b) => sock[b].opens = 1 /\ sock[b].closes = 0
  /\ Live(h, b) /\ ~Established(b) => sock[b].opens = 0 /\ sock[b].closes = 0
  /\ Closed(h, b) => sock[b].closes = sock[b].opens
  /\ h.kind[b] = "connecting" => "connect" \in Inputs

HistoryInv ==
  /\ \A b \in Blocks : HistoryOK(b)
  /\ closing # Idle => "context_close" \in Inputs

\* us_socket_context_close runs on_close for sockets that are still connecting.
NoConnectClosed == ~({"connect", "context_close"} \subseteq Inputs)

(* A step on the blocks of S: the history of the others stays.                *)
LEMMA HistoryKept ==
  ASSUME LInv, HistoryInv, NEW S, Others(h, h', S),
         \A b \in Blocks \ S : sock'[b].opens = sock[b].opens /\ sock'[b].closes = sock[b].closes,
         \A b \in S \cap Blocks : HistoryOK(b)',
         closing' # Idle => "context_close" \in Inputs
  PROVE  HistoryInv'
<1>1. ASSUME NEW b \in Blocks \ S PROVE HistoryOK(b)'
  <2>1. /\ h'.kind[b] = h.kind[b] /\ (Live(h', b) <=> Live(h, b)) /\ (Closed(h', b) <=> Closed(h, b))
    BY OthersSame
  <2>2. HistoryOK(b)
    BY DEF HistoryInv
  <2>3. Established(b)' <=> Established(b)
    BY <2>1 DEF Established
  <2>. QED BY <2>1, <2>2, <2>3 DEF HistoryOK
<1>2. \A b \in Blocks : HistoryOK(b)'
  BY <1>1
<1>. QED BY <1>2 DEF HistoryInv, Idle

(* A step that leaves the lists and the counts alone.                         *)
LEMMA HistorySame ==
  ASSUME LInv, HistoryInv, UNCHANGED h,
         \A b \in Blocks : sock'[b].opens = sock[b].opens /\ sock'[b].closes = sock[b].closes,
         closing' # Idle => "context_close" \in Inputs
  PROVE  HistoryInv'
<1>1. Others(h, h', {})
  BY DEF Others
<1>. QED BY <1>1, HistoryKept

(* A step on one socket.                                                      *)
LEMMA HistoryBut ==
  ASSUME LInv, HistoryInv, NEW s \in Blocks, Others(h, h', {s}),
         \A b \in Blocks \ {s} : sock'[b] = sock[b],
         HistoryOK(s)',
         closing' # Idle => "context_close" \in Inputs
  PROVE  HistoryInv'
<1>1. \A b \in {s} \cap Blocks : HistoryOK(b)'
  OBVIOUS
<1>. QED BY <1>1, HistoryKept

(* A socket that is closed has seen on_open, and sees on_close.               *)
LEMMA CloseHistory ==
  ASSUME LInv, HistoryInv, NEW s \in Blocks, Established(s), CloseSocket(s), h' = Close(h, s),
         closing' # Idle => "context_close" \in Inputs
  PROVE  HistoryInv'
<1>1. Good(h) /\ sock \in [Blocks -> Socket] /\ Live(h, s)
  BY DEF LInv, TypeOK, Sound, Established
<1>2. Others(h, h', {s})
  BY <1>1, CloseEffect
<1>3. Closed(h', s) /\ ~Live(h', s) /\ h'.kind = h.kind
  BY <1>1, <1>2, CloseEffect
<1>4. sock[s] \in Socket /\ sock[s].opens = 1 /\ sock[s].closes = 0
  BY <1>1 DEF HistoryInv, HistoryOK
<1>5. [Stopped(s) EXCEPT !.closes = Told(@)].opens = 1 /\ [Stopped(s) EXCEPT !.closes = Told(@)].closes = 1
  <2>1. Stopped(s) \in Socket /\ Stopped(s).opens = 1 /\ Stopped(s).closes = 0
    BY <1>4, SocketFields, FieldFacts DEF Stopped
  <2>2. Told(0) = 1
    BY DEF Told
  <2> DEFINE x == Stopped(s)
  <2>3. x \in Socket /\ x.opens = 1 /\ x.closes = 0
    BY <2>1
  <2> HIDE DEF x
  <2>4. [x EXCEPT !.closes = Told(@)].opens = 1 /\ [x EXCEPT !.closes = Told(@)].closes = 1
    BY <2>2, <2>3, SocketFields
  <2>. QED BY <2>4 DEF x
<1>6. sock' = [sock EXCEPT ![s] = [Stopped(s) EXCEPT !.closes = Told(@)]]
  BY DEF CloseSocket
<1>7. sock'[s].opens = 1 /\ sock'[s].closes = 1 /\ \A b \in Blocks \ {s} : sock'[b] = sock[b]
  BY <1>1, <1>5, <1>6
<1>8. HistoryOK(s)'
  BY <1>3, <1>7, <1>1 DEF HistoryOK, Established, HistoryInv
<1>. QED BY <1>2, <1>7, <1>8, HistoryBut

(* A semi-socket that is closed has seen neither.                             *)
LEMMA CloseSemiHistory ==
  ASSUME LInv, HistoryInv, NEW s \in Blocks, Live(h, s), ~Established(s), CloseSemiSocket(s),
         h' = Close(h, s),
         closing' # Idle => "context_close" \in Inputs
  PROVE  HistoryInv'
<1>1. Good(h) /\ sock \in [Blocks -> Socket]
  BY DEF LInv, TypeOK, Sound
<1>2. Others(h, h', {s})
  BY <1>1, CloseEffect
<1>3. Closed(h', s) /\ ~Live(h', s) /\ h'.kind = h.kind
  BY <1>1, <1>2, CloseEffect
<1>4. sock[s] \in Socket /\ sock[s].opens = 0 /\ sock[s].closes = 0
  BY <1>1 DEF HistoryInv, HistoryOK
<1>5. Stopped(s).opens = 0 /\ Stopped(s).closes = 0
  BY <1>4, SocketFields, FieldFacts DEF Stopped
<1>6. sock' = [sock EXCEPT ![s] = Stopped(s)]
  BY DEF CloseSemiSocket
<1>7. sock'[s].opens = 0 /\ sock'[s].closes = 0 /\ \A b \in Blocks \ {s} : sock'[b] = sock[b]
  BY <1>1, <1>5, <1>6
<1>8. HistoryOK(s)'
  BY <1>3, <1>7, <1>1 DEF HistoryOK, Established, HistoryInv
<1>. QED BY <1>2, <1>7, <1>8, HistoryBut

(* A new block starts with the history of its kind.                           *)
LEMMA CreateHistory ==
  ASSUME LInv, HistoryInv, NEW s \in Blocks, Free(h, s), NEW c \in Contexts, NEW k \in UsedKinds,
         h' = Create(h, s, c, k),
         \A b \in Blocks \ {s} : sock'[b] = sock[b],
         sock'[s].closes = 0, sock'[s].opens = IF k \in {"socket", "shut_down"} THEN 1 ELSE 0,
         k = "connecting" => "connect" \in Inputs,
         closing' # Idle => "context_close" \in Inputs
  PROVE  HistoryInv'
<1>1. Good(h)
  BY DEF LInv, Sound
<1> DEFINE u == Create(h, s, c, k)
<1>2. Others(h, u, {s}) /\ Live(u, s) /\ u.kind[s] = k
  BY <1>1, CreateKind
<1> HIDE DEF u
<1>4. h' = u
  BY DEF u
<1>5. ~Closed(u, s)
  BY <1>2 DEF Live, Closed
<1>6. HistoryOK(s)'
  <2>1. CASE k \in {"socket", "shut_down"}
    BY <1>2, <1>4, <1>5, <2>1 DEF HistoryOK, Established
  <2>2. CASE k \notin {"socket", "shut_down"}
    BY <1>2, <1>4, <1>5, <2>2 DEF HistoryOK, Established
  <2>. QED BY <2>1, <2>2
<1>. QED BY <1>2, <1>4, <1>6, HistoryBut

(* A new socket has seen nothing, or its on_open.                             *)
LEMMA NewHistory ==
  ASSUME NEW c \in Contexts, NEW e \in EventSets, NEW n \in Counts
  PROVE  /\ [New(c) EXCEPT !.events = e].opens = 0
         /\ [New(c) EXCEPT !.events = e].closes = 0
         /\ [New(c) EXCEPT !.events = e, !.opens = n].opens = n
         /\ [New(c) EXCEPT !.events = e, !.opens = n].closes = 0
<1>1. New(c) = [events |-> {}, reported |-> {}, short |-> "off", long |-> "off",
          opens |-> 0, closes |-> 0, ended |-> FALSE, owed |-> FALSE, home |-> c]
  BY NewTyped
<1>. QED BY ONLY <1>1

------------------------------------------------------------------------------

(* One open, then one close. *)

(* us_socket_context_close runs only where it is explored.                    *)
LEMMA ClosingExplored ==
  ASSUME LInv, Next, HistoryInv
  PROVE  closing' # Idle => "context_close" \in Inputs
<1>1. CASE closing # Idle
  BY <1>1 DEF HistoryInv
<1>2. CASE closing = Idle /\ closing' # Idle
  <2>1. closing.at = "idle"
    BY <1>2 DEF Idle
  <2>2. \/ UNCHANGED closing
        \/ \E c \in Contexts : AppContextClose(c)
    <3>1. CASE RunLoop
      BY <3>1 DEF RunLoop, LoopPre, LoopExit, HandleLowPrio, LowPrioHandled, EpollWait,
         DispatchUser, ReadyListDone, FreeClosed, LoopPost
    <3>2. CASE Dispatch
      BY <3>2 DEF Dispatch, DispatchConnected, DispatchConnectError, DispatchListen, AcceptSocket,
         DispatchError, DispatchWritable, DispatchReadable, CloseFailedConnect, PreOpen,
         PreOpenExports, AcceptNext, AcceptDone, AfterWritable, ReadNow, ReadResumed,
         ReadWithinBudget, ReadDeferred, RecvData, RecvAgain, RecvDone, RecvEnd, RecvClose
    <3>3. CASE Sweep
      BY <3>3 DEF Sweep, DispatchSweep, SweepContext, SeekNext, SeekFound, SweepLong, SweepAdvance,
         SweepContextDone, SweepDone
    <3>4. CASE ContextClose
      BY <2>1, <3>4 DEF ContextClose, ContextCloseListen, ContextCloseSocket, ContextCloseDone
    <3>5. CASE AppCall
      BY <3>5 DEF AppCall, AppListen, AppConnect, AppAdopt, AppClose, AppCloseSemi, AppWrite,
         AppWrite2, AppShutdown, AppTimeout, AppLongTimeout, LoopHandlers
    <3>6. CASE Return
      BY <3>6 DEF Return
    <3>. QED BY <3>1, <3>2, <3>3, <3>4, <3>5, <3>6 DEF Next, Library
  <2>. QED BY <1>2, <2>2 DEF AppContextClose, May
<1>. QED BY <1>1, <1>2

(* Every step keeps the histories right.                                      *)
LEMMA HistoryStep ==
  ASSUME LInv, Next, Supported, NoConnectClosed, HistoryInv
  PROVE  HistoryInv'
<1>1. /\ sock \in [Blocks -> Socket] /\ h \in Memory /\ Good(h) /\ ListsBut(h, NULL) /\ CurOK
  BY DEF LInv, TypeOK, Sound, Good
<1>2. \A b \in Blocks : HistoryOK(b)
  BY DEF HistoryInv
<1>3. \A b \in Blocks : sock[b] \in Socket
  BY <1>1
<1>c. closing' # Idle => "context_close" \in Inputs
  BY ClosingExplored
<1>4. CASE RunLoop
  <2>1. CASE HandleLowPrio
    <3>1. h.head[LowPrio] # NULL
      BY <2>1 DEF HandleLowPrio
    <3>2. h.head[LowPrio] \in Blocks /\ Established(h.head[LowPrio])
      BY <1>1, <3>1, QueueHead DEF Established
    <3>3. PICK s \in Blocks : s = h.head[LowPrio]
      BY <3>2
    <3>4. h' = Resume(h) /\ sock' = [sock EXCEPT ![s].events = @ \cup {"R"}]
      BY <2>1, <3>3 DEF HandleLowPrio
    <3>5. Others(h, h', {s})
      BY <1>1, <3>1, <3>3, <3>4, ResumeEffect
    <3>6. Live(h', s)
      BY <1>1, <3>1, <3>3, <3>4, <3>5, ResumeEffect
    <3>7. h'.kind = h.kind
      BY <1>1, <3>1, <3>3, <3>4, <3>5, ResumeEffect
    <3>8. /\ sock'[s].opens = sock[s].opens /\ sock'[s].closes = sock[s].closes
          /\ \A b \in Blocks \ {s} : sock'[b] = sock[b]
      BY <1>1, <1>3, <3>4, SocketFields
    <3>9. HistoryOK(s)'
      BY <1>2, <3>2, <3>3, <3>6, <3>7, <3>8 DEF HistoryOK, Established, Live, Closed
    <3>. QED BY <1>c, <3>5, <3>8, <3>9, HistoryBut
  <2>2. CASE FreeClosed
    <3>1. h.closed # NULL
      BY <2>2 DEF FreeClosed
    <3>2. h.closed \in Blocks
      BY <1>1, <3>1, FreeEffect
    <3>3. PICK s \in Blocks : s = h.closed
      BY <3>2
    <3>4. h' = FreeHead(h) /\ sock' = [sock EXCEPT ![s] = Blank]
      BY <2>2, <3>3 DEF FreeClosed
    <3>5. Others(h, h', {s})
      BY <1>1, <3>1, <3>3, <3>4, FreeEffect
    <3>6. Free(h', s)
      BY <1>1, <3>1, <3>3, <3>4, <3>5, FreeEffect
    <3>7. sock'[s].opens = 0 /\ sock'[s].closes = 0 /\ \A b \in Blocks \ {s} : sock'[b] = sock[b]
      BY <1>1, <3>4 DEF Blank
    <3>8. HistoryOK(s)'
      BY <3>6, <3>7 DEF HistoryOK, Established, Live, Closed, Free
    <3>. QED BY <1>c, <3>5, <3>7, <3>8, HistoryBut
  <2>3. CASE EpollWait \/ ReadyListDone
    <3>1. \A b \in Blocks : sock'[b].opens = sock[b].opens /\ sock'[b].closes = sock[b].closes
      BY <1>3, <2>3, SocketFields DEF EpollWait, ReadyListDone
    <3>2. UNCHANGED h
      BY <2>3 DEF EpollWait, ReadyListDone
    <3>. QED BY <1>c, <3>1, <3>2, HistorySame
  <2>4. CASE LoopPre \/ LoopExit \/ LowPrioHandled \/ DispatchUser \/ LoopPost
    BY <1>c, <2>4, HistorySame DEF LoopPre, LoopExit, LowPrioHandled, DispatchUser, LoopPost
  <2>. QED BY <1>4, <2>1, <2>2, <2>3, <2>4 DEF RunLoop
<1>5. CASE Dispatch
  <2>1. ASSUME NEW s \in Blocks, DispatchConnected(s) PROVE HistoryInv'
    <3>1. /\ Live(h, s) /\ h.kind[s] = "connecting" /\ h' = [h EXCEPT !.kind[s] = "socket"]
          /\ sock' = [sock EXCEPT ![s].events = {"R"}, ![s].reported = {},
                                  ![s].short = "off", ![s].opens = Told(@)]
      BY <2>1 DEF DispatchConnected
    <3>2. sock[s].opens = 0 /\ sock[s].closes = 0
      BY <1>2, <3>1 DEF HistoryOK, Established
    <3>3. Others(h, h', {s}) /\ Live(h', s) /\ h'.kind[s] = "socket"
      BY <1>1, <3>1 DEF Others, Live, Free, Memory
    <3>4. /\ sock'[s].opens = 1 /\ sock'[s].closes = 0
          /\ \A b \in Blocks \ {s} : sock'[b] = sock[b]
      <4>1. Told(0) = 1
        BY DEF Told
      <4>. QED BY <1>1, <1>3, <3>1, <3>2, <4>1, SocketFields
    <3>5. HistoryOK(s)'
      BY <3>3, <3>4 DEF HistoryOK, Established, Live, Closed
    <3>. QED BY <1>c, <3>3, <3>4, <3>5, HistoryBut
  <2>2. CASE CloseFailedConnect
    <3>1. cur \in Blocks /\ h.kind[cur] = "connecting"
      BY <1>1, <2>2 DEF CloseFailedConnect, CurOK
    <3>2. CASE Closed(h, cur)
      BY <1>c, <2>2, <3>2, HistorySame DEF CloseFailedConnect
    <3>3. CASE ~Closed(h, cur)
      <4>1. CloseSemiSocket(cur) /\ Live(h, cur) /\ ~Established(cur)
        BY <2>2, <3>1, <3>3 DEF CloseFailedConnect, Live, Closed, Free, Established
      <4>2. h' = Close(h, cur)
        BY <1>1, <3>1, <4>1, SemiIsClose DEF CloseSemiSocket
      <4>. QED BY <1>c, <3>1, <4>1, <4>2, CloseSemiHistory
    <3>. QED BY <3>2, <3>3
  <2>3. ASSUME NEW s \in Blocks, AcceptSocket(s) PROVE HistoryInv'
    <3>1. cur \in Blocks /\ h.kind[cur] = "listen" /\ Free(h, s)
      BY <1>1, <2>3 DEF AcceptSocket, CurOK
    <3>2. h.context[cur] \in Contexts
      BY <1>1, <3>1, LiveByPrev DEF Free
    <3>3. h' = Create(h, s, h.context[cur], "socket") /\ "socket" \in UsedKinds
      BY <2>3 DEF AcceptSocket, Kinds, UsedKinds
    <3>4. sock' = [sock EXCEPT ![s] = [New(h.context[cur]) EXCEPT !.events = {"R"}, !.opens = 1]]
      BY <2>3 DEF AcceptSocket
    <3>5. /\ sock'[s].opens = 1 /\ sock'[s].closes = 0
          /\ \A b \in Blocks \ {s} : sock'[b] = sock[b]
      BY <1>1, <3>2, <3>4, NewHistory, FieldFacts
    <3>. QED BY <1>c, <3>1, <3>2, <3>3, <3>5, CreateHistory
  <2>4. ASSUME NEW s \in Blocks, DispatchError(s) PROVE HistoryInv'
    BY <1>c, <2>4, CloseHistory DEF DispatchError, CloseSocket
  <2>5. CASE RecvClose
    <3>1. cur \in Blocks /\ Established(cur) /\ CloseSocket(cur)
      BY <1>1, <2>5 DEF RecvClose, CurOK
    <3>. QED BY <1>c, <3>1, CloseHistory DEF CloseSocket
  <2>6. ASSUME NEW s \in Blocks, DispatchConnectError(s) \/ DispatchListen(s) \/ DispatchReadable(s)
                                 \/ DispatchWritable(s)
        PROVE  HistoryInv'
    <3>1. /\ UNCHANGED h
          /\ \/ sock' = [sock EXCEPT ![s].reported = {}]
             \/ sock' = [sock EXCEPT ![s].reported = {}, ![s].owed = FALSE]
      BY <2>6 DEF DispatchConnectError, DispatchListen, DispatchReadable, DispatchWritable
    <3>2. \A b \in Blocks : sock'[b].opens = sock[b].opens /\ sock'[b].closes = sock[b].closes
      BY <1>1, <1>3, <3>1, SocketFields
    <3>. QED BY <1>c, <3>1, <3>2, HistorySame
  <2>7. CASE AfterWritable
    <3>1. /\ cur \in Blocks /\ UNCHANGED h
          /\ UNCHANGED sock \/ sock' = [sock EXCEPT ![cur].events = @ \cap {"R"}]
      BY <1>1, <2>7 DEF AfterWritable, CurOK
    <3>2. \A b \in Blocks : sock'[b].opens = sock[b].opens /\ sock'[b].closes = sock[b].closes
      BY <1>1, <1>3, <3>1, SocketFields
    <3>. QED BY <1>c, <3>1, <3>2, HistorySame
  <2>8. CASE ReadDeferred
    <3>1. PICK s \in Blocks : s = cur
      BY <1>1, <2>8 DEF ReadDeferred, CurOK
    <3>2. /\ Established(s) /\ ~Queued(h, s)
          /\ h' = Defer(h, s) /\ sock' = [sock EXCEPT ![s].events = @ \cap {"W"}]
      BY <1>1, <2>8, <3>1 DEF ReadDeferred, CurOK
    <3>3. Live(h, s) /\ h.lowPrio[s] # 1 /\ h.kind[s] \in {"socket", "shut_down"}
      BY <3>2 DEF Established, Queued
    <3>4. Others(h, h', {s})
      BY <1>1, <3>2, <3>3, DeferEffect
    <3>5. Live(h', s)
      BY <1>1, <3>2, <3>3, <3>4, DeferEffect
    <3>6. h'.kind = h.kind
      BY <1>1, <3>2, <3>3, <3>4, <3>5, DeferEffect
    <3>7. /\ sock'[s].opens = sock[s].opens /\ sock'[s].closes = sock[s].closes
          /\ \A b \in Blocks \ {s} : sock'[b] = sock[b]
      BY <1>1, <1>3, <3>2, SocketFields
    <3>8. HistoryOK(s)'
      BY <1>2, <3>2, <3>5, <3>6, <3>7 DEF HistoryOK, Established, Live, Closed
    <3>. QED BY <1>c, <3>4, <3>7, <3>8, HistoryBut
  <2>9. CASE RecvEnd
    <3>1. /\ cur \in Blocks /\ UNCHANGED h
          /\ sock' = [sock EXCEPT ![cur].events = @ \cap {"W"}, ![cur].ended = TRUE]
      BY <1>1, <2>9 DEF RecvEnd, CurOK
    <3>2. \A b \in Blocks : sock'[b].opens = sock[b].opens /\ sock'[b].closes = sock[b].closes
      BY <1>1, <1>3, <3>1, SocketFields
    <3>. QED BY <1>c, <3>1, <3>2, HistorySame
  <2>10. CASE PreOpen \/ PreOpenExports \/ AcceptNext \/ AcceptDone
    BY <1>c, <2>10, HistorySame DEF PreOpen, PreOpenExports, AcceptNext, AcceptDone
  <2>11. CASE ReadNow \/ ReadWithinBudget \/ RecvData \/ RecvAgain \/ RecvDone
    BY <1>c, <2>11, HistorySame DEF ReadNow, ReadWithinBudget, RecvData, RecvAgain, RecvDone
  <2>12. CASE ReadResumed
    <3>1. PICK s \in Blocks : s = cur
      BY <1>1, <2>12 DEF ReadResumed, CurOK
    <3>2. h' = [h EXCEPT !.lowPrio[s] = 0] /\ UNCHANGED sock
      BY <2>12, <3>1 DEF ReadResumed
    <3>3. /\ Others(h, h', {s}) /\ h'.kind = h.kind /\ h'.prev = h.prev /\ h'.context = h.context
      BY <1>1, <3>2 DEF Others, Live, Free, Memory
    <3>4. HistoryOK(s)'
      BY <1>2, <3>2, <3>3 DEF HistoryOK, Established, Live, Closed, Free
    <3>. QED BY <1>c, <3>2, <3>3, <3>4, HistoryBut
  <2>. QED BY <1>5, <2>1, <2>2, <2>3, <2>4, <2>5, <2>6, <2>7, <2>8, <2>9, <2>10, <2>11, <2>12
           DEF Dispatch
<1>6. CASE Sweep
  <2>1. CASE SeekFound
    <3>1. /\ cur \in Blocks /\ sweeping \in Contexts /\ h' = [h EXCEPT !.iterator[sweeping] = cur]
          /\ UNCHANGED sock \/ sock' = [sock EXCEPT ![cur].short = "off"]
      BY <1>1, <2>1 DEF SeekFound, CurOK
    <3>2. Others(h, h', {})
      BY <1>1, <3>1, IteratorOthers
    <3>3. \A b \in Blocks : sock'[b].opens = sock[b].opens /\ sock'[b].closes = sock[b].closes
      BY <1>1, <1>3, <3>1, SocketFields
    <3>. QED BY <1>c, <3>2, <3>3, HistoryKept
  <2>2. CASE SweepLong
    <3>1. /\ cur \in Blocks /\ UNCHANGED h
          /\ UNCHANGED sock \/ sock' = [sock EXCEPT ![cur].long = "off"]
      BY <1>1, <2>2 DEF SweepLong, CurOK
    <3>2. \A b \in Blocks : sock'[b].opens = sock[b].opens /\ sock'[b].closes = sock[b].closes
      BY <1>1, <1>3, <3>1, SocketFields
    <3>. QED BY <1>c, <3>1, <3>2, HistorySame
  <2>3. CASE SweepContextDone
    <3>1. /\ h' = [h EXCEPT !.iterator[sweeping] = NULL] /\ sweeping \in Contexts
          /\ sock' = [b \in Blocks |->
               IF h.context[b] # sweeping THEN sock[b]
               ELSE [sock[b] EXCEPT !.short = IF @ = "due" THEN "later" ELSE @,
                                    !.long  = IF @ = "due" THEN "later" ELSE @]]
      BY <1>1, <2>3 DEF SweepContextDone, CurOK
    <3>2. Others(h, h', {})
      BY <1>1, <3>1, IteratorOthers
    <3>3. \A b \in Blocks : sock'[b].opens = sock[b].opens /\ sock'[b].closes = sock[b].closes
      BY <1>1, <1>3, <3>1, SocketFields
    <3>. QED BY <1>c, <3>2, <3>3, HistoryKept
  <2>4. ASSUME NEW c \in Contexts, SweepContext(c) PROVE HistoryInv'
    <3>1. PICK shorts \in SUBSET {b \in Blocks : h.context[b] = c /\ sock[b].short = "later"},
               longs \in SUBSET {b \in Blocks : h.context[b] = c /\ sock[b].long = "later"} :
            sock' = [b \in Blocks |->
              [sock[b] EXCEPT !.short = IF b \in shorts THEN "due" ELSE @,
                              !.long  = IF b \in longs THEN "due" ELSE @]]
      BY ONLY <2>4, Zenon DEF SweepContext
    <3>2. \A b \in Blocks : sock'[b].opens = sock[b].opens /\ sock'[b].closes = sock[b].closes
      BY <1>1, <1>3, <3>1, SocketFields
    <3>3. UNCHANGED h
      BY <2>4 DEF SweepContext
    <3>. QED BY <1>c, <3>2, <3>3, HistorySame
  <2>5. CASE DispatchSweep \/ SeekNext \/ SweepAdvance \/ SweepDone
    BY <1>c, <2>5, HistorySame DEF DispatchSweep, SeekNext, SweepAdvance, SweepDone
  <2>. QED BY <1>6, <2>1, <2>2, <2>3, <2>4, <2>5 DEF Sweep
<1>7. CASE ContextClose
  <2>1. CASE UNCHANGED <<h, sock>>
    BY <1>c, <2>1, HistorySame
  <2>2. CASE ~UNCHANGED <<h, sock>>
    <3>1. closing.s \in Blocks /\ Live(h, closing.s) /\ h' = Close(h, closing.s)
      BY <1>7, <2>2, ContextCloseCloses
    <3>2. CASE ContextCloseListen
      <4>1. closing.s # NULL /\ CloseSemiSocket(closing.s) /\ closing.at = "listen"
        BY <2>2, <3>2 DEF ContextCloseListen
      <4>2. ListOf(h, closing.s) = <<closing.c, "listen">> /\ closing.c \in Contexts
        BY <4>1 DEF LInv, ClosingOK
      <4>3. h.kind[closing.s] = "listen"
        BY <4>2, PointerFacts DEF ListOf, ContextList
      <4>4. ~Established(closing.s)
        BY <4>3 DEF Established
      <4>. QED BY <1>c, <3>1, <4>1, <4>4, CloseSemiHistory
    <3>3. CASE ContextCloseSocket
      <4>1. closing.s # NULL /\ CloseSocket(closing.s) /\ closing.at = "sockets" /\ closing # Idle
        BY <2>2, <3>3 DEF ContextCloseSocket, Idle
      <4>2. ListOf(h, closing.s) = <<closing.c, "sockets">> /\ closing.c \in Contexts
        BY <4>1 DEF LInv, ClosingOK
      <4>3. h.kind[closing.s] # "listen"
        BY <4>2, PointerFacts DEF ListOf, ContextList
      <4>4. h.kind[closing.s] # "connecting"
        BY <1>2, <3>1, <4>1 DEF HistoryInv, HistoryOK, NoConnectClosed
      <4>5. h.kind[closing.s] \in {"socket", "shut_down"}
        <5>1. h.kind[closing.s] \in {"free", "listen", "connecting", "socket", "shut_down"}
          BY <1>1, <3>1 DEF Memory, Kinds
        <5>. QED BY <3>1, <4>3, <4>4, <5>1 DEF Live, Free
      <4>6. Established(closing.s)
        BY <3>1, <4>5 DEF Established
      <4>. QED BY <1>c, <3>1, <4>1, <4>6, CloseHistory
    <3>4. ~ContextCloseDone
      BY <2>2 DEF ContextCloseDone
    <3>. QED BY <1>7, <3>2, <3>3, <3>4 DEF ContextClose
  <2>. QED BY <2>1, <2>2
<1>8. CASE AppCall
  <2>1. ASSUME NEW s \in Blocks, NEW c \in Contexts, AppListen(s, c) \/ AppConnect(s, c)
        PROVE  HistoryInv'
    <3>1. Free(h, s)
      BY <2>1 DEF AppListen, AppConnect
    <3>2. PICK k \in {"listen", "connecting"}, e \in EventSets :
            /\ h' = Create(h, s, c, k) /\ sock' = [sock EXCEPT ![s] = [New(c) EXCEPT !.events = e]]
            /\ k = "connecting" => "connect" \in Inputs
      BY <2>1, FieldFacts DEF AppListen, AppConnect, May
    <3>3. k \in UsedKinds /\ k \notin {"socket", "shut_down"}
      BY DEF Kinds, UsedKinds
    <3>4. sock'[s].opens = 0 /\ sock'[s].closes = 0 /\ \A b \in Blocks \ {s} : sock'[b] = sock[b]
      BY <1>1, <3>2, NewHistory, FieldFacts
    <3>. QED BY <1>c, <3>1, <3>2, <3>3, <3>4, CreateHistory
  <2>2. ASSUME NEW s \in Blocks, NEW c \in Contexts, NEW n \in Blocks, AppAdopt(s, c, n)
        PROVE  HistoryInv'
    <3> DEFINE kept == [sock[s] EXCEPT !.short = "off", !.long = "off", !.home = c]
    <3>1. /\ Established(s)
          /\ n = s \/ Free(h, n)
          /\ h' = Adopt(h, s, c, n)
          /\ n # s => sock[s].events # {}
      BY <2>2 DEF AppAdopt, Supported
    <3>2. sock' = IF n = s THEN [sock EXCEPT ![s] = kept] ELSE [sock EXCEPT ![n] = kept, ![s] = Blank]
      BY <2>2, <3>1 DEF AppAdopt
    <3>3. Good(h) /\ (n = s \/ Free(h, n)) /\ Live(h, s) /\ h.kind[s] \in {"socket", "shut_down"}
      BY <1>1, <3>1 DEF Established
    <3> DEFINE u == Adopt(h, s, c, n)
    <3>4. Others(h, u, {s, n}) /\ Live(u, n)
      BY <3>3, AdoptKind
    <3>5. u.kind[n] = h.kind[s]
      BY <3>3, <3>4, AdoptKind
    <3>6. n # s => Free(u, s)
      BY <3>3, <3>4, AdoptKind
    <3> HIDE DEF u
    <3>7. h' = u
      BY <3>1 DEF u
    <3>8. kept.opens = sock[s].opens /\ kept.closes = sock[s].closes
      BY <1>3, SocketFields
    <3>9. Blank.opens = 0 /\ Blank.closes = 0
      BY DEF Blank
    <3> HIDE DEF kept
    <3>10. /\ sock'[n] = kept
           /\ n # s => sock'[s] = Blank
           /\ \A b \in Blocks \ {s, n} : sock'[b] = sock[b]
      BY <1>1, <3>2
    <3>11. sock[s].opens = 1 /\ sock[s].closes = 0
      BY <1>2, <3>1 DEF HistoryOK
    <3>12. HistoryOK(n)'
      BY <3>3, <3>4, <3>5, <3>7, <3>8, <3>10, <3>11 DEF HistoryOK, Established, Live, Closed
    <3>13. n # s => HistoryOK(s)'
      BY <3>6, <3>7, <3>9, <3>10 DEF HistoryOK, Established, Live, Closed, Free
    <3>. QED BY <1>c, <3>4, <3>7, <3>10, <3>12, <3>13, HistoryKept
  <2>3. ASSUME NEW s \in Blocks, AppClose(s) PROVE HistoryInv'
    BY <1>c, <2>3, CloseHistory DEF AppClose, CloseSocket
  <2>4. ASSUME NEW s \in Blocks, AppCloseSemi(s) PROVE HistoryInv'
    <3>1. Live(h, s) /\ h' = Close(h, s) /\ CloseSemiSocket(s) /\ ~Established(s)
      BY <1>1, <2>4, SemiIsClose DEF AppCloseSemi, CloseSemiSocket, Established
    <3>. QED BY <1>c, <3>1, CloseSemiHistory
  <2>5. ASSUME NEW s \in Blocks, AppShutdown(s) PROVE HistoryInv'
    <3>1. /\ Live(h, s) /\ h.kind[s] = "socket" /\ h' = [h EXCEPT !.kind[s] = "shut_down"]
          /\ sock' = [sock EXCEPT ![s].events = @ \cap {"R"}, ![s].owed = FALSE]
      BY <2>5 DEF AppShutdown
    <3>2. Others(h, h', {s}) /\ h'.kind[s] = "shut_down" /\ Live(h', s)
      BY <1>1, <3>1 DEF Others, Live, Free, Memory
    <3>3. /\ sock'[s].opens = sock[s].opens /\ sock'[s].closes = sock[s].closes
          /\ \A b \in Blocks \ {s} : sock'[b] = sock[b]
      BY <1>1, <1>3, <3>1, SocketFields
    <3>4. HistoryOK(s)'
      BY <1>2, <3>1, <3>2, <3>3 DEF HistoryOK, Established, Live, Closed
    <3>. QED BY <1>c, <3>2, <3>3, <3>4, HistoryBut
  <2>6. ASSUME NEW s \in Blocks, AppWrite(s) \/ AppWrite2(s) PROVE HistoryInv'
    <3>1. UNCHANGED h /\ sock' = [sock EXCEPT ![s].events = {"R", "W"}, ![s].owed = TRUE]
      BY <2>6 DEF AppWrite, AppWrite2
    <3>2. \A b \in Blocks : sock'[b].opens = sock[b].opens /\ sock'[b].closes = sock[b].closes
      BY <1>1, <1>3, <3>1, SocketFields
    <3>. QED BY <1>c, <3>1, <3>2, HistorySame
  <2>7. ASSUME NEW s \in Blocks, NEW timer \in {"off", "later"},
               AppTimeout(s, timer) \/ AppLongTimeout(s, timer)
        PROVE  HistoryInv'
    <3>1. UNCHANGED h /\ (sock' = [sock EXCEPT ![s].short = timer] \/ sock' = [sock EXCEPT ![s].long = timer])
      BY <2>7 DEF AppTimeout, AppLongTimeout
    <3>2. \A b \in Blocks : sock'[b].opens = sock[b].opens /\ sock'[b].closes = sock[b].closes
      BY <1>1, <1>3, <3>1, SocketFields
    <3>. QED BY <1>c, <3>1, <3>2, HistorySame
  <2>8. ASSUME NEW c \in Contexts, AppContextClose(c) PROVE HistoryInv'
    BY <1>c, <2>8, HistorySame DEF AppContextClose
  <2>. QED BY <1>8, <2>1, <2>2, <2>3, <2>4, <2>5, <2>6, <2>7, <2>8 DEF AppCall
<1>9. CASE Return
  BY <1>c, <1>9, HistorySame DEF Return
<1>. QED BY <1>4, <1>5, <1>6, <1>7, <1>8, <1>9 DEF Next, Library

(* The application sees one on_open and then one on_close for each socket,    *)
(* whichever of the loop, its own calls and us_socket_context_close closes it *)
(* first.  Left out is us_socket_context_close over a socket that is still    *)
(* connecting: it calls on_close for one that had no on_open.                 *)
THEOREM OpensAndCloses ==
  ASSUME Supported, NoConnectClosed
  PROVE  Spec => []OneOpenOneClose
<1>1. Init => HistoryInv
  <2>1. ASSUME Init PROVE HistoryInv
    <3>1. \A b \in Blocks : sock[b].opens = 0 /\ sock[b].closes = 0 /\ h.kind[b] = "free"
      BY <2>1 DEF Init, ListInit, EmptyMemory, Blank
    <3>2. closing = Idle
      BY <2>1 DEF Init
    <3>. QED BY <3>1, <3>2 DEF HistoryInv, HistoryOK, Established, Live, Closed, Free
  <2>. QED BY <2>1
<1>2. LInv /\ HistoryInv /\ [Next]_vars => HistoryInv'
  <2>1. ASSUME LInv, HistoryInv, UNCHANGED vars PROVE HistoryInv'
    BY <2>1, HistorySame DEF vars, HistoryInv
  <2>. QED BY <2>1, HistoryStep
<1>3. HistoryInv => OneOpenOneClose
  BY DEF HistoryInv, HistoryOK, OneOpenOneClose
<1>. QED BY <1>1, <1>2, <1>3, LoopInvariant, PTL DEF Spec

------------------------------------------------------------------------------

(* A socket that waits for writable is armed for it. *)

(* The application waits for on_writable only on an open socket, whose poll    *)
(* asks for writable.                                                         *)
ArmedOK(b) ==
  sock[b].owed => Live(h, b) /\ h.kind[b] = "socket" /\ "W" \in sock[b].events

(* After on_writable the poll is left alone if a write came short meanwhile.  *)
WriteNoted == at = "writable" /\ sock[cur].owed => lastWriteFailed

ArmedInv == (\A b \in Blocks : ArmedOK(b)) /\ WriteNoted

(* A step on the blocks of S: the others still wait for what they poll for.   *)
LEMMA ArmedKept ==
  ASSUME LInv, ArmedInv, NEW S, Others(h, h', S),
         \A b \in Blocks \ S :
           /\ sock'[b].owed => sock[b].owed
           /\ sock[b].owed /\ "W" \in sock[b].events => "W" \in sock'[b].events,
         \A b \in S \cap Blocks : ArmedOK(b)',
         WriteNoted'
  PROVE  ArmedInv'
<1>1. ASSUME NEW b \in Blocks \ S PROVE ArmedOK(b)'
  <2>1. h'.kind[b] = h.kind[b] /\ (Live(h', b) <=> Live(h, b))
    BY OthersSame
  <2>2. ArmedOK(b)
    BY DEF ArmedInv
  <2>. QED BY <2>1, <2>2 DEF ArmedOK
<1>2. \A b \in Blocks : ArmedOK(b)'
  BY <1>1
<1>. QED BY <1>2 DEF ArmedInv

(* A step that leaves the lists alone.                                        *)
LEMMA ArmedSame ==
  ASSUME LInv, ArmedInv, UNCHANGED h,
         \A b \in Blocks :
           /\ sock'[b].owed => sock[b].owed
           /\ sock[b].owed /\ "W" \in sock[b].events => "W" \in sock'[b].events,
         WriteNoted'
  PROVE  ArmedInv'
<1>1. Others(h, h', {})
  BY DEF Others
<1>. QED BY <1>1, ArmedKept

(* A step on one socket.                                                      *)
LEMMA ArmedBut ==
  ASSUME LInv, ArmedInv, NEW s \in Blocks, Others(h, h', {s}),
         \A b \in Blocks \ {s} : sock'[b] = sock[b],
         ArmedOK(s)', WriteNoted'
  PROVE  ArmedInv'
<1>1. \A b \in {s} \cap Blocks : ArmedOK(b)'
  OBVIOUS
<1>. QED BY <1>1, ArmedKept

(* last_write_failed matters only after on_writable.                          *)
LEMMA NotedElsewhere ==
  ASSUME at' # "writable"
  PROVE  WriteNoted'
BY DEF WriteNoted

(* ... also while handlers run.                                               *)
LEMMA NotedKept ==
  ASSUME LInv, ArmedInv, at' = at, cur' = cur, lastWriteFailed' = lastWriteFailed,
         \A b \in Blocks : sock'[b].owed => sock[b].owed
  PROVE  WriteNoted'
BY DEF LInv, CurOK, ArmedInv, WriteNoted

(* A closed socket is not owed anything.                                      *)
LEMMA CloseArmed ==
  ASSUME LInv, ArmedInv, NEW s \in Blocks, Live(h, s), h' = Close(h, s),
         CloseSocket(s) \/ CloseSemiSocket(s),
         lastWriteFailed' = lastWriteFailed, at' # "writable" \/ (at' = at /\ cur' = cur)
  PROVE  ArmedInv'
<1>1. Good(h) /\ sock \in [Blocks -> Socket]
  BY DEF LInv, TypeOK, Sound
<1>2. Others(h, h', {s})
  BY <1>1, CloseEffect
<1>3. sock[s] \in Socket
  BY <1>1
<1>4. Stopped(s).owed = FALSE /\ [Stopped(s) EXCEPT !.closes = Told(@)].owed = FALSE
  <2>1. Stopped(s) \in Socket /\ Stopped(s).owed = FALSE
    BY <1>3, SocketFields, FieldFacts DEF Stopped
  <2> DEFINE x == Stopped(s)
  <2>2. x \in Socket /\ x.owed = FALSE
    BY <2>1
  <2> HIDE DEF x
  <2>3. [x EXCEPT !.closes = Told(@)].owed = FALSE
    BY <2>2, SocketFields
  <2>. QED BY <2>1, <2>3 DEF x
<1>5. sock' = [sock EXCEPT ![s] = Stopped(s)] \/ sock' = [sock EXCEPT ![s] = [Stopped(s) EXCEPT !.closes = Told(@)]]
  BY DEF CloseSocket, CloseSemiSocket
<1>6. sock'[s].owed = FALSE /\ \A b \in Blocks \ {s} : sock'[b] = sock[b]
  BY <1>1, <1>4, <1>5
<1>7. ArmedOK(s)'
  BY <1>6 DEF ArmedOK
<1>8. \A b \in Blocks : sock'[b].owed => sock[b].owed
  BY <1>6
<1>9. WriteNoted'
  BY <1>8, NotedElsewhere, NotedKept
<1>. QED BY <1>2, <1>6, <1>7, <1>9, ArmedBut

(* A new socket is owed nothing.                                              *)
LEMMA NewOwed ==
  ASSUME NEW c \in Contexts, NEW e \in EventSets, NEW n \in Counts
  PROVE  /\ [New(c) EXCEPT !.events = e].owed = FALSE
         /\ [New(c) EXCEPT !.events = e, !.opens = n].owed = FALSE
<1>1. New(c) = [events |-> {}, reported |-> {}, short |-> "off", long |-> "off",
          opens |-> 0, closes |-> 0, ended |-> FALSE, owed |-> FALSE, home |-> c]
  BY NewTyped
<1>. QED BY ONLY <1>1

(* Creating a socket.                                                         *)
LEMMA CreateArmed ==
  ASSUME LInv, ArmedInv, NEW s \in Blocks, Free(h, s), NEW c \in Contexts, NEW k \in UsedKinds,
         h' = Create(h, s, c, k),
         \A b \in Blocks \ {s} : sock'[b] = sock[b],
         sock'[s].owed = FALSE, WriteNoted'
  PROVE  ArmedInv'
<1>1. Good(h)
  BY DEF LInv, Sound
<1>2. Others(h, h', {s})
  BY <1>1, CreateKind
<1>3. ArmedOK(s)'
  BY DEF ArmedOK
<1>. QED BY <1>2, <1>3, ArmedBut

(* Every step keeps the writable interest of the sockets that are owed        *)
(* on_writable.                                                               *)
LEMMA ArmedStep ==
  ASSUME LInv, Next, Supported, "write2" \notin Inputs, ArmedInv
  PROVE  ArmedInv'
<1>1. /\ sock \in [Blocks -> Socket] /\ h \in Memory /\ Good(h) /\ ListsBut(h, NULL) /\ CurOK
  BY DEF LInv, TypeOK, Sound, Good
<1>2. (\A b \in Blocks : ArmedOK(b)) /\ WriteNoted
  BY DEF ArmedInv
<1>3. \A b \in Blocks : sock[b] \in Socket
  BY <1>1
<1>4. CASE RunLoop
  <2>0. WriteNoted'
    BY <1>4, NotedElsewhere DEF RunLoop, LoopPre, LoopExit, HandleLowPrio, LowPrioHandled, EpollWait,
       DispatchUser, ReadyListDone, FreeClosed, LoopPost, position
  <2>1. CASE HandleLowPrio
    <3>1. h.head[LowPrio] # NULL
      BY <2>1 DEF HandleLowPrio
    <3>2. h.head[LowPrio] \in Blocks
      BY <1>1, <3>1, QueueHead
    <3>3. PICK s \in Blocks : s = h.head[LowPrio]
      BY <3>2
    <3>4. h' = Resume(h) /\ sock' = [sock EXCEPT ![s].events = @ \cup {"R"}]
      BY <2>1, <3>3 DEF HandleLowPrio
    <3>5. Others(h, h', {s})
      BY <1>1, <3>1, <3>3, <3>4, ResumeEffect
    <3>6. Live(h', s)
      BY <1>1, <3>1, <3>3, <3>4, <3>5, ResumeEffect
    <3>7. h'.kind = h.kind
      BY <1>1, <3>1, <3>3, <3>4, <3>5, ResumeEffect
    <3>8. /\ sock'[s].owed = sock[s].owed /\ sock'[s].events = sock[s].events \cup {"R"}
          /\ \A b \in Blocks \ {s} : sock'[b] = sock[b]
      BY <1>1, <1>3, <3>4, SocketFields
    <3>10. sock[s].owed => h.kind[s] = "socket" /\ "W" \in sock[s].events
      <4>1. ArmedOK(s)
        BY <1>2
      <4>. QED BY <1>1, <3>1, <3>3, <4>1, QueueHead DEF ArmedOK, Live
    <3>11. sock'[s].owed => h'.kind[s] = "socket" /\ "W" \in sock'[s].events
      BY <3>7, <3>8, <3>10
    <3>9. ArmedOK(s)'
      BY <3>6, <3>11 DEF ArmedOK
    <3>. QED BY <2>0, <3>5, <3>8, <3>9, ArmedBut
  <2>2. CASE FreeClosed
    <3>1. h.closed # NULL
      BY <2>2 DEF FreeClosed
    <3>2. h.closed \in Blocks
      BY <1>1, <3>1, FreeEffect
    <3>3. PICK s \in Blocks : s = h.closed
      BY <3>2
    <3>4. h' = FreeHead(h) /\ sock' = [sock EXCEPT ![s] = Blank]
      BY <2>2, <3>3 DEF FreeClosed
    <3>5. Others(h, h', {s})
      BY <1>1, <3>1, <3>3, <3>4, FreeEffect
    <3>6. sock'[s].owed = FALSE /\ \A b \in Blocks \ {s} : sock'[b] = sock[b]
      BY <1>1, <3>4 DEF Blank
    <3>7. ArmedOK(s)'
      BY <3>6 DEF ArmedOK
    <3>. QED BY <2>0, <3>5, <3>6, <3>7, ArmedBut
  <2>3. CASE EpollWait \/ ReadyListDone
    <3>1. \A b \in Blocks : sock'[b].owed = sock[b].owed /\ sock'[b].events = sock[b].events
      BY <1>3, <2>3, SocketFields DEF EpollWait, ReadyListDone
    <3>2. UNCHANGED h
      BY <2>3 DEF EpollWait, ReadyListDone
    <3>. QED BY <2>0, <3>1, <3>2, ArmedSame
  <2>4. CASE LoopPre \/ LoopExit \/ LowPrioHandled \/ DispatchUser \/ LoopPost
    BY <2>0, <2>4, ArmedSame DEF LoopPre, LoopExit, LowPrioHandled, DispatchUser, LoopPost
  <2>. QED BY <1>4, <2>1, <2>2, <2>3, <2>4 DEF RunLoop
<1>5. CASE Dispatch
  <2>1. ASSUME NEW s \in Blocks, DispatchConnected(s) PROVE ArmedInv'
    <3>1. /\ Live(h, s) /\ h.kind[s] = "connecting" /\ h' = [h EXCEPT !.kind[s] = "socket"]
          /\ sock' = [sock EXCEPT ![s].events = {"R"}, ![s].reported = {},
                                  ![s].short = "off", ![s].opens = Told(@)]
          /\ at' # "writable"
      BY <2>1 DEF DispatchConnected, position
    <3>2. ~sock[s].owed
      BY <1>2, <3>1 DEF ArmedOK
    <3>3. Others(h, h', {s})
      BY <1>1, <3>1 DEF Others, Live, Free, Memory
    <3>4. sock'[s].owed = sock[s].owed /\ \A b \in Blocks \ {s} : sock'[b] = sock[b]
      BY <1>1, <1>3, <3>1, SocketFields
    <3>5. ArmedOK(s)'
      BY <3>2, <3>4 DEF ArmedOK
    <3>. QED BY <3>1, <3>3, <3>4, <3>5, ArmedBut, NotedElsewhere
  <2>2. CASE CloseFailedConnect
    <3>1. cur \in Blocks /\ h.kind[cur] = "connecting" /\ at' = "dispatch"
          /\ lastWriteFailed' = lastWriteFailed
      BY <1>1, <2>2 DEF CloseFailedConnect, CurOK, ioVars
    <3>2. CASE Closed(h, cur)
      BY <2>2, <3>1, <3>2, ArmedSame, NotedElsewhere DEF CloseFailedConnect
    <3>3. CASE ~Closed(h, cur)
      <4>1. CloseSemiSocket(cur) /\ Live(h, cur)
        BY <2>2, <3>1, <3>3 DEF CloseFailedConnect, Live, Closed, Free
      <4>2. h' = Close(h, cur)
        BY <1>1, <3>1, <4>1, SemiIsClose DEF CloseSemiSocket
      <4>. QED BY <3>1, <4>1, <4>2, CloseArmed
    <3>. QED BY <3>2, <3>3
  <2>3. ASSUME NEW s \in Blocks, AcceptSocket(s) PROVE ArmedInv'
    <3>1. cur \in Blocks /\ h.kind[cur] = "listen" /\ Free(h, s)
      BY <1>1, <2>3 DEF AcceptSocket, CurOK
    <3>2. h.context[cur] \in Contexts
      BY <1>1, <3>1, LiveByPrev DEF Free
    <3>3. h' = Create(h, s, h.context[cur], "socket") /\ "socket" \in UsedKinds /\ at' # "writable"
      BY <2>3 DEF AcceptSocket, Kinds, UsedKinds
    <3>4. sock' = [sock EXCEPT ![s] = [New(h.context[cur]) EXCEPT !.events = {"R"}, !.opens = 1]]
      BY <2>3 DEF AcceptSocket
    <3>5. sock'[s].owed = FALSE /\ \A b \in Blocks \ {s} : sock'[b] = sock[b]
      BY <1>1, <3>2, <3>4, NewOwed, FieldFacts
    <3>. QED BY <3>1, <3>2, <3>3, <3>5, CreateArmed, NotedElsewhere
  <2>4. ASSUME NEW s \in Blocks, DispatchError(s) PROVE ArmedInv'
    BY <2>4, CloseArmed DEF DispatchError, CloseSocket, Established, position, ioVars
  <2>5. CASE RecvClose
    <3>1. cur \in Blocks /\ Established(cur) /\ CloseSocket(cur) /\ at' = "dispatch"
          /\ lastWriteFailed' = lastWriteFailed
      BY <1>1, <2>5 DEF RecvClose, CurOK, ioVars
    <3>. QED BY <3>1, CloseArmed DEF CloseSocket, Established
  <2>6. ASSUME NEW s \in Blocks, DispatchConnectError(s) \/ DispatchListen(s) \/ DispatchReadable(s)
        PROVE  ArmedInv'
    <3>1. UNCHANGED h /\ sock' = [sock EXCEPT ![s].reported = {}] /\ at' # "writable"
      BY <2>6 DEF DispatchConnectError, DispatchListen, DispatchReadable
    <3>2. \A b \in Blocks : sock'[b].owed = sock[b].owed /\ sock'[b].events = sock[b].events
      BY <1>1, <1>3, <3>1, SocketFields
    <3>. QED BY <3>1, <3>2, ArmedSame, NotedElsewhere
  <2>7. ASSUME NEW s \in Blocks, DispatchWritable(s) PROVE ArmedInv'
    <3>1. UNCHANGED h /\ sock' = [sock EXCEPT ![s].reported = {}, ![s].owed = FALSE] /\ cur' = s
      BY <2>7 DEF DispatchWritable
    <3>2. /\ sock'[s].owed = FALSE
          /\ \A b \in Blocks : (sock'[b].owed => sock[b].owed) /\ sock'[b].events = sock[b].events
      BY <1>1, <1>3, <3>1, SocketFields
    <3>3. WriteNoted'
      BY <3>1, <3>2 DEF WriteNoted
    <3>. QED BY <3>1, <3>2, <3>3, ArmedSame
  <2>8. CASE AfterWritable
    <3>1. /\ cur \in Blocks /\ UNCHANGED h /\ at' # "writable"
      BY <1>1, <2>8 DEF AfterWritable, CurOK
    <3>2. CASE UNCHANGED sock
      BY <3>1, <3>2, ArmedSame, NotedElsewhere
    <3>3. CASE ~UNCHANGED sock
      <4>1. /\ sock' = [sock EXCEPT ![cur].events = @ \cap {"R"}]
            /\ ~lastWriteFailed \/ h.kind[cur] = "shut_down"
            /\ at = "writable"
        BY <2>8, <3>3 DEF AfterWritable
      <4>2. ~sock[cur].owed
        BY <1>2, <3>1, <4>1 DEF WriteNoted, ArmedOK
      <4>3. /\ \A b \in Blocks : sock'[b].owed = sock[b].owed
            /\ \A b \in Blocks \ {cur} : sock'[b] = sock[b]
        BY <1>1, <1>3, <3>1, <4>1, SocketFields
      <4>. QED BY <3>1, <4>2, <4>3, ArmedSame, NotedElsewhere
    <3>. QED BY <3>2, <3>3
  <2>9. CASE ReadDeferred
    <3>1. PICK s \in Blocks : s = cur
      BY <1>1, <2>9 DEF ReadDeferred, CurOK
    <3>2. /\ Established(s) /\ ~Queued(h, s) /\ at' # "writable"
          /\ h' = Defer(h, s) /\ sock' = [sock EXCEPT ![s].events = @ \cap {"W"}]
      BY <1>1, <2>9, <3>1 DEF ReadDeferred, CurOK
    <3>3. Live(h, s) /\ h.lowPrio[s] # 1 /\ h.kind[s] \in {"socket", "shut_down"}
      BY <3>2 DEF Established, Queued
    <3>4. Others(h, h', {s})
      BY <1>1, <3>2, <3>3, DeferEffect
    <3>5. Live(h', s)
      BY <1>1, <3>2, <3>3, <3>4, DeferEffect
    <3>6. h'.kind = h.kind
      BY <1>1, <3>2, <3>3, <3>4, <3>5, DeferEffect
    <3>7. /\ sock'[s].owed = sock[s].owed /\ sock'[s].events = sock[s].events \cap {"W"}
          /\ \A b \in Blocks \ {s} : sock'[b] = sock[b]
      BY <1>1, <1>3, <3>2, SocketFields
    <3>9. ArmedOK(s)
      BY <1>2
    <3>10. sock[s].owed => h.kind[s] = "socket" /\ "W" \in sock[s].events
      BY <3>3, <3>9 DEF ArmedOK
    <3>11. sock'[s].owed => h'.kind[s] = "socket" /\ "W" \in sock'[s].events
      BY <3>6, <3>7, <3>10
    <3>8. ArmedOK(s)'
      BY <3>5, <3>11 DEF ArmedOK
    <3>. QED BY <3>2, <3>4, <3>7, <3>8, ArmedBut, NotedElsewhere
  <2>10. CASE RecvEnd
    <3>1. /\ cur \in Blocks /\ UNCHANGED h /\ at' # "writable"
          /\ sock' = [sock EXCEPT ![cur].events = @ \cap {"W"}, ![cur].ended = TRUE]
      BY <1>1, <2>10 DEF RecvEnd, CurOK
    <3>2. \A b \in Blocks : /\ sock'[b].owed = sock[b].owed
                            /\ "W" \in sock'[b].events <=> "W" \in sock[b].events
      BY <1>1, <1>3, <3>1, SocketFields
    <3>. QED BY <3>1, <3>2, ArmedSame, NotedElsewhere
  <2>11. CASE PreOpen \/ PreOpenExports \/ AcceptNext \/ AcceptDone
    BY <2>11, ArmedSame, NotedElsewhere DEF PreOpen, PreOpenExports, AcceptNext, AcceptDone
  <2>12. CASE ReadNow \/ ReadWithinBudget \/ RecvData \/ RecvAgain \/ RecvDone
    BY <2>12, ArmedSame, NotedElsewhere DEF ReadNow, ReadWithinBudget, RecvData, RecvAgain, RecvDone
  <2>13. CASE ReadResumed
    <3>1. PICK s \in Blocks : s = cur
      BY <1>1, <2>13 DEF ReadResumed, CurOK
    <3>2. h' = [h EXCEPT !.lowPrio[s] = 0] /\ UNCHANGED sock /\ at' # "writable"
      BY <2>13, <3>1 DEF ReadResumed
    <3>3. /\ Others(h, h', {s}) /\ h'.kind = h.kind /\ (Live(h', s) <=> Live(h, s))
      BY <1>1, <3>2 DEF Others, Live, Free, Memory
    <3>4. ArmedOK(s)'
      BY <1>2, <3>2, <3>3 DEF ArmedOK
    <3>. QED BY <3>2, <3>3, <3>4, ArmedBut, NotedElsewhere
  <2>. QED BY <1>5, <2>1, <2>2, <2>3, <2>4, <2>5, <2>6, <2>7, <2>8, <2>9, <2>10, <2>11, <2>12, <2>13
           DEF Dispatch
<1>6. CASE Sweep
  <2>0. WriteNoted'
    BY <1>6, NotedElsewhere DEF Sweep, DispatchSweep, SweepContext, SeekNext, SeekFound, SweepLong,
       SweepAdvance, SweepContextDone, SweepDone
  <2>1. CASE SeekFound
    <3>1. /\ cur \in Blocks /\ sweeping \in Contexts /\ h' = [h EXCEPT !.iterator[sweeping] = cur]
          /\ UNCHANGED sock \/ sock' = [sock EXCEPT ![cur].short = "off"]
      BY <1>1, <2>1 DEF SeekFound, CurOK
    <3>2. Others(h, h', {})
      BY <1>1, <3>1, IteratorOthers
    <3>3. \A b \in Blocks : sock'[b].owed = sock[b].owed /\ sock'[b].events = sock[b].events
      BY <1>1, <1>3, <3>1, SocketFields
    <3>. QED BY <2>0, <3>2, <3>3, ArmedKept
  <2>2. CASE SweepLong
    <3>1. /\ cur \in Blocks /\ UNCHANGED h
          /\ UNCHANGED sock \/ sock' = [sock EXCEPT ![cur].long = "off"]
      BY <1>1, <2>2 DEF SweepLong, CurOK
    <3>2. \A b \in Blocks : sock'[b].owed = sock[b].owed /\ sock'[b].events = sock[b].events
      BY <1>1, <1>3, <3>1, SocketFields
    <3>. QED BY <2>0, <3>1, <3>2, ArmedSame
  <2>3. CASE SweepContextDone
    <3>1. /\ h' = [h EXCEPT !.iterator[sweeping] = NULL] /\ sweeping \in Contexts
          /\ sock' = [b \in Blocks |->
               IF h.context[b] # sweeping THEN sock[b]
               ELSE [sock[b] EXCEPT !.short = IF @ = "due" THEN "later" ELSE @,
                                    !.long  = IF @ = "due" THEN "later" ELSE @]]
      BY <1>1, <2>3 DEF SweepContextDone, CurOK
    <3>2. Others(h, h', {})
      BY <1>1, <3>1, IteratorOthers
    <3>3. \A b \in Blocks : sock'[b].owed = sock[b].owed /\ sock'[b].events = sock[b].events
      BY <1>1, <1>3, <3>1, SocketFields
    <3>. QED BY <2>0, <3>2, <3>3, ArmedKept
  <2>4. ASSUME NEW c \in Contexts, SweepContext(c) PROVE ArmedInv'
    <3>1. PICK shorts \in SUBSET {b \in Blocks : h.context[b] = c /\ sock[b].short = "later"},
               longs \in SUBSET {b \in Blocks : h.context[b] = c /\ sock[b].long = "later"} :
            sock' = [b \in Blocks |->
              [sock[b] EXCEPT !.short = IF b \in shorts THEN "due" ELSE @,
                              !.long  = IF b \in longs THEN "due" ELSE @]]
      BY ONLY <2>4, Zenon DEF SweepContext
    <3>2. \A b \in Blocks : sock'[b].owed = sock[b].owed /\ sock'[b].events = sock[b].events
      BY <1>1, <1>3, <3>1, SocketFields
    <3>3. UNCHANGED h
      BY <2>4 DEF SweepContext
    <3>. QED BY <2>0, <3>2, <3>3, ArmedSame
  <2>5. CASE DispatchSweep \/ SeekNext \/ SweepAdvance \/ SweepDone
    BY <2>0, <2>5, ArmedSame DEF DispatchSweep, SeekNext, SweepAdvance, SweepDone
  <2>. QED BY <1>6, <2>1, <2>2, <2>3, <2>4, <2>5 DEF Sweep
<1>7. CASE ContextClose
  <2>1. UNCHANGED <<at, cur, lastWriteFailed>>
    BY <1>7 DEF ContextClose, ContextCloseListen, ContextCloseSocket, ContextCloseDone, position, ioVars
  <2>. QED BY <1>7, <2>1, ContextCloseCloses, CloseArmed, ArmedSame, NotedKept
<1>8. CASE AppCall
  <2>1. ASSUME NEW s \in Blocks, NEW c \in Contexts, AppListen(s, c) \/ AppConnect(s, c)
        PROVE  ArmedInv'
    <3>1. Free(h, s) /\ UNCHANGED <<at, cur, lastWriteFailed>>
      BY <2>1 DEF AppListen, AppConnect, LoopHandlers, position, ioVars
    <3>2. PICK k \in {"listen", "connecting"}, e \in EventSets :
            h' = Create(h, s, c, k) /\ sock' = [sock EXCEPT ![s] = [New(c) EXCEPT !.events = e]]
      BY <2>1, FieldFacts DEF AppListen, AppConnect
    <3>3. k \in UsedKinds
      BY DEF Kinds, UsedKinds
    <3>4. sock'[s].owed = FALSE /\ \A b \in Blocks \ {s} : sock'[b] = sock[b]
      BY <1>1, <3>2, NewOwed, FieldFacts
    <3>5. WriteNoted'
      BY <3>1, <3>4, NotedKept
    <3>. QED BY <3>1, <3>2, <3>3, <3>4, <3>5, CreateArmed
  <2>2. ASSUME NEW s \in Blocks, NEW c \in Contexts, NEW n \in Blocks, AppAdopt(s, c, n)
        PROVE  ArmedInv'
    <3> DEFINE kept == [sock[s] EXCEPT !.short = "off", !.long = "off", !.home = c]
    <3>1. /\ Established(s)
          /\ n = s \/ Free(h, n)
          /\ h' = Adopt(h, s, c, n)
          /\ n # s => sock[s].events # {}
          /\ UNCHANGED <<at, lastWriteFailed>>
          /\ cur' = IF cur = s /\ at \in {"writable", "more"} THEN n ELSE cur
      BY <2>2 DEF AppAdopt, Supported, ioVars
    <3>2. sock' = IF n = s THEN [sock EXCEPT ![s] = kept] ELSE [sock EXCEPT ![n] = kept, ![s] = Blank]
      BY <2>2, <3>1 DEF AppAdopt
    <3>3. Good(h) /\ (n = s \/ Free(h, n)) /\ Live(h, s) /\ h.kind[s] \in {"socket", "shut_down"}
      BY <1>1, <3>1 DEF Established
    <3> DEFINE u == Adopt(h, s, c, n)
    <3>4. Others(h, u, {s, n}) /\ Live(u, n)
      BY <3>3, AdoptKind
    <3>5. u.kind[n] = h.kind[s]
      BY <3>3, <3>4, AdoptKind
    <3> HIDE DEF u
    <3>6. h' = u
      BY <3>1 DEF u
    <3>7. kept.owed = sock[s].owed /\ kept.events = sock[s].events
      BY <1>3, SocketFields
    <3>8. Blank.owed = FALSE
      BY DEF Blank
    <3> HIDE DEF kept
    <3>9. /\ sock'[n] = kept
          /\ n # s => sock'[s] = Blank
          /\ \A b \in Blocks \ {s, n} : sock'[b] = sock[b]
      BY <1>1, <3>2
    <3>10. ArmedOK(n)'
      BY <1>2, <3>4, <3>5, <3>6, <3>7, <3>9 DEF ArmedOK
    <3>11. n # s => ArmedOK(s)'
      BY <3>8, <3>9 DEF ArmedOK
    <3>12. WriteNoted'
      <4>1. CASE at # "writable"
        BY <3>1, <4>1, NotedElsewhere
      <4>2. CASE at = "writable" /\ cur = s
        <5>1. cur' = n
          BY <3>1, <4>2
        <5>2. sock'[cur'].owed = sock[cur].owed
          BY <3>7, <3>9, <4>2, <5>1
        <5>. QED BY <1>2, <3>1, <4>2, <5>2 DEF WriteNoted
      <4>3. CASE at = "writable" /\ cur # s
        <5>1. cur' = cur /\ cur \in Blocks /\ ~Free(h, cur)
          BY <1>1, <3>1, <4>3 DEF CurOK, Free
        <5>2. cur # n
          BY <3>1, <4>3, <5>1
        <5>3. sock'[cur'].owed = sock[cur].owed
          BY <3>9, <4>3, <5>1, <5>2
        <5>. QED BY <1>2, <3>1, <4>3, <5>3 DEF WriteNoted
      <4>. QED BY <4>1, <4>2, <4>3
    <3>. QED BY <3>4, <3>6, <3>9, <3>10, <3>11, <3>12, ArmedKept
  <2>3. ASSUME NEW s \in Blocks, AppClose(s) PROVE ArmedInv'
    BY <2>3, CloseArmed DEF AppClose, CloseSocket, Established, position, ioVars
  <2>4. ASSUME NEW s \in Blocks, AppCloseSemi(s) PROVE ArmedInv'
    <3>1. Live(h, s) /\ h' = Close(h, s) /\ CloseSemiSocket(s) /\ UNCHANGED <<at, cur, lastWriteFailed>>
      BY <1>1, <2>4, SemiIsClose DEF AppCloseSemi, CloseSemiSocket, LoopHandlers, position, ioVars
    <3>. QED BY <3>1, CloseArmed
  <2>5. ASSUME NEW s \in Blocks, AppShutdown(s) PROVE ArmedInv'
    <3>1. /\ Live(h, s) /\ h.kind[s] = "socket" /\ h' = [h EXCEPT !.kind[s] = "shut_down"]
          /\ sock' = [sock EXCEPT ![s].events = @ \cap {"R"}, ![s].owed = FALSE]
          /\ UNCHANGED <<at, cur, lastWriteFailed>>
      BY <2>5 DEF AppShutdown, LoopHandlers, position, ioVars
    <3>2. Others(h, h', {s})
      BY <1>1, <3>1 DEF Others, Live, Free, Memory
    <3>3. sock'[s].owed = FALSE /\ \A b \in Blocks \ {s} : sock'[b] = sock[b]
      BY <1>1, <1>3, <3>1, SocketFields
    <3>4. ArmedOK(s)' /\ WriteNoted'
      BY <3>1, <3>3, NotedKept DEF ArmedOK
    <3>. QED BY <3>2, <3>3, <3>4, ArmedBut
  <2>6. ASSUME NEW s \in Blocks, AppWrite(s) PROVE ArmedInv'
    <3>1. /\ Live(h, s) /\ h.kind[s] = "socket" /\ UNCHANGED h /\ lastWriteFailed' = TRUE
          /\ sock' = [sock EXCEPT ![s].events = {"R", "W"}, ![s].owed = TRUE]
      BY <2>6 DEF AppWrite
    <3>2. sock'[s].events = {"R", "W"} /\ \A b \in Blocks \ {s} : sock'[b] = sock[b]
      BY <1>1, <1>3, <3>1, SocketFields
    <3>3. ArmedOK(s)' /\ WriteNoted'
      BY <3>1, <3>2 DEF ArmedOK, WriteNoted, Live, Free
    <3>4. Others(h, h', {s})
      BY <3>1 DEF Others
    <3>. QED BY <3>2, <3>3, <3>4, ArmedBut
  <2>7. ASSUME NEW s \in Blocks, AppWrite2(s) PROVE ArmedInv'
    BY <2>7 DEF AppWrite2, May
  <2>8. ASSUME NEW s \in Blocks, NEW timer \in {"off", "later"},
               AppTimeout(s, timer) \/ AppLongTimeout(s, timer)
        PROVE  ArmedInv'
    <3>1. /\ UNCHANGED <<h, at, cur, lastWriteFailed>>
          /\ sock' = [sock EXCEPT ![s].short = timer] \/ sock' = [sock EXCEPT ![s].long = timer]
      BY <2>8 DEF AppTimeout, AppLongTimeout, LoopHandlers, position, ioVars
    <3>2. \A b \in Blocks : sock'[b].owed = sock[b].owed /\ sock'[b].events = sock[b].events
      BY <1>1, <1>3, <3>1, SocketFields
    <3>. QED BY <3>1, <3>2, ArmedSame, NotedKept
  <2>9. ASSUME NEW c \in Contexts, AppContextClose(c) PROVE ArmedInv'
    BY <2>9, ArmedSame, NotedKept DEF AppContextClose, position, ioVars
  <2>. QED BY <1>8, <2>1, <2>2, <2>3, <2>4, <2>5, <2>6, <2>7, <2>8, <2>9 DEF AppCall
<1>9. CASE Return
  BY <1>9, ArmedSame, NotedKept DEF Return, position, ioVars
<1>. QED BY <1>4, <1>5, <1>6, <1>7, <1>8, <1>9 DEF Next, Library

(* A short write is followed by on_writable: until it has come, the poll asks *)
(* for writable, through dispatch, adoption and the low-priority queue.  Left *)
(* out is us_socket_write2, which does not set last_write_failed: called from *)
(* on_writable, its short write is forgotten by the dispatcher.               *)
THEOREM WritableStaysArmed ==
  ASSUME Supported, "write2" \notin Inputs
  PROVE  Spec => []WritableArmed
<1>1. Init => ArmedInv
  <2>1. ASSUME Init PROVE ArmedInv
    <3>1. (\A b \in Blocks : sock[b].owed = FALSE) /\ at = "pre"
      BY <2>1 DEF Init, Blank
    <3>. QED BY <3>1 DEF ArmedInv, ArmedOK, WriteNoted
  <2>. QED BY <2>1
<1>2. LInv /\ ArmedInv /\ [Next]_vars => ArmedInv'
  <2>1. ASSUME LInv, ArmedInv, UNCHANGED vars PROVE ArmedInv'
    BY <2>1, ArmedSame, NotedKept DEF vars
  <2>. QED BY <2>1, ArmedStep
<1>3. ArmedInv => WritableArmed
  BY DEF ArmedInv, ArmedOK, WritableArmed
<1>. QED BY <1>1, <1>2, <1>3, LoopInvariant, PTL DEF Spec

------------------------------------------------------------------------------

(* Walks that pass a socket by, and the empty queue. *)

(* Nothing is reached from the end of a list.                                 *)
LEMMA ReachNull ==
  ASSUME NEW f, NEW b
  PROVE  ~Reach(f, NULL, b)
<1>1. HoldsFrom(f, NULL, {}) /\ {} \in SUBSET Blocks
  BY DEF HoldsFrom
<1>. QED BY <1>1 DEF Reach

(* What is reached from a block, and is not the block, is reached from its    *)
(* successor.                                                                 *)
LEMMA ReachOn ==
  ASSUME NEW f, NEW x \in Blocks, NEW b, b # x, Reach(f, x, b)
  PROVE  Reach(f, f[x], b)
<1>1. SUFFICES ASSUME NEW T \in SUBSET Blocks, HoldsFrom(f, f[x], T) PROVE b \in T
  BY DEF Reach
<1>2. T \cup {x} \in SUBSET Blocks /\ HoldsFrom(f, x, T \cup {x})
  BY <1>1 DEF HoldsFrom
<1>3. b \in T \cup {x}
  BY <1>2 DEF Reach
<1>. QED BY <1>3

(* A walk of a list of a context that passes s by still meets the others,     *)
(* if it moves on from s when it stands there.                                *)
LEMMA ReachPast ==
  ASSUME NEW m, Good(m), NEW u, NEW s \in Blocks, Skips(m, u, s),
         NEW x \in Pointers, x # NULL => Live(m, x) /\ ListOf(m, x) # LowPrio,
         NEW b \in Blocks, b # s, Reach(m.next, x, b)
  PROVE  Reach(u.next, IF x = s THEN m.next[s] ELSE x, b)
<1> DEFINE L == {t \in Blocks : Live(m, t) /\ ListOf(m, t) # LowPrio}
           y == IF x = s THEN m.next[s] ELSE x
<1>1. m \in Memory /\ ListsBut(m, NULL) /\ NULL \notin Blocks
  BY PointerFacts DEF Good
<1>2. \A t \in L : m.next[t] = NULL \/ (m.next[t] \in L /\ m.next[t] # t)
  <2>1. ASSUME NEW t \in L, m.next[t] # NULL PROVE m.next[t] \in L /\ m.next[t] # t
    BY <1>1, <2>1, Neighbours DEF Pointers
  <2>. QED BY <2>1
<1>3. \A t \in L \ {s} : u.next[t] = IF m.next[t] = s THEN m.next[s] ELSE m.next[t]
  BY DEF Skips
<1>4. x = NULL \/ x \in L
  BY DEF Pointers
<1>5. SUFFICES ASSUME NEW T \in SUBSET Blocks, HoldsFrom(u.next, y, T) PROVE b \in T
  BY DEF Reach
<1> DEFINE R == ((T \cap L) \ {s}) \cup {t \in {s} \cap L : m.next[s] \in T \cup {NULL}}
<1> HIDE DEF L
<1>6. y \in T \cup {NULL} /\ \A t \in T : u.next[t] \in T \cup {NULL}
  BY <1>5 DEF HoldsFrom
<1>7. x \in R \cup {NULL}
  BY <1>4, <1>6
<1>8. ASSUME NEW t \in R PROVE m.next[t] \in R \cup {NULL}
  <2>1. CASE t = s
    <3>1. s \in L /\ m.next[s] \in T \cup {NULL}
      BY <1>8, <2>1
    <3>. QED BY <3>1, <2>1, <1>2
  <2>2. CASE t # s
    <3>1. t \in T \cap L
      BY <1>8, <2>2
    <3>2. CASE m.next[t] = s
      BY <1>1, <1>2, <1>3, <1>6, <2>2, <3>1, <3>2
    <3>3. CASE m.next[t] # s
      BY <1>2, <1>3, <1>6, <2>2, <3>1, <3>3
    <3>. QED BY <3>2, <3>3
  <2>. QED BY <2>1, <2>2
<1>9. R \in SUBSET Blocks
  BY DEF L
<1>10. b \in R
  <2> HIDE DEF R
  <2>. QED BY <1>7, <1>8, <1>9 DEF Reach, HoldsFrom
<1>. QED BY <1>10

-----------------------------------------------------------------------------
(* Where low-priority sockets are not explored, no socket is queued.          *)
NoneQueued == \A b \in Blocks : Live(h, b) => h.lowPrio[b] = 0

(* A step on the blocks of S queues none.                                     *)
LEMMA NoneQueuedKept ==
  ASSUME NoneQueued, NEW S, Others(h, h', S),
         \A b \in S \cap Blocks : Live(h', b) => h'.lowPrio[b] = 0
  PROVE  NoneQueued'
BY DEF NoneQueued, Others

(* Nor does a close.                                                          *)
LEMMA NoneQueuedClose ==
  ASSUME LInv, NoneQueued, NEW s \in Blocks, Live(h, s), h' = Close(h, s)
  PROVE  NoneQueued'
<1>1. Good(h)
  BY DEF LInv, Sound
<1>2. Others(h, h', {s})
  BY <1>1, CloseEffect
<1>3. ~Live(h', s)
  BY <1>1, <1>2, CloseEffect
<1>. QED BY <1>2, <1>3, NoneQueuedKept

(* Nor does a new socket.                                                     *)
LEMMA NoneQueuedCreate ==
  ASSUME LInv, NoneQueued, NEW s \in Blocks, Free(h, s), NEW c \in Contexts, NEW k \in UsedKinds,
         h' = Create(h, s, c, k)
  PROVE  NoneQueued'
<1>1. Good(h)
  BY DEF LInv, Sound
<1>2. Others(h, h', {s}) /\ h'.lowPrio[s] = 0
  BY <1>1, CreateKind
<1>. QED BY <1>2, NoneQueuedKept

(* Without low-priority sockets the queue stays empty.                        *)
LEMMA NoneQueuedStep ==
  ASSUME LInv, Next, Supported, "low_prio" \notin Inputs, NoneQueued
  PROVE  NoneQueued'
<1>1. h \in Memory /\ Good(h) /\ CurOK
  BY DEF LInv, TypeOK, Sound, Good
<1>2. CASE UNCHANGED h
  BY <1>2 DEF NoneQueued, Live, Free
<1>3. CASE RunLoop
  <2>1. CASE HandleLowPrio
    BY <1>1, <2>1, QueueHead DEF HandleLowPrio, NoneQueued, Queued
  <2>2. CASE FreeClosed
    <3>1. h.closed # NULL /\ h' = FreeHead(h)
      BY <2>2 DEF FreeClosed
    <3>2. Others(h, h', {h.closed}) /\ Free(h', h.closed)
      BY <1>1, <3>1, FreeEffect
    <3>. QED BY <3>2, NoneQueuedKept DEF Live
  <2>. QED BY <1>2, <1>3, <2>1, <2>2 DEF RunLoop, LoopPre, LoopExit, LowPrioHandled, EpollWait,
       DispatchUser, ReadyListDone, LoopPost
<1>4. CASE Dispatch
  <2>1. ASSUME NEW s \in Blocks, DispatchConnected(s) PROVE NoneQueued'
    <3>1. Live(h, s) /\ h' = [h EXCEPT !.kind[s] = "socket"]
      BY <2>1 DEF DispatchConnected
    <3>2. Others(h, h', {s}) /\ h'.lowPrio[s] = h.lowPrio[s]
      BY <1>1, <3>1 DEF Others, Live, Free, Memory
    <3>. QED BY <3>1, <3>2, NoneQueuedKept DEF NoneQueued
  <2>2. CASE CloseFailedConnect
    <3>1. cur \in Blocks /\ h.kind[cur] = "connecting"
      BY <1>1, <2>2 DEF CloseFailedConnect, CurOK
    <3>2. CASE Closed(h, cur)
      BY <1>2, <2>2, <3>2 DEF CloseFailedConnect
    <3>3. CASE ~Closed(h, cur)
      <4>1. Live(h, cur) /\ h' = Close(h, cur)
        BY <1>1, <2>2, <3>1, <3>3, SemiIsClose
           DEF CloseFailedConnect, CloseSemiSocket, Live, Closed, Free
      <4>. QED BY <3>1, <4>1, NoneQueuedClose
    <3>. QED BY <3>2, <3>3
  <2>3. ASSUME NEW s \in Blocks, AcceptSocket(s) PROVE NoneQueued'
    <3>1. cur \in Blocks /\ h.kind[cur] = "listen" /\ Free(h, s)
      BY <1>1, <2>3 DEF AcceptSocket, CurOK
    <3>2. h.context[cur] \in Contexts
      BY <1>1, <3>1, LiveByPrev DEF Free
    <3>3. h' = Create(h, s, h.context[cur], "socket") /\ "socket" \in UsedKinds
      BY <2>3 DEF AcceptSocket, Kinds, UsedKinds
    <3>. QED BY <3>1, <3>2, <3>3, NoneQueuedCreate
  <2>4. ASSUME NEW s \in Blocks, DispatchError(s) PROVE NoneQueued'
    BY <2>4, NoneQueuedClose DEF DispatchError, CloseSocket, Established
  <2>5. CASE RecvClose
    BY <1>1, <2>5, NoneQueuedClose DEF RecvClose, CloseSocket, Established, CurOK
  <2>6. ASSUME NEW s \in Blocks, DispatchConnectError(s) \/ DispatchListen(s)
                                 \/ DispatchWritable(s) \/ DispatchReadable(s)
        PROVE  UNCHANGED h
    BY <2>6 DEF DispatchConnectError, DispatchListen, DispatchWritable, DispatchReadable
  <2>7. CASE PreOpen \/ PreOpenExports \/ AcceptNext \/ AcceptDone \/ AfterWritable
    BY <1>2, <2>7 DEF PreOpen, PreOpenExports, AcceptNext, AcceptDone, AfterWritable
  <2>8. CASE ReadNow \/ ReadWithinBudget \/ RecvData \/ RecvAgain \/ RecvDone \/ RecvEnd
    BY <1>2, <2>8 DEF ReadNow, ReadWithinBudget, RecvData, RecvAgain, RecvDone, RecvEnd
  <2>9. CASE ReadResumed \/ ReadDeferred
    BY <2>9 DEF ReadResumed, ReadDeferred
  <2>. QED BY <1>2, <1>4, <2>1, <2>2, <2>3, <2>4, <2>5, <2>6, <2>7, <2>8, <2>9 DEF Dispatch
<1>5. CASE Sweep
  <2>1. ASSUME NEW p, NEW c, h' = [h EXCEPT !.iterator[c] = p] PROVE NoneQueued'
    BY <1>1, <2>1 DEF NoneQueued, Live, Free, Memory
  <2>2. CASE SeekFound \/ SweepContextDone
    BY <2>1, <2>2 DEF SeekFound, SweepContextDone
  <2>. QED BY <1>2, <1>5, <2>2 DEF Sweep, DispatchSweep, SweepContext, SeekNext, SweepLong,
       SweepAdvance, SweepDone
<1>6. CASE ContextClose
  BY <1>2, <1>6, ContextCloseCloses, NoneQueuedClose
<1>7. CASE AppCall
  <2>1. ASSUME NEW s \in Blocks, NEW c \in Contexts, AppListen(s, c) \/ AppConnect(s, c)
        PROVE  NoneQueued'
    <3>1. PICK k \in UsedKinds : h' = Create(h, s, c, k) /\ Free(h, s)
      BY <2>1 DEF AppListen, AppConnect, Kinds, UsedKinds
    <3>. QED BY <3>1, NoneQueuedCreate
  <2>2. ASSUME NEW s \in Blocks, NEW c \in Contexts, NEW n \in Blocks, AppAdopt(s, c, n)
        PROVE  NoneQueued'
    <3>1. /\ Live(h, s) /\ h.kind[s] \in {"socket", "shut_down"}
          /\ n = s \/ Free(h, n)
          /\ h' = Adopt(h, s, c, n)
      BY <2>2 DEF AppAdopt, Established
    <3>2. Others(h, h', {s, n})
      BY <1>1, <3>1, AdoptEffect
    <3>3. h'.lowPrio[n] = h.lowPrio[s]
      BY <1>1, <3>1, <3>2, AdoptEffect
    <3>4. n # s => Free(h', s)
      BY <1>1, <3>1, <3>2, AdoptEffect
    <3>5. h'.lowPrio[n] = 0 /\ (n # s => ~Live(h', s))
      BY <3>1, <3>3, <3>4 DEF NoneQueued, Live
    <3>. QED BY <3>2, <3>5, NoneQueuedKept
  <2>3. ASSUME NEW s \in Blocks, AppClose(s) PROVE NoneQueued'
    BY <2>3, NoneQueuedClose DEF AppClose, CloseSocket, Established
  <2>4. ASSUME NEW s \in Blocks, AppCloseSemi(s) PROVE NoneQueued'
    BY <1>1, <2>4, SemiIsClose, NoneQueuedClose DEF AppCloseSemi, CloseSemiSocket
  <2>5. ASSUME NEW s \in Blocks, AppShutdown(s) PROVE NoneQueued'
    <3>1. Live(h, s) /\ h' = [h EXCEPT !.kind[s] = "shut_down"]
      BY <2>5 DEF AppShutdown
    <3>2. Others(h, h', {s}) /\ h'.lowPrio[s] = h.lowPrio[s]
      BY <1>1, <3>1 DEF Others, Live, Free, Memory
    <3>. QED BY <3>1, <3>2, NoneQueuedKept DEF NoneQueued
  <2>6. ASSUME NEW s \in Blocks, AppWrite(s) \/ AppWrite2(s) PROVE UNCHANGED h
    BY <2>6 DEF AppWrite, AppWrite2
  <2>7. ASSUME NEW s \in Blocks, NEW timer \in {"off", "later"},
               AppTimeout(s, timer) \/ AppLongTimeout(s, timer)
        PROVE  UNCHANGED h
    BY <2>7 DEF AppTimeout, AppLongTimeout
  <2>8. ASSUME NEW c \in Contexts, AppContextClose(c) PROVE UNCHANGED h
    BY <2>8 DEF AppContextClose
  <2>. QED BY <1>2, <1>7, <2>1, <2>2, <2>3, <2>4, <2>5, <2>6, <2>7, <2>8 DEF AppCall
<1>8. CASE Return
  BY <1>2, <1>8 DEF Return
<1>. QED BY <1>3, <1>4, <1>5, <1>6, <1>7, <1>8 DEF Next, Library

------------------------------------------------------------------------------

(* A context close closes every socket. *)

(* What us_socket_context_close has still to close it will meet: the listen   *)
(* sockets while it walks their list, the others then or when it walks        *)
(* theirs.                                                                    *)
Ahead(b) ==
  /\ ~Free(h, b) /\ h.context[b] = closing.c
  /\ Live(h, b) /\ closing.at = "listen" /\ h.kind[b] = "listen" => Reach(h.next, closing.s, b)
  /\ Live(h, b) /\ closing.at = "sockets" => h.kind[b] # "listen" /\ Reach(h.next, closing.s, b)

CloseAllInv ==
  /\ NoneQueued
  /\ closing.at # "idle" => \A b \in closing.all : Ahead(b)

(* A step of the walk: the socket it stands on is closed, the others are      *)
(* ahead of the next.                                                         *)
LEMMA CloseAhead ==
  ASSUME LInv, CloseAllInv, closing.at # "idle", closing.s # NULL,
         h' = Close(h, closing.s), closing' = [closing EXCEPT !.s = h.next[closing.s]]
  PROVE  closing'.at # "idle" => \A b \in closing'.all : Ahead(b)'
<1> DEFINE s == closing.s
<1>1. /\ Good(h) /\ closing.all \in SUBSET Blocks /\ s \in Blocks
      /\ Live(h, s) /\ ListOf(h, s) = <<closing.c, closing.at>> /\ closing.c \in Contexts
  BY DEF LInv, TypeOK, Sound, ClosingOK, Pointers
<1>2. /\ closing'.at = closing.at /\ closing'.c = closing.c /\ closing'.all = closing.all
      /\ closing'.s = h.next[s]
  BY DEF LInv, TypeOK
<1>3. Others(h, h', {s}) /\ Skips(h, h', s)
  BY <1>1, CloseEffect
<1>4. ~Live(h', s) /\ ~Free(h', s) /\ h'.kind = h.kind /\ h'.context = h.context
  BY <1>1, <1>3, CloseEffect
<1>5. ListOf(h, s) # LowPrio
  BY <1>1, PointerFacts DEF LowPrio
<1>6. SUFFICES ASSUME NEW b \in closing.all PROVE Ahead(b)'
  BY <1>2
<1>7. Ahead(b) /\ b \in Blocks
  BY <1>1 DEF CloseAllInv
<1>8. CASE b = s
  BY <1>2, <1>4, <1>7, <1>8 DEF Ahead
<1>9. CASE b # s
  <2>1. (Live(h', b) <=> Live(h, b)) /\ (Free(h', b) <=> Free(h, b))
    BY <1>3, <1>7, <1>9, OthersSame
  <2>2. Reach(h.next, s, b) => Reach(h'.next, h.next[s], b)
    <3> HIDE DEF s
    <3>1. s \in Pointers
      BY <1>1 DEF Pointers
    <3>. QED BY <1>1, <1>3, <1>5, <1>7, <1>9, <3>1, ReachPast
  <2>. QED BY <1>2, <1>4, <1>7, <2>1, <2>2 DEF Ahead
<1>. QED BY <1>8, <1>9

(* A new block is none of those.                                              *)
LEMMA CreateAhead ==
  ASSUME LInv, CloseAllInv, NEW s \in Blocks, Free(h, s), NEW c \in Contexts, NEW k \in UsedKinds,
         h' = Create(h, s, c, k), UNCHANGED closing
  PROVE  closing'.at # "idle" => \A b \in closing'.all : Ahead(b)'
<1>1. Good(h) /\ closing.all \in SUBSET Blocks /\ closing.s \in Pointers
  BY DEF LInv, TypeOK, Sound
<1>2. Others(h, h', {s})
  BY <1>1, CreateKind
<1>3. Skips(h, Create(h, s, c, k), s)
  BY <1>1, <1>2, CreateEffect
<1>4. SUFFICES ASSUME closing.at # "idle", NEW b \in closing.all PROVE Ahead(b)'
  OBVIOUS
<1>5. Ahead(b) /\ b \in Blocks /\ b # s
  BY <1>1, <1>4 DEF CloseAllInv, Ahead
<1>6. /\ h'.kind[b] = h.kind[b] /\ h'.context[b] = h.context[b]
      /\ (Live(h', b) <=> Live(h, b)) /\ (Free(h', b) <=> Free(h, b))
  BY <1>2, <1>5, OthersSame
<1>7. /\ closing.s # s
      /\ closing.s # NULL => Live(h, closing.s) /\ ListOf(h, closing.s) # LowPrio
  <2>1. closing.c \in Contexts /\ <<closing.c, closing.at>> # LowPrio
    BY <1>4, PointerFacts DEF LInv, ClosingOK, LowPrio
  <2>2. closing.s # NULL => Live(h, closing.s) /\ ListOf(h, closing.s) = <<closing.c, closing.at>>
    BY <1>4 DEF LInv, ClosingOK
  <2>. QED BY <2>1, <2>2, PointerFacts DEF Live
<1>8. Reach(h.next, closing.s, b) => Reach(h'.next, closing.s, b)
  BY <1>1, <1>3, <1>5, <1>7, ReachPast
<1>. QED BY <1>5, <1>6, <1>8 DEF Ahead

(* Every step keeps what is left to close ahead of the walk.                  *)
LEMMA CloseAllStep ==
  ASSUME LInv, Next, Supported, "low_prio" \notin Inputs, IsFiniteSet(Blocks), CloseAllInv
  PROVE  CloseAllInv'
<1>1. /\ h \in Memory /\ Good(h) /\ ListsBut(h, NULL) /\ ClosingOK /\ closing.s \in Pointers
      /\ closing.all \in SUBSET Blocks
  BY DEF LInv, TypeOK, Sound, Good
<1>2. NoneQueued'
  BY NoneQueuedStep DEF CloseAllInv
<1>3. CASE closing' = Idle
  BY <1>2, <1>3 DEF CloseAllInv, Idle
<1>4. CASE UNCHANGED <<h, closing>>
  BY <1>2, <1>4 DEF CloseAllInv, Ahead, Live, Free
<1>5. \A b \in Blocks : Live(h, b) => ListOf(h, b) = ContextList(h, b)
  BY DEF CloseAllInv, NoneQueued, ListOf
<1>6. CASE RunLoop
  <2>1. InLibrary /\ UNCHANGED closing
    BY <1>6 DEF RunLoop, LoopPre, LoopExit, HandleLowPrio, LowPrioHandled, EpollWait,
       DispatchUser, ReadyListDone, FreeClosed, LoopPost
  <2>. QED BY <1>3, <2>1 DEF InLibrary
<1>7. CASE Dispatch
  <2>1. InLibrary /\ UNCHANGED closing
    <3>1. CASE \E s \in Blocks : DispatchConnected(s) \/ DispatchConnectError(s) \/ DispatchListen(s)
                                   \/ AcceptSocket(s)
      BY <3>1 DEF DispatchConnected, DispatchConnectError, DispatchListen, AcceptSocket
    <3>2. CASE \E s \in Blocks : DispatchError(s) \/ DispatchWritable(s) \/ DispatchReadable(s)
      BY <3>2 DEF DispatchError, DispatchWritable, DispatchReadable
    <3>3. CASE CloseFailedConnect \/ PreOpen \/ PreOpenExports \/ AcceptNext \/ AcceptDone \/ AfterWritable
      BY <3>3 DEF CloseFailedConnect, PreOpen, PreOpenExports, AcceptNext, AcceptDone, AfterWritable
    <3>4. CASE ReadNow \/ ReadResumed \/ ReadWithinBudget \/ ReadDeferred
      BY <3>4 DEF ReadNow, ReadResumed, ReadWithinBudget, ReadDeferred
    <3>5. CASE RecvData \/ RecvAgain \/ RecvDone \/ RecvEnd \/ RecvClose
      BY <3>5 DEF RecvData, RecvAgain, RecvDone, RecvEnd, RecvClose
    <3>. QED BY <1>7, <3>1, <3>2, <3>3, <3>4, <3>5 DEF Dispatch
  <2>. QED BY <1>3, <2>1 DEF InLibrary
<1>8. CASE Sweep
  <2>1. InLibrary /\ UNCHANGED closing
    BY <1>8 DEF Sweep, DispatchSweep, SweepContext, SeekNext, SeekFound, SweepLong, SweepAdvance,
       SweepContextDone, SweepDone
  <2>. QED BY <1>3, <2>1 DEF InLibrary
<1>9. CASE ContextClose
  <2>1. closing.at # "idle" /\ closing.c \in Contexts /\ \A b \in closing.all : Ahead(b)
    BY <1>1, <1>9 DEF ContextClose, ContextCloseListen, ContextCloseSocket, ContextCloseDone,
       ClosingOK, CloseAllInv
  <2>2. CASE closing.s # NULL
    <3>1. /\ closing.s \in Blocks /\ Live(h, closing.s) /\ ListOf(h, closing.s) = <<closing.c, closing.at>>
          /\ closing' = [closing EXCEPT !.s = h.next[closing.s]]
      BY <1>1, <1>9, <2>1, <2>2
         DEF ClosingOK, ContextClose, ContextCloseListen, ContextCloseSocket, ContextCloseDone, Pointers
    <3>2. h' = Close(h, closing.s)
      <4>1. CASE ContextCloseListen
        <5>1. h.kind[closing.s] = "listen"
          BY <2>1, <3>1, <4>1, PointerFacts DEF ContextCloseListen, ListOf, ContextList
        <5>. QED BY <1>1, <2>2, <3>1, <4>1, <5>1, SemiIsClose DEF ContextCloseListen, CloseSemiSocket
      <4>2. CASE ContextCloseSocket
        BY <3>1, <4>2 DEF ContextCloseSocket, CloseSocket, Live, Closed
      <4>3. CASE ContextCloseDone
        BY <2>2, <4>3 DEF ContextCloseDone
      <4>. QED BY <1>9, <4>1, <4>2, <4>3 DEF ContextClose
    <3>. QED BY <1>2, <2>1, <2>2, <3>1, <3>2, CloseAhead DEF CloseAllInv
  <2>3. CASE closing.s = NULL
    <3>1. CASE ContextCloseListen
      <4>1. /\ closing' = [closing EXCEPT !.at = "sockets", !.s = h.head[<<closing.c, "sockets">>]]
            /\ UNCHANGED h /\ closing.at = "listen"
        BY <2>3, <3>1 DEF ContextCloseListen
      <4>2. /\ closing'.at = "sockets" /\ closing'.c = closing.c /\ closing'.all = closing.all
            /\ closing'.s = h.head[<<closing.c, "sockets">>]
        BY <4>1 DEF LInv, TypeOK
      <4>3. ASSUME NEW b \in closing.all PROVE Ahead(b)'
        <5>1. Ahead(b) /\ b \in Blocks
          BY <1>1, <2>1
        <5>2. Live(h, b) => h.kind[b] # "listen"
          BY <2>3, <4>1, <5>1, ReachNull DEF Ahead
        <5>3. Live(h, b) => ListOf(h, b) = <<closing.c, "sockets">>
          BY <1>5, <5>1, <5>2 DEF Ahead, ContextList
        <5>4. Live(h, b) => Reach(h.next, closing'.s, b)
          BY <1>1, <4>2, <5>1, <5>3, HeadReaches
        <5>. QED BY <4>1, <4>2, <5>1, <5>2, <5>4 DEF Ahead, Live, Free
      <4>. QED BY <1>2, <4>2, <4>3 DEF CloseAllInv
    <3>2. CASE ContextCloseDone
      BY <1>3, <3>2 DEF ContextCloseDone
    <3>. QED BY <1>9, <2>3, <3>1, <3>2 DEF ContextClose, ContextCloseSocket
  <2>. QED BY <2>2, <2>3
<1>10. CASE AppCall
  <2>1. ASSUME NEW s \in Blocks, NEW c \in Contexts, AppListen(s, c) \/ AppConnect(s, c)
        PROVE  CloseAllInv'
    <3>1. PICK k \in UsedKinds : h' = Create(h, s, c, k) /\ Free(h, s) /\ UNCHANGED closing
      BY <2>1 DEF AppListen, AppConnect, LoopHandlers, Kinds, UsedKinds
    <3>. QED BY <1>2, <3>1, CreateAhead DEF CloseAllInv
  <2>2. ASSUME NEW s \in Blocks, NEW c \in Contexts, NEW n \in Blocks, AppAdopt(s, c, n)
        PROVE  closing' = Idle
    BY <2>2 DEF AppAdopt, MayRelink, Supported
  <2>3. ASSUME NEW s \in Blocks, AppClose(s) \/ AppCloseSemi(s)
        PROVE  closing' = Idle
    BY <2>3 DEF AppClose, AppCloseSemi, LoopHandlers, MayRelink, Supported
  <2>4. ASSUME NEW s \in Blocks, AppShutdown(s) PROVE CloseAllInv'
    <3>1. /\ h.kind[s] = "socket" /\ h' = [h EXCEPT !.kind[s] = "shut_down"] /\ UNCHANGED closing
      BY <2>4 DEF AppShutdown, LoopHandlers
    <3>2. /\ h'.next = h.next /\ h'.context = h.context
          /\ \A b \in Blocks : /\ (Live(h', b) <=> Live(h, b)) /\ (Free(h', b) <=> Free(h, b))
                               /\ h'.kind[b] = "listen" <=> h.kind[b] = "listen"
      BY <1>1, <3>1 DEF Live, Free, Memory
    <3>3. closing.at # "idle" => \A b \in closing.all : Ahead(b)'
      BY <1>1, <3>1, <3>2 DEF CloseAllInv, Ahead
    <3>. QED BY <1>2, <3>1, <3>3 DEF CloseAllInv
  <2>5. ASSUME NEW s \in Blocks, AppWrite(s) \/ AppWrite2(s)
        PROVE  UNCHANGED <<h, closing>>
    BY <2>5 DEF AppWrite, AppWrite2, LoopHandlers
  <2>6. ASSUME NEW s \in Blocks, NEW timer \in {"off", "later"},
               AppTimeout(s, timer) \/ AppLongTimeout(s, timer)
        PROVE  UNCHANGED <<h, closing>>
    BY <2>6 DEF AppTimeout, AppLongTimeout, LoopHandlers
  <2>7. ASSUME NEW c \in Contexts, AppContextClose(c)
        PROVE  CloseAllInv'
    <3>1. /\ UNCHANGED h /\ closing'.at = "listen" /\ closing'.c = c
          /\ closing'.s = h.head[<<c, "listen">>]
          /\ closing'.all = {b \in Blocks : Live(h, b) /\ h.context[b] = c}
      BY <2>7 DEF AppContextClose
    <3>2. ASSUME NEW b \in closing'.all PROVE Ahead(b)'
      <4>1. b \in Blocks /\ Live(h, b) /\ h.context[b] = c
        BY <3>1, <3>2
      <4>2. h.kind[b] = "listen" => ListOf(h, b) = <<c, "listen">>
        BY <1>5, <4>1 DEF ContextList
      <4>3. h.kind[b] = "listen" => Reach(h.next, h.head[<<c, "listen">>], b)
        BY <1>1, <4>1, <4>2, HeadReaches
      <4>. QED BY <3>1, <4>1, <4>3 DEF Ahead, Live, Free
    <3>. QED BY <1>2, <3>2 DEF CloseAllInv
  <2>. QED BY <1>3, <1>4, <1>10, <2>1, <2>2, <2>3, <2>4, <2>5, <2>6, <2>7 DEF AppCall
<1>11. CASE Return
  BY <1>4, <1>11 DEF Return
<1>. QED BY <1>6, <1>7, <1>8, <1>9, <1>10, <1>11 DEF Next, Library

(* us_socket_context_close leaves no socket of the context open, however many *)
(* there are and whatever their on_close handlers connect, write or shut      *)
(* down.  Low-priority sockets are left out: one that waits in the queue is   *)
(* in no list of its context.                                                 *)
THEOREM ContextCloseMissesNone ==
  ASSUME Supported, "low_prio" \notin Inputs, IsFiniteSet(Blocks)
  PROVE  Spec => []ContextCloseClosesAll
<1>1. Init => CloseAllInv
  BY DEF Init, ListInit, EmptyMemory, CloseAllInv, NoneQueued, Idle
<1>2. LInv /\ CloseAllInv /\ [Next]_vars => CloseAllInv'
  <2>1. ASSUME LInv, CloseAllInv, UNCHANGED vars PROVE CloseAllInv'
    BY <2>1 DEF vars, CloseAllInv, NoneQueued, Ahead, Live, Free
  <2>. QED BY <2>1, CloseAllStep
<1>3. CloseAllInv => ContextCloseClosesAll
  BY ReachNull DEF CloseAllInv, Ahead, ContextCloseClosesAll
<1>. QED BY <1>1, <1>2, <1>3, LoopInvariant, PTL DEF Spec

------------------------------------------------------------------------------

(* Timers come due only in the sweep. *)

SweepPoints == {"seek", "long", "advance"}

\* No timer comes due in this step.
NoNewDue == \A b \in Blocks :
  /\ sock'[b].short = "due" => sock[b].short = "due"
  /\ sock'[b].long = "due" => sock[b].long = "due"

(* A new socket has no timer.                                                 *)
LEMMA NewTimers ==
  ASSUME NEW c \in Contexts, NEW e \in EventSets, NEW n \in Counts
  PROVE  /\ [New(c) EXCEPT !.events = e].short = "off"
         /\ [New(c) EXCEPT !.events = e].long = "off"
         /\ [New(c) EXCEPT !.events = e, !.opens = n].short = "off"
         /\ [New(c) EXCEPT !.events = e, !.opens = n].long = "off"
<1>1. New(c) = [events |-> {}, reported |-> {}, short |-> "off", long |-> "off",
          opens |-> 0, closes |-> 0, ended |-> FALSE, owed |-> FALSE, home |-> c]
  BY NewTyped
<1>. QED BY ONLY <1>1

(* A closed socket keeps its timers.                                          *)
LEMMA CloseTimers ==
  ASSUME LInv, NEW s \in Blocks, CloseSocket(s) \/ CloseSemiSocket(s)
  PROVE  NoNewDue
<1>1. sock \in [Blocks -> Socket] /\ sock[s] \in Socket
  BY DEF LInv, TypeOK
<1>2. /\ Stopped(s).short = sock[s].short /\ Stopped(s).long = sock[s].long
      /\ [Stopped(s) EXCEPT !.closes = Told(@)].short = sock[s].short
      /\ [Stopped(s) EXCEPT !.closes = Told(@)].long = sock[s].long
  <2>1. Stopped(s) \in Socket /\ Stopped(s).short = sock[s].short /\ Stopped(s).long = sock[s].long
    BY <1>1, SocketFields, FieldFacts DEF Stopped
  <2> DEFINE x == Stopped(s)
  <2>2. x \in Socket /\ x.short = sock[s].short /\ x.long = sock[s].long
    BY <2>1
  <2> HIDE DEF x
  <2>3. [x EXCEPT !.closes = Told(@)].short = x.short /\ [x EXCEPT !.closes = Told(@)].long = x.long
    BY <2>2, SocketFields
  <2>. QED BY <2>1, <2>2, <2>3 DEF x
<1>3. sock' = [sock EXCEPT ![s] = Stopped(s)] \/ sock' = [sock EXCEPT ![s] = [Stopped(s) EXCEPT !.closes = Told(@)]]
  BY DEF CloseSocket, CloseSemiSocket
<1>4. /\ sock'[s].short = sock[s].short /\ sock'[s].long = sock[s].long
      /\ \A b \in Blocks \ {s} : sock'[b] = sock[b]
  BY <1>1, <1>2, <1>3
<1>. QED BY <1>4 DEF NoNewDue

(* Only the sweep itself makes timers due, as it enters a context.            *)
LEMMA TimersStep ==
  ASSUME LInv, Next, Supported, \A c \in Contexts : ~SweepContext(c)
  PROVE  NoNewDue
<1>1. /\ sock \in [Blocks -> Socket] /\ h \in Memory /\ Good(h) /\ CurOK
      /\ \A b \in Blocks : sock[b] \in Socket
  BY DEF LInv, TypeOK, Sound, Good
<1>2. CASE UNCHANGED sock
  BY <1>2 DEF NoNewDue
<1>3. CASE RunLoop
  <2>1. CASE HandleLowPrio
    <3>1. PICK s \in Blocks : s = h.head[LowPrio]
      BY <1>1, <2>1, QueueHead DEF HandleLowPrio
    <3>2. sock' = [sock EXCEPT ![s].events = @ \cup {"R"}]
      BY <2>1, <3>1 DEF HandleLowPrio
    <3>. QED BY <1>1, <3>2, SocketFields DEF NoNewDue
  <2>2. CASE FreeClosed
    <3>1. \A b \in Blocks : sock'[b] = sock[b] \/ sock'[b] = Blank
      BY <1>1, <2>2 DEF FreeClosed
    <3>2. Blank.short = "off" /\ Blank.long = "off"
      BY DEF Blank
    <3>. QED BY <3>1, <3>2 DEF NoNewDue
  <2>3. CASE EpollWait \/ ReadyListDone
    BY <1>1, <2>3, SocketFields DEF EpollWait, ReadyListDone, NoNewDue
  <2>. QED BY <1>2, <1>3, <2>1, <2>2, <2>3 DEF RunLoop, LoopPre, LoopExit, LowPrioHandled,
       DispatchUser, LoopPost
<1>4. CASE Dispatch
  <2>1. ASSUME NEW s \in Blocks, DispatchConnected(s) PROVE NoNewDue
    <3>1. sock' = [sock EXCEPT ![s].events = {"R"}, ![s].reported = {},
                               ![s].short = "off", ![s].opens = Told(@)]
      BY <2>1 DEF DispatchConnected
    <3>. QED BY <1>1, <3>1, SocketFields DEF NoNewDue
  <2>2. CASE CloseFailedConnect
    <3>1. cur \in Blocks /\ (UNCHANGED sock \/ CloseSemiSocket(cur))
      BY <1>1, <2>2 DEF CloseFailedConnect, CurOK
    <3>. QED BY <1>2, <3>1, CloseTimers
  <2>3. ASSUME NEW s \in Blocks, AcceptSocket(s) PROVE NoNewDue
    <3>1. cur \in Blocks /\ h.kind[cur] = "listen"
      BY <1>1, <2>3 DEF AcceptSocket, CurOK
    <3>2. h.context[cur] \in Contexts
      BY <1>1, <3>1, LiveByPrev DEF Free
    <3>3. sock' = [sock EXCEPT ![s] = [New(h.context[cur]) EXCEPT !.events = {"R"}, !.opens = 1]]
      BY <2>3 DEF AcceptSocket
    <3>. QED BY <1>1, <3>2, <3>3, NewTimers, FieldFacts DEF NoNewDue
  <2>4. ASSUME NEW s \in Blocks, DispatchError(s) PROVE NoNewDue
    BY <2>4, CloseTimers DEF DispatchError
  <2>5. CASE RecvClose
    BY <1>1, <2>5, CloseTimers DEF RecvClose, CurOK
  <2>6. ASSUME NEW s \in Blocks, DispatchConnectError(s) \/ DispatchListen(s) \/ DispatchReadable(s)
                                 \/ DispatchWritable(s)
        PROVE  NoNewDue
    <3>1. sock' = [sock EXCEPT ![s].reported = {}] \/ sock' = [sock EXCEPT ![s].reported = {}, ![s].owed = FALSE]
      BY <2>6 DEF DispatchConnectError, DispatchListen, DispatchReadable, DispatchWritable
    <3>. QED BY <1>1, <3>1, SocketFields DEF NoNewDue
  <2>7. CASE AfterWritable
    <3>1. cur \in Blocks /\ (UNCHANGED sock \/ sock' = [sock EXCEPT ![cur].events = @ \cap {"R"}])
      BY <1>1, <2>7 DEF AfterWritable, CurOK
    <3>. QED BY <1>1, <3>1, SocketFields DEF NoNewDue
  <2>8. CASE ReadDeferred
    BY <1>1, <2>8, SocketFields DEF ReadDeferred, NoNewDue
  <2>9. CASE RecvEnd
    BY <1>1, <2>9, SocketFields DEF RecvEnd, NoNewDue
  <2>10. CASE PreOpen \/ PreOpenExports \/ AcceptNext \/ AcceptDone
    BY <1>2, <2>10 DEF PreOpen, PreOpenExports, AcceptNext, AcceptDone
  <2>11. CASE ReadNow \/ ReadResumed \/ ReadWithinBudget \/ RecvData \/ RecvAgain \/ RecvDone
    BY <1>2, <2>11 DEF ReadNow, ReadResumed, ReadWithinBudget, RecvData, RecvAgain, RecvDone
  <2>. QED BY <1>4, <2>1, <2>2, <2>3, <2>4, <2>5, <2>6, <2>7, <2>8, <2>9, <2>10, <2>11 DEF Dispatch
<1>5. CASE Sweep
  <2>1. CASE SeekFound
    <3>1. UNCHANGED sock \/ sock' = [sock EXCEPT ![cur].short = "off"]
      BY <2>1 DEF SeekFound
    <3>. QED BY <1>1, <3>1, SocketFields DEF NoNewDue
  <2>2. CASE SweepLong
    <3>1. UNCHANGED sock \/ sock' = [sock EXCEPT ![cur].long = "off"]
      BY <2>2 DEF SweepLong
    <3>. QED BY <1>1, <3>1, SocketFields DEF NoNewDue
  <2>3. CASE SweepContextDone
    <3>1. sock' = [b \in Blocks |->
               IF h.context[b] # sweeping THEN sock[b]
               ELSE [sock[b] EXCEPT !.short = IF @ = "due" THEN "later" ELSE @,
                                    !.long  = IF @ = "due" THEN "later" ELSE @]]
      BY <2>3 DEF SweepContextDone
    <3>. QED BY <1>1, <3>1, SocketFields DEF NoNewDue
  <2>. QED BY <1>2, <1>5, <2>1, <2>2, <2>3 DEF Sweep, DispatchSweep, SeekNext, SweepAdvance, SweepDone
<1>6. CASE ContextClose
  BY <1>2, <1>6, ContextCloseCloses, CloseTimers
<1>7. CASE AppCall
  <2>1. ASSUME NEW s \in Blocks, NEW c \in Contexts, AppListen(s, c) \/ AppConnect(s, c)
        PROVE  NoNewDue
    <3>1. PICK e \in EventSets : sock' = [sock EXCEPT ![s] = [New(c) EXCEPT !.events = e]]
      BY <2>1, FieldFacts DEF AppListen, AppConnect
    <3>. QED BY <1>1, <3>1, NewTimers, FieldFacts DEF NoNewDue
  <2>2. ASSUME NEW s \in Blocks, NEW c \in Contexts, NEW n \in Blocks, AppAdopt(s, c, n)
        PROVE  NoNewDue
    <3> DEFINE kept == [sock[s] EXCEPT !.short = "off", !.long = "off", !.home = c]
    <3>1. sock' = IF n = s THEN [sock EXCEPT ![s] = kept] ELSE [sock EXCEPT ![n] = kept, ![s] = Blank]
      BY <2>2 DEF AppAdopt, Supported
    <3>2. kept.short = "off" /\ kept.long = "off" /\ Blank.short = "off" /\ Blank.long = "off"
      BY <1>1, SocketFields DEF Blank
    <3> HIDE DEF kept
    <3>3. \A b \in Blocks : sock'[b] = sock[b] \/ sock'[b] = kept \/ sock'[b] = Blank
      BY <1>1, <3>1
    <3>. QED BY <3>2, <3>3 DEF NoNewDue
  <2>3. ASSUME NEW s \in Blocks, AppClose(s) \/ AppCloseSemi(s) PROVE NoNewDue
    BY <2>3, CloseTimers DEF AppClose, AppCloseSemi
  <2>4. ASSUME NEW s \in Blocks, AppShutdown(s) PROVE NoNewDue
    BY <1>1, <2>4, SocketFields DEF AppShutdown, NoNewDue
  <2>5. ASSUME NEW s \in Blocks, AppWrite(s) \/ AppWrite2(s) PROVE NoNewDue
    <3>1. sock' = [sock EXCEPT ![s].events = {"R", "W"}, ![s].owed = TRUE]
      BY <2>5 DEF AppWrite, AppWrite2
    <3>. QED BY <1>1, <3>1, SocketFields DEF NoNewDue
  <2>6. ASSUME NEW s \in Blocks, NEW timer \in {"off", "later"},
               AppTimeout(s, timer) \/ AppLongTimeout(s, timer)
        PROVE  NoNewDue
    <3>1. /\ timer # "due"
          /\ sock' = [sock EXCEPT ![s].short = timer] \/ sock' = [sock EXCEPT ![s].long = timer]
      BY <2>6 DEF AppTimeout, AppLongTimeout
    <3>. QED BY <1>1, <3>1, SocketFields DEF NoNewDue
  <2>7. ASSUME NEW c \in Contexts, AppContextClose(c) PROVE NoNewDue
    BY <1>2, <2>7 DEF AppContextClose
  <2>. QED BY <1>7, <2>1, <2>2, <2>3, <2>4, <2>5, <2>6, <2>7 DEF AppCall
<1>8. CASE Return
  BY <1>2, <1>8 DEF Return
<1>. QED BY <1>3, <1>4, <1>5, <1>6, <1>7, <1>8 DEF Next, Library

------------------------------------------------------------------------------

(* The sweep misses no timer. *)

Due(b) == sock[b].short = "due" \/ sock[b].long = "due"

\* Where the sweep goes on: at the local while it looks for a timer, at the
\* iterator, which the closes and adoptions move, once a handler has run.
Place == IF at = "seek" THEN cur ELSE h.iterator[sweeping]

\* Timers are due only in the context that is swept, and its sockets that wait
\* for their handler are ahead.
DueInv ==
  /\ \A b \in Blocks : Due(b) => at \in SweepPoints /\ h.context[b] = sweeping
  /\ at \in SweepPoints => \A b \in Blocks :
       Due(b) /\ Linked(h, b, sweeping) => Reach(h.next, Place, b)
  /\ at \in {"long", "advance"} => sock[cur].short # "due"
  /\ at = "advance" /\ sock[cur].long = "due" => InLibrary /\ h.iterator[sweeping] # cur

(* Elsewhere no timer is due.                                                 *)
LEMMA DueOutside ==
  ASSUME DueInv, NoNewDue, at \notin SweepPoints, at' \notin SweepPoints
  PROVE  DueInv'
BY DEF DueInv, NoNewDue, Due, SweepPoints

(* A handler that leaves the lists as they are.                               *)
LEMMA DueSame ==
  ASSUME LInv, DueInv, NoNewDue, ~InLibrary, UNCHANGED <<at, sweeping>>,
         at \in {"long", "advance"} => UNCHANGED cur,
         h'.next = h.next, h'.iterator = h.iterator, h'.context = h.context,
         \A b \in Blocks, c \in Contexts : Linked(h', b, c) => Linked(h, b, c)
  PROVE  DueInv'
<1>1. CASE at \notin SweepPoints
  BY <1>1, DueOutside
<1>2. CASE at \in SweepPoints
  <2>1. at \in {"long", "advance"} /\ UNCHANGED cur /\ cur \in Blocks /\ sweeping \in Contexts
    BY <1>2 DEF LInv, CurOK, SweepPoints
  <2>2. \A b \in Blocks : Due(b)' => Due(b)
    BY DEF NoNewDue, Due
  <2>3. \A b \in Blocks : Due(b)' => h'.context[b] = sweeping
    BY <2>2 DEF DueInv
  <2>4. Place' = Place
    BY <2>1 DEF Place
  <2>5. \A b \in Blocks : Due(b)' /\ Linked(h', b, sweeping) => Reach(h'.next, Place', b)
    BY <1>2, <2>1, <2>2, <2>4 DEF DueInv
  <2>6. sock'[cur'].short # "due"
    BY <2>1 DEF DueInv, NoNewDue
  <2>7. at = "advance" => sock'[cur'].long # "due"
    BY <2>1 DEF DueInv, NoNewDue
  <2>. QED BY <1>2, <2>3, <2>5, <2>6, <2>7 DEF DueInv
<1>. QED BY <1>1, <1>2

(* A handler that takes s out of its list, and may put a block without due    *)
(* timers in its place: the iterator has moved on if it stood on s.           *)
LEMMA DuePast ==
  ASSUME LInv, DueInv, NoNewDue, ~InLibrary, UNCHANGED <<at, sweeping>>,
         at \in {"long", "advance"} => UNCHANGED cur,
         NEW s \in Blocks, Skips(h, h', s), NEW S, s \in S, Others(h, h', S),
         \A b \in S \cap Blocks :
           Due(b)' => ~Live(h', b) /\ h'.context[b] = h.context[b]
  PROVE  DueInv'
<1>1. CASE at \notin SweepPoints
  BY <1>1, DueOutside
<1>2. CASE at \in SweepPoints
  <2>1. at \in {"long", "advance"} /\ UNCHANGED cur /\ cur \in Blocks /\ sweeping \in Contexts
    BY <1>2 DEF LInv, CurOK, SweepPoints
  <2>2. \A b \in Blocks : Due(b)' => Due(b)
    BY DEF NoNewDue, Due
  <2>3. \A b \in Blocks : Due(b)' => h'.context[b] = h.context[b]
    BY DEF Others
  <2>4. \A b \in Blocks : Due(b)' => h'.context[b] = sweeping
    BY <2>2, <2>3 DEF DueInv
  <2> DEFINE it == h.iterator[sweeping]
  <2>5. /\ Good(h) /\ it \in Pointers
        /\ it # NULL => Live(h, it) /\ ListOf(h, it) # LowPrio
    BY <2>1, PointerFacts DEF LInv, Sound, Good, ListsBut, IteratorBut, Linked, Memory
  <2>6. Place = it /\ Place' = IF it = s THEN h.next[s] ELSE it
    BY <2>1 DEF Place, Skips
  <2>7. ASSUME NEW b \in Blocks, Due(b)', Linked(h', b, sweeping) PROVE Reach(h'.next, Place', b)
    <3>1. b \notin S /\ b # s
      BY <2>7 DEF Linked
    <3>2. Linked(h, b, sweeping) /\ Due(b)
      BY <2>1, <2>2, <2>7, <3>1, OthersSame
    <3>3. Reach(h.next, it, b)
      BY <1>2, <2>6, <3>2 DEF DueInv
    <3> HIDE DEF it
    <3>. QED BY <2>5, <2>6, <3>1, <3>3, ReachPast
  <2>8. sock'[cur'].short # "due"
    BY <2>1 DEF DueInv, NoNewDue
  <2>9. at = "advance" => sock'[cur'].long # "due"
    BY <2>1 DEF DueInv, NoNewDue
  <2>. QED BY <1>2, <2>4, <2>7, <2>8, <2>9 DEF DueInv
<1>. QED BY <1>1, <1>2

(* A handler closes a socket, maybe the one the iterator is on.               *)
LEMMA CloseDue ==
  ASSUME LInv, DueInv, NoNewDue, ~InLibrary, UNCHANGED <<at, sweeping>>,
         at \in {"long", "advance"} => UNCHANGED cur,
         NEW s \in Blocks, Live(h, s), h' = Close(h, s)
  PROVE  DueInv'
<1>1. Good(h)
  BY DEF LInv, Sound
<1>2. Others(h, h', {s}) /\ Skips(h, h', s)
  BY <1>1, CloseEffect
<1>3. ~Live(h', s) /\ h'.context = h.context
  BY <1>1, <1>2, CloseEffect
<1>. QED BY <1>2, <1>3, DuePast

(* A step of the sweep.                                                       *)
LEMMA SweepDue ==
  ASSUME LInv, Sweep, IsFiniteSet(Blocks), DueInv, Supported
  PROVE  DueInv'
<1>1. /\ sock \in [Blocks -> Socket] /\ h \in Memory /\ Good(h) /\ ListsBut(h, NULL) /\ CurOK
      /\ \A b \in Blocks : sock[b] \in Socket
  BY DEF LInv, TypeOK, Sound, Good
<1>2. ASSUME \A c \in Contexts : ~SweepContext(c) PROVE NoNewDue
  <2>1. Next
    BY DEF Next, Library
  <2>. QED BY <1>2, <2>1, TimersStep
<1>3. CASE DispatchSweep \/ SweepDone
  <2>1. at \notin SweepPoints /\ at' \notin SweepPoints /\ UNCHANGED sock
    BY <1>3 DEF DispatchSweep, SweepDone, SweepPoints
  <2>. QED BY <2>1, DueOutside DEF NoNewDue
<1>4. ASSUME NEW c \in Contexts, SweepContext(c) PROVE DueInv'
  <2>1. PICK shorts \in SUBSET {b \in Blocks : h.context[b] = c /\ sock[b].short = "later"},
             longs \in SUBSET {b \in Blocks : h.context[b] = c /\ sock[b].long = "later"} :
          sock' = [b \in Blocks |->
            [sock[b] EXCEPT !.short = IF b \in shorts THEN "due" ELSE @,
                            !.long  = IF b \in longs THEN "due" ELSE @]]
    BY ONLY <1>4, Zenon DEF SweepContext
  <2>2. /\ at = "sweep" /\ at' = "seek" /\ cur' = h.head[<<c, "sockets">>] /\ sweeping' = c
        /\ UNCHANGED h
    BY <1>4 DEF SweepContext
  <2>3. \A b \in Blocks : ~Due(b)
    BY <2>2 DEF DueInv, SweepPoints
  <2>4. \A b \in Blocks : Due(b)' => b \in shorts \/ b \in longs
    BY <1>1, <2>1, <2>3, SocketFields DEF Due
  <2>5. \A b \in Blocks : Due(b)' => h'.context[b] = sweeping'
    BY <2>1, <2>2, <2>4
  <2>6. Place' = h.head[<<c, "sockets">>]
    BY <2>2 DEF Place
  <2>7. ASSUME NEW b \in Blocks, Linked(h, b, c) PROVE Reach(h.next, h.head[<<c, "sockets">>], b)
    BY <1>1, <2>7, HeadReaches DEF Linked
  <2>8. \A b \in Blocks : Linked(h', b, sweeping') => Reach(h'.next, Place', b)
    BY <2>2, <2>6, <2>7
  <2>. QED BY <2>2, <2>5, <2>8 DEF DueInv, SweepPoints
<1>5. CASE SeekNext
  <2>1. /\ at = "seek" /\ cur \in Blocks /\ cur' = h.next[cur] /\ ~Due(cur)
        /\ UNCHANGED <<h, sock, at, sweeping>>
    BY <1>1, <1>5 DEF SeekNext, CurOK, Due, sweepVars
  <2>2. Place = cur /\ Place' = h.next[cur]
    BY <2>1 DEF Place
  <2>3. ASSUME NEW b \in Blocks, Due(b), Linked(h, b, sweeping) PROVE Reach(h.next, h.next[cur], b)
    <3>1. Reach(h.next, cur, b) /\ b # cur
      BY <2>1, <2>2, <2>3 DEF DueInv, SweepPoints
    <3>. QED BY <2>1, <3>1, ReachOn
  <2>4. \A b \in Blocks : Due(b)' = Due(b)
    BY <2>1 DEF Due
  <2>5. \A b \in Blocks : Due(b)' /\ Linked(h', b, sweeping') => Reach(h'.next, Place', b)
    BY <2>1, <2>2, <2>3, <2>4
  <2>6. \A b \in Blocks : Due(b)' => at' \in SweepPoints /\ h'.context[b] = sweeping'
    BY <2>1, <2>4 DEF DueInv
  <2>. QED BY <2>1, <2>5, <2>6 DEF DueInv
<1>6. CASE SeekFound
  <2>1. /\ at = "seek" /\ cur \in Blocks /\ sweeping \in Contexts /\ at' = "long"
        /\ h' = [h EXCEPT !.iterator[sweeping] = cur] /\ UNCHANGED <<cur, sweeping>>
        /\ IF sock[cur].short = "due" THEN sock' = [sock EXCEPT ![cur].short = "off"] ELSE UNCHANGED sock
    BY <1>1, <1>6 DEF SeekFound, CurOK, sweepVars
  <2>2. /\ h'.next = h.next /\ h'.context = h.context /\ h'.iterator[sweeping] = cur
        /\ \A b \in Blocks : Linked(h', b, sweeping) <=> Linked(h, b, sweeping)
    BY <1>1, <2>1 DEF Linked, Live, Free, ListOf, ContextList, Memory
  <2>3. Place = cur /\ Place' = cur
    BY <2>1, <2>2 DEF Place
  <2>4. NoNewDue
    BY <1>2, <1>6 DEF SeekFound, SweepContext
  <2>5. \A b \in Blocks : Due(b)' => Due(b)
    BY <2>4 DEF NoNewDue, Due
  <2>6. sock'[cur].short # "due"
    <3>1. CASE sock[cur].short = "due"
      BY <1>1, <2>1, <3>1, SocketFields
    <3>2. CASE sock[cur].short # "due"
      BY <2>1, <3>2
    <3>. QED BY <3>1, <3>2
  <2>7. \A b \in Blocks : Due(b)' => at' \in SweepPoints /\ h'.context[b] = sweeping'
    BY <2>1, <2>2, <2>5 DEF DueInv, SweepPoints
  <2>8. \A b \in Blocks : Due(b)' /\ Linked(h', b, sweeping') => Reach(h'.next, Place', b)
    BY <2>1, <2>2, <2>3, <2>5 DEF DueInv, SweepPoints
  <2>. QED BY <2>1, <2>6, <2>7, <2>8 DEF DueInv
<1>7. CASE SweepLong
  <2>1. /\ at = "long" /\ cur \in Blocks /\ sweeping \in Contexts /\ at' = "advance" /\ InLibrary
        /\ UNCHANGED <<h, cur, sweeping>>
    BY <1>1, <1>7 DEF SweepLong, CurOK, sweepVars
  <2>2. NoNewDue
    BY <1>2, <1>7 DEF SweepLong, SweepContext
  <2>3. \A b \in Blocks : Due(b)' => Due(b)
    BY <2>2 DEF NoNewDue, Due
  <2>4. Place' = Place
    BY <2>1 DEF Place
  <2>5. \A b \in Blocks : Due(b)' => at' \in SweepPoints /\ h'.context[b] = sweeping'
    BY <2>1, <2>3 DEF DueInv, SweepPoints
  <2>6. \A b \in Blocks : Due(b)' /\ Linked(h', b, sweeping') => Reach(h'.next, Place', b)
    BY <2>1, <2>3, <2>4 DEF DueInv, SweepPoints
  <2>7. sock'[cur'].short # "due"
    BY <2>1, <2>2 DEF DueInv, NoNewDue
  <2>8. sock'[cur'].long = "due" => InLibrary' /\ h'.iterator[sweeping'] # cur'
    <3>1. CASE h.iterator[sweeping] = cur /\ sock[cur].long = "due"
      <4>1. sock' = [sock EXCEPT ![cur].long = "off"]
        BY <1>7, <3>1 DEF SweepLong
      <4>2. sock'[cur].long = "off"
        BY <1>1, <2>1, <4>1, SocketFields
      <4>. QED BY <2>1, <4>2
    <3>2. CASE ~(h.iterator[sweeping] = cur /\ sock[cur].long = "due")
      <4>1. UNCHANGED <<sock, cb, closing>>
        BY <1>7, <3>2 DEF SweepLong
      <4>. QED BY <2>1, <3>2, <4>1 DEF InLibrary
    <3>. QED BY <3>1, <3>2
  <2>. QED BY <2>1, <2>5, <2>6, <2>7, <2>8 DEF DueInv
<1>8. CASE SweepAdvance
  <2>1. /\ at = "advance" /\ cur \in Blocks /\ sweeping \in Contexts /\ at' = "seek"
        /\ UNCHANGED <<h, sock, sweeping>>
        /\ cur' = IF h.iterator[sweeping] = cur THEN h.next[cur] ELSE h.iterator[sweeping]
    BY <1>1, <1>8 DEF SweepAdvance, CurOK, sweepVars
  <2>2. Place = h.iterator[sweeping] /\ Place' = cur'
    BY <2>1 DEF Place
  <2>3. ASSUME NEW b \in Blocks, Due(b), Linked(h, b, sweeping) PROVE Reach(h.next, cur', b)
    <3>1. Reach(h.next, h.iterator[sweeping], b)
      BY <2>1, <2>2, <2>3 DEF DueInv, SweepPoints
    <3>2. CASE h.iterator[sweeping] = cur
      <4>1. ~Due(cur)
        BY <2>1, <3>2 DEF DueInv, Due
      <4>2. b # cur
        BY <2>3, <4>1
      <4>. QED BY <2>1, <3>1, <3>2, <4>2, ReachOn
    <3>3. CASE h.iterator[sweeping] # cur
      BY <2>1, <3>1, <3>3
    <3>. QED BY <3>2, <3>3
  <2>4. \A b \in Blocks : Due(b)' = Due(b)
    BY <2>1 DEF Due
  <2>5. \A b \in Blocks : Due(b)' /\ Linked(h', b, sweeping') => Reach(h'.next, Place', b)
    BY <2>1, <2>2, <2>3, <2>4
  <2>6. \A b \in Blocks : Due(b)' => at' \in SweepPoints /\ h'.context[b] = sweeping'
    BY <2>1, <2>4 DEF DueInv, SweepPoints
  <2>. QED BY <2>1, <2>5, <2>6 DEF DueInv
<1>9. CASE SweepContextDone
  <2>1. /\ at = "seek" /\ at' = "sweep"
        /\ sock' = [b \in Blocks |->
               IF h.context[b] # sweeping THEN sock[b]
               ELSE [sock[b] EXCEPT !.short = IF @ = "due" THEN "later" ELSE @,
                                    !.long  = IF @ = "due" THEN "later" ELSE @]]
    BY <1>9 DEF SweepContextDone
  <2>2. ASSUME NEW b \in Blocks PROVE ~Due(b)'
    <3>1. CASE h.context[b] # sweeping
      BY <2>1, <3>1 DEF DueInv, Due
    <3>2. CASE h.context[b] = sweeping
      BY <1>1, <2>1, <3>2, SocketFields DEF Due
    <3>. QED BY <3>1, <3>2
  <2>. QED BY <2>1, <2>2 DEF DueInv, SweepPoints
<1>. QED BY <1>3, <1>4, <1>5, <1>6, <1>7, <1>8, <1>9 DEF Sweep

(* Every step keeps the due timers ahead of the sweep.                        *)
LEMMA DueStep ==
  ASSUME LInv, Next, Supported, IsFiniteSet(Blocks), DueInv
  PROVE  DueInv'
<1>1. /\ sock \in [Blocks -> Socket] /\ h \in Memory /\ Good(h) /\ CurOK
      /\ \A b \in Blocks : sock[b] \in Socket
  BY DEF LInv, TypeOK, Sound, Good
<1>2. CASE Sweep
  BY <1>2, SweepDue
<1>3. ASSUME ~Sweep PROVE NoNewDue
  BY <1>3, TimersStep DEF Sweep
<1>4. CASE RunLoop
  <2>1. at \notin SweepPoints /\ at' \notin SweepPoints
    BY <1>4 DEF RunLoop, LoopPre, LoopExit, HandleLowPrio, LowPrioHandled, EpollWait,
       DispatchUser, ReadyListDone, FreeClosed, LoopPost, position, SweepPoints
  <2>. QED BY <1>2, <1>3, <2>1, DueOutside
<1>5. CASE Dispatch
  <2>1. at \notin SweepPoints /\ at' \notin SweepPoints
    <3>1. CASE \E s \in Blocks : DispatchConnected(s) \/ DispatchConnectError(s) \/ DispatchListen(s)
                                   \/ AcceptSocket(s)
      BY <3>1 DEF DispatchConnected, DispatchConnectError, DispatchListen, AcceptSocket, position, SweepPoints
    <3>2. CASE \E s \in Blocks : DispatchError(s) \/ DispatchWritable(s) \/ DispatchReadable(s)
      BY <3>2 DEF DispatchError, DispatchWritable, DispatchReadable, position, SweepPoints
    <3>3. CASE CloseFailedConnect \/ PreOpen \/ PreOpenExports \/ AcceptNext \/ AcceptDone \/ AfterWritable
      BY <3>3 DEF CloseFailedConnect, PreOpen, PreOpenExports, AcceptNext, AcceptDone, AfterWritable, SweepPoints
    <3>4. CASE ReadNow \/ ReadResumed \/ ReadWithinBudget \/ ReadDeferred
      BY <3>4 DEF ReadNow, ReadResumed, ReadWithinBudget, ReadDeferred, SweepPoints
    <3>5. CASE RecvData \/ RecvAgain \/ RecvDone \/ RecvEnd \/ RecvClose
      BY <3>5 DEF RecvData, RecvAgain, RecvDone, RecvEnd, RecvClose, SweepPoints
    <3>. QED BY <1>5, <3>1, <3>2, <3>3, <3>4, <3>5 DEF Dispatch
  <2>. QED BY <1>2, <1>3, <2>1, DueOutside
<1>6. CASE ContextClose
  <2>1. /\ ~InLibrary /\ UNCHANGED <<at, cur, sweeping>>
        /\ \/ UNCHANGED h
           \/ closing.s \in Blocks /\ Live(h, closing.s) /\ h' = Close(h, closing.s)
    BY <1>6, ContextCloseCloses
  <2>. QED BY <1>2, <1>3, <2>1, CloseDue, DueSame
<1>7. CASE AppCall
  <2>1. ASSUME NEW s \in Blocks, NEW c \in Contexts, AppListen(s, c) \/ AppConnect(s, c)
        PROVE  DueInv'
    <3>1. Free(h, s) /\ UNCHANGED <<at, cur, sweeping>> /\ ~InLibrary
      BY <2>1, MayOutside DEF AppListen, AppConnect, LoopHandlers, position, sweepVars
    <3>2. PICK k \in {"listen", "connecting"}, e \in EventSets :
            h' = Create(h, s, c, k) /\ sock' = [sock EXCEPT ![s] = [New(c) EXCEPT !.events = e]]
      BY <2>1, FieldFacts DEF AppListen, AppConnect
    <3>3. k \in UsedKinds
      BY DEF Kinds, UsedKinds
    <3>4. ~Due(s)'
      BY <1>1, <3>2, NewTimers, FieldFacts DEF Due
    <3>5. Others(h, h', {s})
      BY <1>1, <3>1, <3>2, <3>3, CreateKind
    <3>6. Skips(h, Create(h, s, c, k), s)
      BY <1>1, <3>1, <3>3, <3>5, CreateEffect
    <3>. QED BY <1>2, <1>3, <3>1, <3>2, <3>4, <3>5, <3>6, DuePast
  <2>2. ASSUME NEW s \in Blocks, NEW c \in Contexts, NEW n \in Blocks, AppAdopt(s, c, n)
        PROVE  DueInv'
    <3> DEFINE kept == [sock[s] EXCEPT !.short = "off", !.long = "off", !.home = c]
    <3>1. /\ Live(h, s) /\ h.kind[s] \in {"socket", "shut_down"}
          /\ n = s \/ Free(h, n)
          /\ h' = Adopt(h, s, c, n)
          /\ UNCHANGED <<at, sweeping>> /\ (at \in {"long", "advance"} => UNCHANGED cur)
          /\ ~InLibrary
      BY <2>2, MayOutside DEF AppAdopt, Established, sweepVars
    <3>2. sock' = IF n = s THEN [sock EXCEPT ![s] = kept] ELSE [sock EXCEPT ![n] = kept, ![s] = Blank]
      BY <2>2 DEF AppAdopt, Supported
    <3>3. kept.short = "off" /\ kept.long = "off" /\ Blank.short = "off" /\ Blank.long = "off"
      BY <1>1, SocketFields DEF Blank
    <3> HIDE DEF kept
    <3>4. ~Due(s)' /\ ~Due(n)'
      BY <1>1, <3>2, <3>3 DEF Due
    <3>5. Others(h, h', {s, n}) /\ Skips(h, h', s)
      BY <1>1, <3>1, AdoptKind
    <3>. QED BY <1>2, <1>3, <3>1, <3>4, <3>5, DuePast
  <2>3. ASSUME NEW s \in Blocks, AppClose(s) PROVE DueInv'
    <3>1. Live(h, s) /\ h' = Close(h, s) /\ ~InLibrary /\ UNCHANGED <<at, cur, sweeping>>
      BY <2>3, MayOutside DEF AppClose, CloseSocket, Established, position, sweepVars
    <3>. QED BY <1>2, <1>3, <3>1, CloseDue
  <2>4. ASSUME NEW s \in Blocks, AppCloseSemi(s) PROVE DueInv'
    <3>1. Live(h, s) /\ h' = Close(h, s) /\ ~InLibrary /\ UNCHANGED <<at, cur, sweeping>>
      BY <1>1, <2>4, SemiIsClose, MayOutside DEF AppCloseSemi, CloseSemiSocket, LoopHandlers, position, sweepVars
    <3>. QED BY <1>2, <1>3, <3>1, CloseDue
  <2>5. ASSUME NEW s \in Blocks, AppShutdown(s) PROVE DueInv'
    <3>1. /\ Live(h, s) /\ h.kind[s] = "socket" /\ h' = [h EXCEPT !.kind[s] = "shut_down"]
          /\ ~InLibrary /\ UNCHANGED <<at, cur, sweeping>>
      BY <2>5, MayOutside DEF AppShutdown, LoopHandlers, position, sweepVars
    <3>2. /\ h'.next = h.next /\ h'.iterator = h.iterator /\ h'.context = h.context
          /\ \A b \in Blocks, c \in Contexts : Linked(h', b, c) => Linked(h, b, c)
      BY <1>1, <3>1 DEF Linked, Live, Free, ListOf, ContextList, Memory
    <3>. QED BY <1>2, <1>3, <3>1, <3>2, DueSame
  <2>6. CASE UNCHANGED <<h, at, cur, sweeping>> /\ ~InLibrary
    BY <1>2, <1>3, <2>6, DueSame
  <2>7. ASSUME NEW s \in Blocks, AppWrite(s) \/ AppWrite2(s)
        PROVE  UNCHANGED <<h, at, cur, sweeping>> /\ ~InLibrary
    BY <2>7, MayOutside DEF AppWrite, AppWrite2, LoopHandlers, position, sweepVars
  <2>8. ASSUME NEW s \in Blocks, NEW timer \in {"off", "later"},
               AppTimeout(s, timer) \/ AppLongTimeout(s, timer)
        PROVE  UNCHANGED <<h, at, cur, sweeping>> /\ ~InLibrary
    BY <2>8, MayOutside DEF AppTimeout, AppLongTimeout, LoopHandlers, position, sweepVars
  <2>9. ASSUME NEW c \in Contexts, AppContextClose(c)
        PROVE  UNCHANGED <<h, at, cur, sweeping>> /\ ~InLibrary
    BY <2>9, MayOutside DEF AppContextClose, position, sweepVars
  <2>. QED BY <1>7, <2>1, <2>2, <2>3, <2>4, <2>5, <2>6, <2>7, <2>8, <2>9 DEF AppCall
<1>8. CASE Return
  <2>1. UNCHANGED <<h, at, cur, sweeping>> /\ ~InLibrary
    BY <1>8 DEF Return, InApp, InLibrary, position, sweepVars
  <2>. QED BY <1>2, <1>3, <2>1, DueSame
<1>. QED BY <1>2, <1>4, <1>5, <1>6, <1>7, <1>8 DEF Next, Library

(* The sweep leaves a context only after every timer that was due in it has   *)
(* seen its handler or was given up by one: whatever the handlers close,      *)
(* adopt, open and re-arm, the iterator they move never skips a socket.       *)
THEOREM SweepMissesNone ==
  ASSUME Supported, IsFiniteSet(Blocks)
  PROVE  Spec => []NoMissedTimeout
<1>1. Init => DueInv
  <2>1. ASSUME Init PROVE DueInv
    <3>1. at = "pre" /\ \A b \in Blocks : sock[b].short = "off" /\ sock[b].long = "off"
      BY <2>1 DEF Init, Blank
    <3>. QED BY <3>1 DEF DueInv, Due, SweepPoints
  <2>. QED BY <2>1
<1>2. LInv /\ DueInv /\ [Next]_vars => DueInv'
  <2>1. ASSUME LInv, DueInv, UNCHANGED vars PROVE DueInv'
    BY <2>1 DEF vars, DueInv, Due, Place, Linked, Live, Free, ListOf, ContextList, InLibrary
  <2>. QED BY <2>1, DueStep
<1>3. DueInv => NoMissedTimeout
  <2>1. ASSUME DueInv, at = "seek", cur = NULL, NEW b \in Blocks, Linked(h, b, sweeping) PROVE ~Due(b)
    <3>1. Due(b) => Reach(h.next, NULL, b)
      BY <2>1 DEF DueInv, SweepPoints, Place
    <3>. QED BY <3>1, ReachNull
  <2>. QED BY <2>1 DEF NoMissedTimeout, Due
<1>. QED BY <1>1, <1>2, <1>3, LoopInvariant, PTL DEF Spec

==============================================================================
