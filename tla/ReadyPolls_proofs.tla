--------------------------- MODULE ReadyPolls_proofs ---------------------------
(***************************************************************************)
(* Proofs that epoll's and kqueue's ready polls keep no address that went   *)
(* stale and deliver what they promise, for any number of addresses and     *)
(* descriptors and an array of any length, as long as nobody makes the      *)
(* calls that break it: closing a timer of kqueue that has an entry in the  *)
(* array, and moving a poll that polls for nothing.                         *)
(***************************************************************************)
EXTENDS ReadyPolls, TLAPS, FiniteSetTheorems, SequenceTheorems

Careful == Inputs \cap {"close_ready", "resize_unpolled", "close_fallthrough"} = {}

PollType == [id : Ids \cup {NULL}, kind : Kinds, events : SUBSET {"R", "W"}]
Entry(D) == [id : Ids, filter : {"any", "R", "W"}, events : SUBSET {"R", "W"}, data : D]

Typed ==
  /\ backend \in Backends
  /\ poll \in [Polls -> PollType]
  /\ kernel \subseteq Entry(Polls)
  /\ ready \in Seq(Entry(Polls \cup {NULL})) /\ Len(ready) <= MaxReady
  /\ num_polls \in Int
  /\ at \in {"main", "run", "pre_cb", "wait", "dispatch", "handler", "post_cb"}
  /\ serving \in Ids \cup {NULL}
  /\ signalled \in BOOLEAN /\ asked \in BOOLEAN

\* A descriptor has one poll.
Apart ==
  /\ \A p \in Polls : Polled(p) => poll[p].id \in Ids
  /\ \A p, q \in Polls : Polled(p) /\ Polled(q) /\ poll[p].id = poll[q].id => p = q

\* The kernel has the events of each poll as they are, at the address it has.
KernelOK ==
  \A r \in kernel : /\ IsAt(r.id, r.data)
                    /\ r \in Registrations(r.id, poll[r.data].events, r.data)

\* The array has the address of a poll once per filter.
ReadyOK ==
  /\ \A i \in DOMAIN ready : /\ ready[i].filter \in Filters
                             /\ ready[i].data # NULL => IsAt(ready[i].id, ready[i].data)
  /\ \A i, j \in DOMAIN ready :
       ready[i].data # NULL /\ ready[i].data = ready[j].data /\ ready[i].filter = ready[j].filter => i = j

Control ==
  /\ at \notin {"dispatch", "handler"} => ready = << >>
  /\ at = "handler" => ready # << >>
  /\ at # "handler" => serving = NULL

Good == Typed /\ Apart /\ KernelOK /\ ReadyOK /\ Control

-----------------------------------------------------------------------------
(* us_internal_loop_update_pending_ready_polls *)

\* Every entry of old gets the address new.
Repointed(old, new, n) ==
  /\ n \in Seq(Entry(Polls \cup {NULL})) /\ Len(n) = Len(ready)
  /\ \A i \in DOMAIN ready :
       /\ n[i].id = ready[i].id /\ n[i].filter = ready[i].filter
       /\ n[i].data = IF ready[i].data = old THEN new ELSE ready[i].data

\* Patching one entry under epoll and two under kqueue reaches all of them.
LEMMA FewEntries ==
  ASSUME Good, NEW old \in Polls, NEW i \in DOMAIN ready, ready[i].data = old
  PROVE  Cardinality({j \in {k \in DOMAIN ready : ready[k].data = old} : j < i}) < EntriesPerPoll
<1> DEFINE B == {j \in {k \in DOMAIN ready : ready[k].data = old} : j < i}
<1>1. /\ \A j \in B : j \in DOMAIN ready /\ ready[j].data = old /\ j # i
      /\ \A j, k \in B \cup {i} : ready[j].filter = ready[k].filter => j = k
      /\ \A j \in B \cup {i} : ready[j].filter \in Filters
  <2>1. i \in Int /\ DOMAIN ready \subseteq Int /\ old # NULL
    BY NullAssumption DEF Good, Typed
  <2>2. \A j \in B : j \in DOMAIN ready /\ ready[j].data = old /\ j # i
    BY <2>1
  <2> HIDE DEF B
  <2> QED
    BY <2>1, <2>2 DEF Good, ReadyOK
<1> HIDE DEF B
<1>2. ASSUME backend = "epoll" PROVE Cardinality(B) < EntriesPerPoll
  <2>1. B = {}
    BY <1>1, <1>2 DEF Filters
  <2>2. Cardinality(B) = 0 /\ EntriesPerPoll = 1
    BY <2>1, <1>2, FS_EmptySet DEF EntriesPerPoll
  <2> QED
    BY <2>2
<1>3. ASSUME backend # "epoll" PROVE Cardinality(B) < EntriesPerPoll
  <2>1. \A j, k \in B : j = k
    BY <1>1, <1>3 DEF Filters
  <2>2. B = {} \/ \E j : B = {j}
    <3>1. CASE B # {}
      <4>1. PICK j \in B : TRUE
        BY <3>1
      <4>2. B = {j}
        BY <2>1, <4>1
      <4> QED
        BY <4>2
    <3> QED
      BY <3>1
  <2>3. Cardinality(B) \in {0, 1}
    BY <2>2, FS_EmptySet, FS_Singleton
  <2>4. EntriesPerPoll = 2
    BY <1>3 DEF EntriesPerPoll
  <2> QED
    BY <2>3, <2>4
<1>4. Cardinality(B) < EntriesPerPoll
  BY <1>2, <1>3
<1> QED
  BY <1>4 DEF B

LEMMA PatchedAll ==
  ASSUME Good, NEW old \in Polls, NEW new \in Polls \cup {NULL}
  PROVE  Repointed(old, new, Patched(old, new))
<1> DEFINE n == Patched(old, new)
<1>1. n = [i \in DOMAIN ready |-> IF ready[i].data = old THEN [ready[i] EXCEPT !.data = new] ELSE ready[i]]
  <2>1. ASSUME NEW i \in DOMAIN ready
        PROVE  (i \in {k \in DOMAIN ready : ready[k].data = old}
                  /\ Cardinality({j \in {k \in DOMAIN ready : ready[k].data = old} : j < i}) < EntriesPerPoll)
               <=> ready[i].data = old
    BY FewEntries
  <2> QED
    BY <2>1 DEF Patched
<1> HIDE DEF n
<1>2. ready \in [1..Len(ready) -> Entry(Polls \cup {NULL})] /\ Len(ready) \in Nat
  BY DEF Good, Typed
<1>3. ASSUME NEW i \in DOMAIN ready
      PROVE  /\ n[i] \in Entry(Polls \cup {NULL})
             /\ n[i].id = ready[i].id /\ n[i].filter = ready[i].filter
             /\ n[i].data = IF ready[i].data = old THEN new ELSE ready[i].data
  <2>1. ready[i] \in Entry(Polls \cup {NULL})
    BY <1>2
  <2>2. n[i] = IF ready[i].data = old THEN [ready[i] EXCEPT !.data = new] ELSE ready[i]
    BY <1>1
  <2> QED
    BY <2>1, <2>2 DEF Entry
<1>4. DOMAIN ready = 1..Len(ready) /\ n = [i \in DOMAIN ready |-> n[i]]
  BY <1>1, <1>2
<1> DEFINE T == Entry(Polls \cup {NULL})
<1> HIDE DEF T
<1>5. n \in Seq(T) /\ Len(n) = Len(ready)
  <2>1. n \in [1..Len(ready) -> T]
    BY <1>3, <1>4 DEF T
  <2> QED
    BY <1>2, <2>1
<1> QED
  BY <1>3, <1>5 DEF Repointed, n, T

-----------------------------------------------------------------------------
(* Calls of the handlers keep the invariant. *)

LEMMA RegistrationsTyped ==
  ASSUME NEW d \in Ids, NEW e \in SUBSET {"R", "W"}, NEW p \in Polls
  PROVE  /\ Registrations(d, e, p) \subseteq Entry(Polls)
         /\ \A r \in Registrations(d, e, p) : r.id = d /\ r.data = p /\ r.filter \in Filters
         /\ \A r, s \in Registrations(d, e, p) : r.filter = s.filter => r = s
BY DEF Registrations, Entry, Filters

LEMMA ReadyTyped ==
  ASSUME Good, NEW i \in DOMAIN ready
  PROVE  /\ ready[i] \in Entry(Polls \cup {NULL}) /\ ready[i].id \in Ids
         /\ ready[i].data # NULL => ready[i].data \in Polls /\ IsAt(ready[i].id, ready[i].data)
<1>1. ready[i] \in Entry(Polls \cup {NULL})
  BY DEF Good, Typed
<1> QED
  BY <1>1 DEF Good, ReadyOK, Entry

LEMMA KernelTyped ==
  ASSUME Good, NEW r \in kernel
  PROVE  /\ r \in Entry(Polls) /\ r.id \in Ids /\ r.data \in Polls /\ IsAt(r.id, r.data)
         /\ r \in Registrations(r.id, poll[r.data].events, r.data)
<1>1. r \in Entry(Polls)
  BY DEF Good, Typed
<1> QED
  BY <1>1 DEF Good, KernelOK, Entry

\* A poll that stops leaves the kernel and the array.
LEMMA StopGood ==
  ASSUME Good, NEW p \in Polls, Polled(p), UNCHANGED loopVars, num_polls' \in Int,
         poll' \in [Polls -> PollType], ~Polled(p)', \A q \in Polls \ {p} : poll'[q] = poll[q],
         kernel' = Others(poll[p].id), Repointed(p, NULL, ready')
  PROVE  Good'
<1>1. backend' = backend /\ at' = at /\ serving' = serving /\ signalled' = signalled /\ asked' = asked
  BY DEF loopVars
<1>2. \A q \in Polls : Polled(q)' => q # p /\ Polled(q) /\ poll'[q] = poll[q]
  BY DEF Polled
<1>3. \A q \in Polls \ {p} : Polled(q)' <=> Polled(q)
  BY DEF Polled
<1>4. kernel' = {r \in kernel : r.id # poll[p].id}
  BY DEF Others
<1>5. Typed'
  BY <1>1, <1>4 DEF Good, Typed, Repointed
<1>6. Apart'
  BY <1>2 DEF Good, Apart
<1>7. KernelOK'
  <2>1. ASSUME NEW r \in kernel'
        PROVE  IsAt(r.id, r.data)' /\ (r \in Registrations(r.id, poll[r.data].events, r.data))'
    <3>1. r \in kernel /\ r.id # poll[p].id /\ IsAt(r.id, r.data) /\ r.data \in Polls
          /\ r \in Registrations(r.id, poll[r.data].events, r.data)
      BY <1>4, KernelTyped
    <3>2. r.data # p /\ poll'[r.data] = poll[r.data]
      BY <3>1 DEF IsAt
    <3> QED
      <4>1. IsAt(r.id, r.data)'
        BY <1>3, <3>1, <3>2 DEF IsAt
      <4> QED
        BY <1>1, <3>1, <3>2, <4>1 DEF Registrations
  <2> QED
    BY <2>1 DEF KernelOK
<1>8. ReadyOK'
  <2>1. DOMAIN ready' = DOMAIN ready
    BY DEF Repointed, Good, Typed
  <2>2. ASSUME NEW i \in DOMAIN ready, ready'[i].data # NULL
        PROVE  IsAt(ready[i].id, ready[i].data)' /\ ready'[i].data = ready[i].data /\ ready'[i].id = ready[i].id
    <3>1. /\ ready'[i].data = ready[i].data /\ ready[i].data # p /\ ready[i].data # NULL
          /\ ready'[i].id = ready[i].id
      BY <2>2 DEF Repointed
    <3>2. ready[i].data \in Polls /\ IsAt(ready[i].id, ready[i].data)
      BY <3>1, ReadyTyped
    <3>3. poll'[ready[i].data] = poll[ready[i].data]
      BY <3>1, <3>2
    <3> QED
      BY <1>3, <3>1, <3>2, <3>3 DEF IsAt
  <2>3. \A i \in DOMAIN ready : ready'[i].filter = ready[i].filter
    BY DEF Repointed
  <2>4. Filters' = Filters
    BY <1>1 DEF Filters
  <2> QED
    BY <2>1, <2>2, <2>3, <2>4 DEF Good, ReadyOK, IsAt
<1>9. Control'
  <2>1. (ready = << >>) <=> (ready' = << >>)
    BY DEF Repointed, Good, Typed
  <2> QED
    BY <1>1, <2>1 DEF Good, Control
<1> QED
  BY <1>5, <1>6, <1>7, <1>8, <1>9 DEF Good

LEMMA StartGood ==
  ASSUME Good, NEW p \in Polls, poll[p] = Free, UNCHANGED <<loopVars, ready>>, num_polls' \in Int,
         NEW d \in Ids, Unused(d), NEW e \in SUBSET {"R", "W"},
         NEW k \in {"socket", "timer", "fallthrough_timer"},
         poll' = [poll EXCEPT ![p] = [id |-> d, kind |-> k, events |-> e]],
         kernel' = kernel \cup Registrations(d, e, p)
  PROVE  Good'
<1>1. /\ backend' = backend /\ at' = at /\ serving' = serving /\ signalled' = signalled /\ asked' = asked
      /\ ready' = ready
  BY DEF loopVars
<1>2. /\ poll'[p] = [id |-> d, kind |-> k, events |-> e]
      /\ \A q \in Polls \ {p} : poll'[q] = poll[q]
      /\ poll' \in [Polls -> PollType]
  BY DEF Good, Typed, PollType, Kinds
<1>3. /\ Polled(p)' /\ poll'[p].id = d /\ poll'[p].events = e /\ ~Polled(p)
      /\ \A q \in Polls \ {p} : Polled(q)' <=> Polled(q)
  BY <1>2 DEF Polled, Free
<1>4. Typed'
  BY <1>1, <1>2, RegistrationsTyped DEF Good, Typed
<1>5. Apart'
  BY <1>2, <1>3 DEF Good, Apart, Unused
<1>6. \A f \in Ids, x \in Polls : IsAt(f, x) => x # p /\ IsAt(f, x)' /\ poll'[x] = poll[x]
  BY <1>2, <1>3 DEF IsAt
<1>7. KernelOK'
  <2>1. ASSUME NEW r \in kernel
        PROVE  IsAt(r.id, r.data)' /\ (r \in Registrations(r.id, poll[r.data].events, r.data))'
    <3>1. IsAt(r.id, r.data) /\ r.data \in Polls /\ r.id \in Ids
          /\ r \in Registrations(r.id, poll[r.data].events, r.data)
      BY KernelTyped
    <3> QED
      BY <1>1, <1>6, <3>1 DEF Registrations
  <2>2. ASSUME NEW r \in Registrations(d, e, p)
        PROVE  IsAt(r.id, r.data)' /\ (r \in Registrations(r.id, poll[r.data].events, r.data))'
    <3>1. r.id = d /\ r.data = p
      BY RegistrationsTyped
    <3> QED
      BY <1>1, <1>3, <3>1 DEF Registrations, IsAt
  <2> QED
    BY <2>1, <2>2 DEF KernelOK
<1>8. ReadyOK'
  <2>1. ASSUME NEW i \in DOMAIN ready, ready[i].data # NULL
        PROVE  IsAt(ready[i].id, ready[i].data)'
    <3>1. ready[i].data \in Polls /\ ready[i].id \in Ids /\ IsAt(ready[i].id, ready[i].data)
      BY <2>1, ReadyTyped
    <3> QED
      BY <1>6, <3>1
  <2>2. Filters' = Filters
    BY <1>1 DEF Filters
  <2> QED
    BY <1>1, <2>1, <2>2 DEF Good, ReadyOK, IsAt
<1> QED
  BY <1>1, <1>4, <1>5, <1>7, <1>8 DEF Good, Control

LEMMA ChangeGood ==
  ASSUME Good, NEW p \in Polls, NEW e \in SUBSET {"R", "W"}, Change(p, e)
  PROVE  Good'
<1>1. /\ backend' = backend /\ at' = at /\ serving' = serving /\ signalled' = signalled /\ asked' = asked
      /\ ready' = ready /\ num_polls' = num_polls /\ poll[p].kind = "socket"
      /\ poll' = [poll EXCEPT ![p].events = e]
      /\ kernel' = Others(poll[p].id) \cup Registrations(poll[p].id, e, p)
  BY DEF Change, loopVars
<1>2. /\ poll'[p].id = poll[p].id /\ poll'[p].kind = "socket" /\ poll'[p].events = e
      /\ poll'[p] \in PollType /\ \A q \in Polls \ {p} : poll'[q] = poll[q]
      /\ poll' \in [Polls -> PollType]
  BY <1>1 DEF Good, Typed, PollType
<1>3. Polled(p) /\ poll[p].id \in Ids /\ \A q \in Polls : (Polled(q)' <=> Polled(q)) /\ poll'[q].id = poll[q].id
  BY <1>1, <1>2 DEF Polled, Good, Apart
<1>4. \A d, q : q \in Polls => (IsAt(d, q)' <=> IsAt(d, q))
  BY <1>3 DEF IsAt
<1>5. Typed'
  BY <1>1, <1>2, <1>3, RegistrationsTyped DEF Good, Typed, Others
<1>6. Apart'
  BY <1>3 DEF Good, Apart
<1>7. KernelOK'
  <2>1. ASSUME NEW r \in kernel, r.id # poll[p].id
        PROVE  IsAt(r.id, r.data)' /\ (r \in Registrations(r.id, poll[r.data].events, r.data))'
    <3>1. IsAt(r.id, r.data) /\ r.data \in Polls /\ r \in Registrations(r.id, poll[r.data].events, r.data)
      BY KernelTyped
    <3>2. poll'[r.data] = poll[r.data] /\ IsAt(r.id, r.data)'
      BY <1>2, <1>4, <2>1, <3>1 DEF IsAt
    <3> QED
      BY <1>1, <3>1, <3>2 DEF Registrations
  <2>2. ASSUME NEW r \in Registrations(poll[p].id, e, p)
        PROVE  IsAt(r.id, r.data)' /\ (r \in Registrations(r.id, poll[r.data].events, r.data))'
    <3>1. r.id = poll[p].id /\ r.data = p
      BY <1>3, RegistrationsTyped
    <3>2. IsAt(r.id, r.data)'
      BY <1>3, <1>4, <3>1 DEF IsAt
    <3> QED
      BY <1>1, <1>2, <3>1, <3>2 DEF Registrations
  <2> QED
    BY <1>1, <2>1, <2>2 DEF KernelOK, Others
<1>8. ReadyOK'
  <2>1. ASSUME NEW i \in DOMAIN ready, ready[i].data # NULL PROVE IsAt(ready[i].id, ready[i].data)'
    <3>1. PICK x \in Polls, f \in Ids : x = ready[i].data /\ f = ready[i].id /\ IsAt(f, x)
      BY <2>1, ReadyTyped
    <3>2. IsAt(f, x)'
      BY <1>4, <3>1
    <3> QED
      BY <1>1, <3>1, <3>2 DEF IsAt, Polled
  <2>2. Filters' = Filters
    BY <1>1 DEF Filters
  <2> QED
    BY <1>1, <2>1, <2>2 DEF Good, ReadyOK, IsAt
<1> QED
  BY <1>1, <1>5, <1>6, <1>7, <1>8 DEF Good, Control

LEMMA ResizeGood ==
  ASSUME Good, Careful, NEW p \in Polls, NEW q \in Polls, Resize(p, q)
  PROVE  Good'
<1>1. /\ backend' = backend /\ at' = at /\ serving' = serving /\ signalled' = signalled /\ asked' = asked
      /\ num_polls' = num_polls /\ poll[p].kind = "socket" /\ poll[q] = Free
      /\ poll' = [poll EXCEPT ![p] = Free, ![q] = poll[p]]
      /\ kernel' = Others(poll[p].id) \cup Registrations(poll[p].id, poll[p].events, q)
      /\ ready' = Patched(p, q)
  BY DEF Resize, loopVars, Careful
<1> DEFINE d == poll[p].id
           e == poll[p].events
<1>2. /\ p # q /\ poll'[p] = Free /\ poll'[q] = poll[p] /\ \A x \in Polls \ {p, q} : poll'[x] = poll[x]
      /\ poll' \in [Polls -> PollType] /\ e \in SUBSET {"R", "W"}
  <2>1. poll \in [Polls -> PollType] /\ poll[p] \in PollType /\ Free \in PollType
    BY DEF Good, Typed, PollType, Free, Kinds
  <2>2. p # q
    BY <1>1 DEF Free
  <2>3. e \in SUBSET {"R", "W"}
    BY <2>1 DEF PollType
  <2> QED
    BY <1>1, <2>1, <2>2, <2>3
<1>3. /\ Polled(p) /\ ~Polled(q) /\ d \in Ids /\ Polled(q)' /\ ~Polled(p)'
      /\ \A x \in Polls \ {p, q} : Polled(x)' <=> Polled(x)
  BY <1>1, <1>2 DEF Polled, Good, Apart, Free
<1>4. ASSUME NEW f, NEW x \in Polls, IsAt(f, x)
      PROVE  x # q /\ (x # p => IsAt(f, x)' /\ poll'[x] = poll[x]) /\ (x = p => f = d /\ IsAt(f, q)')
  BY <1>2, <1>3, <1>4 DEF IsAt
<1>5. Repointed(p, q, ready')
  BY <1>1, PatchedAll
<1>6. Typed'
  BY <1>1, <1>2, <1>3, <1>5, RegistrationsTyped DEF Good, Typed, Others, Repointed
<1>7. Apart'
  BY <1>2, <1>3 DEF Good, Apart
<1>8. KernelOK'
  <2>1. ASSUME NEW r \in kernel, r.id # d
        PROVE  IsAt(r.id, r.data)' /\ (r \in Registrations(r.id, poll[r.data].events, r.data))'
    <3>1. IsAt(r.id, r.data) /\ r.data \in Polls /\ r \in Registrations(r.id, poll[r.data].events, r.data)
      BY KernelTyped
    <3>2. poll'[r.data] = poll[r.data] /\ IsAt(r.id, r.data)'
      BY <1>4, <2>1, <3>1
    <3> QED
      BY <1>1, <3>1, <3>2 DEF Registrations
  <2>2. ASSUME NEW r \in Registrations(d, e, q)
        PROVE  IsAt(r.id, r.data)' /\ (r \in Registrations(r.id, poll[r.data].events, r.data))'
    <3>1. r.id = d /\ r.data = q
      BY <1>2, <1>3, RegistrationsTyped
    <3>2. IsAt(r.id, r.data)'
      BY <1>2, <1>3, <3>1 DEF IsAt
    <3> QED
      BY <1>1, <1>2, <3>1, <3>2 DEF Registrations
  <2> QED
    BY <1>1, <2>1, <2>2 DEF KernelOK, Others
<1>9. ReadyOK'
  <2>1. DOMAIN ready' = DOMAIN ready
    BY <1>5 DEF Repointed, Good, Typed
  <2>2. ASSUME NEW i \in DOMAIN ready
        PROVE  /\ ready'[i].id = ready[i].id /\ ready'[i].filter = ready[i].filter
               /\ ready'[i].data = IF ready[i].data = p THEN q ELSE ready[i].data
               /\ ready[i].data # q
    <3>1. ready[i].data # q
      BY <1>3, ReadyTyped, NullAssumption DEF IsAt
    <3> QED
      BY <1>5, <3>1 DEF Repointed
  <2>3. ASSUME NEW i \in DOMAIN ready, ready'[i].data # NULL PROVE IsAt(ready[i].id, ready[i].data)'
    <3>1. ready[i].data # NULL
      BY <2>2, <2>3, NullAssumption
    <3>2. PICK x \in Polls, f \in Ids : x = ready[i].data /\ f = ready[i].id /\ IsAt(f, x)
      BY <3>1, ReadyTyped
    <3>3. CASE x = p
      <4>1. ready'[i].data = q /\ ready'[i].id = f /\ IsAt(f, q)'
        BY <1>4, <2>2, <3>2, <3>3
      <4> QED
        BY <4>1 DEF IsAt, Polled
    <3>4. CASE x # p
      <4>1. ready'[i].data = x /\ ready'[i].id = f /\ IsAt(f, x)'
        BY <1>4, <2>2, <3>2, <3>4
      <4> QED
        BY <4>1 DEF IsAt, Polled
    <3> QED
      BY <3>3, <3>4
  <2>4. Filters' = Filters
    BY <1>1 DEF Filters
  <2>5. \A i, j \in DOMAIN ready : ready'[i].data = ready'[j].data <=> ready[i].data = ready[j].data
    BY <2>2
  <2>6. \A i \in DOMAIN ready : ready'[i].data = NULL <=> ready[i].data = NULL
    BY <2>2, NullAssumption
  <2>7. \A i \in DOMAIN ready : ready'[i].filter \in Filters
    BY <2>2 DEF Good, ReadyOK
  <2>8. \A i, j \in DOMAIN ready :
          ready'[i].data # NULL /\ ready'[i].data = ready'[j].data /\ ready'[i].filter = ready'[j].filter => i = j
    BY <2>2, <2>5, <2>6 DEF Good, ReadyOK
  <2> QED
    BY <2>1, <2>3, <2>4, <2>7, <2>8 DEF ReadyOK
<1>10. Control'
  <2>1. (ready = << >>) <=> (ready' = << >>)
    BY <1>5 DEF Repointed, Good, Typed
  <2> QED
    BY <1>1, <2>1 DEF Good, Control
<1> QED
  BY <1>6, <1>7, <1>8, <1>9, <1>10 DEF Good

-----------------------------------------------------------------------------
(* The steps of the loop keep it. *)

LEMMA RestOfReady ==
  ASSUME Good, ready # << >>
  PROVE  /\ Tail(ready) \in Seq(Entry(Polls \cup {NULL})) /\ Len(Tail(ready)) = Len(ready) - 1
         /\ \A i \in DOMAIN Tail(ready) :
              i \in Nat \ {0} /\ i + 1 \in DOMAIN ready /\ Tail(ready)[i] = ready[i + 1]
         /\ \A i \in DOMAIN ready : i \in Nat /\ (i # 1 => i - 1 \in DOMAIN Tail(ready))
         /\ 1 \in DOMAIN ready /\ Head(ready) = ready[1]
BY DEF Good, Typed

\* A step that leaves the polls and the kernel, and of the array at most the head.
LEMMA SameGood ==
  ASSUME Good, UNCHANGED <<backend, poll, kernel, num_polls>>, Control',
         ready' = ready \/ (ready # << >> /\ ready' = Tail(ready)),
         at' \in {"main", "run", "pre_cb", "wait", "dispatch", "handler", "post_cb"},
         serving' \in Ids \cup {NULL}, signalled' \in BOOLEAN, asked' \in BOOLEAN
  PROVE  Good'
<1>1. Typed'
  <2>1. ready' \in Seq(Entry(Polls \cup {NULL})) /\ Len(ready') <= MaxReady
    <3>1. Len(ready) \in Nat /\ Len(ready) <= MaxReady /\ ready \in Seq(Entry(Polls \cup {NULL}))
      BY DEF Good, Typed
    <3>2. CASE ready # << >> /\ ready' = Tail(ready)
      <4>1. ready' \in Seq(Entry(Polls \cup {NULL})) /\ Len(ready') = Len(ready) - 1
        BY <3>2, RestOfReady
      <4> QED
        BY <3>1, <4>1, MaxReadyAssumption
    <3> QED
      BY <3>1, <3>2
  <2> QED
    BY <2>1 DEF Good, Typed
<1>2. Apart'
  BY DEF Good, Apart, Polled
<1>3. KernelOK'
  BY DEF Good, KernelOK, Registrations, IsAt, Polled
<1>4. Filters' = Filters
  BY DEF Filters
<1>5. ReadyOK'
  <2>1. CASE ready' = ready
    BY <1>4, <2>1 DEF Good, ReadyOK, IsAt, Polled
  <2>2. CASE ready # << >> /\ ready' = Tail(ready)
    <3>1. ASSUME NEW i \in DOMAIN ready'
          PROVE  /\ ready'[i].filter \in Filters
                 /\ ready'[i].data # NULL => IsAt(ready[i].id, ready[i].data)'
      <4>1. PICK j \in DOMAIN ready : j = i + 1 /\ ready'[i] = ready[j]
        BY <2>2, RestOfReady
      <4>2. ready[j].filter \in Filters /\ (ready[j].data # NULL => IsAt(ready[j].id, ready[j].data))
        BY DEF Good, ReadyOK
      <4> QED
        BY <4>1, <4>2 DEF IsAt, Polled
    <3>2. ASSUME NEW i \in DOMAIN ready', NEW j \in DOMAIN ready', ready'[i].data # NULL,
                 ready'[i].data = ready'[j].data, ready'[i].filter = ready'[j].filter
          PROVE  i = j
      <4>1. /\ i + 1 \in DOMAIN ready /\ ready'[i] = ready[i + 1] /\ i \in Nat
            /\ j + 1 \in DOMAIN ready /\ ready'[j] = ready[j + 1] /\ j \in Nat
        BY <2>2, RestOfReady
      <4>2. i + 1 = j + 1
        BY <3>2, <4>1 DEF Good, ReadyOK
      <4> QED
        BY <4>1, <4>2
    <3> QED
      BY <1>4, <3>1, <3>2 DEF ReadyOK
  <2> QED
    BY <2>1, <2>2
<1> QED
  BY <1>1, <1>2, <1>3, <1>5 DEF Good

LEMMA WaitGood ==
  ASSUME Good, Wait
  PROVE  Good'
<1>1. PICK n \in 0..MaxReady :
        /\ ready' \in [1..n -> kernel]
        /\ \A i, j \in 1..n : i # j => ready'[i] # ready'[j]
  BY DEF Wait
<1>2. /\ at = "wait" /\ at' = "dispatch" /\ UNCHANGED <<backend, poll, kernel, num_polls, serving, asked>>
      /\ signalled' \in BOOLEAN
  BY DEF Wait
<1>3. DOMAIN ready' = 1..n /\ n \in Nat /\ n <= MaxReady
  BY <1>1, MaxReadyAssumption
<1>4. kernel \subseteq Entry(Polls \cup {NULL})
  BY DEF Good, Typed, Entry
<1>5. Typed'
  <2>1. ready' \in Seq(Entry(Polls \cup {NULL})) /\ Len(ready') = n
    <3> DEFINE T == Entry(Polls \cup {NULL})
    <3> HIDE DEF T
    <3>1. ready' \in [1..n -> T] /\ n \in Nat
      BY <1>1, <1>3, <1>4 DEF T
    <3>2. ready' \in Seq(T) /\ Len(ready') = n
      BY <3>1
    <3> QED
      BY <3>2 DEF T
  <2> QED
    BY <1>2, <1>3, <2>1 DEF Good, Typed
<1>6. Apart' /\ Filters' = Filters
  BY <1>2 DEF Good, Apart, Polled, Filters
<1>7. KernelOK'
  BY <1>2 DEF Good, KernelOK, Registrations, IsAt, Polled
<1>8. ReadyOK'
  <2>1. ASSUME NEW r \in kernel
        PROVE  /\ IsAt(r.id, r.data) /\ r.filter \in Filters /\ r.data \in Polls
               /\ r \in Registrations(poll[r.data].id, poll[r.data].events, r.data)
               /\ poll[r.data].id \in Ids /\ poll[r.data].events \in SUBSET {"R", "W"}
    <3>1. /\ IsAt(r.id, r.data) /\ r.data \in Polls /\ r.id \in Ids
          /\ r \in Registrations(r.id, poll[r.data].events, r.data)
      BY KernelTyped
    <3>2. poll[r.data] \in PollType
      BY <3>1 DEF Good, Typed
    <3>3. poll[r.data].events \in SUBSET {"R", "W"} /\ poll[r.data].id = r.id
      BY <3>1, <3>2 DEF PollType, IsAt
    <3> QED
      BY <3>1, <3>3, RegistrationsTyped
  <2>2. ASSUME NEW r \in kernel, NEW s \in kernel, r.data = s.data, r.filter = s.filter PROVE r = s
    BY <2>1, <2>2, RegistrationsTyped
  <2>3. ASSUME NEW i \in 1..n PROVE ready'[i].filter \in Filters /\ IsAt(ready[i].id, ready[i].data)'
    <3>1. PICK r \in kernel : ready'[i] = r
      BY <1>1
    <3> QED
      BY <1>2, <2>1, <3>1 DEF IsAt, Polled
  <2>4. ASSUME NEW i \in 1..n, NEW j \in 1..n, ready'[i].data = ready'[j].data, ready'[i].filter = ready'[j].filter
        PROVE  i = j
    <3>1. ready'[i] = ready'[j]
      BY <1>1, <2>2, <2>4
    <3> QED
      BY <1>1, <3>1
  <2> QED
    BY <1>3, <1>6, <2>3, <2>4 DEF ReadyOK
<1>9. Control'
  BY <1>2 DEF Good, Control
<1> QED
  BY <1>5, <1>6, <1>7, <1>8, <1>9 DEF Good

LEMMA LoopPostGood ==
  ASSUME Good, LoopPost, num_polls' \in Int
  PROVE  Good'
<1>1. /\ at = "dispatch" /\ ready = << >> /\ ready' = ready /\ at' = "post_cb"
      /\ UNCHANGED <<backend, kernel, serving, signalled, asked>>
      /\ poll' = [p \in Polls |-> IF poll[p].kind = "closed" THEN Free ELSE poll[p]]
  BY DEF LoopPost
<1>2. Free \in PollType /\ poll' \in [Polls -> PollType]
  <2>1. Free \in PollType
    BY DEF Free, PollType, Kinds
  <2> QED
    BY <1>1, <2>1 DEF Good, Typed
<1>3. \A p \in Polls : (Polled(p)' <=> Polled(p)) /\ (Polled(p) => poll'[p] = poll[p])
  BY <1>1 DEF Polled, Free
<1>4. Typed'
  BY <1>1, <1>2 DEF Good, Typed
<1>5. Apart'
  BY <1>3 DEF Good, Apart
<1>6. KernelOK'
  <2>1. ASSUME NEW r \in kernel
        PROVE  IsAt(r.id, r.data)' /\ (r \in Registrations(r.id, poll[r.data].events, r.data))'
    <3>1. IsAt(r.id, r.data) /\ r.data \in Polls /\ r \in Registrations(r.id, poll[r.data].events, r.data)
      BY KernelTyped
    <3>2. poll'[r.data] = poll[r.data] /\ IsAt(r.id, r.data)'
      BY <1>3, <3>1 DEF IsAt
    <3> QED
      BY <1>1, <3>1, <3>2 DEF Registrations
  <2> QED
    BY <1>1, <2>1 DEF KernelOK
<1>7. ReadyOK' /\ Control'
  BY <1>1 DEF ReadyOK, Good, Control
<1> QED
  BY <1>4, <1>5, <1>6, <1>7 DEF Good

-----------------------------------------------------------------------------
(* num_polls. *)

Counted == {p \in Polls : poll[p].kind # "free" /\ ~Fallthrough(p)}

\* The calls and the loop count along.
CountOK == num_polls = Cardinality(Counted) /\ IsFiniteSet(Counted)

\* Whether a poll counts depends on its kind.
LEMMA CountedKind ==
  ASSUME NEW p \in Polls
  PROVE  /\ p \in Counted <=> poll[p].kind \notin {"free", "fallthrough_timer", "async"}
         /\ p \in Counted' <=> poll'[p].kind \notin {"free", "fallthrough_timer", "async"}
BY DEF Counted, Fallthrough

LEMMA SameCount ==
  ASSUME CountOK, num_polls' = num_polls,
         \A p \in Polls : poll'[p] = poll[p] \/ (poll[p].kind = "socket" /\ poll'[p].kind \in {"socket", "closed"})
  PROVE  CountOK'
<1>1. \A p \in Polls : p \in Counted' <=> p \in Counted
  BY CountedKind
<1>2. Counted' = Counted
  BY <1>1 DEF Counted
<1> QED
  BY <1>2 DEF CountOK

LEMMA OneMore ==
  ASSUME CountOK, NEW p \in Polls, poll[p] = Free, num_polls' = num_polls + 1,
         poll'[p].kind \in {"socket", "timer"}, \A q \in Polls \ {p} : poll'[q] = poll[q]
  PROVE  CountOK'
<1>1. \A q \in Polls : q \in Counted' <=> q \in Counted \cup {p}
  BY CountedKind
<1>2. Counted' = Counted \cup {p} /\ p \notin Counted
  BY <1>1, CountedKind DEF Counted, Free
<1> QED
  BY <1>2, FS_AddElement DEF CountOK

LEMMA NoMore ==
  ASSUME CountOK, NEW p \in Polls, poll[p] = Free, num_polls' = num_polls,
         poll'[p].kind = "fallthrough_timer", \A q \in Polls \ {p} : poll'[q] = poll[q]
  PROVE  CountOK'
<1>1. \A q \in Polls : q \in Counted' <=> q \in Counted
  BY CountedKind DEF Free
<1>2. Counted' = Counted
  BY <1>1 DEF Counted
<1> QED
  BY <1>2 DEF CountOK

LEMMA OneLess ==
  ASSUME CountOK, NEW p \in Polls, poll[p].kind = "timer", num_polls' = num_polls - 1,
         poll'[p] = Free, \A q \in Polls \ {p} : poll'[q] = poll[q]
  PROVE  CountOK'
<1>1. \A q \in Polls : q \in Counted' <=> q \in Counted \ {p}
  BY CountedKind DEF Free
<1>2. Counted' = Counted \ {p} /\ p \in Counted
  BY <1>1, CountedKind DEF Counted
<1> QED
  BY <1>2, FS_RemoveElement DEF CountOK

LEMMA CountMoved ==
  ASSUME CountOK, NEW p \in Polls, NEW q \in Polls, p # q, poll[p].kind = "socket", poll[q] = Free,
         num_polls' = num_polls, poll'[p] = Free, poll'[q] = poll[p],
         \A x \in Polls \ {p, q} : poll'[x] = poll[x]
  PROVE  CountOK'
<1>1. p \in Counted /\ q \notin Counted
  BY CountedKind DEF Free
<1>2. \A x \in Polls : x \in Counted' <=> x \in (Counted \ {p}) \cup {q}
  BY CountedKind DEF Free
<1>3. Counted' = (Counted \ {p}) \cup {q}
  BY <1>2 DEF Counted
<1>4. IsFiniteSet(Counted \ {p}) /\ Cardinality(Counted \ {p}) = Cardinality(Counted) - 1
      /\ Cardinality(Counted) \in Nat
  BY <1>1, FS_RemoveElement, FS_CardinalityType DEF CountOK
<1>5. IsFiniteSet(Counted') /\ Cardinality(Counted') = Cardinality(Counted \ {p}) + 1
  BY <1>1, <1>3, <1>4, FS_AddElement
<1> QED
  BY <1>4, <1>5 DEF CountOK

LEMMA LessClosed ==
  ASSUME CountOK, LoopPost
  PROVE  CountOK' /\ num_polls' \in Int
<1> DEFINE C == {p \in Polls : poll[p].kind = "closed"}
<1>1. num_polls' = num_polls - Cardinality(C)
      /\ poll' = [p \in Polls |-> IF poll[p].kind = "closed" THEN Free ELSE poll[p]]
  BY DEF LoopPost
<1>2. C \subseteq Counted
  BY CountedKind
<1>3. \A p \in Polls : p \in Counted' <=> p \in Counted \ C
  BY <1>1, CountedKind DEF Free
<1> HIDE DEF C
<1>4. Counted' = Counted \ C
  BY <1>3 DEF Counted
<1>5. IsFiniteSet(C) /\ IsFiniteSet(Counted') /\ Counted \cap C = C
  BY <1>2, <1>4, FS_Subset DEF CountOK
<1>6. Cardinality(Counted') = Cardinality(Counted) - Cardinality(C)
  <2>1. IsFiniteSet(Counted)
    BY DEF CountOK
  <2>2. Cardinality(Counted \ C) = Cardinality(Counted) - Cardinality(Counted \cap C)
    BY <2>1, FS_Difference
  <2> QED
    BY <1>4, <1>5, <2>2
<1>7. Cardinality(Counted') \in Nat
  BY <1>5, FS_CardinalityType
<1> QED
  BY <1>1, <1>5, <1>6, <1>7 DEF CountOK

-----------------------------------------------------------------------------
(* The promise, step by step. *)

Registered == {poll[p].id : p \in {q \in Polls : Polled(q)}}
Pending    == {<<ready[i].id, ready[i].filter>> : i \in Undelivered}

PromiseStep ==
  [Promise!Next]_<<{poll[p].id : p \in {q \in Polls : Polled(q)}},
                   {<<ready[i].id, ready[i].filter>> : i \in Undelivered}, serving>>

LEMMA PromiseStart ==
  ASSUME NEW d \in Ids, d \notin Registered, Registered' = Registered \cup {d},
         Pending' = Pending, serving' = serving
  PROVE  PromiseStep
BY DEF PromiseStep, Promise!Next, Promise!Start, Registered, Pending

LEMMA PromiseStop ==
  ASSUME NEW d \in Ids, Registered' = Registered \ {d},
         Pending' = {e \in Pending : e[1] # d}, serving' = serving
  PROVE  PromiseStep
BY DEF PromiseStep, Promise!Next, Promise!Stop, Registered, Pending

LEMMA PromiseCollect ==
  ASSUME Pending = {}, serving = NULL, Pending' \subseteq Registered \X {"any", "R", "W"},
         Registered' = Registered, serving' = serving
  PROVE  PromiseStep
BY DEF PromiseStep, Promise!Next, Promise!Collect, Registered, Pending

LEMMA PromiseDeliver ==
  ASSUME NEW e \in Pending, serving = NULL, Pending' = Pending \ {e}, Registered' = Registered,
         serving' = e[1]
  PROVE  PromiseStep
BY DEF PromiseStep, Promise!Next, Promise!Deliver, Registered, Pending

LEMMA PromiseDrop ==
  ASSUME NEW e \in Pending, serving = NULL, Pending' = Pending \ {e}, Registered' = Registered,
         serving' = serving
  PROVE  PromiseStep
BY DEF PromiseStep, Promise!Next, Promise!Drop, Registered, Pending

LEMMA PromiseFinish ==
  ASSUME Pending' = Pending, Registered' = Registered, serving' = NULL \/ serving' = serving
  PROVE  PromiseStep
BY DEF PromiseStep, Promise!Next, Promise!Finish, Registered, Pending

\* What is registered and pending depends on descriptors and filters only.
LEMMA SameRegistered ==
  ASSUME poll \in [Polls -> PollType], \A p \in Polls : (Polled(p)' <=> Polled(p)) /\ (Polled(p) => poll'[p].id = poll[p].id)
  PROVE  Registered' = Registered
BY DEF Registered

LEMMA SamePending ==
  ASSUME at' = at, DOMAIN ready' = DOMAIN ready,
         \A i \in DOMAIN ready : /\ ready'[i].id = ready[i].id /\ ready'[i].filter = ready[i].filter
                                 /\ (ready'[i].data = NULL <=> ready[i].data = NULL)
  PROVE  Pending' = Pending
<1>1. Undelivered' = Undelivered
  BY DEF Undelivered
<1>2. \A i \in Undelivered : i \in DOMAIN ready
  BY DEF Undelivered
<1>3. \A x : x \in Pending' <=> x \in Pending
  BY <1>1, <1>2 DEF Pending
<1> QED
  BY <1>3

\* What is pending beside the head of the array.
Rest == {<<ready[i].id, ready[i].filter>> : i \in {k \in DOMAIN ready : k > 1 /\ ready[k].data # NULL}}
HeadEvent == <<ready[1].id, ready[1].filter>>

LEMMA RestPending ==
  ASSUME Good, ready # << >>
  PROVE  /\ at = "handler" \/ ready[1].data = NULL => Pending = Rest
         /\ at # "handler" /\ ready[1].data # NULL => HeadEvent \in Pending /\ Rest = Pending \ {HeadEvent}
         /\ at' = "handler" /\ ready' = ready => Pending' = Rest
         /\ at' # "handler" /\ ready' = Tail(ready) => Pending' = Rest
<1> DEFINE K == {k \in DOMAIN ready : k > 1 /\ ready[k].data # NULL}
<1>0. 1 \in DOMAIN ready /\ \A i \in DOMAIN ready : i \in Nat /\ (i > 1 <=> i # 1)
  BY DEF Good, Typed
<1>1. ASSUME at = "handler" \/ ready[1].data = NULL PROVE Pending = Rest
  <2>1. Undelivered = K
    BY <1>0, <1>1 DEF Undelivered
  <2> QED
    BY <2>1 DEF Pending, Rest
<1>2. ASSUME at # "handler", ready[1].data # NULL
      PROVE  HeadEvent \in Pending /\ Rest = Pending \ {HeadEvent}
  <2>1. Undelivered = K \cup {1} /\ 1 \notin K
    BY <1>0, <1>2 DEF Undelivered
  <2>2. ASSUME NEW i \in K PROVE <<ready[i].id, ready[i].filter>> # HeadEvent
    <3>1. SUFFICES ASSUME ready[i].id = ready[1].id, ready[i].filter = ready[1].filter PROVE FALSE
      BY DEF HeadEvent
    <3>2. /\ ready[i].data \in Polls /\ IsAt(ready[i].id, ready[i].data)
          /\ ready[1].data \in Polls /\ IsAt(ready[1].id, ready[1].data)
      BY <1>0, <1>2, ReadyTyped
    <3>3. ready[i].data = ready[1].data
      BY <3>1, <3>2 DEF IsAt, Good, Apart
    <3>4. i = 1
      BY <1>0, <1>2, <3>1, <3>3 DEF Good, ReadyOK
    <3> QED
      BY <2>1, <3>4
  <2> HIDE DEF K
  <2>3. \A x : x \in Rest <=> \E i \in K : x = <<ready[i].id, ready[i].filter>>
    BY DEF Rest, K
  <2>4. \A x : x \in Pending <=> \E i \in K \cup {1} : x = <<ready[i].id, ready[i].filter>>
    BY <2>1 DEF Pending
  <2>5. HeadEvent \in Pending
    BY <2>4 DEF HeadEvent
  <2>6. \A x : x \in Rest <=> x \in Pending /\ x # HeadEvent
    BY <2>2, <2>3, <2>4 DEF HeadEvent
  <2> QED
    BY <2>5, <2>6
<1>3. ASSUME at' = "handler", ready' = ready PROVE Pending' = Rest
  <2>1. Undelivered' = K
    BY <1>0, <1>3 DEF Undelivered
  <2> QED
    BY <1>3, <2>1 DEF Pending, Rest
<1>4. ASSUME at' # "handler", ready' = Tail(ready) PROVE Pending' = Rest
  <2>1. \A x : x \in Pending' <=> \E i \in DOMAIN Tail(ready) :
          Tail(ready)[i].data # NULL /\ x = <<Tail(ready)[i].id, Tail(ready)[i].filter>>
    BY <1>4 DEF Pending, Undelivered
  <2>2. \A i \in DOMAIN Tail(ready) : i \in Nat \ {0} /\ i + 1 \in DOMAIN ready /\ Tail(ready)[i] = ready[i + 1]
    BY RestOfReady
  <2>3. \A k \in DOMAIN ready : k > 1 => k - 1 \in DOMAIN Tail(ready) /\ k \in Nat
    BY <1>0, RestOfReady
  <2>4. ASSUME NEW x \in Pending' PROVE x \in Rest
    <3>1. PICK i \in DOMAIN Tail(ready) : Tail(ready)[i].data # NULL /\ x = <<Tail(ready)[i].id, Tail(ready)[i].filter>>
      BY <2>1
    <3>2. i + 1 \in K /\ x = <<ready[i + 1].id, ready[i + 1].filter>>
      BY <2>2, <3>1
    <3> QED
      BY <3>2 DEF Rest
  <2>5. ASSUME NEW x \in Rest PROVE x \in Pending'
    <3>1. PICK k \in K : x = <<ready[k].id, ready[k].filter>>
      BY DEF Rest
    <3>2. k - 1 \in DOMAIN Tail(ready) /\ k \in Nat
      BY <2>3
    <3>3. Tail(ready)[k - 1] = ready[k]
      <4>1. Tail(ready)[k - 1] = ready[(k - 1) + 1] /\ (k - 1) + 1 = k
        BY <2>2, <3>2
      <4> QED
        BY <4>1
    <3> QED
      BY <2>1, <3>1, <3>2, <3>3
  <2> QED
    BY <2>4, <2>5
<1> QED
  BY <1>1, <1>2, <1>3, <1>4

-----------------------------------------------------------------------------
(* One lemma per operation. *)

Inv == Good /\ CountOK

LEMMA StartStep ==
  ASSUME Inv, NEW p \in Polls, poll[p] = Free, UNCHANGED <<loopVars, ready>>,
         NEW d \in Ids, Unused(d), NEW e \in SUBSET {"R", "W"},
         NEW k \in {"socket", "timer", "fallthrough_timer"},
         poll' = [poll EXCEPT ![p] = [id |-> d, kind |-> k, events |-> e]],
         kernel' = kernel \cup Registrations(d, e, p),
         num_polls' = IF k = "fallthrough_timer" THEN num_polls ELSE num_polls + 1
  PROVE  Inv' /\ PromiseStep
<1>1. num_polls' \in Int
  BY DEF Inv, Good, Typed
<1>2. Good'
  BY <1>1, StartGood DEF Inv
<1>3. /\ poll'[p].kind = k /\ poll'[p].id = d /\ \A q \in Polls \ {p} : poll'[q] = poll[q]
  BY DEF Inv, Good, Typed
<1>4. CountOK'
  BY <1>3, OneMore, NoMore DEF Inv
<1>5. Pending' = Pending /\ serving' = serving
  BY SamePending DEF loopVars
<1>6. d \notin Registered
  BY DEF Registered, Unused
<1>7. Registered' = Registered \cup {d}
  <2>1. ~Polled(p) /\ Polled(p)' /\ \A q \in Polls \ {p} : Polled(q)' <=> Polled(q)
    BY <1>3 DEF Polled, Free
  <2> QED
    BY <1>3, <2>1 DEF Registered
<1> QED
  BY <1>2, <1>4, <1>5, <1>6, <1>7, PromiseStart DEF Inv

LEMMA StartSocketStep ==
  ASSUME Inv, NEW p \in Polls, NEW d \in Ids, NEW e \in SUBSET {"R", "W"}, StartSocket(p, d, e)
  PROVE  Inv' /\ PromiseStep
BY StartStep, "socket" \in {"socket", "timer", "fallthrough_timer"}, "socket" # "fallthrough_timer"
   DEF StartSocket

LEMMA StartTimerStep ==
  ASSUME Inv, NEW p \in Polls, NEW d \in Ids, NEW k \in {"timer", "fallthrough_timer"}, StartTimer(p, d, k)
  PROVE  Inv' /\ PromiseStep
<1>1. /\ poll[p] = Free /\ UNCHANGED <<loopVars, ready>> /\ Unused(d)
      /\ poll' = [poll EXCEPT ![p] = [id |-> d, kind |-> k, events |-> {"R"}]]
      /\ kernel' = kernel \cup Registrations(d, {"R"}, p)
      /\ num_polls' = IF k = "fallthrough_timer" THEN num_polls ELSE num_polls + 1
  BY DEF StartTimer
<1> QED
  BY <1>1, StartStep

\* A poll that stops has nothing pending.
LEMMA StopStep ==
  ASSUME Good, NEW p \in Polls, Polled(p), UNCHANGED loopVars,
         ~Polled(p)', \A q \in Polls \ {p} : poll'[q] = poll[q], Repointed(p, NULL, ready')
  PROVE  PromiseStep
<1> DEFINE d == poll[p].id
<1>1. d \in Ids /\ \A q \in Polls : Polled(q) /\ poll[q].id = d => q = p
  BY DEF Good, Apart
<1>2. Registered' = Registered \ {d}
  <2>1. \A q \in Polls \ {p} : Polled(q)' <=> Polled(q)
    BY DEF Polled
  <2> HIDE DEF d
  <2>2. ASSUME NEW x \in Registered' PROVE x \in Registered \ {d}
    <3>1. PICK q \in Polls : Polled(q)' /\ x = poll'[q].id
      BY DEF Registered
    <3>2. q # p /\ Polled(q) /\ x = poll[q].id
      BY <2>1, <3>1
    <3> QED
      BY <1>1, <3>2 DEF Registered
  <2>3. ASSUME NEW x \in Registered, x # d PROVE x \in Registered'
    <3>1. PICK q \in Polls : Polled(q) /\ x = poll[q].id
      BY DEF Registered
    <3>2. q # p /\ Polled(q)' /\ x = poll'[q].id
      BY <2>1, <2>3, <3>1 DEF d
    <3> QED
      BY <3>2 DEF Registered
  <2> QED
    BY <2>2, <2>3
<1>3. Pending' = {e \in Pending : e[1] # d}
  <2>1. DOMAIN ready' = DOMAIN ready /\ at' = at
    BY DEF Good, Typed, Repointed, loopVars
  <2>2. ASSUME NEW i \in DOMAIN ready
        PROVE  /\ ready'[i].id = ready[i].id /\ ready'[i].filter = ready[i].filter
               /\ ready'[i].data # NULL <=> ready[i].data # NULL /\ ready[i].data # p
    BY DEF Repointed
  <2>3. ASSUME NEW i \in DOMAIN ready, ready[i].data # NULL
        PROVE  ready[i].data = p <=> ready[i].id = d
    BY <1>1, <2>3, ReadyTyped DEF IsAt
  <2>4. Undelivered' = {i \in Undelivered : ready[i].id # d}
    BY <2>1, <2>2, <2>3 DEF Undelivered
  <2>5. \A i \in Undelivered : i \in DOMAIN ready
    BY DEF Undelivered
  <2> HIDE DEF d
  <2>6. \A x : x \in Pending' <=> \E i \in Undelivered : ready[i].id # d /\ x = <<ready[i].id, ready[i].filter>>
    BY <2>2, <2>4, <2>5 DEF Pending
  <2>7. \A x : x \in Pending <=> \E i \in Undelivered : x = <<ready[i].id, ready[i].filter>>
    BY DEF Pending
  <2> QED
    BY <2>6, <2>7
<1>4. serving' = serving
  BY DEF loopVars
<1> QED
  BY <1>1, <1>2, <1>3, <1>4, PromiseStop

LEMMA CloseSocketStep ==
  ASSUME Inv, NEW p \in Polls, CloseSocket(p)
  PROVE  Inv' /\ PromiseStep
<1>1. /\ poll[p].kind = "socket" /\ UNCHANGED loopVars /\ num_polls' = num_polls
      /\ poll' = [poll EXCEPT ![p].kind = "closed"] /\ kernel' = Others(poll[p].id)
      /\ ready' = Patched(p, NULL)
  BY DEF CloseSocket
<1>2. /\ poll' \in [Polls -> PollType] /\ poll'[p].kind = "closed" /\ \A q \in Polls \ {p} : poll'[q] = poll[q]
  <2>1. poll \in [Polls -> PollType] /\ [poll[p] EXCEPT !.kind = "closed"] \in PollType
        /\ [poll[p] EXCEPT !.kind = "closed"].kind = "closed"
    BY DEF Inv, Good, Typed, PollType, Kinds
  <2> QED
    BY <1>1, <2>1
<1>3. Polled(p) /\ ~Polled(p)'
  BY <1>1, <1>2 DEF Polled
<1>4. Repointed(p, NULL, ready')
  BY <1>1, PatchedAll DEF Inv
<1>5. Good' /\ PromiseStep
  <2>1. num_polls' \in Int
    BY <1>1 DEF Inv, Good, Typed
  <2> QED
    BY <1>1, <1>2, <1>3, <1>4, <2>1, StopGood, StopStep DEF Inv
<1>6. CountOK'
  BY <1>1, <1>2, SameCount DEF Inv
<1> QED
  BY <1>5, <1>6 DEF Inv

LEMMA CloseTimerStep ==
  ASSUME Inv, Careful, NEW p \in Polls, CloseTimer(p)
  PROVE  Inv' /\ PromiseStep
<1>1. /\ poll[p].kind = "timer" /\ UNCHANGED loopVars /\ num_polls' = num_polls - 1
      /\ poll' = [poll EXCEPT ![p] = Free] /\ kernel' = Others(poll[p].id)
      /\ ready' = IF backend = "epoll" THEN Patched(p, NULL) ELSE ready
      /\ backend = "kqueue" => \A i \in DOMAIN ready : ready[i].data # p
  BY DEF CloseTimer, Careful
<1>2. /\ poll' \in [Polls -> PollType] /\ poll'[p] = Free /\ \A q \in Polls \ {p} : poll'[q] = poll[q]
  <2>1. poll \in [Polls -> PollType] /\ Free \in PollType
    BY DEF Inv, Good, Typed, PollType, Kinds, Free
  <2> QED
    BY <1>1, <2>1
<1>3. Polled(p) /\ ~Polled(p)'
  BY <1>1, <1>2 DEF Polled, Free
<1>4. Repointed(p, NULL, ready')
  <2>1. CASE backend = "epoll"
    BY <1>1, <2>1, PatchedAll DEF Inv
  <2>2. CASE backend = "kqueue"
    BY <1>1, <2>2 DEF Repointed, Inv, Good, Typed
  <2> QED
    BY <2>1, <2>2, BackendsAssumption DEF Inv, Good, Typed
<1>5. Good' /\ PromiseStep
  <2>1. num_polls' \in Int
    BY <1>1 DEF Inv, Good, Typed
  <2> QED
    BY <1>1, <1>2, <1>3, <1>4, <2>1, StopGood, StopStep DEF Inv
<1>6. CountOK'
  BY <1>1, <1>2, OneLess DEF Inv
<1> QED
  BY <1>5, <1>6 DEF Inv

LEMMA ChangeStep ==
  ASSUME Inv, NEW p \in Polls, NEW e \in SUBSET {"R", "W"}, Change(p, e)
  PROVE  Inv' /\ PromiseStep
<1>1. /\ poll[p].kind = "socket" /\ UNCHANGED <<loopVars, ready, num_polls>>
      /\ poll' = [poll EXCEPT ![p].events = e]
  BY DEF Change
<1>2. /\ poll'[p].kind = "socket" /\ poll'[p].id = poll[p].id /\ \A q \in Polls \ {p} : poll'[q] = poll[q]
  BY <1>1 DEF Inv, Good, Typed, PollType
<1>3. CountOK'
  BY <1>1, <1>2, SameCount DEF Inv
<1>4. Registered' = Registered
  <2>1. \A q \in Polls : (Polled(q)' <=> Polled(q)) /\ poll'[q].id = poll[q].id
    BY <1>1, <1>2 DEF Polled
  <2> QED
    BY <2>1, SameRegistered DEF Inv, Good, Typed
<1>5. Pending' = Pending /\ serving' = serving
  BY <1>1, SamePending DEF loopVars
<1> QED
  BY <1>3, <1>4, <1>5, ChangeGood, PromiseFinish DEF Inv

\* A poll that moves takes what is pending for it along.
LEMMA ResizeStep ==
  ASSUME Inv, Careful, NEW p \in Polls, NEW q \in Polls, Resize(p, q)
  PROVE  Inv' /\ PromiseStep
<1>1. /\ poll[p].kind = "socket" /\ poll[q] = Free /\ UNCHANGED loopVars /\ num_polls' = num_polls
      /\ poll' = [poll EXCEPT ![p] = Free, ![q] = poll[p]] /\ ready' = Patched(p, q)
  BY DEF Resize, Careful
<1>2. /\ p # q /\ poll'[p] = Free /\ poll'[q] = poll[p] /\ \A x \in Polls \ {p, q} : poll'[x] = poll[x]
  <2>1. p # q
    BY <1>1 DEF Free
  <2> QED
    BY <1>1, <2>1 DEF Inv, Good, Typed
<1>3. CountOK'
  BY <1>1, <1>2, CountMoved DEF Inv
<1>4. Registered' = Registered
  <2>1. /\ Polled(p) /\ ~Polled(q) /\ ~Polled(p)' /\ Polled(q)'
        /\ \A x \in Polls \ {p, q} : Polled(x)' <=> Polled(x)
    <3>1. Free.kind = "free" /\ poll'[p].kind = "free" /\ poll[q].kind = "free" /\ poll'[q].kind = "socket"
      BY <1>1, <1>2 DEF Free
    <3> QED
      BY <1>1, <1>2, <3>1 DEF Polled
  <2>2. ASSUME NEW x \in Registered' PROVE x \in Registered
    <3>1. PICK y \in Polls : Polled(y)' /\ x = poll'[y].id
      BY DEF Registered
    <3>2. (y = q /\ x = poll[p].id) \/ (y # q /\ Polled(y) /\ x = poll[y].id)
      BY <1>2, <2>1, <3>1
    <3> QED
      BY <2>1, <3>2 DEF Registered
  <2>3. ASSUME NEW x \in Registered PROVE x \in Registered'
    <3>1. PICK y \in Polls : Polled(y) /\ x = poll[y].id
      BY DEF Registered
    <3>2. (y = p /\ x = poll'[q].id) \/ (y # p /\ Polled(y)' /\ x = poll'[y].id)
      BY <1>2, <2>1, <3>1
    <3> QED
      BY <2>1, <3>2 DEF Registered
  <2> QED
    BY <2>2, <2>3
<1>5. Pending' = Pending /\ serving' = serving
  <2>1. Repointed(p, q, ready')
    BY <1>1, PatchedAll DEF Inv
  <2>2. DOMAIN ready' = DOMAIN ready /\ at' = at /\ serving' = serving
    BY <1>1, <2>1 DEF Repointed, Inv, Good, Typed, loopVars
  <2>3. \A i \in DOMAIN ready : /\ ready'[i].id = ready[i].id /\ ready'[i].filter = ready[i].filter
                                 /\ (ready'[i].data = NULL <=> ready[i].data = NULL)
    BY <2>1, NullAssumption DEF Repointed
  <2> QED
    BY <2>2, <2>3, SamePending
<1> QED
  BY <1>3, <1>4, <1>5, ResizeGood, PromiseFinish DEF Inv

LEMMA SameCounted ==
  ASSUME CountOK, UNCHANGED <<poll, num_polls>>
  PROVE  CountOK'
BY SameCount

LEMMA StillRegistered ==
  ASSUME poll' = poll
  PROVE  Registered' = Registered
BY DEF Registered, Polled

LEMMA WaitStep ==
  ASSUME Inv, Wait
  PROVE  Inv' /\ PromiseStep
<1>1. /\ at = "wait" /\ at' = "dispatch" /\ UNCHANGED <<backend, poll, kernel, num_polls, serving, asked>>
  BY DEF Wait
<1>2. Good' /\ CountOK'
  BY <1>1, WaitGood, SameCounted DEF Inv
<1>3. ready = << >> /\ serving = NULL
  BY <1>1 DEF Inv, Good, Control
<1>4. Pending = {}
  BY <1>3 DEF Pending, Undelivered
<1>5. Pending' \subseteq Registered \X {"any", "R", "W"}
  <2>1. PICK n \in 0..MaxReady : ready' \in [1..n -> kernel]
    BY DEF Wait
  <2>2. ASSUME NEW r \in kernel PROVE <<r.id, r.filter>> \in Registered \X {"any", "R", "W"}
    <3>1. r \in Entry(Polls) /\ r.data \in Polls /\ IsAt(r.id, r.data)
      BY KernelTyped DEF Inv
    <3> QED
      BY <3>1 DEF Entry, IsAt, Registered
  <2>3. ASSUME NEW x \in Pending' PROVE x \in Registered \X {"any", "R", "W"}
    <3>1. PICK i \in DOMAIN ready' : x = <<ready'[i].id, ready'[i].filter>>
      BY DEF Pending, Undelivered
    <3>2. PICK r \in kernel : r = ready'[i]
      BY <2>1, <3>1
    <3> QED
      BY <2>2, <3>1, <3>2
  <2> QED
    BY <2>3
<1>6. Registered' = Registered /\ serving' = serving
  BY <1>1, StillRegistered
<1> QED
  BY <1>2, <1>3, <1>4, <1>5, <1>6, PromiseCollect DEF Inv

LEMMA SkipStep ==
  ASSUME Inv, Skip
  PROVE  Inv' /\ PromiseStep
<1>1. /\ at = "dispatch" /\ ready # << >> /\ ready' = Tail(ready)
      /\ UNCHANGED <<backend, poll, kernel, num_polls, at, serving, signalled, asked>>
  BY DEF Skip
<1>2. serving = NULL /\ serving' = serving /\ Registered' = Registered
  BY <1>1, StillRegistered DEF Inv, Good, Control
<1>3. Control'
  BY <1>1 DEF Inv, Good, Control
<1>4. Good' /\ CountOK'
  <2>1. Good'
    BY <1>1, <1>3, SameGood DEF Inv, Good, Typed
  <2> QED
    BY <1>1, <2>1, SameCounted DEF Inv
<1>5. Pending' = Rest
  BY <1>1, RestPending DEF Inv
<1>6. CASE ready[1].data = NULL
  BY <1>1, <1>2, <1>4, <1>5, <1>6, RestPending, PromiseFinish DEF Inv
<1>7. CASE ready[1].data # NULL
  <2>1. HeadEvent \in Pending /\ Pending' = Pending \ {HeadEvent}
    BY <1>1, <1>5, <1>7, RestPending DEF Inv
  <2> QED
    BY <1>2, <1>4, <2>1, PromiseDrop DEF Inv
<1> QED
  BY <1>6, <1>7

\* What a dispatch serves is the descriptor the entry was collected for.
LEMMA DispatchStep ==
  ASSUME Inv, DispatchSocket \/ DispatchCallback
  PROVE  Inv' /\ PromiseStep
<1>1. /\ at = "dispatch" /\ ready # << >> /\ ready' = ready /\ Head(ready).data # NULL
      /\ at' = "handler" /\ UNCHANGED <<backend, poll, kernel, num_polls>>
      /\ serving' = poll[Head(ready).data].id
  BY DEF DispatchSocket, DispatchCallback
<1>2. signalled' \in BOOLEAN /\ asked' \in BOOLEAN
  BY DEF DispatchSocket, DispatchCallback, Inv, Good, Typed
<1>3. Head(ready) = ready[1] /\ 1 \in DOMAIN ready
  BY <1>1, RestOfReady DEF Inv
<1>4. ready[1].id \in Ids /\ ready[1].data # NULL /\ serving' = ready[1].id
  BY <1>1, <1>3, ReadyTyped DEF IsAt, Inv
<1>5. serving = NULL /\ Control'
  BY <1>1 DEF Inv, Good, Control
<1>6. Good' /\ CountOK'
  <2>1. Good'
    BY <1>1, <1>2, <1>4, <1>5, SameGood DEF Inv
  <2> QED
    BY <1>1, <2>1, SameCounted DEF Inv
<1>7. HeadEvent \in Pending /\ Pending' = Pending \ {HeadEvent} /\ HeadEvent[1] = serving'
  BY <1>1, <1>4, RestPending DEF HeadEvent, Inv
<1>8. Registered' = Registered
  BY <1>1, StillRegistered
<1> QED
  BY <1>5, <1>6, <1>7, <1>8, PromiseDeliver DEF Inv

LEMMA LoopPostStep ==
  ASSUME Inv, LoopPost
  PROVE  Inv' /\ PromiseStep
<1>1. /\ at = "dispatch" /\ ready = << >> /\ ready' = ready /\ serving' = serving
      /\ poll' = [p \in Polls |-> IF poll[p].kind = "closed" THEN Free ELSE poll[p]]
  BY DEF LoopPost
<1>2. CountOK' /\ Good'
  BY LessClosed, LoopPostGood DEF Inv
<1>3. Registered' = Registered
  <2>1. \A p \in Polls : (Polled(p)' <=> Polled(p)) /\ (Polled(p) => poll'[p].id = poll[p].id)
    BY <1>1 DEF Polled, Free
  <2> QED
    BY <2>1, SameRegistered DEF Inv, Good, Typed
<1>4. Pending' = Pending
  BY <1>1 DEF Pending, Undelivered
<1> QED
  BY <1>1, <1>2, <1>3, <1>4, PromiseFinish DEF Inv

LEMMA ReturnStep ==
  ASSUME Inv, Return
  PROVE  Inv' /\ PromiseStep
<1>1. /\ at \in Handlers /\ at' = After(at) /\ serving' = NULL
      /\ ready' = IF at = "handler" THEN Tail(ready) ELSE ready
      /\ UNCHANGED <<backend, poll, kernel, num_polls, signalled, asked>>
  BY DEF Return
<1>2. /\ at' \in {"run", "wait", "dispatch"} /\ (at = "handler" <=> at' = "dispatch")
  BY <1>1 DEF Handlers, After
<1>3. (at = "handler" => ready # << >>) /\ (at # "handler" => ready = << >>)
  BY <1>1 DEF Handlers, Inv, Good, Control
<1>4. Control'
  BY <1>1, <1>2, <1>3 DEF Control
<1>5. Good' /\ CountOK'
  <2>1. signalled' \in BOOLEAN /\ asked' \in BOOLEAN
    BY <1>1 DEF Inv, Good, Typed
  <2>2. Good'
    BY <1>1, <1>2, <1>3, <1>4, <2>1, SameGood DEF Inv
  <2> QED
    BY <1>1, <2>2, SameCounted DEF Inv
<1>6. Pending' = Pending
  <2>1. CASE at = "handler"
    BY <1>1, <1>2, <1>3, <2>1, RestPending DEF Inv
  <2>2. CASE at # "handler"
    BY <1>1, <1>3, <2>2 DEF Pending, Undelivered
  <2> QED
    BY <2>1, <2>2
<1> QED
  BY <1>1, <1>5, <1>6, StillRegistered, PromiseFinish DEF Inv

LEMMA BeginStep ==
  ASSUME Inv, LoopBegin \/ Wakeup
  PROVE  Inv' /\ PromiseStep
<1>1. /\ UNCHANGED <<backend, poll, kernel, ready, num_polls, serving>>
      /\ at' = at \/ (at = "run" /\ at' \in {"main", "pre_cb"})
      /\ signalled' \in BOOLEAN /\ asked' \in BOOLEAN
  BY DEF LoopBegin, Wakeup, Inv, Good, Typed
<1>2. Control'
  BY <1>1 DEF Inv, Good, Control
<1>3. Good' /\ CountOK'
  <2>1. Good'
    BY <1>1, <1>2, SameGood DEF Inv, Good, Typed
  <2> QED
    BY <1>1, <2>1, SameCounted DEF Inv
<1>4. Pending' = Pending
  <2>1. CASE at' = at
    BY <1>1, <2>1 DEF Pending, Undelivered
  <2>2. CASE at = "run" /\ at' \in {"main", "pre_cb"}
    <3>1. ready = << >>
      BY <2>2 DEF Inv, Good, Control
    <3> QED
      BY <1>1, <3>1 DEF Pending, Undelivered
  <2> QED
    BY <1>1, <2>1, <2>2
<1> QED
  BY <1>1, <1>3, <1>4, StillRegistered, PromiseFinish DEF Inv

-----------------------------------------------------------------------------
(* Theorems. *)

LEMMA Starts ==
  ASSUME Init
  PROVE  Inv /\ Promise!Init
<1>1. PICK a \in Polls :
        /\ poll = [p \in Polls |-> IF p = a THEN [id |-> Async, kind |-> "async", events |-> {"R"}] ELSE Free]
        /\ kernel = Registrations(Async, {"R"}, a)
  BY DEF Init
<1>2. /\ backend \in Backends /\ ready = << >> /\ num_polls = 0 /\ at = "main" /\ serving = NULL
      /\ signalled = FALSE /\ asked = FALSE
  BY DEF Init
<1>3. /\ poll[a] = [id |-> Async, kind |-> "async", events |-> {"R"}] /\ Polled(a)
      /\ \A p \in Polls \ {a} : poll[p] = Free /\ ~Polled(p)
  BY <1>1 DEF Polled, Free
<1>4. Typed
  <2>1. poll \in [Polls -> PollType]
    BY <1>1, AsyncAssumption DEF PollType, Free, Kinds
  <2>2. kernel \subseteq Entry(Polls)
    BY <1>1, AsyncAssumption, RegistrationsTyped
  <2>3. ready \in Seq(Entry(Polls \cup {NULL})) /\ Len(ready) = 0
    BY <1>2
  <2>4. Len(ready) <= MaxReady
    BY <2>3, MaxReadyAssumption
  <2>5. num_polls \in Int
    BY <1>2
  <2>6. signalled \in BOOLEAN /\ asked \in BOOLEAN
    BY <1>2, Zenon
  <2> QED
    BY <1>2, <2>1, <2>2, <2>3, <2>4, <2>5, <2>6 DEF Typed
<1>5. Apart
  BY <1>3, AsyncAssumption DEF Apart
<1>6. KernelOK
  <2>1. ASSUME NEW r \in kernel PROVE r.id = Async /\ r.data = a
    BY <1>1, AsyncAssumption, RegistrationsTyped
  <2> QED
    BY <1>1, <1>3, <2>1 DEF KernelOK, IsAt
<1>7. ReadyOK /\ Control /\ Undelivered = {}
  BY <1>2 DEF ReadyOK, Control, Undelivered
<1>8. CountOK
  <2>1. Counted = {}
    BY <1>3 DEF Counted, Fallthrough, Free
  <2> QED
    BY <1>2, <2>1, FS_EmptySet DEF CountOK
<1>9. Promise!Init
  <2>1. Registered \subseteq Ids
    BY <1>5 DEF Registered, Apart
  <2> QED
    BY <1>2, <1>7, <2>1 DEF Promise!Init, Registered
<1> QED
  BY <1>4, <1>5, <1>6, <1>7, <1>8, <1>9 DEF Inv, Good

LEMMA Steps ==
  ASSUME Inv, Careful, [Next]_vars
  PROVE  Inv' /\ PromiseStep
<1>1. CASE Loop
  BY <1>1, BeginStep, WaitStep, SkipStep, DispatchStep, LoopPostStep DEF Loop
<1>2. CASE Call
  <2>1. PICK p \in Polls :
          \/ \E d \in Ids, e \in {{"R"}, {"W"}} : StartSocket(p, d, e)
          \/ \E d \in Ids, k \in {"timer", "fallthrough_timer"} : StartTimer(p, d, k)
          \/ CloseSocket(p) \/ CloseTimer(p)
          \/ \E e \in SUBSET {"R", "W"} : Change(p, e)
          \/ \E q \in Polls : Resize(p, q)
    BY <1>2 DEF Call
  <2> QED
    BY <2>1, StartSocketStep, StartTimerStep, CloseSocketStep, CloseTimerStep, ChangeStep, ResizeStep
<1>3. CASE Return \/ Wakeup
  BY <1>3, ReturnStep, BeginStep
<1>4. CASE UNCHANGED vars
  <2>1. /\ backend' = backend /\ poll' = poll /\ kernel' = kernel /\ ready' = ready /\ num_polls' = num_polls
        /\ at' = at /\ serving' = serving /\ signalled' = signalled /\ asked' = asked
    BY <1>4 DEF vars
  <2>2. Good'
    <3>1. Control'
      BY <2>1 DEF Inv, Good, Control
    <3> QED
      BY <2>1, <3>1, SameGood DEF Inv, Good, Typed
  <2>3. Pending' = Pending
    BY <2>1 DEF Pending, Undelivered
  <2> QED
    BY <2>1, <2>2, <2>3, SameCounted, StillRegistered, PromiseFinish DEF Inv
<1> QED
  BY <1>1, <1>2, <1>3, <1>4 DEF Next

LEMMA Invariant == ASSUME Careful PROVE Spec => []Inv
<1>1. Init => Inv
  BY Starts
<1>2. Inv /\ [Next]_vars => Inv'
  BY Steps
<1> QED
  BY <1>1, <1>2, PTL DEF Spec

\* Neither the kernel nor the array of ready polls leads to memory that was freed
\* or used again: each address they hold is that of the poll of its descriptor.
THEOREM AddressesStayFresh == ASSUME Careful PROVE Spec => []NoStaleAddress
<1>1. Inv => NoStaleAddress
  BY DEF Inv, Good, KernelOK, ReadyOK, NoStaleAddress, Undelivered
<1> QED
  BY <1>1, Invariant, PTL

\* num_polls is the number of polls that keep us_loop_run running, and of the
\* closed ones that are not freed yet.
THEOREM PollsAreCounted == ASSUME Careful PROVE Spec => []NumPollsCounted
<1>1. Inv => NumPollsCounted
  BY DEF Inv, CountOK, Counted, NumPollsCounted
<1> QED
  BY <1>1, Invariant, PTL

\* The refinement: each event that was collected is delivered at most once and to
\* the poll it was collected for, wherever that was moved to, and none of a poll
\* that was stopped.
THEOREM PendingIsDelivered == ASSUME Careful PROVE Spec => DeliversPending
<1>1. Init => Inv /\ Promise!Init
  BY Starts
<1>2. Inv /\ [Next]_vars =>
        [Promise!Next]_<<{poll[p].id : p \in {q \in Polls : Polled(q)}},
                         {<<ready[i].id, ready[i].filter>> : i \in Undelivered}, serving>>
  BY Steps DEF PromiseStep
<1> QED
  BY <1>1, <1>2, Invariant, PTL DEF Spec, DeliversPending, Promise!Spec
=============================================================================
