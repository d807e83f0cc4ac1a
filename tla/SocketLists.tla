----------------------------- MODULE SocketLists -----------------------------
(***************************************************************************)
(* The intrusive lists of uSockets.  Every us_socket_t is one block of      *)
(* memory that carries its own links, and at any time it hangs in one of:   *)
(*   - a list of its context (head_sockets, or head_listen_sockets);        *)
(*   - the low-priority queue of the loop (low_prio_head);                  *)
(*   - the closed list of the loop (closed_head), until it is freed at the  *)
(*     end of the iteration.                                                *)
(* Which one is not stored: it is read off low_prio_state and off prev,     *)
(* which points at the context once the socket is closed.                   *)
(*                                                                         *)
(* The operators take and return the memory, m, so that a handler that      *)
(* makes several calls is their composition.  ListSpec is the contract of   *)
(* the list operations: each one is called on a block in the right state.   *)
(***************************************************************************)
EXTENDS Integers, FiniteSets

CONSTANTS
  Blocks,    \* blocks of memory a socket may occupy
  Contexts,  \* socket contexts
  NULL

ASSUME PointerAssumption ==
  /\ Blocks \cap Contexts = {}
  /\ NULL \notin Blocks \cup Contexts

VARIABLE h   \* the memory of the loop, its contexts and its sockets

Pointers == Blocks \cup {NULL}

\* What a block holds.  A semi-socket is listening or connecting.
Kinds == {"free", "listen", "connecting", "socket", "shut_down"}

\* The doubly linked lists: two for each context, and the low-priority queue.
LowPrio == <<NULL, "low_prio">>
Lists   == (Contexts \X {"sockets", "listen"}) \cup {LowPrio}

Memory ==
  [next     : [Blocks -> Pointers],
   prev     : [Blocks -> Pointers \cup Contexts],
   context  : [Blocks -> Contexts \cup {NULL}],
   lowPrio  : [Blocks -> 0..2],
   kind     : [Blocks -> Kinds],
   head     : [Lists -> Pointers],
   iterator : [Contexts -> Pointers],
   closed   : Pointers]

EmptyMemory ==
  [next     |-> [b \in Blocks |-> NULL],
   prev     |-> [b \in Blocks |-> NULL],
   context  |-> [b \in Blocks |-> NULL],
   lowPrio  |-> [b \in Blocks |-> 0],
   kind     |-> [b \in Blocks |-> "free"],
   head     |-> [k \in Lists |-> NULL],
   iterator |-> [c \in Contexts |-> NULL],
   closed   |-> NULL]

-----------------------------------------------------------------------------
(* Reading the memory. *)

Free(m, b)   == m.kind[b] = "free"
Closed(m, b) == ~Free(m, b) /\ m.prev[b] = m.context[b]
Live(m, b)   == ~Free(m, b) /\ m.prev[b] # m.context[b]
Queued(m, b) == Live(m, b) /\ m.lowPrio[b] = 1

\* The list of its context a block is linked into.
ContextList(m, b) == <<m.context[b], IF m.kind[b] = "listen" THEN "listen" ELSE "sockets">>

\* The list a live block hangs in.
ListOf(m, b) == IF m.lowPrio[b] = 1 THEN LowPrio ELSE ContextList(m, b)

\* The socket list of context c holds block b.
Linked(m, b, c) == Live(m, b) /\ ListOf(m, b) = <<c, "sockets">>

-----------------------------------------------------------------------------
(* List surgery. *)

\* A store through pointer p, skipped when p is null.
Store(f, p, v) == IF p \in Blocks THEN [f EXCEPT ![p] = v] ELSE f

Link(m, s, c) ==
  LET k   == <<c, IF m.kind[s] = "listen" THEN "listen" ELSE "sockets">>
      old == m.head[k]
  IN  [m EXCEPT !.context[s] = c,
                !.next[s] = old,
                !.prev    = Store([@ EXCEPT ![s] = NULL], old, s),
                !.head[k] = s]

\* Mutant of Unlink: the iterator of a running sweep is left where it stands.
UnlinkUnderSweep(m, s) ==
  LET k == ContextList(m, s)
      p == m.prev[s]
      n == m.next[s]
  IN  [m EXCEPT !.next    = Store(@, p, n),
                !.prev    = Store(@, n, p),
                !.head[k] = IF p = NULL THEN n ELSE @]

\* The test for the only member of the list compares prev with next.
Unlink(m, s) ==
  LET c == m.context[s]
      k == ContextList(m, s)
      p == m.prev[s]
      n == m.next[s]
      i == IF m.iterator[c] = s THEN n ELSE m.iterator[c]
  IN  IF p = n
      THEN [m EXCEPT !.iterator[c] = i, !.head[k] = NULL]
      ELSE [m EXCEPT !.iterator[c] = i,
                     !.next    = Store(@, p, n),
                     !.prev    = Store(@, n, p),
                     !.head[k] = IF p = NULL THEN n ELSE @]

\* Mutant of PushClosed: the closed list is not given its new head.
PushClosedLost(m, s) == [m EXCEPT !.next[s] = m.closed, !.prev[s] = m.context[s]]

PushClosed(m, s) ==
  [m EXCEPT !.next[s] = m.closed,
            !.closed  = s,
            !.prev[s] = m.context[s]]

PushLowPrio(m, s) ==
  LET old == m.head[LowPrio]
  IN  [m EXCEPT !.next[s]       = old,
                !.prev          = Store([@ EXCEPT ![s] = NULL], old, s),
                !.head[LowPrio] = s,
                !.lowPrio[s]    = 1]

UnlinkLowPrio(m, s) ==
  LET p == m.prev[s]
      n == m.next[s]
  IN  [m EXCEPT !.next          = [Store(@, p, n) EXCEPT ![s] = NULL],
                !.prev          = [Store(@, n, p) EXCEPT ![s] = NULL],
                !.head[LowPrio] = IF p = NULL THEN n ELSE @,
                !.lowPrio[s]    = 0]

\* realloc: block n takes over what block s held; s is given back.
Move(m, s, n) ==
  IF n = s THEN m
  ELSE [m EXCEPT !.next    = [@ EXCEPT ![n] = m.next[s],    ![s] = NULL],
                 !.prev    = [@ EXCEPT ![n] = m.prev[s],    ![s] = NULL],
                 !.context = [@ EXCEPT ![n] = m.context[s], ![s] = NULL],
                 !.lowPrio = [@ EXCEPT ![n] = m.lowPrio[s], ![s] = 0],
                 !.kind    = [@ EXCEPT ![n] = m.kind[s],    ![s] = "free"]]

-----------------------------------------------------------------------------
(* The operations, as the library composes them. *)

Create(m, s, c, k) == Link([m EXCEPT !.kind[s] = k, !.lowPrio[s] = 0], s, c)

\* us_socket_close unlinks from the queue or from the context.
Close(m, s) ==
  PushClosed(IF m.lowPrio[s] = 1 THEN UnlinkLowPrio(m, s) ELSE Unlink(m, s), s)

\* us_socket_close_connecting and us_listen_socket_close never look at the queue.
CloseSemi(m, s) == PushClosed(Unlink(m, s), s)

\* A readable socket beyond the budget moves from its context to the queue.
Defer(m, s) == PushLowPrio(Unlink(m, s), s)

\* The head of the queue goes back to its context.
Resume(m) ==
  LET s == m.head[LowPrio]
      n == m.next[s]
      u == [m EXCEPT !.head[LowPrio] = n, !.prev = Store(@, n, NULL), !.next[s] = NULL]
  IN  [Link(u, s, m.context[s]) EXCEPT !.lowPrio[s] = 2]

\* Mutant of Adopt: the neighbours in the queue keep pointing at the old block.
AdoptUnpatched(m, s, c, n) ==
  IF m.lowPrio[s] = 1 THEN Move(m, s, n) ELSE Link(Move(Unlink(m, s), s, n), n, c)

\* A queued socket keeps its place in the queue, and its old context.
Adopt(m, s, c, n) ==
  IF m.lowPrio[s] = 1
  THEN LET v == Move(m, s, n)
       IN  [v EXCEPT !.head[LowPrio] = IF v.prev[n] = NULL THEN n ELSE @,
                     !.next          = Store(@, v.prev[n], n),
                     !.prev          = Store(@, v.next[n], n)]
  ELSE Link(Move(Unlink(m, s), s, n), n, c)

\* One round of us_internal_free_closed_sockets.
FreeHead(m) ==
  LET s == m.closed
  IN  [m EXCEPT !.closed = m.next[s],
                !.next[s] = NULL, !.prev[s] = NULL, !.context[s] = NULL,
                !.lowPrio[s] = 0, !.kind[s] = "free"]

-----------------------------------------------------------------------------
(* The contract of the lists. *)

ListInit == h = EmptyMemory

ListCreate(s, c, k) ==
  /\ Free(h, s)
  /\ h' = Create(h, s, c, k)

ListConnected(s) ==
  /\ Live(h, s) /\ h.kind[s] = "connecting"
  /\ h' = [h EXCEPT !.kind[s] = "socket"]

ListShutDown(s) ==
  /\ Live(h, s) /\ h.kind[s] = "socket"
  /\ h' = [h EXCEPT !.kind[s] = "shut_down"]

ListClose(s) ==
  /\ Live(h, s) /\ h.kind[s] # "listen"
  /\ h' = Close(h, s)

ListCloseSemi(s) ==
  /\ Live(h, s) /\ h.kind[s] \in {"listen", "connecting"}
  /\ h' = CloseSemi(h, s)

ListDefer(s) ==
  /\ Live(h, s) /\ ~Queued(h, s) /\ h.kind[s] \in {"socket", "shut_down"}
  /\ h' = Defer(h, s)

ListResume ==
  /\ h.head[LowPrio] # NULL
  /\ h' = Resume(h)

ListServed(s) ==
  /\ Live(h, s) /\ h.lowPrio[s] = 2
  /\ h' = [h EXCEPT !.lowPrio[s] = 0]

ListAdopt(s, c, n) ==
  /\ Live(h, s) /\ h.kind[s] \in {"socket", "shut_down"}
  /\ n = s \/ Free(h, n)
  /\ h' = Adopt(h, s, c, n)

ListFree ==
  /\ h.closed # NULL
  /\ h' = FreeHead(h)

ListSweepAt(s, c) ==
  /\ Linked(h, s, c)
  /\ h' = [h EXCEPT !.iterator[c] = s]

ListSweepEnd(c) == h' = [h EXCEPT !.iterator[c] = NULL]

ListNext ==
  \/ \E s \in Blocks, c \in Contexts, k \in {"listen", "connecting", "socket"} :
       ListCreate(s, c, k)
  \/ \E s \in Blocks :
       \/ ListConnected(s) \/ ListShutDown(s) \/ ListServed(s)
       \/ ListClose(s) \/ ListCloseSemi(s) \/ ListDefer(s)
  \/ \E s, n \in Blocks, c \in Contexts : ListAdopt(s, c, n)
  \/ \E s \in Blocks, c \in Contexts : ListSweepAt(s, c)
  \/ \E c \in Contexts : ListSweepEnd(c)
  \/ ListResume
  \/ ListFree

ListSpec == ListInit /\ [][ListNext]_h

-----------------------------------------------------------------------------
(* What the lists promise. *)

\* Only an established socket is ever queued.
KindOK(m) == \A b \in Blocks :
  m.kind[b] \in {"free", "listen", "connecting"} => m.lowPrio[b] = 0

\* The context of a block that is in use is known.
ContextOK(m) == \A b \in Blocks : ~Free(m, b) => m.context[b] \in Contexts

\* Going forward and back again returns to the same live block of the same list.
NextOK(m) == \A b \in Blocks :
  Live(m, b) /\ m.next[b] # NULL =>
    /\ Live(m, m.next[b])
    /\ ListOf(m, m.next[b]) = ListOf(m, b)
    /\ m.prev[m.next[b]] = b

\* A live block without a predecessor heads its list; any other is the
\* successor of its predecessor.
PrevOK(m) == \A b \in Blocks :
  Live(m, b) =>
    IF m.prev[b] = NULL
    THEN m.head[ListOf(m, b)] = b
    ELSE m.prev[b] \in Blocks /\ Live(m, m.prev[b]) /\ m.next[m.prev[b]] = b

\* A list is headed by a live block of that list.
HeadOK(m) == \A k \in Lists :
  m.head[k] # NULL =>
    /\ Live(m, m.head[k])
    /\ ListOf(m, m.head[k]) = k
    /\ m.prev[m.head[k]] = NULL

\* The closed list holds closed blocks, each of them once.
ClosedOK(m) ==
  /\ m.closed # NULL => Closed(m, m.closed)
  /\ \A b \in Blocks : Closed(m, b) =>
       /\ m.next[b] # NULL => Closed(m, m.next[b]) /\ m.next[b] # m.closed
       /\ b = m.closed \/ \E a \in Blocks : Closed(m, a) /\ m.next[a] = b
  /\ \A a, b \in Blocks :
       Closed(m, a) /\ Closed(m, b) /\ m.next[a] = m.next[b] /\ m.next[a] # NULL => a = b

\* The sweep of a context stands on a live socket of that very context.
IteratorOK(m) == \A c \in Contexts :
  m.iterator[c] # NULL => Linked(m, m.iterator[c], c)

ListsOK(m) ==
  /\ KindOK(m) /\ ContextOK(m)
  /\ NextOK(m) /\ PrevOK(m) /\ HeadOK(m)
  /\ ClosedOK(m) /\ IteratorOK(m)

(* Type invariant: the memory has the shape of the C structures. *)
MemoryTypeOK == h \in Memory

(* Every live socket is linked, in both directions, into the one list its   *)
(* low_prio_state and its context name, every closed one hangs in the       *)
(* closed list, and an iterator of a running timeout sweep never points at  *)
(* a socket that was closed, queued, moved or freed by a handler.           *)
ListsWellFormed == ListsOK(h)

(* The blocks met by following next from pointer p. *)
Walk(m, p) ==
  LET met[i \in 0..Cardinality(Blocks)] ==
        IF i = 0 THEN {p} \ {NULL}
        ELSE met[i-1] \cup ({m.next[b] : b \in met[i-1]} \ {NULL})
  IN  met[Cardinality(Blocks)]

(* Nothing is lost and nothing is shared: a walk of a list meets exactly the *)
(* live sockets that belong to it, and a walk of the closed list exactly the *)
(* closed ones.  A socket missed by a walk would never time out, never be    *)
(* closed with its context, or never be freed.                               *)
NoSocketLost ==
  /\ \A k \in Lists : Walk(h, h.head[k]) = {b \in Blocks : Live(h, b) /\ ListOf(h, b) = k}
  /\ Walk(h, h.closed) = {b \in Blocks : Closed(h, b)}
=============================================================================
