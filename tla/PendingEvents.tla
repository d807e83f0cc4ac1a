----------------------------- MODULE PendingEvents -----------------------------
(* What a backend promises of the events it collected: each is delivered once, *)
(* in any order, to the poll it was collected for, or dropped; and once a poll *)
(* is stopped nothing collected for it is delivered any more.                  *)
CONSTANTS Ids, Filters, None

VARIABLES
  registered,  \* descriptors that are polled
  pending,     \* events collected and not yet delivered
  active       \* the descriptor whose handler runs

Init == registered \subseteq Ids /\ pending = {} /\ active = None

Start(d) ==
  /\ d \notin registered
  /\ registered' = registered \cup {d}
  /\ UNCHANGED <<pending, active>>

Stop(d) ==
  /\ registered' = registered \ {d}
  /\ pending' = {e \in pending : e[1] # d}
  /\ UNCHANGED active

Collect ==
  /\ pending = {} /\ active = None
  /\ pending' \subseteq registered \X Filters
  /\ UNCHANGED <<registered, active>>

Deliver(e) ==
  /\ active = None
  /\ pending' = pending \ {e} /\ active' = e[1]
  /\ UNCHANGED registered

Drop(e) ==
  /\ active = None
  /\ pending' = pending \ {e}
  /\ UNCHANGED <<registered, active>>

Finish == active' = None /\ UNCHANGED <<registered, pending>>

Next ==
  \/ \E d \in Ids : Start(d) \/ Stop(d)
  \/ Collect
  \/ \E e \in pending : Deliver(e) \/ Drop(e)
  \/ Finish

Spec == Init /\ [][Next]_<<registered, pending, active>>
=============================================================================
