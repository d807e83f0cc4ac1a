-------------------------------- MODULE Backends --------------------------------
(***************************************************************************)
(* A build has one of the backends of internal/eventing.  Each implements   *)
(* what the loop relies on, PollContract.  (epoll and kqueue are described  *)
(* in more detail in ReadyPolls, and io_uring in UringLoop.)                *)
(***************************************************************************)
EXTENDS Naturals

CONSTANTS
  Polls, NULL,
  NR, MAX_DEAD,   \* see AsioPolls
  Inputs,          \* calls of the application explored
  Builds           \* the backends explored

ASSUME NrAssumption == NR \in Nat \ {0, 1}
ASSUME TimerAssumption == "timer" \notin Polls
ASSUME BuildsAssumption == Builds \subseteq {"libuv", "asio", "gcd"}

VARIABLES
  backend,                 \* chosen at compile time
  poll, timer, call, dev

vars == <<backend, poll, timer, call, dev>>

Libuv == INSTANCE LibuvPolls
Asio  == INSTANCE AsioPolls
Gcd   == INSTANCE GcdPolls

Init ==
  /\ backend \in Builds
  /\ backend = "libuv" => Libuv!LibuvInit
  /\ backend = "asio" => Asio!AsioInit
  /\ backend = "gcd" => Gcd!GcdInit

Next ==
  /\ \/ backend = "libuv" /\ Libuv!LibuvNext
     \/ backend = "asio" /\ Asio!AsioNext
     \/ backend = "gcd" /\ Gcd!GcdNext
  /\ UNCHANGED backend

Spec == Init /\ [][Next]_vars

-----------------------------------------------------------------------------
(* Properties. *)

Contract == INSTANCE PollContract

\* Each backend keeps the contract: whatever it queued, cancelled, moved or freed,
\* the loop sees a dispatch only of a poll that is started, at the place where it
\* is now, for events it is polled for.
KeepsContract == Contract!ContractSpec

\* libuv: both blocks of a poll that was freed are released once it is closed.
LibuvFreesPolls == backend = "libuv" => Libuv!LibuvFrees

\* asio: polls counts the waits, and each event polled for has one wait.
AsioWaitsForEach == backend = "asio" => Asio!AsioWaitsOnce

\* gcd: resumes and suspends of each source balance.
GcdSourcesBalance == backend = "gcd" => Gcd!GcdBalanced
=============================================================================
