# uSockets in TLA+

A verification project for uSockets: the event loop, its socket contexts and its
sockets as TLA+ modules, the instances of them that TLC checks, and theorems
about them that TLAPS proves. Source paths are relative to the repository's
`src/`. Line numbers are those of `PROJECT.json`, whose `map` ties each
definition to its lines.

## 1. The system

uSockets is a single-threaded, callback-driven networking library. An
application creates a *loop*, in it *socket contexts* (a set of handlers shared
by many sockets), and listens, connects and adopts *sockets* in them.
`us_loop_run` waits for ready polls, dispatches each to a handler, and lets
handlers call back into the library: close this socket or another one, adopt a
socket into another context (which moves it in memory), open new ones, re-arm
timers, close a whole context. Nothing runs in parallel, except
`us_wakeup_loop`. What makes the code hard is that every call is allowed in the
middle of almost every loop of the library over its own intrusive lists, and
that sockets change their address.

| Component | State | Operations | Talks to | Hard behaviour | What makes it correct |
|---|---|---|---|---|---|
| Intrusive lists (`context.c`, `socket.c`, `loop.c`) | per context two doubly linked lists of sockets and the sweep's `iterator`; per loop the low-priority queue and the closed list; in each socket one pair of links that serves all four | link, unlink, move to the closed list, queue, resume, patch the neighbours of a moved socket | everything | one pair of links, four lists, and no mark of membership but `low_prio_state` and `prev == context` | every list is well formed, each live socket is in exactly one list, the iterator never points at an unlinked socket |
| Event loop and dispatch (`loop.c`, `eventing/epoll_kqueue.c`) | the ready list and the position in it, `low_prio_budget`, `last_write_failed` | `us_loop_run`, `us_internal_dispatch_ready_poll`, `us_internal_loop_pre/post` | calls the handlers | the socket a handler was called for may be closed, moved or shut down when the handler returns | no step uses a freed or moved socket; handlers come in the promised order |
| Sockets (`socket.c`) | polled events, poll type, two timers | close, write, shutdown, timeouts | polls, lists | half-close, short writes and the low-priority queue all change what is polled | an open socket always polls for what it waits for; one on_open, one on_close |
| Contexts (`context.c`, `crypto/openssl.c`) | handlers, lists, list of contexts, the `SSL_CTX`s of a context | create, create child, listen, connect, adopt, close, free | lists, loop, OpenSSL | closing a whole context while its sockets' handlers run; freeing contexts in the middle of a sweep; calls that fail half-way | every socket is closed, none is left behind; every `SSL_CTX` has one owner; a failed call leaves nothing allocated |
| Timeout sweep (`loop.c`) | ticks modulo 240, the iterators over contexts and sockets | `us_internal_timer_sweep` | handlers | the list changes under the iteration | no timer of a linked socket is skipped |
| epoll and kqueue (`epoll_kqueue.c`) | polls, ready list, count of polls, timers, asyncs | start, change, stop, resize, free | the kernel, the loop | ready entries that point at polls closed, freed or moved meanwhile | a stopped poll is never dispatched, a moved one at its new address |
| libuv, asio, gcd (`libuv.c`, `asio.cpp`, `gcd.c`) | handles, waits or sources of a foreign event library | the same | that library | freeing in two phases; handlers that run late; counted suspends | the same promise to the loop, and nothing leaked |
| io_uring (`io_uring/`) | submission and completion queues, provided buffers, direct descriptors | a second `us_loop_run`, listen, connect, write | the kernel, which runs beside it | what a submission names is read later | buffers are in one place, bytes reach their own peer |
| Wakeup (`us_wakeup_loop`) | an eventfd | write, read and call back | other threads | a wakeup while the callback runs | no wakeup is lost |
| SSL (`crypto/openssl.c`) | one receive and one send BIO per loop, two retry flags per socket | open, data, writable, write, shutdown, close | sockets, OpenSSL | writes and closes from inside data handlers; reads that want to write and writes that want to read | the bytes of one socket are never another's, no retry is forgotten, no freed `SSL` is used |
| SNI tree (`crypto/sni_tree.cpp`) | a tree of labels | add, remove, find | SSL | wildcards | lookup finds the most specific name |
| QUIC (`quic.c`), UDP (`udp.c`) | two engines per context, packets, streams, a pool of header sets | send and receive batches, retry by timer, streams | lsquic, kernel | partial sends | packets sent once, in order, in the end |
| System calls (`bsd.c`) | none | making sockets, sending batches | kernel | each call may fail | nothing left open |

`PROJECT.json` lists every component with what is modelled of it, and every
hazard with the property that would catch it.

## 2. Modules

```
SocketLists          the memory of sockets and the four kinds of lists, pointer by pointer
Loop                 one loop: dispatch, accept, sweep, context close, application
  Loop_proofs        the theorems about the lists, and about the loop over them
  MCLoop             instances for TLC

Deadlines            what the timers of a context promise
TimeoutWheel         the bytes and ticks that keep it
  TimeoutWheel_proofs, MCTimeoutWheel

PendingEvents        what a backend promises of the events it collected
ReadyPolls           polls, ready array, kernel and wakeup of epoll and kqueue
  ReadyPolls_proofs, MCReadyPolls

PollContract         what internal/eventing promises to the loop
LibuvPolls, AsioPolls, GcdPolls   three more backends
Backends             a build with one of them, and the refinement
  Backends_proofs, MCBackends

SniTree              the tree of server names       SocketCreation   listen and connect calls
Contexts             the list of contexts, SSL contexts and server names, over both
  Contexts_proofs, MCContexts

SslSocket            the SSL sockets of a loop
  SslSocket_proofs, MCSslSocket
UringLoop            the io_uring build
  UringLoop_proofs, MCUringLoop
Quic                 QUIC contexts over UDP
  Quic_proofs, MCQuic
```

**SocketLists** holds one variable `h`, a record of arrays indexed by block (a
block is the memory of one `us_socket_t`): `kind`, `context`, `prev`, `next`,
`lowPrio` (`low_prio_state`), and per list `head`, per context `iterator`, and
`closed` (`closed_head`). `prev` may be a context, as the code marks a closed
socket by `prev == context`. The operators `Link`, `Unlink`, `PushClosed`,
`PushLowPrio`, `UnlinkLowPrio`, `Move` are the source's pointer assignments in
their order; `Create`, `Close`, `CloseSemi`, `Defer`, `Resume`, `Adopt`,
`FreeHead` put them together as the functions do. `ListSpec` lets any of them
happen at any time, under the *contract* that a caller has to keep (close live
sockets only, defer sockets that are not queued, ...). It is the abstract
specification that Loop implements, and the one the proofs are about.

**Loop** EXTENDS SocketLists and adds what the lists do not show: the polled and
the reported events, the timers, the library's local variables and the handler
that runs. `at` names the point the library has reached inside
`us_internal_dispatch_ready_poll`, the sweep or the loop, `cur` is its local
`s`; `closing` holds the local `nextS` of `us_socket_context_close`. `cb` names
the running handler. While a handler runs only `App...` actions and `Return`
happen; each is the whole of one API call. A call that emits on_close runs that
handler inside it: as nothing follows on_close in `us_socket_close`, the nested
handler takes the place of the caller's, which can make the same calls.

Abstractions of Loop:
- a timer is `off`, `later` (some other tick) or `due` (the tick of this sweep);
  when a sweep begins any set of timers of the context may come due. A timer
  that is missed at its tick goes back to `later`: matching is by equality, and
  the wheel comes round;
- the ready list is the set of polls that still have an entry, with the events
  the kernel may have reported; entries are dispatched in any order. The kernel
  may or may not report an event a poll asks for;
- what a system call returns is a choice (`RecvData`, `RecvEnd`, `RecvClose`,
  `RecvDone` for recv; `AcceptSocket`, `AcceptDone` for accept, a short
  write for `AppWrite`; a write that is complete changes nothing);
- addresses: `us_poll_resize` returns the same block or any free one;
- SSL is left out: `ssl` is 0 in every call. `is_low_prio` is a choice.

**TimeoutWheel** is the arithmetic that Loop abstracts: `global_tick`, and in each
socket the bytes `timeout` and `long_timeout`, which `SetTimeout` and
`SetLongTimeout` (socket.c:65-79) set to a tick modulo 240 and the sweep compares
for equality (loop.c:100-133). The steps of a sweep are separate actions, so that
handlers arm timers between them; `SweepShort` and `SweepLong` are the two calls of
one socket, `visiting` the socket between them. The abstract specification,
**Deadlines**, has no wheel: a timer has an absolute tick, fires at that tick and at
no other, and time does not pass over it. The refinement reads a deadline off its
byte (`Deadline`). A long deadline is in minutes: it is for the first tick of
that minute. All arguments are for less than a turn (`TurnAssumption`): up to 956
seconds and 239 minutes.

**ReadyPolls** is the backend that Loop abstracts to a set of reported events.
`poll` is what is at each address, `kernel` the registrations with the address
each carries, `ready` the array from `current_ready_poll` on; `at` is the point
`us_loop_run` has reached. `backend` is chosen in `Init`: epoll has one entry per
poll, kqueue one per filter, and frees its timers in another way. Handlers start,
change, close and move polls, an address that is freed is used again, and
`Wakeup` (us_wakeup_loop) happens at any time, which is the only thing another
thread does here. `signalled` is the eventfd, or the one-shot user event.
A descriptor keeps its identity when its poll moves; that makes it possible to say
for which poll an event was meant. The abstract specification, **PendingEvents**,
has descriptors only, no addresses: events are collected, each is delivered or
dropped once, and none survives the stop of its poll. The sweep timer is left
out (a wait that ends without entries stands for it, or for an interrupted call).
That a signalled wakeup is among the entries when more polls are ready than the
array holds is an assumption about the kernel, which takes turns.

**PollContract** is the interface of `internal/eventing` as the loop uses it: a
poll is made, started, changed, stopped, freed; it is dispatched only while it is
started, for events it is polled for, one dispatch at a time. `call` is the callback
that runs, and names NULL instead of a poll if the backend reaches it through an old
address. **LibuvPolls**, **AsioPolls** and **GcdPolls** add one variable, `dev`, for
what the foreign library holds. libuv: the phases of `uv_run`, and a poll of
two blocks that `us_poll_free` and `close_cb_free_poll` free together, in either order
(libuv.c:46-83). asio: the bag of waits, each with the count `nr` it captured
(asio.cpp:89-222); a wait that has ended keeps its handler in the queue while the poll
is changed, stopped or freed. Handlers that will do nothing are only counted
(`dead`). gcd: how often each source is suspended. `dispatch_*`, `uv_*` and the
io_context are external, modelled by what the code relies on. **Backends** chooses
one in `Init`, as a build does.

**Contexts** is a loop seen from its list of contexts. `list` holds `head`, the
sweep's `iterator` and the links; `TimerSweep` and `SweepNext` move the iterator
(loop.c:88, 134) and between them handlers create and free contexts.
`context`, `ctx` and `ssl` hold who owns and who uses each `SSL_CTX`: a parent
context, its server names, its child contexts that share the parent's, and the SSLs of
handshakes, which move to the `SSL_CTX` of a name in the servername callback
(openssl.c:589-632). **SniTree** represents the tree by the function from paths of
labels to users; `FindName` is the recursion of `getUser` (at each node the label's own
child, then the child "*") and is compared with a direct statement of the best match
(`Answer`). **SocketCreation**
says for each call of bsd.c what it opens, closes, allocates and frees, given which
of the system's answers fail. OpenSSL's counting of references is external. Assumed
of the application (`MayFree`): a context is freed when its sockets are closed and
its child contexts are freed.

**SslSocket** has `bio`, the shared state of `loop_ssl_data`: whose bytes the input
is, what is left of it, and the socket that output goes to. `at` is the point
`ssl_on_data` or `ssl_on_writable` has reached; the two call each other (`retry`,
`inner`). What a peer sends is cut into records; `SSL_read`, `SSL_write` and
`SSL_shutdown` are external and do with records what the error codes say that openssl.c
tests. The contexts set read_ahead (openssl.c:441), so that OpenSSL takes from the BIO
(`Fill`, BIO_s_custom_read) as much as its own buffer has room for, which is any part of
the input, and keeps in `ahead` the records it has not processed. The test of
`ssl_read_input_length` at openssl.c:263 does not see those: when an answer cannot be
written they stay in OpenSSL, and the read that ssl_on_writable takes up again
(openssl.c:344, with no input at all) goes on with them. It may emit data, fill the
receive buffer and close the socket like any other read. `SSL_write` goes on with a
handshake that is ahead (`Handshakes`), and `SSL_shutdown` looks for a close_notify
there (`Skipped`). `owed`, `mixed` and `skipped` are history. While a handler runs the
application may write, shut down and close either socket. Left out: corking, and the
bytes of a record.

**UringLoop** has the program (`sq`, `sock`, `buf`, the sweep) and the kernel
(`ring`, `slots`, `kernel`) as separate actions that interleave. `sock[s].dd` is the
slot the program believes a socket has, `slots` what is true. A `send` in the queue
names the slot and the buffer of its socket; both are read when the kernel performs it
(`Sends`). Assumed: one completion for each request, and an application that
writes when its last message has arrived (`Quiet`).

**Quic** has contexts, connections and streams of lsquic's engines. lsquic is
external: `todo` holds the entry points of the engine that the running handler has
still to call, each of which may hand packets to `send_packets_out`, whose locals are
`sending`; the kernel takes any part of each run of datagrams (bsd.c:56-109).
`pool` is the pool of header sets that all streams share. Left out: certificates,
shutting streams down, and headers that are sent.

What the application is assumed to do (what the API demands without checking):
it does not write to, shut down or adopt connecting or listen sockets; it uses
`us_listen_socket_close` and `us_socket_close_connecting` for those;
`us_socket_context_close` is not nested in itself; a handler that moves its
socket returns the new one.

## 3. Runs

All runs explore the whole state space of their instance.

| Run | Instance | What it shows |
|---|---|---|
| `loop_sweep` | Loop, 3 blocks, 2 contexts | on_timeout, on_long_timeout and on_close handlers that close, adopt, connect and re-arm: no stale pointer (`NoDangling`), no skipped timer (`NoMissedTimeout`), no handler called for a closed socket (`NoEventAfterClose`) |
| `loop_io` | Loop, reads, writes, FIN, half-close, errors | `OneOpenOneClose`, `WritableArmed`, `ReadableArmed` |
| `loop_low_prio` | Loop with a budget of 1 | more sockets than budget: none is lost between queue and context, polled events follow the queue, and each step uses the lists as their contract says (`ListContract`, the refinement Loop => ListSpec) |
| `loop_close` | Loop, listen sockets, clients, connects | the accept loop with handlers that close the listen socket or the context under it: the context is closed to the last socket (`ContextCloseClosesAll`), and under fairness `ClosedIsFreed` |
| `timeout_wheel` | TimeoutWheel, 2 sockets, a wheel of 4 ticks, 2 ticks to a minute | every timer fires at the tick it was armed for (`KeepsDeadlines`, the refinement TimeoutWheel => Deadlines) and a sweep leaves none behind (`NoneLeftBehind`) |
| `ready_polls` | ReadyPolls, 3 addresses, 2 descriptors beside the wakeup, both backends | no stale address in kernel or array (`NoStaleAddress`), each event to its own poll and none after a stop (`DeliversPending`, the refinement ReadyPolls => PendingEvents), `NumPollsCounted`, and under fairness `WakeupSeen` |
| `ssl` | SslSocket, 2 sockets, 11 windows of one to three records | no socket's bytes are read or sent by another (`OwnRecords`), no input is dropped before its SSL saw it (`NoInputSkipped`), who waits is armed for what it waits for, records read ahead included (`RetryArmed`), no freed SSL is used (`SslAlive`), no on_data and no on_writable after on_close, but for the one of openssl.c:348 (`SilentAfterClose`, divergence 13) |
| `contexts` | Contexts, 3 contexts, 3 `SSL_CTX`s, 1 handshake, 3 names | the list under a sweep (`ListSound`, `SweepsEach`), one owner and the right count for each `SSL_CTX` (`ReferencesCounted`), the best match for each name (`LooksUpBest`), and nothing allocated after a failed call (`NothingLeftOpen`) |
| `backends` | Backends, each of the three with a poll and a timer | `KeepsContract` (the refinement to PollContract), `LibuvFreesPolls`, `AsioWaitsForEach`, `GcdSourcesBalance` |
| `uring` | UringLoop, 2 connections that share one descriptor, 2 buffers | `BuffersConserved`, `OwnSends`, `SlotsOwned`, and under fairness `Reaped` |
| `quic` | Quic, one context with both engines, 2 connections, 1 stream | `PacketsOnce`, `StreamOrder`, and under fairness `SentInTheEnd` |
| `queued_write` | Loop, small | a comment that the code does not keep (section 5) |

**Bounds.** `Inputs` names the API calls and kernel events of an instance and
`Callers` the handlers that make calls. They split the behaviour by question, so
that each instance explores its part completely. Three blocks make every shape
that matters to a doubly linked list under one operation: head, middle and tail,
with a block left to move to. Two contexts let a
socket be adopted away from the list that is swept. `MaxLowPrio` is 1 instead
of 5: the budget is exhausted by the second socket. Counters (`opens`, `closes`)
saturate at 2, one above what is allowed. Blocks are interchangeable, and are a
symmetry set in the runs without liveness. Adding `context_close` to `loop_sweep`
also passes (6.0 million states), but takes too long to be a regular run.

The wheel of 4 ticks has timers of one, two and three ticks, the last the longest
that is less than a turn, and `MaxTick` 18 is two turns of the slow wheel.
In `ready_polls` an array of 3 holds both filters of one poll and another
entry; three addresses are the wakeup's and two more, so that a poll can be freed
or closed while another is moved or started at a free address. Descriptors
start with one event and may get the other by `Change`.

`ssl` (6.7 million states): two sockets are what can be mixed up; a receive buffer
of two records (`Full`) makes full buffers, and the windows end and begin in the
middle of a record. OpenSSL reads any part of a window ahead, so that windows of two and
three stand for those larger than its buffer, too; records that follow a handshake
message (`hs, data`, `hs, hs`, `hs, fin`) are the ones a blocked answer leaves ahead. `contexts` (82 thousand states): three contexts give the sweep one
behind, one under and one before it. The names share a label and a wildcard, so that
a lookup has to go back; `TheReplies` has each of the calls fail. `backends` (268
thousand): one poll at a time is what a backend sees, as polls share nothing but
asio's count; `NR` is 2 instead of 256, so that the count comes round at once, and
`Bounded` leaves out the change that would bring it round to the count of a handler
still queued (section 5); `MAX_DEAD` bounds handlers that wait to do nothing.
`uring` (645 thousand): one descriptor for two connections has it reused at once; two
buffers run out. `quic` (456 thousand): `MaxIov` 2 with three packets cuts a batch both
by socket and by length; that several streams share the pool of header sets is left to
the proof (`StreamsAreInOrder`).

**Fairness** (`FairSpec`, used for liveness only): the library keeps running,
because the sweep timer wakes `epoll_wait` every four seconds (loop.c:32,
loop.c:228); handlers return; and a peer does not for ever fill the receive
buffer (loop.c:363 reads again at once), nor queue clients that are all exported
by on_pre_open, without a pause (strong fairness of `RecvDone` and `AcceptDone`).
Without the last assumption the code really can stay in these loops. In ReadyPolls
only the loop's own steps and the return of handlers are fair. In UringLoop the loop
is fair (`WF(LoopNext)`), which `us_loop_run` is by being an endless loop; the kernel
may do nothing. In Quic the loop goes on (`WF`), the timer of 50 ms comes again
(`SF(TimerCb)`) and the kernel takes a whole run again and again (`SF(SendsAll)`); without
the last one a packet need not leave at all. `uring` and `quic` switch
deadlock checking off: the process may end for lack of buffers (io_loop.c:126), and
both may have nothing left to do under the bounds on what peers send.

## 4. Proofs

`Loop_proofs` begins with SocketLists and proves, for any set of blocks and any set of contexts, that
`ListSpec` implies `[]MemoryTypeOK` and `[]ListsWellFormed`.

`ListsWellFormed` is not inductive as it stands. It says that links are
symmetric, that heads have no predecessor, that an iterator is on a live socket of
its own context. To show that a step keeps it, one has to know that the tail of
what a pointer leads to is in the *same* list, and that following `next` never
comes back: `Unlink` takes `prev == next` to mean "the only element", which is
wrong on a ring of two. Neither can be written as a fact about neighbours
alone. The inductive invariant `Good` is `Memory` typing, plus `ListsBut(m, NULL)`,
the local facts of all lists, plus `Downhill`: there is a rank that falls along
`next` (so there are no rings). `ListsBut(m, s)` is the same with the block `s`
left out, the state in the middle of an operation, after `Unlink` and
before the next `Link` or `Push`: most lemmas say that one half of an operation
leads from `Good` to `ListsBut(_, s)` and the other half back. There is one lemma per
operation (`CreateGood`, `CloseGood`, `CloseSemiGood`, `DeferGood`, `ResumeGood`,
`AdoptGood`, `FreeGood`, `IteratorGood`), and `GoodStep` puts them together. The
only assumption is `PointerAssumption`: NULL, blocks and contexts are different.

`TimeoutWheel_proofs` proves, for every wheel, every minute, every set of sockets
and every set of arguments of less than a turn, that `Spec` implies `[]TypeOK`
(`WheelTyped`), `[]NoneLeftBehind` (`NoTimerLeftBehind`) and `KeepsDeadlines`
(`WheelKeepsDeadlines`, the refinement), and that `us_socket_timeout` rounds up
by three seconds at most (`TimeoutGranularity`). `TypeOK /\ NoneLeftBehind` is
inductive. The refinement needs it in one place: time may pass only if no deadline
is now, and a byte that matches the tick is a deadline that is now. The other
steps rest on arithmetic, stated as lemmas of its own (`Sum`, `Difference`,
`ArmedAhead`, `StepNearer`): a byte that is armed `n` ticks ahead is `n` away modulo
the wheel, and each tick brings it one nearer until it is `DueNow`. From
`WheelAssumption` and `TurnAssumption`; the second is what the code needs, too
(section 5).

`SslSocket_proofs` proves, for any set of sockets, any windows of records and any
receive buffer, all five properties of the run `ssl` (`SslReadsItsOwn`,
`SslMissesNoInput`, `SslNotUsedAfterFree`, `SslSilentAfterClose`,
`SslWaitsAreWoken`). They hold under `Careful`: `Inputs` does not have `use_when_full`,
with which the code breaks them (divergence 12). What the code does at openssl.c:348
(divergence 13) is not excluded: `SilentAfterClose` names that one on_writable as its
exception, and is about every other call. The inductive invariant `Inv` has four parts: each socket is good by itself
(`GoodSockets`); the locals are typed (`Typing`); where no handler can have run since
the last check, the socket the library works for is not closed (`Control`); and the
BIOs are aimed at it where they will be read (`Aimed`). The last part carries the
argument: a call of the application empties the shared input, which does harm only if
somebody will read it, and outside of `bye`, `read` and `full` the input is used up or
its owner cannot read (`Spent`). A read that ssl_on_writable takes up again is no
different: it has no input, but all points of ssl_on_data may be reached with what
OpenSSL has read ahead. `RetryArmed` needs two parts more. `FailureKept`: when the loop is
about to stop polling for writable, what the socket still waits for has left its trace in
`last_write_failed`. `AheadKept`: outside of a read, records are ahead of an open socket
only while `ssl_read_wants_write` is set, so that the end of every read has to be either
the wish to write or an empty buffer; a write in the handshake that meets a record it
cannot use relies on the same fact. All were checked as invariants of the run's instance
before they were proved. The assumptions are `FullAssumption` and `WindowsAssumption`.

`Backends_proofs` proves, for any set of polls, the refinement
`Spec => KeepsContract` (`BackendsKeepContract`), and `[]LibuvFreesPolls` and
`[]GcdSourcesBalance` (`LibuvReleasesBlocks`, `GcdBalancesSources`). They hold under
`Supported`: `Inputs` has none of `stop_in_post`, `close_timer` and `clear_timer`, the
calls with which the code breaks them (divergences 18 and 20). `BackendInv` has one
inductive invariant per backend. `LibuvInv` ties the phase of the handle and its `data`
pointer to the state of each poll: only a poll that was freed has a handle that is
closed late, and that handle has its block. `AsioInv` says of which events the waits
are whose handlers would dispatch (`Waiting`), and the argument is in `RecountTouches`:
once a poll has a new count and its pending waits are cancelled, no wait of it counts,
because `Bounded` leaves no queued handler with that count (without it the code really
fails, divergence 19). The lemmas about asio say of each step that it `Touches` one poll or
the timer, so that what is known of the others stays. `GcdInv` gives the exact number
of suspends of each source. The assumptions are `TimerAssumption` and
`BuildsAssumption`.

`AsioWaitsOncePerEvent` proves `[]AsioWaitsForEach`, without `Supported`. Its invariant
`AsioCounts` is about numbers of waits, and beside `AsioInv` it is inductive: a step
`Keeps` the difference of the library's count and asio's, and the waits of the others. `AsioInv`
is needed where a poll starts or gets a new count, which leaves it no wait that counts.
The number of elements of a bag is a recursive sum. `CardinalityCounts` shows that it is
the cardinality of the set of numbered copies (`Copies`): counting copies solves the
recursion, and on a smallest set no other solution can differ from it.

`ReadyPolls_proofs` proves, for any addresses and descriptors, an array of any length
and both builds, `[]NoStaleAddress` (`AddressesStayFresh`), `[]NumPollsCounted`
(`PollsAreCounted`) and the refinement `DeliversPending` (`PendingIsDelivered`). They
hold under `Careful`: `Inputs` has none of `close_ready`, `resize_unpolled` and
`close_fallthrough`, the calls with which the code breaks them (divergences 5, 7 and 10).
The inductive invariant `Inv` says that a descriptor has one poll (`Apart`); that the
kernel has the events of each poll as they are (`KernelOK`), and not only an address that
is not stale; that the array has a poll once per filter (`ReadyOK`); when it
is empty (`Control`); and `CountOK`. `KernelOK` is what makes `ReadyOK` true when the
array is filled, and `ReadyOK` is what the loop of
us_internal_loop_update_pending_ready_polls rests on: it stops after one entry under
epoll and two under kqueue, and `FewEntries` shows that there are no more. From there
`PatchedAll` says that no entry keeps the old address. The refinement needs `Apart`
again: an entry of the array is told apart from the others by descriptor and filter
(`RestPending`). The assumptions are those of the module.

`Loop_proofs` also proves `[]NoSocketLost` of SocketLists (`NothingIsLost`): a walk meets
exactly the members of its list. The walk in the property counts its steps, which would
ask for an induction; the proof goes around it. A set that holds the head of a list and,
with a block, the block after it, holds what the walk meets (`HoldsFrom`), and the
sets of blocks met after each number of steps grow until they have as many blocks as
there are; so a walk meets what *every* such set holds (`Reach`). That a list holds
nothing else is then a set to name (`Members`), and that it misses none follows by
taking, of the members missed, the one of highest rank (`Highest`: a finite set of
integers has a greatest element): its predecessor is met, so it is met too. Blocks are
finitely many there and in three theorems below; memory is. For the closed
list the invariant has a rank of its own, `ClosedDownhill`, as nothing points back in it.

Of Loop itself `Loop_proofs` proves the eleven invariants and action properties the runs check of Loop,
for any sets of blocks and contexts, any budget, and any `Inputs` and `Callers` but those
named. `LInv` is the inductive invariant. It has `Sound(h)`, what is proved of the
lists, and three parts of the loop's own:
- `CurOK` says for each point `at` what the library knows of its local `s`. It is written
  for the moment *after* the handler: on `writable` or `more` the block may be closed or
  half-closed but not freed, since closed blocks are freed in loop_post only, or
  adopted, and then `cur` is the new block;
- `ClosingOK`: `nextS` of us_socket_context_close, read before on_close runs, is live
  and in the list that is walked, or null;
- `PollsOK`: ready events are those of live sockets, and `ReadableArmed`.

`ListStep` is the refinement: each action meets the contract of the list operation it
uses. `LStep` follows action by action. From `LInv` alone come `TypeOK`,
`NoDangling`, `ReadableArmed`, `ListContract`, `ListsWellFormed`, `NoSocketLost` and
`NoEventAfterClose`. Each of the other four properties needs an invariant beside it:
- `OneOpenOneClose`: `HistoryInv` adds what semi-sockets have seen (nothing), and who may
  be closed by a context;
- `WritableArmed`: `WriteNoted` says that a write that came short in on_writable has left
  its mark in `last_write_failed` when the dispatcher looks;
- `ContextCloseClosesAll`: `CloseAllInv` says that every socket still to be closed is
  *ahead*, reached from `nextS` (or in the other list, which is walked later). A step of
  the walk passes one block; a handler that opens sockets puts them before the walk, at the head;
- `NoMissedTimeout`: `DueInv` says the same of due timers and of the place the sweep goes
  on at, which is its local while it seeks and the context's `iterator` while a handler
  runs. `us_internal_socket_context_unlink_socket` moves the iterator on when the handler
  closes, adopts or queues the socket it is on; the lemmas `ReachOn`,
  `ReachPast` and `ReachNull` say what a walk still meets after each.

Both were checked as invariants of the instances of `loop_close` and `loop_sweep` before
they were proved. The hypotheses leave out exactly the uses with which the code breaks
the properties: `Supported` is no `write_queued`, `adopt_unpolled` and `nested`
(divergences 1, 7 and 6); `OneOpenOneClose` has no context closed over connecting
sockets (9), `WritableArmed` no `write2` (4), `ContextCloseClosesAll` no `low_prio` (3).

`UringLoop_proofs` proves, for any number of sockets, slots and buffers and any order of
the kernel's answers, the three invariants of the run `uring`. Every accept, connect,
receive, send and close is a token that is in one place: the submission queue, the ring,
the kernel, or the completions. `AcceptOK`, `ConnectOK`, `RecvOK`, `SendOK` and `CloseOK`
say which places a socket's tokens may be in at each point of its life; `HoldOK` and
`SlotOK` say whose a slot is, from both sides: the slot a socket believes in is
its own until the kernel performs its close, and each slot taken has an owner; `Named`
says that submissions name the slot of their socket; `ModeOK` that a process accepts or
connects. With these, that a send is alone and ahead of the close of its socket
(`SendOK`) is enough to show that it sends the bytes of its own socket in its own
slot. `BuffersOK` counts the places of each receive buffer. `SlotsAreOwned` and
`OnlyOwnSends` need `OneRole` (no `mixed`), `OnlyOwnSends` also `Orderly` (no `overlap`,
no `late`), and `BuffersStayInOnePlace` only `Buffered` (no `bufferless`): the inputs
with which the code breaks them (section 5). The conjunction was checked as an
invariant of the run's instance first. The assumptions are `SocketsAssumption` and
`SizesAssumption`.

`Contexts_proofs` proves, for any number of contexts, `SSL_CTX`s, handshakes,
descriptors and names, all five properties of the run `contexts`.
- `LookupsAreBest` is about any sequence of names added and removed. A tree is sound
  (`TreeOK`) if its nodes are closed under prefixes and every node leads to one that holds
  something; adding and removing keep that (`AddNameOK`, `RemoveNameOK`). That `FindName`
  then is `Answer` would ask for an induction over the recursion of getUser, and a proof
  that the recursion defines a function at all. `BestExists` walks down from the longest
  names (`Downwards`, from the least of a set of numbers) to show that wherever
  something matches, one match is better than all others; `Value` is what it holds;
  `ValueFollows` shows that `Value` solves the recursion, and `FollowsGivesValue` that
  every solution agrees with it on nodes that are no longer than the name.
- `CountsReferences` has two invariants: `OneOwner` (no `SSL_CTX` is had by two contexts,
  two names, or a context and a name, and the root of a tree holds none) and `AllCounted`
  (the references are the owner and the users, and a password has an owner). Every step is a
  gain of one owner (`GainCounted`), a loss of some (`LossCounted`; freeing a parent loses
  all it owns at once), or the move of one SSL (`UserCounted`). The hypotheses are
  finitely many handshakes and `RealNames`, that nobody adds the empty name (divergence 16).
- `ListStaysSound` and `SweepReachesEach` share one invariant, `ListOK`: there is a rank
  that falls along the list, with nothing left out between neighbours, and what the sweep
  has to come to is exactly what ranks below the context it stands on. A new context
  ranks above the head, so that it is linked where the sweep has been (`LinkOrdered`). The
  hypothesis `FreesOthers` is no `free_swept` (divergence 15).
- `NothingStaysOpen` needs only that each answer of `SocketCreation` gives back what it
  opened, whichever call failed (`RepliesClean`), and finitely many descriptors.

Beside these hypotheses the assumptions are those of Contexts, SniTree and
SocketCreation.

`Quic_proofs` proves, for any number of contexts, connections, streams and packets, the
two invariants of the runs of Quic.
- `PacketsAreSentOnce` is `[]PacketsOnce`, for any longest run and any cut by the kernel.
  `PacketInv` adds that connections that were made keep their engine and socket
  (`ConnsOK`), that a batch under way is the beginning of what its engine holds and not yet
  used up (`BatchOK`), and that an engine holds, and a socket has sent, only packets of
  connections that were made, an engine only of its own (`Owned`). A step of
  send_packets_out moves a part of what the engine holds to the end of what one socket
  sent: for the connections on that socket the two together stay what they were, and
  for all others the part does not matter (`NumberedBetween`). That the part is for one
  socket is `RunIsOfOneSocket`: the run that the code finds by scanning exists, and is the
  shortest that ends.
- `StreamsAreInOrder` is `[]StreamOrder` unless `Inputs` has `ahead` (divergence 27).
  `StreamOK` says of one stream where it can be: nothing is readable before its headers
  were decoded, and nothing is read after the end. `PoolOK` says that the set that was
  decoded last is that of the only stream that is open and was not told of its headers.
  There is one lemma per change of a stream, and one for what an application's calls leave.
  A stream may close with its set unread, below the next one in the pool. `StreamInv` was
  checked first on an instance with two streams (80 thousand states).

Proved, then, are the safety and action properties of all passing runs, each for the
behaviour its run explores: many under hypotheses that exclude, by the tokens of section
5, the uses with which the code breaks them. Nothing is shown of the excluded uses beyond
that. Only model-checked: liveness
(`ClosedIsFreed`, `WakeupSeen`, `Reaped`, `SentInTheEnd`).

## 5. Where the code and its words differ

The first has a run that ends in a counterexample, `queued_write`. The others are
behaviours the passing runs leave out, by tokens of `Inputs` or by what an instance
puts together; with the token named, TLC finds the property named violated.

### Loop, lists and epoll/kqueue

1. *A short write to a queued socket* (`queued_write`). `us_socket_write` sets the
   poll to readable and writable (socket.c:187), also when the socket is in the
   low-priority queue with readable polling off. The next readable event defers
   it a second time, `us_internal_socket_context_unlink_socket` runs on the links
   of the queue, and sockets end up in a list that `low_prio_state`
   (internal.h:99) does not name.
2. *Adopting a queued socket* (`adopt_queued`, `AdoptedBelongs`) leaves `context` as it was
   (context.c:407), while libusockets.h:221 says it "belongs to a different socket context".
3. *Closing a context with queued sockets* (`low_prio` with `context_close`,
   `ContextCloseClosesAll`) leaves them open,
   while libusockets.h:185 says "Closes all open sockets".
4. *us_socket_write2 from on_writable* (`write2` with the caller on_writable,
   `WritableArmed`) does not set
   `last_write_failed`, and the dispatcher stops polling for writable.
5. *Closing a timer under kqueue* (`close_ready`, `NoStaleAddress`) does not touch the ready array
   (epoll_kqueue.c:349-358), so that an entry of the timer is dispatched after it is
   freed. Under epoll the same call goes through `us_poll_stop`. The entry of the
   timer itself, when its own handler closes it, is harmful in a longer order
   only: another poll that is moved to the address and closed in the same handler
   finds that entry first and may run out of its two patches
   (epoll_kqueue.c:162). `ready_polls` therefore closes, under kqueue, timers without
   an entry only (`close_ready`).

6. An on_close handler that closes or adopts *another* socket while
   `us_socket_context_close` runs (`nested`): the saved `nextS` (context.c:65) may
   lead the walk to the closed list, and sockets stay open.
7. Moving a socket that polls for nothing (`adopt_unpolled`): `us_poll_resize`
   updates the ready list only when the poll has events (epoll_kqueue.c:209), but
   epoll reports errors and hang-ups in any case.
8. A socket that is in the low-priority queue at its tick is not visited by the
   sweep (loop.c:96); as timers match by equality it fires one turn of the wheel
   later. `NoMissedTimeout` speaks of linked sockets only. Likewise `low_prio_state`
   2 ("was in low-prio queue in this iteration", internal.h:99) is reset only when
   the socket is next readable, and may be left over in a later iteration.
9. `us_socket_context_close` emits on_close for connecting sockets (context.c:66), which
   never got on_open; libusockets.h:214 rules that out for
   `us_socket_close_connecting`.
10. `us_poll_free` counts `num_polls` down for fallthrough polls, too
   (epoll_kqueue.c:51), which `us_create_poll` did not count up: closing a
   fallthrough timer makes `us_loop_run` return one poll early, or, at zero, go on
   with a negative count. `ready_polls` closes none (`close_fallthrough`).
11. A timer of a whole turn (957 to 960 seconds, 240 minutes) matches the tick it is
   armed in. If a handler of the running sweep arms it for a socket the sweep has
   still to visit, it fires at once (socket.c:67, loop.c:102); longer ones wrap.

### SSL

12. A write or a shutdown from on_data of a *full* buffer (`use_when_full`,
    `NoInputSkipped`, `OwnRecords`): ssl_on_data calls the handler at openssl.c:292 and
    goes on reading the same input, which us_internal_ssl_socket_write has set to length 0
    (openssl.c:772): the rest of what was received is lost. If the handler used another
    socket, what this SSL then has to answer is written to that one (openssl.c:774).
13. ssl_on_writable does not look at what the read it takes up again has done to the
    socket (openssl.c:344), and emits on_writable at line 348 for a closed one; the other
    way round the case is tested (openssl.c:310). No handler has to close anything for it:
    a close_notify or a bad record that OpenSSL had read ahead (openssl.c:441) when its
    answer could not be written closes the socket at line 253 in the retried read. Without
    the exception in `SilentAfterClose` TLC finds that, also when `Inputs` has no `close`.
14. Data that was read before a close_notify in the same receive is dropped: the
    socket is closed at openssl.c:253 before the data is emitted.

### Contexts and server names

15. A timeout handler that frees the context the sweep is in (`free_swept`, `ListSound`)
    leaves the loop's iterator on freed memory (loop.c:72-82, 134): unlike the unlinking of
    sockets, us_internal_loop_unlink does not look at the iterator.
16. A name of more labels than `MAX_LABELS` can be added, but neither found nor
    removed (sni_tree.cpp:198-206). The empty name is held by the root, whose user
    ~sni_node never frees.
17. us_socket_context_find_server_name_userdata says it looks for the exact name, and
    falls back to a wildcard (openssl.c:538-550).

### libuv, asio, gcd

18. libuv: a poll that is stopped and freed in post_cb comes too late for
    us_internal_loop_post, and its handle is closed before it is freed (`stop_in_post`,
    `LibuvFreesPolls`): `uv_is_closing` is true of a closed handle, too, so that both
    blocks leak (libuv.c:77). us_poll_free of a poll that was never started reads an
    uninitialised handle.
19. asio: `nr` is a byte; 256 changes of a poll while one of its handlers is queued
    make that handler current again (asio.cpp:66). A repeating timer that comes due when
    `polls` is 0 gives up for good, though other parts may start polls later
    (asio.cpp:368), and `polls` is one count for all loops (asio.cpp:43).
20. gcd: us_timer_close does nothing and us_timer_set with 0 does not stop the timer
    (`close_timer`, `clear_timer`, `KeepsContract`); timers start at once and repeat
    whatever `repeat_ms` says; us_loop_run never calls us_internal_loop_pre or post.

### io_uring

21. A second us_socket_write before the first is sent overwrites the one send buffer of
    the socket, although the first reported its full length (`overlap`, `OwnSends`;
    io_socket.c:108, libusockets.h:288), and on_writable is never called. Partial sends
    are taken for full ones (io_loop.c:214).
22. Listening and connecting in one program give out slots by two counters (`mixed`,
    `OwnSends`): the static count of us_socket_context_connect collides with the slots
    the kernel gives to accepted sockets.
23. A write in or after on_close goes to a slot that may be another connection's
    (`late`, `OwnSends`); us_socket_is_closed is always 0 (io_socket.c:72).
24. A receive that failed without a buffer gives back buffer 0 (`bufferless`,
    `BuffersConserved`; io_loop.c:182).
25. Sockets that were closed are never unlinked, so their timeouts still fire; a failed
    accept still makes and opens a socket; an accept or a receive that the kernel ended is
    not armed again; the result of a connect is not looked at.

### QUIC

26. The timer works for the engines of the context made last (`contexts`,
    `SentInTheEnd`; quic.c:39-41): packets of an earlier one that were refused are not
    sent again. `old_ctx` likewise is that of the first context for all.
27. The header sets of two streams decoded before either is read (`ahead` with two
    streams, `StreamOrder`) are mixed up; the comment says so (quic.c:458).
28. Closing a stream in its headers handler ends the process (`close_in_headers`;
    quic.c:473-477). The drain callback of the UDP socket is stored and never called, on_stream_close
    is never emitted (quic.c:565), and us_quic_socket_context_connect ignores its host
    and port.

## 6. Not modelled, and what is left

- *SSL*: adoption of SSL sockets, corking with MSG_MORE, bytes within a record.
- *Backends*: asyncs and us_loop_free of libuv and asio; the number of handlers asio
  runs per iteration; us_loop_free of epoll and kqueue.
- *io_uring*: close and shutdown (which do nothing there).
- *QUIC*: sending headers, shutting streams down, certificates; lsquic itself.
- `bsd.c` beside what SocketCreation and Quic use, and the accessors of `udp.c`: one system call
  each, whose outcomes are choices of Loop.
- Examples and tests: programs that use the library.

Every safety property that a passing run checks is also proved, within the exclusions that
sections 4 and 5 name; liveness stays with TLC. What the code does in the excluded uses
(closing a context over queued or connecting sockets, us_socket_write2 from on_writable,
using a socket from on_data of a full buffer, overlapping writes under io_uring, and the
others of section 5) is described there, and neither checked nor proved to be harmless.
