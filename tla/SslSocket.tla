------------------------------- MODULE SslSocket -------------------------------
(***************************************************************************)
(* The SSL sockets of one loop: what crypto/openssl.c puts between the      *)
(* handlers of the application and the plain sockets of the loop.           *)
(*                                                                         *)
(* All SSL sockets of a loop share one pair of BIOs.  What the loop last    *)
(* received is `input`, bytes of the socket `of`; whatever OpenSSL writes   *)
(* goes to the socket `target`.  The library has to set the three before    *)
(* each call of OpenSSL, also when a handler it called in the middle of     *)
(* ssl_on_data used another socket, or the same one.                        *)
(*                                                                         *)
(* OpenSSL itself is external: what a peer sends is a sequence of records,  *)
(* and SSL_read, SSL_write and SSL_shutdown do with them what openssl.c     *)
(* relies on.  The contexts set read_ahead, so that OpenSSL takes from the  *)
(* BIO all it has room for, and keeps in a buffer of each SSL the records   *)
(* it has not processed.  Corking (msg_more) is left out.                   *)
(***************************************************************************)
EXTENDS Naturals, Sequences

CONSTANTS
  Sockets,
  NULL,
  Windows,   \* what one recv can return, as sequences of records
  Full,      \* LIBUS_RECV_BUFFER_LENGTH, in records
  Inputs     \* the calls of the application explored

ASSUME FullAssumption == Full \in Nat \ {0}
ASSUME NullAssumption == NULL \notin Sockets

VARIABLES
  sk,        \* the SSL socket in each slot
  bio,       \* loop_ssl_data: input, of and target
  at,        \* the point the library has reached
  cur,       \* the socket it works for
  retry,     \* ssl_on_data was called by ssl_on_writable, not by the loop
  inner,     \* ssl_on_writable was called by ssl_on_data, not by the loop
  read,      \* the local `read` of ssl_on_data
  cb,        \* the handler of the application that runs
  lastWriteFailed

vars == <<sk, bio, at, cur, retry, inner, read, cb, lastWriteFailed>>
local == <<at, cur, retry, inner, read>>

\* "hs" is a handshake message or a later one that may ask for an answer,
\* "part" and "rest" are a record that two recvs share, "fin" is close_notify.
Records == {"hs", "data", "part", "rest", "fin", "bad"}

ASSUME WindowsAssumption == Windows \subseteq Seq(Records) \ {<<>>}

\* conn: once both sides have sent close_notify with no us_socket_shutdown it is
\* "notified".  ahead: what OpenSSL has read ahead.  out: what OpenSSL could not
\* write, an answer of SSL_read or a record of SSL_write.  held: OpenSSL has the
\* first part of a record; mid: the peer's stream is in the middle of one.  The
\* rest is history: owed says that the application had a write cut short and waits
\* for on_writable; mixed names the other sockets whose bytes this SSL read or to
\* which it wrote; skipped says that input was thrown away before it saw it.
SslSockets ==
  [conn  : {"free", "open", "notified", "shut_down", "closed"},
   ssl   : {"none", "init", "up", "freed"},
   ahead : Seq(Records),
   out   : {"none", "answer", "record"},
   held  : BOOLEAN, mid : BOOLEAN,
   armed : BOOLEAN,
   ssl_write_wants_read : BOOLEAN, ssl_read_wants_write : BOOLEAN,
   owed  : BOOLEAN, mixed : SUBSET Sockets, skipped : BOOLEAN]

Blank ==
  [conn |-> "free", ssl |-> "none", ahead |-> <<>>, out |-> "none", held |-> FALSE, mid |-> FALSE,
   armed |-> FALSE, ssl_write_wants_read |-> FALSE, ssl_read_wants_write |-> FALSE,
   owed |-> FALSE, mixed |-> {}, skipped |-> FALSE]

NoHandler == [ev |-> "none", s |-> NULL]
InApp     == cb # NoHandler \/ at = "idle"
InLibrary == cb = NoHandler /\ at # "idle"
Emit(ev, s) == cb' = [ev |-> ev, s |-> s]

Closed(s)   == sk[s].conn \in {"free", "closed"}
ShutDown(s) == sk[s].conn \in {"notified", "shut_down"}

Init ==
  /\ sk = [s \in Sockets |-> Blank]
  /\ bio = [input |-> <<>>, of |-> NULL, target |-> NULL]
  /\ at = "idle" /\ cur = NULL /\ retry = FALSE /\ inner = FALSE /\ read = 0
  /\ cb = NoHandler /\ lastWriteFailed = FALSE

-----------------------------------------------------------------------------
(* The BIOs and the helpers of the handlers. *)

\* us_internal_ssl_socket_close and ssl_on_close: the SSL is freed, then the
\* application's on_close runs.  It may do what the handler that is running may
\* do, as us_socket_close does nothing after it.
CloseIn(m, s) ==
  [m EXCEPT ![s].conn = "closed", ![s].ssl = "freed", ![s].ahead = <<>>, ![s].armed = FALSE]

\* Setting ssl_read_input_length to 0: what is left in the input is gone.
DropInput(m) ==
  IF bio.input = <<>> \/ bio.of = NULL \/ Closed(bio.of) \/ ShutDown(bio.of) THEN m
  ELSE [m EXCEPT ![bio.of].skipped = TRUE]

\* BIO_s_custom_write for the SSL of s; taken says whether the kernel takes it all.
\* us_socket_write gives up on a socket that is closed or shut down, and otherwise
\* polls for writable when the kernel took less.
CanSend(t) == sk[t].conn \in {"open", "notified"}
BioWrite(m, s, t, taken, what) ==
  LET n == [m EXCEPT ![s].mixed = @ \cup ({t} \ {s}), ![s].out = IF taken THEN "none" ELSE what]
  IN  IF taken \/ ~CanSend(t) THEN n ELSE [n EXCEPT ![t].armed = TRUE]
Failed(t, taken) == lastWriteFailed' = (lastWriteFailed \/ (~taken /\ CanSend(t)))

\* ssl_on_open of an accepted or connected socket.
Open(s) ==
  /\ at = "idle" /\ cb = NoHandler
  /\ Closed(s)
  /\ sk' = [sk EXCEPT ![s] = [Blank EXCEPT !.conn = "open", !.ssl = "init"]]
  /\ bio' = IF bio.of = s THEN [bio EXCEPT !.of = NULL] ELSE bio  \* a new socket: the bytes are not its own
  /\ Emit("on_open", s)
  /\ UNCHANGED <<local, lastWriteFailed>>

\* ssl_on_end, and the loop that closes a socket on an error: a TCP FIN closes.
End(s) ==
  /\ at = "idle" /\ cb = NoHandler
  /\ ~Closed(s)
  /\ sk' = CloseIn(sk, s)
  /\ Emit("on_close", s)
  /\ UNCHANGED <<bio, local, lastWriteFailed>>

-----------------------------------------------------------------------------
(* ssl_on_data. *)

\* Both callers: the loop with what it received, ssl_on_writable with no input.
Begin(s, w) ==
  /\ bio' = [input |-> w, of |-> s, target |-> s]
  /\ cur' = s /\ read' = 0
  /\ at' = IF ShutDown(s) THEN "bye" ELSE "read"

Recv(s) ==
  /\ at = "idle" /\ cb = NoHandler
  /\ ~Closed(s)
  /\ \E w \in Windows :
       /\ (w[1] = "rest") = sk[s].mid
       /\ Begin(s, w)
       /\ sk' = [DropInput(sk) EXCEPT ![s].mid = w[Len(w)] = "part"]
  /\ retry' = FALSE
  /\ UNCHANGED <<inner, cb, lastWriteFailed>>

\* SSL_shutdown has sent its close_notify and waits for the peer's.
Waits(s) == sk[s].conn = "shut_down" /\ sk[s].ssl = "up" /\ sk[s].out = "none"

Reading == InLibrary /\ at = "read" /\ read < Full
InRead  == Reading /\ sk[cur].out # "answer"

\* BIO_s_custom_read: OpenSSL has nothing ahead and takes as much as it has room
\* for, which is all of a small window and the beginning of a large one.
Fill ==
  /\ InRead \/ (InLibrary /\ at = "bye" /\ Waits(cur))
  /\ sk[cur].ahead = <<>> /\ bio.input # <<>>
  /\ \E k \in 1..Len(bio.input) :
       /\ sk' = [sk EXCEPT ![cur].ahead = SubSeq(bio.input, 1, k), ![cur].mixed = @ \cup ({bio.of} \ {cur})]
       /\ bio' = [bio EXCEPT !.input = SubSeq(@, k + 1, Len(@))]
  /\ UNCHANGED <<local, cb, lastWriteFailed>>

\* The first of the records q, or "none".
First(q) == Head(q \o <<"none">>)
Record   == First(sk[cur].ahead)

\* What SSL_shutdown leaves of the records q when they do not begin with the
\* peer's close_notify: the first is an error, after which it is skipped or stays.
Skipped(q) == {q, SubSeq(q, 2, Len(q))}

\* SSL_shutdown once more: close_notify of the peer completes it, and no
\* other record does.
Bye ==
  /\ InLibrary /\ at = "bye"
  /\ Waits(cur) /\ Record = "none" => bio.input = <<>>
  /\ IF sk[cur].conn = "notified" \/ (Waits(cur) /\ Record = "fin")
     THEN sk' = CloseIn(sk, cur) /\ Emit("on_close", cur)
     ELSE /\ \E left \in Skipped(sk[cur].ahead) :
               /\ left # sk[cur].ahead => Waits(cur)
               /\ sk' = [sk EXCEPT ![cur].ahead = left]
          /\ UNCHANGED cb
  /\ at' = "return"
  /\ UNCHANGED <<bio, cur, retry, inner, read, lastWriteFailed>>

HasRecord   == InRead /\ sk[cur].ahead # <<>>
Consumed(m) == [m EXCEPT ![cur].ahead = Tail(@)]

Acceptable ==
  CASE sk[cur].conn = "notified" -> FALSE
    [] Record \in {"hs", "part"} -> ~sk[cur].held
    [] Record = "data" -> ~sk[cur].held /\ sk[cur].ssl = "up"
    [] Record = "rest" -> sk[cur].held /\ sk[cur].ssl = "up"
    [] OTHER -> FALSE

\* SSL_read decrypts one record and returns it.
ReadData ==
  /\ HasRecord /\ Acceptable /\ Record \in {"data", "rest"}
  /\ sk' = [Consumed(sk) EXCEPT ![cur].held = FALSE]
  /\ read' = read + 1
  /\ UNCHANGED <<bio, at, cur, retry, inner, cb, lastWriteFailed>>

\* It keeps the beginning of a record for the next time.
ReadPart ==
  /\ HasRecord /\ Acceptable /\ Record = "part"
  /\ sk' = [Consumed(sk) EXCEPT ![cur].held = TRUE]
  /\ UNCHANGED <<bio, local, cb, lastWriteFailed>>

\* Mutant of ReadHandshake: the application may write as soon as it is done.
ReadHandshakeEmits ==
  /\ HasRecord /\ Acceptable /\ Record = "hs"
  /\ sk' = [Consumed(sk) EXCEPT ![cur].ssl = "up"]
  /\ Emit("on_writable", cur) /\ at' = "full"
  /\ UNCHANGED <<bio, cur, retry, inner, read, lastWriteFailed>>

\* It does a step of the handshake, and may have an answer to write.
ReadHandshake ==
  /\ HasRecord /\ Acceptable /\ Record = "hs"
  /\ \E state \in {sk[cur].ssl, "up"}, out \in {sk[cur].out, "answer"} :
       sk' = [Consumed(sk) EXCEPT ![cur].ssl = state,
                                  ![cur].out = IF @ = "record" THEN @ ELSE out]
  /\ UNCHANGED <<bio, local, cb, lastWriteFailed>>

\* Any other error than a wish to read or write closes the socket, close_notify
\* included; what was read and not yet emitted is dropped.
ReadFails ==
  /\ HasRecord /\ ~Acceptable
  /\ sk' = CloseIn(Consumed(sk), cur)
  /\ Emit("on_close", cur)
  /\ at' = "return"
  /\ UNCHANGED <<bio, cur, retry, inner, read, lastWriteFailed>>

\* The end of the loop on a wish to read or write: more input than OpenSSL wanted
\* closes the socket, and the application gets what was read.  What OpenSSL has read
\* ahead is not input any more: after a wish to write it stays there.
Exhausted(m) ==
  IF bio.input # <<>>
  THEN /\ sk' = CloseIn(m, cur)
       /\ Emit("on_close", cur)
       /\ at' = "return"
  ELSE /\ sk' = m
       /\ IF read = 0 THEN cb' = cb ELSE Emit("on_data", cur)
       /\ at' = "tail"

\* It wants to write its answer: ssl_read_wants_write.
ReadAnswers ==
  /\ Reading /\ sk[cur].out = "answer"
  /\ \E taken \in BOOLEAN :
       /\ taken => CanSend(bio.target)
       /\ LET m == BioWrite(sk, cur, bio.target, taken, "answer")
          IN  IF taken
              THEN sk' = m /\ UNCHANGED <<at, cb>>
              ELSE Exhausted([m EXCEPT ![cur].ssl_read_wants_write = TRUE])
       /\ Failed(bio.target, taken)
  /\ UNCHANGED <<bio, cur, retry, inner, read>>

ReadWantsRead ==
  /\ InRead /\ sk[cur].ahead = <<>> /\ bio.input = <<>>
  /\ Exhausted(sk)
  /\ UNCHANGED <<bio, cur, retry, inner, read, lastWriteFailed>>

\* The buffer is full: emit it and start over.
EmitFull ==
  /\ InLibrary /\ at = "read" /\ read = Full
  /\ Emit("on_data", cur)
  /\ at' = "full"
  /\ UNCHANGED <<sk, bio, cur, retry, inner, read, lastWriteFailed>>

Restart ==
  /\ InLibrary /\ at = "full"
  /\ IF Closed(cur) THEN at' = "return" /\ UNCHANGED read ELSE at' = "read" /\ read' = 0
  /\ UNCHANGED <<sk, bio, cur, retry, inner, cb, lastWriteFailed>>

\* ssl_on_writable, called by the loop or by the tail of ssl_on_data: a read that
\* wanted to write is taken up first, with no input but what OpenSSL has ahead.
Retry(m, s) ==
  IF m[s].ssl_read_wants_write
  THEN /\ sk' = [DropInput(m) EXCEPT ![s].ssl_read_wants_write = FALSE]
       /\ Begin(s, <<>>)
  ELSE /\ sk' = m
       /\ cur' = s /\ at' = "writable"
       /\ UNCHANGED <<bio, read>>

\* The end of ssl_on_data, for a socket that on_data closed or did not: on_writable
\* for the write that wanted to read goes through ssl_on_writable again.
EndOfData(closed) ==
  /\ InLibrary /\ at = "tail"
  /\ IF closed
     THEN at' = "return" /\ UNCHANGED <<sk, bio, cur, inner, read>>
     ELSE IF sk[cur].ssl_write_wants_read
     THEN Retry([sk EXCEPT ![cur].ssl_write_wants_read = FALSE], cur) /\ inner' = TRUE
     ELSE at' = "get_shutdown" /\ UNCHANGED <<sk, bio, cur, inner, read>>
  /\ UNCHANGED <<retry, cb, lastWriteFailed>>

\* Mutant of TailWritable: the socket that on_data closed is not left alone.
TailWritableUnchecked == EndOfData(FALSE)

TailWritable == EndOfData(Closed(cur))

\* Mutant of Tailed: the socket that on_writable closed is not left alone.
TailedUnchecked ==
  /\ InLibrary /\ at = "tailed"
  /\ inner' = FALSE
  /\ at' = "get_shutdown"
  /\ UNCHANGED <<sk, bio, cur, retry, read, cb, lastWriteFailed>>

Tailed ==
  /\ InLibrary /\ at = "tailed"
  /\ inner' = FALSE
  /\ at' = IF Closed(cur) THEN "return" ELSE "get_shutdown"
  /\ UNCHANGED <<sk, bio, cur, retry, read, cb, lastWriteFailed>>

\* SSL_RECEIVED_SHUTDOWN: an error of SSL_read already, unless it was SSL_shutdown
\* that met the peer's close_notify.
GetShutdown ==
  /\ InLibrary /\ at = "get_shutdown"
  /\ IF sk[cur].conn = "notified"
     THEN sk' = CloseIn(sk, cur) /\ Emit("on_close", cur)
     ELSE UNCHANGED <<sk, cb>>
  /\ at' = "return"
  /\ UNCHANGED <<bio, cur, retry, inner, read, lastWriteFailed>>

\* Back in ssl_on_writable, or in the loop.  What is left of the input is lost: the
\* loop receives into the same buffer, and each later use of the BIOs resets it.
DataDone ==
  /\ InLibrary /\ at = "return"
  /\ at' = IF retry \/ inner THEN "retried" ELSE "idle"
  /\ sk' = DropInput(sk)
  /\ bio' = [bio EXCEPT !.input = <<>>]
  /\ read' = 0
  /\ UNCHANGED <<cur, retry, inner, cb, lastWriteFailed>>

-----------------------------------------------------------------------------
(* ssl_on_writable, and the part of the loop that calls it. *)

\* The loop reports writable.
Writable(s) ==
  /\ at = "idle" /\ cb = NoHandler
  /\ sk[s].armed
  /\ lastWriteFailed' = FALSE
  /\ retry' = sk[s].ssl_read_wants_write
  /\ Retry(sk, s)
  /\ UNCHANGED <<inner, cb>>

\* Nothing looks at what the retried read has done to the socket.
EmitWritable ==
  /\ InLibrary /\ at \in {"writable", "retried"}
  /\ sk' = [sk EXCEPT ![cur].owed = FALSE]
  /\ Emit("on_writable", cur)
  /\ at' = IF inner THEN "tailed" ELSE "written"
  /\ UNCHANGED <<bio, cur, retry, inner, read, lastWriteFailed>>

\* Mutant of Written: the failed write is forgotten.
WrittenForgets ==
  /\ InLibrary /\ at = "written"
  /\ sk' = [sk EXCEPT ![cur].armed = FALSE]
  /\ at' = "idle" /\ retry' = FALSE
  /\ UNCHANGED <<bio, cur, inner, read, cb, lastWriteFailed>>

\* us_internal_dispatch_ready_poll stops polling for writable unless a write
\* failed since.
Written ==
  /\ InLibrary /\ at = "written"
  /\ sk' = [sk EXCEPT ![cur].armed = @ /\ ~Closed(cur) /\ lastWriteFailed]
  /\ at' = "idle" /\ retry' = FALSE
  /\ UNCHANGED <<bio, cur, inner, read, cb, lastWriteFailed>>

-----------------------------------------------------------------------------
(* Calls of the application, from a handler or from a timer. *)

\* A write or shutdown in the on_data of a full buffer, where input may be left.
InFull == at = "full" /\ cb.ev = "on_data"
MayUse(call) == InApp /\ call \in Inputs /\ (InFull => "use_when_full" \in Inputs)

\* Mutant of Aim: the BIOs keep the socket they were used for.
AimUnset(s) == bio' = [input |-> <<>>, of |-> NULL, target |-> IF bio.target = NULL THEN s ELSE bio.target]

\* The two statements with which a write and a shutdown begin.
Aim(s) == bio' = [input |-> <<>>, of |-> NULL, target |-> s]

\* How many handshake messages of the records q OpenSSL may process.
Handshakes(q) == {k \in 0..Len(q) : \A i \in 1..k : q[i] = "hs"}

\* SSL_write: it first writes what OpenSSL still has.  In the handshake it goes on
\* with the messages OpenSSL has ahead, and wants to read when they do not end it;
\* anything else ahead is an error, which the next SSL_read meets too.  A result
\* of 0 means that the application waits for on_writable.
Write(s) ==
  /\ MayUse("write")
  /\ sk[s].conn = "open"
  /\ Aim(s)
  /\ \E k \in IF sk[s].ssl = "init" THEN Handshakes(sk[s].ahead) ELSE {0},
        state \in {sk[s].ssl, "up"}, taken \in BOOLEAN, out \in {"answer", "record"} :
       /\ state # sk[s].ssl => k > 0
       /\ LET rest == SubSeq(sk[s].ahead, k + 1, Len(sk[s].ahead))
              m == [DropInput(sk) EXCEPT ![s].ahead = rest, ![s].ssl = state]
              n == BioWrite(m, s, bio'.target, taken, out)
              first == First(rest)
          IN  \/ /\ ~taken
                 /\ IF out = "record" THEN state = "up"
                    ELSE sk[s].ssl = "init" \/ sk[s].out = "answer"
                 /\ sk' = [n EXCEPT ![s].owed = TRUE]
              \/ /\ taken /\ out = "record"
                 /\ IF state = "up" THEN sk' = [n EXCEPT ![s].owed = FALSE]
                    ELSE /\ first # "hs"
                         /\ sk' = [n EXCEPT ![s].owed = TRUE, ![s].ssl_write_wants_read =
                                              @ \/ first \in {"none", "part"}]
       /\ Failed(bio'.target, taken)
  /\ UNCHANGED <<local, cb>>

\* SSL_shutdown: in the handshake, and while OpenSSL has something to write, it
\* fails.  Otherwise it writes close_notify and looks for the peer's in what
\* OpenSSL has ahead.  Unless it finds it, us_socket_shutdown follows.
Shutdown(s) ==
  /\ MayUse("shutdown")
  /\ sk[s].conn = "open"
  /\ Aim(s)
  /\ LET down(m) == [m EXCEPT ![s].conn = "shut_down", ![s].armed = FALSE]
         m     == DropInput(sk)
         ahead == sk[s].ahead
     IN  \/ /\ sk[s].ssl = "init" \/ sk[s].out # "none"
            /\ sk' = down(m)
            /\ UNCHANGED lastWriteFailed
         \/ /\ sk[s].ssl = "up" /\ sk[s].out = "none"
            /\ \E taken \in BOOLEAN :
                 LET n == BioWrite(m, s, bio'.target, taken, "record")
                 IN  /\ IF taken /\ First(ahead) = "fin"
                        THEN sk' = [n EXCEPT ![s].conn = "notified", ![s].ahead = Tail(@)]
                        ELSE \E left \in Skipped(ahead) :
                               (left # ahead => taken) /\ sk' = down([n EXCEPT ![s].ahead = left])
                     /\ Failed(bio'.target, taken)
  /\ UNCHANGED <<local, cb>>

\* us_socket_close; on_close runs inside and may do what its caller may.
Close(s) ==
  /\ InApp /\ "close" \in Inputs
  /\ ~Closed(s)
  /\ sk' = CloseIn(sk, s)
  /\ UNCHANGED <<bio, local, cb, lastWriteFailed>>

Return ==
  /\ cb # NoHandler
  /\ cb' = NoHandler
  /\ UNCHANGED <<sk, bio, local, lastWriteFailed>>

-----------------------------------------------------------------------------
Library ==
  \/ Fill \/ Bye \/ ReadData \/ ReadPart \/ ReadHandshake \/ ReadFails \/ ReadAnswers
  \/ ReadWantsRead \/ EmitFull \/ Restart \/ TailWritable \/ Tailed \/ GetShutdown
  \/ DataDone \/ EmitWritable \/ Written

Next ==
  \/ Library
  \/ Return
  \/ \E s \in Sockets :
       \/ Open(s) \/ End(s) \/ Recv(s) \/ Writable(s)
       \/ Write(s) \/ Shutdown(s) \/ Close(s)

Spec == Init /\ [][Next]_vars

-----------------------------------------------------------------------------
\* The SSL of a socket reads only what that socket received, and what it writes
\* goes out on that socket, whatever the handlers do with other sockets in the
\* middle of ssl_on_data.
OwnRecords == \A s \in Sockets : sk[s].mixed = {}

\* "we should never really clear it": no byte that an open socket received is
\* thrown away before its SSL has seen it.
NoInputSkipped == \A s \in Sockets : ~sk[s].skipped

\* ssl_on_data has called ssl_on_writable, which has not called on_writable yet.
Waking(s) == inner /\ s = cur /\ at # "tailed"

\* The library is in an SSL_read of s.
BeingRead(s) == s = cur /\ at \in {"read", "full"}

\* A socket that waits will be woken: a write that was cut short waits for the
\* poll to be writable or for the next read, a read that could not write its
\* answer for the poll, and what OpenSSL has read ahead, which no byte of the
\* kernel announces any more, for such a read.
RetryArmed ==
  \A s \in Sockets : sk[s].conn = "open" =>
    /\ sk[s].owed => sk[s].armed \/ sk[s].ssl_write_wants_read \/ Waking(s)
    /\ sk[s].ssl_read_wants_write => sk[s].armed
    /\ sk[s].ahead # <<>> /\ ~BeingRead(s) => sk[s].ssl_read_wants_write

\* ssl_on_data and ssl_on_close: no call of OpenSSL on an SSL that a handler made
\* the library free.
SslAlive ==
  InLibrary /\ at \in {"bye", "read", "get_shutdown"} => sk[cur].ssl \in {"init", "up"}

\* No handler is called for a socket after its on_close, whatever a handler closes
\* at which level of ssl_on_data and ssl_on_writable.  The one call that checks
\* nothing is the on_writable after a retried read, which may have closed the
\* socket itself (a close_notify or a bad record that OpenSSL had read ahead) or
\* through the application's on_data.
SilentAfterClose ==
  [][cb' # cb /\ cb'.ev \in {"on_data", "on_writable"} =>
       ~Closed(cb'.s) \/ (at = "retried" /\ cb'.ev = "on_writable")]_vars

=============================================================================
