------------------------------- MODULE Contexts -------------------------------
(***************************************************************************)
(* The socket contexts of a loop: the list they hang in (loop.c), which the *)
(* timeout sweep walks while handlers create and free contexts; their       *)
(* listening and connecting sockets (context.c, bsd.c); and what an SSL     *)
(* context owns (openssl.c): its SSL_CTX, shared with its child contexts,   *)
(* and one more for each server name.                                       *)
(*                                                                         *)
(* OpenSSL is external: it counts the references to an SSL_CTX.  The owner  *)
(* has one, and every SSL that uses it has one.                             *)
(***************************************************************************)
EXTENDS Integers, SniTree, SocketCreation

CONSTANTS
  Contexts,     \* blocks of memory a context may occupy
  SslCtxs,      \* blocks of memory an SSL_CTX may occupy
  Handshakes,   \* SSL sockets that may be in a handshake
  Descriptors,
  Names,        \* the names that are added and removed
  Hellos,       \* the names that clients ask for, <<>> for none
  SomeReplies,  \* what the system may answer when a socket is made
  SomeOptions,  \* the options contexts and server names are made from
  Inputs        \* the calls of the application explored

ASSUME ContextsAssumption == NULL \notin Contexts \cup SslCtxs
\* Names are sequences of labels.
ASSUME NamesAssumption == \A name \in Names \cup Hellos : name \in Seq(Range(name))
ASSUME RepliesAssumption == SomeReplies \subseteq Replies
ASSUME OptionsAssumption == SomeOptions \subseteq [passphrase : BOOLEAN, valid : BOOLEAN]

VARIABLES
  list,     \* head and iterator of the loop, next and prev of the contexts
  context,  \* what each block holds
  ctx,      \* what OpenSSL knows of each SSL_CTX
  ssl,      \* the SSLs: their context, their SSL_CTX, the name asked for
  fd,       \* the context each descriptor's socket is of, and its kind
  system,   \* history: descriptors and address lists that are allocated
  due       \* history: the contexts the running sweep has to come to

vars == <<list, context, ctx, ssl, fd, system, due>>

FreeContext == [kind |-> "free", ssl_context |-> NULL, sni |-> NewTree, on_server_name |-> FALSE]
FreeCtx     == [refs |-> 0, password |-> FALSE]
FreeSsl     == [of |-> NULL, ctx |-> NULL, asks |-> <<>>]
FreeFd      == [of |-> NULL, kind |-> "free"]

Init ==
  /\ list = [head |-> NULL, iterator |-> NULL, next |-> [c \in Contexts |-> NULL],
             prev |-> [c \in Contexts |-> NULL]]
  /\ context = [c \in Contexts |-> FreeContext]
  /\ ctx = [x \in SslCtxs |-> FreeCtx]
  /\ ssl = [h \in Handshakes |-> FreeSsl]
  /\ fd = [d \in Descriptors |-> FreeFd]
  /\ system = [open |-> 0, lists |-> 0]
  /\ due = {}

Linked   == {c \in Contexts : context[c].kind # "free"}
Parents  == {c \in Contexts : context[c].kind = "parent"}
Asking   == {h \in Handshakes : ssl[h].asks # <<>>}
Sweeping == list.iterator # NULL

-----------------------------------------------------------------------------
(* The list of contexts. *)

\* Linking behind the head, where a running sweep still comes.
LinkBehind(l, c) ==
  IF l.head = NULL THEN [l EXCEPT !.head = c, !.next[c] = NULL, !.prev[c] = NULL]
  ELSE LET n == l.next[l.head]
       IN [l EXCEPT !.next = [@ EXCEPT ![c] = n, ![l.head] = c],
                    !.prev = [d \in Contexts |-> IF d = c THEN l.head ELSE IF d = n THEN c ELSE @[d]]]

\* us_internal_loop_link: at the head.
Link(l, c) ==
  [l EXCEPT !.head = c,
            !.next[c] = l.head,
            !.prev = [d \in Contexts |-> IF d = c THEN NULL ELSE IF d = l.head THEN c ELSE @[d]]]

\* Unlinking that takes every context for the head.
UnlinkHead(l, c) == [l EXCEPT !.head = l.next[c]]

\* us_internal_loop_unlink.  The iterator of the sweep is not looked at.
Unlink(l, c) ==
  LET n == l.next[c]
      p == IF l.head = c THEN NULL ELSE l.prev[c]
  IN [l EXCEPT !.head = IF @ = c THEN n ELSE @,
               !.next = [d \in Contexts |-> IF d = p THEN n ELSE @[d]],
               !.prev = [d \in Contexts |-> IF d = n THEN p ELSE @[d]]]

-----------------------------------------------------------------------------
(* SSL_CTXs. *)

\* free_ssl_context: the password goes at once, the rest with the last reference.
FreeSslContext(t, x) ==
  IF x = NULL THEN t ELSE [t EXCEPT ![x] = [refs |-> @.refs - 1, password |-> FALSE]]

\* create_ssl_context_from_options: what was made is freed when an option fails.
FromOptions(t, x, o) ==
  LET made == [t EXCEPT ![x] = [refs |-> 1, password |-> o.passphrase]]
  IN IF o.valid THEN made ELSE FreeSslContext(made, x)

\* OpenSSL: an SSL takes and drops its reference.
Refer(t, x)   == [t EXCEPT ![x].refs = @ + 1]
Unrefer(t, x) == [t EXCEPT ![x].refs = @ - 1]

Unused(x) == ctx[x].refs = 0

-----------------------------------------------------------------------------
(* Contexts. *)

CreateContext(c) ==
  /\ c \notin Linked
  /\ context' = [context EXCEPT ![c] = [FreeContext EXCEPT !.kind = "plain"]]
  /\ list' = Link(list, c)
  /\ UNCHANGED <<ctx, ssl, fd, system, due>>

\* us_internal_create_ssl_socket_context: nothing is linked when the options fail.
CreateSslContext(c, x, o) ==
  /\ c \notin Linked /\ Unused(x)
  /\ ctx' = FromOptions(ctx, x, o)
  /\ IF o.valid
     THEN /\ context' = [context EXCEPT ![c] =
                           [FreeContext EXCEPT !.kind = "parent", !.ssl_context = x]]
          /\ list' = Link(list, c)
     ELSE UNCHANGED <<context, list>>
  /\ UNCHANGED <<ssl, fd, system, due>>

\* us_internal_create_child_ssl_socket_context: only the SSL_CTX is shared.
CreateChild(c, p) ==
  /\ c \notin Linked /\ p \in Parents
  /\ context' = [context EXCEPT ![c] =
                   [FreeContext EXCEPT !.kind = "child", !.ssl_context = context[p].ssl_context]]
  /\ list' = Link(list, c)
  /\ UNCHANGED <<ctx, ssl, fd, system, due>>

\* Its sockets are closed and its child contexts freed before it: both use it.
MayFree(c) ==
  /\ c \in Linked
  /\ \A d \in Descriptors : fd[d].of # c
  /\ \A h \in Handshakes : ssl[h].of # c
  /\ context[c].kind = "parent" =>
       \A b \in Linked \ {c} : context[b].ssl_context # context[c].ssl_context
  /\ "free_swept" \in Inputs \/ list.iterator # c

\* The same for each of a set of SSL_CTXs.
FreeSslContexts(t, X) ==
  [x \in SslCtxs |-> IF x \in X THEN FreeSslContext(t, x)[x] ELSE t[x]]

\* Freeing that forgets the server names.
FreeOwnedBare(t, c) == IF c \in Parents THEN FreeSslContext(t, context[c].ssl_context) ELSE t

\* What a parent context owns: its SSL_CTX, and those of its server names.
FreeOwned(t, c) ==
  IF c \in Parents
  THEN FreeSslContexts(FreeSslContext(t, context[c].ssl_context), Destroyed(context[c].sni))
  ELSE t

\* us_socket_context_free, and what an SSL context does before it.
Free(c) ==
  /\ MayFree(c)
  /\ ctx' = FreeOwned(ctx, c)
  /\ list' = Unlink(list, c)
  /\ context' = [context EXCEPT ![c] = FreeContext]
  /\ due' = due \ {c}
  /\ UNCHANGED <<ssl, fd, system>>

-----------------------------------------------------------------------------
(* The timeout sweep, seen from the contexts.  Between two of its steps the
   timeout handlers of the context it has come to run. *)

SweepTo(c) ==
  /\ list' = [list EXCEPT !.iterator = c]
  /\ UNCHANGED <<context, ctx, ssl, fd, system>>

TimerSweep ==
  /\ ~Sweeping /\ Asking = {} /\ list.head # NULL
  /\ SweepTo(list.head)
  /\ due' = Linked \ {list.head}

SweepNext ==
  /\ Sweeping
  /\ SweepTo(list.next[list.iterator])
  /\ due' = due \ {list.next[list.iterator]}

-----------------------------------------------------------------------------
(* Server names.  Only a parent context has a tree. *)

AddServerName(c, name, x, o) ==
  /\ c \in Parents /\ Unused(x)
  /\ LET made == FromOptions(ctx, x, o)
         tree == context[c].sni
     IN IF ~o.valid THEN ctx' = made /\ UNCHANGED context
        ELSE /\ ctx' = IF Taken(tree, name) THEN FreeSslContext(made, x) ELSE made
             /\ context' = [context EXCEPT ![c].sni = AddName(tree, name, x)]
  /\ UNCHANGED <<list, ssl, fd, system, due>>

RemoveServerName(c, name) ==
  /\ c \in Parents
  /\ ctx' = FreeSslContext(ctx, Removed(context[c].sni, name))
  /\ context' = [context EXCEPT ![c].sni = RemoveName(context[c].sni, name)]
  /\ UNCHANGED <<list, ssl, fd, system, due>>

OnServerName(c) ==
  /\ c \in Parents
  /\ context' = [context EXCEPT ![c].on_server_name = TRUE]
  /\ UNCHANGED <<list, ctx, ssl, fd, system, due>>

\* sni_cb: the SSL moves to the SSL_CTX that was found, if there is one.
Resolve(h, x) ==
  IF x = NULL THEN UNCHANGED ctx /\ ssl' = [ssl EXCEPT ![h].asks = <<>>]
  ELSE /\ ctx' = Unrefer(Refer(ctx, x), ssl[h].ctx)
       /\ ssl' = [ssl EXCEPT ![h].ctx = x, ![h].asks = <<>>]

\* A ClientHello arrives.  resolve_context asks the application for a name it
\* cannot find; what it does in on_server_name comes before Retry.
ClientHello(h, name) ==
  /\ ssl[h].of # NULL /\ Asking = {} /\ ~Sweeping
  /\ LET found == FindName(context[ssl[h].of].sni, name)
     IN IF name = <<>> THEN UNCHANGED <<ssl, ctx>>
        ELSE IF found # NULL THEN Resolve(h, found)
        ELSE IF ~context[ssl[h].of].on_server_name THEN UNCHANGED <<ssl, ctx>>
        ELSE ssl' = [ssl EXCEPT ![h].asks = name] /\ UNCHANGED ctx
  /\ UNCHANGED <<list, context, fd, system, due>>

\* The last try of resolve_context.
Retry(h) ==
  /\ h \in Asking
  /\ Resolve(h, FindName(context[ssl[h].of].sni, ssl[h].asks))
  /\ UNCHANGED <<list, context, fd, system, due>>

\* ssl_on_open: SSL_new takes a reference; and SSL_free, when it closes.
Open(h, d) ==
  /\ ssl[h] = FreeSsl /\ Asking = {} /\ ~Sweeping
  /\ fd[d].of \in Parents /\ fd[d].kind = "listen"
  /\ ssl' = [ssl EXCEPT ![h] = [of |-> fd[d].of, ctx |-> context[fd[d].of].ssl_context, asks |-> <<>>]]
  /\ ctx' = Refer(ctx, context[fd[d].of].ssl_context)
  /\ UNCHANGED <<list, context, fd, system, due>>

CloseSsl(h) ==
  /\ ssl[h] # FreeSsl /\ h \notin Asking
  /\ ctx' = Unrefer(ctx, ssl[h].ctx)
  /\ ssl' = [ssl EXCEPT ![h] = FreeSsl]
  /\ UNCHANGED <<list, context, fd, system, due>>

-----------------------------------------------------------------------------
(* Listening and connecting: a socket is made when a descriptor came back. *)

Make(c, d, r, kind) ==
  /\ c \in Linked /\ context[c].kind # "child" /\ fd[d] = FreeFd
  /\ system' = [open |-> system.open + r.open, lists |-> system.lists + r.lists]
  /\ fd' = IF r.fd THEN [fd EXCEPT ![d] = [of |-> c, kind |-> kind]] ELSE fd
  /\ UNCHANGED <<list, context, ctx, ssl, due>>

Listen(c, d, y)      == Make(c, d, Listening(y), "listen")
ListenUnix(c, d, y)  == Make(c, d, ListeningUnix(y), "listen")
Connect(c, d, y)     == Make(c, d, Connecting(y), "connect")
ConnectUnix(c, d, y) == Make(c, d, ConnectingUnix(y), "connect")

CloseSocket(d) ==
  /\ fd[d] # FreeFd
  /\ system' = [system EXCEPT !.open = @ - 1]
  /\ fd' = [fd EXCEPT ![d] = FreeFd]
  /\ UNCHANGED <<list, context, ctx, ssl, due>>

Next ==
  \/ \E c \in Contexts :
       \/ CreateContext(c) \/ Free(c) \/ OnServerName(c)
       \/ \E p \in Contexts : CreateChild(c, p)
       \/ \E x \in SslCtxs, o \in SomeOptions : CreateSslContext(c, x, o)
       \/ \E x \in SslCtxs, o \in SomeOptions, name \in Names : AddServerName(c, name, x, o)
       \/ \E name \in Names : RemoveServerName(c, name)
       \/ \E d \in Descriptors, y \in SomeReplies :
            Listen(c, d, y) \/ ListenUnix(c, d, y) \/ Connect(c, d, y) \/ ConnectUnix(c, d, y)
  \/ \E h \in Handshakes :
       \/ Retry(h) \/ CloseSsl(h)
       \/ \E name \in Hellos : ClientHello(h, name)
       \/ \E d \in Descriptors : Open(h, d)
  \/ \E d \in Descriptors : CloseSocket(d)
  \/ TimerSweep \/ SweepNext

Spec == Init /\ [][Next]_vars

-----------------------------------------------------------------------------
(* Properties. *)

\* The list holds exactly the contexts that are not freed, whatever handlers do
\* to it in the middle of a sweep, and the sweep stands on one of them.
ListSound ==
  /\ \A c \in Linked :
       /\ IF list.prev[c] = NULL THEN list.head = c
          ELSE list.prev[c] \in Linked /\ list.next[list.prev[c]] = c
       /\ list.next[c] # NULL => list.next[c] \in Linked /\ list.prev[list.next[c]] = c
  /\ list.head \in Linked \cup {NULL} /\ (list.head = NULL <=> Linked = {})
  /\ list.iterator \in Linked \cup {NULL}

\* The sweep comes once to every context that is there from its start to its end,
\* so that each counts one tick (global_tick), and to none that is newer: the
\* handlers of one context cannot keep the sweep going.
SweepsEach ==
  [][list.iterator' # list.iterator =>
       IF list.iterator' = NULL THEN due = {}
       ELSE list.iterator' \in due \/ ~Sweeping]_vars

\* Every SSL_CTX has one owner, a context or a server name of one, and a
\* reference for it and for each SSL that uses it: nothing is leaked, freed
\* twice or used after it was freed, and a password is kept by an owner.
Owners(x) ==
  {<<c, "own">> : c \in {c \in Parents : context[c].ssl_context = x}} \cup
  UNION {{<<c, p>> : p \in {p \in DOMAIN context[c].sni : context[c].sni[p] = x}} : c \in Parents}
Users(x) == {h \in Handshakes : ssl[h].ctx = x}

ReferencesCounted ==
  /\ \A x \in SslCtxs :
       /\ Cardinality(Owners(x)) <= 1
       /\ ctx[x].refs = Cardinality(Owners(x)) + Cardinality(Users(x))
       /\ ctx[x].password => Owners(x) # {}
  /\ \A c \in Linked : context[c].ssl_context # NULL => ctx[context[c].ssl_context].refs > 0

\* A lookup answers with the name that matches best, a whole label before "*" and
\* the leftmost label first, also where the tree has to go back to a "*"; and
\* removing names leaves no node behind that leads to none.
LooksUpBest ==
  \A c \in Parents :
    LET tree == context[c].sni
    IN /\ \A name \in Names \cup Hellos : FindName(tree, name) = Answer(tree, name)
       /\ \A p \in DOMAIN tree \ {<<>>} :
            \E q \in DOMAIN tree : IsPrefix(p, q) /\ tree[q] # NULL

\* Of the calls that make a socket nothing stays allocated but the descriptors of
\* the sockets, whichever of them fails.
NothingLeftOpen ==
  /\ system.open = Cardinality({d \in Descriptors : fd[d] # FreeFd})
  /\ system.lists = 0
=============================================================================
