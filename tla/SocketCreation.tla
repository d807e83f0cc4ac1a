---------------------------- MODULE SocketCreation ----------------------------
(***************************************************************************)
(* How bsd.c makes listening and connecting sockets, as operators.  Each     *)
(* takes what the system answers to its calls, and tells what is left of     *)
(* them when the function returns: whether a descriptor is open, whether it  *)
(* was returned, and how many lists of getaddrinfo were not freed.  The      *)
(* options set on the way cannot fail the call and are left out.             *)
(***************************************************************************)
EXTENDS FiniteSetsExt, Naturals, Sequences

\* infos: the families getaddrinfo found, <<>> when it failed; sockets: those of
\* them socket() makes a descriptor for; binds: whether bind (and listen) work;
\* source: what the lookup of the source address gives, or "none".
Families == {"inet6", "inet"}
Replies ==
  [infos : {<<>>} \cup {<<f>> : f \in Families} \cup {<<f, g>> : f, g \in Families},
   sockets : SUBSET (1..2), binds : BOOLEAN, source : {"none", "found", "unknown"}]

Nothing  == [fd |-> FALSE, open |-> 0, lists |-> 0, family |-> "none"]
Resolved == [Nothing EXCEPT !.lists = 1]
Opened(r, family) == [r EXCEPT !.open = 1, !.family = family]
CloseFd(r)        == [r EXCEPT !.open = 0, !.family = "none"]
FreeInfos(r)      == [r EXCEPT !.lists = @ - 1]
Return(r)         == [r EXCEPT !.fd = TRUE]

\* The first inet6 address a socket can be made for, else the first inet one.
Usable(y, family) == {i \in DOMAIN y.infos : y.infos[i] = family /\ i \in y.sockets}
Chosen(y) ==
  IF Usable(y, "inet6") # {} THEN Min(Usable(y, "inet6"))
  ELSE IF Usable(y, "inet") # {} THEN Min(Usable(y, "inet")) ELSE 0

\* A bind that fails, and the descriptor stays open.
ListeningKeeps(y) ==
  IF y.infos = <<>> THEN Nothing
  ELSE IF Chosen(y) = 0 THEN FreeInfos(Resolved)
  ELSE LET made == Opened(Resolved, y.infos[Chosen(y)])
       IN IF y.binds THEN Return(FreeInfos(made)) ELSE FreeInfos(made)

\* bsd_create_listen_socket, and bsd_create_udp_socket which only binds.
Listening(y) ==
  IF y.infos = <<>> THEN Nothing
  ELSE IF Chosen(y) = 0 THEN FreeInfos(Resolved)
  ELSE LET made == Opened(Resolved, y.infos[Chosen(y)])
       IN IF y.binds THEN Return(FreeInfos(made)) ELSE FreeInfos(CloseFd(made))

\* bsd_create_listen_socket_unix: there is nothing to resolve.
ListeningUnix(y) ==
  IF 1 \notin y.sockets THEN Nothing
  ELSE LET made == Opened(Nothing, "unix")
       IN IF y.binds THEN Return(made) ELSE CloseFd(made)

\* bsd_create_connect_socket: only the first address is tried.  The descriptor is
\* bound when the source address is known; connect() cannot fail the call.
Connecting(y) ==
  IF y.infos = <<>> THEN Nothing
  ELSE IF 1 \notin y.sockets THEN FreeInfos(Resolved)
  ELSE LET made == Opened(Resolved, y.infos[1])
           interface == [made EXCEPT !.lists = @ + 1]
       IN IF y.source # "found" THEN Return(FreeInfos(made))
          ELSE IF y.binds THEN Return(FreeInfos(FreeInfos(interface)))
          ELSE FreeInfos(CloseFd(FreeInfos(interface)))

\* bsd_create_connect_socket_unix
ConnectingUnix(y) ==
  IF 1 \notin y.sockets THEN Nothing ELSE Return(Opened(Nothing, "unix"))
=============================================================================
