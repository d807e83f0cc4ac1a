-------------------------------- MODULE SniTree --------------------------------
(***************************************************************************)
(* The tree of server names of an SSL context (crypto/sni_tree.cpp), as     *)
(* operators.  A host name is the sequence of its labels, leftmost first.   *)
(* A tree is a function from its nodes, each named by the labels that lead  *)
(* to it, to what the node holds: an SSL_CTX, or NULL.                      *)
(***************************************************************************)
EXTENDS Naturals, SequencesExt

CONSTANTS
  NULL,
  Star,        \* the label "*"
  MAX_LABELS   \* the longest name that can be looked up or removed

ASSUME LabelsAssumption == MAX_LABELS \in Nat \ {0}

TooLong(name) == Len(name) > MAX_LABELS

\* sni_new: a root that holds nothing.
NewTree == [p \in {<<>>} |-> NULL]

\* sni_add: the nodes on the way are made first.  A name that is taken keeps
\* what it has; the caller is told.  There is no limit to the labels here.
Taken(tree, name) == name \in DOMAIN tree /\ tree[name] # NULL

AddName(tree, name, user) ==
  [p \in DOMAIN tree \cup Prefixes(name) |->
     IF p = name /\ ~Taken(tree, name) THEN user
     ELSE IF p \in DOMAIN tree THEN tree[p] ELSE NULL]

\* sni_remove takes a "*" by the letter.  removeUser empties the node and, on the
\* way up, culls the nodes of this name that hold nothing and lead nowhere.
Removed(tree, name) ==
  IF TooLong(name) \/ name \notin DOMAIN tree THEN NULL ELSE tree[name]

RemoveName(tree, name) ==
  LET left == [p \in DOMAIN tree |-> IF p = name THEN NULL ELSE tree[p]]
      Culled(p) == /\ p # <<>> /\ IsPrefix(p, name)
                   /\ \A q \in DOMAIN tree :
                        IsPrefix(p, q) => IsPrefix(q, name) /\ left[q] = NULL
  IN IF TooLong(name) THEN tree ELSE RestrictDomain(left, LAMBDA p : ~Culled(p))

\* A lookup that does not go back to "*" once a label matched.
FindNameOnce(tree, name) ==
  LET getUser[p \in DOMAIN tree] ==
        LET exact == Append(p, name[Len(p) + 1])
            wild  == Append(p, Star)
        IN IF Len(p) = Len(name) THEN tree[p]
           ELSE IF exact \in DOMAIN tree THEN getUser[exact]
           ELSE IF wild \in DOMAIN tree THEN getUser[wild] ELSE NULL
  IN IF TooLong(name) THEN NULL ELSE getUser[<<>>]

\* sni_find and getUser: at each label its own child first, then the child "*".
FindName(tree, name) ==
  LET getUser[p \in DOMAIN tree] ==
        LET exact == Append(p, name[Len(p) + 1])
            wild  == Append(p, Star)
        IN IF Len(p) = Len(name) THEN tree[p]
           ELSE IF exact \in DOMAIN tree /\ getUser[exact] # NULL THEN getUser[exact]
           ELSE IF wild \in DOMAIN tree THEN getUser[wild] ELSE NULL
  IN IF TooLong(name) THEN NULL ELSE getUser[<<>>]

\* ~sni_node as sni_free runs it: a node hands what its children hold to the
\* destructor, so that the root's own is not handed over by anybody.
Destroyed(tree) == {tree[p] : p \in DOMAIN tree \ {<<>>}} \ {NULL}

-----------------------------------------------------------------------------
(* What a lookup should answer, without the tree. *)

\* The names that hold something and match, "*" standing for any one label.
Matching(tree, name) ==
  {p \in DOMAIN tree : /\ tree[p] # NULL /\ Len(p) = Len(name)
                       /\ \A i \in DOMAIN p : p[i] \in {name[i], Star}}

\* p is preferred to q when it has the exact label where they first differ.
Closer(p, q, name) ==
  \E i \in DOMAIN name : /\ p[i] = name[i] /\ q[i] # name[i]
                         /\ \A j \in 1..(i - 1) : p[j] = q[j]

Answer(tree, name) ==
  LET M == Matching(tree, name)
  IN IF M = {} \/ TooLong(name) THEN NULL
     ELSE tree[CHOOSE p \in M : \A q \in M \ {p} : Closer(p, q, name)]
=============================================================================
