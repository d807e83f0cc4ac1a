----------------------------- MODULE Contexts_proofs -----------------------------
(***************************************************************************)
(* Proofs about socket contexts, their list, their server names and their  *)
(* SSL_CTXs, for any number of contexts, handshakes and names.  In order:  *)
(* the lookup of a name in a tree, what adding and removing does to trees, *)
(* the types, the references to an SSL_CTX, and the list under the sweep.  *)
(***************************************************************************)
EXTENDS Contexts, FiniteSetTheorems, WellFoundedInduction, TLAPS

-----------------------------------------------------------------------------
(* Looking up server names.                                                  *)

(* Every set of natural numbers has a least element.                          *)
LEMMA LeastNumber ==
  ASSUME NEW S \in SUBSET Nat, S # {}
  PROVE  \E m \in S : \A k \in S : m <= k
<1> DEFINE R == StrictSubsetOrdering(Nat)
           F == FiniteSubsetsOf(Nat)
           T == {0..n : n \in S}
<1>1. IsWellFoundedOn(R, F)
  BY FS_StrictSubsetOrderingWellFounded
<1>2. T \subseteq F
  <2> SUFFICES ASSUME NEW n \in S PROVE 0..n \in F
    OBVIOUS
  <2>. QED BY FS_Interval DEF FiniteSubsetsOf
<1>3. T # {}
  OBVIOUS
<1> HIDE DEF R, F
<1>4. \E x \in T : \A y \in T : ~ (<<y, x>> \in R)
  <2> HIDE DEF T
  <2>. QED BY <1>1, <1>2, <1>3, WFMin
<1>5. PICK m \in S : \A k \in S : <<0..k, 0..m>> \notin R
  BY <1>4
<1>6. ASSUME NEW k \in S, k < m PROVE FALSE
  <2>1. 0..k \subseteq 0..m /\ 0..k # 0..m /\ 0..k \subseteq Nat /\ 0..m \subseteq Nat
    BY <1>6
  <2>2. <<0..k, 0..m>> \in R
    BY <2>1 DEF R, StrictSubsetOrdering
  <2>. QED BY <1>5, <2>2
<1>. QED BY <1>5, <1>6

(* Each node of B has a longer one in B, and none is longer than n.            *)
Climbs(D, n, B) == \A p \in D \cap B : Len(p) <= n /\ \E q \in D \cap B : Len(q) > Len(p)

(* So what holds of a node whenever it holds of all nodes below it holds of   *)
(* all nodes that are no longer than the name: induction downwards, for a set *)
(* B of nodes that are said to be bad.                                        *)
LEMMA Downwards ==
  ASSUME NEW L, NEW D \in SUBSET Seq(L), NEW n \in Nat, NEW B, Climbs(D, n, B)
  PROVE  D \cap B = {}
<1>0. \A p \in D \cap B : Len(p) <= n /\ \E q \in D \cap B : Len(q) > Len(p)
  BY DEF Climbs
<1> SUFFICES ASSUME D \cap B # {} PROVE FALSE
  OBVIOUS
<1> DEFINE S == {n - Len(p) : p \in D \cap B}
<1>1. \A p \in D \cap B : Len(p) \in Nat /\ n - Len(p) \in Nat
  BY <1>0
<1>2. S \in SUBSET Nat /\ S # {}
  BY <1>1
<1>3. PICK m \in S : \A k \in S : m <= k
  <2> HIDE DEF S
  <2>. QED BY <1>2, LeastNumber
<1>4. PICK p \in D \cap B : m = n - Len(p)
  BY <1>3
<1>5. PICK q \in D \cap B : Len(q) > Len(p)
  BY <1>0, <1>4
<1>6. m <= n - Len(q)
  BY <1>3, <1>5
<1>. QED BY <1>1, <1>4, <1>5, <1>6

(* A tree has its nodes named by labels of L, a root, and the nodes above each. *)
TreeOver(L, tree) ==
  /\ DOMAIN tree \subseteq Seq(L)
  /\ <<>> \in DOMAIN tree
  /\ \A q \in DOMAIN tree : \A k \in 0..Len(q) : SubSeq(q, 1, k) \in DOMAIN tree

(* The nodes that answer a lookup which has come to node p: they go on from p, *)
(* and match from there on; and the one that matches best.                     *)
From(tree, name, p) ==
  {q \in DOMAIN tree : /\ tree[q] # NULL /\ Len(q) = Len(name)
                       /\ \A i \in 1..Len(p) : q[i] = p[i]
                       /\ \A i \in (Len(p) + 1)..Len(name) : q[i] \in {name[i], Star}}

Best(tree, name, p, q) ==
  /\ q \in From(tree, name, p)
  /\ \A r \in From(tree, name, p) \ {q} : Closer(q, r, name)

Exact(name, p) == Append(p, name[Len(p) + 1])
Wild(p)        == Append(p, Star)

(* Two names are not each closer than the other.                              *)
LEMMA CloserAsymmetric ==
  ASSUME NEW L, NEW name \in Seq(L), NEW p, NEW q, Closer(p, q, name), Closer(q, p, name)
  PROVE  FALSE
<1>1. PICK i \in DOMAIN name : p[i] = name[i] /\ q[i] # name[i] /\ \A k \in 1..(i - 1) : p[k] = q[k]
  BY DEF Closer
<1>2. PICK j \in DOMAIN name : q[j] = name[j] /\ p[j] # name[j] /\ \A k \in 1..(j - 1) : q[k] = p[k]
  BY DEF Closer
<1>3. i \in Nat /\ j \in Nat /\ i >= 1 /\ j >= 1
  OBVIOUS
<1>4. CASE i < j
  BY <1>1, <1>2, <1>3, <1>4
<1>5. CASE j < i
  BY <1>1, <1>2, <1>3, <1>5
<1>6. CASE i = j
  BY <1>1, <1>2, <1>6
<1>. QED BY <1>3, <1>4, <1>5, <1>6

(* A node as long as the name answers for itself.                             *)
LEMMA FromLeaf ==
  ASSUME NEW L, NEW tree, TreeOver(L, tree), NEW name \in Seq(L),
         NEW p \in DOMAIN tree, Len(p) = Len(name)
  PROVE  From(tree, name, p) = IF tree[p] # NULL THEN {p} ELSE {}
<1>1. p \in Seq(L)
  BY DEF TreeOver
<1>2. ASSUME NEW q \in From(tree, name, p) PROVE q = p /\ tree[p] # NULL
  <2>1. q \in Seq(L) /\ Len(q) = Len(p) /\ tree[q] # NULL /\ \A i \in 1..Len(p) : q[i] = p[i]
    BY <1>2 DEF TreeOver, From
  <2>. QED BY <2>1, <1>1
<1>3. ASSUME tree[p] # NULL PROVE p \in From(tree, name, p)
  BY <1>1, <1>3 DEF From
<1>. QED BY <1>2, <1>3

(* Above that, it answers with what its two children answer with.              *)
LEMMA FromChildren ==
  ASSUME NEW L, NEW tree, TreeOver(L, tree), NEW name \in Seq(L),
         NEW p \in DOMAIN tree, Len(p) < Len(name)
  PROVE  \A q : q \in From(tree, name, p) <=>
                  \/ Exact(name, p) \in DOMAIN tree /\ q \in From(tree, name, Exact(name, p))
                  \/ Wild(p) \in DOMAIN tree /\ q \in From(tree, name, Wild(p))
<1> DEFINE k == Len(p) + 1
<1>1. p \in Seq(L) /\ k \in Nat /\ k >= 1 /\ Len(name) \in Nat /\ k <= Len(name) /\ Len(p) \in Nat
  BY DEF TreeOver
<1>2. ASSUME NEW x
      PROVE  /\ Len(Append(p, x)) = k /\ Append(p, x)[k] = x
             /\ \A i \in 1..Len(p) : Append(p, x)[i] = p[i]
  BY <1>1
<1>3. ASSUME NEW q \in DOMAIN tree, NEW x, x \in {name[k], Star}, tree[q] # NULL, Len(q) = Len(name)
      PROVE  q \in From(tree, name, Append(p, x)) <=> q \in From(tree, name, p) /\ q[k] = x
  <2> DEFINE e == Append(p, x)
  <2>1. Len(e) = k /\ e[k] = x /\ \A i \in 1..Len(p) : e[i] = p[i]
    BY <1>2
  <2>2. (\A i \in 1..k : q[i] = e[i]) <=> (\A i \in 1..Len(p) : q[i] = p[i]) /\ q[k] = x
    BY <2>1, <1>1
  <2>3. (\A i \in k..Len(name) : q[i] \in {name[i], Star})
        <=> q[k] \in {name[k], Star} /\ \A i \in (k + 1)..Len(name) : q[i] \in {name[i], Star}
    BY <1>1
  <2>4. q \in From(tree, name, e) <=> /\ \A i \in 1..k : q[i] = e[i]
                                      /\ \A i \in (k + 1)..Len(name) : q[i] \in {name[i], Star}
    BY <2>1, <1>3 DEF From
  <2>5. q \in From(tree, name, p) <=> /\ \A i \in 1..Len(p) : q[i] = p[i]
                                      /\ \A i \in k..Len(name) : q[i] \in {name[i], Star}
    BY <1>3 DEF From
  <2>. QED BY <2>2, <2>3, <2>4, <2>5, <1>3
<1>4. ASSUME NEW q \in From(tree, name, p)
      PROVE  q[k] \in {name[k], Star} /\ Append(p, q[k]) \in DOMAIN tree
  <2>1. /\ q \in DOMAIN tree /\ q \in Seq(L) /\ Len(q) = Len(name)
        /\ \A i \in 1..Len(p) : q[i] = p[i]
        /\ \A i \in k..Len(name) : q[i] \in {name[i], Star}
    BY <1>4 DEF From, TreeOver
  <2>2. SubSeq(q, 1, k) = Append(p, q[k])
    <3>1. SubSeq(q, 1, k) \in Seq(L) /\ Len(SubSeq(q, 1, k)) = k
          /\ \A i \in 1..k : SubSeq(q, 1, k)[i] = q[i]
      BY <2>1, <1>1
    <3>2. q[k] \in L
      BY <2>1, <1>1
    <3>3. Append(p, q[k]) \in Seq(L)
      BY <3>2, <1>1
    <3>4. \A i \in 1..k : Append(p, q[k])[i] = q[i]
      BY <1>1, <1>2, <2>1
    <3>. QED BY <3>1, <3>3, <3>4, <1>2, <1>1
  <2>3. SubSeq(q, 1, k) \in DOMAIN tree
    BY <2>1, <1>1 DEF TreeOver
  <2>4. k \in k..Len(name)
    BY <1>1
  <2>5. q[k] \in {name[k], Star}
    BY <2>1, <2>4
  <2>6. Append(p, q[k]) \in DOMAIN tree
    <3> HIDE DEF k
    <3>. QED BY <2>2, <2>3
  <2>. QED BY <2>5, <2>6
<1>5. ASSUME NEW q, NEW e, q \in From(tree, name, e)
      PROVE  q \in DOMAIN tree /\ tree[q] # NULL /\ Len(q) = Len(name)
  BY <1>5 DEF From
<1>6. ASSUME NEW q
      PROVE  q \in From(tree, name, p) <=>
                  \/ Exact(name, p) \in DOMAIN tree /\ q \in From(tree, name, Exact(name, p))
                  \/ Wild(p) \in DOMAIN tree /\ q \in From(tree, name, Wild(p))
  <2>1. ASSUME q \in From(tree, name, p)
        PROVE  \/ Exact(name, p) \in DOMAIN tree /\ q \in From(tree, name, Exact(name, p))
               \/ Wild(p) \in DOMAIN tree /\ q \in From(tree, name, Wild(p))
    <3>1. q[k] \in {name[k], Star} /\ Append(p, q[k]) \in DOMAIN tree
      BY <2>1, <1>4
    <3>2. q \in From(tree, name, Append(p, q[k]))
      BY <2>1, <3>1, <1>3, <1>5
    <3>. QED BY <3>1, <3>2 DEF Exact, Wild
  <2>2. ASSUME q \in From(tree, name, Exact(name, p)) PROVE q \in From(tree, name, p)
    BY <2>2, <1>3, <1>5 DEF Exact
  <2>3. ASSUME q \in From(tree, name, Wild(p)) PROVE q \in From(tree, name, p)
    BY <2>3, <1>3, <1>5 DEF Wild
  <2>. QED BY <2>1, <2>2, <2>3
<1>. QED BY <1>6
(* A best answer through the exact child is best; through the "*" too, if the  *)
(* exact child has none.                                                      *)
LEMMA BestThroughChild ==
  ASSUME NEW L, NEW tree, TreeOver(L, tree), NEW name \in Seq(L),
         NEW p \in DOMAIN tree, Len(p) < Len(name)
  PROVE  LET e == Exact(name, p)
             w == Wild(p)
             none == e \notin DOMAIN tree \/ From(tree, name, e) = {}
         IN /\ \A q : e \in DOMAIN tree /\ Best(tree, name, e, q) => Best(tree, name, p, q)
            /\ \A q : none /\ w \in DOMAIN tree /\ Best(tree, name, w, q) => Best(tree, name, p, q)
            /\ none /\ (w \notin DOMAIN tree \/ From(tree, name, w) = {}) => From(tree, name, p) = {}
<1> DEFINE e == Exact(name, p)
           w == Wild(p)
           k == Len(p) + 1
<1>1. \A q : q \in From(tree, name, p) <=> \/ e \in DOMAIN tree /\ q \in From(tree, name, e)
                                           \/ w \in DOMAIN tree /\ q \in From(tree, name, w)
  BY FromChildren
<1>2. p \in Seq(L) /\ k \in Nat /\ k >= 1 /\ Len(name) \in Nat /\ k <= Len(name) /\ Len(p) \in Nat
  BY DEF TreeOver
<1>3. ASSUME NEW x
      PROVE  /\ Len(Append(p, x)) = k /\ Append(p, x)[k] = x
             /\ \A i \in 1..(k - 1) : Append(p, x)[i] = p[i]
  BY <1>2
<1>4. ASSUME NEW x, NEW q \in From(tree, name, Append(p, x))
      PROVE  q[k] = x /\ \A i \in 1..(k - 1) : q[i] = p[i]
  <2>1. \A i \in 1..Len(Append(p, x)) : q[i] = Append(p, x)[i]
    BY <1>4 DEF From
  <2>2. k \in 1..k /\ 1..(k - 1) \subseteq 1..k
    BY <1>2
  <2>. QED BY <2>1, <2>2, <1>3
<1>5. ASSUME NEW q, e \in DOMAIN tree, Best(tree, name, e, q)
      PROVE  Best(tree, name, p, q)
  <2>1. q \in From(tree, name, e) /\ \A r \in From(tree, name, e) \ {q} : Closer(q, r, name)
    BY <1>5 DEF Best
  <2>2. q \in From(tree, name, p)
    BY <2>1, <1>1, <1>5
  <2>3. ASSUME NEW r \in From(tree, name, p) \ {q}, r \notin From(tree, name, e)
        PROVE  Closer(q, r, name)
    <3>1. r \in From(tree, name, w)
      BY <2>3, <1>1
    <3>2. r[k] = Star /\ \A i \in 1..(k - 1) : r[i] = p[i]
      BY <3>1, <1>4 DEF Wild
    <3>3. q[k] = name[k] /\ \A i \in 1..(k - 1) : q[i] = p[i]
      BY <2>1, <1>4 DEF Exact
    <3>4. k \in DOMAIN name
      BY <1>2
    <3>5. name[k] # Star
      <4> SUFFICES ASSUME name[k] = Star PROVE FALSE
        OBVIOUS
      <4>1. e = w
        BY DEF Exact, Wild
      <4>. QED BY <4>1, <3>1, <2>3
    <3>. QED BY <3>2, <3>3, <3>4, <3>5 DEF Closer
  <2>. QED BY <2>1, <2>2, <2>3 DEF Best
<1>6. ASSUME NEW q, e \notin DOMAIN tree \/ From(tree, name, e) = {}, w \in DOMAIN tree, Best(tree, name, w, q)
      PROVE  Best(tree, name, p, q)
  BY <1>1, <1>6 DEF Best
<1>7. ASSUME e \notin DOMAIN tree \/ From(tree, name, e) = {}, w \notin DOMAIN tree \/ From(tree, name, w) = {}
      PROVE  From(tree, name, p) = {}
  <2>1. \A q : q \notin From(tree, name, p)
    BY <1>1, <1>7
  <2>. QED BY <2>1
<1> HIDE DEF e, w
<1>. QED BY <1>5, <1>6, <1>7 DEF e, w

(* Every node that answers has a best answer.                                 *)
LEMMA BestExists ==
  ASSUME NEW L, NEW tree, TreeOver(L, tree), NEW name \in Seq(L),
         NEW p \in DOMAIN tree, Len(p) <= Len(name), From(tree, name, p) # {}
  PROVE  \E q : Best(tree, name, p, q)
<1> DEFINE B == {b \in DOMAIN tree : /\ Len(b) <= Len(name) /\ From(tree, name, b) # {}
                                     /\ \A q : ~Best(tree, name, b, q)}
<1>1. ASSUME NEW b \in DOMAIN tree \cap B
      PROVE  Len(b) <= Len(name) /\ \E q \in DOMAIN tree \cap B : Len(q) > Len(b)
  <2>1. b \in Seq(L) /\ Len(b) \in Nat /\ Len(b) <= Len(name) /\ Len(name) \in Nat
    BY DEF TreeOver
  <2>2. From(tree, name, b) # {} /\ \A q : ~Best(tree, name, b, q)
    OBVIOUS
  <2>3. Len(b) < Len(name)
    <3> SUFFICES ASSUME Len(b) = Len(name) PROVE FALSE
      BY <2>1
    <3>1. From(tree, name, b) = {b}
      BY <2>2, FromLeaf
    <3>. QED BY <3>1, <2>2 DEF Best
  <2> DEFINE e == Exact(name, b)
             w == Wild(b)
  <2>4. Len(e) = Len(b) + 1 /\ Len(w) = Len(b) + 1
    BY <2>1 DEF Exact, Wild
  <2>5. /\ \A q : e \in DOMAIN tree => ~Best(tree, name, e, q)
        /\ \/ e \in DOMAIN tree /\ From(tree, name, e) # {}
           \/ w \in DOMAIN tree /\ From(tree, name, w) # {} /\ \A q : ~Best(tree, name, w, q)
    <3> HIDE DEF e, w
    <3>. QED BY <2>2, <2>3, BestThroughChild DEF e, w
  <2> HIDE DEF e, w
  <2>6. e \in B \/ w \in B
    BY <2>1, <2>3, <2>4, <2>5
  <2>. QED BY <2>1, <2>4, <2>6
<1> HIDE DEF B
<1>2. DOMAIN tree \in SUBSET Seq(L) /\ Len(name) \in Nat
  BY DEF TreeOver
<1>3. Climbs(DOMAIN tree, Len(name), B)
  BY <1>1 DEF Climbs
<1>4. DOMAIN tree \cap B = {}
  BY <1>2, <1>3, Downwards
<1>. QED BY <1>4 DEF B

(* And only one.                                                              *)
LEMMA BestIsOne ==
  ASSUME NEW L, NEW tree, NEW name \in Seq(L), NEW p,
         NEW q, NEW r, Best(tree, name, p, q), Best(tree, name, p, r)
  PROVE  q = r
BY CloserAsymmetric DEF Best

(* What is found from a node, without looking at its children.                *)
Value(tree, name, p) ==
  IF Len(p) > Len(name) \/ From(tree, name, p) = {} THEN NULL
  ELSE tree[CHOOSE q : Best(tree, name, p, q)]

(* A node's value is what its best match holds, whatever CHOOSE picks.        *)
LEMMA ValueOfBest ==
  ASSUME NEW L, NEW tree, NEW name \in Seq(L), NEW p \in Seq(L),
         Len(p) <= Len(name), NEW q, Best(tree, name, p, q)
  PROVE  Value(tree, name, p) = tree[q] /\ tree[q] # NULL
<1>1. Best(tree, name, p, CHOOSE r : Best(tree, name, p, r))
  OBVIOUS
<1>2. (CHOOSE r : Best(tree, name, p, r)) = q
  BY <1>1, BestIsOne
<1>3. q \in From(tree, name, p) /\ tree[q] # NULL
  BY DEF Best, From
<1>4. ~(Len(p) > Len(name))
  OBVIOUS
<1>. QED BY <1>2, <1>3, <1>4 DEF Value

(* The recursion of getUser: what a function that follows it gives each node.  *)
Follows(getUser, tree, name) ==
  getUser = [p \in DOMAIN tree |->
    IF Len(p) = Len(name) THEN tree[p]
    ELSE IF Exact(name, p) \in DOMAIN tree /\ getUser[Exact(name, p)] # NULL THEN getUser[Exact(name, p)]
    ELSE IF Wild(p) \in DOMAIN tree THEN getUser[Wild(p)] ELSE NULL]

(* FindName picks a function that follows the recursion, and looks at the     *)
(* root.                                                                      *)
LEMMA FindNameFollows ==
  ASSUME NEW tree, NEW name
  PROVE  FindName(tree, name) =
           IF TooLong(name) THEN NULL ELSE (CHOOSE f : Follows(f, tree, name))[<<>>]
BY DEF FindName, Follows, Exact, Wild

(* Above a leaf the value of a node is that of its exact child, unless it has  *)
(* none; then that of its "*".                                                *)
LEMMA ValueOfChildren ==
  ASSUME NEW L, NEW tree, TreeOver(L, tree), NEW name \in Seq(L),
         NEW p \in DOMAIN tree, Len(p) < Len(name)
  PROVE  Value(tree, name, p) =
           IF Exact(name, p) \in DOMAIN tree /\ Value(tree, name, Exact(name, p)) # NULL
           THEN Value(tree, name, Exact(name, p))
           ELSE IF Wild(p) \in DOMAIN tree THEN Value(tree, name, Wild(p)) ELSE NULL
<1> DEFINE e == Exact(name, p)
           w == Wild(p)
<1>0. p \in Seq(L) /\ DOMAIN tree \subseteq Seq(L)
  BY DEF TreeOver
<1>1. /\ p \in Seq(L) /\ Len(p) \in Nat /\ Len(name) \in Nat
      /\ Len(e) = Len(p) + 1 /\ Len(w) = Len(p) + 1
      /\ e \in DOMAIN tree => e \in Seq(L)
      /\ w \in DOMAIN tree => w \in Seq(L)
  <2>1. \A x : Len(Append(p, x)) = Len(p) + 1
    BY <1>0
  <2>2. Len(e) = Len(p) + 1 /\ Len(w) = Len(p) + 1
    BY <2>1 DEF Exact, Wild
  <2>3. Len(p) \in Nat /\ Len(name) \in Nat
    BY <1>0
  <2> HIDE DEF e, w
  <2>. QED BY <1>0, <2>2, <2>3
<1> DEFINE none == e \notin DOMAIN tree \/ From(tree, name, e) = {}
<1>2. /\ \A q : e \in DOMAIN tree /\ Best(tree, name, e, q) => Best(tree, name, p, q)
      /\ \A q : none /\ w \in DOMAIN tree /\ Best(tree, name, w, q) => Best(tree, name, p, q)
      /\ none /\ (w \notin DOMAIN tree \/ From(tree, name, w) = {}) => From(tree, name, p) = {}
  BY BestThroughChild
<1> HIDE DEF e, w
<1>3. ASSUME NEW b \in DOMAIN tree, b \in Seq(L), Len(b) <= Len(name), From(tree, name, b) # {}
      PROVE  \E q : Best(tree, name, b, q) /\ Value(tree, name, b) = tree[q] /\ tree[q] # NULL
  BY <1>3, BestExists, ValueOfBest
<1>4. ASSUME NEW b, From(tree, name, b) = {} PROVE Value(tree, name, b) = NULL
  BY <1>4 DEF Value
<1>5. CASE e \in DOMAIN tree /\ From(tree, name, e) # {}
  <2>1. PICK q : Best(tree, name, e, q) /\ Value(tree, name, e) = tree[q] /\ tree[q] # NULL
    BY <1>1, <1>3, <1>5
  <2>2. Best(tree, name, p, q)
    BY <2>1, <1>2, <1>5
  <2>3. Value(tree, name, p) = tree[q]
    BY <2>2, <1>1, ValueOfBest
  <2>. QED BY <2>1, <2>3, <1>5 DEF e, w
<1>6. CASE (e \notin DOMAIN tree \/ From(tree, name, e) = {}) /\ w \in DOMAIN tree /\ From(tree, name, w) # {}
  <2>1. PICK q : Best(tree, name, w, q) /\ Value(tree, name, w) = tree[q] /\ tree[q] # NULL
    BY <1>1, <1>3, <1>6
  <2>2. Best(tree, name, p, q)
    BY <2>1, <1>2, <1>6
  <2>3. Value(tree, name, p) = tree[q]
    BY <2>2, <1>1, ValueOfBest
  <2>. QED BY <2>1, <2>3, <1>4, <1>6 DEF e, w
<1>7. CASE (e \notin DOMAIN tree \/ From(tree, name, e) = {}) /\ (w \notin DOMAIN tree \/ From(tree, name, w) = {})
  BY <1>2, <1>4, <1>7 DEF e, w
<1>. QED BY <1>5, <1>6, <1>7

(* So the recursion has a solution,                                           *)
LEMMA ValueFollows ==
  ASSUME NEW L, NEW tree, TreeOver(L, tree), NEW name \in Seq(L)
  PROVE  Follows([p \in DOMAIN tree |-> Value(tree, name, p)], tree, name)
<1> DEFINE f == [p \in DOMAIN tree |-> Value(tree, name, p)]
<1>1. ASSUME NEW p \in DOMAIN tree
      PROVE  f[p] = IF Len(p) = Len(name) THEN tree[p]
                    ELSE IF Exact(name, p) \in DOMAIN tree /\ f[Exact(name, p)] # NULL THEN f[Exact(name, p)]
                    ELSE IF Wild(p) \in DOMAIN tree THEN f[Wild(p)] ELSE NULL
  <2>1. p \in Seq(L) /\ Len(p) \in Nat /\ Len(name) \in Nat
    BY DEF TreeOver
  <2>2. \A b \in DOMAIN tree : f[b] = Value(tree, name, b)
    OBVIOUS
  <2> HIDE DEF f
  <2>3. CASE Len(p) = Len(name)
    <3>1. From(tree, name, p) = IF tree[p] # NULL THEN {p} ELSE {}
      BY <2>3, FromLeaf
    <3>2. CASE tree[p] = NULL
      BY <3>1, <3>2, <2>2, <2>3 DEF Value
    <3>3. CASE tree[p] # NULL
      <4>1. Best(tree, name, p, p)
        BY <3>1, <3>3 DEF Best
      <4>. QED BY <4>1, <2>1, <2>2, <2>3, ValueOfBest
    <3>. QED BY <3>2, <3>3
  <2>4. CASE Len(p) < Len(name)
    <3>1. Len(p) # Len(name)
      BY <2>1, <2>4
    <3>. QED BY <3>1, <2>2, <2>4, ValueOfChildren
  <2>5. CASE Len(p) > Len(name)
    <3>1. /\ Len(Exact(name, p)) > Len(name) /\ Len(Wild(p)) > Len(name)
          /\ Len(p) # Len(name)
      BY <2>1, <2>5 DEF Exact, Wild
    <3>2. \A b : Len(b) > Len(name) => Value(tree, name, b) = NULL
      BY DEF Value
    <3>. QED BY <3>1, <3>2, <2>2, <2>5
  <2>. QED BY <2>1, <2>3, <2>4, <2>5
<1>2. f = [p \in DOMAIN tree |-> f[p]]
  OBVIOUS
<1> HIDE DEF f
<1>3. Follows(f, tree, name)
  BY <1>1, <1>2 DEF Follows
<1>. QED BY <1>3 DEF f

(* and only that one, down to the length of the name.                         *)
LEMMA FollowsGivesValue ==
  ASSUME NEW L, NEW tree, TreeOver(L, tree), NEW name \in Seq(L),
         NEW f, Follows(f, tree, name),
         NEW p \in DOMAIN tree, Len(p) <= Len(name)
  PROVE  f[p] = Value(tree, name, p)
<1> DEFINE B == {b \in DOMAIN tree : Len(b) <= Len(name) /\ f[b] # Value(tree, name, b)}
           v == [b \in DOMAIN tree |-> Value(tree, name, b)]
<1>1. Follows(v, tree, name)
  BY ValueFollows
<1>2. \A b \in DOMAIN tree : v[b] = Value(tree, name, b)
  OBVIOUS
<1> HIDE DEF v
<1>3. ASSUME NEW b \in DOMAIN tree \cap B
      PROVE  Len(b) <= Len(name) /\ \E q \in DOMAIN tree \cap B : Len(q) > Len(b)
  <2>1. b \in Seq(L) /\ Len(b) \in Nat /\ Len(b) <= Len(name) /\ Len(name) \in Nat
    BY DEF TreeOver
  <2>2. f[b] # v[b]
    BY <1>2
  <2> DEFINE e == Exact(name, b)
             w == Wild(b)
  <2>3. Len(e) = Len(b) + 1 /\ Len(w) = Len(b) + 1
    BY <2>1 DEF Exact, Wild
  <2> HIDE DEF e, w
  <2>4. /\ f[b] = IF Len(b) = Len(name) THEN tree[b]
                  ELSE IF e \in DOMAIN tree /\ f[e] # NULL THEN f[e]
                  ELSE IF w \in DOMAIN tree THEN f[w] ELSE NULL
        /\ v[b] = IF Len(b) = Len(name) THEN tree[b]
                  ELSE IF e \in DOMAIN tree /\ v[e] # NULL THEN v[e]
                  ELSE IF w \in DOMAIN tree THEN v[w] ELSE NULL
    BY <1>1 DEF Follows, e, w
  <2>5. Len(b) # Len(name)
    BY <2>2, <2>4
  <2>6. (e \in DOMAIN tree /\ f[e] # v[e]) \/ (w \in DOMAIN tree /\ f[w] # v[w])
    BY <2>2, <2>4, <2>5
  <2>7. Len(e) <= Len(name) /\ Len(w) <= Len(name) /\ Len(e) > Len(b) /\ Len(w) > Len(b)
    BY <2>1, <2>3, <2>5
  <2>8. e \in DOMAIN tree \cap B \/ w \in DOMAIN tree \cap B
    BY <2>6, <2>7, <1>2
  <2>. QED BY <2>1, <2>7, <2>8
<1> HIDE DEF B
<1>4. DOMAIN tree \in SUBSET Seq(L) /\ Len(name) \in Nat
  BY DEF TreeOver
<1>5. Climbs(DOMAIN tree, Len(name), B)
  BY <1>3 DEF Climbs
<1>6. DOMAIN tree \cap B = {}
  BY <1>4, <1>5, Downwards
<1>. QED BY <1>6 DEF B

(* A lookup goes from node to node, and finds the best match of the whole name. *)
LEMMA FindNameIsAnswer ==
  ASSUME NEW L, NEW tree, TreeOver(L, tree), NEW name \in Seq(L)
  PROVE  /\ FindName(tree, name) = Answer(tree, name)
         /\ FindName(tree, name) \in {NULL} \cup {tree[p] : p \in DOMAIN tree}
<1>1. /\ FindName(tree, name) =
           IF TooLong(name) THEN NULL ELSE (CHOOSE f : Follows(f, tree, name))[<<>>]
      /\ Follows(CHOOSE f : Follows(f, tree, name), tree, name)
  BY FindNameFollows, ValueFollows
<1>2. <<>> \in DOMAIN tree /\ <<>> \in Seq(L) /\ Len(<<>>) = 0 /\ Len(name) \in Nat /\ Len(<<>>) <= Len(name)
  BY DEF TreeOver
<1>3. (CHOOSE f : Follows(f, tree, name))[<<>>] = Value(tree, name, <<>>)
  BY <1>1, <1>2, FollowsGivesValue
<1> DEFINE M == Matching(tree, name)
<1>4. From(tree, name, <<>>) = M
  <2>1. ASSUME NEW q \in DOMAIN tree, Len(q) = Len(name)
        PROVE  (\A i \in DOMAIN q : q[i] \in {name[i], Star})
               <=> /\ \A i \in 1..Len(<<>>) : q[i] = (<<>>)[i]
                   /\ \A i \in (Len(<<>>) + 1)..Len(name) : q[i] \in {name[i], Star}
    <3>1. q \in Seq(L) /\ DOMAIN q = 1..Len(name) /\ (Len(<<>>) + 1)..Len(name) = 1..Len(name) /\ 1..Len(<<>>) = {}
      BY <2>1, <1>2 DEF TreeOver
    <3>. QED BY <3>1
  <2>. QED BY <2>1 DEF From, Matching
<1> HIDE DEF M
<1>5. CASE M = {}
  <2>1. Value(tree, name, <<>>) = NULL
    BY <1>4, <1>5 DEF Value
  <2>. QED BY <2>1, <1>1, <1>3, <1>5 DEF Answer, M
<1>6. CASE M # {}
  <2>1. PICK q : Best(tree, name, <<>>, q)
    BY <1>2, <1>4, <1>6, BestExists
  <2>2. Value(tree, name, <<>>) = tree[q]
    BY <2>1, <1>2, ValueOfBest
  <2> DEFINE P(p) == p \in M /\ \A r \in M \ {p} : Closer(p, r, name)
  <2>3. \A p : P(p) <=> Best(tree, name, <<>>, p)
    BY <1>4 DEF Best
  <2>4. \A p : P(p) => p = q
    BY <2>1, <2>3, BestIsOne
  <2>5. P(q)
    BY <2>1, <2>3
  <2>6. (CHOOSE p \in M : \A r \in M \ {p} : Closer(p, r, name)) = q
    BY <2>4, <2>5
  <2>7. q \in DOMAIN tree
    BY <2>1 DEF Best, From
  <2>8. FindName(tree, name) = IF TooLong(name) THEN NULL ELSE tree[q]
    BY <2>2, <1>1, <1>3
  <2>9. Answer(tree, name) = IF TooLong(name) THEN NULL ELSE tree[q]
    <3> HIDE DEF P
    <3>1. Answer(tree, name) = IF TooLong(name) THEN NULL
                               ELSE tree[CHOOSE p \in M : \A r \in M \ {p} : Closer(p, r, name)]
      BY <1>6 DEF Answer, M
    <3>. QED BY <3>1, <2>6
  <2>. QED BY <2>7, <2>8, <2>9
<1>. QED BY <1>5, <1>6

-----------------------------------------------------------------------------
(* What adding and removing does to a tree of names.                         *)

(* All names are made of these labels, of which clients may ask for all.      *)
Labels == UNION {Range(name) : name \in Names \cup Hellos}

(* Every name is a sequence of these labels.                                  *)
LEMMA NamesAreNames == Names \cup Hellos \subseteq Seq(Labels)
<1>1. ASSUME NEW name \in Names \cup Hellos PROVE name \in Seq(Labels)
  <2>1. name \in Seq(Range(name)) /\ Range(name) \subseteq Labels
    BY NamesAssumption DEF Labels
  <2> HIDE DEF Labels
  <2> DEFINE R == Range(name)
  <2>2. name \in Seq(R) /\ R \subseteq Labels
    BY <2>1
  <2> HIDE DEF R
  <2>. QED BY <2>2
<1>. QED BY <1>1

(* A tree holds SSL_CTXs, and every node but the root leads to one.            *)
Leads(tree, p) == \E q \in DOMAIN tree : IsPrefix(p, q) /\ tree[q] # NULL

TreeOK(tree) ==
  /\ TreeOver(Labels, tree)
  /\ tree = [p \in DOMAIN tree |-> tree[p]]
  /\ \A p \in DOMAIN tree : tree[p] \in SslCtxs \cup {NULL}
  /\ \A p \in DOMAIN tree \ {<<>>} : Leads(tree, p)

(* Prefixes, by their elements.                                               *)
LEMMA PrefixFacts ==
  ASSUME NEW L, NEW p \in Seq(L), NEW q \in Seq(L)
  PROVE  /\ IsPrefix(p, q) <=> Len(p) <= Len(q) /\ \A i \in 1..Len(p) : p[i] = q[i]
         /\ IsPrefix(p, q) <=> \E k \in 0..Len(q) : p = SubSeq(q, 1, k)
         /\ p \in Prefixes(q) <=> IsPrefix(p, q)
<1>1. \A k \in 0..Len(q) : /\ SubSeq(q, 1, k) \in Seq(L) /\ Len(SubSeq(q, 1, k)) = k
                           /\ \A i \in 1..k : SubSeq(q, 1, k)[i] = q[i]
  OBVIOUS
<1>2. SubSeq(p, 1, Len(p)) = p
  OBVIOUS
<1>3. IsPrefix(p, q) <=> Len(p) <= Len(q) /\ p = SubSeq(q, 1, Len(p))
  BY <1>2 DEF IsPrefix
<1>4. Len(p) <= Len(q) => (p = SubSeq(q, 1, Len(p)) <=> \A i \in 1..Len(p) : p[i] = q[i])
  <2>1. SUFFICES ASSUME Len(p) <= Len(q) PROVE p = SubSeq(q, 1, Len(p)) <=> \A i \in 1..Len(p) : p[i] = q[i]
    OBVIOUS
  <2> DEFINE s == SubSeq(q, 1, Len(p))
  <2>2. s \in Seq(L) /\ Len(s) = Len(p) /\ \A i \in 1..Len(p) : s[i] = q[i]
    BY <1>1, <2>1
  <2> HIDE DEF s
  <2>3. p = s <=> \A i \in 1..Len(p) : p[i] = q[i]
    BY <2>2
  <2>. QED BY <2>3 DEF s
<1>5. \A k \in 0..Len(q) : p = SubSeq(q, 1, k) => k = Len(p)
  BY <1>1
<1>6. Len(p) \in Nat /\ Len(q) \in Nat
  OBVIOUS
<1>7. IsPrefix(p, q) <=> \E k \in 0..Len(q) : p = SubSeq(q, 1, k)
  BY <1>3, <1>5, <1>6
<1>8. p \in Prefixes(q) <=> \E k \in 0..Len(q) : p = SubSeq(q, 1, k)
  BY DEF Prefixes
<1>. QED BY <1>3, <1>4, <1>7, <1>8

(* Being a prefix is transitive and reflexive, and only the root is one of    *)
(* the root.                                                                  *)
LEMMA PrefixesCompose ==
  ASSUME NEW L, NEW p \in Seq(L), NEW q \in Seq(L), NEW r \in Seq(L)
  PROVE  /\ IsPrefix(p, q) /\ IsPrefix(q, r) => IsPrefix(p, r)
         /\ IsPrefix(p, p) /\ IsPrefix(<<>>, p)
         /\ IsPrefix(p, <<>>) => p = <<>>
<1>1. Len(p) \in Nat /\ Len(q) \in Nat /\ Len(r) \in Nat /\ <<>> \in Seq(L) /\ Len(<<>>) = 0
  OBVIOUS
<1>2. ASSUME IsPrefix(p, q), IsPrefix(q, r) PROVE IsPrefix(p, r)
  <2>1. /\ Len(p) <= Len(q) /\ \A i \in 1..Len(p) : p[i] = q[i]
        /\ Len(q) <= Len(r) /\ \A i \in 1..Len(q) : q[i] = r[i]
    BY <1>2, PrefixFacts
  <2>2. Len(p) <= Len(r) /\ \A i \in 1..Len(p) : p[i] = r[i]
    BY <2>1, <1>1
  <2>. QED BY <2>2, PrefixFacts
<1>3. IsPrefix(p, p)
  BY <1>1, PrefixFacts
<1>4. IsPrefix(<<>>, p)
  <2>1. Len(<<>>) <= Len(p) /\ \A i \in 1..Len(<<>>) : (<<>>)[i] = p[i]
    BY <1>1
  <2>. QED BY <2>1, <1>1, PrefixFacts
<1>5. ASSUME IsPrefix(p, <<>>) PROVE p = <<>>
  <2>1. Len(p) <= Len(<<>>)
    BY <1>1, <1>5, PrefixFacts
  <2>. QED BY <2>1, <1>1
<1>. QED BY <1>2, <1>3, <1>4, <1>5

(* The nodes above each are what TreeOver says.                               *)
LEMMA TreeOverPrefixes ==
  ASSUME NEW L, NEW tree, DOMAIN tree \subseteq Seq(L), <<>> \in DOMAIN tree
  PROVE  TreeOver(L, tree) <=>
           \A q \in DOMAIN tree, p \in Seq(L) : IsPrefix(p, q) => p \in DOMAIN tree
<1>1. \A q \in DOMAIN tree : \A k \in 0..Len(q) : SubSeq(q, 1, k) \in Seq(L)
  OBVIOUS
<1>2. \A q \in DOMAIN tree, p \in Seq(L) :
        IsPrefix(p, q) <=> \E k \in 0..Len(q) : p = SubSeq(q, 1, k)
  BY PrefixFacts
<1>3. ASSUME TreeOver(L, tree), NEW q \in DOMAIN tree, NEW p \in Seq(L), IsPrefix(p, q)
      PROVE  p \in DOMAIN tree
  <2>1. PICK k \in 0..Len(q) : p = SubSeq(q, 1, k)
    BY <1>2, <1>3
  <2>2. SubSeq(q, 1, k) \in DOMAIN tree
    BY <1>3 DEF TreeOver
  <2>. QED BY <2>1, <2>2
<1>4. ASSUME \A q \in DOMAIN tree, p \in Seq(L) : IsPrefix(p, q) => p \in DOMAIN tree,
             NEW q \in DOMAIN tree, NEW k \in 0..Len(q)
      PROVE  SubSeq(q, 1, k) \in DOMAIN tree
  <2>1. SubSeq(q, 1, k) \in Seq(L)
    BY <1>1
  <2>2. IsPrefix(SubSeq(q, 1, k), q)
    BY <1>2, <2>1
  <2>. QED BY <1>4, <2>1, <2>2
<1>. QED BY <1>3, <1>4 DEF TreeOver

(* A new tree is only a root.                                                 *)
LEMMA NewTreeOK == TreeOK(NewTree)
<1>1. DOMAIN NewTree = {<<>>} /\ NewTree[<<>>] = NULL /\ <<>> \in Seq(Labels)
  BY DEF NewTree
<1>2. NewTree = [p \in DOMAIN NewTree |-> NewTree[p]]
  BY DEF NewTree
<1> HIDE DEF NewTree
<1>3. TreeOver(Labels, NewTree)
  <2>1. \A q \in DOMAIN NewTree, p \in Seq(Labels) : IsPrefix(p, q) => p \in DOMAIN NewTree
    BY <1>1, PrefixesCompose
  <2>. QED BY <2>1, <1>1, TreeOverPrefixes
<1>. QED BY <1>1, <1>2, <1>3 DEF TreeOK

(* A name that is added leads somewhere, and what was there stays.             *)
LEMMA AddNameOK ==
  ASSUME NEW tree, TreeOK(tree), NEW name \in Seq(Labels), NEW x \in SslCtxs
  PROVE  LET new == AddName(tree, name, x)
         IN /\ TreeOK(new)
            /\ \A p \in DOMAIN tree : p \in DOMAIN new
            /\ \A p \in DOMAIN new : new[p] =
                 IF p = name /\ ~Taken(tree, name) THEN x
                 ELSE IF p \in DOMAIN tree THEN tree[p] ELSE NULL
            /\ name \in DOMAIN new
<1> DEFINE new == AddName(tree, name, x)
<1>1. /\ DOMAIN new = DOMAIN tree \cup Prefixes(name)
      /\ new = [p \in DOMAIN new |-> new[p]]
      /\ \A p \in DOMAIN new : new[p] =
                 IF p = name /\ ~Taken(tree, name) THEN x
                 ELSE IF p \in DOMAIN tree THEN tree[p] ELSE NULL
  BY DEF AddName
<1>2. /\ DOMAIN tree \subseteq Seq(Labels) /\ <<>> \in DOMAIN tree
      /\ \A q \in DOMAIN tree, p \in Seq(Labels) : IsPrefix(p, q) => p \in DOMAIN tree
      /\ \A p \in DOMAIN tree : tree[p] \in SslCtxs \cup {NULL}
      /\ \A p \in DOMAIN tree \ {<<>>} : Leads(tree, p)
  <2>1. TreeOver(Labels, tree)
    BY DEF TreeOK
  <2>2. DOMAIN tree \subseteq Seq(Labels) /\ <<>> \in DOMAIN tree
    BY <2>1 DEF TreeOver
  <2>. QED BY <2>1, <2>2, TreeOverPrefixes DEF TreeOK
<1>3. Prefixes(name) \subseteq Seq(Labels)
  BY DEF Prefixes
<1>4. \A p \in Prefixes(name) : IsPrefix(p, name)
  BY <1>3, PrefixFacts
<1>5. name \in Prefixes(name) /\ new[name] # NULL
  <2>1. name \in Prefixes(name)
    BY PrefixFacts, PrefixesCompose
  <2>2. x # NULL
    BY ContextsAssumption
  <2> HIDE DEF new
  <2>. QED BY <2>1, <2>2, <1>1 DEF Taken
<1> HIDE DEF new
<1>6. DOMAIN new \subseteq Seq(Labels) /\ <<>> \in DOMAIN new
  BY <1>1, <1>2, <1>3
<1>7. TreeOver(Labels, new)
  <2>1. ASSUME NEW q \in DOMAIN new, NEW p \in Seq(Labels), IsPrefix(p, q) PROVE p \in DOMAIN new
    <3>1. CASE q \in DOMAIN tree
      BY <2>1, <3>1, <1>1, <1>2
    <3>2. CASE q \in Prefixes(name)
      <4>1. IsPrefix(p, name)
        BY <2>1, <3>2, <1>3, <1>4, PrefixesCompose
      <4>. QED BY <4>1, <1>1, PrefixFacts
    <3>. QED BY <3>1, <3>2, <1>1
  <2>. QED BY <2>1, <1>6, TreeOverPrefixes
<1>8. \A p \in DOMAIN new : new[p] \in SslCtxs \cup {NULL}
  BY <1>1, <1>2
<1>9. ASSUME NEW p \in DOMAIN new \ {<<>>} PROVE Leads(new, p)
  <2>1. CASE p \in Prefixes(name)
    BY <2>1, <1>1, <1>4, <1>5 DEF Leads
  <2>2. CASE p \in DOMAIN tree
    <3>1. PICK q \in DOMAIN tree : IsPrefix(p, q) /\ tree[q] # NULL
      BY <2>2, <1>2 DEF Leads
    <3>2. q \in DOMAIN new /\ new[q] # NULL
      BY <3>1, <1>1, ContextsAssumption
    <3>. QED BY <3>1, <3>2 DEF Leads
  <2>. QED BY <2>1, <2>2, <1>1
<1>10. TreeOK(new)
  BY <1>1, <1>7, <1>8, <1>9 DEF TreeOK
<1>. QED BY <1>1, <1>5, <1>10 DEF new

(* A name that is removed holds nothing; the others hold what they held, and   *)
(* the nodes that are left lead somewhere.                                    *)
LEMMA RemoveNameOK ==
  ASSUME NEW tree, TreeOK(tree), NEW name \in Seq(Labels), ~TooLong(name)
  PROVE  LET new == RemoveName(tree, name)
         IN /\ TreeOK(new)
            /\ DOMAIN new \subseteq DOMAIN tree
            /\ \A p \in DOMAIN new : new[p] = IF p = name THEN NULL ELSE tree[p]
            /\ \A p \in DOMAIN tree \ {name} : tree[p] # NULL => p \in DOMAIN new
<1> DEFINE new == RemoveName(tree, name)
           left == [p \in DOMAIN tree |-> IF p = name THEN NULL ELSE tree[p]]
           culled(p) == /\ p # <<>> /\ IsPrefix(p, name)
                        /\ \A q \in DOMAIN tree :
                             IsPrefix(p, q) => IsPrefix(q, name) /\ left[q] = NULL
<1>1. new = [p \in {p \in DOMAIN left : ~culled(p)} |-> left[p]]
  BY DEF RemoveName, RestrictDomain, Restrict
<1>2. /\ DOMAIN tree \subseteq Seq(Labels) /\ <<>> \in DOMAIN tree
      /\ \A q \in DOMAIN tree, p \in Seq(Labels) : IsPrefix(p, q) => p \in DOMAIN tree
      /\ \A p \in DOMAIN tree : tree[p] \in SslCtxs \cup {NULL}
      /\ \A p \in DOMAIN tree \ {<<>>} : Leads(tree, p)
  <2>1. TreeOver(Labels, tree)
    BY DEF TreeOK
  <2>2. DOMAIN tree \subseteq Seq(Labels) /\ <<>> \in DOMAIN tree
    BY <2>1 DEF TreeOver
  <2>. QED BY <2>1, <2>2, TreeOverPrefixes DEF TreeOK
<1>3. DOMAIN left = DOMAIN tree /\ \A p \in DOMAIN tree : left[p] = IF p = name THEN NULL ELSE tree[p]
  OBVIOUS
<1> HIDE DEF left, new
<1>4. /\ DOMAIN new = {p \in DOMAIN tree : ~culled(p)}
      /\ new = [p \in DOMAIN new |-> new[p]]
      /\ \A p \in DOMAIN new : new[p] = left[p]
  BY <1>1, <1>3
<1>5. ASSUME NEW p \in DOMAIN tree, left[p] # NULL PROVE p \in DOMAIN new
  <2>1. IsPrefix(p, p)
    BY <1>2, PrefixesCompose
  <2>. QED BY <2>1, <1>4, <1>5
<1>6. ASSUME NEW p \in DOMAIN new \ {<<>>} PROVE Leads(new, p)
  <2>1. p \in DOMAIN tree /\ p \in Seq(Labels) /\ ~culled(p)
    BY <1>2, <1>4
  <2>2. PICK q \in DOMAIN tree : IsPrefix(p, q) /\ left[q] # NULL
    <3>1. CASE ~IsPrefix(p, name)
      <4>1. PICK q \in DOMAIN tree : IsPrefix(p, q) /\ tree[q] # NULL
        BY <2>1, <1>2 DEF Leads
      <4>. QED BY <4>1, <3>1, <1>3
    <3>2. CASE IsPrefix(p, name)
      <4>1. PICK q \in DOMAIN tree : IsPrefix(p, q) /\ ~(IsPrefix(q, name) /\ left[q] = NULL)
        BY <2>1, <3>2
      <4>2. CASE left[q] # NULL
        BY <4>1, <4>2
      <4>3. CASE ~IsPrefix(q, name)
        <5>1. q # <<>>
          BY <4>3, PrefixesCompose
        <5>2. PICK r \in DOMAIN tree : IsPrefix(q, r) /\ tree[r] # NULL
          BY <5>1, <1>2 DEF Leads
        <5>3. r # name /\ IsPrefix(p, r)
          BY <5>2, <4>1, <4>3, <2>1, <1>2, PrefixesCompose
        <5>. QED BY <5>2, <5>3, <1>3
      <4>. QED BY <4>1, <4>2, <4>3
    <3>. QED BY <3>1, <3>2
  <2>3. q \in DOMAIN new /\ new[q] # NULL
    BY <2>2, <1>4, <1>5
  <2>. QED BY <2>2, <2>3 DEF Leads
<1>7. DOMAIN new \subseteq Seq(Labels) /\ <<>> \in DOMAIN new
  BY <1>2, <1>4
<1>8. TreeOver(Labels, new)
  <2>1. ASSUME NEW q \in DOMAIN new, NEW p \in Seq(Labels), IsPrefix(p, q) PROVE p \in DOMAIN new
    <3>1. p \in DOMAIN tree
      BY <2>1, <1>2, <1>4
    <3>2. CASE q = <<>>
      BY <3>2, <2>1, PrefixesCompose
    <3>3. CASE q # <<>>
      <4>1. PICK r \in DOMAIN new : IsPrefix(q, r) /\ new[r] # NULL
        BY <3>3, <1>6 DEF Leads
      <4>2. r \in DOMAIN tree /\ left[r] # NULL /\ IsPrefix(p, r)
        BY <4>1, <2>1, <1>2, <1>4, PrefixesCompose
      <4>. QED BY <4>2, <3>1, <1>4
    <3>. QED BY <3>2, <3>3
  <2>. QED BY <2>1, <1>7, TreeOverPrefixes
<1>9. \A p \in DOMAIN new : new[p] = IF p = name THEN NULL ELSE tree[p]
  BY <1>3, <1>4
<1>10. \A p \in DOMAIN new : new[p] \in SslCtxs \cup {NULL}
  BY <1>2, <1>4, <1>9
<1>11. TreeOK(new)
  BY <1>4, <1>6, <1>8, <1>10 DEF TreeOK
<1>12. \A p \in DOMAIN tree \ {name} : tree[p] # NULL => p \in DOMAIN new
  BY <1>3, <1>5
<1>. QED BY <1>4, <1>9, <1>11, <1>12 DEF new

-----------------------------------------------------------------------------
(* Types.                                                                    *)

Trees == {t \in UNION {[D -> SslCtxs \cup {NULL}] : D \in SUBSET Seq(Labels)} : TreeOK(t)}

ContextRecords ==
  [kind : {"free", "plain", "parent", "child"}, ssl_context : SslCtxs \cup {NULL},
   sni : Trees, on_server_name : BOOLEAN]
SslRecords == [of : Contexts \cup {NULL}, ctx : SslCtxs \cup {NULL}, asks : Hellos \cup {<<>>}]
CtxRecords == [refs : Int, password : BOOLEAN]
FdRecords  == [of : Contexts \cup {NULL}, kind : {"free", "listen", "connect"}]

Typed ==
  /\ context \in [Contexts -> ContextRecords]
  /\ ssl \in [Handshakes -> SslRecords]
  /\ ctx \in [SslCtxs -> CtxRecords]
  /\ fd \in [Descriptors -> FdRecords]

(* What a context has depends on its kind; a child has the SSL_CTX of a parent. *)
KindOK(c) ==
  /\ context[c].kind \in {"free", "plain"} => context[c].ssl_context = NULL
  /\ context[c].kind = "parent" => context[c].ssl_context \in SslCtxs
  /\ context[c].kind = "child" =>
       \E p \in Parents : context[p].ssl_context = context[c].ssl_context

(* SSLs and descriptors belong to contexts that are there.                    *)
UseOK ==
  /\ \A h \in Handshakes : /\ ssl[h].of # NULL => ssl[h].of \in Parents
                           /\ ssl[h].of = NULL => ssl[h] = FreeSsl
  /\ \A d \in Descriptors : /\ fd[d].of # NULL => fd[d].of \in Linked
                            /\ fd[d].of = NULL => fd[d] = FreeFd

ContextsOK == Typed /\ (\A c \in Contexts : KindOK(c)) /\ UseOK

(* Every tree that is sound is one of Trees.                                  *)
LEMMA TreesAre == \A t : t \in Trees <=> TreeOK(t)
<1>1. ASSUME NEW t, TreeOK(t) PROVE t \in UNION {[D -> SslCtxs \cup {NULL}] : D \in SUBSET Seq(Labels)}
  <2> DEFINE D == DOMAIN t
             V == SslCtxs \cup {NULL}
  <2>1. t = [p \in D |-> t[p]] /\ \A p \in D : t[p] \in V
    BY <1>1 DEF TreeOK
  <2>2. D \in SUBSET Seq(Labels)
    BY <1>1 DEF TreeOK, TreeOver
  <2> HIDE DEF D, V
  <2>3. t \in [D -> V]
    BY <2>1
  <2>. QED BY <2>2, <2>3 DEF V
<1>. QED BY <1>1 DEF Trees

(* A free block has no SSL_CTX and an empty tree.                             *)
LEMMA FreeContextTyped ==
  /\ FreeContext \in ContextRecords
  /\ FreeContext.kind = "free" /\ FreeContext.ssl_context = NULL /\ FreeContext.sni = NewTree
BY TreesAre, NewTreeOK DEF FreeContext, ContextRecords

(* All blocks are free at the start.                                          *)
LEMMA InitContextsOK == Init => ContextsOK
<1> SUFFICES ASSUME Init PROVE ContextsOK
  OBVIOUS
<1>1. /\ context = [c \in Contexts |-> FreeContext] /\ ctx = [x \in SslCtxs |-> FreeCtx]
      /\ ssl = [h \in Handshakes |-> FreeSsl] /\ fd = [d \in Descriptors |-> FreeFd]
  BY DEF Init
<1>2. context \in [Contexts -> ContextRecords]
  BY <1>1, FreeContextTyped
<1>3. Typed
  BY <1>1, <1>2 DEF Typed, SslRecords, CtxRecords, FdRecords, FreeCtx, FreeSsl, FreeFd
<1>4. ASSUME NEW c \in Contexts PROVE KindOK(c)
  <2>1. context[c].kind = "free" /\ context[c].ssl_context = NULL
    BY <1>1, FreeContextTyped
  <2>. QED BY <2>1 DEF KindOK
<1>5. UseOK
  BY <1>1 DEF UseOK, FreeSsl, FreeFd
<1>. QED BY <1>3, <1>4, <1>5 DEF ContextsOK

(* What OpenSSL's counters become.                                            *)
LEMMA ExceptOne ==
  ASSUME NEW S, NEW T, NEW t \in [S -> T], NEW x, NEW v, x \in S => v \in T
  PROVE  /\ [t EXCEPT ![x] = v] \in [S -> T]
         /\ \A y \in S : [t EXCEPT ![x] = v][y] = IF y = x THEN v ELSE t[y]
OBVIOUS

(* What freeing and referring make of the SSL_CTXs.                           *)
LEMMA CtxChange ==
  ASSUME NEW t \in [SslCtxs -> CtxRecords]
  PROVE  /\ \A x : /\ FreeSslContext(t, x) \in [SslCtxs -> CtxRecords]
                   /\ \A y \in SslCtxs : FreeSslContext(t, x)[y] =
                        IF y = x THEN [refs |-> t[y].refs - 1, password |-> FALSE] ELSE t[y]
         /\ \A x : /\ Refer(t, x) \in [SslCtxs -> CtxRecords]
                   /\ \A y \in SslCtxs : Refer(t, x)[y] =
                        IF y = x THEN [refs |-> t[y].refs + 1, password |-> t[y].password] ELSE t[y]
         /\ \A x : /\ Unrefer(t, x) \in [SslCtxs -> CtxRecords]
                   /\ \A y \in SslCtxs : Unrefer(t, x)[y] =
                        IF y = x THEN [refs |-> t[y].refs - 1, password |-> t[y].password] ELSE t[y]
         /\ \A X : /\ FreeSslContexts(t, X) \in [SslCtxs -> CtxRecords]
                   /\ \A y \in SslCtxs : FreeSslContexts(t, X)[y] =
                        IF y \in X THEN [refs |-> t[y].refs - 1, password |-> FALSE] ELSE t[y]
<1>1. ASSUME NEW y \in SslCtxs
      PROVE  /\ t[y] \in CtxRecords /\ t[y].refs \in Int /\ t[y].password \in BOOLEAN
             /\ t[y] = [refs |-> t[y].refs, password |-> t[y].password]
             /\ \A n \in Int, b \in BOOLEAN : [refs |-> n, password |-> b] \in CtxRecords
  BY DEF CtxRecords
<1>2. ASSUME NEW x
      PROVE  /\ FreeSslContext(t, x) \in [SslCtxs -> CtxRecords]
             /\ \A y \in SslCtxs : FreeSslContext(t, x)[y] =
                  IF y = x THEN [refs |-> t[y].refs - 1, password |-> FALSE] ELSE t[y]
  <2> DEFINE v == [refs |-> t[x].refs - 1, password |-> FALSE]
  <2>1. ASSUME x \in SslCtxs PROVE v \in CtxRecords
    <3>1. t[x].refs - 1 \in Int
      BY <1>1, <2>1
    <3>. QED BY <3>1 DEF CtxRecords
  <2>2. FreeSslContext(t, x) = IF x = NULL THEN t ELSE [t EXCEPT ![x] = v]
    BY DEF FreeSslContext
  <2>3. /\ [t EXCEPT ![x] = v] \in [SslCtxs -> CtxRecords]
        /\ \A y \in SslCtxs : [t EXCEPT ![x] = v][y] = IF y = x THEN v ELSE t[y]
    <3> HIDE DEF v
    <3>. QED BY <2>1, ExceptOne
  <2>. QED BY <2>2, <2>3, ContextsAssumption
<1>3. ASSUME NEW x
      PROVE  /\ Refer(t, x) \in [SslCtxs -> CtxRecords]
             /\ \A y \in SslCtxs : Refer(t, x)[y] =
                  IF y = x THEN [refs |-> t[y].refs + 1, password |-> t[y].password] ELSE t[y]
  <2> DEFINE v == [t[x] EXCEPT !.refs = @ + 1]
  <2>1. x \in SslCtxs => v = [refs |-> t[x].refs + 1, password |-> t[x].password] /\ v \in CtxRecords
    BY <1>1
  <2>2. Refer(t, x) = [t EXCEPT ![x] = v]
    BY DEF Refer
  <2> HIDE DEF v
  <2>3. /\ [t EXCEPT ![x] = v] \in [SslCtxs -> CtxRecords]
        /\ \A y \in SslCtxs : [t EXCEPT ![x] = v][y] = IF y = x THEN v ELSE t[y]
    BY <2>1, ExceptOne
  <2>. QED BY <2>1, <2>2, <2>3
<1>4. ASSUME NEW x
      PROVE  /\ Unrefer(t, x) \in [SslCtxs -> CtxRecords]
             /\ \A y \in SslCtxs : Unrefer(t, x)[y] =
                  IF y = x THEN [refs |-> t[y].refs - 1, password |-> t[y].password] ELSE t[y]
  <2> DEFINE v == [t[x] EXCEPT !.refs = @ - 1]
  <2>1. x \in SslCtxs => v = [refs |-> t[x].refs - 1, password |-> t[x].password] /\ v \in CtxRecords
    BY <1>1
  <2>2. Unrefer(t, x) = [t EXCEPT ![x] = v]
    BY DEF Unrefer
  <2> HIDE DEF v
  <2>3. /\ [t EXCEPT ![x] = v] \in [SslCtxs -> CtxRecords]
        /\ \A y \in SslCtxs : [t EXCEPT ![x] = v][y] = IF y = x THEN v ELSE t[y]
    BY <2>1, ExceptOne
  <2>. QED BY <2>1, <2>2, <2>3
<1>5. ASSUME NEW X
      PROVE  /\ FreeSslContexts(t, X) \in [SslCtxs -> CtxRecords]
             /\ \A y \in SslCtxs : FreeSslContexts(t, X)[y] =
                  IF y \in X THEN [refs |-> t[y].refs - 1, password |-> FALSE] ELSE t[y]
  <2>1. \A y \in SslCtxs : /\ FreeSslContext(t, y)[y] = [refs |-> t[y].refs - 1, password |-> FALSE]
                           /\ FreeSslContext(t, y)[y] \in CtxRecords
    BY <1>1, <1>2
  <2>. QED BY <2>1, <1>1 DEF FreeSslContexts
<1>. QED BY <1>2, <1>3, <1>4, <1>5

(* Making an SSL_CTX from options: it has a reference, or was freed again.     *)
LEMMA FromOptionsChange ==
  ASSUME NEW t \in [SslCtxs -> CtxRecords], NEW x \in SslCtxs, NEW o \in SomeOptions
  PROVE  /\ o.valid \in BOOLEAN
         /\ FromOptions(t, x, o) \in [SslCtxs -> CtxRecords]
         /\ \A y \in SslCtxs : y # x => FromOptions(t, x, o)[y] = t[y]
         /\ FromOptions(t, x, o)[x].refs = IF o.valid THEN 1 ELSE 0
         /\ ~o.valid => ~FromOptions(t, x, o)[x].password
<1> DEFINE v == [refs |-> 1, password |-> o.passphrase]
           made == [t EXCEPT ![x] = v]
<1>1. o.passphrase \in BOOLEAN /\ o.valid \in BOOLEAN
  BY OptionsAssumption
<1>2. v \in CtxRecords /\ v.refs = 1
  BY <1>1 DEF CtxRecords
<1> HIDE DEF v
<1>3. made \in [SslCtxs -> CtxRecords] /\ \A y \in SslCtxs : made[y] = IF y = x THEN v ELSE t[y]
  BY <1>2, ExceptOne
<1> HIDE DEF made
<1>4. /\ FreeSslContext(made, x) \in [SslCtxs -> CtxRecords]
      /\ \A y \in SslCtxs : FreeSslContext(made, x)[y] =
           IF y = x THEN [refs |-> made[y].refs - 1, password |-> FALSE] ELSE made[y]
  BY <1>3, CtxChange
<1>5. FreeSslContext(made, x)[x].refs = 0 /\ ~FreeSslContext(made, x)[x].password
  BY <1>2, <1>3, <1>4
<1>6. FromOptions(t, x, o) = IF o.valid THEN made ELSE FreeSslContext(made, x)
  BY DEF FromOptions, made, v
<1>7. CASE o.valid
  BY <1>1, <1>2, <1>3, <1>6, <1>7
<1>8. CASE ~o.valid
  BY <1>1, <1>3, <1>4, <1>5, <1>6, <1>8
<1>. QED BY <1>7, <1>8

(* A lookup in a context answers with an SSL_CTX or with nothing.             *)
LEMMA FoundIsCtx ==
  ASSUME NEW t, TreeOK(t), NEW name \in Names \cup Hellos
  PROVE  FindName(t, name) \in SslCtxs \cup {NULL}
BY FindNameIsAnswer, NamesAreNames DEF TreeOK

(* What the calls answer: a descriptor is open exactly if it is returned, and *)
(* every list of addresses has been freed.                                    *)
LEMMA RepliesClean ==
  ASSUME NEW y \in SomeReplies
  PROVE  \A r \in {Listening(y), ListeningUnix(y), Connecting(y), ConnectingUnix(y)} :
           r.fd \in BOOLEAN /\ r.open = (IF r.fd THEN 1 ELSE 0) /\ r.lists = 0
<1>1. y.binds \in BOOLEAN
  BY RepliesAssumption DEF Replies
<1>2. ASSUME NEW f
      PROVE  /\ Nothing.fd = FALSE /\ Nothing.open = 0 /\ Nothing.lists = 0
             /\ FreeInfos(Resolved).fd = FALSE /\ FreeInfos(Resolved).open = 0 /\ FreeInfos(Resolved).lists = 0
  BY DEF Nothing, FreeInfos, Resolved
<1>3. ASSUME NEW f
      PROVE  LET r == Return(FreeInfos(Opened(Resolved, f)))
             IN r.fd = TRUE /\ r.open = 1 /\ r.lists = 0
  BY DEF Nothing, FreeInfos, Resolved, Opened, Return
<1>4. ASSUME NEW f
      PROVE  LET r == FreeInfos(CloseFd(Opened(Resolved, f)))
             IN r.fd = FALSE /\ r.open = 0 /\ r.lists = 0
  BY DEF Nothing, FreeInfos, Resolved, Opened, CloseFd
<1>5. ASSUME NEW f
      PROVE  LET made == Opened(Resolved, f)
                 interface == [made EXCEPT !.lists = @ + 1]
                 r == Return(FreeInfos(FreeInfos(interface)))
                 q == FreeInfos(CloseFd(FreeInfos(interface)))
             IN /\ r.fd = TRUE /\ r.open = 1 /\ r.lists = 0
                /\ q.fd = FALSE /\ q.open = 0 /\ q.lists = 0
  BY DEF Nothing, FreeInfos, Resolved, Opened, CloseFd, Return
<1>6. ASSUME NEW f
      PROVE  LET r == Return(Opened(Nothing, f))
                 q == CloseFd(Opened(Nothing, f))
             IN /\ r.fd = TRUE /\ r.open = 1 /\ r.lists = 0
                /\ q.fd = FALSE /\ q.open = 0 /\ q.lists = 0
  BY DEF Nothing, Opened, CloseFd, Return
<1> DEFINE Clean(r) == r.fd \in BOOLEAN /\ r.open = (IF r.fd THEN 1 ELSE 0) /\ r.lists = 0
<1>7. Clean(Listening(y))
  BY <1>1, <1>2, <1>3, <1>4 DEF Listening
<1>8. Clean(ListeningUnix(y))
  BY <1>1, <1>2, <1>6 DEF ListeningUnix
<1>9. Clean(Connecting(y))
  BY <1>1, <1>2, <1>3, <1>5 DEF Connecting
<1>10. Clean(ConnectingUnix(y))
  BY <1>1, <1>2, <1>6 DEF ConnectingUnix
<1>. QED BY <1>7, <1>8, <1>9, <1>10

(* What a context becomes: [context EXCEPT ![c] = r].                          *)
LEMMA PutContext ==
  ASSUME Typed, NEW c \in Contexts, NEW r \in ContextRecords, context' = [context EXCEPT ![c] = r]
  PROVE  /\ context' \in [Contexts -> ContextRecords]
         /\ context'[c] = r
         /\ \A b \in Contexts : b # c => context'[b] = context[b]
BY DEF Typed

(* The fields of a context.                                                   *)
LEMMA ContextTyped ==
  ASSUME Typed, NEW c \in Contexts
  PROVE  /\ context[c] = [kind |-> context[c].kind, ssl_context |-> context[c].ssl_context,
                          sni |-> context[c].sni, on_server_name |-> context[c].on_server_name]
         /\ context[c].kind \in {"free", "plain", "parent", "child"}
         /\ context[c].ssl_context \in SslCtxs \cup {NULL}
         /\ TreeOK(context[c].sni)
         /\ context[c].on_server_name \in BOOLEAN
BY TreesAre DEF Typed, ContextRecords

(* A block that is free becomes a context.                                    *)
LEMMA CreatedContextOK ==
  ASSUME ContextsOK, NEW c \in Contexts, c \notin Linked,
         NEW r \in ContextRecords, context' = [context EXCEPT ![c] = r],
         r.kind \in {"plain", "parent", "child"}, r.sni = NewTree,
         r.kind = "plain" => r.ssl_context = NULL,
         r.kind = "parent" => r.ssl_context \in SslCtxs,
         r.kind = "child" => \E p \in Parents : context[p].ssl_context = r.ssl_context,
         ctx' \in [SslCtxs -> CtxRecords], UNCHANGED <<ssl, fd>>
  PROVE  /\ ContextsOK' /\ context'[c] = r
         /\ \A b \in Contexts : b # c => context'[b] = context[b]
<1>2. Typed
  BY DEF ContextsOK
<1>4. /\ context' \in [Contexts -> ContextRecords]
      /\ context'[c] = r
      /\ \A b \in Contexts : b # c => context'[b] = context[b]
  BY <1>2, PutContext
<1>5. context[c].kind = "free"
  BY DEF Linked
<1>6. /\ \A b \in Parents : b # c /\ b \in Parents' /\ context'[b] = context[b]
      /\ \A b \in Linked : b # c /\ b \in Linked' /\ context'[b] = context[b]
  BY <1>4, <1>5 DEF Parents, Linked
<1>7. Typed'
  BY <1>2, <1>4 DEF Typed
<1>8. ASSUME NEW b \in Contexts PROVE KindOK(b)'
  <2>1. CASE b = c
    BY <2>1, <1>4, <1>6 DEF KindOK
  <2>2. CASE b # c
    <3>1. KindOK(b) /\ context'[b] = context[b]
      BY <2>2, <1>4 DEF ContextsOK
    <3>. QED BY <3>1, <1>6 DEF KindOK
  <2>. QED BY <2>1, <2>2
<1>9. UseOK'
  BY <1>6 DEF UseOK, ContextsOK
<1>. QED BY <1>4, <1>7, <1>8, <1>9 DEF ContextsOK

(* The kinds and SSL_CTXs of contexts stay.                                   *)
KindsKept ==
  \A b \in Contexts : /\ context'[b].kind = context[b].kind
                      /\ context'[b].ssl_context = context[b].ssl_context

(* Then the same contexts are there, of the same kinds.                       *)
LEMMA KindsKeptOK ==
  ASSUME ContextsOK, KindsKept
  PROVE  /\ Parents' = Parents /\ Linked' = Linked
         /\ \A c \in Contexts : KindOK(c)'
<1>1. Parents' = Parents /\ Linked' = Linked
  BY DEF KindsKept, Parents, Linked
<1>2. ASSUME NEW c \in Contexts PROVE KindOK(c)'
  <2>1. KindOK(c)
    BY DEF ContextsOK
  <2>2. \A p \in Parents : p \in Contexts
    BY DEF Parents
  <2>. QED BY <1>1, <2>1, <2>2 DEF KindOK, KindsKept
<1>. QED BY <1>1, <1>2

(* A tree changes.                                                            *)
LEMMA TreeChangedOK ==
  ASSUME ContextsOK, NEW c \in Contexts, NEW t, TreeOK(t),
         context' = [context EXCEPT ![c].sni = t],
         ctx' \in [SslCtxs -> CtxRecords], UNCHANGED <<ssl, fd>>
  PROVE  /\ ContextsOK' /\ KindsKept /\ context'[c].sni = t
         /\ \A b \in Contexts : b # c => context'[b] = context[b]
<1> DEFINE r == [context[c] EXCEPT !.sni = t]
<1>1. Typed
  BY DEF ContextsOK
<1>2. r \in ContextRecords /\ r.kind = context[c].kind /\ r.ssl_context = context[c].ssl_context /\ r.sni = t
  <2>1. context[c] \in ContextRecords /\ t \in Trees
    BY <1>1, TreesAre DEF Typed
  <2>. QED BY <2>1 DEF ContextRecords
<1>3. context' = [context EXCEPT ![c] = r]
  OBVIOUS
<1> HIDE DEF r
<1>4. /\ context' \in [Contexts -> ContextRecords]
      /\ context'[c] = r
      /\ \A b \in Contexts : b # c => context'[b] = context[b]
  BY <1>1, <1>2, <1>3, PutContext
<1>5. KindsKept
  BY <1>2, <1>4 DEF KindsKept
<1>6. Typed'
  BY <1>1, <1>4 DEF Typed
<1>7. UseOK'
  BY <1>5, KindsKeptOK DEF UseOK, ContextsOK
<1>. QED BY <1>2, <1>4, <1>5, <1>6, <1>7, KindsKeptOK DEF ContextsOK

(* A context is freed.                                                        *)
LEMMA FreedContextOK ==
  ASSUME ContextsOK, NEW c \in Contexts, Free(c)
  PROVE  /\ ContextsOK' /\ context'[c].kind = "free"
         /\ \A b \in Contexts : b # c => context'[b] = context[b]
<1>1. Typed /\ context' = [context EXCEPT ![c] = FreeContext] /\ UNCHANGED <<ssl, fd>> /\ MayFree(c)
  BY DEF ContextsOK, Free
<1>2. /\ context' \in [Contexts -> ContextRecords]
      /\ context'[c] = FreeContext
      /\ \A b \in Contexts : b # c => context'[b] = context[b]
  BY <1>1, FreeContextTyped, PutContext
<1>3. context'[c].kind = "free" /\ context'[c].ssl_context = NULL
  BY <1>2, FreeContextTyped
<1>4. ctx' \in [SslCtxs -> CtxRecords]
  <2>1. ctx \in [SslCtxs -> CtxRecords] /\ ctx' = FreeOwned(ctx, c)
    BY <1>1 DEF Typed, Free
  <2>2. FreeSslContext(ctx, context[c].ssl_context) \in [SslCtxs -> CtxRecords]
    BY <2>1, CtxChange
  <2>3. FreeSslContexts(FreeSslContext(ctx, context[c].ssl_context), Destroyed(context[c].sni))
          \in [SslCtxs -> CtxRecords]
    BY <2>2, CtxChange
  <2>. QED BY <2>1, <2>3 DEF FreeOwned
<1>5. Typed'
  BY <1>1, <1>2, <1>4 DEF Typed
<1>6. ASSUME NEW b \in Contexts PROVE KindOK(b)'
  <2>1. CASE b = c
    BY <2>1, <1>3 DEF KindOK
  <2>2. CASE b # c
    <3>1. KindOK(b) /\ context'[b] = context[b]
      BY <2>2, <1>2 DEF ContextsOK
    <3>2. ASSUME context[b].kind = "child", NEW p \in Parents, context[p].ssl_context = context[b].ssl_context
          PROVE  p \in Parents' /\ context'[p] = context[p]
      <4>1. p # c
        BY <3>2, <2>2, <1>1 DEF MayFree, Linked, Parents
      <4>. QED BY <4>1, <1>2 DEF Parents
    <3>. QED BY <3>1, <3>2 DEF KindOK
  <2>. QED BY <2>1, <2>2
<1>7. UseOK'
  <2>1. /\ \A b \in Parents : b # c => b \in Parents'
        /\ \A b \in Linked : b # c => b \in Linked'
    BY <1>2 DEF Parents, Linked
  <2>2. /\ \A h \in Handshakes : ssl[h].of # c
        /\ \A d \in Descriptors : fd[d].of # c
    BY <1>1 DEF MayFree
  <2>. QED BY <2>1, <2>2, <1>1 DEF UseOK, ContextsOK
<1>. QED BY <1>2, <1>3, <1>5, <1>6, <1>7 DEF ContextsOK

(* An SSL changes: a lookup, an open or a close.                               *)
LEMMA SslChangedOK ==
  ASSUME ContextsOK, NEW h \in Handshakes, NEW r \in SslRecords, ssl' = [ssl EXCEPT ![h] = r],
         r.of # NULL => r.of \in Parents, r.of = NULL => r = FreeSsl,
         ctx' \in [SslCtxs -> CtxRecords], UNCHANGED <<context, fd>>
  PROVE  /\ ContextsOK' /\ ssl'[h] = r
         /\ \A g \in Handshakes : g # h => ssl'[g] = ssl[g]
<1>1. Typed
  BY DEF ContextsOK
<1>2. /\ ssl' \in [Handshakes -> SslRecords] /\ ssl'[h] = r
      /\ \A g \in Handshakes : g # h => ssl'[g] = ssl[g]
  BY <1>1 DEF Typed
<1>3. Typed'
  BY <1>1, <1>2 DEF Typed
<1>4. Parents' = Parents /\ Linked' = Linked /\ \A c \in Contexts : KindOK(c)'
  BY KindsKeptOK DEF KindsKept
<1>5. UseOK'
  BY <1>2, <1>4 DEF UseOK, ContextsOK
<1>. QED BY <1>2, <1>3, <1>4, <1>5 DEF ContextsOK

(* A socket comes or goes.                                                    *)
LEMMA FdChangedOK ==
  ASSUME ContextsOK, NEW d \in Descriptors, NEW r \in FdRecords, fd' = [fd EXCEPT ![d] = r],
         r.of # NULL => r.of \in Linked, r.of = NULL => r = FreeFd,
         UNCHANGED <<context, ctx, ssl>>
  PROVE  ContextsOK'
<1>1. Typed
  BY DEF ContextsOK
<1>2. /\ fd' \in [Descriptors -> FdRecords] /\ fd'[d] = r
      /\ \A e \in Descriptors : e # d => fd'[e] = fd[e]
  BY <1>1 DEF Typed
<1>3. Typed'
  BY <1>1, <1>2 DEF Typed
<1>4. Parents' = Parents /\ Linked' = Linked /\ \A c \in Contexts : KindOK(c)'
  BY KindsKeptOK DEF KindsKept
<1>5. UseOK'
  BY <1>2, <1>4 DEF UseOK, ContextsOK
<1>. QED BY <1>3, <1>4, <1>5 DEF ContextsOK

-----------------------------------------------------------------------------
(* Who owns an SSL_CTX.                                                      *)

OwnedBy(x, c) == context[c].ssl_context = x \/ \E p \in DOMAIN context[c].sni : context[c].sni[p] = x
Owned(x)      == \E c \in Parents : OwnedBy(x, c)

(* Each SSL_CTX has one owner, and the root of a tree, which is never handed   *)
(* to the destructor, owns none.                                              *)
OneOwner ==
  /\ \A c, b \in Parents : context[c].ssl_context = context[b].ssl_context => c = b
  /\ \A c, b \in Parents : \A p \in DOMAIN context[c].sni, q \in DOMAIN context[b].sni :
       context[c].sni[p] = context[b].sni[q] /\ context[c].sni[p] # NULL => c = b /\ p = q
  /\ \A c, b \in Parents : \A p \in DOMAIN context[b].sni :
       context[c].ssl_context # context[b].sni[p]
  /\ \A c \in Parents : context[c].sni[<<>>] = NULL

Counted(x) ==
  /\ ctx[x].refs = (IF Owned(x) THEN 1 ELSE 0) + Cardinality(Users(x))
  /\ ctx[x].password => Owned(x)

AllCounted == \A x \in SslCtxs : Counted(x)

(* Only handshakes use an SSL_CTX, so its users can be counted.               *)
LEMMA UsersFinite ==
  ASSUME IsFiniteSet(Handshakes), NEW x
  PROVE  IsFiniteSet(Users(x)) /\ Cardinality(Users(x)) \in Nat
<1>1. Users(x) \subseteq Handshakes
  BY DEF Users
<1>2. IsFiniteSet(Users(x))
  BY <1>1, FS_Subset
<1>. QED BY <1>2, FS_CardinalityType

(* What has no reference has neither owner nor users.                         *)
LEMMA UnusedIsFree ==
  ASSUME IsFiniteSet(Handshakes), NEW x \in SslCtxs, Counted(x), Unused(x)
  PROVE  ~Owned(x) /\ Users(x) = {}
<1>1. ctx[x].refs = 0
  BY DEF Unused
<1>2. Cardinality(Users(x)) \in Nat
  BY UsersFinite
<1>3. ~Owned(x) /\ Cardinality(Users(x)) = 0
  BY <1>1, <1>2 DEF Counted
<1>. QED BY <1>3, UsersFinite, FS_EmptySet

(* An SSL_CTX gets an owner, or none after all.                               *)
LEMMA GainCounted ==
  ASSUME IsFiniteSet(Handshakes), AllCounted, NEW x \in SslCtxs, Unused(x), NEW gain \in BOOLEAN,
         UNCHANGED ssl,
         \A y \in SslCtxs : Owned(y)' <=> Owned(y) \/ (gain /\ y = x),
         \A y \in SslCtxs : y # x => ctx'[y] = ctx[y],
         ctx'[x].refs = IF gain THEN 1 ELSE 0,
         ~gain => ~ctx'[x].password
  PROVE  AllCounted'
<1> SUFFICES ASSUME NEW y \in SslCtxs PROVE Counted(y)'
  BY DEF AllCounted
<1>1. Counted(y) /\ Counted(x)
  BY DEF AllCounted
<1>2. Users(y)' = Users(y)
  BY DEF Users
<1>3. CASE y = x
  <2>1. ~Owned(x) /\ Users(x) = {}
    BY <1>1, UnusedIsFree
  <2>2. Cardinality(Users(x)) = 0
    BY <2>1, FS_EmptySet
  <2>. QED BY <2>1, <2>2, <1>2, <1>3 DEF Counted
<1>4. CASE y # x
  BY <1>1, <1>2, <1>4 DEF Counted
<1>. QED BY <1>3, <1>4

(* Those of L lose their owner.                                               *)
LEMMA LossCounted ==
  ASSUME IsFiniteSet(Handshakes), AllCounted, Typed, NEW L,
         UNCHANGED ssl,
         \A y \in SslCtxs : y \in L => Owned(y),
         \A y \in SslCtxs : Owned(y)' <=> Owned(y) /\ y \notin L,
         \A y \in SslCtxs : ctx'[y] = IF y \in L THEN [refs |-> ctx[y].refs - 1, password |-> FALSE] ELSE ctx[y]
  PROVE  AllCounted'
<1> SUFFICES ASSUME NEW y \in SslCtxs PROVE Counted(y)'
  BY DEF AllCounted
<1>1. Counted(y)
  BY DEF AllCounted
<1>2. Users(y)' = Users(y)
  BY DEF Users
<1>3. Cardinality(Users(y)) \in Nat
  BY UsersFinite
<1>4. CASE y \in L
  <2>1. Owned(y) /\ ~Owned(y)'
    BY <1>4
  <2>2. ctx'[y] = [refs |-> ctx[y].refs - 1, password |-> FALSE]
    BY <1>4
  <2>3. ctx'[y].refs = ctx[y].refs - 1 /\ ~ctx'[y].password
    BY ONLY <2>2
  <2>. QED BY <2>1, <2>3, <1>1, <1>2, <1>3 DEF Counted
<1>5. CASE y \notin L
  BY <1>1, <1>2, <1>5 DEF Counted
<1>. QED BY <1>4, <1>5

(* The size of a set with h and without.                                      *)
LEMMA CountOne ==
  ASSUME NEW U, IsFiniteSet(U), NEW h
  PROVE  /\ Cardinality(U) \in Nat
         /\ h \in U => Cardinality(U \cup {h}) = Cardinality(U) /\ Cardinality(U \ {h}) = Cardinality(U) - 1
         /\ h \notin U => Cardinality(U \cup {h}) = Cardinality(U) + 1 /\ Cardinality(U \ {h}) = Cardinality(U)
<1>1. Cardinality(U) \in Nat
  BY FS_CardinalityType
<1>2. CASE h \in U
  <2>1. U \cup {h} = U
    BY <1>2
  <2>2. Cardinality(U \ {h}) = Cardinality(U) - 1
    BY <1>2, FS_RemoveElement
  <2>. QED BY <2>1, <2>2, <1>1, <1>2
<1>3. CASE h \notin U
  <2>1. U \ {h} = U
    BY <1>3
  <2>2. Cardinality(U \cup {h}) = Cardinality(U) + 1
    BY <1>3, FS_AddElement
  <2>. QED BY <2>1, <2>2, <1>1, <1>3
<1>. QED BY <1>2, <1>3

(* An SSL leaves the SSL_CTX a for b; either may be NULL.                      *)
LEMMA UserCounted ==
  ASSUME IsFiniteSet(Handshakes), AllCounted, Typed, NEW h \in Handshakes, NEW a, NEW b,
         ssl[h].ctx = a, ssl'[h].ctx = b, \A g \in Handshakes : g # h => ssl'[g] = ssl[g],
         UNCHANGED context,
         \A y \in SslCtxs : /\ ctx'[y].refs = ctx[y].refs + (IF y = b THEN 1 ELSE 0) - (IF y = a THEN 1 ELSE 0)
                            /\ ctx'[y].password = ctx[y].password
  PROVE  AllCounted'
<1> SUFFICES ASSUME NEW y \in SslCtxs PROVE Counted(y)'
  BY DEF AllCounted
<1>1. Counted(y) /\ IsFiniteSet(Users(y)) /\ Cardinality(Users(y)) \in Nat
  BY UsersFinite DEF AllCounted
<1>2. Owned(y)' <=> Owned(y)
  BY DEF Owned, OwnedBy, Parents
<1>3. h \in Users(y) <=> y = a
  BY DEF Users
<1>4. Users(y)' = IF y = b THEN Users(y) \cup {h} ELSE Users(y) \ {h}
  BY DEF Users
<1>5. Cardinality(Users(y)') = Cardinality(Users(y)) + (IF y = b THEN 1 ELSE 0) - (IF y = a THEN 1 ELSE 0)
  <2> DEFINE U == Users(y)
  <2>1. /\ Cardinality(U) \in Nat
        /\ h \in U => Cardinality(U \cup {h}) = Cardinality(U) /\ Cardinality(U \ {h}) = Cardinality(U) - 1
        /\ h \notin U => Cardinality(U \cup {h}) = Cardinality(U) + 1 /\ Cardinality(U \ {h}) = Cardinality(U)
    BY <1>1, CountOne
  <2>2. (h \in U <=> y = a) /\ Users(y)' = IF y = b THEN U \cup {h} ELSE U \ {h}
    BY <1>3, <1>4
  <2> HIDE DEF U
  <2>3. CASE y = b
    <3>1. Users(y)' = U \cup {h}
      BY <2>2, <2>3
    <3>. QED BY <3>1, <2>1, <2>2, <2>3 DEF U
  <2>4. CASE y # b
    <3>1. Users(y)' = U \ {h}
      BY <2>2, <2>4
    <3>. QED BY <3>1, <2>1, <2>2, <2>4 DEF U
  <2>. QED BY <2>3, <2>4
<1> DEFINE n == Cardinality(Users(y))
           m == Cardinality(Users(y)')
           o == IF Owned(y) THEN 1 ELSE 0
           d == (IF y = b THEN 1 ELSE 0)
           e == (IF y = a THEN 1 ELSE 0)
<1>6. ctx[y].refs = o + n /\ m = n + d - e /\ ctx'[y].refs = ctx[y].refs + d - e
  BY <1>1, <1>5 DEF Counted
<1>7. o \in Int /\ n \in Int /\ d \in Int /\ e \in Int
  BY <1>1
<1>8. ctx'[y].refs = o + m
  <2> HIDE DEF n, m, o, d, e
  <2>. QED BY <1>6, <1>7
<1>. QED BY <1>1, <1>2, <1>8 DEF Counted

-----------------------------------------------------------------------------
(* The steps, for the types.                                                 *)

(* Contexts that are kept.                                                    *)
LEMMA KeptOK ==
  ASSUME ContextsOK, ctx' \in [SslCtxs -> CtxRecords], UNCHANGED <<context, ssl, fd>>
  PROVE  ContextsOK'
<1>1. Parents' = Parents /\ Linked' = Linked /\ \A c \in Contexts : KindOK(c)'
  BY KindsKeptOK DEF KindsKept
<1>2. Typed' /\ UseOK'
  BY <1>1 DEF Typed, UseOK, ContextsOK
<1>. QED BY <1>1, <1>2 DEF ContextsOK

(* A context that is asked for names it does not know.                        *)
LEMMA OnServerNameOK ==
  ASSUME ContextsOK, NEW c \in Contexts, OnServerName(c)
  PROVE  /\ ContextsOK' /\ KindsKept
         /\ \A b \in Contexts : context'[b].sni = context[b].sni
<1> DEFINE r == [context[c] EXCEPT !.on_server_name = TRUE]
<1>1. Typed /\ UNCHANGED <<ctx, ssl, fd>>
  BY DEF ContextsOK, OnServerName
<1>2. r \in ContextRecords /\ r.kind = context[c].kind /\ r.ssl_context = context[c].ssl_context /\ r.sni = context[c].sni
  <2>1. context[c] \in ContextRecords
    BY <1>1 DEF Typed
  <2>. QED BY <2>1 DEF ContextRecords
<1>3. context' = [context EXCEPT ![c] = r]
  BY DEF OnServerName
<1> HIDE DEF r
<1>4. /\ context' \in [Contexts -> ContextRecords]
      /\ context'[c] = r
      /\ \A b \in Contexts : b # c => context'[b] = context[b]
  BY <1>1, <1>2, <1>3, PutContext
<1>5. KindsKept /\ \A b \in Contexts : context'[b].sni = context[b].sni
  BY <1>2, <1>4 DEF KindsKept
<1>6. Typed'
  BY <1>1, <1>4 DEF Typed
<1>7. UseOK'
  BY <1>1, <1>5, KindsKeptOK DEF UseOK, ContextsOK
<1>. QED BY <1>5, <1>6, <1>7, KindsKeptOK DEF ContextsOK

(* us_create_socket_context takes a free block and leaves the others.         *)
LEMMA CreateContextOK ==
  ASSUME ContextsOK, NEW c \in Contexts, CreateContext(c)
  PROVE  /\ ContextsOK' /\ c \notin Linked /\ context'[c].kind = "plain"
         /\ \A b \in Contexts : b # c => context'[b] = context[b]
<1> DEFINE r == [FreeContext EXCEPT !.kind = "plain"]
<1>1. context' = [context EXCEPT ![c] = r] /\ c \notin Linked /\ UNCHANGED <<ctx, ssl, fd>>
  BY DEF CreateContext
<1>2. r \in ContextRecords /\ r.kind = "plain" /\ r.ssl_context = NULL /\ r.sni = NewTree
  BY FreeContextTyped DEF ContextRecords
<1>3. ctx' \in [SslCtxs -> CtxRecords]
  BY <1>1 DEF ContextsOK, Typed
<1> HIDE DEF r
<1>. QED BY <1>1, <1>2, <1>3, CreatedContextOK

(* So does making a child, which shares the SSL_CTX of its parent.            *)
LEMMA CreateChildOK ==
  ASSUME ContextsOK, NEW c \in Contexts, NEW p \in Contexts, CreateChild(c, p)
  PROVE  /\ ContextsOK' /\ c \notin Linked /\ context'[c].kind = "child"
         /\ \A b \in Contexts : b # c => context'[b] = context[b]
<1> DEFINE r == [FreeContext EXCEPT !.kind = "child", !.ssl_context = context[p].ssl_context]
<1>1. /\ context' = [context EXCEPT ![c] = r] /\ c \notin Linked /\ p \in Parents
      /\ UNCHANGED <<ctx, ssl, fd>>
  BY DEF CreateChild
<1>2. ctx' \in [SslCtxs -> CtxRecords] /\ context[p].ssl_context \in SslCtxs \cup {NULL}
  BY <1>1, ContextTyped DEF ContextsOK, Typed
<1>3. r \in ContextRecords /\ r.kind = "child" /\ r.ssl_context = context[p].ssl_context /\ r.sni = NewTree
  BY <1>2, FreeContextTyped DEF ContextRecords
<1> HIDE DEF r
<1>. QED BY <1>1, <1>2, <1>3, CreatedContextOK

(* And making a parent, unless an option fails.                               *)
LEMMA CreateSslContextOK ==
  ASSUME ContextsOK, NEW c \in Contexts, NEW x \in SslCtxs, NEW o \in SomeOptions, CreateSslContext(c, x, o)
  PROVE  /\ ContextsOK' /\ c \notin Linked
         /\ ~o.valid => UNCHANGED context
         /\ o.valid => /\ context'[c].kind = "parent" /\ context'[c].ssl_context = x /\ context'[c].sni = NewTree
                       /\ \A b \in Contexts : b # c => context'[b] = context[b]
<1>1. c \notin Linked /\ UNCHANGED <<ssl, fd>> /\ ctx' = FromOptions(ctx, x, o)
  BY DEF CreateSslContext
<1>2. ctx' \in [SslCtxs -> CtxRecords]
  BY <1>1, FromOptionsChange DEF ContextsOK, Typed
<1>3. CASE o.valid
  <2> DEFINE r == [FreeContext EXCEPT !.kind = "parent", !.ssl_context = x]
  <2>1. context' = [context EXCEPT ![c] = r]
    BY <1>3 DEF CreateSslContext
  <2>2. r \in ContextRecords /\ r.kind = "parent" /\ r.ssl_context = x /\ r.sni = NewTree
    BY FreeContextTyped DEF ContextRecords
  <2> HIDE DEF r
  <2>. QED BY <2>1, <2>2, <1>1, <1>2, <1>3, CreatedContextOK
<1>4. CASE ~o.valid
  <2>1. UNCHANGED context
    BY <1>4 DEF CreateSslContext
  <2>. QED BY <2>1, <1>1, <1>2, <1>4, KeptOK
<1>. QED BY <1>3, <1>4

(* Adding a server name changes the tree of its context only.                 *)
LEMMA AddServerNameOK ==
  ASSUME ContextsOK, NEW c \in Contexts, NEW x \in SslCtxs, NEW o \in SomeOptions, NEW name \in Names,
         AddServerName(c, name, x, o)
  PROVE  /\ ContextsOK' /\ c \in Parents
         /\ ~o.valid => UNCHANGED context
         /\ o.valid => /\ KindsKept /\ context'[c].sni = AddName(context[c].sni, name, x)
                       /\ \A b \in Contexts : b # c => context'[b] = context[b]
<1> DEFINE made == FromOptions(ctx, x, o)
           t == AddName(context[c].sni, name, x)
<1>1. c \in Parents /\ UNCHANGED <<ssl, fd>>
  BY DEF AddServerName
<1>2. made \in [SslCtxs -> CtxRecords]
  BY FromOptionsChange DEF ContextsOK, Typed
<1>3. FreeSslContext(made, x) \in [SslCtxs -> CtxRecords]
  <2> HIDE DEF made
  <2>. QED BY <1>2, CtxChange
<1>4. TreeOK(t)
  <2>1. TreeOK(context[c].sni)
    BY ContextTyped DEF ContextsOK
  <2>. QED BY <2>1, AddNameOK, NamesAreNames
<1>5. CASE o.valid
  <2>1. ctx' = (IF Taken(context[c].sni, name) THEN FreeSslContext(made, x) ELSE made)
        /\ context' = [context EXCEPT ![c].sni = t]
    BY <1>5 DEF AddServerName
  <2> HIDE DEF made, t
  <2>2. ctx' \in [SslCtxs -> CtxRecords]
    BY <2>1, <1>2, <1>3
  <2>3. /\ ContextsOK' /\ KindsKept /\ context'[c].sni = t
        /\ \A b \in Contexts : b # c => context'[b] = context[b]
    BY <2>1, <2>2, <1>1, <1>4, TreeChangedOK
  <2>. QED BY <2>3, <1>1, <1>5 DEF t
<1>6. CASE ~o.valid
  <2>1. UNCHANGED context /\ ctx' = made
    BY <1>6 DEF AddServerName
  <2> HIDE DEF made
  <2>. QED BY <2>1, <1>1, <1>2, <1>6, KeptOK
<1>. QED BY <1>5, <1>6

(* So does removing one.                                                      *)
LEMMA RemoveServerNameOK ==
  ASSUME ContextsOK, NEW c \in Contexts, NEW name \in Names, RemoveServerName(c, name)
  PROVE  /\ ContextsOK' /\ c \in Parents /\ KindsKept
         /\ context'[c].sni = RemoveName(context[c].sni, name)
         /\ \A b \in Contexts : b # c => context'[b] = context[b]
<1> DEFINE t == RemoveName(context[c].sni, name)
<1>1. /\ c \in Parents /\ UNCHANGED <<ssl, fd>> /\ context' = [context EXCEPT ![c].sni = t]
      /\ ctx' = FreeSslContext(ctx, Removed(context[c].sni, name))
  BY DEF RemoveServerName
<1>2. ctx' \in [SslCtxs -> CtxRecords]
  BY <1>1, CtxChange DEF ContextsOK, Typed
<1>3. TreeOK(t)
  <2>1. TreeOK(context[c].sni)
    BY ContextTyped DEF ContextsOK
  <2>2. CASE TooLong(name)
    BY <2>1, <2>2 DEF RemoveName
  <2>3. CASE ~TooLong(name)
    BY <2>1, <2>3, RemoveNameOK, NamesAreNames
  <2>. QED BY <2>2, <2>3
<1> HIDE DEF t
<1>4. /\ ContextsOK' /\ KindsKept /\ context'[c].sni = t
      /\ \A b \in Contexts : b # c => context'[b] = context[b]
  BY <1>1, <1>2, <1>3, TreeChangedOK
<1>. QED BY <1>1, <1>4 DEF t

(* At most one SSL moves from one SSL_CTX to another, and the counts follow.   *)
UserMoves(h) ==
  /\ UNCHANGED context
  /\ \A g \in Handshakes : g # h => ssl'[g] = ssl[g]
  /\ \A y \in SslCtxs :
       /\ ctx'[y].refs = ctx[y].refs + (IF y = ssl'[h].ctx THEN 1 ELSE 0)
                                     - (IF y = ssl[h].ctx THEN 1 ELSE 0)
       /\ ctx'[y].password = ctx[y].password

(* An SSL that keeps its SSL_CTX moves nowhere.                               *)
LEMMA UserStays ==
  ASSUME ContextsOK, NEW h \in Handshakes, NEW r \in SslRecords, ssl' = [ssl EXCEPT ![h] = r],
         r.ctx = ssl[h].ctx, UNCHANGED <<context, ctx>>
  PROVE  UserMoves(h)
<1>1. ssl'[h] = r /\ \A g \in Handshakes : g # h => ssl'[g] = ssl[g]
  BY DEF ContextsOK, Typed
<1>2. \A y \in SslCtxs : ctx[y].refs \in Int
  BY DEF ContextsOK, Typed, CtxRecords
<1>3. \A y \in SslCtxs : ctx'[y].refs = ctx[y].refs + (IF y = ssl'[h].ctx THEN 1 ELSE 0)
                                                    - (IF y = ssl[h].ctx THEN 1 ELSE 0)
  <2> SUFFICES ASSUME NEW y \in SslCtxs
               PROVE  ctx'[y].refs = ctx[y].refs + (IF y = ssl'[h].ctx THEN 1 ELSE 0)
                                                 - (IF y = ssl[h].ctx THEN 1 ELSE 0)
    OBVIOUS
  <2>1. ctx'[y].refs = ctx[y].refs /\ ssl'[h].ctx = ssl[h].ctx
    BY <1>1
  <2>2. CASE y = ssl[h].ctx
    BY <1>2, <2>1, <2>2
  <2>3. CASE y # ssl[h].ctx
    BY <1>2, <2>1, <2>3
  <2>. QED BY <2>2, <2>3
<1>. QED BY <1>1, <1>3 DEF UserMoves

(* sni_cb takes a reference to what was found before it drops the old one.    *)
LEMMA ResolveOK ==
  ASSUME ContextsOK, NEW h \in Handshakes, ssl[h].of # NULL, NEW x \in SslCtxs \cup {NULL}, Resolve(h, x),
         UNCHANGED <<context, fd>>
  PROVE  ContextsOK' /\ UserMoves(h)
<1>1. Typed /\ ssl[h] \in SslRecords /\ ssl[h].of \in Parents
  BY DEF ContextsOK, Typed, UseOK
<1>2. ctx \in [SslCtxs -> CtxRecords] /\ \A y \in SslCtxs : ctx[y].refs \in Int
  BY <1>1 DEF Typed, CtxRecords
<1>3. CASE x = NULL
  <2> DEFINE r == [ssl[h] EXCEPT !.asks = <<>>]
  <2>1. r \in SslRecords /\ r.of = ssl[h].of /\ r.ctx = ssl[h].ctx
    BY <1>1 DEF SslRecords
  <2>2. ssl' = [ssl EXCEPT ![h] = r] /\ UNCHANGED ctx
    BY <1>3 DEF Resolve
  <2> HIDE DEF r
  <2>. QED BY <1>1, <1>2, <2>1, <2>2, SslChangedOK, UserStays
<1>4. CASE x # NULL
  <2> DEFINE r == [ssl[h] EXCEPT !.ctx = x, !.asks = <<>>]
             u == Refer(ctx, x)
  <2>1. r \in SslRecords /\ r.of = ssl[h].of /\ r.ctx = x
    BY <1>1 DEF SslRecords
  <2>2. ssl' = [ssl EXCEPT ![h] = r]
    BY <1>4 DEF Resolve
  <2>3. ctx' = Unrefer(u, ssl[h].ctx)
    BY <1>4 DEF Resolve
  <2>4. /\ u \in [SslCtxs -> CtxRecords]
        /\ \A y \in SslCtxs : u[y] = IF y = x THEN [refs |-> ctx[y].refs + 1, password |-> ctx[y].password] ELSE ctx[y]
    BY <1>2, CtxChange
  <2> HIDE DEF r, u
  <2>5. /\ ctx' \in [SslCtxs -> CtxRecords]
        /\ \A y \in SslCtxs : ctx'[y] =
             IF y = ssl[h].ctx THEN [refs |-> u[y].refs - 1, password |-> u[y].password] ELSE u[y]
    BY <2>3, <2>4, CtxChange
  <2>6. /\ ContextsOK' /\ ssl'[h] = r
        /\ \A g \in Handshakes : g # h => ssl'[g] = ssl[g]
    BY <1>1, <2>1, <2>2, <2>5, SslChangedOK
  <2>7. ASSUME NEW y \in SslCtxs
        PROVE  /\ ctx'[y].refs = ctx[y].refs + (IF y = ssl'[h].ctx THEN 1 ELSE 0)
                                             - (IF y = ssl[h].ctx THEN 1 ELSE 0)
               /\ ctx'[y].password = ctx[y].password
    <3>1. /\ u[y].refs = ctx[y].refs + (IF y = x THEN 1 ELSE 0)
          /\ u[y].password = ctx[y].password
      BY <1>2, <2>4
    <3>2. u[y].refs \in Int
      BY <2>4 DEF CtxRecords
    <3>3. /\ ctx'[y].refs = u[y].refs - (IF y = ssl[h].ctx THEN 1 ELSE 0)
          /\ ctx'[y].password = u[y].password
      BY <2>5, <3>2
    <3>4. ssl'[h].ctx = x
      BY <2>1, <2>6
    <3>5. ctx'[y].refs = ctx[y].refs + (IF y = x THEN 1 ELSE 0) - (IF y = ssl[h].ctx THEN 1 ELSE 0)
      <4> DEFINE n == ctx[y].refs
                 d == IF y = x THEN 1 ELSE 0
                 e == IF y = ssl[h].ctx THEN 1 ELSE 0
      <4>1. n \in Int /\ d \in Int /\ e \in Int
        BY <1>2
      <4>2. u[y].refs = n + d /\ ctx'[y].refs = u[y].refs - e
        BY <3>1, <3>3
      <4> HIDE DEF n, d, e
      <4>3. ctx'[y].refs = n + d - e
        BY <4>1, <4>2
      <4>. QED BY <4>3 DEF n, d, e
    <3>. QED BY <3>1, <3>3, <3>4, <3>5
  <2>. QED BY <2>6, <2>7 DEF UserMoves
<1>. QED BY <1>3, <1>4

(* A lookup moves the SSL, asks the application, or leaves it.                *)
LEMMA ClientHelloOK ==
  ASSUME ContextsOK, NEW h \in Handshakes, NEW name \in Hellos, ClientHello(h, name)
  PROVE  ContextsOK' /\ UserMoves(h)
<1>1. Typed /\ ssl[h] \in SslRecords /\ ssl[h].of \in Parents /\ ssl[h].of \in Contexts
      /\ ssl[h].of # NULL /\ UNCHANGED <<context, fd>>
  BY DEF ContextsOK, Typed, UseOK, ClientHello, Parents
<1> DEFINE found == FindName(context[ssl[h].of].sni, name)
<1>2. found \in SslCtxs \cup {NULL}
  BY <1>1, ContextTyped, FoundIsCtx
<1>3. \/ UNCHANGED <<ssl, ctx>>
      \/ found # NULL /\ Resolve(h, found)
      \/ ssl' = [ssl EXCEPT ![h].asks = name] /\ UNCHANGED ctx
  BY DEF ClientHello
<1> HIDE DEF found
<1>4. ctx \in [SslCtxs -> CtxRecords]
  BY <1>1 DEF Typed
<1>5. CASE UNCHANGED <<ssl, ctx>>
  <2>1. ssl' = [ssl EXCEPT ![h] = ssl[h]]
    BY <1>1, <1>5 DEF Typed
  <2>. QED BY <2>1, <1>1, <1>4, <1>5, KeptOK, UserStays
<1>6. CASE found # NULL /\ Resolve(h, found)
  BY <1>1, <1>2, <1>6, ResolveOK
<1>7. CASE ssl' = [ssl EXCEPT ![h].asks = name] /\ UNCHANGED ctx
  <2> DEFINE r == [ssl[h] EXCEPT !.asks = name]
  <2>1. r \in SslRecords /\ r.of = ssl[h].of /\ r.ctx = ssl[h].ctx
    BY <1>1 DEF SslRecords
  <2>2. ssl' = [ssl EXCEPT ![h] = r] /\ UNCHANGED ctx
    BY <1>7
  <2> HIDE DEF r
  <2>. QED BY <1>1, <1>4, <2>1, <2>2, SslChangedOK, UserStays
<1>. QED BY <1>3, <1>5, <1>6, <1>7

(* So does the second lookup.                                                 *)
LEMMA RetryOK ==
  ASSUME ContextsOK, NEW h \in Handshakes, Retry(h)
  PROVE  ContextsOK' /\ UserMoves(h)
<1>1. Typed /\ ssl[h] \in SslRecords /\ ssl[h].asks # <<>> /\ UNCHANGED <<context, fd>>
  BY DEF ContextsOK, Typed, Retry, Asking
<1>2. ssl[h].of # NULL
  BY <1>1 DEF ContextsOK, UseOK, FreeSsl
<1>3. ssl[h].of \in Parents /\ ssl[h].of \in Contexts
  BY <1>2 DEF ContextsOK, UseOK, Parents
<1>4. ssl[h].asks \in Hellos
  BY <1>1 DEF SslRecords
<1> DEFINE found == FindName(context[ssl[h].of].sni, ssl[h].asks)
<1>5. found \in SslCtxs \cup {NULL}
  BY <1>1, <1>3, <1>4, ContextTyped, FoundIsCtx
<1>6. Resolve(h, found)
  BY DEF Retry
<1> HIDE DEF found
<1>. QED BY <1>1, <1>2, <1>5, <1>6, ResolveOK

(* An SSL that is made refers to the SSL_CTX of its context.                  *)
LEMMA OpenOK ==
  ASSUME ContextsOK, NEW h \in Handshakes, NEW d \in Descriptors, Open(h, d)
  PROVE  ContextsOK' /\ UserMoves(h)
<1> DEFINE c == fd[d].of
           x == context[c].ssl_context
           r == [of |-> c, ctx |-> x, asks |-> <<>>]
<1>1. /\ Typed /\ ssl[h] = FreeSsl /\ c \in Parents /\ c \in Contexts /\ UNCHANGED <<context, fd>>
      /\ ssl' = [ssl EXCEPT ![h] = r] /\ ctx' = Refer(ctx, x)
  BY DEF ContextsOK, Typed, Open, Parents
<1>2. x \in SslCtxs
  BY <1>1 DEF ContextsOK, KindOK, Parents
<1>3. r \in SslRecords /\ r.of # NULL /\ r.of \in Parents /\ r.ctx = x
  BY <1>1, <1>2, ContextsAssumption DEF SslRecords
<1> HIDE DEF r, x
<1>4. ctx \in [SslCtxs -> CtxRecords] /\ \A y \in SslCtxs : ctx[y].refs \in Int
  BY <1>1 DEF Typed, CtxRecords
<1>5. /\ ctx' \in [SslCtxs -> CtxRecords]
      /\ \A y \in SslCtxs : ctx'[y] = IF y = x THEN [refs |-> ctx[y].refs + 1, password |-> ctx[y].password] ELSE ctx[y]
  BY <1>1, <1>4, CtxChange
<1>6. /\ ContextsOK' /\ ssl'[h] = r
      /\ \A g \in Handshakes : g # h => ssl'[g] = ssl[g]
  BY <1>1, <1>3, <1>5, SslChangedOK
<1>7. ssl[h].ctx = NULL /\ ssl'[h].ctx = x
  BY <1>1, <1>3, <1>6 DEF FreeSsl
<1>8. ASSUME NEW y \in SslCtxs
      PROVE  /\ ctx'[y].refs = ctx[y].refs + (IF y = ssl'[h].ctx THEN 1 ELSE 0)
                                           - (IF y = ssl[h].ctx THEN 1 ELSE 0)
             /\ ctx'[y].password = ctx[y].password
  <2>1. y # NULL
    BY ContextsAssumption
  <2>. QED BY <2>1, <1>4, <1>5, <1>7
<1>. QED BY <1>1, <1>6, <1>8 DEF UserMoves

(* And gives the reference up when it closes.                                 *)
LEMMA CloseSslOK ==
  ASSUME ContextsOK, NEW h \in Handshakes, CloseSsl(h)
  PROVE  ContextsOK' /\ UserMoves(h)
<1>1. /\ Typed /\ UNCHANGED <<context, fd>>
      /\ ssl' = [ssl EXCEPT ![h] = FreeSsl] /\ ctx' = Unrefer(ctx, ssl[h].ctx)
  BY DEF ContextsOK, CloseSsl
<1>2. FreeSsl \in SslRecords /\ FreeSsl.of = NULL /\ FreeSsl.ctx = NULL
  BY DEF SslRecords, FreeSsl
<1>4. ctx \in [SslCtxs -> CtxRecords] /\ \A y \in SslCtxs : ctx[y].refs \in Int
  BY <1>1 DEF Typed, CtxRecords
<1>5. /\ ctx' \in [SslCtxs -> CtxRecords]
      /\ \A y \in SslCtxs : ctx'[y] =
           IF y = ssl[h].ctx THEN [refs |-> ctx[y].refs - 1, password |-> ctx[y].password] ELSE ctx[y]
  BY <1>1, <1>4, CtxChange
<1>6. /\ ContextsOK' /\ ssl'[h] = FreeSsl
      /\ \A g \in Handshakes : g # h => ssl'[g] = ssl[g]
  BY <1>1, <1>2, <1>5, SslChangedOK
<1>8. ASSUME NEW y \in SslCtxs
      PROVE  /\ ctx'[y].refs = ctx[y].refs + (IF y = ssl'[h].ctx THEN 1 ELSE 0)
                                           - (IF y = ssl[h].ctx THEN 1 ELSE 0)
             /\ ctx'[y].password = ctx[y].password
  <2>1. y # NULL /\ ssl'[h].ctx = NULL
    BY <1>2, <1>6, ContextsAssumption
  <2>. QED BY <2>1, <1>4, <1>5
<1>. QED BY <1>1, <1>6, <1>8 DEF UserMoves

(* A socket that is made is of a context that is there.                       *)
LEMMA MakeOK ==
  ASSUME ContextsOK, NEW c \in Contexts, NEW d \in Descriptors, NEW r, r.fd \in BOOLEAN,
         NEW kind \in {"listen", "connect"}, Make(c, d, r, kind)
  PROVE  ContextsOK'
<1>1. Typed /\ c \in Linked /\ c # NULL /\ UNCHANGED <<context, ctx, ssl>>
  BY ContextsAssumption DEF ContextsOK, Make
<1>2. CASE r.fd
  <2> DEFINE q == [of |-> c, kind |-> kind]
  <2>1. fd' = [fd EXCEPT ![d] = q]
    BY <1>2 DEF Make
  <2>2. q \in FdRecords /\ q.of = c
    BY DEF FdRecords
  <2> HIDE DEF q
  <2>. QED BY <2>1, <2>2, <1>1, FdChangedOK
<1>3. CASE ~r.fd
  <2>1. fd' = fd
    BY <1>3 DEF Make
  <2>. QED BY <2>1, <1>1, KeptOK DEF Typed
<1>. QED BY <1>2, <1>3

(* A socket that is closed is of none.                                        *)
LEMMA CloseSocketOK ==
  ASSUME ContextsOK, NEW d \in Descriptors, CloseSocket(d)
  PROVE  ContextsOK'
<1>1. fd' = [fd EXCEPT ![d] = FreeFd] /\ UNCHANGED <<context, ctx, ssl>>
  BY DEF CloseSocket
<1>2. FreeFd \in FdRecords /\ FreeFd.of = NULL
  BY DEF FdRecords, FreeFd
<1>. QED BY <1>1, <1>2, FdChangedOK

(* The calls that make a socket are all Make.                                 *)
MakesSocket(c, d) ==
  \E y \in SomeReplies : Listen(c, d, y) \/ ListenUnix(c, d, y) \/ Connect(c, d, y) \/ ConnectUnix(c, d, y)

(* What they answer has a descriptor exactly if it left one open.             *)
LEMMA MakesAre ==
  ASSUME NEW c \in Contexts, NEW d \in Descriptors, MakesSocket(c, d)
  PROVE  \E r, kind : /\ Make(c, d, r, kind) /\ kind \in {"listen", "connect"}
                      /\ r.fd \in BOOLEAN /\ r.open = (IF r.fd THEN 1 ELSE 0) /\ r.lists = 0
<1>1. PICK y \in SomeReplies : Listen(c, d, y) \/ ListenUnix(c, d, y) \/ Connect(c, d, y) \/ ConnectUnix(c, d, y)
  BY DEF MakesSocket
<1>2. \A r \in {Listening(y), ListeningUnix(y), Connecting(y), ConnectingUnix(y)} :
        r.fd \in BOOLEAN /\ r.open = (IF r.fd THEN 1 ELSE 0) /\ r.lists = 0
  BY RepliesClean
<1>. QED BY <1>1, <1>2 DEF Listen, ListenUnix, Connect, ConnectUnix

(* The steps, by name.                                                        *)
LEMMA Steps ==
  ASSUME Next
  PROVE  \/ \E c \in Contexts : CreateContext(c)
         \/ \E c \in Contexts : Free(c)
         \/ \E c \in Contexts : OnServerName(c)
         \/ \E c, p \in Contexts : CreateChild(c, p)
         \/ \E c \in Contexts, x \in SslCtxs, o \in SomeOptions : CreateSslContext(c, x, o)
         \/ \E c \in Contexts, x \in SslCtxs, o \in SomeOptions, name \in Names : AddServerName(c, name, x, o)
         \/ \E c \in Contexts, name \in Names : RemoveServerName(c, name)
         \/ \E c \in Contexts, d \in Descriptors : MakesSocket(c, d)
         \/ \E h \in Handshakes : Retry(h)
         \/ \E h \in Handshakes : CloseSsl(h)
         \/ \E h \in Handshakes, name \in Hellos : ClientHello(h, name)
         \/ \E h \in Handshakes, d \in Descriptors : Open(h, d)
         \/ \E d \in Descriptors : CloseSocket(d)
         \/ TimerSweep
         \/ SweepNext
BY DEF Next, MakesSocket

(* Every step keeps the types and who belongs to whom.                        *)
LEMMA ContextsStep ==
  ASSUME ContextsOK, [Next]_vars
  PROVE  ContextsOK'
<1>1. CASE UNCHANGED vars \/ TimerSweep \/ SweepNext
  <2>1. UNCHANGED <<context, ctx, ssl, fd>>
    BY <1>1 DEF vars, TimerSweep, SweepNext, SweepTo
  <2>. QED BY <2>1, KeptOK DEF ContextsOK, Typed
<1>2. CASE Next
  <2>1. ASSUME NEW c \in Contexts, CreateContext(c) \/ Free(c) \/ OnServerName(c) PROVE ContextsOK'
    BY <2>1, CreateContextOK, FreedContextOK, OnServerNameOK
  <2>2. ASSUME NEW c \in Contexts, NEW p \in Contexts, CreateChild(c, p) PROVE ContextsOK'
    BY <2>2, CreateChildOK
  <2>3. ASSUME NEW c \in Contexts, NEW x \in SslCtxs, NEW o \in SomeOptions, CreateSslContext(c, x, o)
        PROVE  ContextsOK'
    BY <2>3, CreateSslContextOK
  <2>4. ASSUME NEW c \in Contexts, NEW x \in SslCtxs, NEW o \in SomeOptions, NEW name \in Names,
               AddServerName(c, name, x, o)
        PROVE  ContextsOK'
    BY <2>4, AddServerNameOK
  <2>5. ASSUME NEW c \in Contexts, NEW name \in Names, RemoveServerName(c, name) PROVE ContextsOK'
    BY <2>5, RemoveServerNameOK
  <2>6. ASSUME NEW c \in Contexts, NEW d \in Descriptors, MakesSocket(c, d) PROVE ContextsOK'
    BY <2>6, MakesAre, MakeOK
  <2>7. ASSUME NEW h \in Handshakes, Retry(h) \/ CloseSsl(h) PROVE ContextsOK'
    BY <2>7, RetryOK, CloseSslOK
  <2>8. ASSUME NEW h \in Handshakes, NEW name \in Hellos, ClientHello(h, name) PROVE ContextsOK'
    BY <2>8, ClientHelloOK
  <2>9. ASSUME NEW h \in Handshakes, NEW d \in Descriptors, Open(h, d) PROVE ContextsOK'
    BY <2>9, OpenOK
  <2>10. ASSUME NEW d \in Descriptors, CloseSocket(d) PROVE ContextsOK'
    BY <2>10, CloseSocketOK
  <2>. QED BY <1>1, <1>2, <2>1, <2>2, <2>3, <2>4, <2>5, <2>6, <2>7, <2>8, <2>9, <2>10, Steps
<1>. QED BY <1>1, <1>2

(* So they always hold.                                                       *)
LEMMA ContextsAlwaysOK == Spec => []ContextsOK
<1>1. Init => ContextsOK
  BY InitContextsOK
<1>2. ContextsOK /\ [Next]_vars => ContextsOK'
  BY ContextsStep
<1>. QED BY <1>1, <1>2, PTL DEF Spec

(* Every lookup answers with the name that matches best, and no node of a tree *)
(* is left behind (sni_find, sni_remove): for any names.                      *)
THEOREM LookupsAreBest == Spec => []LooksUpBest
<1>1. ContextsOK => LooksUpBest
  <2> SUFFICES ASSUME ContextsOK, NEW c \in Parents PROVE
         LET tree == context[c].sni
         IN /\ \A name \in Names \cup Hellos : FindName(tree, name) = Answer(tree, name)
            /\ \A p \in DOMAIN tree \ {<<>>} :
                 \E q \in DOMAIN tree : IsPrefix(p, q) /\ tree[q] # NULL
    BY DEF LooksUpBest
  <2>1. TreeOK(context[c].sni)
    BY ContextTyped DEF ContextsOK, Parents
  <2>2. \A name \in Names \cup Hellos : FindName(context[c].sni, name) = Answer(context[c].sni, name)
    BY <2>1, FindNameIsAnswer, NamesAreNames DEF TreeOK
  <2>. QED BY <2>1, <2>2 DEF TreeOK, Leads
<1>. QED BY <1>1, ContextsAlwaysOK, PTL

-----------------------------------------------------------------------------
(* Descriptors.                                                              *)

(* Whatever call fails, what stays open are the descriptors of the sockets     *)
(* that were returned (bsd.c).                                                *)
THEOREM NothingStaysOpen ==
  ASSUME IsFiniteSet(Descriptors)
  PROVE  Spec => []NothingLeftOpen
<1> DEFINE OpenFds == {d \in Descriptors : fd[d] # FreeFd}
<1>1. Init => NothingLeftOpen /\ system = [open |-> 0, lists |-> 0]
  <2> SUFFICES ASSUME Init PROVE NothingLeftOpen
    BY DEF Init
  <2>1. {d \in Descriptors : fd[d] # FreeFd} = {} /\ system.open = 0 /\ system.lists = 0
    BY DEF Init
  <2>. QED BY <2>1, FS_EmptySet DEF NothingLeftOpen
<1> DEFINE SystemOK == system = [open |-> system.open, lists |-> system.lists]
<1>2. Init => SystemOK
  BY DEF Init
<1>3. ASSUME ContextsOK, SystemOK, NothingLeftOpen, [Next]_vars PROVE SystemOK' /\ NothingLeftOpen'
  <2> DEFINE U == {d \in Descriptors : fd[d] # FreeFd}
  <2>1. IsFiniteSet(U) /\ Cardinality(U) \in Nat /\ system.open = Cardinality(U) /\ system.lists = 0
    <3>1. U \subseteq Descriptors
      OBVIOUS
    <3>2. IsFiniteSet(U)
      BY <3>1, FS_Subset
    <3>. QED BY <3>2, <1>3, FS_CardinalityType DEF NothingLeftOpen
  <2>2. ASSUME UNCHANGED <<fd, system>> PROVE SystemOK' /\ NothingLeftOpen'
    BY <1>3, <2>2 DEF NothingLeftOpen
  <2>3. ASSUME NEW c \in Contexts, NEW d \in Descriptors, MakesSocket(c, d) PROVE SystemOK' /\ NothingLeftOpen'
    <3>1. PICK r, kind : /\ Make(c, d, r, kind)
                         /\ r.fd \in BOOLEAN /\ r.open = (IF r.fd THEN 1 ELSE 0) /\ r.lists = 0
      BY <2>3, MakesAre
    <3>2. /\ system' = [open |-> system.open + r.open, lists |-> system.lists + r.lists]
          /\ fd' = (IF r.fd THEN [fd EXCEPT ![d] = [of |-> c, kind |-> kind]] ELSE fd)
          /\ fd[d] = FreeFd
      BY <3>1 DEF Make
    <3>3. system'.open = system.open + r.open /\ system'.lists = 0 /\ SystemOK'
      BY <3>1, <3>2, <2>1
    <3>4. CASE ~r.fd
      <4>1. fd' = fd /\ system'.open = system.open
        BY <3>1, <3>2, <3>3, <3>4, <2>1
      <4>. QED BY <4>1, <3>3, <1>3 DEF NothingLeftOpen
    <3>5. CASE r.fd
      <4>1. {e \in Descriptors : fd'[e] # FreeFd} = U \cup {d} /\ d \notin U
        <5>1. fd' = [fd EXCEPT ![d] = [of |-> c, kind |-> kind]]
          BY <3>2, <3>5
        <5>2. [of |-> c, kind |-> kind] # FreeFd
          <6>1. c # NULL
            BY ContextsAssumption
          <6>. QED BY <6>1 DEF FreeFd
        <5>. QED BY <5>1, <5>2, <3>2, <1>3 DEF ContextsOK, Typed
      <4>2. Cardinality(U \cup {d}) = Cardinality(U) + 1
        BY <4>1, <2>1, FS_AddElement
      <4>. QED BY <4>1, <4>2, <3>1, <3>3, <3>5, <2>1 DEF NothingLeftOpen
    <3>. QED BY <3>1, <3>4, <3>5
  <2>4. ASSUME NEW d \in Descriptors, CloseSocket(d) PROVE SystemOK' /\ NothingLeftOpen'
    <3>1. fd[d] # FreeFd /\ fd' = [fd EXCEPT ![d] = FreeFd] /\ system' = [system EXCEPT !.open = @ - 1]
      BY <2>4 DEF CloseSocket
    <3>2. system'.open = system.open - 1 /\ system'.lists = 0 /\ SystemOK'
      BY <3>1, <2>1, <1>3
    <3>3. {e \in Descriptors : fd'[e] # FreeFd} = U \ {d} /\ d \in U
      BY <3>1, <1>3 DEF ContextsOK, Typed
    <3>4. Cardinality(U \ {d}) = Cardinality(U) - 1
      BY <3>3, <2>1, FS_RemoveElement
    <3>. QED BY <3>2, <3>3, <3>4, <2>1 DEF NothingLeftOpen
  <2>5. UNCHANGED vars => UNCHANGED <<fd, system>>
    BY DEF vars
  <2>6. CASE Next
    <3>1. \/ UNCHANGED <<fd, system>>
          \/ \E c \in Contexts, d \in Descriptors : MakesSocket(c, d)
          \/ \E d \in Descriptors : CloseSocket(d)
      BY <2>6, Steps DEF CreateContext, Free, OnServerName, CreateChild, CreateSslContext, AddServerName,
                         RemoveServerName, Retry, CloseSsl, ClientHello, Open, TimerSweep, SweepNext, SweepTo
    <3>. QED BY <3>1, <2>2, <2>3, <2>4
  <2>. QED BY <1>3, <2>2, <2>5, <2>6
<1>4. Init => NothingLeftOpen /\ SystemOK
  BY <1>1, <1>2
<1> HIDE DEF SystemOK
<1>. QED BY <1>3, <1>4, ContextsAlwaysOK, PTL DEF Spec

-----------------------------------------------------------------------------
(* Who owns what after a step.                                               *)

(* Owners stay when the parents keep what they have.                          *)
ParentsKept ==
  /\ Parents' = Parents
  /\ \A b \in Parents : /\ context'[b].ssl_context = context[b].ssl_context
                        /\ context'[b].sni = context[b].sni

(* Then each SSL_CTX has the owner it had.                                    *)
LEMMA OwnersSame ==
  ASSUME ParentsKept
  PROVE  (OneOwner => OneOwner') /\ \A y : Owned(y)' <=> Owned(y)
<1>1. \A y : \A b \in Parents : OwnedBy(y, b)' <=> OwnedBy(y, b)
  BY DEF ParentsKept, OwnedBy
<1>2. \A y : Owned(y)' <=> Owned(y)
  BY <1>1 DEF ParentsKept, Owned
<1>3. OneOwner => OneOwner'
  BY DEF ParentsKept, OneOwner
<1>. QED BY <1>2, <1>3

(* And the counts that were right are right.                                  *)
LEMMA OwnersSameCounted ==
  ASSUME IsFiniteSet(Handshakes), OneOwner, AllCounted, Typed, ParentsKept, UNCHANGED <<ctx, ssl>>
  PROVE  OneOwner' /\ AllCounted'
<1>1. OneOwner' /\ \A y : Owned(y)' <=> Owned(y)
  BY OwnersSame
<1>2. ASSUME NEW y \in SslCtxs PROVE Counted(y)'
  BY <1>1 DEF AllCounted, Counted, Users
<1>. QED BY <1>1, <1>2 DEF AllCounted

(* The invariant is what the property says of owners and users.               *)
LEMMA OwnersCounted ==
  ASSUME OneOwner, Typed, NEW x \in SslCtxs
  PROVE  Cardinality(Owners(x)) = (IF Owned(x) THEN 1 ELSE 0) /\ (Owned(x) <=> Owners(x) # {})
<1> DEFINE first == {<<c, "own">> : c \in {c \in Parents : context[c].ssl_context = x}}
           of(c) == {<<c, p>> : p \in {p \in DOMAIN context[c].sni : context[c].sni[p] = x}}
           second == UNION {of(c) : c \in Parents}
<1>1. Owners(x) = first \cup second
  BY DEF Owners
<1>2. x # NULL
  BY ContextsAssumption
<1>3. CASE ~Owned(x)
  <2>1. first = {} /\ second = {}
    BY <1>3 DEF Owned, OwnedBy
  <2>2. Owners(x) = {}
    BY <1>1, <2>1
  <2>. QED BY <2>2, <1>3, FS_EmptySet
<1>4. CASE Owned(x)
  <2>1. \E e : Owners(x) = {e}
    <3>1. PICK c \in Parents : OwnedBy(x, c)
      BY <1>4 DEF Owned
    <3>2. CASE context[c].ssl_context = x
      <4>1. \A b \in Parents : context[b].ssl_context = x => b = c
        BY <3>1, <3>2 DEF OneOwner
      <4>2. \A b \in Parents : \A p \in DOMAIN context[b].sni : context[b].sni[p] # x
        BY <3>1, <3>2 DEF OneOwner
      <4>3. first = {<<c, "own">>}
        BY <3>1, <3>2, <4>1
      <4>4. second = {}
        BY <4>2
      <4>. QED BY <1>1, <4>3, <4>4
    <3>3. CASE context[c].ssl_context # x
      <4>1. PICK p \in DOMAIN context[c].sni : context[c].sni[p] = x
        BY <3>1, <3>3 DEF OwnedBy
      <4>2. \A b \in Parents : context[b].ssl_context # x
        BY <4>1, <3>1 DEF OneOwner
      <4>3. \A b \in Parents : \A q \in DOMAIN context[b].sni : context[b].sni[q] = x => b = c /\ q = p
        BY <4>1, <3>1, <1>2 DEF OneOwner
      <4>4. first = {}
        BY <4>2
      <4>5. second = {<<c, p>>}
        BY <3>1, <4>1, <4>3
      <4>. QED BY <1>1, <4>4, <4>5
    <3>. QED BY <3>2, <3>3
  <2>. QED BY <2>1, <1>4, FS_Singleton
<1>. QED BY <1>3, <1>4

(* One owner, counted once, is what ReferencesCounted asks for; a child's     *)
(* SSL_CTX is that of a parent, which owns it.                                *)
LEMMA CountedIsCounted ==
  ASSUME IsFiniteSet(Handshakes), ContextsOK, OneOwner, AllCounted
  PROVE  ReferencesCounted
<1>1. ASSUME NEW x \in SslCtxs
      PROVE  /\ Cardinality(Owners(x)) <= 1
             /\ ctx[x].refs = Cardinality(Owners(x)) + Cardinality(Users(x))
             /\ ctx[x].password => Owners(x) # {}
             /\ Owned(x) => ctx[x].refs > 0
  <2>1. Cardinality(Owners(x)) = (IF Owned(x) THEN 1 ELSE 0) /\ (Owned(x) <=> Owners(x) # {})
    BY OwnersCounted DEF ContextsOK
  <2>2. Cardinality(Users(x)) \in Nat
    BY UsersFinite
  <2>3. Counted(x)
    BY DEF AllCounted
  <2>. QED BY <2>1, <2>2, <2>3 DEF Counted
<1>2. ASSUME NEW c \in Linked, context[c].ssl_context # NULL PROVE ctx[context[c].ssl_context].refs > 0
  <2>1. c \in Contexts /\ KindOK(c) /\ context[c].kind \in {"free", "plain", "parent", "child"}
        /\ context[c].ssl_context \in SslCtxs
    BY <1>2, ContextTyped DEF ContextsOK, Linked
  <2>2. \E p \in Parents : context[p].ssl_context = context[c].ssl_context
    BY <2>1, <1>2 DEF KindOK, Parents
  <2>3. Owned(context[c].ssl_context)
    BY <2>2 DEF Owned, OwnedBy
  <2>. QED BY <1>1, <2>1, <2>3
<1>. QED BY <1>1, <1>2 DEF ReferencesCounted

(* A context is made with an SSL_CTX of its own.                              *)
LEMMA CreateSslContextCounted ==
  ASSUME IsFiniteSet(Handshakes), ContextsOK, OneOwner, AllCounted,
         NEW c \in Contexts, NEW x \in SslCtxs, NEW o \in SomeOptions, CreateSslContext(c, x, o)
  PROVE  OneOwner' /\ AllCounted'
<1>1. /\ c \notin Linked
      /\ ~o.valid => UNCHANGED context
      /\ o.valid => /\ context'[c].kind = "parent" /\ context'[c].ssl_context = x /\ context'[c].sni = NewTree
                    /\ \A b \in Contexts : b # c => context'[b] = context[b]
  BY CreateSslContextOK
<1>2. Unused(x) /\ UNCHANGED ssl /\ ctx' = FromOptions(ctx, x, o)
  BY DEF CreateSslContext
<1>3. /\ o.valid \in BOOLEAN
      /\ \A y \in SslCtxs : y # x => ctx'[y] = ctx[y]
      /\ ctx'[x].refs = IF o.valid THEN 1 ELSE 0
      /\ ~o.valid => ~ctx'[x].password
  BY <1>2, FromOptionsChange DEF ContextsOK, Typed
<1>4. ~Owned(x) /\ x # NULL
  BY <1>2, UnusedIsFree, ContextsAssumption DEF AllCounted
<1>5. c \notin Parents
  BY <1>1 DEF Linked, Parents
<1>6. CASE ~o.valid
  <2>1. ParentsKept
    BY <1>1, <1>6 DEF ParentsKept, Parents
  <2>2. OneOwner' /\ \A y : Owned(y)' <=> Owned(y)
    BY <2>1, OwnersSame
  <2>3. AllCounted'
    BY <1>2, <1>3, <1>6, <2>2, GainCounted
  <2>. QED BY <2>2, <2>3
<1>7. CASE o.valid
  <2>1. /\ Parents' = Parents \cup {c}
        /\ context'[c].ssl_context = x /\ DOMAIN context'[c].sni = {<<>>} /\ context'[c].sni[<<>>] = NULL
        /\ \A b \in Parents : context'[b] = context[b] /\ b # c
    BY <1>1, <1>5, <1>7 DEF Parents, NewTree
  <2>2. \A b \in Parents : /\ context[b].ssl_context # x
                           /\ \A p \in DOMAIN context[b].sni : context[b].sni[p] # x
    BY <1>4 DEF Owned, OwnedBy
  <2>3. \A y \in SslCtxs : Owned(y)' <=> Owned(y) \/ y = x
    <3>1. \A y : \A b \in Parents : OwnedBy(y, b)' <=> OwnedBy(y, b)
      BY <2>1 DEF OwnedBy
    <3>2. \A y \in SslCtxs : OwnedBy(y, c)' <=> y = x
      BY <2>1, ContextsAssumption DEF OwnedBy
    <3>. QED BY <2>1, <3>1, <3>2 DEF Owned
  <2>4. AllCounted'
    BY <1>2, <1>3, <1>7, <2>3, GainCounted
  <2>5. OneOwner'
    <3>1. \A b, d \in Parents' : context'[b].ssl_context = context'[d].ssl_context => b = d
      BY <2>1, <2>2 DEF OneOwner
    <3>2. \A b, d \in Parents' : \A p \in DOMAIN context'[b].sni, q \in DOMAIN context'[d].sni :
            context'[b].sni[p] = context'[d].sni[q] /\ context'[b].sni[p] # NULL => b = d /\ p = q
      BY <2>1 DEF OneOwner
    <3>3. \A b, d \in Parents' : \A p \in DOMAIN context'[d].sni :
            context'[b].ssl_context # context'[d].sni[p]
      <4>1. \A b \in Parents : context[b].ssl_context # NULL
        BY ContextsAssumption DEF ContextsOK, KindOK, Parents
      <4>. QED BY <2>1, <2>2, <4>1, <1>4 DEF OneOwner
    <3>4. \A b \in Parents' : context'[b].sni[<<>>] = NULL
      BY <2>1 DEF OneOwner
    <3>. QED BY <3>1, <3>2, <3>3, <3>4 DEF OneOwner
  <2>. QED BY <2>4, <2>5
<1>. QED BY <1>6, <1>7

(* No application names a server with the empty string: the SSL_CTX would hang *)
(* at the root, which is the one node that nothing is freed from.             *)
RealNames == <<>> \notin Names

(* A name is added with an SSL_CTX of its own, unless it is taken.            *)
LEMMA AddServerNameCounted ==
  ASSUME IsFiniteSet(Handshakes), RealNames, ContextsOK, OneOwner, AllCounted,
         NEW c \in Contexts, NEW x \in SslCtxs, NEW o \in SomeOptions, NEW name \in Names,
         AddServerName(c, name, x, o)
  PROVE  OneOwner' /\ AllCounted'
<1> DEFINE tree == context[c].sni
           made == FromOptions(ctx, x, o)
           gain == o.valid /\ ~Taken(tree, name)
<1>1. /\ c \in Parents
      /\ ~o.valid => UNCHANGED context
      /\ o.valid => /\ KindsKept /\ context'[c].sni = AddName(tree, name, x)
                    /\ \A b \in Contexts : b # c => context'[b] = context[b]
  BY AddServerNameOK
<1>2. /\ Unused(x) /\ UNCHANGED ssl
      /\ ctx' = IF o.valid /\ Taken(tree, name) THEN FreeSslContext(made, x) ELSE made
  BY DEF AddServerName
<1>3. /\ o.valid \in BOOLEAN /\ made \in [SslCtxs -> CtxRecords]
      /\ \A y \in SslCtxs : y # x => made[y] = ctx[y]
      /\ made[x].refs = IF o.valid THEN 1 ELSE 0
      /\ ~o.valid => ~made[x].password
  BY FromOptionsChange DEF ContextsOK, Typed
<1>4. /\ \A y \in SslCtxs : y # x => ctx'[y] = ctx[y]
      /\ ctx'[x].refs = IF gain THEN 1 ELSE 0
      /\ ~gain => ~ctx'[x].password
  <2> HIDE DEF made
  <2>1. CASE o.valid /\ Taken(tree, name)
    <3>1. \A y \in SslCtxs : FreeSslContext(made, x)[y] =
            IF y = x THEN [refs |-> made[y].refs - 1, password |-> FALSE] ELSE made[y]
      BY <1>3, CtxChange
    <3>2. ctx'[x] = [refs |-> made[x].refs - 1, password |-> FALSE]
      BY <2>1, <1>2, <3>1
    <3>3. ctx'[x].refs = made[x].refs - 1 /\ ~ctx'[x].password
      BY ONLY <3>2
    <3>4. ~gain
      BY <2>1
    <3>5. ctx'[x].refs = 0
      BY <2>1, <3>3, <1>3
    <3>6. \A y \in SslCtxs : y # x => ctx'[y] = ctx[y]
      BY <2>1, <1>2, <1>3, <3>1
    <3> HIDE DEF gain
    <3>. QED BY <3>3, <3>4, <3>5, <3>6
  <2>2. CASE ~(o.valid /\ Taken(tree, name))
    BY <2>2, <1>2, <1>3
  <2>. QED BY <2>1, <2>2
<1>5. ~Owned(x) /\ x # NULL
  BY <1>2, UnusedIsFree, ContextsAssumption DEF AllCounted
<1>6. gain \in BOOLEAN
  BY <1>3
<1> HIDE DEF made
<1>7. CASE ~o.valid
  <2>1. ParentsKept
    BY <1>1, <1>7 DEF ParentsKept, Parents
  <2>2. OneOwner' /\ \A y : Owned(y)' <=> Owned(y)
    BY <2>1, OwnersSame
  <2>3. \A y \in SslCtxs : Owned(y)' <=> Owned(y) \/ (gain /\ y = x)
    BY <2>2, <1>7
  <2> HIDE DEF gain
  <2>4. AllCounted'
    BY <1>2, <1>4, <1>6, <2>3, GainCounted
  <2>. QED BY <2>2, <2>4
<1>8. CASE o.valid
  <2> DEFINE new == context'[c].sni
  <2>1. Parents' = Parents /\ \A b \in Parents : context'[b].ssl_context = context[b].ssl_context
    BY <1>1, <1>8, KindsKeptOK DEF KindsKept, Parents
  <2>2. \A b \in Parents : b # c => context'[b].sni = context[b].sni
    BY <1>1, <1>8 DEF Parents
  <2>3. /\ TreeOK(tree) /\ TreeOK(new)
        /\ \A p \in DOMAIN tree : p \in DOMAIN new
        /\ \A p \in DOMAIN new : new[p] =
             IF p = name /\ gain THEN x ELSE IF p \in DOMAIN tree THEN tree[p] ELSE NULL
        /\ name \in DOMAIN new
    <3>1. TreeOK(tree) /\ name \in Seq(Labels)
      BY ContextTyped, NamesAreNames DEF ContextsOK
    <3>. QED BY <3>1, <1>1, <1>8, AddNameOK
  <2>4. /\ name # <<>> /\ <<>> \in DOMAIN tree
        /\ \A b \in Parents : /\ context[b].ssl_context # x
                              /\ \A p \in DOMAIN context[b].sni : context[b].sni[p] # x
        /\ \A b \in Parents : context[b].ssl_context # NULL
    <3>1. name # <<>>
      BY DEF RealNames
    <3>2. <<>> \in DOMAIN tree
      BY <2>3 DEF TreeOK, TreeOver
    <3>3. \A b \in Parents : context[b].ssl_context # NULL
      BY ContextsAssumption DEF ContextsOK, KindOK, Parents
    <3>. QED BY <3>1, <3>2, <3>3, <1>5 DEF Owned, OwnedBy
  <2>5. gain => ~Taken(tree, name)
    OBVIOUS
  <2>6. \A p \in DOMAIN new : gain /\ new[p] = x => p = name
    BY <2>3, <2>4, <1>1, <1>5
  <2>7. \A p \in DOMAIN new : new[p] # NULL => (gain /\ p = name /\ new[p] = x) \/ (p \in DOMAIN tree /\ new[p] = tree[p])
    BY <2>3
  <2>8. \A p \in DOMAIN tree : tree[p] # NULL => p \in DOMAIN new /\ new[p] = tree[p]
    BY <2>3, <2>5 DEF Taken
  <2>9. gain => name \in DOMAIN new /\ new[name] = x
    BY <2>3
  <2>10. new[<<>>] = tree[<<>>]
    BY <2>3, <2>4
  <2> HIDE DEF gain
  <2>11. \A y \in SslCtxs : Owned(y)' <=> Owned(y) \/ (gain /\ y = x)
    <3>1. \A y : \A b \in Parents : b # c => (OwnedBy(y, b)' <=> OwnedBy(y, b))
      BY <2>1, <2>2 DEF OwnedBy
    <3>2. \A y \in SslCtxs : OwnedBy(y, c)' <=> OwnedBy(y, c) \/ (gain /\ y = x)
      <4>1. ASSUME NEW y \in SslCtxs PROVE OwnedBy(y, c)' <=> OwnedBy(y, c) \/ (gain /\ y = x)
        <5>1. y # NULL
          BY ContextsAssumption
        <5>2. (\E p \in DOMAIN new : new[p] = y) <=> (\E p \in DOMAIN tree : tree[p] = y) \/ (gain /\ y = x)
          BY <5>1, <2>7, <2>8, <2>9
        <5>. QED BY <5>2, <2>1, <1>1 DEF OwnedBy
      <4>. QED BY <4>1
    <3>. QED BY <2>1, <3>1, <3>2, <1>1 DEF Owned
  <2>12. AllCounted'
    BY <1>2, <1>4, <1>6, <2>11, GainCounted
  <2>13. OneOwner'
    <3>1. \A b, d \in Parents' : context'[b].ssl_context = context'[d].ssl_context => b = d
      BY <2>1 DEF OneOwner
    <3>2. ASSUME NEW b \in Parents, NEW d \in Parents, NEW p \in DOMAIN context'[b].sni,
                 NEW q \in DOMAIN context'[d].sni,
                 context'[b].sni[p] = context'[d].sni[q], context'[b].sni[p] # NULL
          PROVE  b = d /\ p = q
      <4>1. CASE context'[b].sni[p] = x
        <5>1. b = c /\ gain /\ p = name
          BY <4>1, <3>2, <2>2, <2>4, <2>6, <2>7
        <5>2. d = c /\ q = name
          BY <4>1, <3>2, <2>2, <2>4, <2>6, <2>7
        <5>. QED BY <5>1, <5>2
      <4>2. CASE context'[b].sni[p] # x
        <5>1. p \in DOMAIN context[b].sni /\ context'[b].sni[p] = context[b].sni[p]
          BY <4>2, <3>2, <2>2, <2>7
        <5>2. q \in DOMAIN context[d].sni /\ context'[d].sni[q] = context[d].sni[q]
          BY <4>2, <3>2, <2>2, <2>7
        <5>3. context[b].sni[p] = context[d].sni[q] /\ context[b].sni[p] # NULL
          BY <5>1, <5>2, <3>2
        <5> HIDE DEF tree, new
        <5>4. p \in DOMAIN context[b].sni /\ q \in DOMAIN context[d].sni
          BY <5>1, <5>2
        <5>5. \A i \in DOMAIN context[b].sni, j \in DOMAIN context[d].sni :
                context[b].sni[i] = context[d].sni[j] /\ context[b].sni[i] # NULL => b = d /\ i = j
          BY DEF OneOwner
        <5>. QED BY ONLY <5>3, <5>4, <5>5
      <4>. QED BY <4>1, <4>2
    <3>3. ASSUME NEW b \in Parents, NEW d \in Parents, NEW p \in DOMAIN context'[d].sni
          PROVE  context[b].ssl_context # context'[d].sni[p]
      <4>1. CASE context'[d].sni[p] = x \/ context'[d].sni[p] = NULL
        BY <4>1, <2>4
      <4>2. CASE context'[d].sni[p] # x /\ context'[d].sni[p] # NULL
        <5>1. p \in DOMAIN context[d].sni /\ context'[d].sni[p] = context[d].sni[p]
          BY <4>2, <3>3, <2>2, <2>7
        <5>. QED BY <5>1 DEF OneOwner
      <4>. QED BY <4>1, <4>2
    <3>4. \A b \in Parents : context'[b].sni[<<>>] = NULL
      BY <2>2, <2>10, <1>1 DEF OneOwner
    <3>. QED BY <2>1, <3>1, <3>2, <3>3, <3>4 DEF OneOwner
  <2>. QED BY <2>12, <2>13
<1>. QED BY <1>3, <1>7, <1>8

(* A name is removed, and what it held is freed.                              *)
LEMMA RemoveServerNameCounted ==
  ASSUME IsFiniteSet(Handshakes), ContextsOK, OneOwner, AllCounted,
         NEW c \in Contexts, NEW name \in Names, RemoveServerName(c, name)
  PROVE  OneOwner' /\ AllCounted'
<1> DEFINE tree == context[c].sni
           new == context'[c].sni
           x == Removed(tree, name)
           L == {x} \ {NULL}
<1>1. /\ c \in Parents /\ KindsKept
      /\ new = RemoveName(tree, name)
      /\ \A b \in Contexts : b # c => context'[b] = context[b]
  BY RemoveServerNameOK
<1>2. UNCHANGED ssl /\ ctx' = FreeSslContext(ctx, x) /\ ctx \in [SslCtxs -> CtxRecords]
  BY DEF RemoveServerName, ContextsOK, Typed
<1>3. /\ Parents' = Parents /\ c \in Contexts
      /\ \A b \in Parents : b \in Contexts /\ context'[b].ssl_context = context[b].ssl_context
      /\ \A b \in Parents : b # c => context'[b].sni = context[b].sni
  BY <1>1, KindsKeptOK DEF KindsKept, Parents
<1>4. TreeOK(tree) /\ TreeOK(new) /\ name \in Seq(Labels)
  <2>1. ContextsOK'
    BY RemoveServerNameOK
  <2>2. TreeOK(tree) /\ name \in Seq(Labels)
    BY ContextTyped, NamesAreNames DEF ContextsOK
  <2>3. CASE TooLong(name)
    BY <2>2, <2>3, <1>1 DEF RemoveName
  <2>4. CASE ~TooLong(name)
    BY <2>2, <2>4, <1>1, RemoveNameOK
  <2>. QED BY <2>2, <2>3, <2>4
<1>5. /\ \A p \in DOMAIN new : p \in DOMAIN tree /\ (new[p] # NULL => new[p] = tree[p] /\ tree[p] \notin L)
      /\ \A p \in DOMAIN tree : tree[p] # NULL /\ tree[p] \notin L => p \in DOMAIN new /\ new[p] = tree[p]
      /\ x # NULL => \E p \in DOMAIN tree : tree[p] = x
  <2>1. CASE TooLong(name)
    BY <2>1, <1>1 DEF RemoveName, Removed
  <2>2. CASE ~TooLong(name)
    <3>1. /\ DOMAIN new \subseteq DOMAIN tree
          /\ \A p \in DOMAIN new : new[p] = IF p = name THEN NULL ELSE tree[p]
          /\ \A p \in DOMAIN tree \ {name} : tree[p] # NULL => p \in DOMAIN new
      BY <2>2, <1>1, <1>4, RemoveNameOK
    <3>2. x = IF name \in DOMAIN tree THEN tree[name] ELSE NULL
      BY <2>2 DEF Removed
    <3> HIDE DEF x, new
    <3>3. \A p \in DOMAIN tree : tree[p] # NULL /\ tree[p] = x => p = name
      BY <3>2, <1>1 DEF OneOwner
    <3>. QED BY <3>1, <3>2, <3>3
  <2>. QED BY <2>1, <2>2
<1>6. \A y \in SslCtxs : ctx'[y] = IF y \in L THEN [refs |-> ctx[y].refs - 1, password |-> FALSE] ELSE ctx[y]
  <2>1. \A y \in SslCtxs : ctx'[y] = IF y = x THEN [refs |-> ctx[y].refs - 1, password |-> FALSE] ELSE ctx[y]
    BY <1>2, CtxChange
  <2>. QED BY <2>1, ContextsAssumption
<1> HIDE DEF x
<1>7. \A y \in SslCtxs : y \in L => Owned(y)
  BY <1>1, <1>5 DEF Owned, OwnedBy
<1>8. \A y \in L : /\ \A b \in Parents : context[b].ssl_context # y
                   /\ \A b \in Parents : b # c => \A p \in DOMAIN context[b].sni : context[b].sni[p] # y
  BY <1>1, <1>5 DEF OneOwner
<1>9. \A y \in SslCtxs : Owned(y)' <=> Owned(y) /\ y \notin L
  <2> SUFFICES ASSUME NEW y \in SslCtxs PROVE Owned(y)' <=> Owned(y) /\ y \notin L
    OBVIOUS
  <2>1. y # NULL
    BY ContextsAssumption
  <2>2. \A b \in Parents : b # c => (OwnedBy(y, b)' <=> OwnedBy(y, b) /\ y \notin L)
    BY <1>3, <1>8 DEF OwnedBy
  <2>3. OwnedBy(y, c)' <=> OwnedBy(y, c) /\ y \notin L
    <3>1. (\E p \in DOMAIN new : new[p] = y) <=> (\E p \in DOMAIN tree : tree[p] = y) /\ y \notin L
      BY <2>1, <1>5
    <3>. QED BY <3>1, <1>1, <1>3, <1>8 DEF OwnedBy
  <2>. QED BY <2>2, <2>3, <1>1, <1>3 DEF Owned
<1>10. AllCounted'
  <2> HIDE DEF L
  <2>. QED BY <1>2, <1>6, <1>7, <1>9, LossCounted DEF ContextsOK
<1>11. OneOwner'
  <2>1. \A b \in Parents : \A p \in DOMAIN context'[b].sni :
          p \in DOMAIN context[b].sni /\ (context'[b].sni[p] # NULL => context'[b].sni[p] = context[b].sni[p])
    BY <1>3, <1>5
  <2>2. \A b, d \in Parents' : context'[b].ssl_context = context'[d].ssl_context => b = d
    BY <1>3 DEF OneOwner
  <2>3. \A b, d \in Parents' : \A p \in DOMAIN context'[b].sni, q \in DOMAIN context'[d].sni :
          context'[b].sni[p] = context'[d].sni[q] /\ context'[b].sni[p] # NULL => b = d /\ p = q
    BY <1>3, <2>1 DEF OneOwner
  <2>4. \A b, d \in Parents' : \A p \in DOMAIN context'[d].sni :
          context'[b].ssl_context # context'[d].sni[p]
    <3>1. \A b \in Parents : context[b].ssl_context # NULL
      BY ContextsAssumption DEF ContextsOK, KindOK, Parents
    <3>. QED BY <3>1, <1>3, <2>1 DEF OneOwner
  <2>5. \A b \in Parents' : context'[b].sni[<<>>] = NULL
    <3>1. ASSUME NEW b \in Parents PROVE context'[b].sni[<<>>] = NULL
      <4>1. CASE b # c
        BY <4>1, <1>3 DEF OneOwner
      <4>2. CASE b = c
        <5>1. <<>> \in DOMAIN new
          BY <1>4 DEF TreeOK, TreeOver
        <5>2. tree[<<>>] = NULL
          BY <1>1 DEF OneOwner
        <5>. QED BY <5>1, <5>2, <4>2, <2>1, <1>1
      <4>. QED BY <4>1, <4>2
    <3>. QED BY <3>1, <1>3
  <2>. QED BY <2>2, <2>3, <2>4, <2>5 DEF OneOwner
<1>. QED BY <1>10, <1>11

(* A parent context takes with it all it owns, each SSL_CTX once.             *)
LEMMA FreeCounted ==
  ASSUME IsFiniteSet(Handshakes), ContextsOK, OneOwner, AllCounted, NEW c \in Contexts, Free(c)
  PROVE  OneOwner' /\ AllCounted'
<1> DEFINE tree == context[c].sni
           x == context[c].ssl_context
           L == IF c \in Parents THEN {y \in SslCtxs : OwnedBy(y, c)} ELSE {}
<1>1. /\ context'[c].kind = "free"
      /\ \A b \in Contexts : b # c => context'[b] = context[b]
  BY FreedContextOK
<1>2. UNCHANGED ssl /\ ctx' = FreeOwned(ctx, c) /\ ctx \in [SslCtxs -> CtxRecords]
  BY DEF Free, ContextsOK, Typed
<1>3. /\ Parents' = Parents \ {c}
      /\ \A b \in Parents' : b \in Parents /\ b # c /\ context'[b] = context[b]
  BY <1>1 DEF Parents
<1>4. ASSUME NEW y \in SslCtxs
      PROVE  ctx'[y] = IF y \in L THEN [refs |-> ctx[y].refs - 1, password |-> FALSE] ELSE ctx[y]
  <2>1. CASE c \notin Parents
    BY <2>1, <1>2 DEF FreeOwned
  <2>2. CASE c \in Parents
    <3> DEFINE t == FreeSslContext(ctx, x)
               D == Destroyed(tree)
    <3>1. /\ t \in [SslCtxs -> CtxRecords]
          /\ t[y] = IF y = x THEN [refs |-> ctx[y].refs - 1, password |-> FALSE] ELSE ctx[y]
      BY <1>2, CtxChange
    <3>2. ctx' = FreeSslContexts(t, D)
      BY <2>2, <1>2 DEF FreeOwned
    <3> HIDE DEF t
    <3>3. ctx'[y] = IF y \in D THEN [refs |-> t[y].refs - 1, password |-> FALSE] ELSE t[y]
      <4> HIDE DEF D, L
      <4>1. t \in [SslCtxs -> CtxRecords]
        BY <3>1
      <4>2. \A X : \A z \in SslCtxs : FreeSslContexts(t, X)[z] =
              IF z \in X THEN [refs |-> t[z].refs - 1, password |-> FALSE] ELSE t[z]
        BY <4>1, CtxChange
      <4>3. FreeSslContexts(t, D)[y] = IF y \in D THEN [refs |-> t[y].refs - 1, password |-> FALSE] ELSE t[y]
        BY <4>2
      <4>. QED BY <3>2, <4>3
    <3>4. y \in D <=> \E p \in DOMAIN tree : tree[p] = y
      <4>1. tree[<<>>] = NULL /\ y # NULL
        BY <2>2, ContextsAssumption DEF OneOwner
      <4>. QED BY <4>1 DEF Destroyed
    <3>5. y \in D => y # x
      BY <2>2, <3>4 DEF OneOwner
    <3>6. y \in L <=> y = x \/ y \in D
      BY <2>2, <3>4 DEF OwnedBy
    <3> HIDE DEF D, L
    <3>7. CASE y \in D
      <4>1. ctx'[y] = [refs |-> t[y].refs - 1, password |-> FALSE] /\ t[y] = ctx[y]
        BY <3>1, <3>3, <3>5, <3>7
      <4>. QED BY <4>1, <3>6, <3>7
    <3>8. CASE y \notin D
      BY <3>1, <3>3, <3>6, <3>8
    <3>. QED BY <3>7, <3>8
  <2>. QED BY <2>1, <2>2
<1>5. \A y \in SslCtxs : y \in L => Owned(y)
  BY DEF Owned
<1>6. \A y \in SslCtxs : Owned(y)' <=> Owned(y) /\ y \notin L
  <2> SUFFICES ASSUME NEW y \in SslCtxs PROVE Owned(y)' <=> Owned(y) /\ y \notin L
    OBVIOUS
  <2>1. y # NULL
    BY ContextsAssumption
  <2>2. \A b \in Parents' : OwnedBy(y, b)' <=> OwnedBy(y, b)
    BY <1>3 DEF OwnedBy
  <2>3. \A b, d \in Parents : OwnedBy(y, b) /\ OwnedBy(y, d) => b = d
    <3>1. ASSUME NEW b \in Parents, NEW d \in Parents, OwnedBy(y, b), OwnedBy(y, d) PROVE b = d
      <4>1. CASE context[b].ssl_context = y
        BY <4>1, <3>1 DEF OneOwner, OwnedBy
      <4>2. CASE context[b].ssl_context # y
        <5>1. PICK p \in DOMAIN context[b].sni : context[b].sni[p] = y
          BY <4>2, <3>1 DEF OwnedBy
        <5>2. context[d].ssl_context # y
          BY <5>1 DEF OneOwner
        <5>3. PICK q \in DOMAIN context[d].sni : context[d].sni[q] = y
          BY <5>2, <3>1 DEF OwnedBy
        <5>. QED BY <5>1, <5>3, <2>1 DEF OneOwner
      <4>. QED BY <4>1, <4>2
    <3>. QED BY <3>1
  <2>4. CASE c \in Parents
    BY <2>2, <2>3, <2>4, <1>3 DEF Owned
  <2>5. CASE c \notin Parents
    BY <2>2, <2>5, <1>3 DEF Owned
  <2>. QED BY <2>4, <2>5
<1>7. AllCounted'
  <2> HIDE DEF L
  <2>. QED BY <1>2, <1>4, <1>5, <1>6, LossCounted DEF ContextsOK
<1>8. OneOwner'
  BY <1>3 DEF OneOwner
<1>. QED BY <1>7, <1>8

(* An SSL moves.                                                              *)
LEMMA UserMovesCounted ==
  ASSUME IsFiniteSet(Handshakes), ContextsOK, OneOwner, AllCounted, NEW h \in Handshakes, UserMoves(h)
  PROVE  OneOwner' /\ AllCounted'
<1>1. ParentsKept
  BY DEF UserMoves, ParentsKept, Parents
<1>2. OneOwner'
  BY <1>1, OwnersSame
<1> DEFINE a == ssl[h].ctx
           b == ssl'[h].ctx
<1>3. /\ UNCHANGED context
      /\ \A g \in Handshakes : g # h => ssl'[g] = ssl[g]
      /\ \A y \in SslCtxs : /\ ctx'[y].refs = ctx[y].refs + (IF y = b THEN 1 ELSE 0) - (IF y = a THEN 1 ELSE 0)
                            /\ ctx'[y].password = ctx[y].password
  BY DEF UserMoves
<1>4. ssl[h].ctx = a /\ ssl'[h].ctx = b
  OBVIOUS
<1> HIDE DEF a, b
<1>5. AllCounted'
  BY <1>3, <1>4, UserCounted DEF ContextsOK
<1>. QED BY <1>2, <1>5

(* Every step keeps one owner to an SSL_CTX and its count.                    *)
LEMMA CountedStep ==
  ASSUME IsFiniteSet(Handshakes), RealNames, ContextsOK, OneOwner, AllCounted, [Next]_vars
  PROVE  OneOwner' /\ AllCounted'
<1> USE DEF ContextsOK
<1>1. CASE UNCHANGED <<context, ctx, ssl>>
  <2>1. ParentsKept
    BY <1>1 DEF ParentsKept, Parents
  <2>. QED BY <2>1, <1>1, OwnersSameCounted
<1>2. ASSUME NEW c \in Contexts, CreateContext(c) \/ (\E p \in Contexts : CreateChild(c, p))
      PROVE  OneOwner' /\ AllCounted'
  <2>1. /\ c \notin Linked /\ context'[c].kind \in {"plain", "child"} /\ UNCHANGED <<ctx, ssl>>
        /\ \A b \in Contexts : b # c => context'[b] = context[b]
    <3>1. CASE CreateContext(c)
      BY <3>1, CreateContextOK DEF CreateContext
    <3>2. ASSUME NEW p \in Contexts, CreateChild(c, p)
          PROVE  /\ c \notin Linked /\ context'[c].kind \in {"plain", "child"} /\ UNCHANGED <<ctx, ssl>>
                 /\ \A b \in Contexts : b # c => context'[b] = context[b]
      BY <3>2, CreateChildOK DEF CreateChild
    <3>. QED BY <1>2, <3>1, <3>2
  <2>2. ParentsKept
    BY <2>1 DEF ParentsKept, Parents, Linked
  <2>. QED BY <2>1, <2>2, OwnersSameCounted
<1>3. ASSUME NEW c \in Contexts, OnServerName(c) PROVE OneOwner' /\ AllCounted'
  <2>1. KindsKept /\ (\A b \in Contexts : context'[b].sni = context[b].sni) /\ UNCHANGED <<ctx, ssl>>
    BY <1>3, OnServerNameOK DEF OnServerName
  <2>2. ParentsKept
    BY <2>1 DEF ParentsKept, KindsKept, Parents
  <2>. QED BY <2>1, <2>2, OwnersSameCounted
<1>4. ASSUME NEW c \in Contexts, Free(c) PROVE OneOwner' /\ AllCounted'
  BY <1>4, FreeCounted
<1>5. ASSUME NEW c \in Contexts, NEW x \in SslCtxs, NEW o \in SomeOptions, CreateSslContext(c, x, o)
      PROVE  OneOwner' /\ AllCounted'
  BY <1>5, CreateSslContextCounted
<1>6. ASSUME NEW c \in Contexts, NEW x \in SslCtxs, NEW o \in SomeOptions, NEW name \in Names,
             AddServerName(c, name, x, o)
      PROVE  OneOwner' /\ AllCounted'
  BY <1>6, AddServerNameCounted
<1>7. ASSUME NEW c \in Contexts, NEW name \in Names, RemoveServerName(c, name) PROVE OneOwner' /\ AllCounted'
  BY <1>7, RemoveServerNameCounted
<1>8. ASSUME NEW h \in Handshakes,
             \/ Retry(h) \/ CloseSsl(h)
             \/ \E name \in Hellos : ClientHello(h, name)
             \/ \E d \in Descriptors : Open(h, d)
      PROVE  OneOwner' /\ AllCounted'
  <2>1. UserMoves(h)
    BY <1>8, RetryOK, CloseSslOK, ClientHelloOK, OpenOK
  <2>. QED BY <2>1, UserMovesCounted
<1>9. \/ UNCHANGED <<context, ctx, ssl>>
      \/ \E c \in Contexts : \/ CreateContext(c) \/ (\E p \in Contexts : CreateChild(c, p))
                             \/ OnServerName(c) \/ Free(c)
      \/ \E c \in Contexts, x \in SslCtxs, o \in SomeOptions : CreateSslContext(c, x, o)
      \/ \E c \in Contexts, x \in SslCtxs, o \in SomeOptions, name \in Names : AddServerName(c, name, x, o)
      \/ \E c \in Contexts, name \in Names : RemoveServerName(c, name)
      \/ \E h \in Handshakes : \/ Retry(h) \/ CloseSsl(h)
                               \/ \E name \in Hellos : ClientHello(h, name)
                               \/ \E d \in Descriptors : Open(h, d)
  <2>1. CASE UNCHANGED vars
    BY <2>1 DEF vars
  <2>2. CASE Next
    <3>1. ASSUME NEW c \in Contexts, NEW d \in Descriptors, MakesSocket(c, d) PROVE UNCHANGED <<context, ctx, ssl>>
      BY <3>1, MakesAre DEF Make
    <3>2. ASSUME TimerSweep \/ SweepNext \/ \E d \in Descriptors : CloseSocket(d)
          PROVE  UNCHANGED <<context, ctx, ssl>>
      BY <3>2 DEF TimerSweep, SweepNext, SweepTo, CloseSocket
    <3>. QED BY <2>2, <3>1, <3>2, Steps
  <2>. QED BY <2>1, <2>2
<1>. QED BY <1>1, <1>2, <1>3, <1>4, <1>5, <1>6, <1>7, <1>8, <1>9

(* At the start nobody owns anything.                                         *)
LEMMA InitCounted ==
  ASSUME Init
  PROVE  OneOwner /\ AllCounted
<1>1. Parents = {}
  BY DEF Init, Parents, FreeContext
<1>2. OneOwner
  BY <1>1 DEF OneOwner
<1>3. ASSUME NEW x \in SslCtxs PROVE Counted(x)
  <2>1. ~Owned(x)
    BY <1>1 DEF Owned
  <2>2. Users(x) = {}
    BY ContextsAssumption DEF Init, Users, FreeSsl
  <2>3. Cardinality(Users(x)) = 0
    BY <2>2, FS_EmptySet
  <2>4. ctx[x].refs = 0 /\ ~ctx[x].password
    BY DEF Init, FreeCtx
  <2>. QED BY <2>1, <2>3, <2>4 DEF Counted
<1>. QED BY <1>2, <1>3 DEF AllCounted

(* However contexts, server names and handshakes come and go, each SSL_CTX has *)
(* one owner and the references of its owner and its users, so that it is      *)
(* freed once, and after its last use (openssl.c).                            *)
THEOREM CountsReferences ==
  ASSUME IsFiniteSet(Handshakes), RealNames
  PROVE  Spec => []ReferencesCounted
<1>1. Init => OneOwner /\ AllCounted
  BY InitCounted
<1>2. ContextsOK /\ OneOwner /\ AllCounted /\ [Next]_vars => OneOwner' /\ AllCounted'
  BY CountedStep
<1>3. ContextsOK /\ OneOwner /\ AllCounted => ReferencesCounted
  BY CountedIsCounted
<1>. QED BY <1>1, <1>2, <1>3, ContextsAlwaysOK, PTL DEF Spec

-----------------------------------------------------------------------------
(* The list, in the order of a rank that falls from its head to its end.      *)

Lists == [head : Contexts \cup {NULL}, iterator : Contexts \cup {NULL},
          next : [Contexts -> Contexts \cup {NULL}], prev : [Contexts -> Contexts \cup {NULL}]]
Ranks == [Contexts -> Int]

(* The list l holds S and each of S has its neighbours.                       *)
Holds(l, S) ==
  /\ l.head \in S \cup {NULL} /\ (S # {} => l.head # NULL)
  /\ l.head # NULL => l.prev[l.head] = NULL
  /\ \A c \in S : IF l.prev[c] = NULL THEN l.head = c
                  ELSE l.prev[c] \in S /\ l.next[l.prev[c]] = c
  /\ \A c \in S : l.next[c] # NULL => l.next[c] \in S /\ l.prev[l.next[c]] = c

(* The ranks r fall along it, and nothing is left out between neighbours.     *)
Falls(l, S, r) ==
  /\ \A c \in S : r[c] <= r[l.head]
  /\ \A c \in S : l.next[c] # NULL => r[l.next[c]] < r[c]
  /\ \A c, d \in S : r[d] < r[c] => l.next[c] # NULL /\ r[d] <= r[l.next[c]]
  /\ \A c, d \in S : r[c] = r[d] => c = d

(* A sweep at i has those to come to that rank below.                         *)
ToCome(i, S, r) == IF i = NULL THEN {} ELSE {d \in S : r[d] < r[i]}

Ordered(l, S, D, r) ==
  /\ l \in Lists
  /\ Holds(l, S)
  /\ Falls(l, S, r)
  /\ l.iterator \in S \cup {NULL}
  /\ D = ToCome(l.iterator, S, r)

ListOK == \E r \in Ranks : Ordered(list, Linked, due, r)

(* A list with some fields replaced.                                          *)
LEMMA ListWith ==
  ASSUME NEW l \in Lists, NEW h, NEW n, NEW p
  PROVE  [l EXCEPT !.head = h, !.next = n, !.prev = p]
           = [head |-> h, iterator |-> l.iterator, next |-> n, prev |-> p]
<1> DEFINE k == [l EXCEPT !.head = h, !.next = n, !.prev = p]
<1>1. l = [f \in {"head", "iterator", "next", "prev"} |-> l[f]]
  BY DEF Lists
<1>2. k = [f \in {"head", "iterator", "next", "prev"} |->
             IF f = "head" THEN h ELSE IF f = "next" THEN n ELSE IF f = "prev" THEN p ELSE l[f]]
  BY <1>1
<1>. QED BY <1>2

(* What linking writes.                                                       *)
LEMMA LinkWrites ==
  ASSUME NEW l \in Lists, NEW c \in Contexts
  PROVE  LET k == Link(l, c)
         IN /\ k \in Lists /\ k.head = c /\ k.iterator = l.iterator
            /\ \A d \in Contexts : k.next[d] = IF d = c THEN l.head ELSE l.next[d]
            /\ \A d \in Contexts : k.prev[d] = IF d = c THEN NULL ELSE IF d = l.head THEN c ELSE l.prev[d]
<1> DEFINE n == [l.next EXCEPT ![c] = l.head]
           p == [d \in Contexts |-> IF d = c THEN NULL ELSE IF d = l.head THEN c ELSE l.prev[d]]
           k == [head |-> c, iterator |-> l.iterator, next |-> n, prev |-> p]
<1>1. /\ l = [head |-> l.head, iterator |-> l.iterator, next |-> l.next, prev |-> l.prev]
      /\ l.head \in Contexts \cup {NULL} /\ l.iterator \in Contexts \cup {NULL}
      /\ l.next \in [Contexts -> Contexts \cup {NULL}] /\ l.prev \in [Contexts -> Contexts \cup {NULL}]
  BY DEF Lists
<1>2. /\ n \in [Contexts -> Contexts \cup {NULL}]
      /\ \A d \in Contexts : n[d] = IF d = c THEN l.head ELSE l.next[d]
  BY <1>1
<1>3. /\ p \in [Contexts -> Contexts \cup {NULL}]
      /\ \A d \in Contexts : p[d] = IF d = c THEN NULL ELSE IF d = l.head THEN c ELSE l.prev[d]
  BY <1>1
<1>4. Link(l, c) = k
  <2>1. Link(l, c) = [l EXCEPT !.head = c, !.next = n, !.prev = p]
    BY DEF Link
  <2> HIDE DEF n, p
  <2>. QED BY <2>1, ListWith
<1> HIDE DEF n, p
<1>5. k \in Lists
  BY <1>1, <1>2, <1>3 DEF Lists
<1>. QED BY <1>2, <1>3, <1>4, <1>5

(* What unlinking writes.                                                     *)
LEMMA UnlinkWrites ==
  ASSUME NEW l \in Lists, NEW c \in Contexts
  PROVE  LET k == Unlink(l, c)
             n == l.next[c]
             p == IF l.head = c THEN NULL ELSE l.prev[c]
         IN /\ k \in Lists /\ k.head = (IF l.head = c THEN n ELSE l.head) /\ k.iterator = l.iterator
            /\ \A d \in Contexts : k.next[d] = IF d = p THEN n ELSE l.next[d]
            /\ \A d \in Contexts : k.prev[d] = IF d = n THEN p ELSE l.prev[d]
<1> DEFINE n == l.next[c]
           p == IF l.head = c THEN NULL ELSE l.prev[c]
           a == [d \in Contexts |-> IF d = p THEN n ELSE l.next[d]]
           b == [d \in Contexts |-> IF d = n THEN p ELSE l.prev[d]]
           h == IF l.head = c THEN n ELSE l.head
           k == [head |-> h, iterator |-> l.iterator, next |-> a, prev |-> b]
<1>1. /\ l = [head |-> l.head, iterator |-> l.iterator, next |-> l.next, prev |-> l.prev]
      /\ l.head \in Contexts \cup {NULL} /\ l.iterator \in Contexts \cup {NULL}
      /\ l.next \in [Contexts -> Contexts \cup {NULL}] /\ l.prev \in [Contexts -> Contexts \cup {NULL}]
  BY DEF Lists
<1>2. n \in Contexts \cup {NULL} /\ p \in Contexts \cup {NULL}
  BY <1>1
<1>3. Unlink(l, c) = k
  <2>1. Unlink(l, c) = [l EXCEPT !.head = h, !.next = a, !.prev = b]
    BY DEF Unlink
  <2> HIDE DEF h, a, b
  <2>. QED BY <2>1, ListWith
<1> HIDE DEF n, p
<1>4. /\ a \in [Contexts -> Contexts \cup {NULL}] /\ b \in [Contexts -> Contexts \cup {NULL}]
      /\ h \in Contexts \cup {NULL}
      /\ \A d \in Contexts : a[d] = (IF d = p THEN n ELSE l.next[d]) /\ b[d] = (IF d = n THEN p ELSE l.prev[d])
  BY <1>1, <1>2
<1> HIDE DEF a, b
<1>5. k \in Lists
  BY <1>1, <1>4 DEF Lists
<1>. QED BY <1>3, <1>4, <1>5 DEF n, p

(* A new context is above all others.                                         *)
LEMMA LinkOrdered ==
  ASSUME NEW l, NEW S \in SUBSET Contexts, NEW D, NEW r \in Ranks, Ordered(l, S, D, r),
         NEW c \in Contexts, c \notin S
  PROVE  \E q \in Ranks : Ordered(Link(l, c), S \cup {c}, D, q)
<1> DEFINE k == Link(l, c)
           T == S \cup {c}
           top == IF l.head = NULL THEN 0 ELSE r[l.head] + 1
           q == [r EXCEPT ![c] = top]
<1>1. /\ l \in Lists /\ Holds(l, S) /\ Falls(l, S, r) /\ l.iterator \in S \cup {NULL}
      /\ D = ToCome(l.iterator, S, r)
  BY DEF Ordered
<1>2. /\ k \in Lists /\ k.head = c /\ k.iterator = l.iterator
      /\ \A d \in Contexts : k.next[d] = IF d = c THEN l.head ELSE l.next[d]
      /\ \A d \in Contexts : k.prev[d] = IF d = c THEN NULL ELSE IF d = l.head THEN c ELSE l.prev[d]
  BY <1>1, LinkWrites
<1>3. c # NULL /\ NULL \notin S /\ \A d \in S : d # c /\ d \in Contexts
  BY ContextsAssumption
<1>4. /\ q \in Ranks /\ q[c] = top /\ top \in Int
      /\ \A d \in S : q[d] = r[d] /\ r[d] \in Int /\ r[d] < top
  <2>1. \A d \in S : r[d] \in Int /\ l.head # NULL /\ r[d] <= r[l.head] /\ r[l.head] \in Int
    BY <1>1 DEF Ranks, Holds, Falls
  <2>2. top \in Int
    BY <1>1 DEF Ranks, Holds
  <2>3. \A d \in S : r[d] < top
    BY <2>1
  <2> HIDE DEF top
  <2>. QED BY <1>3, <2>1, <2>2, <2>3 DEF Ranks
<1> HIDE DEF k, q, top
<1>5. Holds(k, T)
  BY <1>1, <1>2, <1>3 DEF Holds
<1>6. Falls(k, T, q)
  <2>1. \A d \in T : q[d] <= q[k.head]
    BY <1>2, <1>4
  <2>2. \A d \in T : k.next[d] # NULL => q[k.next[d]] < q[d]
    BY <1>1, <1>2, <1>3, <1>4 DEF Holds, Falls
  <2>3. \A d, e \in T : q[e] < q[d] => k.next[d] # NULL /\ q[e] <= q[k.next[d]]
    <3>1. ASSUME NEW d \in T, NEW e \in T, q[e] < q[d] PROVE k.next[d] # NULL /\ q[e] <= q[k.next[d]]
      <4>1. e \in S
        BY <3>1, <1>4
      <4>2. CASE d = c
        <5>1. l.head # NULL /\ l.head \in S /\ k.next[d] = l.head
          BY <4>1, <4>2, <1>1, <1>2 DEF Holds
        <5>. QED BY <5>1, <4>1, <1>1, <1>4 DEF Falls
      <4>3. CASE d \in S
        <5>1. l.next[d] # NULL /\ r[e] <= r[l.next[d]] /\ l.next[d] \in S
          BY <4>1, <4>3, <3>1, <1>1, <1>4 DEF Falls, Holds
        <5>2. k.next[d] = l.next[d]
          BY <4>3, <1>2, <1>3
        <5>. QED BY <5>1, <5>2, <4>1, <1>4
      <4>. QED BY <4>2, <4>3
    <3>. QED BY <3>1
  <2>4. \A d, e \in T : q[d] = q[e] => d = e
    BY <1>1, <1>4 DEF Falls
  <2>. QED BY <2>1, <2>2, <2>3, <2>4 DEF Falls
<1>7. k.iterator \in T \cup {NULL} /\ D = ToCome(k.iterator, T, q)
  <2>1. CASE l.iterator = NULL
    BY <2>1, <1>1, <1>2 DEF ToCome
  <2>2. CASE l.iterator # NULL
    <3>1. l.iterator \in S /\ l.iterator = k.iterator
      BY <2>2, <1>1, <1>2
    <3>2. {d \in T : q[d] < q[l.iterator]} = {d \in S : r[d] < r[l.iterator]}
      BY <3>1, <1>4
    <3>. QED BY <2>2, <3>1, <3>2, <1>1 DEF ToCome
  <2>. QED BY <2>1, <2>2
<1>8. Ordered(k, T, D, q)
  BY <1>2, <1>5, <1>6, <1>7 DEF Ordered
<1>. QED BY <1>4, <1>8 DEF k

(* A context that goes leaves the order of the others.                        *)
LEMMA UnlinkOrdered ==
  ASSUME NEW l, NEW S \in SUBSET Contexts, NEW D, NEW r \in Ranks, Ordered(l, S, D, r),
         NEW c \in S, l.iterator # c
  PROVE  Ordered(Unlink(l, c), S \ {c}, D \ {c}, r)
<1> DEFINE k == Unlink(l, c)
           T == S \ {c}
           n == l.next[c]
           p == IF l.head = c THEN NULL ELSE l.prev[c]
<1>1. /\ l \in Lists /\ Holds(l, S) /\ Falls(l, S, r) /\ l.iterator \in S \cup {NULL}
      /\ D = ToCome(l.iterator, S, r) /\ c \in Contexts
  BY DEF Ordered
<1>2. /\ k \in Lists /\ k.head = (IF l.head = c THEN n ELSE l.head) /\ k.iterator = l.iterator
      /\ \A d \in Contexts : k.next[d] = IF d = p THEN n ELSE l.next[d]
      /\ \A d \in Contexts : k.prev[d] = IF d = n THEN p ELSE l.prev[d]
  BY <1>1, UnlinkWrites
<1>3. c # NULL /\ NULL \notin S /\ \A d \in S : d \in Contexts /\ r[d] \in Int
  BY ContextsAssumption DEF Ranks
<1>4. /\ n # NULL => n \in S /\ l.prev[n] = c /\ r[n] < r[c]
      /\ p # NULL => p \in S /\ l.next[p] = c /\ r[c] < r[p]
      /\ p = NULL <=> l.head = c
      /\ p = NULL => l.prev[c] = NULL
  <2>1. n # NULL => n \in S /\ l.prev[n] = c /\ r[n] < r[c]
    BY <1>1 DEF Holds, Falls
  <2>2. p = NULL <=> l.head = c
    BY <1>1 DEF Holds
  <2>3. p = NULL => l.prev[c] = NULL
    BY <1>1, <1>3, <2>2 DEF Holds
  <2>4. p # NULL => p \in S /\ l.next[p] = c
    BY <1>1 DEF Holds
  <2>5. p # NULL => r[c] < r[p]
    BY <2>4, <1>1, <1>3 DEF Falls
  <2>. QED BY <2>1, <2>2, <2>3, <2>4, <2>5
<1>5. n # c /\ p # c /\ (n # NULL => n # p) /\ (n = p => n = NULL)
  BY <1>3, <1>4
<1> HIDE DEF k, n, p
<1>6. \A d \in T : /\ l.next[d] = c <=> d = p
                   /\ l.prev[d] = c <=> d = n
  <2>1. ASSUME NEW d \in T PROVE l.next[d] = c <=> d = p
    BY <2>1, <1>1, <1>3, <1>4 DEF Holds, p
  <2>2. ASSUME NEW d \in T PROVE l.prev[d] = c <=> d = n
    BY <2>2, <1>1, <1>3, <1>4 DEF Holds, n
  <2>. QED BY <2>1, <2>2
<1>7. Holds(k, T)
  <2>1. k.head \in T \cup {NULL} /\ (T # {} => k.head # NULL)
    <3>1. CASE l.head # c
      BY <3>1, <1>1, <1>2 DEF Holds
    <3>2. CASE l.head = c
      <4>1. n \in T \cup {NULL}
        BY <1>4, <1>5
      <4>2. ASSUME NEW d \in T PROVE n # NULL
        <5>1. r[d] <= r[c] /\ r[d] # r[c]
          BY <3>2, <1>1 DEF Falls
        <5>2. r[d] < r[c]
          BY <5>1, <1>3
        <5>. QED BY <5>2, <1>1 DEF Falls, n
      <4>. QED BY <3>2, <4>1, <4>2, <1>2
    <3>. QED BY <3>1, <3>2
  <2>2. k.head # NULL => k.prev[k.head] = NULL
    <3>1. CASE l.head = c
      BY <3>1, <1>2, <1>3, <1>4
    <3>2. CASE l.head # c
      <4>1. l.head # n
        BY <3>2, <1>1, <1>3, <1>4 DEF Holds
      <4>. QED BY <3>2, <4>1, <1>1, <1>2, <1>3 DEF Holds
    <3>. QED BY <3>1, <3>2
  <2>3. ASSUME NEW d \in T
        PROVE  IF k.prev[d] = NULL THEN k.head = d ELSE k.prev[d] \in T /\ k.next[k.prev[d]] = d
    <3>0. d \in Contexts /\ d \in S /\ d # c
      BY <1>3
    <3>1. CASE d = n
      <4>1. k.prev[d] = p
        BY <3>0, <3>1, <1>2
      <4>2. CASE p = NULL
        BY <4>1, <4>2, <3>1, <1>2, <1>4
      <4>3. CASE p # NULL
        <5>1. p \in T /\ p \in Contexts
          BY <4>3, <1>3, <1>4, <1>5
        <5>. QED BY <4>1, <4>3, <5>1, <3>1, <1>2
      <4>. QED BY <4>2, <4>3
    <3>2. CASE d # n
      <4>1. k.prev[d] = l.prev[d] /\ l.prev[d] # c
        BY <3>0, <3>2, <1>2, <1>6
      <4>2. CASE l.prev[d] = NULL
        <5>1. l.head = d
          BY <4>2, <3>0, <1>1 DEF Holds
        <5>. QED BY <4>1, <4>2, <5>1, <3>0, <1>2
      <4>3. CASE l.prev[d] # NULL
        <5>1. l.prev[d] \in T /\ l.next[l.prev[d]] = d
          BY <4>1, <4>3, <3>0, <1>1 DEF Holds
        <5>2. l.prev[d] # p
          BY <5>1, <3>0, <1>6
        <5>3. k.next[l.prev[d]] = d
          BY <5>1, <5>2, <1>2, <1>3
        <5>. QED BY <4>1, <4>3, <5>1, <5>3
      <4>. QED BY <4>2, <4>3
    <3>. QED BY <3>1, <3>2
  <2>4. ASSUME NEW d \in T, k.next[d] # NULL PROVE k.next[d] \in T /\ k.prev[k.next[d]] = d
    <3>0. d \in Contexts /\ d \in S /\ d # c
      BY <1>3
    <3>1. CASE d = p
      <4>1. k.next[d] = n /\ n \in T /\ n \in Contexts
        BY <3>0, <3>1, <2>4, <1>2, <1>3, <1>4, <1>5
      <4>. QED BY <4>1, <3>1, <1>2
    <3>2. CASE d # p
      <4>1. k.next[d] = l.next[d] /\ l.next[d] # c
        BY <3>0, <3>2, <1>2, <1>6
      <4>2. l.next[d] \in T /\ l.prev[l.next[d]] = d
        BY <4>1, <3>0, <2>4, <1>1 DEF Holds
      <4>3. l.next[d] # n
        BY <4>2, <3>0, <1>6
      <4>. QED BY <4>1, <4>2, <4>3, <1>2, <1>3
    <3>. QED BY <3>1, <3>2
  <2>. QED BY <2>1, <2>2, <2>3, <2>4 DEF Holds
<1>8. Falls(k, T, r)
  <2>1. ASSUME NEW d \in T PROVE r[d] <= r[k.head]
    <3>1. CASE l.head # c
      BY <3>1, <1>1, <1>2 DEF Falls
    <3>2. CASE l.head = c
      <4>1. r[d] <= r[c] /\ r[d] # r[c]
        BY <3>2, <1>1 DEF Falls
      <4>2. r[d] < r[c]
        BY <4>1, <1>3
      <4>. QED BY <4>2, <3>2, <1>1, <1>2 DEF Falls, n
    <3>. QED BY <3>1, <3>2
  <2>2. ASSUME NEW d \in T, k.next[d] # NULL PROVE r[k.next[d]] < r[d]
    <3>1. CASE d = p
      <4>1. k.next[d] = n /\ n \in S /\ p \in S /\ r[n] < r[c] /\ r[c] < r[p]
        BY <3>1, <2>2, <1>2, <1>3, <1>4
      <4>. QED BY <4>1, <3>1, <1>3
    <3>2. CASE d # p
      BY <3>2, <2>2, <1>1, <1>2, <1>3 DEF Falls
    <3>. QED BY <3>1, <3>2
  <2>3. ASSUME NEW d \in T, NEW e \in T, r[e] < r[d] PROVE k.next[d] # NULL /\ r[e] <= r[k.next[d]]
    <3>1. l.next[d] # NULL /\ r[e] <= r[l.next[d]]
      BY <2>3, <1>1 DEF Falls
    <3>2. CASE d # p
      BY <3>1, <3>2, <1>2, <1>3
    <3>3. CASE d = p
      <4>1. l.next[d] = c /\ k.next[d] = n
        BY <3>3, <1>2, <1>3, <1>6
      <4>2. r[e] <= r[c] /\ r[e] # r[c]
        BY <3>1, <4>1, <1>1 DEF Falls
      <4>3. r[e] < r[c]
        BY <4>2, <1>3
      <4>. QED BY <4>1, <4>3, <1>1 DEF Falls, n
    <3>. QED BY <3>2, <3>3
  <2>. QED BY <2>1, <2>2, <2>3, <1>1 DEF Falls
<1>9. k.iterator \in T \cup {NULL} /\ D \ {c} = ToCome(k.iterator, T, r)
  BY <1>1, <1>2 DEF ToCome
<1>. QED BY <1>2, <1>7, <1>8, <1>9 DEF Ordered, k

(* No handler frees the context that the sweep stands on, which neither        *)
(* us_internal_loop_unlink nor the sweep looks out for.                        *)
FreesOthers == "free_swept" \notin Inputs

(* Steps that leave the list and the contexts in it.                          *)
LEMMA ListStays ==
  ASSUME ListOK, Linked' = Linked, UNCHANGED <<list, due>>
  PROVE  ListOK'
BY DEF ListOK

(* A context that is linked joins the list.                                   *)
LEMMA ListLinked ==
  ASSUME ListOK, NEW c \in Contexts, c \notin Linked, list' = Link(list, c), Linked' = Linked \cup {c},
         UNCHANGED due
  PROVE  ListOK'
<1>1. PICK r \in Ranks : Ordered(list, Linked, due, r)
  BY DEF ListOK
<1>2. Linked \in SUBSET Contexts
  BY DEF Linked
<1>3. \E q \in Ranks : Ordered(Link(list, c), Linked \cup {c}, due, q)
  BY <1>1, <1>2, LinkOrdered
<1>. QED BY <1>3 DEF ListOK

(* A context that is freed leaves it, unless the sweep stands on it.          *)
LEMMA ListUnlinked ==
  ASSUME ListOK, FreesOthers, ContextsOK, NEW c \in Contexts, Free(c)
  PROVE  ListOK'
<1>1. PICK r \in Ranks : Ordered(list, Linked, due, r)
  BY DEF ListOK
<1>2. /\ c \in Linked /\ list.iterator # c /\ list' = Unlink(list, c) /\ due' = due \ {c}
      /\ Linked \in SUBSET Contexts
  BY DEF Free, MayFree, FreesOthers, Linked
<1>3. Linked' = Linked \ {c}
  <2>1. /\ context'[c].kind = "free"
        /\ \A b \in Contexts : b # c => context'[b] = context[b]
    BY FreedContextOK
  <2>. QED BY <2>1 DEF Linked
<1>4. Ordered(Unlink(list, c), Linked \ {c}, due \ {c}, r)
  BY <1>1, <1>2, UnlinkOrdered
<1>. QED BY <1>2, <1>3, <1>4 DEF ListOK

(* The sweep starts at the head, and goes on to the next of lower rank.        *)
LEMMA SweepMoves ==
  ASSUME NEW l \in Lists, NEW i \in Contexts \cup {NULL}
  PROVE  LET k == [l EXCEPT !.iterator = i]
         IN k \in Lists /\ k.head = l.head /\ k.next = l.next /\ k.prev = l.prev /\ k.iterator = i
BY DEF Lists

(* Only where the sweep stands changes.                                       *)
LEMMA SweepStays ==
  ASSUME NEW l, NEW S, NEW D, NEW r, Ordered(l, S, D, r),
         NEW k \in Lists, k.head = l.head, k.next = l.next, k.prev = l.prev,
         k.iterator \in S \cup {NULL}
  PROVE  Ordered(k, S, ToCome(k.iterator, S, r), r)
BY DEF Ordered, Holds, Falls

(* The sweep starts at the head, with all others to come.                     *)
LEMMA SweepStarts ==
  ASSUME ListOK, TimerSweep
  PROVE  ListOK' /\ list'.iterator # NULL
<1>1. PICK r \in Ranks : Ordered(list, Linked, due, r)
  BY DEF ListOK
<1>2. /\ list.head # NULL /\ list' = [list EXCEPT !.iterator = list.head] /\ UNCHANGED context
      /\ due' = Linked \ {list.head}
  BY DEF TimerSweep, SweepTo
<1>3. list \in Lists /\ Holds(list, Linked) /\ Falls(list, Linked, r) /\ list.head \in Linked
      /\ \A c \in Linked : c \in Contexts /\ r[c] \in Int
  BY <1>1, <1>2 DEF Ordered, Holds, Linked, Ranks
<1>4. /\ list' \in Lists /\ list'.head = list.head /\ list'.next = list.next /\ list'.prev = list.prev
      /\ list'.iterator = list.head
  BY <1>2, <1>3, SweepMoves
<1>5. due' = ToCome(list.head, Linked, r)
  <2>1. \A c \in Linked : c # list.head <=> r[c] < r[list.head]
    <3>1. \A c \in Linked : r[c] <= r[list.head] /\ (r[c] = r[list.head] => c = list.head)
      BY <1>3 DEF Falls
    <3>. QED BY <3>1, <1>3
  <2>. QED BY <2>1, <1>2 DEF ToCome
<1>6. Ordered(list', Linked, due', r)
  BY <1>1, <1>3, <1>4, <1>5, SweepStays
<1>7. Linked' = Linked
  BY <1>2 DEF Linked
<1>. QED BY <1>2, <1>4, <1>6, <1>7 DEF ListOK

(* It goes on to the neighbour, which is one that is to come.                 *)
LEMMA SweepGoesOn ==
  ASSUME ListOK, SweepNext
  PROVE  /\ ListOK'
         /\ IF list'.iterator = NULL THEN due = {} ELSE list'.iterator \in due
<1>1. PICK r \in Ranks : Ordered(list, Linked, due, r)
  BY DEF ListOK
<1> DEFINE i == list.iterator
           n == list.next[i]
<1>2. /\ i # NULL /\ list' = [list EXCEPT !.iterator = n] /\ UNCHANGED context
      /\ due' = due \ {n}
  BY DEF SweepNext, SweepTo, Sweeping
<1>3. /\ list \in Lists /\ Holds(list, Linked) /\ Falls(list, Linked, r) /\ i \in Linked
      /\ due = {d \in Linked : r[d] < r[i]}
      /\ \A c \in Linked : c \in Contexts /\ c # NULL /\ r[c] \in Int
  BY <1>1, <1>2, ContextsAssumption DEF Ordered, Linked, Ranks, ToCome
<1>4. n # NULL => n \in Linked /\ r[n] < r[i]
  BY <1>3 DEF Holds, Falls
<1>5. n \in Contexts \cup {NULL}
  BY <1>3, <1>4
<1>6. /\ list' \in Lists /\ list'.head = list.head /\ list'.next = list.next /\ list'.prev = list.prev
      /\ list'.iterator = n
  BY <1>2, <1>3, <1>5, SweepMoves
<1>7. \A d \in due : n # NULL /\ r[d] <= r[n]
  BY <1>3 DEF Falls
<1> HIDE DEF i, n
<1>8. due' = ToCome(n, Linked, r)
  <2>1. CASE n = NULL
    BY <2>1, <1>2, <1>7 DEF ToCome
  <2>2. CASE n # NULL
    <3>1. \A d \in Linked : d \in due /\ d # n <=> r[d] < r[n]
      <4>1. ASSUME NEW d \in Linked PROVE d \in due /\ d # n <=> r[d] < r[n]
        <5>1. r[d] \in Int /\ r[n] \in Int /\ r[i] \in Int /\ r[n] < r[i]
          BY <2>2, <1>3, <1>4
        <5>2. d \in due <=> r[d] < r[i]
          BY <1>3
        <5>3. r[d] = r[n] => d = n
          BY <2>2, <1>3, <1>4 DEF Falls
        <5>4. d \in due => r[d] <= r[n]
          BY <1>7
        <5>. QED BY <5>1, <5>2, <5>3, <5>4
      <4>. QED BY <4>1
    <3>2. due \subseteq Linked
      BY <1>3
    <3>. QED BY <3>1, <3>2, <2>2, <1>2 DEF ToCome
  <2>. QED BY <2>1, <2>2
<1>9. Ordered(list', Linked, due', r)
  BY <1>1, <1>4, <1>6, <1>8, SweepStays
<1>10. Linked' = Linked
  BY <1>2 DEF Linked
<1>11. ListOK'
  BY <1>9, <1>10 DEF ListOK
<1>12. IF n = NULL THEN due = {} ELSE n \in due
  BY <1>3, <1>4, <1>7
<1>. QED BY <1>6, <1>11, <1>12

(* Every step keeps the order of the list, and moves the sweep as SweepsEach  *)
(* says.                                                                      *)
LEMMA ListStep ==
  ASSUME FreesOthers, ContextsOK, ListOK, [Next]_vars
  PROVE  /\ ListOK'
         /\ list'.iterator # list.iterator =>
              IF list'.iterator = NULL THEN due = {} ELSE list'.iterator \in due \/ ~Sweeping
<1> DEFINE Goal == /\ ListOK'
                   /\ list'.iterator # list.iterator =>
                        IF list'.iterator = NULL THEN due = {} ELSE list'.iterator \in due \/ ~Sweeping
<1>1. list \in Lists
  BY DEF ListOK, Ordered
<1>2. ASSUME Linked' = Linked, UNCHANGED <<list, due>> PROVE Goal
  BY <1>2, ListStays
<1>3. ASSUME NEW c \in Contexts, c \notin Linked, context'[c].kind # "free",
             \A b \in Contexts : b # c => context'[b] = context[b],
             list' = Link(list, c), UNCHANGED due
      PROVE  Goal
  <2>1. Linked' = Linked \cup {c}
    BY <1>3 DEF Linked
  <2>2. ListOK'
    BY <1>3, <2>1, ListLinked
  <2>3. list'.iterator = list.iterator
    BY <1>1, <1>3, LinkWrites
  <2>. QED BY <2>2, <2>3
<1>4. ASSUME NEW c \in Contexts, Free(c) PROVE Goal
  <2>1. ListOK'
    BY <1>4, ListUnlinked
  <2>2. list'.iterator = list.iterator
    BY <1>1, <1>4, UnlinkWrites DEF Free
  <2>. QED BY <2>1, <2>2
<1>5. ASSUME TimerSweep PROVE Goal
  BY <1>5, SweepStarts DEF TimerSweep
<1>6. ASSUME SweepNext PROVE Goal
  BY <1>6, SweepGoesOn
<1>7. ASSUME NEW c \in Contexts, CreateContext(c) PROVE Goal
  <2>1. /\ c \notin Linked /\ context'[c].kind # "free"
        /\ \A b \in Contexts : b # c => context'[b] = context[b]
    BY <1>7, CreateContextOK
  <2>2. list' = Link(list, c) /\ UNCHANGED due
    BY <1>7 DEF CreateContext
  <2> HIDE DEF Goal
  <2>. QED BY <2>1, <2>2, <1>3
<1>8. ASSUME NEW c \in Contexts, NEW p \in Contexts, CreateChild(c, p) PROVE Goal
  <2>1. /\ c \notin Linked /\ context'[c].kind # "free"
        /\ \A b \in Contexts : b # c => context'[b] = context[b]
    BY <1>8, CreateChildOK
  <2>2. list' = Link(list, c) /\ UNCHANGED due
    BY <1>8 DEF CreateChild
  <2> HIDE DEF Goal
  <2>. QED BY <2>1, <2>2, <1>3
<1>9. ASSUME NEW c \in Contexts, NEW x \in SslCtxs, NEW o \in SomeOptions, CreateSslContext(c, x, o) PROVE Goal
  <2>1. CASE o.valid
    <3>1. /\ c \notin Linked /\ context'[c].kind # "free"
          /\ \A b \in Contexts : b # c => context'[b] = context[b]
      BY <1>9, <2>1, CreateSslContextOK
    <3>2. list' = Link(list, c) /\ UNCHANGED due
      BY <1>9, <2>1 DEF CreateSslContext
    <3> HIDE DEF Goal
    <3>. QED BY <3>1, <3>2, <1>3
  <2>2. CASE ~o.valid
    <3>1. Linked' = Linked /\ UNCHANGED <<list, due>>
      BY <1>9, <2>2 DEF CreateSslContext, Linked
    <3> HIDE DEF Goal
    <3>. QED BY <3>1, <1>2
  <2>. QED BY <2>1, <2>2
<1>10. ASSUME NEW c \in Contexts, NEW x \in SslCtxs, NEW o \in SomeOptions, NEW name \in Names,
              AddServerName(c, name, x, o)
       PROVE  Goal
  <2>1. Linked' = Linked
    <3>1. CASE o.valid
      BY <3>1, <1>10, AddServerNameOK, KindsKeptOK
    <3>2. CASE ~o.valid
      BY <3>2, <1>10, AddServerNameOK DEF Linked
    <3>. QED BY <3>1, <3>2
  <2>2. UNCHANGED <<list, due>>
    BY <1>10 DEF AddServerName
  <2> HIDE DEF Goal
  <2>. QED BY <2>1, <2>2, <1>2
<1>11. ASSUME NEW c \in Contexts, OnServerName(c) \/ \E name \in Names : RemoveServerName(c, name) PROVE Goal
  <2>1. Linked' = Linked
    BY <1>11, OnServerNameOK, RemoveServerNameOK, KindsKeptOK
  <2>2. UNCHANGED <<list, due>>
    BY <1>11 DEF OnServerName, RemoveServerName
  <2> HIDE DEF Goal
  <2>. QED BY <2>1, <2>2, <1>2
<1>12. ASSUME UNCHANGED <<list, due, context>> PROVE Goal
  <2>1. Linked' = Linked
    BY <1>12 DEF Linked
  <2> HIDE DEF Goal
  <2>. QED BY <2>1, <1>2, <1>12
<1>13. ASSUME NEW c \in Contexts, NEW d \in Descriptors, MakesSocket(c, d) PROVE UNCHANGED <<list, due, context>>
  BY <1>13, MakesAre DEF Make
<1>14. ASSUME \/ UNCHANGED vars
              \/ \E h \in Handshakes : \/ Retry(h) \/ CloseSsl(h)
                                       \/ \E name \in Hellos : ClientHello(h, name)
                                       \/ \E d \in Descriptors : Open(h, d)
              \/ \E d \in Descriptors : CloseSocket(d)
       PROVE  UNCHANGED <<list, due, context>>
  BY <1>14 DEF vars, Retry, CloseSsl, ClientHello, Open, CloseSocket
<1> HIDE DEF Goal
<1>15. ASSUME UNCHANGED vars PROVE Goal
  BY <1>12, <1>14, <1>15
<1>16. ASSUME Next PROVE Goal
  BY <1>4, <1>5, <1>6, <1>7, <1>8, <1>9, <1>10, <1>11, <1>12, <1>13, <1>14, <1>16, Steps
<1>17. Goal
  BY <1>15, <1>16
<1>. QED BY <1>17 DEF Goal

(* The list is empty at the start.                                            *)
LEMMA InitListOK ==
  ASSUME Init
  PROVE  ListOK
<1>1. Linked = {} /\ due = {}
  BY DEF Init, Linked, FreeContext
<1>2. list \in Lists /\ list.head = NULL /\ list.iterator = NULL
  BY DEF Init, Lists
<1> DEFINE r == [c \in Contexts |-> 0]
<1>3. Ordered(list, {}, {}, r)
  BY <1>1, <1>2 DEF Ordered, Holds, Falls, ToCome
<1>4. r \in Ranks
  BY DEF Ranks
<1>. QED BY <1>1, <1>3, <1>4 DEF ListOK

(* So the list is always in order.                                            *)
LEMMA ListAlwaysOK ==
  ASSUME FreesOthers
  PROVE  Spec => []ListOK
<1>1. Init => ListOK
  BY InitListOK
<1>2. ContextsOK /\ ListOK /\ [Next]_vars => ListOK'
  BY ListStep
<1>. QED BY <1>1, <1>2, ContextsAlwaysOK, PTL DEF Spec

(* The list of a loop holds exactly the contexts that are not freed, whatever  *)
(* is created and freed in the middle of a sweep (loop.c).                     *)
THEOREM ListStaysSound ==
  ASSUME FreesOthers
  PROVE  Spec => []ListSound
<1>1. ListOK => ListSound
  <2> SUFFICES ASSUME ListOK PROVE ListSound
    OBVIOUS
  <2>1. PICK r \in Ranks : Ordered(list, Linked, due, r)
    BY DEF ListOK
  <2>2. Holds(list, Linked) /\ list.iterator \in Linked \cup {NULL} /\ NULL \notin Linked
    BY <2>1, ContextsAssumption DEF Ordered, Linked
  <2>. QED BY <2>2 DEF Holds, ListSound
<1>. QED BY <1>1, ListAlwaysOK, PTL

(* A sweep comes once to each context that is there from its start to its end, *)
(* and to none that is newer (us_internal_timer_sweep).                        *)
THEOREM SweepReachesEach ==
  ASSUME FreesOthers
  PROVE  Spec => SweepsEach
<1>1. ContextsOK /\ ListOK /\ [Next]_vars =>
        [list.iterator' # list.iterator =>
           IF list.iterator' = NULL THEN due = {}
           ELSE list.iterator' \in due \/ ~Sweeping]_vars
  BY ListStep
<1>. QED BY <1>1, ListAlwaysOK, ContextsAlwaysOK, PTL DEF Spec, SweepsEach

==================================================================================
