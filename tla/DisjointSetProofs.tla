------------------------- MODULE DisjointSetProofs --------------------------
(***************************************************************************)
(* The union-find forest of disjointset.h keeps its promise: whatever is   *)
(* linked under what, and however the paths are compressed, get_set_node   *)
(* returns what module Partition says, and the ranks bound the depth of    *)
(* find_set.                                                               *)
(*                                                                         *)
(* find_set recurses along the parents, so that each fact about Root and   *)
(* Path is an induction along them.  Lemma AlongParents is that induction, *)
(* from the ranks, which grow along every edge.                            *)
(***************************************************************************)
EXTENDS DisjointSet, FiniteSetTheorems, TLAPS

\* Ranks r grow along the parents p, up to some bound.
Forest(p, r) ==
  /\ p \in [Nodes -> Nodes] /\ r \in [Nodes -> Nat]
  /\ \A n \in Nodes : p[n] # n => r[n] < r[p[n]]
  /\ \E bound \in Nat : \A n \in Nodes : r[n] <= bound

-----------------------------------------------------------------------------
\* A set of naturals with a member has a least one.
LEMMA LeastExists ==
  ASSUME NEW T \in SUBSET Nat, T # {}
  PROVE  \E x \in T : \A y \in T : x <= y
<1>1. PICK R : R = OpToRel(<, Nat)
  OBVIOUS
<1>2. PICK x \in T : \A y \in T : ~(<<y, x>> \in R)
  BY <1>1, NatLessThanWellFounded, WFMin
<1>3. ASSUME NEW y \in Nat, y < x PROVE <<y, x>> \in R
  BY <1>1, <1>3 DEF OpToRel
<1>4. ASSUME NEW y \in T PROVE x <= y
  <2>1. x \in Nat /\ y \in Nat
    OBVIOUS
  <2>2. ~(y < x)
    BY <1>2, <1>3, <2>1
  <2>3. QED
    BY <2>1, <2>2
<1>5. QED
  BY <1>4

\* A set that holds a node whenever the node is a root or the set holds its
\* parent, holds every node.
LEMMA AlongParents ==
  ASSUME NEW p, NEW r, Forest(p, r), NEW S,
         \A x \in Nodes : (p[x] = x \/ p[x] \in S) => x \in S
  PROVE  \A x \in Nodes : x \in S
<1> SUFFICES ASSUME NEW z \in Nodes, z \notin S PROVE FALSE
  OBVIOUS
<1>1. PICK bound \in Nat : \A n \in Nodes : r[n] <= bound
  BY DEF Forest
<1>2. PICK T : T = {d \in Nat : \E x \in Nodes : x \notin S /\ d = bound - r[x]}
  OBVIOUS
<1>3. \A x \in Nodes : x \notin S => bound - r[x] \in T
  BY <1>1, <1>2 DEF Forest
<1>4. PICK d \in T : \A e \in T : d <= e
  BY <1>2, <1>3, LeastExists
<1>5. PICK x \in Nodes : x \notin S /\ d = bound - r[x]
  BY <1>2, <1>4
<1>6. p[x] \in Nodes /\ p[x] \notin S /\ r[x] < r[p[x]]
  BY <1>5 DEF Forest
<1>7. d <= bound - r[p[x]] /\ r[x] \in Nat /\ r[p[x]] \in Nat
  BY <1>3, <1>4, <1>6 DEF Forest
<1>8. QED
  BY <1>5, <1>6, <1>7

-----------------------------------------------------------------------------
\* The nodes on the way up from x, without recursion: the members of every
\* set that holds x and is closed under p.
Closed(p, S) == \A z \in S : p[z] \in S
Above(p, x) == {y \in Nodes : \A S \in SUBSET Nodes : x \in S /\ Closed(p, S) => y \in S}

\* A node and the nodes above its parent are those above it.
LEMMA AboveUnfolds ==
  ASSUME NEW p \in [Nodes -> Nodes], NEW x \in Nodes
  PROVE  Above(p, x) = {x} \cup IF p[x] = x THEN {} ELSE Above(p, p[x])
<1>1. PICK S : S = {x} \cup IF p[x] = x THEN {} ELSE Above(p, p[x])
  OBVIOUS
<1>2. p[x] \in Nodes /\ p[x] \in Above(p, p[x])
  BY DEF Above
<1>3. ASSUME NEW z \in Above(p, p[x]) PROVE p[z] \in Above(p, p[x])
  BY <1>3 DEF Above, Closed
<1>4. S \in SUBSET Nodes /\ x \in S /\ Closed(p, S)
  BY <1>1, <1>2, <1>3 DEF Above, Closed
<1>5. Above(p, x) \subseteq S
  BY <1>4 DEF Above
<1>6. ASSUME NEW y \in Above(p, p[x]) PROVE y \in Above(p, x)
  BY <1>6 DEF Above, Closed
<1>7. x \in Above(p, x)
  BY DEF Above
<1>8. QED
  BY <1>1, <1>5, <1>6, <1>7

\* The recursive functions of Root and Path exist, and so unfold.
LEMMA RootUnfolds ==
  ASSUME NEW p \in [Nodes -> Nodes], NEW x \in Nodes
  PROVE  Root(p, x) = IF p[x] = x THEN x ELSE Root(p, p[x])
<1> DEFINE G(g) == g = [y \in Nodes |-> IF p[y] = y THEN y ELSE g[p[y]]]
           c == CHOOSE g : G(g)
<1>1. \E g : G(g)
  <2>1. PICK g : g = [y \in Nodes |-> CHOOSE n : n \in Above(p, y) /\ p[n] = n]
    OBVIOUS
  <2>2. ASSUME NEW y \in Nodes PROVE g[y] = IF p[y] = y THEN y ELSE g[p[y]]
    <3>1. Above(p, y) = {y} \cup IF p[y] = y THEN {} ELSE Above(p, p[y])
      BY AboveUnfolds
    <3>2. CASE p[y] = y
      BY <2>1, <3>1, <3>2
    <3>3. CASE p[y] # y
      <4>1. \A n : (n \in Above(p, y) /\ p[n] = n) <=> (n \in Above(p, p[y]) /\ p[n] = n)
        BY <3>1, <3>3
      <4>2. (CHOOSE n : n \in Above(p, y) /\ p[n] = n)
              = (CHOOSE n : n \in Above(p, p[y]) /\ p[n] = n)
        BY <4>1
      <4>3. p[y] \in Nodes
        OBVIOUS
      <4>4. /\ g[y] = CHOOSE n : n \in Above(p, y) /\ p[n] = n
            /\ g[p[y]] = CHOOSE n : n \in Above(p, p[y]) /\ p[n] = n
        BY <2>1, <4>3
      <4>5. QED
        BY <3>3, <4>2, <4>4
    <3>4. QED
      BY <3>2, <3>3
  <2>3. G(g)
    BY <2>1, <2>2
  <2>4. QED
    BY <2>3
<1>2. G(c)
  BY <1>1
<1>3. \A y : Root(p, y) = c[y]
  BY DEF Root
<1>4. c = [y \in Nodes |-> IF p[y] = y THEN y ELSE c[p[y]]]
  BY <1>2
<1> HIDE DEF c
<1>5. QED
  BY <1>3, <1>4

\* The recursive Path obeys its equation, as there are finitely many nodes.
LEMMA PathUnfolds ==
  ASSUME NEW p \in [Nodes -> Nodes], NEW x \in Nodes
  PROVE  Path(p, x) = {x} \cup IF p[x] = x THEN {} ELSE Path(p, p[x])
<1> DEFINE G(g) == g = [y \in Nodes |-> {y} \cup IF p[y] = y THEN {} ELSE g[p[y]]]
           c == CHOOSE g : G(g)
<1>1. \E g : G(g)
  <2>1. PICK g : g = [y \in Nodes |-> Above(p, y)]
    OBVIOUS
  <2>2. ASSUME NEW y \in Nodes PROVE g[y] = {y} \cup IF p[y] = y THEN {} ELSE g[p[y]]
    BY <2>1, AboveUnfolds
  <2>3. G(g)
    BY <2>1, <2>2
  <2>4. QED
    BY <2>3
<1>2. G(c)
  BY <1>1
<1>3. \A y : Path(p, y) = c[y]
  BY DEF Path
<1>4. c = [y \in Nodes |-> {y} \cup IF p[y] = y THEN {} ELSE c[p[y]]]
  BY <1>2
<1> HIDE DEF c
<1>5. QED
  BY <1>3, <1>4

-----------------------------------------------------------------------------
\* A function that is the identity on roots and the same along every edge
\* agrees with ... any function of the root.
LEMMA RootIsUnique ==
  ASSUME NEW p, NEW r, Forest(p, r), NEW h,
         \A y \in Nodes : IF p[y] = y THEN h[y] = y ELSE h[y] = h[p[y]]
  PROVE  \A y \in Nodes : Root(p, y) = h[y]
<1>1. PICK S : S = {y \in Nodes : Root(p, y) = h[y]}
  OBVIOUS
<1>2. ASSUME NEW x \in Nodes, p[x] = x \/ p[x] \in S PROVE x \in S
  <2>1. Root(p, x) = IF p[x] = x THEN x ELSE Root(p, p[x])
    BY RootUnfolds DEF Forest
  <2>2. QED
    BY <1>1, <1>2, <2>1
<1>3. \A x \in Nodes : x \in S
  BY <1>2, AlongParents
<1>4. QED
  BY <1>1, <1>3

\* find_set returns a root, of higher rank than any other node on the way.
LEMMA RootIsRoot ==
  ASSUME NEW p, NEW r, Forest(p, r)
  PROVE  \A x \in Nodes :
           /\ Root(p, x) \in Nodes /\ p[Root(p, x)] = Root(p, x)
           /\ Root(p, x) = x <=> p[x] = x
           /\ p[x] # x => r[x] < r[Root(p, x)]
<1>1. PICK S : S = {x \in Nodes : /\ Root(p, x) \in Nodes /\ p[Root(p, x)] = Root(p, x)
                                  /\ p[x] # x => r[x] < r[Root(p, x)]}
  OBVIOUS
<1>2. ASSUME NEW x \in Nodes, p[x] = x \/ p[x] \in S PROVE x \in S
  <2>1. Root(p, x) = IF p[x] = x THEN x ELSE Root(p, p[x])
    BY RootUnfolds DEF Forest
  <2>2. CASE p[x] = x
    BY <1>1, <2>1, <2>2
  <2>3. CASE p[x] # x
    <3>1. p[x] \in S /\ Root(p, x) = Root(p, p[x])
      BY <1>2, <2>1, <2>3
    <3>2. Root(p, x) \in Nodes /\ p[Root(p, x)] = Root(p, x)
      BY <1>1, <3>1
    <3>3. r[x] < r[p[x]] /\ r[x] \in Nat /\ r[p[x]] \in Nat /\ r[Root(p, x)] \in Nat
      BY <2>3, <3>1, <3>2 DEF Forest
    <3>4. p[p[x]] # p[x] => r[p[x]] < r[Root(p, x)]
      BY <1>1, <3>1
    <3>5. p[p[x]] = p[x] => Root(p, x) = p[x]
      <4>1. Root(p, p[x]) = IF p[p[x]] = p[x] THEN p[x] ELSE Root(p, p[p[x]])
        BY RootUnfolds DEF Forest
      <4>2. QED
        BY <3>1, <4>1
    <3>6. r[x] < r[Root(p, x)]
      BY <3>3, <3>4, <3>5
    <3>7. QED
      BY <1>1, <3>2, <3>6
  <2>4. QED
    BY <2>2, <2>3
<1>3. \A x \in Nodes : x \in S
  BY <1>2, AlongParents
<1>4. \A x \in Nodes : p[x] = x => Root(p, x) = x
  BY RootUnfolds DEF Forest
<1>5. QED
  BY <1>1, <1>3, <1>4

\* The nodes on the way have the root the way ends at.
LEMMA PathHasOneRoot ==
  ASSUME NEW p, NEW r, Forest(p, r)
  PROVE  \A x \in Nodes : Path(p, x) \subseteq {y \in Nodes : Root(p, y) = Root(p, x)}
<1>1. PICK S : S = {x \in Nodes : Path(p, x) \subseteq {y \in Nodes : Root(p, y) = Root(p, x)}}
  OBVIOUS
<1>2. ASSUME NEW x \in Nodes, p[x] = x \/ p[x] \in S PROVE x \in S
  <2>1. /\ Root(p, x) = IF p[x] = x THEN x ELSE Root(p, p[x])
        /\ Path(p, x) = {x} \cup IF p[x] = x THEN {} ELSE Path(p, p[x])
    BY RootUnfolds, PathUnfolds DEF Forest
  <2>2. QED
    BY <1>1, <1>2, <2>1
<1>3. \A x \in Nodes : x \in S
  BY <1>2, AlongParents
<1>4. QED
  BY <1>1, <1>3

\* Path compression changes no root, and the ranks still grow.
LEMMA CompressedKeepsRoots ==
  ASSUME NEW p, NEW r, Forest(p, r), NEW x \in Nodes
  PROVE  /\ Forest(Compressed(p, x), r)
         /\ \A y \in Nodes : Root(Compressed(p, x), y) = Root(p, y)
         /\ \A y \in Nodes : Compressed(p, x)[y] = y <=> p[y] = y
<1>1. PICK q : q = Compressed(p, x)
  OBVIOUS
<1>2. \A y \in Nodes : IF y \in Path(p, x) THEN q[y] = Root(p, y) ELSE q[y] = p[y]
  BY <1>1, PathHasOneRoot DEF Compressed
<1>3. \A y \in Nodes : /\ Root(p, y) \in Nodes /\ p[Root(p, y)] = Root(p, y)
                       /\ Root(p, y) = y <=> p[y] = y
                       /\ p[y] # y => r[y] < r[Root(p, y)]
  BY RootIsRoot
<1>4. \A y \in Nodes : q[y] = y <=> p[y] = y
  BY <1>2, <1>3
<1>5. Forest(q, r)
  <2>1. q \in [Nodes -> Nodes]
    BY <1>1, <1>3 DEF Forest, Compressed
  <2>2. \A y \in Nodes : q[y] # y => r[y] < r[q[y]]
    BY <1>2, <1>3 DEF Forest
  <2>3. QED
    BY <2>1, <2>2 DEF Forest
<1>6. PICK h : h = [y \in Nodes |-> Root(p, y)]
  OBVIOUS
<1>7. ASSUME NEW y \in Nodes PROVE IF q[y] = y THEN h[y] = y ELSE h[y] = h[q[y]]
  <2>1. p[y] \in Nodes /\ q[y] \in Nodes
    BY <1>5 DEF Forest
  <2>2. Root(p, Root(p, y)) = Root(p, y)
    BY <1>3
  <2>3. p[y] # y => Root(p, y) = Root(p, p[y])
    BY RootUnfolds DEF Forest
  <2>4. QED
    BY <1>2, <1>3, <1>4, <1>6, <2>1, <2>2, <2>3
<1>8. \A y \in Nodes : Root(q, y) = h[y]
  BY <1>5, <1>7, RootIsUnique
<1>9. QED
  BY <1>1, <1>4, <1>5, <1>6, <1>8

-----------------------------------------------------------------------------
Injective(f) == \A m, n \in Nodes : f[m] = f[n] => m = n

Hung(p, c, d) == [p EXCEPT ![c] = d]

\* Hanging root c under root d, which is then of higher rank.
LEMMA HungUnder ==
  ASSUME NEW p, NEW r, Forest(p, r), NEW c \in Nodes, NEW d \in Nodes,
         p[c] = c, p[d] = d, c # d,
         NEW s \in [Nodes -> Nat], \A n \in Nodes \ {d} : s[n] = r[n],
         r[d] <= s[d], r[c] < s[d]
  PROVE  /\ Forest(Hung(p, c, d), s)
         /\ \A y \in Nodes : Root(Hung(p, c, d), y) = IF Root(p, y) = c THEN d ELSE Root(p, y)
<1>0. PICK q : q = Hung(p, c, d)
  OBVIOUS
<1>1. q \in [Nodes -> Nodes] /\ q[c] = d /\ \A y \in Nodes \ {c} : q[y] = p[y]
  BY <1>0 DEF Forest, Hung
<1>2. ASSUME NEW n \in Nodes, q[n] # n PROVE s[n] < s[q[n]]
  <2>1. CASE n = c
    BY <1>1, <2>1
  <2>2. CASE n # c
    <3>1. p[n] # n /\ q[n] = p[n] /\ n # d /\ p[n] \in Nodes
      BY <1>1, <1>2, <2>2 DEF Forest
    <3>2. r[n] < r[p[n]] /\ r[n] \in Nat /\ r[p[n]] \in Nat /\ s[p[n]] \in Nat
      BY <3>1 DEF Forest
    <3>3. s[n] = r[n] /\ r[p[n]] <= s[p[n]]
      BY <3>1, <3>2
    <3>4. QED
      BY <3>1, <3>2, <3>3
  <2>3. QED
    BY <2>1, <2>2
<1>3. \E bound \in Nat : \A n \in Nodes : s[n] <= bound
  <2>1. PICK bound \in Nat : \A n \in Nodes : r[n] <= bound
    BY DEF Forest
  <2>2. \A n \in Nodes : r[n] \in Nat /\ s[n] \in Nat
    BY DEF Forest
  <2>3. \A n \in Nodes : s[n] <= bound + s[d]
    BY <2>1, <2>2
  <2>4. bound + s[d] \in Nat
    BY <2>2
  <2>5. QED
    BY <2>3, <2>4
<1>4. Forest(q, s)
  BY <1>1, <1>2, <1>3 DEF Forest
<1>5. \A y \in Nodes : Root(p, y) \in Nodes /\ (p[y] = y => Root(p, y) = y)
  BY RootIsRoot
<1>6. PICK h : h = [y \in Nodes |-> IF Root(p, y) = c THEN d ELSE Root(p, y)]
  OBVIOUS
<1>7. ASSUME NEW y \in Nodes PROVE IF q[y] = y THEN h[y] = y ELSE h[y] = h[q[y]]
  <2>1. CASE y = c
    BY <1>1, <1>5, <1>6, <2>1
  <2>2. CASE y # c
    <3>1. q[y] = p[y] /\ p[y] \in Nodes
      BY <1>1, <2>2 DEF Forest
    <3>2. p[y] # y => Root(p, y) = Root(p, p[y])
      BY RootUnfolds DEF Forest
    <3>3. QED
      BY <1>5, <1>6, <2>2, <3>1, <3>2
  <2>3. QED
    BY <2>1, <2>2
<1>8. \A y \in Nodes : Root(q, y) = h[y]
  BY <1>4, <1>7, RootIsUnique
<1>9. QED
  BY <1>0, <1>4, <1>6, <1>8

\* From parents p, ranks _rank and nodes _set_node to parents q, ranks s and
\* nodes t: the trees of a and b are one, with the root given; the node that
\* represented a's represents it; other trees are what they were, and the
\* root's rank grows only if both ranks were equal.
Merged(p, a, b, root, q, s, t) ==
  /\ Forest(q, s)
  /\ root \in {a, b} /\ a \in Nodes /\ b \in Nodes /\ a # b
  /\ \A y \in Nodes :
       Root(q, y) = IF Root(p, y) \in {a, b} THEN root ELSE Root(p, y)
  /\ t \in [Nodes -> Nodes] /\ Injective(t) /\ t[root] = _set_node[a]
  /\ \A n \in Nodes \ {a, b} : t[n] = _set_node[n] /\ s[n] = _rank[n]
  /\ \/ s[root] = _rank[root]
     \/ _rank[a] = _rank[b] /\ s[root] = _rank[root] + 1

\* link joins two trees, whichever root it hangs under the other.
LEMMA LinkedMerges ==
  ASSUME NEW p, Forest(p, _rank), NEW a \in Nodes, NEW b \in Nodes,
         p[a] = a, p[b] = b, a # b,
         _set_node \in [Nodes -> Nodes], Injective(_set_node),
         NEW linked, linked = Linked(p, a, b)
  PROVE  \E root \in Nodes :
           Merged(p, a, b, root, linked.parent, linked.rank, linked.set_node)
<1>1. _rank \in [Nodes -> Nat]
  BY DEF Forest
<1>2. \A y \in Nodes : Root(p, y) \in Nodes
  BY RootIsRoot
<1>3. CASE _rank[a] > _rank[b]
  <2>1. /\ linked.parent = Hung(p, b, a) /\ linked.rank = _rank
        /\ linked.set_node = _set_node
    BY <1>3 DEF Linked, Hung
  <2>2. /\ Forest(Hung(p, b, a), _rank)
        /\ \A y \in Nodes : Root(Hung(p, b, a), y) = IF Root(p, y) = b THEN a ELSE Root(p, y)
    <3>1. _rank[a] <= _rank[a] /\ _rank[b] < _rank[a]
      BY <1>1, <1>3
    <3>2. QED
      BY <1>1, <3>1, HungUnder
  <2>3. Merged(p, a, b, a, linked.parent, linked.rank, linked.set_node)
    BY <2>1, <2>2 DEF Merged
  <2>4. QED
    BY <2>3
<1>4. CASE ~(_rank[a] > _rank[b])
  <2>1. PICK s : s = IF _rank[a] = _rank[b] THEN [_rank EXCEPT ![b] = @ + 1] ELSE _rank
    OBVIOUS
  <2>2. PICK t : t = [_set_node EXCEPT ![a] = _set_node[b], ![b] = _set_node[a]]
    OBVIOUS
  <2>3. linked.parent = Hung(p, a, b) /\ linked.rank = s /\ linked.set_node = t
    BY <1>4, <2>1, <2>2 DEF Linked, Hung
  <2>4. /\ s \in [Nodes -> Nat] /\ \A n \in Nodes \ {b} : s[n] = _rank[n]
        /\ _rank[b] <= s[b] /\ _rank[a] < s[b]
        /\ s[b] = _rank[b] \/ (_rank[a] = _rank[b] /\ s[b] = _rank[b] + 1)
    BY <1>1, <1>4, <2>1
  <2>5. /\ Forest(Hung(p, a, b), s)
        /\ \A y \in Nodes : Root(Hung(p, a, b), y) = IF Root(p, y) = a THEN b ELSE Root(p, y)
    BY <2>4, HungUnder
  <2>6. t \in [Nodes -> Nodes] /\ t[b] = _set_node[a] /\ t[a] = _set_node[b]
        /\ \A n \in Nodes \ {a, b} : t[n] = _set_node[n]
    BY <2>2
  <2>7. Injective(t)
    BY <2>6 DEF Injective
  <2>8. Merged(p, a, b, b, linked.parent, linked.rank, linked.set_node)
    BY <2>3, <2>4, <2>5, <2>6, <2>7 DEF Merged
  <2>9. QED
    BY <2>8
<1>5. QED
  BY <1>3, <1>4

-----------------------------------------------------------------------------
(***************************************************************************)
(* Powers of two, from the cardinality of power sets: the provers know     *)
(* nothing of ^.                                                           *)
(***************************************************************************)
LEMMA OneMoreElement ==
  ASSUME NEW S, IsFiniteSet(S), NEW x, x \notin S
  PROVE  Cardinality(SUBSET (S \cup {x})) = Cardinality(SUBSET S) + Cardinality(SUBSET S)
<1>1. PICK with : with = {T \cup {x} : T \in SUBSET S}
  OBVIOUS
<1>2. SUBSET (S \cup {x}) = (SUBSET S) \cup with
  <2>1. ASSUME NEW U \in SUBSET (S \cup {x}) PROVE U \in (SUBSET S) \cup with
    <3>1. CASE x \in U
      <4>1. U \ {x} \in SUBSET S /\ U = (U \ {x}) \cup {x}
        BY <3>1
      <4>2. \E T \in SUBSET S : U = T \cup {x}
        BY <4>1
      <4>3. U \in with
        BY <1>1, <4>2
      <4>4. QED
        BY <4>3
    <3>2. CASE x \notin U
      BY <3>2
    <3>3. QED
      BY <3>1, <3>2
  <2>2. ASSUME NEW U \in with PROVE U \in SUBSET (S \cup {x})
    BY <1>1
  <2>3. ASSUME NEW U \in SUBSET S PROVE U \in SUBSET (S \cup {x})
    OBVIOUS
  <2>4. QED
    BY <2>1, <2>2, <2>3, Zenon
<1>3. (SUBSET S) \cap with = {}
  <2>1. ASSUME NEW U \in with PROVE x \in U
    BY <1>1
  <2>2. ASSUME NEW U \in SUBSET S PROVE x \notin U
    OBVIOUS
  <2>3. QED
    BY <2>1, <2>2, Zenon
<1>4. IsFiniteSet(SUBSET S)
  BY FS_SUBSET
<1>5. IsFiniteSet(with) /\ Cardinality(with) = Cardinality(SUBSET S)
  <2>1. PICK f : f = [T \in SUBSET S |-> T \cup {x}]
    OBVIOUS
  <2>2. f \in [SUBSET S -> with]
    BY <1>1, <2>1
  <2>3. ASSUME NEW T \in SUBSET S, NEW U \in SUBSET S, f[T] = f[U] PROVE T = U
    <3>1. T \cup {x} = U \cup {x}
      BY <2>1, <2>3
    <3>2. x \notin T /\ x \notin U
      OBVIOUS
    <3>3. QED
      BY <3>1, <3>2
  <2>4. \A U \in with : \E T \in SUBSET S : f[T] = U
    BY <1>1, <2>1
  <2>5. f \in Bijection(SUBSET S, with)
    BY <2>2, <2>3, <2>4 DEF Bijection, Injection, Surjection, IsInjective
  <2>6. ExistsBijection(SUBSET S, with)
    BY <2>5 DEF ExistsBijection
  <2>7. QED
    BY <1>4, <2>6, FS_Bijection
<1>6. Cardinality((SUBSET S) \cup with)
        = Cardinality(SUBSET S) + Cardinality(with) - Cardinality({})
  BY <1>3, <1>4, <1>5, FS_Union
<1>7. Cardinality({}) = 0 /\ Cardinality(SUBSET S) \in Nat
  BY <1>4, FS_EmptySet, FS_CardinalityType
<1>8. Cardinality(SUBSET (S \cup {x})) = Cardinality((SUBSET S) \cup with)
  BY <1>2, Zenon
<1>9. QED
  <2>1. PICK n : n = Cardinality(SUBSET S)
    OBVIOUS
  <2>2. n \in Nat /\ Cardinality(SUBSET (S \cup {x})) = n + n - 0
    BY <1>5, <1>6, <1>7, <1>8, <2>1, Zenon
  <2>3. QED
    BY <2>1, <2>2

\* 2^k is the number of subsets of 1 .. k, and so doubles.
LEMMA PowersOfTwo ==
  /\ 2 ^ 0 = 1
  /\ \A k \in Nat : 2 ^ k \in Nat /\ 2 ^ (k + 1) = 2 ^ k + 2 ^ k
<1>1. 2 ^ 0 = 1
  <2>1. Cardinality(SUBSET {}) = 2 ^ Cardinality({}) /\ Cardinality({}) = 0
    BY FS_SUBSET, FS_EmptySet
  <2>2. SUBSET {} = {{}}
    OBVIOUS
  <2>3. Cardinality({{}}) = 1
    BY FS_Singleton
  <2>4. QED
    BY <2>1, <2>2, <2>3
<1>2. ASSUME NEW k \in Nat PROVE 2 ^ k \in Nat /\ 2 ^ (k + 1) = 2 ^ k + 2 ^ k
  <2>1. PICK S : S = 1 .. k
    OBVIOUS
  <2>2. IsFiniteSet(S) /\ Cardinality(S) = k /\ k + 1 \notin S
    <3>1. 1 \in Int /\ k \in Int
      OBVIOUS
    <3>2. IsFiniteSet(1 .. k) /\ Cardinality(1 .. k) = IF 1 > k THEN 0 ELSE k - 1 + 1
      BY <3>1, FS_Interval
    <3>3. QED
      BY <2>1, <3>2
  <2>3. PICK T : T = S \cup {k + 1}
    OBVIOUS
  <2>4. IsFiniteSet(T) /\ Cardinality(T) = k + 1
    BY <2>2, <2>3, FS_AddElement
  <2>5. /\ IsFiniteSet(SUBSET S) /\ Cardinality(SUBSET S) = 2 ^ k
        /\ Cardinality(SUBSET T) = 2 ^ (k + 1)
    BY <2>2, <2>4, FS_SUBSET
  <2>6. Cardinality(SUBSET T) = Cardinality(SUBSET S) + Cardinality(SUBSET S)
    BY <2>2, <2>3, OneMoreElement
  <2>7. Cardinality(SUBSET S) \in Nat
    BY <2>5, FS_CardinalityType
  <2>8. QED
    BY <2>5, <2>6, <2>7
<1>3. QED
  BY <1>1, <1>2

-----------------------------------------------------------------------------
(***************************************************************************)
(* The invariant: the types, the ranks that grow along the parents and     *)
(* bound the trees, and the nodes of _set_node all different, as link only *)
(* ever swaps two of them.                                                 *)
(***************************************************************************)
IInv ==
  /\ TypeOK /\ RanksBoundDepth
  /\ Forest(_set_parent, _rank)
  /\ Injective(_set_node)

\* Sets of nodes are finite.
LEMMA SetsFinite == \A n : IsFiniteSet(Set(n)) /\ Cardinality(Set(n)) \in Nat
<1>1. IsFiniteSet(Nodes)
  BY MaxNodesAssumption, FS_Interval DEF Nodes
<1>2. \A n : Set(n) \in SUBSET Nodes
  BY DEF Set
<1>3. \A n : IsFiniteSet(Set(n))
  BY <1>1, <1>2, FS_Subset
<1>4. QED
  BY <1>3, FS_CardinalityType

\* The forest starts with the invariant.
LEMMA InitInv == Init => IInv
<1> SUFFICES ASSUME Init PROVE IInv
  OBVIOUS
<1>1. TypeOK
  BY MaxNodesAssumption DEF Init, TypeOK, Nodes
<1>2. Forest(_set_parent, _rank) /\ Injective(_set_node)
  BY DEF Init, Forest, Injective
<1>3. ASSUME NEW n \in Nodes PROVE 2 ^ _rank[n] <= Cardinality(Set(n))
  <2>1. n \in Set(n)
    BY <1>2, RootIsRoot DEF Init, Set
  <2>2. Cardinality(Set(n)) # 0
    BY <2>1, SetsFinite, FS_EmptySet
  <2>3. 2 ^ _rank[n] = 1
    BY PowersOfTwo DEF Init
  <2>4. QED
    BY <2>2, <2>3, SetsFinite
<1>4. RanksBoundDepth
  BY <1>3 DEF RanksBoundDepth, Init
<1>5. QED
  BY <1>1, <1>2, <1>4 DEF IInv

\* find_set leaves every root what it was.
LEMMA FindSetStep ==
  ASSUME IInv, NEW x \in Nodes, find_set(x)
  PROVE  /\ IInv'
         /\ \A y \in Nodes : Root(_set_parent', y) = Root(_set_parent, y)
<1>1. /\ Forest(_set_parent', _rank)
      /\ \A y \in Nodes : Root(_set_parent', y) = Root(_set_parent, y)
      /\ \A y \in Nodes : _set_parent'[y] = y <=> _set_parent[y] = y
  BY CompressedKeepsRoots DEF IInv, find_set
<1>2. \A n : Set(n)' = Set(n)
  BY <1>1 DEF Set
<1>3. RanksBoundDepth'
  BY <1>1, <1>2 DEF IInv, RanksBoundDepth, find_set, Forest
<1>4. TypeOK'
  BY <1>1 DEF IInv, TypeOK, find_set, Forest
<1>5. QED
  BY <1>1, <1>3, <1>4 DEF IInv, find_set

\* combine merges the two trees; the oldest node of this set stays the one
\* get_set_node returns.
LEMMA CombineMerges ==
  ASSUME IInv, NEW this \in Nodes, NEW that \in Nodes, combine(this, that)
  PROVE  \E root \in Nodes :
           Merged(_set_parent, Root(_set_parent, this), Root(_set_parent, that), root,
                  _set_parent', _rank', _set_node')
<1>1. PICK p, a, b : p = _set_parent /\ a = Root(p, this) /\ b = Root(p, that)
  OBVIOUS
<1>2. PICK q : q = Compressed(Compressed(p, this), that)
  OBVIOUS
<1>3. Forest(p, _rank) /\ TypeOK /\ Injective(_set_node)
  BY <1>1 DEF IInv
<1>4. Forest(q, _rank) /\ \A y \in Nodes : Root(q, y) = Root(p, y)
  <2>1. PICK q1 : q1 = Compressed(p, this)
    OBVIOUS
  <2>2. Forest(q1, _rank) /\ \A y \in Nodes : Root(q1, y) = Root(p, y)
    BY <1>3, <2>1, CompressedKeepsRoots
  <2>3. Forest(q, _rank) /\ \A y \in Nodes : Root(q, y) = Root(q1, y)
    BY <1>2, <2>1, <2>2, CompressedKeepsRoots
  <2>4. QED
    BY <2>2, <2>3
<1>5. a \in Nodes /\ b \in Nodes /\ q[a] = a /\ q[b] = b
  BY <1>1, <1>4, RootIsRoot
<1>6. a # b
  BY <1>1, <1>3, <1>5 DEF combine, get_set_node, TypeOK, Nodes
<1>7. PICK linked : linked = Linked(q, a, b)
  OBVIOUS
<1>8. PICK root \in Nodes :
        Merged(q, a, b, root, linked.parent, linked.rank, linked.set_node)
  BY <1>3, <1>4, <1>5, <1>6, <1>7, LinkedMerges DEF TypeOK
<1>9. /\ _set_parent' = Compressed(Compressed(linked.parent, this), that)
      /\ _rank' = linked.rank /\ _set_node' = linked.set_node
  BY <1>1, <1>2, <1>4, <1>7 DEF combine
<1>10. /\ Forest(_set_parent', _rank')
       /\ \A y \in Nodes : Root(_set_parent', y) = Root(linked.parent, y)
  <2>1. Forest(linked.parent, linked.rank)
    BY <1>8 DEF Merged
  <2>2. PICK q1 : q1 = Compressed(linked.parent, this)
    OBVIOUS
  <2>3. Forest(q1, linked.rank) /\ \A y \in Nodes : Root(q1, y) = Root(linked.parent, y)
    BY <2>1, <2>2, CompressedKeepsRoots
  <2>4. PICK q2 : q2 = Compressed(q1, that)
    OBVIOUS
  <2>5. Forest(q2, linked.rank) /\ \A y \in Nodes : Root(q2, y) = Root(q1, y)
    BY <2>3, <2>4, CompressedKeepsRoots
  <2>6. QED
    BY <1>9, <2>2, <2>3, <2>4, <2>5
<1>11. Merged(p, a, b, root, _set_parent', _rank', _set_node')
  BY <1>4, <1>8, <1>9, <1>10 DEF Merged
<1>12. QED
  BY <1>1, <1>11

\* The rank of a root grows only when two trees of its old rank become one.
LEMMA CombineKeepsBound ==
  ASSUME IInv, NEW a, NEW b, NEW root \in Nodes,
         Merged(_set_parent, a, b, root, _set_parent', _rank', _set_node'),
         _set_parent[a] = a, _set_parent[b] = b
  PROVE  RanksBoundDepth'
<1>1. Forest(_set_parent, _rank) /\ Forest(_set_parent', _rank') /\ a \in Nodes /\ b \in Nodes
  BY DEF IInv, Merged
<1>2. /\ \A y \in Nodes : Root(_set_parent', y) =
           IF Root(_set_parent, y) \in {a, b} THEN root ELSE Root(_set_parent, y)
      /\ root \in {a, b} /\ a # b
  BY DEF Merged
<1>3. \A y \in Nodes : (Root(_set_parent, y) = y <=> _set_parent[y] = y)
                       /\ (Root(_set_parent', y) = y <=> _set_parent'[y] = y)
  BY <1>1, RootIsRoot
<1>4. ASSUME NEW n \in Nodes, _set_parent'[n] # n PROVE _rank'[n] < _rank'[_set_parent'[n]]
  BY <1>1, <1>4 DEF Forest
<1>5. ASSUME NEW n \in Nodes, _set_parent'[n] = n PROVE 2 ^ _rank'[n] <= Cardinality(Set(n)')
  <2>1. /\ \A m \in {n, a, b} : _rank[m] \in Nat /\ (_set_parent[m] = m => 2 ^ _rank[m] <= Cardinality(Set(m)))
        /\ \A m \in {n, a, b} : 2 ^ _rank[m] \in Nat
    BY <1>1, PowersOfTwo DEF IInv, RanksBoundDepth, Forest
  <2>2. CASE n = root
    <3>1. Set(root)' = Set(a) \cup Set(b) /\ Set(a) \cap Set(b) = {}
      BY <1>1, <1>2 DEF Set
    <3>2. Cardinality({}) = 0
      BY FS_EmptySet
    <3>3. Cardinality(Set(root)') = Cardinality(Set(a)) + Cardinality(Set(b)) - Cardinality({})
      BY <3>1, SetsFinite, FS_Union
    <3>4. Cardinality(Set(a)) \in Nat /\ Cardinality(Set(b)) \in Nat
      BY SetsFinite
    <3>5. CASE _rank'[root] = _rank[root]
      BY <1>2, <2>1, <2>2, <3>2, <3>3, <3>4, <3>5
    <3>6. CASE _rank[a] = _rank[b] /\ _rank'[root] = _rank[root] + 1
      <4>1. _rank[root] = _rank[a] /\ 2 ^ (_rank[a] + 1) = 2 ^ _rank[a] + 2 ^ _rank[a]
        BY <1>2, <2>1, <3>6, PowersOfTwo
      <4>2. 2 ^ _rank[a] <= Cardinality(Set(a)) /\ 2 ^ _rank[a] <= Cardinality(Set(b))
        BY <2>1, <3>6
      <4>3. QED
        BY <2>1, <2>2, <3>2, <3>3, <3>4, <3>6, <4>1, <4>2
    <3>7. QED
      BY <3>5, <3>6 DEF Merged
  <2>3. CASE n # root
    <3>1. Root(_set_parent', n) = n
      BY <1>3, <1>5
    <3>2. Root(_set_parent, n) = n /\ n \notin {a, b}
      BY <1>2, <1>3, <2>3, <3>1
    <3>3. Set(n)' = Set(n)
      BY <1>2, <2>3, <3>2 DEF Set
    <3>4. _rank'[n] = _rank[n]
      BY <3>2 DEF Merged
    <3>5. QED
      BY <1>3, <2>1, <3>2, <3>3, <3>4
  <2>4. QED
    BY <2>2, <2>3
<1>6. QED
  BY <1>4, <1>5 DEF RanksBoundDepth

\* combine keeps the invariant, and is Combine of the abstract partition.
LEMMA CombineStep ==
  ASSUME IInv, NEW this \in 1 .. size, NEW that \in 1 .. size, combine(this, that)
  PROVE  IInv' /\ P!Combine(this, that)
<1>1. this \in Nodes /\ that \in Nodes
  <2>1. size \in Nodes
    BY DEF IInv, TypeOK
  <2>2. QED
    BY <2>1, MaxNodesAssumption DEF Nodes
<1>2. PICK a, b : a = Root(_set_parent, this) /\ b = Root(_set_parent, that)
  OBVIOUS
<1>3. PICK root \in Nodes : Merged(_set_parent, a, b, root, _set_parent', _rank', _set_node')
  BY <1>1, <1>2, CombineMerges
<1>4. \A y \in Nodes : Root(_set_parent, y) \in Nodes
                       /\ _set_parent[Root(_set_parent, y)] = Root(_set_parent, y)
  BY RootIsRoot DEF IInv
<1>5. IInv'
  <2>1. RanksBoundDepth'
    BY <1>1, <1>2, <1>3, <1>4, CombineKeepsBound
  <2>2. TypeOK' /\ Forest(_set_parent', _rank') /\ Injective(_set_node')
    BY <1>3 DEF IInv, TypeOK, Merged, Forest, combine
  <2>3. QED
    BY <2>1, <2>2 DEF IInv
<1>6. ASSUME NEW n \in Nodes
      PROVE  get_set_node(n)' = IF get_set_node(n) = get_set_node(that)
                                THEN get_set_node(this) ELSE get_set_node(n)
  <2>1. /\ Root(_set_parent', n) =
             IF Root(_set_parent, n) \in {a, b} THEN root ELSE Root(_set_parent, n)
        /\ _set_node'[root] = _set_node[a]
        /\ \A m \in Nodes \ {a, b} : _set_node'[m] = _set_node[m]
    BY <1>3 DEF Merged
  <2>2. _set_node[Root(_set_parent, n)] = _set_node[b] => Root(_set_parent, n) = b
    BY <1>1, <1>2, <1>4 DEF IInv, Injective
  <2>3. QED
    BY <1>2, <1>4, <2>1, <2>2 DEF get_set_node
<1>7. P!Combine(this, that)
  BY <1>1, <1>6 DEF P!Combine, P!Nodes, Nodes, combine
<1>8. QED
  BY <1>5, <1>7

\* Every step keeps the invariant and is a step of the partition or changes
\* nothing of it.
LEMMA NextStep ==
  ASSUME IInv, [Next]_vars
  PROVE  /\ IInv'
         /\ [P!Next]_<<size, [n \in Nodes |-> get_set_node(n)]>>
<1>1. CASE Create
  <2>1. /\ _set_parent' = _set_parent /\ _rank' = _rank /\ _set_node' = _set_node
        /\ size \in Nodes /\ size' = size + 1 /\ size' \in Nodes
        /\ size' \in (size + 1) .. MaxNodes
    BY <1>1, MaxNodesAssumption DEF Create, IInv, TypeOK, Nodes
  <2>2. TypeOK' /\ RanksBoundDepth' /\ Forest(_set_parent', _rank') /\ Injective(_set_node')
    BY <2>1 DEF IInv, TypeOK, RanksBoundDepth, Set
  <2>3. \A n \in Nodes : get_set_node(n)' = get_set_node(n)
    BY <2>1 DEF get_set_node
  <2>4. P!Create
    BY <2>1, <2>3 DEF P!Create
  <2>5. QED
    BY <2>2, <2>4 DEF IInv, P!Next
<1>2. ASSUME NEW x \in 1 .. size, find_set(x)
      PROVE  /\ IInv'
             /\ UNCHANGED <<size, [n \in Nodes |-> get_set_node(n)]>>
  <2>1. x \in Nodes
    BY MaxNodesAssumption DEF IInv, TypeOK, Nodes
  <2>2. IInv' /\ \A y \in Nodes : Root(_set_parent', y) = Root(_set_parent, y)
    BY <1>2, <2>1, FindSetStep
  <2>3. \A y \in Nodes : get_set_node(y)' = get_set_node(y)
    BY <1>2, <2>2 DEF get_set_node, find_set
  <2>4. QED
    BY <1>2, <2>2, <2>3 DEF find_set
<1>3. ASSUME NEW this \in 1 .. size, NEW that \in 1 .. size, combine(this, that)
      PROVE  IInv' /\ P!Next
  BY <1>3, CombineStep DEF P!Next
<1>4. CASE UNCHANGED vars
  BY <1>4 DEF vars, IInv, TypeOK, RanksBoundDepth, Set, Forest, Injective, get_set_node
<1>5. QED
  BY <1>1, <1>2, <1>3, <1>4 DEF Next

-----------------------------------------------------------------------------
\* The promise of disjointset.h: if combine is always asked to merge a younger
\* set into an older one, the oldest node represents its set.  Creating nodes
\* keeps it, as new nodes are sets of their own; so does combine, the
\* representative of the older set being older than every node of the younger.
LEMMA CombineKeepsOldest ==
  ASSUME P!OldestRepresents, size \in Nodes, \A n \in Nodes : get_set_node(n) \in Nodes,
         [P!Next]_<<size, [n \in Nodes |-> get_set_node(n)]>>
  PROVE  /\ P!OldestRepresents' /\ size' \in Nodes
         /\ \A n \in Nodes : get_set_node(n)' \in Nodes
<1>1. PICK old : old = [n \in Nodes |-> get_set_node(n)]
  OBVIOUS
<1>2. PICK new : new = [n \in Nodes |-> get_set_node(n)']
  OBVIOUS
<1>3. old \in [Nodes -> Nodes] /\ P!Nodes = Nodes /\ Nodes \subseteq Nat
  BY <1>1 DEF P!Nodes, Nodes
<1>4. \A n \in Nodes : old[n] <= n /\ old[old[n]] = old[n]
  BY <1>1, <1>3 DEF P!OldestRepresents
<1>5. \/ new = old /\ size' \in Nodes
      \/ /\ size' = size
         /\ \E this, that \in Nodes :
              /\ old[this] < old[that]
              /\ new = [n \in Nodes |-> IF old[n] = old[that] THEN old[this] ELSE old[n]]
  <2>1. CASE P!Create
    BY <1>1, <1>2, <1>3, <2>1 DEF P!Create, Nodes
  <2>2. ASSUME NEW this \in 1 .. size, NEW that \in 1 .. size, P!Combine(this, that)
        PROVE  /\ size' = size /\ this \in Nodes /\ that \in Nodes /\ old[this] < old[that]
               /\ new = [n \in Nodes |-> IF old[n] = old[that] THEN old[this] ELSE old[n]]
    <3>1. this \in Nodes /\ that \in Nodes
      BY MaxNodesAssumption DEF Nodes
    <3>2. QED
      BY <1>1, <1>2, <1>3, <2>2, <3>1 DEF P!Combine
  <2>3. CASE UNCHANGED <<size, [n \in Nodes |-> get_set_node(n)]>>
    BY <1>1, <1>2, <2>3
  <2>4. QED
    BY <2>1, <2>2, <2>3 DEF P!Next
<1>6. new \in [Nodes -> Nodes] /\ \A n \in Nodes : new[n] <= n /\ new[new[n]] = new[n]
  <2>1. CASE new = old
    BY <1>3, <1>4, <2>1
  <2>2. ASSUME NEW this \in Nodes, NEW that \in Nodes, old[this] < old[that],
               new = [n \in Nodes |-> IF old[n] = old[that] THEN old[this] ELSE old[n]]
        PROVE  new \in [Nodes -> Nodes] /\ \A n \in Nodes : new[n] <= n /\ new[new[n]] = new[n]
    <3>1. new \in [Nodes -> Nodes]
      BY <1>3, <2>2
    <3>2. ASSUME NEW n \in Nodes PROVE new[n] <= n /\ new[new[n]] = new[n]
      <4>1. CASE old[n] = old[that]
        <5>1. new[n] = old[this] /\ old[this] \in Nodes
          BY <1>3, <2>2, <4>1
        <5>2. old[this] < old[that] /\ old[n] <= n
          BY <1>4, <2>2
        <5>3. old[this] <= n
          <6>1. old[this] \in Nat /\ old[that] \in Nat /\ n \in Nat
            BY <1>3
          <6>2. QED
            BY <4>1, <5>2, <6>1
        <5>4. new[old[this]] = old[this]
          BY <1>4, <2>2, <5>1
        <5>5. QED
          BY <5>1, <5>3, <5>4
      <4>2. CASE old[n] # old[that]
        <5>1. new[n] = old[n] /\ old[n] \in Nodes
          BY <1>3, <2>2, <4>2
        <5>2. new[old[n]] = old[n]
          BY <1>4, <2>2, <4>2, <5>1
        <5>3. QED
          BY <1>4, <5>1, <5>2
      <4>3. QED
        BY <4>1, <4>2
    <3>3. QED
      BY <3>1, <3>2
  <2>3. QED
    BY <1>5, <2>1, <2>2
<1>7. \A n \in Nodes : get_set_node(n)' = new[n]
  BY <1>2
<1>8. P!OldestRepresents'
  BY <1>2, <1>3, <1>6 DEF P!OldestRepresents
<1>9. QED
  BY <1>5, <1>6, <1>7, <1>8

Invariant == IInv /\ P!OldestRepresents

\* The inductive invariant holds in every state.
LEMMA InvariantHolds == Spec => []Invariant
<1>1. Init => Invariant
  <2> SUFFICES ASSUME Init PROVE Invariant
    OBVIOUS
  <2>1. IInv
    BY InitInv
  <2>2. \A n \in Nodes : get_set_node(n) = n
    BY <2>1, RootIsRoot DEF IInv, Init, get_set_node
  <2>3. QED
    BY <2>1, <2>2 DEF Invariant, P!OldestRepresents, P!Nodes, Nodes
<1>2. Invariant /\ [Next]_vars => Invariant'
  <2> SUFFICES ASSUME Invariant, [Next]_vars PROVE Invariant'
    OBVIOUS
  <2>1. /\ IInv' /\ size \in Nodes
        /\ [P!Next]_<<size, [n \in Nodes |-> get_set_node(n)]>>
    BY NextStep DEF Invariant, IInv, TypeOK
  <2>2. \A n \in Nodes : get_set_node(n) \in Nodes
    BY RootIsRoot DEF Invariant, IInv, TypeOK, get_set_node
  <2>3. QED
    BY <2>1, <2>2, CombineKeepsOldest DEF Invariant
<1>3. QED
  BY <1>1, <1>2, PTL DEF Spec

\* The forest keeps its types for any number of nodes.
THEOREM TypeCorrect == Spec => []TypeOK
<1>1. Invariant => TypeOK
  BY DEF Invariant, IInv
<1>2. QED
  BY <1>1, InvariantHolds, PTL

\* The recursion of find_set is no deeper than the logarithm of the number of
\* nodes: the ranks grow along it, and a root of rank r has 2^r nodes.
THEOREM RanksBoundDepthInv == Spec => []RanksBoundDepth
<1>1. Invariant => RanksBoundDepth
  BY DEF Invariant, IInv
<1>2. QED
  BY <1>1, InvariantHolds, PTL

\* Union by rank, path compression and the swap of _set_node together are a
\* partition whose sets are represented as if nothing of this were there.
THEOREM ImplementsPartitionProof == Spec => ImplementsPartition
<1>1. Init => P!Init
  <2> SUFFICES ASSUME Init PROVE P!Init
    OBVIOUS
  <2>1. \A n \in Nodes : get_set_node(n) = n
    BY InitInv, RootIsRoot DEF IInv, Init, get_set_node
  <2>2. QED
    BY <2>1, MaxNodesAssumption DEF Init, P!Init, P!Nodes, Nodes
<1>2. Invariant /\ [Next]_vars => [P!Next]_<<size, [n \in Nodes |-> get_set_node(n)]>>
  BY NextStep DEF Invariant
<1>3. QED
  BY <1>1, <1>2, InvariantHolds, PTL DEF Spec, ImplementsPartition, P!Spec

\* Partition keeps the promise of disjointset.h, which is all its clients need
\* to know: in every set, however the sets were merged, the oldest node is the
\* representative.
THEOREM PartitionKeepsOldest == P!Spec => []P!OldestRepresents
<1> DEFINE Typed == size \in Nodes /\ \A n \in Nodes : get_set_node(n) \in Nodes
<1>1. P!Init => Typed /\ P!OldestRepresents
  BY DEF P!Init, P!OldestRepresents, P!Nodes, Nodes
<1>2. Typed /\ P!OldestRepresents /\ [P!Next]_<<size, [n \in Nodes |-> get_set_node(n)]>>
        => Typed' /\ P!OldestRepresents'
  BY CombineKeepsOldest
<1>3. QED
  BY <1>1, <1>2, PTL DEF P!Spec

\* In every set, however the sets were merged, get_set_node returns the
\* oldest node: find_set leads to the function entered first.
THEOREM OldestRepresentsInv == Spec => []P!OldestRepresents
<1>1. Invariant => P!OldestRepresents
  BY DEF Invariant
<1>2. QED
  BY <1>1, InvariantHolds, PTL

=============================================================================
