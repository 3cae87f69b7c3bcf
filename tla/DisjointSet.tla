----------------------------- MODULE DisjointSet -----------------------------
(***************************************************************************)
(* The union-find forest of cilksan/disjointset.h: union by rank, path     *)
(* compression in every find_set, and the swap that keeps the oldest node  *)
(* as _set_node of the root although link may hang the older root under    *)
(* the younger one.  cilksan_assert is compiled in, so the find_set calls  *)
(* inside the assertions of combine compress paths too.                    *)
(***************************************************************************)
EXTENDS Integers, FiniteSets

CONSTANT MaxNodes   \* bound on the nodes created

Nodes == 1 .. MaxNodes

ASSUME MaxNodesAssumption == MaxNodes \in Nat \ {0}

VARIABLES
  size,         \* nodes created so far
  _set_parent, _rank, _set_node

vars == <<size, _set_parent, _rank, _set_node>>

\* DisjointSet_t's constructor makes each node a root that represents itself.
Init ==
  /\ size = 1
  /\ _set_parent = [n \in Nodes |-> n]
  /\ _rank = [n \in Nodes |-> 0]
  /\ _set_node = [n \in Nodes |-> n]

\* What find_set returns for x when the parents are p, and the nodes whose
\* parent it sets on the way.
Root(p, x) == LET find[y \in Nodes] == IF p[y] = y THEN y ELSE find[p[y]] IN find[x]
Path(p, x) == LET path[y \in Nodes] == {y} \cup IF p[y] = y THEN {} ELSE path[p[y]] IN path[x]

\* The parents after find_set of x.
Compressed(p, x) == [y \in Nodes |-> IF y \in Path(p, x) THEN Root(p, x) ELSE p[y]]

get_set_node(x) == _set_node[Root(_set_parent, x)]

Create ==
  /\ size < MaxNodes
  /\ size' = size + 1
  /\ UNCHANGED <<_set_parent, _rank, _set_node>>

\* find_set, as called by get_set_node
find_set(x) ==
  /\ _set_parent' = Compressed(_set_parent, x)
  /\ UNCHANGED <<size, _rank, _set_node>>

\* Mutant: the older root is hung under the younger, with no swap.
LinkedUnswapped(p, this, that) ==
  IF _rank[this] > _rank[that]
  THEN [parent |-> [p EXCEPT ![that] = this], rank |-> _rank, set_node |-> _set_node]
  ELSE [parent |-> [p EXCEPT ![this] = that],
        rank |-> IF _rank[this] = _rank[that] THEN [_rank EXCEPT ![that] = @ + 1] ELSE _rank,
        set_node |-> _set_node]

\* Mutant: no rank grows.
LinkedByAge(p, this, that) ==
  [parent |-> [p EXCEPT ![that] = this], rank |-> _rank, set_node |-> _set_node]

\* Mutant: the rank of the wrong root, the wrong way.
LinkedLowering(p, this, that) ==
  [parent |-> [p EXCEPT ![that] = this], rank |-> [_rank EXCEPT ![that] = @ - 1],
   set_node |-> _set_node]

\* link of two roots: returns the parents, the ranks and the set nodes
Linked(p, this, that) ==
  IF _rank[this] > _rank[that]
  THEN [parent |-> [p EXCEPT ![that] = this], rank |-> _rank, set_node |-> _set_node]
  ELSE [parent |-> [p EXCEPT ![this] = that],
        rank |-> IF _rank[this] = _rank[that] THEN [_rank EXCEPT ![that] = @ + 1] ELSE _rank,
        set_node |-> [_set_node EXCEPT ![this] = _set_node[that], ![that] = _set_node[this]]]

\* Its callers combine a younger set into this one (see module CilkSan).
combine(this, that) ==
  LET found  == Compressed(Compressed(_set_parent, this), that)
      linked == Linked(found, Root(found, this), Root(found, that))
  IN  /\ get_set_node(this) < get_set_node(that)
      /\ _set_parent' = Compressed(Compressed(linked.parent, this), that)
      /\ _rank' = linked.rank
      /\ _set_node' = linked.set_node
      /\ UNCHANGED size

Next ==
  \/ Create
  \/ \E x \in 1 .. size : find_set(x)
  \/ \E x, y \in 1 .. size : combine(x, y)

Spec == Init /\ [][Next]_vars

-----------------------------------------------------------------------------
Set(r) == {n \in Nodes : Root(_set_parent, n) = r}

\* The forest has its types.
TypeOK ==
  /\ size \in Nodes
  /\ _set_parent \in [Nodes -> Nodes] /\ _rank \in [Nodes -> Nat]
  /\ _set_node \in [Nodes -> Nodes]

\* find_set recurses once per edge, and the ranks bound the height: they grow
\* along every path, and a root of rank r has at least 2^r nodes, so that the
\* recursion is no deeper than the logarithm of the number of nodes.
RanksBoundDepth ==
  \A n \in Nodes :
    IF _set_parent[n] = n THEN 2 ^ _rank[n] <= Cardinality(Set(n))
                          ELSE _rank[n] < _rank[_set_parent[n]]

\* get_set_node returns the same node for two nodes in one set, the oldest of
\* the set, whatever was linked under what, and find_set changes none of it.
P == INSTANCE Partition WITH rep <- [n \in Nodes |-> get_set_node(n)]
ImplementsPartition == P!Spec
=============================================================================
