------------------------------ MODULE Partition ------------------------------
(***************************************************************************)
(* What cilksan asks of its disjoint sets (the comments of disjointset.h): *)
(* every node belongs to one set, a set is represented by its oldest node, *)
(* and combine merges a younger set into this one.  Nodes are numbered by  *)
(* creation time; rep[n] is what get_set_node returns for node n.          *)
(***************************************************************************)
EXTENDS Integers

CONSTANT MaxNodes

Nodes == 1 .. MaxNodes

VARIABLES
  size,   \* nodes created so far
  rep

Init == size \in Nodes /\ rep = [n \in Nodes |-> n]

\* New nodes are sets of their own.
Create ==
  /\ size' \in (size + 1) .. MaxNodes
  /\ UNCHANGED rep

\* this.combine(that), the two in different sets and that's set the younger.
Combine(this, that) ==
  /\ rep[this] < rep[that]
  /\ rep' = [n \in Nodes |-> IF rep[n] = rep[that] THEN rep[this] ELSE rep[n]]
  /\ UNCHANGED size

\* One step may create nodes or combine two sets.
Next == Create \/ \E this, that \in 1 .. size : Combine(this, that)

Spec == Init /\ [][Next]_<<size, rep>>

\* A set is represented by the oldest of its nodes.
OldestRepresents == \A n \in Nodes : rep[n] <= n /\ rep[rep[n]] = rep[n]
=============================================================================
