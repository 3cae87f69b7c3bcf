------------------------------ MODULE SpanView -------------------------------
(***************************************************************************)
(* The three spans cilkview keeps for a function (cilkview/context_stack.h)*)
(* and the operations on them: those of the event handlers                 *)
(* (cilkview/cilkview.c) and the reduce of the parallel tool               *)
(* (cilkview/context_stack_reducer.h).                                     *)
(***************************************************************************)
EXTENDS Integers

Views == [prefix_spn : Nat, lchild_spn : Nat, contin_spn : Nat]

\* context_stack_frame_init, and identity_context_stack
Identity == [prefix_spn |-> 0, lchild_spn |-> 0, contin_spn |-> 0]

\* Mutant: start - stop.
ExtendBackwards(v, t) == [v EXCEPT !.contin_spn = @ - t]

\* A strand of length t ends, or a called function of span t returns.
Extend(v, t) == [v EXCEPT !.contin_spn = @ + t]

\* Mutant: the continuation that precedes the longest child stays in contin_spn.
SpawnReturnKeepingContin(v, s) ==
  IF v.contin_spn + s > v.lchild_spn
  THEN [v EXCEPT !.prefix_spn = @ + v.contin_spn, !.lchild_spn = s]
  ELSE v

\* A spawned child of span s returns: it replaces the longest child if a path
\* through it is longer.
SpawnReturn(v, s) ==
  IF v.contin_spn + s > v.lchild_spn
  THEN [prefix_spn |-> v.prefix_spn + v.contin_spn, lchild_spn |-> s, contin_spn |-> 0]
  ELSE v

\* Mutant: the longest child is dropped at the sync.
SyncContin(v) ==
  [prefix_spn |-> v.prefix_spn + v.contin_spn, lchild_spn |-> 0, contin_spn |-> 0]

\* cilk_sync_end
Sync(v) ==
  [prefix_spn |-> v.prefix_spn + IF v.lchild_spn > v.contin_spn THEN v.lchild_spn ELSE v.contin_spn,
   lchild_spn |-> 0, contin_spn |-> 0]

\* What a function that has synced returns to its parent (cilk_leave_begin).
SpanOf(v) == v.prefix_spn + v.contin_spn

\* reduce_context_stack: right is the view of a stolen continuation of left.
Reduce(left, right) ==
  IF left.contin_spn + right.prefix_spn + right.lchild_spn > left.lchild_spn
  THEN [prefix_spn |-> left.prefix_spn + left.contin_spn + right.prefix_spn,
        lchild_spn |-> right.lchild_spn,
        contin_spn |-> right.contin_spn]
  ELSE Extend(left, right.prefix_spn + right.contin_spn)

\* The two path lengths a view stands for: to the point its function has
\* reached, and through the children to join at the next sync.
Reached(v) == v.prefix_spn + v.contin_spn
ToJoin(v)  == v.prefix_spn + v.lchild_spn
=============================================================================
