------------------------ MODULE SimulatedStealsProofs ------------------------
(***************************************************************************)
(* SP-bags under simulated steals, for every program, every choice of      *)
(* continuations to steal and every bound.                                 *)
(*                                                                         *)
(* The inductive invariant extends CilkSanProofs' from one P-bag per frame *)
(* to one per view: it says for every strand in which bag and in which     *)
(* view of which frame it is, that views are distinct, and that an id      *)
(* names one view only.  A failed assertion ends the process, and so the   *)
(* invariant is kept by the handlers that pass theirs.                     *)
(***************************************************************************)
EXTENDS SimulatedSteals, CilkSanProofs

\* A frame has one view per continuation stolen in its block and not merged
\* yet, and one P-bag per view; a block that skips its first interval has one
\* more slot, at the bottom, and never a bag in it.
Views(k) == Len(views[k])
Skipped(k) == Len(below[k]) + 1 - Views(k)
Slot(k, v) == IF v = Views(k) THEN Pbag[k] ELSE below[k][v + Skipped(k)]

\* A helper is on its way out.
HelperLeaving ==
  /\ entry_type[entry_head] = "HELPER"
  /\ pc \in {"leaving", "returning", "reducing"}

StacksShaped ==
  \A k \in Depth :
    /\ Views(k) > 0 /\ Skipped(k) \in {0, 1}
    /\ Skipped(k) = 1 => below[k][1] = NULL
    /\ current_sync_block_size[k] = 0 => below[k] = <<>> /\ Pbag[k] = NULL

\* The bags of the frames are distinct sets of the right kind.
StealBagsDistinct ==
  /\ \A k \in Depth : /\ Sbag[k] \in 1 .. dset_size
                      /\ set_node[Sbag[k]] = Sbag[k] /\ kind[Sbag[k]] = "S"
  /\ \A k \in Levels : Pbag[k] # NULL => k \in Depth
  /\ \A k \in Depth : \A v \in 1 .. Views(k) :
       /\ v < Views(k) => Slot(k, v) # NULL
       /\ Slot(k, v) # NULL => /\ Slot(k, v) \in 1 .. dset_size
                               /\ set_node[Slot(k, v)] = Slot(k, v) /\ kind[Slot(k, v)] = "P"
  /\ \A j, k \in Depth :
       /\ j # k => Sbag[j] # Sbag[k]
       /\ \A u \in 1 .. Views(j), v \in 1 .. Views(k) :
            Slot(j, u) # NULL /\ Slot(j, u) = Slot(k, v) => j = k /\ u = v

\* Strand s is in the S-bag of level k, and in a view of that frame.
SerialIn(s, k) ==
  /\ SerialAt(s, k)
  /\ \E v \in 1 .. Views(k) : view_of[s] = views[k][v]

\* Strand s is in the P-bag of level k for the view it is in.
ParallelIn(s, k, v) ==
  /\ rep(s) = Slot(k, v) /\ view_of[s] = views[k][v]
  /\ \A j \in Depth : s \notin past[j] /\ (s \in joined[j] <=> j = k)

InView(s, k) == SerialIn(s, k) \/ \E v \in 1 .. Views(k) : ParallelIn(s, k, v)

StrandsInViews == \A s \in 1 .. nstrands : \E k \in Depth : InView(s, k)

\* A frame starts in its caller's last view, and every further one is new.
ViewsDistinct ==
  /\ \A k \in Depth : k < frame_head => views[k + 1][1] = LastOf(views[k])
  /\ \A j, k \in Depth : \A u \in 1 .. Views(j), v \in 1 .. Views(k) :
       (j < k /\ 1 < v) \/ (j = k /\ u < v) => views[j][u] # views[k][v]
  /\ \A k \in Depth : \A v \in 1 .. Views(k) :
       views[k][v] \in 1 .. nstrands /\ (HelperLeaving => views[k][v] # nstrands)

\* The strand that is running is the last one, in the frame on top.
RunningStrand == \A k \in Depth : nstrands \in past[k] <=> k = frame_head

\* Id id names view w: it is the current one of a frame, or a P-bag's.
Names(id, w) ==
  \E k \in Depth :
    \/ id = curr_view_id[k] /\ w = LastOf(views[k])
    \/ \E v \in 1 .. Views(k) :
         Slot(k, v) # NULL /\ id = bag_view[Slot(k, v)] /\ w = views[k][v]

\* An id names one view only, and the next one is new.
IdsNameViews ==
  /\ \A id \in 0 .. view_id : \A w, x \in Strands : Names(id, w) /\ Names(id, x) => w = x
  /\ \A k \in Levels : curr_view_id[k] < view_id
  /\ \A n \in Nodes : bag_view[n] < view_id

\* The top P-bag carries the current id, but for the frame whose P-bags are
\* being merged; a return merges some only for a continuation it will give a
\* view of its own.
TopCurrent(k) == Pbag[k] # NULL => bag_view[Pbag[k]] = curr_view_id[k]

TopsCurrent ==
  /\ \A k \in Depth : k < frame_head => TopCurrent(k)
  /\ \/ TopCurrent(frame_head)
     \/ pc \in {"syncing", "joining", "returning", "reducing"}
  /\ HelperLeaving => /\ Pbag[frame_head] # NULL
                      /\ TopCurrent(frame_head) \/ next_continuation_was_stolen(frame_head)
  /\ pc = "reducing" /\ HelperLeaving => next_continuation_was_stolen(frame_head)
  /\ pc = "returning" /\ to_reduce > 0 => next_continuation_was_stolen(frame_head)

\* What the frame recomputes when a child leaves is what was chosen when the
\* child was detached.
ChoicesKept ==
  /\ \A i \in 1 .. prog_depth :
       prog[i] = "spawned" => (chosen[i] <=> next_continuation_was_stolen(FrameAt(i) - 1))
  /\ \A k \in Depth :
       check_reduce /\ current_sync_block_size[k] # 0 /\ steal_index[k] # 0 =>
         /\ steal_index[k] \in 1 .. MAX_NUM_STEALS
         /\ steal_points[k][steal_index[k]] <= current_sync_block_size[k]

\* A frame is popped before its entry.
FramePopped == pc \in {"leaving", "returning"} \/ HelperLeaving

StealShape ==
  /\ CallStack
  /\ FrameAt(prog_depth) = IF FramePopped THEN frame_head + 1 ELSE frame_head

StealPhases ==
  /\ pc \in {"prepared", "called", "syncing", "joining"} => prog[prog_depth] = "cilk"
  /\ pc = "detaching" => prog[prog_depth] = "helper"
  /\ pc \in {"leaving", "reducing"} => prog[prog_depth] \in {"cilk", "spawned"}
  /\ pc = "returning" => prog[prog_depth] = "spawned"

\* Strands that work on views are nested in each other, below user code or a
\* reduce operation.
Contexts ==
  /\ context_stack \in Seq({"USER", "UPDATE", "REDUCE"}) /\ Len(context_stack) > 0
  /\ context_stack[1] = "USER"
  /\ \A i \in 2 .. Len(context_stack) :
       context_stack[i] = IF pc = "reducing" THEN "REDUCE" ELSE "UPDATE"
  /\ Len(context_stack) > 1 => pc = "user" \/ (pc = "reducing" /\ Pbag[frame_head] # NULL)

\* The options choose one way to steal, and nothing changes them.
OptionsTyped ==
  /\ max_sync_block_size \in Nat
  /\ \A i \in 1 .. MAX_NUM_STEALS : steal_point[i] \in Nat
  /\ cont_depth_to_check # 0 => ~check_reduce /\ ~simulate_all_steals
  /\ ~(check_reduce /\ simulate_all_steals)

PointsTyped ==
  /\ steal_index \in [Levels -> Nat]
  /\ DOMAIN steal_points = Levels
  /\ \A k \in Levels, i \in 1 .. MAX_NUM_STEALS : steal_points[k][i] \in Nat
  /\ chosen \in [Entries -> BOOLEAN]

ViewsTyped ==
  /\ below \in [Levels -> Seq(Nodes \cup {NULL})]
  /\ curr_view_id \in [Levels -> Nat] /\ view_id \in Nat /\ bag_view \in [Nodes -> Nat]
  /\ views \in [Levels -> Seq(Strands)] /\ view_of \in [Strands -> Strands]

StealTyped == OptionsTyped /\ PointsTyped /\ ViewsTyped /\ BagTyped /\ CountsTyped

Placed == StacksShaped /\ StealBagsDistinct /\ NodesInUse /\ StrandsInViews /\ ViewsDistinct

Control == EntriesInv /\ StealShape /\ StealPhases /\ Contexts

StealIInv ==
  /\ StealTyped /\ Control
  /\ Placed /\ RunningStrand /\ IdsNameViews /\ TopsCurrent /\ ChoicesKept

-----------------------------------------------------------------------------
(***************************************************************************)
(* Views and slots.                                                        *)
(***************************************************************************)
\* What is left of a sequence without its last element.
LEMMA FrontFacts ==
  ASSUME NEW S, NEW q \in Seq(S), Len(q) > 0
  PROVE  /\ Front(q) \in Seq(S) /\ Len(Front(q)) = Len(q) - 1 /\ Len(q) \in Nat
         /\ \A i \in 1 .. (Len(q) - 1) : Front(q)[i] = q[i]
         /\ LastOf(q) = q[Len(q)] /\ LastOf(q) \in S
<1>0. Len(q) \in Nat /\ (Len(q) = 1 \/ Len(q) > 1)
  OBVIOUS
<1>1. Front(q) \in Seq(S) /\ \A i \in 1 .. (Len(q) - 1) : Front(q)[i] = q[i]
  BY DEF Front
<1>2. CASE Len(q) = 1
  BY <1>1, <1>2 DEF Front, LastOf
<1>3. CASE Len(q) > 1
  BY <1>1, <1>3 DEF Front, LastOf
<1>4. QED
  BY <1>0, <1>2, <1>3

\* What is in a sequence with one more element.
LEMMA AppendFacts ==
  ASSUME NEW S, NEW q \in Seq(S), NEW x \in S
  PROVE  /\ Append(q, x) \in Seq(S) /\ Len(Append(q, x)) = Len(q) + 1 /\ Len(q) \in Nat
         /\ \A i \in 1 .. Len(q) : Append(q, x)[i] = q[i]
         /\ Append(q, x)[Len(q) + 1] = x /\ LastOf(Append(q, x)) = x
  BY DEF LastOf

\* A frame's views, and its slots under the top one.
LEMMA SlotRanges ==
  ASSUME BagTyped, ViewsTyped, StacksShaped, NEW k \in Depth
  PROVE  /\ k \in Levels /\ Views(k) \in Nat /\ Views(k) \in 1 .. Views(k) /\ 1 \in 1 .. Views(k)
         /\ views[k] \in Seq(Strands) /\ below[k] \in Seq(Nodes \cup {NULL})
         /\ Len(below[k]) \in Nat /\ Skipped(k) \in {0, 1}
         /\ Len(below[k]) = Views(k) - 1 + Skipped(k)
         /\ Slot(k, Views(k)) = Pbag[k] /\ LastOf(views[k]) = views[k][Views(k)]
         /\ \A v \in 1 .. Views(k) : /\ views[k][v] \in Strands
                                     /\ v # Views(k) => Slot(k, v) = below[k][v + Skipped(k)]
<1>1. k \in Levels
  BY Ranges
<1>2. views[k] \in Seq(Strands) /\ below[k] \in Seq(Nodes \cup {NULL})
  BY <1>1 DEF ViewsTyped
<1>3. Views(k) \in Nat /\ Len(below[k]) \in Nat
  BY <1>2 DEF Views
<1>4. Views(k) > 0 /\ Skipped(k) \in {0, 1}
  BY DEF StacksShaped
<1>5. Views(k) \in 1 .. Views(k) /\ 1 \in 1 .. Views(k)
  BY <1>3, <1>4
<1>6. Len(below[k]) = Views(k) - 1 + Skipped(k)
  BY <1>3 DEF Skipped
<1>7. \A v \in 1 .. Views(k) : views[k][v] \in Strands
  BY <1>2 DEF Views
<1>8. QED
  BY <1>1, <1>2, <1>3, <1>4, <1>5, <1>6, <1>7 DEF Slot, LastOf, Views

\* The views and the slots of level k are what they were.
SlotsSame(k) ==
  /\ Views(k)' = Views(k) /\ views'[k] = views[k]
  /\ \A v \in 1 .. Views(k) : Slot(k, v)' = Slot(k, v)

\* They are when the frame's stack and its top P-bag are.
LEMMA SlotsKept ==
  ASSUME NEW k, views'[k] = views[k], below'[k] = below[k], Pbag'[k] = Pbag[k]
  PROVE  SlotsSame(k) /\ Skipped(k)' = Skipped(k)
  BY DEF SlotsSame, Views, Slot, Skipped

-----------------------------------------------------------------------------
(***************************************************************************)
(* Steps that push no frame: a set may be merged into another, slots are   *)
(* popped or emptied.                                                      *)
(***************************************************************************)
\* The set of b joins that of a.
Joins(a, b) == \A n \in Nodes : set_node'[n] = IF set_node[n] = b THEN a ELSE set_node[n]

\* What is left of the bags, once b is in no slot, are distinct sets still.
LEMMA BagsKept ==
  ASSUME BagTyped, StealBagsDistinct, NEW top \in Depth, NEW a \in 1 .. dset_size, NEW b,
         Joins(a, b), frame_head' = top, dset_size' = dset_size, kind' = kind,
         \A k \in 0 .. top : Sbag'[k] = Sbag[k] /\ Sbag[k] # b,
         \A k \in Levels : Pbag'[k] # NULL => k \in 0 .. top,
         \A k \in 0 .. top : \A v \in 1 .. Views(k)' :
           /\ v < Views(k)' => Slot(k, v)' # NULL
           /\ Slot(k, v)' # NULL =>
                v \in 1 .. Views(k) /\ Slot(k, v)' = Slot(k, v) /\ Slot(k, v) # b
  PROVE  StealBagsDistinct'
<1>1. /\ Depth' = 0 .. top /\ 0 .. top \subseteq Depth /\ (1 .. dset_size)' = 1 .. dset_size
      /\ 1 .. dset_size \subseteq Nodes
  BY Ranges DEF Depth
<1>2. ASSUME NEW k \in Depth'
      PROVE  Sbag'[k] \in 1 .. dset_size /\ set_node'[Sbag'[k]] = Sbag'[k] /\ kind'[Sbag'[k]] = "S"
  <2>1. /\ Sbag'[k] = Sbag[k] /\ Sbag[k] # b /\ Sbag[k] \in Nodes /\ Sbag[k] \in 1 .. dset_size
        /\ set_node[Sbag[k]] = Sbag[k] /\ kind[Sbag[k]] = "S"
    BY <1>1 DEF StealBagsDistinct
  <2>2. QED
    BY <2>1 DEF Joins
<1>3. ASSUME NEW k \in Depth', NEW v \in 1 .. Views(k)', Slot(k, v)' # NULL
      PROVE  /\ v \in 1 .. Views(k) /\ k \in Depth /\ Slot(k, v)' = Slot(k, v)
             /\ Slot(k, v)' \in 1 .. dset_size
             /\ set_node'[Slot(k, v)'] = Slot(k, v)' /\ kind'[Slot(k, v)'] = "P"
  <2>1. /\ k \in Depth /\ v \in 1 .. Views(k)
        /\ Slot(k, v)' = Slot(k, v) /\ Slot(k, v) # b /\ Slot(k, v) # NULL
    BY <1>1, <1>3
  <2>2. /\ Slot(k, v) \in 1 .. dset_size
        /\ set_node[Slot(k, v)] = Slot(k, v) /\ kind[Slot(k, v)] = "P"
    BY <2>1 DEF StealBagsDistinct
  <2>3. QED
    BY <1>1, <2>1, <2>2 DEF Joins
<1>4. ASSUME NEW j \in Depth', NEW k \in Depth', j # k PROVE Sbag'[j] # Sbag'[k]
  BY <1>1, <1>4 DEF StealBagsDistinct
<1>5. ASSUME NEW j \in Depth', NEW k \in Depth', NEW u \in 1 .. Views(j)',
             NEW v \in 1 .. Views(k)', Slot(j, u)' # NULL, Slot(j, u)' = Slot(k, v)'
      PROVE  j = k /\ u = v
  <2>1. /\ j \in Depth /\ k \in Depth /\ u \in 1 .. Views(j) /\ v \in 1 .. Views(k)
        /\ Slot(j, u) # NULL /\ Slot(j, u) = Slot(k, v)
    BY <1>3, <1>5
  <2>2. QED
    BY <2>1 DEF StealBagsDistinct
<1>6. \A k \in Levels : Pbag'[k] # NULL => k \in Depth'
  BY <1>1
<1>7. \A k \in Depth' : \A v \in 1 .. Views(k)' : v < Views(k)' => Slot(k, v)' # NULL
  BY <1>1
<1>8. QED
  BY <1>1, <1>2, <1>3, <1>4, <1>5, <1>6, <1>7 DEF StealBagsDistinct

\* A merge leaves every node in a set of one that has been created.
LEMMA NodesJoined ==
  ASSUME BagTyped, NodesInUse, NEW a \in 1 .. dset_size, NEW b \in (1 .. dset_size) \cup {NULL},
         Joins(a, b), dset_size' = dset_size
  PROVE  \A n \in Nodes : IF n <= dset_size' THEN set_node'[n] \in 1 .. dset_size'
                                             ELSE set_node'[n] = n
<1> SUFFICES ASSUME NEW n \in Nodes
             PROVE  IF n <= dset_size THEN set_node'[n] \in 1 .. dset_size
                                      ELSE set_node'[n] = n
  OBVIOUS
<1>1. CASE n <= dset_size
  BY <1>1 DEF Joins, NodesInUse
<1>2. CASE ~(n <= dset_size)
  <2>1. set_node[n] = n
    BY <1>2 DEF NodesInUse
  <2>2. n # b
    BY <1>2, Ranges DEF Nodes
  <2>3. QED
    BY <1>2, <2>1, <2>2 DEF Joins
<1>3. QED
  BY <1>1, <1>2

\* A step between two strands of the frame on top: no frame is left and no
\* strand starts.
LEMMA NodesKept ==
  ASSUME BagTyped, NodesInUse, NEW a \in 1 .. dset_size, NEW b \in (1 .. dset_size) \cup {NULL},
         Joins(a, b), UNCHANGED <<frame_head, dset_size, dagVars>>
  PROVE  NodesInUse'
<1>1. \A n \in Nodes : IF n <= dset_size' THEN set_node'[n] \in 1 .. dset_size'
                                          ELSE set_node'[n] = n
  BY NodesJoined
<1>2. /\ \A s \in (1 .. nstrands)' : owner'[s] \in 1 .. dset_size'
      /\ \A k \in Depth' : past'[k] \subseteq (1 .. nstrands)' /\ joined'[k] \subseteq (1 .. nstrands)'
  BY DEF NodesInUse, Depth, dagVars
<1>3. QED
  BY <1>1, <1>2 DEF NodesInUse

\* The program goes on at level top in a new strand that follows preds; its
\* frames keep their views.
ContinuesIn(top, preds, a, b) ==
  /\ nstrands < MaxStrands
  /\ NextStrandAt(top, preds)
  /\ frame_head' = top /\ dset_size' = dset_size /\ kind' = kind
  /\ Joins(a, b)
  /\ \A k \in 0 .. top : /\ Sbag'[k] = Sbag[k] /\ Sbag[k] # b
                         /\ joined'[k] \subseteq 1 .. nstrands
  /\ \A k \in Levels : Pbag'[k] # NULL => k \in 0 .. top
  /\ \A k \in 0 .. top : \A v \in 1 .. Views(k)' :
       /\ v < Views(k)' => Slot(k, v)' # NULL
       /\ Slot(k, v)' # NULL =>
            v \in 1 .. Views(k) /\ Slot(k, v)' = Slot(k, v) /\ Slot(k, v) # b
  /\ views' = views
  /\ \E v \in 1 .. Views(top) : view_of' = [view_of EXCEPT ![nstrands + 1] = views[top][v]]

\* Where the strands executed so far are after the step.
MovedIn(t, top, preds, k) ==
  \/ /\ set_node'[owner[t]] = Sbag[k] /\ \E v \in 1 .. Views(k) : view_of[t] = views[k][v]
     /\ t \in preds
     /\ \A j \in 0 .. top : /\ j # top => (t \in past[j] <=> k <= j)
                            /\ t \in joined'[j] => k <= j
  \/ /\ \E v \in 1 .. Views(k) : set_node'[owner[t]] = Slot(k, v)' /\ view_of[t] = views[k][v]
     /\ t \notin preds
     /\ \A j \in 0 .. top : /\ j # top => t \notin past[j]
                            /\ t \in joined'[j] <=> j = k

\* Going on in frame top keeps every strand in its bag and in its view.
LEMMA ContinuesInInv ==
  ASSUME BagTyped, ViewsTyped, StealBagsDistinct, NodesInUse,
         NEW top \in Depth, NEW preds \in SUBSET (1 .. nstrands),
         NEW a \in 1 .. dset_size, NEW b \in (1 .. dset_size) \cup {NULL},
         ContinuesIn(top, preds, a, b),
         \A t \in 1 .. nstrands : \E k \in 0 .. top : MovedIn(t, top, preds, k)
  PROVE  StealBagsDistinct' /\ NodesInUse' /\ StrandsInViews'
<1>0. PICK s : s = nstrands + 1
  OBVIOUS
<1>1. /\ top \in Levels /\ top \in 0 .. top /\ 0 .. top \subseteq Depth /\ Depth \subseteq Levels
      /\ Depth' = 0 .. top /\ \A k \in 0 .. top : k <= top
      /\ top \in Nat
  BY Ranges DEF ContinuesIn, Depth, Levels
<1>2. /\ s \in Strands /\ nstrands' = s /\ s \notin 1 .. nstrands
      /\ 1 .. nstrands \subseteq Strands /\ (1 .. nstrands)' = (1 .. nstrands) \cup {s}
  BY <1>0, Ranges DEF ContinuesIn, NextStrandAt, Strands
<1>3. /\ past'[top] = preds \cup {s} /\ \A k \in Levels : k # top => past'[k] = past[k]
      /\ owner'[s] = Sbag[top] /\ \A t \in 1 .. nstrands : owner'[t] = owner[t]
  BY <1>0, <1>1, <1>2 DEF ContinuesIn, NextStrandAt, BagTyped
<1>4. \A k \in 0 .. top : Views(k)' = Views(k) /\ views'[k] = views[k] /\ Sbag'[k] = Sbag[k]
  BY DEF ContinuesIn, Views
<1>5. /\ \A t \in 1 .. nstrands : view_of'[t] = view_of[t]
      /\ \E v \in 1 .. Views(top) : view_of'[s] = views[top][v]
  BY <1>0, <1>2 DEF ContinuesIn, ViewsTyped
<1>6. StealBagsDistinct'
  BY BagsKept DEF ContinuesIn
<1>7. NodesInUse'
  <2>1. \A n \in Nodes : IF n <= dset_size' THEN set_node'[n] \in 1 .. dset_size'
                                            ELSE set_node'[n] = n
    BY NodesJoined DEF ContinuesIn
  <2>2. ASSUME NEW t \in (1 .. nstrands)' PROVE owner'[t] \in 1 .. dset_size'
    BY <1>1, <1>2, <1>3 DEF ContinuesIn, StealBagsDistinct, NodesInUse
  <2>3. ASSUME NEW k \in Depth'
        PROVE  past'[k] \subseteq (1 .. nstrands)' /\ joined'[k] \subseteq (1 .. nstrands)'
    BY <1>1, <1>2, <1>3 DEF ContinuesIn, NodesInUse
  <2>4. QED
    BY <2>1, <2>2, <2>3 DEF NodesInUse
<1>8. StrandsInViews'
  <2>1. ASSUME NEW t \in 1 .. nstrands PROVE \E k \in Depth' : InView(t, k)'
    <3>1. PICK k \in 0 .. top : MovedIn(t, top, preds, k)
      OBVIOUS
    <3>2. t # s /\ rep(t)' = set_node'[owner[t]] /\ view_of'[t] = view_of[t]
      BY <1>2, <1>3, <1>5 DEF rep
    <3>3. \A j \in Depth' : /\ j = top => (t \in past'[j] <=> t \in preds)
                            /\ j # top => past'[j] = past[j]
      BY <1>1, <1>3, <3>2
    <3>4. CASE /\ set_node'[owner[t]] = Sbag[k]
               /\ \E v \in 1 .. Views(k) : view_of[t] = views[k][v]
               /\ t \in preds
               /\ \A j \in 0 .. top : /\ j # top => (t \in past[j] <=> k <= j)
                                      /\ t \in joined'[j] => k <= j
      <4>1. ASSUME NEW j \in Depth'
            PROVE  (t \in past'[j] <=> k <= j) /\ (t \in joined'[j] => k <= j)
        BY <1>1, <3>1, <3>3, <3>4
      <4>2. SerialAt(t, k)'
        BY <1>4, <3>2, <3>4, <4>1 DEF SerialAt
      <4>3. \E v \in 1 .. Views(k)' : view_of'[t] = views'[k][v]
        BY <1>4, <3>2, <3>4
      <4>4. QED
        BY <1>1, <4>2, <4>3 DEF SerialIn, InView
    <3>5. CASE /\ \E v \in 1 .. Views(k) : /\ set_node'[owner[t]] = Slot(k, v)'
                                           /\ view_of[t] = views[k][v]
               /\ t \notin preds
               /\ \A j \in 0 .. top : /\ j # top => t \notin past[j]
                                      /\ t \in joined'[j] <=> j = k
      <4>1. ASSUME NEW j \in Depth'
            PROVE  t \notin past'[j] /\ (t \in joined'[j] <=> j = k)
        BY <1>1, <3>3, <3>5
      <4>2. PICK v \in 1 .. Views(k) : /\ set_node'[owner[t]] = Slot(k, v)'
                                       /\ view_of[t] = views[k][v]
        BY <3>5
      <4>3. rep(t)' = Slot(k, v)' /\ view_of'[t] = views'[k][v]
        BY <1>4, <3>2, <4>2
      <4>4. ParallelIn(t, k, v)'
        BY <4>1, <4>3 DEF ParallelIn
      <4>5. k \in Depth' /\ v \in 1 .. Views(k)'
        BY <1>1, <1>4
      <4>6. QED
        BY <4>4, <4>5 DEF InView
    <3>6. QED
      BY <3>1, <3>4, <3>5 DEF MovedIn
  <2>2. InView(s, top)'
    <3>1. rep(s)' = Sbag'[top]
      BY <1>1, <1>3, <1>6 DEF rep, ContinuesIn, StealBagsDistinct
    <3>2. ASSUME NEW j \in Depth'
          PROVE  (s \in past'[j] <=> top <= j) /\ (s \in joined'[j] => top <= j)
      <4>1. s \notin joined'[j] /\ (j # top => s \notin past'[j])
        BY <1>1, <1>2, <1>3 DEF ContinuesIn, NodesInUse
      <4>2. s \in past'[top] /\ (top <= j <=> j = top)
        BY <1>1, <1>3
      <4>3. QED
        BY <4>1, <4>2
    <3>3. \E v \in 1 .. Views(top)' : view_of'[s] = views'[top][v]
      BY <1>1, <1>4, <1>5
    <3>4. QED
      BY <3>1, <3>2, <3>3 DEF InView, SerialIn, SerialAt
  <2>3. QED
    BY <1>1, <1>2, <2>1, <2>2 DEF StrandsInViews
<1>9. QED
  BY <1>6, <1>7, <1>8

\* Views that are distinct stay so while no frame changes them.
LEMMA ViewsKept ==
  ASSUME BagTyped, ViewsTyped, StacksShaped, ViewsDistinct,
         frame_head' \in Depth, views' = views,
         nstrands' = nstrands + 1 \/ (nstrands' = nstrands /\ (HelperLeaving' => HelperLeaving))
  PROVE  ViewsDistinct'
<1>1. /\ Depth' \subseteq Depth /\ nstrands \in Nat
      /\ \A k \in Depth' : k < frame_head' => k \in Depth /\ k < frame_head
      /\ \A k : Views(k)' = Views(k) /\ views'[k] = views[k]
      /\ \A v \in 1 .. nstrands : v \in 1 .. nstrands' /\ v # nstrands + 1
  BY Ranges DEF Depth, Views
<1>2. \A k \in Depth' : k < frame_head' => views'[k + 1][1] = LastOf(views'[k])
  BY <1>1 DEF ViewsDistinct
<1>3. \A j, k \in Depth' : \A u \in 1 .. Views(j)', v \in 1 .. Views(k)' :
        (j < k /\ 1 < v) \/ (j = k /\ u < v) => views'[j][u] # views'[k][v]
  BY <1>1 DEF ViewsDistinct
<1>4. ASSUME NEW k \in Depth', NEW v \in 1 .. Views(k)'
      PROVE  views'[k][v] \in 1 .. nstrands' /\ (HelperLeaving' => views'[k][v] # nstrands')
  BY <1>1 DEF ViewsDistinct
<1>5. QED
  BY <1>2, <1>3, <1>4 DEF ViewsDistinct

-----------------------------------------------------------------------------
(***************************************************************************)
(* A sync.                                                                 *)
(***************************************************************************)
\* A sync, after all views but one of the frame have been merged.
LEMMA SyncsPlaced ==
  ASSUME BagTyped, ViewsTyped, Placed, SyncsFrame, Views(frame_head) = 1,
         below' = [below EXCEPT ![frame_head] = <<>>], views' = views,
         view_of' = [view_of EXCEPT ![nstrands + 1] = views[frame_head][1]],
         current_sync_block_size' = [current_sync_block_size EXCEPT ![frame_head] = 0],
         CountsTyped
  PROVE  Placed' /\ Pbag'[frame_head] = NULL /\ \A k \in Depth : k # frame_head => SlotsSame(k)
<1>0. PICK h, a, b, preds : /\ h = frame_head /\ a = Sbag[frame_head] /\ b = Pbag[frame_head]
                            /\ preds = past[frame_head] \cup joined[frame_head]
  OBVIOUS
<1>p. StacksShaped /\ StealBagsDistinct /\ NodesInUse /\ StrandsInViews /\ ViewsDistinct
  BY DEF Placed
<1>1. /\ h \in Depth /\ h \in Levels /\ 0 .. h = Depth /\ Depth' = Depth /\ Depth \subseteq Levels
      /\ \A k \in Depth : k <= h
      /\ h \in Nat /\ NULL \notin Nodes /\ 1 .. dset_size \subseteq Nodes
  BY <1>0, Ranges DEF Depth, SyncsFrame
<1>2. /\ Pbag'[h] = NULL /\ \A k \in Levels : k # h => Pbag'[k] = Pbag[k]
      /\ joined'[h] = {} /\ \A k \in Levels : k # h => joined'[k] = joined[k]
      /\ below'[h] = <<>> /\ \A k \in Levels : k # h => below'[k] = below[k]
      /\ current_sync_block_size'[h] = 0
      /\ \A k \in Levels : k # h => current_sync_block_size'[k] = current_sync_block_size[k]
  BY <1>0, <1>1 DEF SyncsFrame, BagTyped, ViewsTyped, CountsTyped
<1>3. \A k \in Depth : k # h => SlotsSame(k) /\ Skipped(k)' = Skipped(k)
  BY <1>1, <1>2, SlotsKept
<1>4. /\ Views(h) = 1 /\ Views(h)' = 1 /\ Slot(h, 1)' = NULL /\ Slot(h, 1) = Pbag[h]
      /\ Skipped(h)' = 0
  <2>1. Views(h) = 1 /\ Views(h)' = 1
    BY <1>0 DEF Views
  <2>2. Slot(h, 1)' = Pbag'[h] /\ Slot(h, 1) = Pbag[h]
    BY <2>1 DEF Slot
  <2>3. Skipped(h)' = Len(below'[h]) + 1 - 1 /\ Len(below'[h]) = 0
    BY <1>2, <2>1 DEF Skipped
  <2>4. QED
    BY <1>2, <2>1, <2>2, <2>3
<1>5. /\ a \in 1 .. dset_size /\ set_node[a] = a
      /\ b = NULL \/ (b \in 1 .. dset_size /\ set_node[b] = b /\ kind[b] = "P")
  BY <1>0, <1>1, <1>4, <1>p DEF StealBagsDistinct
<1>6. \A k \in Depth : Sbag[k] # b
  BY <1>1, <1>5, <1>p DEF StealBagsDistinct
<1>7. Joins(a, b)
  <2>1. CASE b = NULL
    BY <1>0, <1>1, <2>1 DEF SyncsFrame, BagTyped, Joins
  <2>2. CASE b # NULL
    BY <1>0, <1>1, <1>5, <2>2 DEF SyncsFrame, Combined, BagTyped, Joins
  <2>3. QED
    BY <2>1, <2>2
<1>8. \A k \in Depth : k # h => \A v \in 1 .. Views(k) : Slot(k, v) # NULL => Slot(k, v) # b
  BY <1>0, <1>1, <1>4, <1>p DEF StealBagsDistinct
<1>9. ContinuesIn(h, preds, a, b)
  <2>1. \A k \in Levels : Pbag'[k] # NULL => k \in 0 .. h
    BY <1>1, <1>2, <1>p DEF StealBagsDistinct
  <2>2. \A k \in 0 .. h : Sbag'[k] = Sbag[k] /\ Sbag[k] # b /\ joined'[k] \subseteq 1 .. nstrands
    BY <1>1, <1>2, <1>6, <1>p DEF SyncsFrame, NodesInUse
  <2>3. ASSUME NEW k \in 0 .. h, NEW v \in 1 .. Views(k)'
        PROVE  /\ v < Views(k)' => Slot(k, v)' # NULL
               /\ Slot(k, v)' # NULL =>
                    v \in 1 .. Views(k) /\ Slot(k, v)' = Slot(k, v) /\ Slot(k, v) # b
    <3>1. CASE k = h
      <4>1. v = 1
        BY <1>4, <3>1
      <4>2. QED
        BY <1>4, <3>1, <4>1
    <3>2. CASE k # h
      <4>1. /\ k \in Depth /\ v \in 1 .. Views(k) /\ Views(k)' = Views(k)
            /\ Slot(k, v)' = Slot(k, v)
        BY <1>1, <1>3, <3>2 DEF SlotsSame
      <4>2. v < Views(k) => Slot(k, v) # NULL
        BY <4>1, <1>p DEF StealBagsDistinct
      <4>3. QED
        BY <1>8, <3>2, <4>1, <4>2
    <3>3. QED
      BY <3>1, <3>2
  <2>4. \E v \in 1 .. Views(h) : view_of' = [view_of EXCEPT ![nstrands + 1] = views[h][v]]
    <3>1. 1 \in 1 .. Views(h) /\ view_of' = [view_of EXCEPT ![nstrands + 1] = views[h][1]]
      BY <1>0, <1>4
    <3>2. QED
      BY <3>1, Zenon
  <2>5. QED
    BY <1>0, <1>7, <2>1, <2>2, <2>3, <2>4 DEF ContinuesIn, SyncsFrame
<1>10. ASSUME NEW t \in 1 .. nstrands PROVE \E k \in 0 .. h : MovedIn(t, h, preds, k)
  <2>1. owner[t] \in Nodes /\ rep(t) \in Nodes
    BY <1>1, <1>p DEF NodesInUse, BagTyped, rep
  <2>2. set_node'[owner[t]] = IF rep(t) = b THEN a ELSE rep(t)
    BY <1>7, <2>1 DEF rep, Joins
  <2>3. PICK k \in Depth : InView(t, k)
    BY <1>p DEF StrandsInViews
  <2>4. CASE SerialIn(t, k)
    <3>1. set_node'[owner[t]] = Sbag[k]
      BY <1>6, <2>2, <2>4 DEF SerialIn, SerialAt
    <3>2. t \in preds
      BY <1>0, <1>1, <2>4 DEF SerialIn, SerialAt
    <3>3. ASSUME NEW j \in 0 .. h
          PROVE  (j # h => (t \in past[j] <=> k <= j)) /\ (t \in joined'[j] => k <= j)
      BY <1>1, <1>2, <2>4 DEF SerialIn, SerialAt
    <3>4. QED
      BY <1>1, <2>4, <3>1, <3>2, <3>3 DEF MovedIn, SerialIn
  <2>5. ASSUME NEW v \in 1 .. Views(k), ParallelIn(t, k, v), k = h
        PROVE  MovedIn(t, h, preds, k)
    <3>1. v = 1
      BY <1>4, <2>5
    <3>2. set_node'[owner[t]] = Sbag[h]
      BY <1>0, <1>4, <2>2, <2>5, <3>1 DEF ParallelIn
    <3>3. t \in preds
      BY <1>0, <1>1, <2>5 DEF ParallelIn
    <3>4. ASSUME NEW j \in 0 .. h
          PROVE  (j # h => (t \in past[j] <=> h <= j)) /\ (t \in joined'[j] => h <= j)
      BY <1>1, <1>2, <2>5 DEF ParallelIn
    <3>5. QED
      BY <2>5, <3>2, <3>3, <3>4 DEF MovedIn, ParallelIn
  <2>6. ASSUME NEW v \in 1 .. Views(k), ParallelIn(t, k, v), k # h
        PROVE  MovedIn(t, h, preds, k)
    <3>1. Slot(k, v)' = Slot(k, v) /\ rep(t) = Slot(k, v) /\ Slot(k, v) # NULL
      BY <1>1, <1>3, <2>1, <2>3, <2>6 DEF ParallelIn, SlotsSame
    <3>2. Slot(k, v) # b
      BY <1>8, <2>3, <2>6, <3>1
    <3>3. set_node'[owner[t]] = Slot(k, v)' /\ view_of[t] = views[k][v]
      BY <2>2, <2>6, <3>1, <3>2 DEF ParallelIn
    <3>4. t \notin preds
      BY <1>0, <1>1, <2>6 DEF ParallelIn
    <3>5. ASSUME NEW j \in 0 .. h
          PROVE  (j # h => t \notin past[j]) /\ (t \in joined'[j] <=> j = k)
      BY <1>1, <1>2, <2>3, <2>6 DEF ParallelIn
    <3>6. QED
      BY <3>3, <3>4, <3>5 DEF MovedIn
  <2>7. QED
    BY <1>1, <2>3, <2>4, <2>5, <2>6 DEF InView
<1>11. StealBagsDistinct' /\ NodesInUse' /\ StrandsInViews'
  <2>1. preds \in SUBSET (1 .. nstrands)
    BY <1>0, <1>1, <1>p DEF NodesInUse
  <2>2. QED
    BY <1>1, <1>5, <1>9, <1>10, <1>p, <2>1, ContinuesInInv
<1>12. StacksShaped'
  <2>1. ASSUME NEW k \in Depth', k # h
        PROVE  /\ Views(k)' > 0 /\ Skipped(k)' \in {0, 1}
               /\ Skipped(k)' = 1 => below'[k][1] = NULL
               /\ current_sync_block_size'[k] = 0 => below'[k] = <<>> /\ Pbag'[k] = NULL
    BY <1>1, <1>2, <1>3, <1>p, <2>1 DEF StacksShaped, SlotsSame
  <2>2. QED
    BY <1>2, <1>4, <2>1 DEF StacksShaped
<1>13. ViewsDistinct'
  <2>1. nstrands' = nstrands + 1 /\ frame_head' \in Depth
    BY <1>0, <1>1 DEF SyncsFrame, NextStrandAt
  <2>2. QED
    BY <1>p, <2>1, ViewsKept
<1>14. QED
  BY <1>0, <1>2, <1>3, <1>11, <1>12, <1>13 DEF Placed

-----------------------------------------------------------------------------
(***************************************************************************)
(* A return.                                                               *)
(***************************************************************************)
\* A frame that has been joined is left, for a frame whose slots stay.
PopsFrame ==
  /\ below[frame_head] = <<>> /\ below' = below /\ views' = views
  /\ current_sync_block_size' = current_sync_block_size
  /\ view_of' = [view_of EXCEPT ![nstrands + 1] = LastOf(views[frame_head - 1])]

\* What leaving a frame does to the levels and the sets that are left.
LEMMA PopsFacts ==
  ASSUME BagTyped, ViewsTyped, Placed, NEW a, LeavesFrame(a), PopsFrame,
         NEW p, p = frame_head - 1, a = Sbag[p] \/ a = Pbag[p], NEW b, b = Sbag[frame_head]
  PROVE  /\ p \in Nat /\ p \in Depth /\ p \in Levels /\ frame_head = p + 1 /\ p \in 0 .. p
         /\ frame_head \in Depth /\ frame_head \in Levels /\ Depth' = 0 .. p
         /\ 0 .. p \subseteq Depth /\ \A k \in Depth : k \in 0 .. p \/ k = frame_head
         /\ Depth \subseteq Levels
         /\ \A k \in 0 .. p : k <= p /\ k <= frame_head /\ ~(frame_head <= k)
         /\ a \in 1 .. dset_size /\ b \in 1 .. dset_size /\ Joins(a, b)
         /\ \A k \in 0 .. p : Sbag'[k] = Sbag[k] /\ Sbag[k] # b
         /\ \A k \in Levels : Pbag'[k] # NULL => k \in 0 .. p
         /\ \A k \in 0 .. p : SlotsSame(k) /\ Skipped(k)' = Skipped(k)
         /\ \A k \in Depth : \A v \in 1 .. Views(k) : Slot(k, v) # b
         /\ Views(frame_head) = 1 /\ Slot(frame_head, 1) = NULL
         /\ views[frame_head][1] = views[p][Views(p)] /\ Views(p) \in 1 .. Views(p)
         /\ Slot(p, Views(p)) = Pbag[p]
<1>p. StacksShaped /\ StealBagsDistinct /\ NodesInUse /\ StrandsInViews /\ ViewsDistinct
  BY DEF Placed
<1>1. /\ p \in Nat /\ p \in Depth /\ p \in Levels /\ frame_head = p + 1 /\ p \in 0 .. p
      /\ frame_head \in Depth /\ frame_head \in Levels /\ Depth' = 0 .. p
      /\ 0 .. p \subseteq Depth /\ \A k \in Depth : k \in 0 .. p \/ k = frame_head
      /\ Depth \subseteq Levels
      /\ \A k \in 0 .. p : k # frame_head /\ k <= p /\ k <= frame_head /\ ~(frame_head <= k)
      /\ NULL \notin Nodes /\ 1 .. dset_size \subseteq Nodes
  BY Ranges DEF LeavesFrame, Depth, Levels
<1>2. /\ Views(p) \in 1 .. Views(p) /\ Slot(p, Views(p)) = Pbag[p]
      /\ LastOf(views[p]) = views[p][Views(p)]
  BY <1>1, <1>p, SlotRanges
<1>3. a \in 1 .. dset_size /\ set_node[a] = a /\ b \in 1 .. dset_size /\ set_node[b] = b
      /\ kind[b] = "S"
  BY <1>1, <1>2, <1>p DEF LeavesFrame, StealBagsDistinct
<1>4. Joins(a, b)
  BY <1>1, <1>3 DEF LeavesFrame, Combined, BagTyped, Joins
<1>5. \A k \in 0 .. p : Sbag'[k] = Sbag[k] /\ Sbag[k] # b
  BY <1>1, <1>p DEF LeavesFrame, BagTyped, StealBagsDistinct
<1>6. \A k \in Levels : Pbag'[k] # NULL => k \in 0 .. p
  BY <1>1, <1>p DEF LeavesFrame, StealBagsDistinct
<1>7. \A k \in 0 .. p : SlotsSame(k) /\ Skipped(k)' = Skipped(k)
  BY SlotsKept DEF LeavesFrame, PopsFrame
<1>8. \A k \in Depth : \A v \in 1 .. Views(k) : Slot(k, v) # b
  BY <1>1, <1>3, <1>p DEF StealBagsDistinct
<1>9. Views(frame_head) = 1 /\ Slot(frame_head, 1) = NULL
  <2>1. /\ Views(frame_head) \in Nat /\ 1 \in 1 .. Views(frame_head)
        /\ Skipped(frame_head) \in {0, 1}
        /\ Len(below[frame_head]) = Views(frame_head) - 1 + Skipped(frame_head)
    BY <1>1, <1>p, SlotRanges
  <2>2. Len(below[frame_head]) = 0
    BY DEF PopsFrame
  <2>3. Views(frame_head) = 1
    BY <2>1, <2>2
  <2>4. QED
    BY <2>3 DEF Slot, LeavesFrame
<1>10. views[frame_head][1] = views[p][Views(p)]
  <2>1. views[p + 1][1] = LastOf(views[p])
    BY <1>1, <1>p DEF ViewsDistinct
  <2>2. QED
    BY <1>1, <1>2, <2>1
<1>11. QED
  BY <1>1, <1>2, <1>3, <1>4, <1>5, <1>6, <1>7, <1>8, <1>9, <1>10

\* What a called function executed stays in its caller's last view; what a
\* spawned child executed goes to the P-bag of that view.
LEMMA ReturnsPlaced ==
  ASSUME BagTyped, ViewsTyped, CountsTyped, Placed, ReturnsSpawn \/ ReturnsCall, PopsFrame
  PROVE  Placed' /\ \A k \in Depth' : SlotsSame(k)
<1>0. PICK p, a, b, preds :
        /\ p = frame_head - 1 /\ b = Sbag[frame_head]
        /\ \/ ReturnsSpawn /\ a = Pbag[p] /\ preds = past[p]
           \/ ReturnsCall /\ a = Sbag[p] /\ preds = past[frame_head]
  OBVIOUS
<1>p. StacksShaped /\ StealBagsDistinct /\ NodesInUse /\ StrandsInViews /\ ViewsDistinct
  BY DEF Placed
<1>1. LeavesFrame(a) /\ NextStrandAt(p, preds) /\ (a = Sbag[p] \/ a = Pbag[p])
  BY <1>0 DEF ReturnsSpawn, ReturnsCall
<1>2. /\ p \in Nat /\ p \in Depth /\ p \in Levels /\ frame_head = p + 1 /\ p \in 0 .. p
      /\ frame_head \in Depth /\ frame_head \in Levels /\ Depth' = 0 .. p
      /\ 0 .. p \subseteq Depth /\ \A k \in Depth : k \in 0 .. p \/ k = frame_head
      /\ Depth \subseteq Levels
      /\ \A k \in 0 .. p : k <= p /\ k <= frame_head /\ ~(frame_head <= k)
      /\ a \in 1 .. dset_size /\ b \in 1 .. dset_size /\ Joins(a, b)
      /\ \A k \in 0 .. p : Sbag'[k] = Sbag[k] /\ Sbag[k] # b
      /\ \A k \in Levels : Pbag'[k] # NULL => k \in 0 .. p
      /\ \A k \in 0 .. p : SlotsSame(k) /\ Skipped(k)' = Skipped(k)
      /\ \A k \in Depth : \A v \in 1 .. Views(k) : Slot(k, v) # b
      /\ Views(frame_head) = 1 /\ Slot(frame_head, 1) = NULL
      /\ views[frame_head][1] = views[p][Views(p)] /\ Views(p) \in 1 .. Views(p)
      /\ Slot(p, Views(p)) = Pbag[p]
  BY <1>0, <1>1, PopsFacts
<1>3. /\ preds \in SUBSET (1 .. nstrands)
      /\ \A k \in 0 .. p : joined'[k] \subseteq 1 .. nstrands
  <2>1. \A k \in Depth : past[k] \subseteq 1 .. nstrands /\ joined[k] \subseteq 1 .. nstrands
    BY <1>p DEF NodesInUse
  <2>2. preds \in SUBSET (1 .. nstrands)
    BY <1>0, <1>2, <2>1
  <2>3. \A k \in 0 .. p : joined'[k] \subseteq joined[k] \cup past[frame_head]
    BY <1>0, <1>2 DEF ReturnsSpawn, ReturnsCall, BagTyped
  <2>4. QED
    BY <1>2, <2>1, <2>2, <2>3
<1>4. ContinuesIn(p, preds, a, b)
  <2>1. ASSUME NEW k \in 0 .. p, NEW v \in 1 .. Views(k)'
        PROVE  /\ v < Views(k)' => Slot(k, v)' # NULL
               /\ Slot(k, v)' # NULL =>
                    v \in 1 .. Views(k) /\ Slot(k, v)' = Slot(k, v) /\ Slot(k, v) # b
    <3>1. /\ k \in Depth /\ v \in 1 .. Views(k) /\ Views(k)' = Views(k)
          /\ Slot(k, v)' = Slot(k, v)
      BY <1>2 DEF SlotsSame
    <3>2. v < Views(k) => Slot(k, v) # NULL
      BY <3>1, <1>p DEF StealBagsDistinct
    <3>3. QED
      BY <1>2, <3>1, <3>2
  <2>2. \E v \in 1 .. Views(p) : view_of' = [view_of EXCEPT ![nstrands + 1] = views[p][v]]
    <3>1. LastOf(views[p]) = views[p][Views(p)]
      BY <1>2, <1>p, SlotRanges
    <3>2. view_of' = [view_of EXCEPT ![nstrands + 1] = views[p][Views(p)]]
      BY <1>0, <3>1 DEF PopsFrame
    <3>3. QED
      BY <1>2, <3>2, Zenon
  <2>3. QED
    BY <1>0, <1>1, <1>2, <1>3, <2>1, <2>2 DEF ContinuesIn, LeavesFrame, PopsFrame
<1>5. ASSUME NEW t \in 1 .. nstrands PROVE \E k \in 0 .. p : MovedIn(t, p, preds, k)
  <2>1. rep(t) \in Nodes /\ set_node'[owner[t]] = IF rep(t) = b THEN a ELSE rep(t)
    BY <1>2, <1>p, Ranges DEF NodesInUse, BagTyped, rep, Joins
  <2>2. PICK k \in Depth : InView(t, k)
    BY <1>p DEF StrandsInViews
  <2>3. k \in 0 .. p \/ k = frame_head
    BY <1>2
  <2>4. CASE SerialIn(t, k) /\ k = frame_head
    <3>1. set_node'[owner[t]] = a /\ view_of[t] = views[p][Views(p)]
      <4>1. rep(t) = b /\ \E v \in 1 .. Views(frame_head) : view_of[t] = views[frame_head][v]
        BY <1>0, <2>4 DEF SerialIn, SerialAt
      <4>2. \A v \in 1 .. Views(frame_head) : v = 1
        BY <1>2
      <4>3. QED
        BY <1>2, <2>1, <4>1, <4>2
    <3>2. /\ t \in past[frame_head]
          /\ \A j \in 0 .. p : t \notin past[j] /\ t \notin joined[j]
      BY <1>2, <2>4 DEF SerialIn, SerialAt
    <3>3. CASE ReturnsSpawn /\ a = Pbag[p] /\ preds = past[p]
      <4>0. PICK n \in 1 .. Views(p) : n = Views(p)
        BY <1>2
      <4>1. set_node'[owner[t]] = Slot(p, n)' /\ view_of[t] = views[p][n]
        BY <1>2, <3>1, <3>3, <4>0 DEF SlotsSame
      <4>2. /\ joined'[p] = joined[p] \cup past[frame_head]
            /\ \A k1 \in Levels : k1 # p => joined'[k1] = joined[k1]
        BY <1>0, <1>2, <3>3 DEF ReturnsSpawn, BagTyped
      <4>3. ASSUME NEW j \in 0 .. p
            PROVE  (j # p => t \notin past[j]) /\ (t \in joined'[j] <=> j = p)
        BY <1>2, <3>2, <4>2
      <4>4. t \notin preds
        BY <1>2, <3>2, <3>3
      <4>5. \E v \in 1 .. Views(p) : set_node'[owner[t]] = Slot(p, v)' /\ view_of[t] = views[p][v]
        BY <4>1
      <4>6. MovedIn(t, p, preds, p)
        BY <4>3, <4>4, <4>5 DEF MovedIn
      <4>7. QED
        BY <1>2, <4>6
    <3>4. CASE ReturnsCall /\ a = Sbag[p] /\ preds = past[frame_head]
      <4>1. ASSUME NEW j \in 0 .. p
            PROVE  (j # p => (t \in past[j] <=> p <= j)) /\ (t \in joined'[j] => p <= j)
        BY <1>2, <3>2, <3>4 DEF ReturnsCall
      <4>2. QED
        BY <1>2, <3>1, <3>2, <3>4, <4>1 DEF MovedIn
    <3>5. QED
      BY <1>0, <3>3, <3>4
  <2>5. CASE SerialIn(t, k) /\ k \in 0 .. p
    <3>1. /\ rep(t) = Sbag[k] /\ \E v \in 1 .. Views(k) : view_of[t] = views[k][v]
          /\ \A j \in Depth : (t \in past[j] <=> k <= j) /\ (t \in joined[j] => k <= j)
      BY <2>5 DEF SerialIn, SerialAt
    <3>2. set_node'[owner[t]] = Sbag[k]
      BY <1>2, <2>1, <2>5, <3>1
    <3>3. t \in preds
      BY <1>0, <1>2, <2>5, <3>1
    <3>4. ASSUME NEW j \in 0 .. p
          PROVE  (j # p => (t \in past[j] <=> k <= j)) /\ (t \in joined'[j] => k <= j)
      <4>1. joined'[j] = joined[j] \/ (j = p /\ k <= j)
        BY <1>0, <1>2, <2>5 DEF ReturnsSpawn, ReturnsCall, BagTyped
      <4>2. QED
        BY <1>2, <3>1, <4>1
    <3>5. QED
      BY <2>5, <3>1, <3>2, <3>3, <3>4 DEF MovedIn
  <2>6. ASSUME NEW v \in 1 .. Views(k), ParallelIn(t, k, v), k \in 0 .. p
        PROVE  MovedIn(t, p, preds, k)
    <3>1. /\ rep(t) = Slot(k, v) /\ view_of[t] = views[k][v]
          /\ \A j \in Depth : t \notin past[j] /\ (t \in joined[j] <=> j = k)
      BY <2>6 DEF ParallelIn
    <3>2. set_node'[owner[t]] = Slot(k, v)'
      BY <1>2, <2>1, <2>2, <2>6, <3>1 DEF SlotsSame
    <3>3. t \notin preds
      BY <1>0, <1>2, <3>1
    <3>4. ASSUME NEW j \in 0 .. p
          PROVE  (j # p => t \notin past[j]) /\ (t \in joined'[j] <=> j = k)
      <4>1. joined'[j] = joined[j] \/ (j = p /\ joined'[j] = joined[j] \cup past[frame_head])
        BY <1>0, <1>2 DEF ReturnsSpawn, ReturnsCall, BagTyped
      <4>2. QED
        BY <1>2, <3>1, <4>1
    <3>5. QED
      BY <3>1, <3>2, <3>3, <3>4 DEF MovedIn
  <2>7. ASSUME NEW v \in 1 .. Views(k), ParallelIn(t, k, v), k = frame_head PROVE FALSE
    <3>1. v = 1 /\ rep(t) = Slot(k, v)
      BY <1>2, <2>7 DEF ParallelIn
    <3>2. QED
      BY <1>2, <2>1, <2>7, <3>1, Ranges
  <2>8. QED
    BY <2>2, <2>3, <2>4, <2>5, <2>6, <2>7 DEF InView
<1>6. StealBagsDistinct' /\ NodesInUse' /\ StrandsInViews'
  BY <1>2, <1>3, <1>4, <1>5, <1>p, ContinuesInInv
<1>7. StacksShaped'
  <2>1. \A k \in 0 .. p : /\ below'[k] = below[k] /\ Pbag'[k] = Pbag[k]
                          /\ current_sync_block_size'[k] = current_sync_block_size[k]
    BY <1>1 DEF LeavesFrame, PopsFrame
  <2>2. ASSUME NEW k \in 0 .. p
        PROVE  /\ Views(k)' > 0 /\ Skipped(k)' \in {0, 1}
               /\ Skipped(k)' = 1 => below'[k][1] = NULL
               /\ current_sync_block_size'[k] = 0 => below'[k] = <<>> /\ Pbag'[k] = NULL
    BY <1>2, <1>p, <2>1 DEF StacksShaped, SlotsSame
  <2>3. QED
    BY <1>2, <2>2 DEF StacksShaped
<1>8. ViewsDistinct'
  <2>1. nstrands' = nstrands + 1 /\ frame_head' \in Depth /\ views' = views
    BY <1>0, <1>1, <1>2 DEF LeavesFrame, NextStrandAt, PopsFrame
  <2>2. QED
    BY <1>p, <2>1, ViewsKept
<1>9. QED
  BY <1>2, <1>6, <1>7, <1>8 DEF Placed

-----------------------------------------------------------------------------
(***************************************************************************)
(* A call and a spawn.                                                     *)
(***************************************************************************)
\* A frame is entered in its caller's last view.  The caller's stack of
\* P-bags may be started, in a block that had none.
EntersView(sbag, pbag) ==
  LET h == frame_head
      c == frame_head + 1
  IN  /\ EntersFrame(sbag, pbag)
      /\ \A k \in Levels : k # h => below'[k] = below[k]
      /\ below[c] = <<>>
      /\ \/ below'[h] = below[h]
         \/ Views(h) = 1 /\ below'[h] \in {<<>>, <<NULL>>}
      /\ views' = [views EXCEPT ![c] = <<LastOf(views[h])>>]
      /\ view_of' = [view_of EXCEPT ![nstrands + 1] = LastOf(views[h])]
      /\ \A k \in Levels : k # h /\ k # c =>
           current_sync_block_size'[k] = current_sync_block_size[k]
      /\ \/ current_sync_block_size'[h] # 0
         \/ /\ current_sync_block_size'[h] = current_sync_block_size[h]
            /\ pbag = Pbag[h] /\ below'[h] = below[h]

\* The slots of the caller at level h, but for the top one, and those of the
\* child at level c.
EnteredSlots(h, c, pbag) ==
  /\ \A k \in Depth : k # h => SlotsSame(k)
  /\ Views(h)' = Views(h) /\ views'[h] = views[h]
  /\ \A v \in 1 .. Views(h) : Slot(h, v)' = IF v = Views(h) THEN pbag ELSE Slot(h, v)
  /\ Views(c)' = 1 /\ views'[c][1] = LastOf(views[h]) /\ Slot(c, 1)' = NULL

\* That is what the slots are after the frame is entered.
LEMMA EntersSlots ==
  ASSUME BagTyped, ViewsTyped, StacksShaped, StealBagsDistinct,
         NEW sbag, NEW pbag, EntersView(sbag, pbag),
         NEW h, NEW c, h = frame_head /\ c = frame_head + 1
  PROVE  EnteredSlots(h, c, pbag) /\ StacksShaped'
<1>0. h = frame_head /\ c = frame_head + 1
  OBVIOUS
<1>1. /\ h \in Levels /\ c \in Levels /\ h \in Depth /\ c \notin Depth /\ h # c
      /\ Depth \subseteq Levels /\ Depth' = Depth \cup {c}
  BY <1>0, Ranges DEF EntersView, EntersFrame, Depth, Levels
<1>2. /\ Pbag'[h] = pbag /\ \A k \in Levels : k # h => Pbag'[k] = Pbag[k]
  BY <1>0, <1>1 DEF EntersView, EntersFrame, BagTyped
<1>3. /\ \A k \in Levels : k # c => views'[k] = views[k]
      /\ views'[c] = <<LastOf(views[h])>>
  BY <1>0, <1>1 DEF EntersView, ViewsTyped
<1>4. /\ \A k \in Levels : k # h => below'[k] = below[k]
      /\ below[c] = <<>>
      /\ below'[h] = below[h] \/ (Views(h) = 1 /\ below'[h] \in {<<>>, <<NULL>>})
  BY <1>0 DEF EntersView
<1>5. \A k \in Depth : k # h => SlotsSame(k) /\ Skipped(k)' = Skipped(k)
  BY <1>1, <1>2, <1>3, <1>4, SlotsKept
<1>6. Views(h)' = Views(h) /\ views'[h] = views[h]
  BY <1>1, <1>3 DEF Views
<1>7. ASSUME NEW v \in 1 .. Views(h)
      PROVE  Slot(h, v)' = IF v = Views(h) THEN pbag ELSE Slot(h, v)
  <2>1. CASE v = Views(h)
    BY <1>2, <1>6, <2>1 DEF Slot
  <2>2. CASE v # Views(h)
    <3>1. Views(h) # 1
      BY <2>2
    <3>2. below'[h] = below[h]
      BY <1>4, <3>1
    <3>3. Skipped(h)' = Skipped(h)
      BY <1>6, <3>2 DEF Skipped
    <3>4. QED
      BY <1>6, <2>2, <3>2, <3>3 DEF Slot
  <2>3. QED
    BY <2>1, <2>2
<1>8. /\ Views(c)' = 1 /\ views'[c][1] = LastOf(views[h]) /\ Slot(c, 1)' = NULL
      /\ Skipped(c)' = 0
  <2>1. Views(c)' = 1 /\ views'[c][1] = LastOf(views[h])
    BY <1>3 DEF Views
  <2>2. Pbag'[c] = NULL
    BY <1>1, <1>2 DEF StealBagsDistinct
  <2>3. Slot(c, 1)' = Pbag'[c]
    BY <2>1 DEF Slot
  <2>4. below'[c] = <<>> /\ Len(below'[c]) = 0
    BY <1>1, <1>4
  <2>5. Skipped(c)' = 0
    BY <2>1, <2>4 DEF Skipped
  <2>6. QED
    BY <2>1, <2>2, <2>3, <2>5
<1>9. ASSUME NEW k \in Depth'
      PROVE  /\ Views(k)' > 0 /\ Skipped(k)' \in {0, 1}
             /\ Skipped(k)' = 1 => below'[k][1] = NULL
             /\ current_sync_block_size'[k] = 0 => below'[k] = <<>> /\ Pbag'[k] = NULL
  <2>1. CASE k \in Depth /\ k # h
    <3>1. /\ below'[k] = below[k] /\ Pbag'[k] = Pbag[k] /\ Views(k)' = Views(k)
          /\ Skipped(k)' = Skipped(k)
          /\ current_sync_block_size'[k] = current_sync_block_size[k]
      BY <1>0, <1>1, <1>2, <1>4, <1>5, <2>1 DEF SlotsSame, EntersView
    <3>2. QED
      BY <2>1, <3>1 DEF StacksShaped
  <2>2. CASE k = c
    <3>1. below'[c] = <<>> /\ Pbag'[c] = NULL
      BY <1>1, <1>2, <1>4 DEF StealBagsDistinct
    <3>2. QED
      BY <1>8, <2>2, <3>1
  <2>3. CASE k = h
    <3>1. Views(h) > 0
      BY <1>1 DEF StacksShaped
    <3>2. \/ current_sync_block_size'[h] # 0
          \/ below'[h] = <<>> /\ Pbag'[h] = NULL
          \/ current_sync_block_size[h] # 0 /\ current_sync_block_size'[h] = current_sync_block_size[h]
      BY <1>0, <1>1, <1>2 DEF EntersView, StacksShaped
    <3>3. current_sync_block_size'[h] = 0 => below'[h] = <<>> /\ Pbag'[h] = NULL
      BY <3>2
    <3>4. CASE below'[h] = below[h]
      <4>1. Skipped(h)' = Skipped(h)
        BY <1>6, <3>4 DEF Skipped
      <4>2. QED
        BY <1>1, <1>6, <2>3, <3>1, <3>3, <3>4, <4>1 DEF StacksShaped
    <3>5. CASE Views(h) = 1 /\ below'[h] = <<>>
      <4>1. Skipped(h)' = 0
        BY <1>6, <3>5 DEF Skipped
      <4>2. QED
        BY <1>6, <2>3, <3>1, <3>3, <4>1
    <3>6. CASE Views(h) = 1 /\ below'[h] = <<NULL>>
      <4>1. Skipped(h)' = 1 /\ below'[h][1] = NULL
        BY <1>6, <3>6 DEF Skipped
      <4>2. QED
        BY <1>6, <2>3, <3>1, <3>3, <4>1
    <3>7. QED
      BY <1>4, <3>4, <3>5, <3>6
  <2>4. QED
    BY <1>1, <2>1, <2>2, <2>3
<1>10. StacksShaped'
  BY <1>9 DEF StacksShaped
<1>11. EnteredSlots(h, c, pbag)
  BY <1>5, <1>6, <1>7, <1>8 DEF EnteredSlots
<1>12. QED
  BY <1>10, <1>11

\* The frame's new bags and its first strand, which is in its caller's last
\* view.
LEMMA EntersPlaced ==
  ASSUME BagTyped, ViewsTyped, Placed, NEW sbag, NEW pbag, EntersView(sbag, pbag),
         ~HelperLeaving'
  PROVE  Placed'
<1>0. PICK h, c, s : h = frame_head /\ c = frame_head + 1 /\ s = nstrands + 1
  OBVIOUS
<1>p. StacksShaped /\ StealBagsDistinct /\ NodesInUse /\ StrandsInViews /\ ViewsDistinct
  BY DEF Placed
<1>e. EntersFrame(sbag, pbag)
  BY DEF EntersView
<1>1. /\ h \in Levels /\ c \in Levels /\ h \in Depth /\ c \notin Depth /\ h # c
      /\ Depth \subseteq Levels /\ Depth' = Depth \cup {c}
      /\ \A k \in Depth : k <= c /\ ~(c <= k) /\ ~(c < k) /\ k <= h /\ k \in Int
  BY <1>0, <1>e, Ranges DEF EntersFrame, Depth, Levels
<1>2. /\ s \in Strands /\ nstrands' = s /\ s \notin 1 .. nstrands
      /\ 1 .. nstrands \subseteq Strands /\ (1 .. nstrands)' = (1 .. nstrands) \cup {s}
  BY <1>0, <1>e, Ranges DEF EntersFrame, FirstStrandOfChild, Strands
<1>3. /\ sbag \in Nodes /\ sbag \notin 1 .. dset_size
      /\ 1 .. dset_size \subseteq Nodes /\ dset_size' = sbag /\ sbag \in 1 .. dset_size'
      /\ 1 .. dset_size \subseteq 1 .. dset_size'
      /\ sbag # NULL
  BY <1>e, Ranges DEF EntersFrame, Nodes
<1>4. /\ Sbag'[c] = sbag /\ \A k \in Depth : Sbag'[k] = Sbag[k]
      /\ Pbag'[h] = pbag /\ \A k \in Levels : k # h => Pbag'[k] = Pbag[k]
      /\ set_node' = set_node
  BY <1>0, <1>1, <1>e DEF EntersFrame, BagTyped
<1>5. /\ past'[c] = past[h] \cup {s} /\ \A k \in Depth : past'[k] = past[k]
      /\ joined'[c] = {} /\ \A k \in Depth : joined'[k] = joined[k]
      /\ owner'[s] = sbag /\ \A t \in 1 .. nstrands : owner'[t] = owner[t]
  BY <1>0, <1>1, <1>2, <1>e DEF EntersFrame, FirstStrandOfChild, BagTyped
<1>6. set_node[sbag] = sbag
  BY <1>3, <1>p, Ranges DEF NodesInUse, Nodes
<1>7. \/ pbag = Pbag[h]
      \/ /\ Pbag[h] = NULL /\ pbag \in Nodes /\ pbag \notin 1 .. dset_size
         /\ pbag \in 1 .. dset_size' /\ pbag # sbag /\ set_node[pbag] = pbag
  BY <1>0, <1>e, <1>p, Ranges DEF EntersFrame, NodesInUse, Nodes
<1>8. PICK n : /\ n = Views(h) /\ n \in 1 .. Views(h) /\ Slot(h, n) = Pbag[h]
               /\ LastOf(views[h]) = views[h][n]
  BY <1>1, <1>p, SlotRanges
<1>9. /\ \A k \in Depth : k # h => SlotsSame(k)
      /\ \A k \in Depth : Views(k)' = Views(k) /\ views'[k] = views[k]
      /\ \A v \in 1 .. Views(h) : Slot(h, v)' = IF v = n THEN pbag ELSE Slot(h, v)
      /\ Views(c)' = 1 /\ views'[c][1] = views[h][n] /\ Slot(c, 1)' = NULL
      /\ StacksShaped'
  <2>1. EnteredSlots(h, c, pbag) /\ StacksShaped'
    BY <1>0, <1>p, EntersSlots
  <2>2. QED
    BY <1>8, <2>1 DEF EnteredSlots, SlotsSame
\* A slot after the step is one from before, or the P-bag just created.
<1>10. ASSUME NEW k \in Depth, NEW v \in 1 .. Views(k)
       PROVE  \/ Slot(k, v)' = Slot(k, v)
              \/ /\ k = h /\ v = n /\ Slot(k, v) = NULL /\ Slot(k, v)' = pbag
                 /\ pbag \in Nodes /\ pbag \notin 1 .. dset_size
                 /\ pbag \in 1 .. dset_size' /\ pbag # sbag /\ set_node[pbag] = pbag
  <2>1. CASE k # h
    BY <1>9, <2>1 DEF SlotsSame
  <2>2. CASE k = h /\ v # n
    BY <1>9, <2>2
  <2>3. CASE k = h /\ v = n
    BY <1>7, <1>8, <1>9, <2>3
  <2>4. QED
    BY <2>1, <2>2, <2>3
<1>11. ASSUME NEW k \in Depth', NEW v \in 1 .. Views(k)', k = c
       PROVE  v = 1 /\ Slot(k, v)' = NULL
  <2>1. Views(k)' = 1 /\ Views(k)' = Views(c)'
    BY <1>9, <1>11
  <2>2. v = 1 /\ Slot(k, v)' = Pbag'[k]
    BY <2>1 DEF Slot
  <2>3. Pbag'[k] = NULL
    BY <1>1, <1>4, <1>11, <1>p DEF StealBagsDistinct
  <2>4. QED
    BY <2>2, <2>3
<1>12. \A k \in Depth : \A v \in 1 .. Views(k) :
         Slot(k, v) # NULL => /\ Slot(k, v) \in 1 .. dset_size
                              /\ set_node[Slot(k, v)] = Slot(k, v) /\ kind[Slot(k, v)] = "P"
  BY <1>p DEF StealBagsDistinct
<1>13. ASSUME NEW k \in Depth, NEW v \in 1 .. Views(k), Slot(k, v) # NULL, Slot(k, v) = pbag
       PROVE  pbag = Pbag[h]
  BY <1>7, <1>12, <1>13
<1>14. StealBagsDistinct'
  <2>1. ASSUME NEW k \in Depth'
        PROVE  /\ Sbag'[k] \in 1 .. dset_size'
               /\ set_node'[Sbag'[k]] = Sbag'[k] /\ kind'[Sbag'[k]] = "S"
    <3>1. CASE k = c
      BY <1>3, <1>4, <1>6, <1>e, <3>1 DEF EntersFrame
    <3>2. CASE k \in Depth
      <4>1. /\ Sbag[k] \in 1 .. dset_size /\ set_node[Sbag[k]] = Sbag[k] /\ kind[Sbag[k]] = "S"
        BY <1>p, <3>2 DEF StealBagsDistinct
      <4>2. Sbag[k] # pbag
        BY <1>1, <1>7, <1>8, <1>12, <4>1, Ranges
      <4>3. QED
        BY <1>3, <1>4, <1>e, <3>2, <4>1, <4>2 DEF EntersFrame
    <3>3. QED
      BY <1>1, <3>1, <3>2
  <2>2. ASSUME NEW k \in Levels, Pbag'[k] # NULL PROVE k \in Depth'
    <3>1. CASE k = h
      BY <1>1, <3>1
    <3>2. CASE k # h
      BY <1>1, <1>4, <1>p, <2>2, <3>2 DEF StealBagsDistinct
    <3>3. QED
      BY <3>1, <3>2
  <2>3. ASSUME NEW k \in Depth', NEW v \in 1 .. Views(k)'
        PROVE  /\ v < Views(k)' => Slot(k, v)' # NULL
               /\ Slot(k, v)' # NULL => /\ Slot(k, v)' \in 1 .. dset_size'
                                        /\ set_node'[Slot(k, v)'] = Slot(k, v)'
                                        /\ kind'[Slot(k, v)'] = "P"
    <3>1. CASE k = c
      <4>1. v = 1 /\ Slot(k, v)' = NULL /\ Views(k)' = 1
        BY <1>9, <1>11, <3>1
      <4>2. QED
        BY <4>1
    <3>2. CASE k \in Depth
      <4>1. Views(k)' = Views(k) /\ v \in 1 .. Views(k)
        BY <1>9, <3>2
      <4>2. v < Views(k) => Slot(k, v) # NULL
        BY <1>p, <3>2, <4>1 DEF StealBagsDistinct
      <4>3. CASE Slot(k, v)' = Slot(k, v)
        <5>1. Slot(k, v) # NULL =>
                (Slot(k, v) \in 1 .. dset_size /\ kind'[Slot(k, v)] = "P")
          BY <1>12, <1>e, <3>2, <4>1 DEF EntersFrame
        <5>2. QED
          BY <1>3, <1>4, <1>12, <3>2, <4>1, <4>2, <4>3, <5>1
      <4>4. CASE Slot(k, v)' # Slot(k, v)
        <5>1. /\ k = h /\ v = n /\ Slot(k, v)' = pbag /\ pbag \in 1 .. dset_size'
              /\ pbag \in Nodes /\ set_node[pbag] = pbag
          BY <1>10, <3>2, <4>1, <4>4
        <5>2. ~(v < Views(k)') /\ pbag # NULL
          BY <1>8, <4>1, <5>1, Ranges
        <5>3. QED
          BY <1>4, <1>e, <5>1, <5>2 DEF EntersFrame
      <4>5. QED
        BY <4>3, <4>4
    <3>3. QED
      BY <1>1, <3>1, <3>2
  <2>4. ASSUME NEW j \in Depth', NEW k \in Depth', j # k PROVE Sbag'[j] # Sbag'[k]
    BY <1>1, <1>3, <1>4, <1>p, <2>4 DEF StealBagsDistinct
  <2>5. ASSUME NEW j \in Depth', NEW k \in Depth', NEW u \in 1 .. Views(j)',
               NEW v \in 1 .. Views(k)', Slot(j, u)' # NULL, Slot(j, u)' = Slot(k, v)'
        PROVE  j = k /\ u = v
    <3>1. j \in Depth /\ k \in Depth
      BY <1>1, <1>11, <2>5
    <3>2. u \in 1 .. Views(j) /\ v \in 1 .. Views(k)
      BY <1>9, <3>1
    <3>3. CASE Slot(j, u)' = Slot(j, u) /\ Slot(k, v)' = Slot(k, v)
      <4>1. Slot(j, u) # NULL /\ Slot(j, u) = Slot(k, v)
        BY <2>5, <3>3
      <4>2. QED
        BY <1>p, <3>1, <3>2, <4>1 DEF StealBagsDistinct
    <3>4. CASE Slot(j, u)' # Slot(j, u) /\ Slot(k, v)' # Slot(k, v)
      BY <1>10, <3>1, <3>2, <3>4
    <3>5. CASE Slot(j, u)' # Slot(j, u) /\ Slot(k, v)' = Slot(k, v)
      BY <1>10, <1>12, <2>5, <3>1, <3>2, <3>5
    <3>6. CASE Slot(j, u)' = Slot(j, u) /\ Slot(k, v)' # Slot(k, v)
      <4>1. Slot(k, v)' = pbag /\ pbag \notin 1 .. dset_size
        BY <1>10, <3>1, <3>2, <3>6
      <4>2. Slot(j, u) # NULL /\ Slot(j, u) = pbag
        BY <2>5, <3>6, <4>1
      <4>3. QED
        BY <1>12, <3>1, <3>2, <4>1, <4>2
    <3>7. QED
      BY <3>3, <3>4, <3>5, <3>6
  <2>6. QED
    BY <2>1, <2>2, <2>3, <2>4, <2>5 DEF StealBagsDistinct
<1>15. NodesInUse'
  <2>1. ASSUME NEW m \in Nodes
        PROVE  IF m <= dset_size' THEN set_node'[m] \in 1 .. dset_size' ELSE set_node'[m] = m
    <3>1. CASE m <= dset_size
      BY <1>3, <1>4, <1>p, <3>1, Ranges DEF NodesInUse, Nodes
    <3>2. CASE dset_size < m
      BY <1>3, <1>4, <1>p, <3>2, Ranges DEF NodesInUse, Nodes
    <3>3. QED
      BY <3>1, <3>2, Ranges DEF Nodes
  <2>2. ASSUME NEW t \in (1 .. nstrands)' PROVE owner'[t] \in 1 .. dset_size'
    BY <1>2, <1>3, <1>5, <1>p DEF NodesInUse
  <2>3. ASSUME NEW k \in Depth'
        PROVE  past'[k] \subseteq (1 .. nstrands)' /\ joined'[k] \subseteq (1 .. nstrands)'
    BY <1>1, <1>2, <1>5, <1>p DEF NodesInUse
  <2>4. QED
    BY <2>1, <2>2, <2>3 DEF NodesInUse
<1>16. /\ \A t \in 1 .. nstrands : view_of'[t] = view_of[t]
       /\ view_of'[s] = views[h][n]
  BY <1>0, <1>2, <1>8 DEF EntersView, ViewsTyped
<1>17. StrandsInViews'
  <2>1. ASSUME NEW t \in 1 .. nstrands PROVE \E k \in Depth' : InView(t, k)'
    <3>0. t # s /\ owner[t] \in 1 .. dset_size /\ rep(t)' = rep(t) /\ rep(t) \in 1 .. dset_size
      BY <1>2, <1>3, <1>4, <1>5, <1>p, Ranges DEF NodesInUse, rep, Nodes
    <3>1. PICK k \in Depth : InView(t, k)
      BY <1>p DEF StrandsInViews
    <3>2. k \in Depth' /\ k <= h /\ k <= c /\ Views(k)' = Views(k) /\ views'[k] = views[k]
      BY <1>1, <1>9, <3>1
    <3>3. CASE SerialIn(t, k)
      <4>1. rep(t)' = Sbag'[k]
        BY <1>4, <3>0, <3>1, <3>3 DEF SerialIn, SerialAt
      <4>2. ASSUME NEW j \in Depth'
            PROVE  (t \in past'[j] <=> k <= j) /\ (t \in joined'[j] => k <= j)
        BY <1>1, <1>5, <3>0, <3>2, <3>3 DEF SerialIn, SerialAt
      <4>3. SerialAt(t, k)'
        BY <4>1, <4>2 DEF SerialAt
      <4>4. \E v \in 1 .. Views(k)' : view_of'[t] = views'[k][v]
        BY <1>16, <3>2, <3>3 DEF SerialIn
      <4>5. QED
        BY <3>2, <4>3, <4>4 DEF InView, SerialIn
    <3>4. ASSUME NEW v \in 1 .. Views(k), ParallelIn(t, k, v) PROVE ParallelIn(t, k, v)'
      <4>1. Slot(k, v) # NULL /\ Slot(k, v)' = Slot(k, v)
        BY <1>10, <3>0, <3>4, Ranges DEF ParallelIn
      <4>2. rep(t)' = Slot(k, v)' /\ view_of'[t] = views'[k][v]
        BY <1>16, <3>0, <3>2, <3>4, <4>1 DEF ParallelIn
      <4>3. ASSUME NEW j \in Depth'
            PROVE  t \notin past'[j] /\ (t \in joined'[j] <=> j = k)
        BY <1>1, <1>5, <3>0, <3>1, <3>4 DEF ParallelIn
      <4>4. QED
        BY <4>2, <4>3 DEF ParallelIn
    <3>5. QED
      BY <3>1, <3>2, <3>3, <3>4 DEF InView
  <2>2. InView(s, c)'
    <3>1. rep(s)' = Sbag'[c]
      BY <1>4, <1>5, <1>6 DEF rep
    <3>2. \A j \in Depth : s \notin past[j] /\ s \notin joined[j]
      BY <1>2, <1>p DEF NodesInUse
    <3>3. ASSUME NEW j \in Depth'
          PROVE  (s \in past'[j] <=> c <= j) /\ (s \in joined'[j] => c <= j)
      <4>1. CASE j \in Depth
        BY <1>1, <1>5, <3>2, <4>1
      <4>2. CASE j = c
        <5>1. c <= c /\ s \in past'[c] /\ s \notin joined'[c]
          BY <1>0, <1>5, Ranges
        <5>2. QED
          BY <4>2, <5>1
      <4>3. QED
        BY <1>1, <4>1, <4>2
    <3>4. 1 \in 1 .. Views(c)' /\ view_of'[s] = views'[c][1]
      BY <1>9, <1>16
    <3>5. QED
      BY <3>1, <3>3, <3>4 DEF InView, SerialIn, SerialAt
  <2>3. QED
    BY <1>1, <1>2, <2>1, <2>2 DEF StrandsInViews
<1>18. ViewsDistinct'
  <2>1. ASSUME NEW k \in Depth', k < frame_head' PROVE views'[k + 1][1] = LastOf(views'[k])
    <3>1. frame_head' = c
      BY <1>0, <1>e DEF EntersFrame
    <3>2. CASE k = h
      BY <1>0, <1>1, <1>8, <1>9, <3>2
    <3>3. CASE k # h
      <4>1. k \in Depth /\ k + 1 \in Depth /\ k < frame_head
        BY <1>0, <1>1, <2>1, <3>1, <3>3, Ranges DEF Depth
      <4>2. QED
        BY <1>9, <1>p, <4>1 DEF ViewsDistinct
    <3>4. QED
      BY <3>2, <3>3
  <2>2. ASSUME NEW j \in Depth', NEW k \in Depth', NEW u \in 1 .. Views(j)',
               NEW v \in 1 .. Views(k)', (j < k /\ 1 < v) \/ (j = k /\ u < v)
        PROVE  views'[j][u] # views'[k][v]
    <3>1. v # 1
      BY <2>2
    <3>2. k # c
      BY <1>11, <3>1
    <3>3. k \in Depth /\ j \in Depth
      BY <1>1, <2>2, <3>2
    <3>4. QED
      BY <1>9, <1>p, <2>2, <3>3 DEF ViewsDistinct
  <2>3. ASSUME NEW k \in Depth', NEW v \in 1 .. Views(k)'
        PROVE  views'[k][v] \in (1 .. nstrands)' /\ (HelperLeaving' => views'[k][v] # nstrands')
    <3>1. CASE k = c
      BY <1>1, <1>2, <1>8, <1>9, <1>11, <1>p, <3>1 DEF ViewsDistinct
    <3>2. CASE k \in Depth
      BY <1>2, <1>9, <1>p, <3>2 DEF ViewsDistinct
    <3>3. QED
      BY <1>1, <3>1, <3>2
  <2>4. QED
    BY <2>1, <2>2, <2>3 DEF ViewsDistinct
<1>19. QED
  BY <1>9, <1>14, <1>15, <1>17, <1>18 DEF Placed

-----------------------------------------------------------------------------
(***************************************************************************)
(* Steps that leave the bags alone.                                        *)
(***************************************************************************)
\* Every strand is where it was, if the bags, the slots and the views are.
LEMMA PlacesSame ==
  ASSUME BagTyped, ViewsTyped, Placed, StacksShaped', HelperLeaving' => HelperLeaving,
         UNCHANGED <<frame_head, Sbag, Pbag, dset_size, kind, set_node, nstrands, owner, past,
                     joined, views, view_of>>,
         \A k \in Depth : SlotsSame(k)
  PROVE  Placed' /\ Depth' = Depth
<1>p. StacksShaped /\ StealBagsDistinct /\ NodesInUse /\ StrandsInViews /\ ViewsDistinct
  BY DEF Placed
<1>1. Depth' = Depth /\ Depth \subseteq Levels /\ frame_head' \in Depth
  BY Ranges DEF Depth
<1>2. /\ \A k \in Depth : Views(k)' = Views(k) /\ views'[k] = views[k]
      /\ \A k \in Depth : \A v \in 1 .. Views(k) : Slot(k, v)' = Slot(k, v)
  BY DEF SlotsSame
<1>3. StealBagsDistinct'
  BY <1>1, <1>2, <1>p DEF StealBagsDistinct
<1>4. NodesInUse'
  BY <1>1, <1>p DEF NodesInUse
<1>5. StrandsInViews'
  <2>1. ASSUME NEW t \in 1 .. nstrands, NEW k \in Depth, InView(t, k) PROVE InView(t, k)'
    <3>1. rep(t)' = rep(t) /\ Sbag' = Sbag /\ view_of' = view_of /\ past' = past /\ joined' = joined
      BY DEF rep
    <3>2. CASE SerialIn(t, k)
      BY <1>1, <1>2, <3>1, <3>2 DEF InView, SerialIn, SerialAt
    <3>3. ASSUME NEW v \in 1 .. Views(k), ParallelIn(t, k, v)
          PROVE  ParallelIn(t, k, v)' /\ v \in 1 .. Views(k)'
      BY <1>1, <1>2, <3>1, <3>3 DEF ParallelIn
    <3>4. QED
      BY <2>1, <3>2, <3>3 DEF InView
  <2>2. QED
    BY <1>1, <1>p, <2>1 DEF StrandsInViews
<1>6. ViewsDistinct'
  BY <1>1, <1>p, ViewsKept
<1>7. QED
  BY <1>1, <1>3, <1>4, <1>5, <1>6 DEF Placed

\* Nothing of the frames, the bags and the views changes.
QuietStep ==
  /\ UNCHANGED <<bagVars, below, viewVars, views, view_of>>
  /\ HelperLeaving' => HelperLeaving

\* A quiet step keeps them all in their places.
LEMMA QuietPlaced ==
  ASSUME BagTyped, ViewsTyped, Placed, QuietStep
  PROVE  Placed' /\ Depth' = Depth /\ \A k \in Depth : SlotsSame(k)
<1>1. /\ UNCHANGED <<frame_head, Sbag, Pbag, current_sync_block_size, dset_size, kind, set_node,
                     nstrands, owner, past, joined, below, views, view_of>>
      /\ HelperLeaving' => HelperLeaving
  BY DEF QuietStep, bagVars, frameVars, dsetVars, dagVars
<1>2. Depth' = Depth
  BY <1>1 DEF Depth
<1>3. \A k \in Depth : SlotsSame(k) /\ Skipped(k)' = Skipped(k)
  BY <1>1, SlotsKept
<1>4. StacksShaped'
  <2>1. ASSUME NEW k \in Depth'
        PROVE  /\ Views(k)' > 0 /\ Skipped(k)' \in {0, 1}
               /\ Skipped(k)' = 1 => below'[k][1] = NULL
               /\ current_sync_block_size'[k] = 0 => below'[k] = <<>> /\ Pbag'[k] = NULL
    BY <1>1, <1>2, <1>3 DEF Placed, StacksShaped, SlotsSame
  <2>2. QED
    BY <2>1 DEF StacksShaped
<1>5. QED
  BY <1>1, <1>2, <1>3, <1>4, PlacesSame

-----------------------------------------------------------------------------
(***************************************************************************)
(* A merge.                                                                *)
(***************************************************************************)
\* What __cilksan_invoke_reduce does to the stack of P-bags of the frame on
\* top.
MergesTop ==
  /\ Len(below[frame_head]) > 0
  /\ below' = [below EXCEPT ![frame_head] = Front(@)]
  /\ Pbag' = [Pbag EXCEPT ![frame_head] = IF LastOf(below[frame_head]) # NULL
                                          THEN LastOf(below[frame_head]) ELSE @]
  /\ set_node' = TopMerged(Pbag[frame_head], LastOf(below[frame_head]))
  /\ MergedViews(frame_head)
  /\ UNCHANGED <<frame_head, Sbag, current_sync_block_size, dset_size, kind, dagVars, viewVars>>
  /\ HelperLeaving' => HelperLeaving

\* In a frame that has one view, the slot of the skipped interval is popped.
LEMMA PopsSkipped ==
  ASSUME BagTyped, ViewsTyped, Placed, MergesTop, Views(frame_head) = 1
  PROVE  /\ Placed' /\ Depth' = Depth /\ \A k \in Depth : SlotsSame(k)
         /\ Pbag' = Pbag /\ UNCHANGED <<views, view_of>>
<1>0. PICK h : h = frame_head
  OBVIOUS
<1>p. StacksShaped /\ StealBagsDistinct /\ NodesInUse /\ StrandsInViews /\ ViewsDistinct
  BY DEF Placed
<1>1. h \in Depth /\ h \in Levels /\ Depth' = Depth /\ Depth \subseteq Levels
  BY <1>0, Ranges DEF MergesTop, Depth
<1>2. /\ below[h] \in Seq(Nodes \cup {NULL}) /\ Len(below[h]) \in Nat /\ Skipped(h) \in {0, 1}
      /\ Len(below[h]) = Views(h) - 1 + Skipped(h)
  BY <1>1, <1>p, SlotRanges
<1>3. Len(below[h]) = 1 /\ Skipped(h) = 1 /\ below[h][1] = NULL
  <2>1. Len(below[h]) > 0 /\ Views(h) = 1
    BY <1>0 DEF MergesTop
  <2>2. Len(below[h]) = 1 /\ Skipped(h) = 1
    BY <1>2, <2>1
  <2>3. QED
    BY <1>1, <1>p, <2>2 DEF StacksShaped
<1>4. LastOf(below[h]) = NULL
  BY <1>3 DEF LastOf
<1>5. /\ Len(below'[h]) = 0 /\ \A k \in Levels : k # h => below'[k] = below[k]
  <2>1. below'[h] = Front(below[h])
    BY <1>0, <1>1 DEF MergesTop, ViewsTyped
  <2>2. Len(Front(below[h])) = Len(below[h]) - 1
    BY <1>2, <1>3, FrontFacts
  <2>3. QED
    BY <1>0, <1>1, <1>3, <2>1, <2>2 DEF MergesTop, ViewsTyped
<1>6. Pbag' = Pbag /\ set_node' = set_node /\ UNCHANGED <<views, view_of>>
  <2>1. Pbag' = Pbag /\ set_node' = set_node
    BY <1>0, <1>1, <1>4 DEF MergesTop, TopMerged, BagTyped
  <2>2. Len(views[h]) = 1
    BY <1>0 DEF Views
  <2>3. UNCHANGED <<views, view_of>>
    BY <1>0, <2>2 DEF MergesTop, MergedViews
  <2>4. QED
    BY <2>1, <2>3
<1>7. UNCHANGED <<frame_head, Sbag, current_sync_block_size, dset_size, kind, nstrands, owner,
                  past, joined>>
  BY DEF MergesTop, dagVars
<1>8. \A k \in Depth : k # h => SlotsSame(k) /\ Skipped(k)' = Skipped(k)
  BY <1>1, <1>5, <1>6, SlotsKept
<1>9. /\ Views(h)' = 1 /\ Skipped(h)' = 0
      /\ \A v \in 1 .. Views(h) : Slot(h, v)' = Pbag'[h] /\ Slot(h, v) = Pbag[h]
  <2>1. Views(h) = 1 /\ Views(h)' = 1
    BY <1>0, <1>6 DEF Views
  <2>2. Skipped(h)' = 0
    BY <1>5, <2>1 DEF Skipped
  <2>3. QED
    BY <2>1, <2>2 DEF Slot
<1>10. SlotsSame(h)
  BY <1>0, <1>6, <1>9 DEF SlotsSame
<1>11. /\ \A k \in Depth : SlotsSame(k)
       /\ \A k \in Depth : Views(k)' = Views(k) /\ views'[k] = views[k]
       /\ \A k \in Depth : \A v \in 1 .. Views(k) : Slot(k, v)' = Slot(k, v)
  BY <1>8, <1>10 DEF SlotsSame
<1>12. StacksShaped'
  <2>1. ASSUME NEW k \in Depth', k # h
        PROVE  /\ Views(k)' > 0 /\ Skipped(k)' \in {0, 1}
               /\ Skipped(k)' = 1 => below'[k][1] = NULL
               /\ current_sync_block_size'[k] = 0 => below'[k] = <<>> /\ Pbag'[k] = NULL
    BY <1>1, <1>5, <1>6, <1>7, <1>8, <1>11, <1>p, <2>1 DEF StacksShaped
  <2>2. current_sync_block_size'[h] # 0
    <3>1. below[h] # <<>>
      BY <1>3
    <3>2. QED
      BY <1>1, <1>7, <1>p, <3>1 DEF StacksShaped
  <2>3. QED
    BY <1>9, <2>1, <2>2 DEF StacksShaped
<1>13. Placed'
  BY <1>6, <1>7, <1>11, <1>12, PlacesSame DEF MergesTop
<1>14. QED
  BY <1>1, <1>6, <1>11, <1>13

\* A frame h with n views, after the last two are merged.
MergedSlots(h, n) ==
  /\ h \in Depth /\ h \in Levels /\ \A k \in Depth : k <= h
  /\ n \in Nat /\ n > 1 /\ n = Views(h) /\ n \in 1 .. n /\ n - 1 \in 1 .. (n - 1)
  /\ Views(h)' = n - 1
  /\ \A v \in 1 .. (n - 1) : /\ v \in 1 .. n /\ v # n
                             /\ views'[h][v] = views[h][v] /\ Slot(h, v)' = Slot(h, v)
                             /\ Slot(h, v) # NULL
  /\ Slot(h, n) = Pbag[h] /\ Slot(h, n - 1) = Pbag'[h]
  /\ \A k \in Levels : k # h => Pbag'[k] = Pbag[k]
  /\ LastOf(views[h]) = views[h][n] /\ LastOf(views'[h]) = views[h][n - 1]
  /\ Joins(Slot(h, n - 1), Slot(h, n))
  /\ view_of' = [s \in Strands |-> IF view_of[s] = views[h][n] THEN views[h][n - 1]
                                                              ELSE view_of[s]]
  /\ \A k \in Depth : k # h => SlotsSame(k)
  /\ StacksShaped'

\* The top two P-bags of a frame with several views become one.
LEMMA MergesSlots ==
  ASSUME BagTyped, ViewsTyped, Placed, MergesTop, Views(frame_head) # 1,
         NEW h, NEW n, h = frame_head, n = Views(frame_head)
  PROVE  MergedSlots(h, n)
<1>p. StacksShaped /\ StealBagsDistinct
  BY DEF Placed
<1>1. h \in Depth /\ h \in Levels /\ Depth' = Depth /\ Depth \subseteq Levels
      /\ NULL \notin Nodes /\ \A k \in Depth : k <= h
  BY Ranges DEF MergesTop, Depth
<1>2. /\ n \in Nat /\ n = Views(h) /\ n \in 1 .. n
      /\ below[h] \in Seq(Nodes \cup {NULL}) /\ Len(below[h]) \in Nat /\ Skipped(h) \in {0, 1}
      /\ Len(below[h]) = n - 1 + Skipped(h)
      /\ views[h] \in Seq(Strands)
      /\ Slot(h, n) = Pbag[h] /\ LastOf(views[h]) = views[h][n]
      /\ \A v \in 1 .. n : v # n => Slot(h, v) = below[h][v + Skipped(h)]
  BY <1>1, <1>p, SlotRanges
<1>3. n > 1 /\ Len(views[h]) = n
  <2>1. n # 1 /\ n \in Nat /\ n \in 1 .. n
    BY <1>2
  <2>2. n > 1
    BY <2>1
  <2>3. Len(views[h]) = n
    BY DEF Views
  <2>4. QED
    BY <2>2, <2>3
<1>4. /\ Front(below[h]) \in Seq(Nodes \cup {NULL}) /\ Len(Front(below[h])) = Len(below[h]) - 1
      /\ \A i \in 1 .. (Len(below[h]) - 1) : Front(below[h])[i] = below[h][i]
      /\ LastOf(below[h]) = below[h][Len(below[h])] /\ Len(below[h]) > 0
  <2>1. Len(below[h]) > 0
    BY DEF MergesTop
  <2>2. QED
    BY <1>2, <2>1, FrontFacts
<1>5. /\ Front(views[h]) \in Seq(Strands) /\ Len(Front(views[h])) = n - 1
      /\ \A i \in 1 .. (n - 1) : Front(views[h])[i] = views[h][i]
  BY <1>2, <1>3, FrontFacts
<1>6. /\ below'[h] = Front(below[h]) /\ \A k \in Levels : k # h => below'[k] = below[k]
      /\ views' = [views EXCEPT ![h] = Front(@)]
      /\ view_of' = [s \in Strands |-> IF view_of[s] = views[h][n] THEN views[h][n - 1]
                                                                  ELSE view_of[s]]
  <2>1. MergedViews(h) /\ Len(views[h]) # 1
    BY <1>3 DEF MergesTop
  <2>2. QED
    BY <1>1, <1>2, <1>3, <2>1 DEF MergesTop, MergedViews, ViewsTyped
<1>7. views'[h] = Front(views[h]) /\ \A k \in Levels : k # h => views'[k] = views[k]
  BY <1>1, <1>6 DEF ViewsTyped
<1>8. Views(h)' = n - 1 /\ Skipped(h)' = Skipped(h)
  <2>1. Views(h)' = n - 1
    BY <1>5, <1>7 DEF Views
  <2>2. Skipped(h)' = Len(Front(below[h])) + 1 - (n - 1)
    BY <1>6, <2>1 DEF Skipped
  <2>3. PICK l, sk \in Nat : l = Len(below[h]) /\ sk = Skipped(h) /\ l \in Nat
    BY <1>2
  <2>4. Len(Front(below[h])) = l - 1 /\ l = n - 1 + sk
    BY <1>2, <1>4, <2>3
  <2>5. (l - 1) + 1 - (n - 1) = sk
    BY <1>2, <2>3, <2>4
  <2>6. QED
    BY <2>1, <2>2, <2>3, <2>4, <2>5
<1>9. n - 1 \in 1 .. n /\ n - 1 # n /\ n - 1 < n
  BY <1>2, <1>3
<1>10. Slot(h, n - 1) = LastOf(below[h]) /\ Slot(h, n - 1) # NULL
  <2>1. Slot(h, n - 1) = below[h][n - 1 + Skipped(h)]
    BY <1>2, <1>9
  <2>2. Slot(h, n - 1) # NULL
    BY <1>1, <1>2, <1>9, <1>p DEF StealBagsDistinct
  <2>3. QED
    BY <1>2, <1>4, <2>1, <2>2
<1>11. Pbag'[h] = Slot(h, n - 1) /\ \A k \in Levels : k # h => Pbag'[k] = Pbag[k]
  BY <1>1, <1>10 DEF MergesTop, BagTyped
<1>12. ASSUME NEW v \in 1 .. (n - 1)
       PROVE  /\ v \in 1 .. n /\ v # n
              /\ views'[h][v] = views[h][v] /\ Slot(h, v)' = Slot(h, v)
              /\ Slot(h, v) # NULL
  <2>1. v \in 1 .. n /\ v # n /\ v < n
    BY <1>2
  <2>2. views'[h][v] = views[h][v]
    BY <1>5, <1>7
  <2>3. Slot(h, v) # NULL
    BY <1>1, <1>2, <1>p, <2>1 DEF StealBagsDistinct
  <2>4. CASE v = n - 1
    <3>1. Slot(h, v)' = Pbag'[h]
      BY <1>8, <2>4 DEF Slot
    <3>2. QED
      BY <1>11, <2>1, <2>2, <2>3, <2>4, <3>1
  <2>5. CASE v # n - 1
    <3>1. Slot(h, v)' = Front(below[h])[v + Skipped(h)]
      BY <1>6, <1>8, <2>5 DEF Slot
    <3>2. v + Skipped(h) \in 1 .. (Len(below[h]) - 1)
      BY <1>2, <2>5
    <3>3. QED
      BY <1>2, <1>4, <2>1, <2>2, <2>3, <3>1, <3>2
  <2>6. QED
    BY <2>1, <2>2, <2>3, <2>4, <2>5
<1>13. LastOf(views'[h]) = views[h][n - 1]
  <2>1. Len(views'[h]) = n - 1 /\ n - 1 \in 1 .. (n - 1)
    BY <1>3, <1>5, <1>7
  <2>2. QED
    BY <1>5, <1>7, <2>1 DEF LastOf
<1>14. Joins(Slot(h, n - 1), Slot(h, n))
  <2>1. set_node' = TopMerged(Slot(h, n), Slot(h, n - 1))
    BY <1>2, <1>10 DEF MergesTop
  <2>2. Slot(h, n - 1) \in Nodes /\ set_node[Slot(h, n - 1)] = Slot(h, n - 1)
    BY <1>1, <1>2, <1>9, <1>10, <1>p, Ranges, SMTT(40) DEF StealBagsDistinct
  <2>3. CASE Slot(h, n) = NULL
    BY <1>1, <2>1, <2>3 DEF TopMerged, Joins, BagTyped
  <2>4. CASE Slot(h, n) # NULL
    <3>1. Slot(h, n) \in Nodes /\ set_node[Slot(h, n)] = Slot(h, n)
      BY <1>1, <1>2, <1>p, <2>4, Ranges DEF StealBagsDistinct
    <3>2. set_node' = Combined(Slot(h, n - 1), Slot(h, n))
      BY <1>10, <2>1, <2>4 DEF TopMerged
    <3>3. QED
      BY <2>2, <3>1, <3>2 DEF Combined, Joins
  <2>5. QED
    BY <2>3, <2>4
<1>15. \A k \in Depth : k # h => SlotsSame(k) /\ Skipped(k)' = Skipped(k)
  BY <1>1, <1>6, <1>7, <1>11, SlotsKept
<1>16. StacksShaped'
  <2>1. ASSUME NEW k \in Depth', k # h
        PROVE  /\ Views(k)' > 0 /\ Skipped(k)' \in {0, 1}
               /\ Skipped(k)' = 1 => below'[k][1] = NULL
               /\ current_sync_block_size'[k] = 0 => below'[k] = <<>> /\ Pbag'[k] = NULL
    <3>1. /\ below'[k] = below[k] /\ Pbag'[k] = Pbag[k] /\ Views(k)' = Views(k)
          /\ Skipped(k)' = Skipped(k) /\ k \in Depth
          /\ current_sync_block_size'[k] = current_sync_block_size[k]
      BY <1>1, <1>6, <1>11, <1>15, <2>1 DEF SlotsSame, MergesTop
    <3>2. QED
      BY <1>p, <3>1 DEF StacksShaped
  <2>2. current_sync_block_size'[h] # 0
    <3>1. below[h] # <<>>
      BY <1>4
    <3>2. current_sync_block_size' = current_sync_block_size
      BY DEF MergesTop
    <3>3. QED
      BY <1>1, <1>p, <3>1, <3>2 DEF StacksShaped
  <2>3. Skipped(h) = 1 => below'[h][1] = NULL
    <3>1. SUFFICES ASSUME Skipped(h) = 1 PROVE below'[h][1] = NULL
      OBVIOUS
    <3>2. below[h][1] = NULL /\ 1 \in 1 .. (Len(below[h]) - 1)
      BY <1>1, <1>2, <1>3, <1>p, <3>1 DEF StacksShaped
    <3>3. QED
      BY <1>4, <1>6, <3>2
  <2>4. Views(h)' > 0 /\ Skipped(h)' \in {0, 1}
    BY <1>2, <1>3, <1>8
  <2>5. QED
    BY <1>8, <2>1, <2>2, <2>3, <2>4 DEF StacksShaped
<1>17. n - 1 \in 1 .. (n - 1)
  BY <1>2, <1>3
<1>18. QED
  BY <1>1, <1>2, <1>3, <1>6, <1>8, <1>11, <1>12, <1>13, <1>14, <1>15, <1>16, <1>17 DEF MergedSlots

\* Every strand of the last view is in the one before it now, and so is its
\* bag.
LEMMA MergesPlaced ==
  ASSUME BagTyped, ViewsTyped, Placed, MergesTop, NEW h, NEW n, MergedSlots(h, n),
         h = frame_head
  PROVE  Placed'
<1>p. StacksShaped /\ StealBagsDistinct /\ NodesInUse /\ StrandsInViews /\ ViewsDistinct
  BY DEF Placed
<1>1. /\ h \in Depth /\ h \in Levels /\ \A k \in Depth : k <= h
      /\ n \in Nat /\ n > 1 /\ n = Views(h) /\ n \in 1 .. n /\ n - 1 \in 1 .. (n - 1)
      /\ Views(h)' = n - 1
      /\ \A v \in 1 .. (n - 1) : /\ v \in 1 .. n /\ v # n
                                 /\ views'[h][v] = views[h][v] /\ Slot(h, v)' = Slot(h, v)
                                 /\ Slot(h, v) # NULL
      /\ Slot(h, n) = Pbag[h] /\ Slot(h, n - 1) = Pbag'[h]
      /\ \A k \in Levels : k # h => Pbag'[k] = Pbag[k]
      /\ LastOf(views'[h]) = views[h][n - 1]
      /\ Joins(Slot(h, n - 1), Slot(h, n))
      /\ view_of' = [s \in Strands |-> IF view_of[s] = views[h][n] THEN views[h][n - 1]
                                                                  ELSE view_of[s]]
      /\ \A k \in Depth : k # h => SlotsSame(k)
      /\ StacksShaped'
  BY DEF MergedSlots
<1>2. /\ Depth' = Depth /\ Depth \subseteq Levels /\ 0 .. h = Depth
      /\ NULL \notin Nodes /\ 1 .. dset_size \subseteq Nodes /\ 1 .. nstrands \subseteq Strands
      /\ UNCHANGED <<frame_head, Sbag, dset_size, kind, nstrands, owner, past, joined>>
  BY Ranges DEF MergesTop, Depth, dagVars
<1>3. \A k \in Depth : \A v \in 1 .. Views(k)' :
        /\ v \in 1 .. Views(k) /\ views'[k][v] = views[k][v] /\ Slot(k, v)' = Slot(k, v)
        /\ k # h \/ v # n
        /\ v < Views(k)' => Slot(k, v)' # NULL
  <2>1. ASSUME NEW k \in Depth, NEW v \in 1 .. Views(k)'
        PROVE  /\ v \in 1 .. Views(k) /\ views'[k][v] = views[k][v] /\ Slot(k, v)' = Slot(k, v)
               /\ k # h \/ v # n
               /\ v < Views(k)' => Slot(k, v)' # NULL
    <3>1. CASE k = h
      <4>1. v \in 1 .. (n - 1)
        BY <1>1, <3>1
      <4>2. QED
        BY <1>1, <3>1, <4>1
    <3>2. CASE k # h
      <4>1. Views(k)' = Views(k) /\ v \in 1 .. Views(k) /\ Slot(k, v)' = Slot(k, v)
            /\ views'[k] = views[k]
        BY <1>1, <3>2 DEF SlotsSame
      <4>2. v < Views(k) => Slot(k, v) # NULL
        BY <1>p, <4>1 DEF StealBagsDistinct
      <4>3. QED
        BY <3>2, <4>1, <4>2
    <3>3. QED
      BY <3>1, <3>2
  <2>2. QED
    BY <2>1
\* Whatever is not the last view of the frame on top is as it was.
<1>4. ASSUME NEW k \in Depth, NEW v \in 1 .. Views(k), k # h \/ v # n
      PROVE  v \in 1 .. Views(k)' /\ views'[k][v] = views[k][v] /\ Slot(k, v)' = Slot(k, v)
  <2>1. CASE k = h
    <3>1. v \in 1 .. (n - 1)
      BY <1>1, <1>4, <2>1
    <3>2. QED
      BY <1>1, <2>1, <3>1
  <2>2. CASE k # h
    BY <1>1, <2>2 DEF SlotsSame
  <2>3. QED
    BY <2>1, <2>2
<1>5. ASSUME NEW k \in Depth, NEW v \in 1 .. Views(k), k # h \/ v # n
      PROVE  /\ views[k][v] # views[h][n]
             /\ Slot(k, v) # NULL => Slot(k, v) # Slot(h, n)
  <2>1. k < h \/ (k = h /\ v < n)
    <3>1. k <= h /\ k \in Int /\ h \in Int
      BY <1>1, <1>2, Ranges
    <3>2. k = h => v \in 1 .. n /\ v # n
      BY <1>1, <1>5
    <3>3. QED
      BY <1>1, <3>1, <3>2
  <2>2. views[k][v] # views[h][n]
    BY <1>1, <1>p, <2>1 DEF ViewsDistinct
  <2>3. Slot(k, v) # NULL => Slot(k, v) # Slot(h, n)
    BY <1>1, <1>5, <1>p DEF StealBagsDistinct
  <2>4. QED
    BY <2>2, <2>3
<1>6. /\ Slot(h, n - 1) \in 1 .. dset_size
      /\ Slot(h, n) = NULL \/ Slot(h, n) \in 1 .. dset_size
      /\ Slot(h, n) # NULL => kind[Slot(h, n)] = "P"
  <2>1. n - 1 \in 1 .. Views(h) /\ n \in 1 .. Views(h) /\ Slot(h, n - 1) # NULL
    BY <1>1
  <2>2. QED
    BY <1>1, <1>p, <2>1 DEF StealBagsDistinct
<1>7. \A k \in Depth : Sbag[k] # Slot(h, n)
  BY <1>2, <1>6, <1>p DEF StealBagsDistinct
<1>8. StealBagsDistinct'
  <2>1. ASSUME NEW k \in Levels, Pbag'[k] # NULL PROVE k \in 0 .. h
    <3>1. CASE k = h
      BY <1>1, <1>2, <3>1
    <3>2. CASE k # h
      <4>1. Pbag[k] # NULL
        BY <1>1, <2>1, <3>2
      <4>2. k \in Depth
        BY <1>p, <4>1 DEF StealBagsDistinct
      <4>3. QED
        BY <1>2, <4>2
    <3>3. QED
      BY <3>1, <3>2
  <2>2. \A k \in 0 .. h : Sbag'[k] = Sbag[k] /\ Sbag[k] # Slot(h, n)
    BY <1>2, <1>7
  <2>3. ASSUME NEW k \in 0 .. h, NEW v \in 1 .. Views(k)'
        PROVE  /\ v < Views(k)' => Slot(k, v)' # NULL
               /\ Slot(k, v)' # NULL =>
                    v \in 1 .. Views(k) /\ Slot(k, v)' = Slot(k, v) /\ Slot(k, v) # Slot(h, n)
    <3>1. /\ k \in Depth /\ v \in 1 .. Views(k) /\ Slot(k, v)' = Slot(k, v)
          /\ k # h \/ v # n
          /\ v < Views(k)' => Slot(k, v)' # NULL
      BY <1>2, <1>3
    <3>2. QED
      BY <1>5, <3>1
  <2>4. QED
    BY <1>1, <1>2, <1>6, <1>p, <2>1, <2>2, <2>3, BagsKept
<1>9. NodesInUse'
  <2>1. UNCHANGED <<frame_head, dset_size, dagVars>>
    BY DEF MergesTop
  <2>2. QED
    BY <1>1, <1>6, <1>p, <2>1, NodesKept
<1>10. ASSUME NEW t \in 1 .. nstrands PROVE \E k \in Depth : InView(t, k)'
  <2>1. /\ owner[t] \in Nodes /\ rep(t) \in Nodes /\ t \in Strands
        /\ rep(t)' = IF rep(t) = Slot(h, n) THEN Slot(h, n - 1) ELSE rep(t)
        /\ view_of'[t] = IF view_of[t] = views[h][n] THEN views[h][n - 1] ELSE view_of[t]
    <3>1. owner[t] \in Nodes /\ rep(t) \in Nodes /\ t \in Strands
      BY <1>2, <1>p DEF NodesInUse, BagTyped, rep
    <3>2. rep(t)' = IF rep(t) = Slot(h, n) THEN Slot(h, n - 1) ELSE rep(t)
      BY <1>1, <1>2, <3>1 DEF rep, Joins
    <3>3. QED
      BY <1>1, <3>1, <3>2
  <2>2. PICK k \in Depth : InView(t, k)
    BY <1>p DEF StrandsInViews
  <2>3. CASE SerialIn(t, k)
    <3>1. rep(t) = Sbag[k] /\ rep(t)' = Sbag'[k]
      BY <1>2, <1>7, <2>1, <2>3 DEF SerialIn, SerialAt
    <3>2. SerialAt(t, k)'
      BY <1>2, <2>3, <3>1 DEF SerialIn, SerialAt
    <3>3. PICK v \in 1 .. Views(k) : view_of[t] = views[k][v]
      BY <2>3 DEF SerialIn
    <3>4. \E u \in 1 .. Views(k)' : view_of'[t] = views'[k][u]
      <4>1. CASE k = h /\ v = n
        <5>1. view_of'[t] = views[h][n - 1]
          BY <2>1, <3>3, <4>1
        <5>2. n - 1 \in 1 .. Views(h)' /\ views'[h][n - 1] = views[h][n - 1]
          BY <1>1
        <5>3. QED
          BY <4>1, <5>1, <5>2
      <4>2. CASE k # h \/ v # n
        <5>1. v \in 1 .. Views(k)' /\ views'[k][v] = views[k][v] /\ views[k][v] # views[h][n]
          BY <1>4, <1>5, <4>2
        <5>2. QED
          BY <2>1, <3>3, <5>1
      <4>3. QED
        BY <4>1, <4>2
    <3>5. InView(t, k)'
      BY <3>2, <3>4 DEF InView, SerialIn
    <3>6. QED
      BY <3>5
  <2>4. ASSUME NEW v \in 1 .. Views(k), ParallelIn(t, k, v) PROVE InView(t, k)'
    <3>1. \A j \in Depth' : t \notin past'[j] /\ (t \in joined'[j] <=> j = k)
      BY <1>2, <2>4 DEF ParallelIn
    <3>2. rep(t) = Slot(k, v) /\ view_of[t] = views[k][v] /\ rep(t) # NULL
      BY <1>2, <2>1, <2>4 DEF ParallelIn
    <3>3. CASE k = h /\ v = n
      <4>1. rep(t)' = Slot(h, n - 1) /\ view_of'[t] = views[h][n - 1]
        BY <2>1, <3>2, <3>3
      <4>2. PICK u \in 1 .. (n - 1) : u = n - 1
        BY <1>1
      <4>3. /\ u \in 1 .. Views(h)' /\ Slot(h, u)' = Slot(h, n - 1)
            /\ views'[h][u] = views[h][n - 1]
        BY <1>1, <4>2
      <4>4. ParallelIn(t, h, u)'
        BY <3>1, <3>3, <4>1, <4>3 DEF ParallelIn
      <4>5. QED
        BY <3>3, <4>3, <4>4 DEF InView
    <3>4. CASE k # h \/ v # n
      <4>1. /\ v \in 1 .. Views(k)' /\ views'[k][v] = views[k][v] /\ Slot(k, v)' = Slot(k, v)
            /\ views[k][v] # views[h][n] /\ Slot(k, v) # Slot(h, n)
        BY <1>4, <1>5, <3>2, <3>4
      <4>2. rep(t)' = Slot(k, v)' /\ view_of'[t] = views'[k][v]
        BY <2>1, <3>2, <4>1
      <4>3. ParallelIn(t, k, v)'
        BY <3>1, <4>2 DEF ParallelIn
      <4>4. QED
        BY <4>1, <4>3 DEF InView
    <3>5. QED
      BY <3>3, <3>4
  <2>5. QED
    BY <2>2, <2>3, <2>4 DEF InView
<1>11. StrandsInViews'
  BY <1>2, <1>10 DEF StrandsInViews
<1>12. ViewsDistinct'
  <2>1. ASSUME NEW k \in Depth', k < frame_head' PROVE views'[k + 1][1] = LastOf(views'[k])
    <3>1. k # h /\ k \in Depth /\ k + 1 \in Depth /\ k < frame_head
      BY <1>2, <2>1, Ranges DEF Depth
    <3>2. views'[k] = views[k]
      BY <1>1, <3>1 DEF SlotsSame
    <3>3. views[k + 1][1] = LastOf(views[k])
      BY <1>p, <3>1 DEF ViewsDistinct
    <3>4. views'[k + 1][1] = views[k + 1][1]
      <4>1. CASE k + 1 = h
        <5>1. 1 \in 1 .. (n - 1)
          BY <1>1
        <5>2. views'[h][1] = views[h][1]
          BY <1>1, <5>1
        <5>3. QED
          BY <4>1, <5>2
      <4>2. CASE k + 1 # h
        BY <1>1, <3>1, <4>2 DEF SlotsSame
      <4>3. QED
        BY <4>1, <4>2
    <3>5. QED
      BY <3>2, <3>3, <3>4
  <2>2. ASSUME NEW j \in Depth', NEW k \in Depth', NEW u \in 1 .. Views(j)',
               NEW v \in 1 .. Views(k)', (j < k /\ 1 < v) \/ (j = k /\ u < v)
        PROVE  views'[j][u] # views'[k][v]
    BY <1>2, <1>3, <1>p, <2>2 DEF ViewsDistinct
  <2>3. ASSUME NEW k \in Depth', NEW v \in 1 .. Views(k)'
        PROVE  views'[k][v] \in (1 .. nstrands)' /\ (HelperLeaving' => views'[k][v] # nstrands')
    <3>1. HelperLeaving' => HelperLeaving
      BY DEF MergesTop
    <3>2. QED
      BY <1>2, <1>3, <1>p, <3>1 DEF ViewsDistinct
  <2>4. QED
    BY <2>1, <2>2, <2>3 DEF ViewsDistinct
<1>13. QED
  BY <1>1, <1>8, <1>9, <1>11, <1>12 DEF Placed

-----------------------------------------------------------------------------
(***************************************************************************)
(* A new view.                                                             *)
(***************************************************************************)
\* The continuation in the frame on top goes on in a view of its own, which
\* is named after its first strand.
StartsView ==
  /\ below' = [below EXCEPT ![frame_head] = Append(@, Pbag[frame_head])]
  /\ Pbag' = [Pbag EXCEPT ![frame_head] = NULL]
  /\ views' = [views EXCEPT ![frame_head] = Append(@, nstrands)]
  /\ view_of' = [view_of EXCEPT ![nstrands] = nstrands]
  /\ UNCHANGED <<frame_head, Sbag, current_sync_block_size, dsetVars, dagVars>>
  /\ ~HelperLeaving'

\* A frame h with n views, after one more is started.
StartedSlots(h, n) ==
  /\ h \in Depth /\ h \in Levels /\ \A k \in Depth : k <= h
  /\ n \in Nat /\ n = Views(h) /\ n \in 1 .. n /\ Views(h)' = n + 1 /\ n + 1 \in 1 .. (n + 1)
  /\ \A v \in 1 .. n : /\ v \in 1 .. (n + 1) /\ v # n + 1
                       /\ views'[h][v] = views[h][v] /\ Slot(h, v)' = Slot(h, v)
                       /\ Slot(h, v) # NULL
  /\ Slot(h, n + 1)' = NULL /\ views'[h][n + 1] = nstrands /\ LastOf(views'[h]) = nstrands
  /\ Pbag'[h] = NULL /\ \A k \in Levels : k # h => Pbag'[k] = Pbag[k]
  /\ \A k \in Depth : k # h => SlotsSame(k)
  /\ StacksShaped'

\* The top P-bag goes to the stack, and leaves an empty top slot.
LEMMA StartsSlots ==
  ASSUME BagTyped, ViewsTyped, Placed, StartsView, Pbag[frame_head] # NULL,
         NEW h, NEW n, h = frame_head, n = Views(frame_head)
  PROVE  StartedSlots(h, n)
<1>p. StacksShaped /\ StealBagsDistinct
  BY DEF Placed
<1>1. h \in Depth /\ h \in Levels /\ Depth' = Depth /\ Depth \subseteq Levels
      /\ \A k \in Depth : k <= h
      /\ Pbag[h] \in Nodes \cup {NULL} /\ nstrands \in Strands
  BY Ranges DEF StartsView, Depth, BagTyped
<1>2. /\ n \in Nat /\ n = Views(h) /\ n \in 1 .. n
      /\ below[h] \in Seq(Nodes \cup {NULL}) /\ Len(below[h]) \in Nat /\ Skipped(h) \in {0, 1}
      /\ Len(below[h]) = n - 1 + Skipped(h)
      /\ views[h] \in Seq(Strands)
      /\ Slot(h, n) = Pbag[h]
      /\ \A v \in 1 .. n : v # n => Slot(h, v) = below[h][v + Skipped(h)]
  BY <1>1, <1>p, SlotRanges
<1>3. /\ below'[h] = Append(below[h], Pbag[h]) /\ \A k \in Levels : k # h => below'[k] = below[k]
      /\ views'[h] = Append(views[h], nstrands) /\ \A k \in Levels : k # h => views'[k] = views[k]
      /\ Pbag'[h] = NULL /\ \A k \in Levels : k # h => Pbag'[k] = Pbag[k]
  BY <1>1 DEF StartsView, ViewsTyped, BagTyped
<1>4. /\ Len(below'[h]) = Len(below[h]) + 1 /\ below'[h][Len(below[h]) + 1] = Pbag[h]
      /\ \A i \in 1 .. Len(below[h]) : below'[h][i] = below[h][i]
  BY <1>1, <1>2, <1>3, AppendFacts
<1>5. /\ Len(views'[h]) = n + 1 /\ views'[h][n + 1] = nstrands /\ LastOf(views'[h]) = nstrands
      /\ \A v \in 1 .. n : views'[h][v] = views[h][v]
  <2>1. Len(views[h]) = n
    BY DEF Views
  <2>2. QED
    BY <1>1, <1>2, <1>3, <2>1, AppendFacts
<1>6. Views(h)' = n + 1 /\ Skipped(h)' = Skipped(h)
  <2>1. Views(h)' = n + 1
    BY <1>5 DEF Views
  <2>2. Skipped(h)' = Len(below'[h]) + 1 - (n + 1)
    BY <2>1 DEF Skipped
  <2>3. PICK l, sk \in Nat : l = Len(below[h]) /\ sk = Skipped(h) /\ l \in Nat
    BY <1>2
  <2>4. Len(below'[h]) = l + 1 /\ l = n - 1 + sk
    BY <1>2, <1>4, <2>3
  <2>5. (l + 1) + 1 - (n + 1) = sk
    BY <1>2, <2>3, <2>4
  <2>6. QED
    BY <2>1, <2>2, <2>3, <2>4, <2>5
<1>7. ASSUME NEW v \in 1 .. n
      PROVE  /\ v \in 1 .. (n + 1) /\ v # n + 1 /\ Slot(h, v)' = Slot(h, v) /\ Slot(h, v) # NULL
  <2>1. v \in 1 .. (n + 1) /\ v # n + 1
    BY <1>2
  <2>2. Slot(h, v)' = below'[h][v + Skipped(h)]
    BY <1>6, <2>1 DEF Slot
  <2>3. CASE v = n
    <3>1. v + Skipped(h) = Len(below[h]) + 1
      BY <1>2, <2>3
    <3>2. QED
      BY <1>1, <1>2, <1>4, <2>1, <2>2, <2>3, <3>1
  <2>4. CASE v # n
    <3>1. v + Skipped(h) \in 1 .. Len(below[h]) /\ v < n
      BY <1>2, <2>4
    <3>2. Slot(h, v) # NULL
      BY <1>1, <1>2, <1>p, <3>1 DEF StealBagsDistinct
    <3>3. QED
      BY <1>2, <1>4, <2>1, <2>2, <2>4, <3>1, <3>2
  <2>5. QED
    BY <2>3, <2>4
<1>8. Slot(h, n + 1)' = NULL
  BY <1>3, <1>6 DEF Slot
<1>9. \A k \in Depth : k # h => SlotsSame(k) /\ Skipped(k)' = Skipped(k)
  BY <1>1, <1>3, SlotsKept
<1>10. StacksShaped'
  <2>1. ASSUME NEW k \in Depth', k # h
        PROVE  /\ Views(k)' > 0 /\ Skipped(k)' \in {0, 1}
               /\ Skipped(k)' = 1 => below'[k][1] = NULL
               /\ current_sync_block_size'[k] = 0 => below'[k] = <<>> /\ Pbag'[k] = NULL
    <3>1. /\ below'[k] = below[k] /\ Pbag'[k] = Pbag[k] /\ Views(k)' = Views(k)
          /\ Skipped(k)' = Skipped(k) /\ k \in Depth
          /\ current_sync_block_size'[k] = current_sync_block_size[k]
      BY <1>1, <1>3, <1>9, <2>1 DEF SlotsSame, StartsView
    <3>2. QED
      BY <1>p, <3>1 DEF StacksShaped
  <2>2. current_sync_block_size'[h] # 0
    <3>1. current_sync_block_size' = current_sync_block_size
      BY DEF StartsView
    <3>2. QED
      BY <1>1, <1>p, <3>1 DEF StacksShaped
  <2>3. Skipped(h) = 1 => below'[h][1] = NULL
    <3>1. SUFFICES ASSUME Skipped(h) = 1 PROVE below'[h][1] = NULL
      OBVIOUS
    <3>2. below[h][1] = NULL /\ 1 \in 1 .. Len(below[h])
      BY <1>1, <1>2, <1>p, <3>1 DEF StacksShaped
    <3>3. QED
      BY <1>4, <3>2
  <2>4. Views(h)' > 0 /\ Skipped(h)' \in {0, 1}
    BY <1>2, <1>6
  <2>5. QED
    BY <1>6, <2>1, <2>2, <2>3, <2>4 DEF StacksShaped
<1>11. n + 1 \in 1 .. (n + 1)
  BY <1>2
<1>12. QED
  BY <1>1, <1>2, <1>3, <1>5, <1>6, <1>7, <1>8, <1>9, <1>10, <1>11 DEF StartedSlots

\* Only the strand that goes on is in the new view.
LEMMA StartsPlaced ==
  ASSUME BagTyped, ViewsTyped, Placed, RunningStrand, HelperLeaving, StartsView,
         NEW h, NEW n, StartedSlots(h, n), h = frame_head
  PROVE  Placed'
<1>p. StacksShaped /\ StealBagsDistinct /\ NodesInUse /\ StrandsInViews /\ ViewsDistinct
  BY DEF Placed
<1>1. /\ h \in Depth /\ h \in Levels /\ \A k \in Depth : k <= h
      /\ n \in Nat /\ n = Views(h) /\ n \in 1 .. n /\ Views(h)' = n + 1 /\ n + 1 \in 1 .. (n + 1)
      /\ \A v \in 1 .. n : /\ v \in 1 .. (n + 1) /\ v # n + 1
                           /\ views'[h][v] = views[h][v] /\ Slot(h, v)' = Slot(h, v)
                           /\ Slot(h, v) # NULL
      /\ Slot(h, n + 1)' = NULL /\ views'[h][n + 1] = nstrands
      /\ Pbag'[h] = NULL /\ \A k \in Levels : k # h => Pbag'[k] = Pbag[k]
      /\ \A k \in Depth : k # h => SlotsSame(k)
      /\ StacksShaped'
  BY DEF StartedSlots
<1>2. /\ Depth' = Depth /\ Depth \subseteq Levels
      /\ NULL \notin Nodes /\ 1 .. dset_size \subseteq Nodes /\ 1 .. nstrands \subseteq Strands
      /\ nstrands \in 1 .. nstrands
      /\ UNCHANGED <<frame_head, Sbag, dset_size, kind, set_node, nstrands, owner, past, joined>>
      /\ ~HelperLeaving'
      /\ view_of' = [view_of EXCEPT ![nstrands] = nstrands]
  BY Ranges DEF StartsView, Depth, dsetVars, dagVars
\* A view after the step is one from before or the new one, whose slot is
\* empty.
<1>3. ASSUME NEW k \in Depth, NEW v \in 1 .. Views(k)'
      PROVE  \/ /\ v \in 1 .. Views(k) /\ views'[k][v] = views[k][v] /\ Slot(k, v)' = Slot(k, v)
                /\ v < Views(k)' => Slot(k, v)' # NULL
             \/ /\ k = h /\ v = n + 1 /\ views'[k][v] = nstrands /\ Slot(k, v)' = NULL
                /\ ~(v < Views(k)')
  <2>1. CASE k = h
    <3>1. v \in 1 .. n \/ v = n + 1
      BY <1>1, <2>1
    <3>2. QED
      BY <1>1, <2>1, <3>1
  <2>2. CASE k # h
    <3>1. /\ v \in 1 .. Views(k) /\ views'[k][v] = views[k][v] /\ Slot(k, v)' = Slot(k, v)
          /\ Views(k)' = Views(k)
      BY <1>1, <2>2 DEF SlotsSame
    <3>2. v < Views(k) => Slot(k, v) # NULL
      BY <1>p, <3>1 DEF StealBagsDistinct
    <3>3. QED
      BY <3>1, <3>2
  <2>3. QED
    BY <2>1, <2>2
<1>4. ASSUME NEW k \in Depth, NEW v \in 1 .. Views(k)
      PROVE  v \in 1 .. Views(k)' /\ views'[k][v] = views[k][v] /\ Slot(k, v)' = Slot(k, v)
  <2>1. CASE k = h
    <3>1. v \in 1 .. n
      BY <1>1, <2>1
    <3>2. QED
      BY <1>1, <2>1, <3>1
  <2>2. CASE k # h
    BY <1>1, <2>2 DEF SlotsSame
  <2>3. QED
    BY <2>1, <2>2
<1>5. StealBagsDistinct'
  <2>1. ASSUME NEW k \in Levels, Pbag'[k] # NULL PROVE k \in Depth'
    <3>1. Pbag[k] # NULL
      BY <1>1, <2>1
    <3>2. k \in Depth
      BY <1>p, <3>1 DEF StealBagsDistinct
    <3>3. QED
      BY <1>2, <3>2
  <2>2. ASSUME NEW k \in Depth', NEW v \in 1 .. Views(k)'
        PROVE  /\ v < Views(k)' => Slot(k, v)' # NULL
               /\ Slot(k, v)' # NULL => /\ Slot(k, v)' \in 1 .. dset_size'
                                        /\ set_node'[Slot(k, v)'] = Slot(k, v)'
                                        /\ kind'[Slot(k, v)'] = "P"
    BY <1>2, <1>3, <1>p DEF StealBagsDistinct
  <2>3. ASSUME NEW j \in Depth', NEW k \in Depth', NEW u \in 1 .. Views(j)',
               NEW v \in 1 .. Views(k)', Slot(j, u)' # NULL, Slot(j, u)' = Slot(k, v)'
        PROVE  j = k /\ u = v
    <3>1. /\ j \in Depth /\ k \in Depth /\ u \in 1 .. Views(j) /\ v \in 1 .. Views(k)
          /\ Slot(j, u)' = Slot(j, u) /\ Slot(k, v)' = Slot(k, v)
      BY <1>2, <1>3, <2>3
    <3>2. Slot(j, u) # NULL /\ Slot(j, u) = Slot(k, v)
      BY <2>3, <3>1
    <3>3. QED
      BY <1>p, <3>1, <3>2 DEF StealBagsDistinct
  <2>4. /\ \A k \in Depth' : /\ Sbag'[k] \in 1 .. dset_size'
                             /\ set_node'[Sbag'[k]] = Sbag'[k] /\ kind'[Sbag'[k]] = "S"
        /\ \A j, k \in Depth' : j # k => Sbag'[j] # Sbag'[k]
    BY <1>2, <1>p DEF StealBagsDistinct
  <2>5. QED
    BY <2>1, <2>2, <2>3, <2>4 DEF StealBagsDistinct
<1>6. NodesInUse'
  BY <1>2, <1>p DEF NodesInUse
<1>7. ASSUME NEW t \in 1 .. nstrands PROVE \E k \in Depth : InView(t, k)'
  <2>1. /\ rep(t)' = rep(t) /\ t \in Strands
        /\ view_of'[t] = IF t = nstrands THEN nstrands ELSE view_of[t]
    BY <1>2 DEF rep, ViewsTyped
  <2>2. PICK k \in Depth : InView(t, k)
    BY <1>p DEF StrandsInViews
  <2>3. CASE SerialIn(t, k)
    <3>1. SerialAt(t, k)'
      BY <1>2, <2>1, <2>3 DEF SerialIn, SerialAt
    <3>2. \E u \in 1 .. Views(k)' : view_of'[t] = views'[k][u]
      <4>1. CASE t = nstrands
        <5>1. \A j \in Depth : (nstrands \in past[j] <=> k <= j)
          BY <2>3, <4>1 DEF SerialIn, SerialAt
        <5>2. k <= k /\ k <= h
          BY <1>1, <1>2, Ranges DEF Levels
        <5>3. k = h
          BY <5>1, <5>2 DEF RunningStrand
        <5>4. view_of'[t] = views'[h][n + 1] /\ n + 1 \in 1 .. Views(h)'
          BY <1>1, <2>1, <4>1
        <5>5. QED
          BY <5>3, <5>4
      <4>2. CASE t # nstrands
        <5>1. PICK v \in 1 .. Views(k) : view_of[t] = views[k][v]
          BY <2>3 DEF SerialIn
        <5>2. QED
          BY <1>4, <2>1, <4>2, <5>1
      <4>3. QED
        BY <4>1, <4>2
    <3>3. InView(t, k)'
      BY <3>1, <3>2 DEF InView, SerialIn
    <3>4. QED
      BY <3>3
  <2>4. ASSUME NEW v \in 1 .. Views(k), ParallelIn(t, k, v) PROVE InView(t, k)'
    <3>1. t # nstrands
      BY <1>1, <2>4 DEF ParallelIn, RunningStrand
    <3>2. rep(t)' = Slot(k, v)' /\ view_of'[t] = views'[k][v] /\ v \in 1 .. Views(k)'
      BY <1>4, <2>1, <2>4, <3>1 DEF ParallelIn
    <3>3. ParallelIn(t, k, v)'
      BY <1>2, <2>4, <3>2 DEF ParallelIn
    <3>4. QED
      BY <3>2, <3>3 DEF InView
  <2>5. QED
    BY <2>2, <2>3, <2>4 DEF InView
<1>8. StrandsInViews'
  BY <1>2, <1>7 DEF StrandsInViews
<1>9. ViewsDistinct'
  <2>0. \A k \in Depth : \A v \in 1 .. Views(k) : views[k][v] # nstrands /\ views[k][v] \in 1 .. nstrands
    BY <1>p DEF ViewsDistinct
  <2>1. ASSUME NEW k \in Depth', k < frame_head' PROVE views'[k + 1][1] = LastOf(views'[k])
    <3>1. k # h /\ k \in Depth /\ k + 1 \in Depth /\ k < frame_head
      BY <1>2, <2>1, Ranges DEF Depth
    <3>2. views'[k] = views[k]
      BY <1>1, <3>1 DEF SlotsSame
    <3>3. views[k + 1][1] = LastOf(views[k])
      BY <1>p, <3>1 DEF ViewsDistinct
    <3>4. views'[k + 1][1] = views[k + 1][1]
      <4>1. 1 \in 1 .. Views(k + 1)
        BY <1>p, <3>1, SlotRanges
      <4>2. QED
        BY <1>4, <3>1, <4>1
    <3>5. QED
      BY <3>2, <3>3, <3>4
  <2>2. ASSUME NEW j \in Depth', NEW k \in Depth', NEW u \in 1 .. Views(j)',
               NEW v \in 1 .. Views(k)', (j < k /\ 1 < v) \/ (j = k /\ u < v)
        PROVE  views'[j][u] # views'[k][v]
    <3>1. j # h \/ u # n + 1
      <4>1. SUFFICES ASSUME j = h, u = n + 1 PROVE FALSE
        OBVIOUS
      <4>2. k <= h /\ k \in Int /\ h \in Int
        BY <1>1, <1>2, Ranges DEF Levels
      <4>3. k = h
        BY <2>2, <4>1, <4>2
      <4>4. v \in 1 .. (n + 1) /\ n + 1 < v
        BY <1>1, <2>2, <4>1, <4>2, <4>3
      <4>5. QED
        BY <1>1, <4>4
    <3>2. j \in Depth /\ u \in 1 .. Views(j) /\ views'[j][u] = views[j][u]
      BY <1>2, <1>3, <3>1
    <3>3. CASE v \in 1 .. Views(k) /\ views'[k][v] = views[k][v]
      <4>1. views[j][u] # views[k][v]
        BY <1>2, <1>p, <2>2, <3>2, <3>3 DEF ViewsDistinct
      <4>2. QED
        BY <3>2, <3>3, <4>1
    <3>4. CASE views'[k][v] = nstrands
      BY <2>0, <3>2, <3>4
    <3>5. QED
      BY <1>2, <1>3, <3>3, <3>4
  <2>3. ASSUME NEW k \in Depth', NEW v \in 1 .. Views(k)'
        PROVE  views'[k][v] \in (1 .. nstrands)' /\ (HelperLeaving' => views'[k][v] # nstrands')
    BY <1>2, <1>3, <2>0
  <2>4. QED
    BY <2>1, <2>2, <2>3 DEF ViewsDistinct
<1>10. QED
  BY <1>1, <1>5, <1>6, <1>8, <1>9 DEF Placed

\* The running strand is the last one after every kind of step.
LEMMA RunningKept ==
  ASSUME BagTyped, NodesInUse, RunningStrand,
         \/ UNCHANGED <<frame_head, dagVars>>
         \/ /\ frame_head' = frame_head + 1 /\ frame_head < MaxFrames
            /\ \E sbag : FirstStrandOfChild(sbag)
         \/ /\ frame_head' \in Depth
            /\ \E preds : NextStrandAt(frame_head', preds)
  PROVE  RunningStrand'
<1>1. /\ frame_head \in Levels /\ frame_head \in Depth /\ Depth \subseteq Levels
      /\ nstrands \in Nat /\ nstrands + 1 \notin 1 .. nstrands
  BY Ranges
<1>2. CASE UNCHANGED <<frame_head, dagVars>>
  BY <1>2 DEF RunningStrand, Depth, dagVars
<1>3. CASE /\ frame_head' = frame_head + 1 /\ frame_head < MaxFrames
           /\ \E sbag : FirstStrandOfChild(sbag)
  <2>0. PICK c, s : c = frame_head + 1 /\ s = nstrands + 1
    OBVIOUS
  <2>1. /\ nstrands' = s /\ c \in Levels /\ c \notin Depth /\ Depth' = Depth \cup {c}
        /\ past' = [past EXCEPT ![c] = past[frame_head] \cup {s}]
        /\ frame_head' = c
    BY <1>3, <2>0, Ranges DEF FirstStrandOfChild, Depth, Levels
  <2>2. s \in past'[c] /\ \A k \in Depth : past'[k] = past[k]
    BY <1>1, <2>1 DEF BagTyped
  <2>3. \A k \in Depth : s \notin past[k]
    BY <1>1, <2>0 DEF NodesInUse
  <2>4. QED
    BY <2>1, <2>2, <2>3 DEF RunningStrand
<1>4. CASE frame_head' \in Depth /\ \E preds : NextStrandAt(frame_head', preds)
  <2>0. PICK h, s : h = frame_head' /\ s = nstrands + 1
    OBVIOUS
  <2>1. PICK preds : NextStrandAt(h, preds)
    BY <1>4, <2>0
  <2>2. /\ nstrands' = s /\ h \in Levels /\ h \in Depth
        /\ past' = [past EXCEPT ![h] = preds \cup {s}]
        /\ Depth' \subseteq Depth
    <3>1. h \in Depth /\ h \in Levels
      BY <1>1, <1>4, <2>0
    <3>2. Depth' \subseteq Depth
      BY <2>0, <3>1, Ranges DEF Depth
    <3>3. QED
      BY <2>0, <2>1, <3>1, <3>2 DEF NextStrandAt
  <2>3. s \in past'[h] /\ \A k \in Depth : k # h => past'[k] = past[k]
    BY <1>1, <2>2 DEF BagTyped
  <2>4. \A k \in Depth : s \notin past[k]
    BY <1>1, <2>0 DEF NodesInUse
  <2>5. \A k \in Depth' : s \in past'[k] <=> k = h
    BY <2>2, <2>3, <2>4
  <2>6. QED
    BY <2>0, <2>2, <2>5 DEF RunningStrand
<1>5. QED
  BY <1>2, <1>3, <1>4

-----------------------------------------------------------------------------
(***************************************************************************)
(* The handlers that change nothing of the frames, the bags and the views. *)
(***************************************************************************)
QuietNext ==
  \/ Untouched /\ UNCHANGED stealVars
  \/ __cilksan_check_for_reduce_interval_return
  \/ __cilksan_check_for_reduce_interval_sync
  \/ steal_leave_end_function \/ steal_continue \/ steal_joined
  \/ ViewNext

\* They are quiet, when no assertion fails.
LEMMA QuietActions ==
  ASSUME QuietNext, ~died'
  PROVE  QuietStep /\ UNCHANGED <<optionVars, pointVars, chosen>>
<1> USE DEF QuietStep, HelperLeaving, stealVars, historyVars, viewVars, entryVars
<1>1. CASE Untouched /\ UNCHANGED stealVars
  <2> USE <1>1
  <2>1. CASE cilk_enter_helper_begin
    BY <2>1 DEF cilk_enter_helper_begin, Die
  <2>2. CASE cilk_enter_end
    BY <2>2 DEF cilk_enter_end, Die
  <2>3. CASE cilk_spawn_prepare \/ cilk_spawn_or_continue \/ cilk_detach_begin \/ cilk_sync_begin
    BY <2>3 DEF cilk_spawn_prepare, cilk_spawn_or_continue, cilk_detach_begin, cilk_sync_begin, Die
  <2>4. CASE __cilksan_disable_checking \/ __cilksan_enable_checking \/ cilksan_deinit
    BY <2>4 DEF __cilksan_disable_checking, __cilksan_enable_checking, cilksan_deinit, Die
  <2>5. QED
    BY <2>1, <2>2, <2>3, <2>4 DEF Untouched
<1>2. CASE __cilksan_check_for_reduce_interval_return
  BY <1>2 DEF __cilksan_check_for_reduce_interval_return, check_for_reduce_interval, StealDie,
              Die, StolenReturn
<1>3. CASE __cilksan_check_for_reduce_interval_sync
  BY <1>3 DEF __cilksan_check_for_reduce_interval_sync, check_for_reduce_interval, StealDie, Die
<1>4. CASE steal_leave_end_function
  BY <1>4 DEF steal_leave_end_function, cilk_leave_end, Die
<1>5. CASE steal_continue \/ steal_joined
  BY <1>5 DEF steal_continue, steal_joined, StealDie, Die
<1>6. CASE ViewNext
  <2> USE DEF ContextChanges, StealDie, Die
  <2>1. CASE __cilksan_begin_reduce_strand
    BY <2>1 DEF __cilksan_begin_reduce_strand
  <2>2. CASE __cilksan_end_reduce_strand
    BY <2>2 DEF __cilksan_end_reduce_strand
  <2>3. CASE __cilksan_begin_update_strand
    BY <2>3 DEF __cilksan_begin_update_strand
  <2>4. CASE __cilksan_end_update_strand
    BY <2>4 DEF __cilksan_end_update_strand
  <2>5. QED
    BY <1>6, <2>1, <2>2, <2>3, <2>4 DEF ViewNext
<1>7. QED
  BY <1>1, <1>2, <1>3, <1>4, <1>5, <1>6 DEF QuietNext

\* Whatever places strands and types what places them.
PlacedInv == StealTyped /\ Placed /\ RunningStrand

\* A quiet step keeps that.
LEMMA QuietKeeps ==
  ASSUME PlacedInv, QuietStep, UNCHANGED <<optionVars, pointVars>>,
         chosen' \in [Entries -> BOOLEAN]
  PROVE  PlacedInv'
<1>1. StealTyped'
  BY DEF PlacedInv, StealTyped, OptionsTyped, PointsTyped, ViewsTyped, BagTyped, CountsTyped,
         QuietStep, optionVars, pointVars, bagVars, frameVars, statVars, dsetVars, dagVars,
         countVars, viewVars
<1>2. Placed'
  BY QuietPlaced DEF PlacedInv, StealTyped
<1>3. RunningStrand'
  BY RunningKept DEF PlacedInv, StealTyped, Placed, QuietStep, bagVars, frameVars
<1>4. QED
  BY <1>1, <1>2, <1>3 DEF PlacedInv

-----------------------------------------------------------------------------
(***************************************************************************)
(* The handlers that move the bags keep it too.                            *)
(***************************************************************************)
\* The entry on top is a helper's exactly when the program is in a helper.
LEMMA TopIsHelper ==
  ASSUME EntriesInv
  PROVE  /\ entry_head = prog_depth /\ prog_depth \in Entries
         /\ entry_type[entry_head] = "HELPER" <=> prog[prog_depth] \in {"helper", "spawned"}
<1>1. entry_head = prog_depth /\ prog_depth \in Entries /\ entry_head \in 0 .. entry_head
  BY EntryRanges
<1>2. QED
  BY <1>1 DEF EntriesInv, EntriesMatch

\* __cilksan_invoke_reduce merges the top of the frame's stack.
LEMMA MergeKeeps ==
  ASSUME StealIInv, __cilksan_invoke_reduce, ~died'
  PROVE  PlacedInv' /\ MergesTop /\ UNCHANGED <<optionVars, pointVars, chosen>>
<1>0. PICK h, next : h = frame_head /\ next = LastOf(below[frame_head])
  OBVIOUS
<1>t. BagTyped /\ CountsTyped /\ ViewsTyped /\ OptionsTyped /\ PointsTyped /\ Placed
  BY DEF StealIInv, StealTyped
<1>1. /\ Len(below[h]) > 0
      /\ below' = [below EXCEPT ![h] = Front(@)]
      /\ Pbag' = [Pbag EXCEPT ![h] = IF next # NULL THEN next ELSE @]
      /\ set_node' = TopMerged(Pbag[h], next)
      /\ MergedViews(h)
      /\ pc \in {"returning", "joining"} /\ pc' = "reducing"
      /\ UNCHANGED <<entry_type, entry_head, frame_head, Sbag, current_sync_block_size,
                     init_cont_depth, frame_id, statVars, dset_size, kind, func_id, sib_sbag,
                     dagVars, countVars, optionVars, pointVars, viewVars, chosen>>
  BY <1>0 DEF __cilksan_invoke_reduce, StealDie, Die, UpdateAsserts, Pbag_index, entryVars
<1>2. HelperLeaving' => HelperLeaving
  <2>1. pc = "joining" => prog[prog_depth] = "cilk"
    BY DEF StealIInv, Control, StealPhases
  <2>2. pc = "joining" => entry_type[entry_head] # "HELPER"
    BY <2>1, TopIsHelper DEF StealIInv, Control
  <2>3. QED
    BY <1>1, <2>2 DEF HelperLeaving
<1>3. MergesTop
  BY <1>0, <1>1, <1>2 DEF MergesTop
<1>4. h \in Levels /\ below[h] \in Seq(Nodes \cup {NULL}) /\ views[h] \in Seq(Strands)
  BY <1>0, <1>t, Ranges DEF BagTyped, ViewsTyped
<1>5. Front(below[h]) \in Seq(Nodes \cup {NULL}) /\ next \in Nodes \cup {NULL}
  BY <1>0, <1>1, <1>4, FrontFacts
<1>6. BagTyped'
  <2>1. set_node' \in [Nodes -> Nodes]
    BY <1>1, <1>5, <1>t, CombinedTyped DEF TopMerged, BagTyped
  <2>2. Pbag' \in [Levels -> Nodes \cup {NULL}]
    BY <1>1, <1>4, <1>5, <1>t DEF BagTyped
  <2>3. QED
    BY <1>1, <1>t, <2>1, <2>2 DEF BagTyped, dagVars
<1>7. CountsTyped' /\ OptionsTyped' /\ PointsTyped'
  BY <1>1, <1>t DEF CountsTyped, OptionsTyped, PointsTyped, optionVars, pointVars, statVars,
                    countVars, dagVars
<1>8. ViewsTyped'
  <2>1. views' \in [Levels -> Seq(Strands)] /\ view_of' \in [Strands -> Strands]
    <3>1. CASE Len(views[h]) = 1
      BY <1>1, <1>t, <3>1 DEF MergedViews, ViewsTyped
    <3>2. CASE Len(views[h]) # 1
      <4>1. Len(views[h]) > 0 /\ Len(views[h]) \in Nat
        <5>1. h \in Depth
          BY <1>0, <1>t, Ranges
        <5>2. QED
          BY <1>4, <1>t, <5>1 DEF Placed, StacksShaped, Views
      <4>2. Front(views[h]) \in Seq(Strands)
        BY <1>4, <4>1, FrontFacts
      <4>3. views[h][Len(views[h]) - 1] \in Strands
        <5>1. PICK l \in Nat : l = Len(views[h])
          BY <4>1
        <5>2. l # 1 /\ l > 0
          BY <3>2, <4>1, <5>1
        <5>3. l - 1 \in 1 .. l
          BY <5>2
        <5>4. \A i \in 1 .. l : views[h][i] \in Strands
          BY <1>4, <5>1
        <5>5. QED
          BY <5>1, <5>3, <5>4
      <4>4. QED
        BY <1>1, <1>t, <3>2, <4>2, <4>3 DEF MergedViews, ViewsTyped
    <3>3. QED
      BY <3>1, <3>2
  <2>2. below' \in [Levels -> Seq(Nodes \cup {NULL})]
    BY <1>1, <1>5, <1>t DEF ViewsTyped
  <2>3. QED
    BY <1>1, <1>t, <2>1, <2>2 DEF ViewsTyped, viewVars
<1>9. Placed'
  <2>1. CASE Views(frame_head) = 1
    BY <1>3, <1>t, <2>1, PopsSkipped
  <2>2. CASE Views(frame_head) # 1
    <3>1. PICK n : n = Views(frame_head)
      OBVIOUS
    <3>2. MergedSlots(h, n)
      BY <1>0, <1>3, <1>t, <2>2, <3>1, MergesSlots
    <3>3. QED
      BY <1>0, <1>3, <1>t, <3>2, MergesPlaced
  <2>3. QED
    BY <2>1, <2>2
<1>10. RunningStrand'
  BY <1>1, <1>t, RunningKept DEF Placed, StealIInv
<1>11. QED
  BY <1>1, <1>3, <1>6, <1>7, <1>8, <1>9, <1>10 DEF PlacedInv, StealTyped

\* cilk_enter_begin enters a frame in its caller's last view.
LEMMA EnterKeeps ==
  ASSUME StealIInv, steal_enter_begin, ~died'
  PROVE  PlacedInv' /\ EntersView(dset_size + 1, Pbag[frame_head])
<1>0. PICK h, c, sbag, pbag : /\ h = frame_head /\ c = frame_head + 1
                              /\ sbag = dset_size + 1 /\ pbag = Pbag[frame_head]
  OBVIOUS
<1>t. BagTyped /\ CountsTyped /\ ViewsTyped /\ OptionsTyped /\ PointsTyped /\ Placed
  BY DEF StealIInv, StealTyped
<1>1. /\ cilk_enter_begin /\ ~Die
      /\ below[c] = <<>> /\ InheritViews(c)
      /\ UNCHANGED <<optionVars, pointVars, below, view_id, bag_view, chosen>>
  BY <1>0 DEF steal_enter_begin, StealDie, Die
<1>2. /\ frame_head < MaxFrames /\ pc' = "entering"
      /\ StartNewFunction(sbag, current_sync_block_size) /\ FirstStrandOfChild(sbag)
  BY <1>0, <1>1 DEF cilk_enter_begin
<1>3. /\ h \in Levels /\ c \in Levels /\ h \in Depth /\ h # c
      /\ Pbag[h] # NULL => Pbag[h] \in 1 .. dset_size /\ kind[Pbag[h]] = "P"
      /\ views[h] \in Seq(Strands) /\ Len(views[h]) > 0
  <2>1. h \in Levels /\ c \in Levels /\ h \in Depth /\ h # c
    BY <1>0, <1>2, <1>t, Ranges DEF Levels
  <2>2. Views(h) \in 1 .. Views(h) /\ Slot(h, Views(h)) = Pbag[h] /\ views[h] \in Seq(Strands)
    BY <1>t, <2>1, SlotRanges DEF Placed
  <2>3. Len(views[h]) > 0
    BY <1>t, <2>1 DEF Placed, StacksShaped, Views
  <2>4. QED
    BY <1>t, <2>1, <2>2, <2>3 DEF Placed, StealBagsDistinct
<1>4. BagTyped' /\ CountsTyped' /\ EntersFrame(sbag, pbag)
  BY <1>0, <1>1, <1>3, <1>t, EnterTyped
<1>5. LastOf(views[h]) \in Strands
  BY <1>3, FrontFacts
<1>6. EntersView(sbag, pbag)
  <2>1. current_sync_block_size' = [current_sync_block_size EXCEPT ![c] = 0]
    BY <1>0, <1>2 DEF StartNewFunction
  <2>2. \A k \in Levels : k # c => current_sync_block_size'[k] = current_sync_block_size[k]
    BY <1>3, <1>t, <2>1 DEF CountsTyped
  <2>3. QED
    BY <1>0, <1>1, <1>3, <1>4, <2>2 DEF EntersView, InheritViews
<1>7. ~HelperLeaving'
  BY <1>2 DEF HelperLeaving
<1>8. Placed'
  BY <1>6, <1>7, <1>t, EntersPlaced
<1>9. RunningStrand'
  <2>1. frame_head' = frame_head + 1
    BY <1>2 DEF StartNewFunction
  <2>2. QED
    BY <1>2, <1>t, <2>1, RunningKept DEF Placed, StealIInv
<1>10. ViewsTyped'
  <2>1. curr_view_id[h] \in Nat /\ <<LastOf(views[h])>> \in Seq(Strands)
    BY <1>3, <1>5, <1>t DEF ViewsTyped
  <2>2. QED
    BY <1>0, <1>1, <1>5, <1>t, <2>1 DEF InheritViews, ViewsTyped
<1>11. OptionsTyped' /\ PointsTyped'
  BY <1>1, <1>t DEF OptionsTyped, PointsTyped, optionVars, pointVars
<1>12. QED
  BY <1>0, <1>4, <1>6, <1>8, <1>9, <1>10, <1>11 DEF PlacedInv, StealTyped

\* cilk_leave_begin leaves a frame for its parent.
LEMMA LeaveKeeps ==
  ASSUME StealIInv, steal_leave_begin, ~died'
  PROVE  PlacedInv' /\ PopsFrame /\ (ReturnsSpawn \/ ReturnsCall)
<1>0. PICK a : a = MergeTarget(frame_head - 1)
  OBVIOUS
<1>t. BagTyped /\ CountsTyped /\ ViewsTyped /\ OptionsTyped /\ PointsTyped /\ Placed
      /\ EntriesInv
  BY DEF StealIInv, StealTyped, Control
<1>1. /\ cilk_leave_begin /\ ~Die /\ below[frame_head] = <<>>
      /\ view_of' = [view_of EXCEPT ![nstrands + 1] = LastOf(views[frame_head - 1])]
      /\ UNCHANGED <<optionVars, pointVars, below, viewVars, chosen, views>>
  BY DEF steal_leave_begin, StealDie, Die
<1>2. \A k \in Depth : Sbag[k] \in Nodes
  BY <1>t, Ranges DEF Placed, StealBagsDistinct
<1>3. BagTyped' /\ CountsTyped' /\ ReturnsTo(a)
  BY <1>0, <1>1, <1>2, <1>t, LeaveTyped
<1>4. ReturnsSpawn \/ ReturnsCall
  BY <1>3 DEF ReturnsTo
<1>5. LeavesFrame(a) /\ current_sync_block_size' = current_sync_block_size
  BY <1>1, <1>3 DEF ReturnsTo, cilk_leave_begin
<1>6. PopsFrame
  BY <1>1, <1>5 DEF PopsFrame
<1>7. Placed'
  BY <1>4, <1>6, <1>t, ReturnsPlaced
<1>8. /\ frame_head - 1 \in Levels /\ frame_head - 1 \in Depth /\ frame_head' \in Depth
      /\ frame_head' = frame_head - 1
  BY <1>5, <1>t, Ranges DEF LeavesFrame, Depth, Levels
<1>9. RunningStrand'
  <2>1. \E preds : NextStrandAt(frame_head', preds)
    BY <1>4, <1>8 DEF ReturnsSpawn, ReturnsCall
  <2>2. QED
    BY <1>8, <1>t, <2>1, RunningKept DEF Placed, StealIInv
<1>10. ViewsTyped'
  <2>1. views[frame_head - 1] \in Seq(Strands) /\ Len(views[frame_head - 1]) > 0
    BY <1>8, <1>t DEF ViewsTyped, Placed, StacksShaped, Views
  <2>2. LastOf(views[frame_head - 1]) \in Strands
    BY <2>1, FrontFacts
  <2>3. QED
    BY <1>1, <1>t, <2>2 DEF ViewsTyped, viewVars
<1>11. OptionsTyped' /\ PointsTyped'
  BY <1>1, <1>t DEF OptionsTyped, PointsTyped, optionVars, pointVars
<1>12. QED
  BY <1>3, <1>4, <1>6, <1>7, <1>9, <1>10, <1>11 DEF PlacedInv, StealTyped

\* cilk_sync_end joins a frame that has one view and one P-bag left.
LEMMA SyncKeeps ==
  ASSUME StealIInv, steal_sync_end, ~died'
  PROVE  /\ PlacedInv' /\ Depth' = Depth /\ Pbag'[frame_head] = NULL
         /\ \A k \in Depth : k # frame_head => SlotsSame(k)
         /\ Views(frame_head) = 1 /\ UNCHANGED <<viewVars, views, frame_head>>
<1>0. PICK h : h = frame_head
  OBVIOUS
<1>t. BagTyped /\ CountsTyped /\ ViewsTyped /\ OptionsTyped /\ PointsTyped /\ Placed
  BY DEF StealIInv, StealTyped
<1>1. /\ ShiftAsserts(h) /\ Shifted(h) = <<>> /\ cilk_sync_end /\ ~Die
      /\ below' = [below EXCEPT ![h] = <<>>]
      /\ view_of' = [view_of EXCEPT ![nstrands + 1] = views[h][1]]
      /\ UNCHANGED <<optionVars, pointVars, viewVars, chosen, views>>
  BY <1>0 DEF steal_sync_end, StealDie, Die
<1>2. /\ h \in Levels /\ h \in Depth /\ NULL \notin Nodes /\ Depth' = Depth
  BY <1>0, <1>1, <1>t, Ranges DEF cilk_sync_end, Depth
<1>3. /\ Views(h) \in Nat /\ 1 \in 1 .. Views(h) /\ Skipped(h) \in {0, 1} /\ Len(below[h]) \in Nat
      /\ Len(below[h]) = Views(h) - 1 + Skipped(h) /\ below[h] \in Seq(Nodes \cup {NULL})
      /\ \A v \in 1 .. Views(h) : /\ views[h][v] \in Strands
                                  /\ v # Views(h) => Slot(h, v) = below[h][v + Skipped(h)]
  BY <1>2, <1>t, SlotRanges DEF Placed
<1>4. Views(h) = 1
  <2>1. CASE below[h] = <<>>
    <3>1. Len(below[h]) = 0
      BY <2>1
    <3>2. QED
      BY <1>3, <3>1
  <2>2. CASE below[h] # <<>>
    <3>1. below[h] = <<NULL>>
      BY <1>1, <2>2 DEF ShiftAsserts, Shifted
    <3>2. Len(below[h]) = 1 /\ below[h][1] = NULL
      BY <3>1
    <3>3. SUFFICES ASSUME Views(h) # 1 PROVE FALSE
      OBVIOUS
    <3>4. Skipped(h) = 0 /\ Views(h) = 2
      BY <1>3, <3>2, <3>3, SMTT(40)
    <3>5. Slot(h, 1) = NULL
      BY <1>3, <3>2, <3>4
    <3>6. Slot(h, 1) # NULL
      BY <1>2, <1>3, <1>t, <3>4 DEF Placed, StealBagsDistinct
    <3>7. QED
      BY <3>5, <3>6
  <2>3. QED
    BY <2>1, <2>2
<1>5. SyncsFrame /\ current_sync_block_size' = [current_sync_block_size EXCEPT ![h] = 0]
  BY <1>0, <1>1 DEF cilk_sync_end, SyncsFrame, complete_sync
<1>6. Placed' /\ Pbag'[frame_head] = NULL /\ \A k \in Depth : k # frame_head => SlotsSame(k)
  BY <1>0, <1>1, <1>4, <1>5, <1>t, SyncsPlaced
<1>7. BagTyped' /\ CountsTyped'
  <2>1. Sbag[frame_head] \in Nodes
    BY <1>0, <1>2, <1>t, Ranges DEF Placed, StealBagsDistinct
  <2>2. QED
    BY <1>1, <1>t, <2>1, SyncTyped
<1>8. RunningStrand'
  <2>1. frame_head' \in Depth /\ \E preds : NextStrandAt(frame_head', preds)
    BY <1>0, <1>2, <1>5 DEF SyncsFrame
  <2>2. QED
    BY <1>t, <2>1, RunningKept DEF Placed, StealIInv
<1>9. ViewsTyped'
  <2>1. views[h][1] \in Strands /\ <<>> \in Seq(Nodes \cup {NULL})
    BY <1>3
  <2>2. QED
    BY <1>1, <1>t, <2>1 DEF ViewsTyped, viewVars
<1>10. OptionsTyped' /\ PointsTyped'
  BY <1>1, <1>t DEF OptionsTyped, PointsTyped, optionVars, pointVars
<1>11. QED
  BY <1>0, <1>1, <1>2, <1>4, <1>5, <1>6, <1>7, <1>8, <1>9, <1>10
     DEF PlacedInv, StealTyped, SyncsFrame

\* The points of a block are numbers, and so is the index of the next one.
LEMMA PointsInRange ==
  ASSUME OptionsTyped, PointsTyped, NEW f \in Levels, NEW size \in Nat,
         NEW points \in Points(f, size)
  PROVE  /\ \A i \in 1 .. MAX_NUM_STEALS : points[i] \in Nat
         /\ IndexBefore(f, size, points) \in Nat /\ IndexAfter(f, size, points) \in Nat
<1>1. \A i \in 1 .. MAX_NUM_STEALS : points[i] \in Nat
  <2>1. CASE points = steal_points[f]
    BY <2>1 DEF PointsTyped
  <2>2. CASE points \in PointChoices
    <3>1. CASE points = steal_point
      BY <3>1 DEF OptionsTyped
    <3>2. CASE \E b \in {0, 1} : points = <<NOP_STEAL, NOP_STEAL, b>>
      BY <3>2 DEF NOP_STEAL, MAX_NUM_STEALS
    <3>3. CASE points \in SortedTriples(0 .. (max_sync_block_size + 1))
      BY <3>3 DEF SortedTriples, MAX_NUM_STEALS, OptionsTyped
    <3>4. QED
      BY <2>2, <3>1, <3>2, <3>3 DEF PointChoices
  <2>3. QED
    BY <2>1, <2>2 DEF Points
<1>2. IndexBefore(f, size, points) \in Nat
  <2>1. Cardinality({i \in 1 .. MAX_NUM_STEALS : points[i] < size}) \in Nat
    <3>1. IsFiniteSet(1 .. MAX_NUM_STEALS)
      <4>1. 1 \in Int /\ MAX_NUM_STEALS \in Int
        BY DEF MAX_NUM_STEALS
      <4>2. QED
        BY <4>1, FS_Interval
    <3>2. {i \in 1 .. MAX_NUM_STEALS : points[i] < size} \in SUBSET (1 .. MAX_NUM_STEALS)
      OBVIOUS
    <3>3. QED
      BY <3>1, <3>2, FS_Subset, FS_CardinalityType
  <2>2. QED
    BY <2>1 DEF IndexBefore, PointsTyped
<1>3. IndexAfter(f, size, points) \in Nat
  BY <1>2 DEF IndexAfter, PointsTyped
<1>4. QED
  BY <1>1, <1>2, <1>3

\* What cilk_detach_end does to the frames and the views: points choose the
\* continuation or not, and the child is entered in its parent's last view.
DetachesView(h, points, pbag, sbag) ==
  LET size == current_sync_block_size[h] + 1 IN
  /\ Detaches(pbag, sbag)
  /\ points \in Points(h, size) /\ PointAsserts(h, size, points)
  /\ chosen' = [chosen EXCEPT ![entry_head] = IF should_steal(h, size, points)
                                              THEN TRUE ELSE FALSE]
  /\ steal_points' = [steal_points EXCEPT ![h] = points]
  /\ steal_index' = [steal_index EXCEPT ![h] = IndexAfter(h, size, points)]
  /\ below' = IF check_reduce /\ size = 1
              THEN [below EXCEPT ![h] = IF points[1] = NOP_STEAL THEN <<NULL>> ELSE <<>>]
              ELSE below
  /\ bag_view' = IF Pbag[h] = NULL THEN [bag_view EXCEPT ![pbag] = curr_view_id[h]] ELSE bag_view
  /\ below[h + 1] = <<>> /\ InheritViews(h + 1)
  /\ UNCHANGED <<optionVars, view_id>>

\* What it does to the program and its entries.
DetachesEntry ==
  /\ pc = "detaching" /\ pc' = "user" /\ entry_type[entry_head] = "HELPER"
  /\ prog' = [prog EXCEPT ![prog_depth] = "spawned"]
  /\ simulate_steal \/ NoSteal
  /\ UNCHANGED <<entry_head, entry_type, prev_helper, rts_deque_end, youngest_active_helper,
                 prog_depth, context_stack>>

\* cilk_detach_end is those two when its assertions hold.
LEMMA DetachFacts ==
  ASSUME BagTyped, CountsTyped, steal_detach_end, ~died', NEW h, h = frame_head
  PROVE  DetachesEntry /\ \E points, pbag, sbag : DetachesView(h, points, pbag, sbag)
<1>0. PICK sizes, pbag, sbag :
        /\ sizes = [current_sync_block_size EXCEPT ![h] = @ + 1]
        /\ pbag = IF Pbag[h] = NULL THEN dset_size + 1 ELSE Pbag[h]
        /\ sbag = IF Pbag[h] = NULL THEN dset_size + 2 ELSE dset_size + 1
  OBVIOUS
<1>1. sizes[h] = current_sync_block_size[h] + 1
  BY <1>0 DEF CountsTyped, BagTyped
<1>2. PICK points \in Points(h, sizes[h]) :
        /\ entry_type[entry_head] = "HELPER" /\ below[h + 1] = <<>>
        /\ PointAsserts(h, sizes[h], points)
        /\ IF should_steal(h, sizes[h], points) THEN simulate_steal ELSE NoSteal
        /\ steal_points' = [steal_points EXCEPT ![h] = points]
        /\ steal_index' = [steal_index EXCEPT ![h] = IndexAfter(h, sizes[h], points)]
        /\ below' = IF check_reduce /\ sizes[h] = 1
                    THEN [below EXCEPT ![h] = IF points[1] = NOP_STEAL THEN <<NULL>> ELSE <<>>]
                    ELSE below
        /\ Pbag' = [Pbag EXCEPT ![h] = pbag]
        /\ bag_view' = IF Pbag[h] = NULL THEN [bag_view EXCEPT ![pbag] = curr_view_id[h]]
                       ELSE bag_view
        /\ StartNewFunction(sbag, sizes)
        /\ dset_size' = sbag
        /\ kind' = [kind EXCEPT ![pbag] = "P", ![sbag] = "S"]
        /\ sib_sbag' = [sib_sbag EXCEPT ![pbag] = IF Pbag[h] = NULL THEN Sbag[h] ELSE @]
        /\ func_id' = [func_id EXCEPT ![sbag] = frame_id + 1]
        /\ prog' = [prog EXCEPT ![prog_depth] = "spawned"]
        /\ FirstStrandOfChild(sbag)
        /\ InheritViews(h + 1)
        /\ spawned' = [spawned EXCEPT ![h] = @ + 1, ![h + 1] = 0]
        /\ largest' = MaxOf(largest, spawned[h] + 1)
        /\ pending' = pending + 1
        /\ deepest' = MaxOf(deepest, pending + 1)
        /\ pc' = "user"
        /\ UNCHANGED <<entry_head, entry_type, prev_helper, rts_deque_end,
                       youngest_active_helper, set_node, prog_depth, optionVars, view_id,
                       context_stack>>
  BY <1>0 DEF steal_detach_end, StealDie, Die
<1>3. /\ pc = "detaching" /\ frame_head < MaxFrames /\ sbag <= MaxNodes /\ nstrands < MaxStrands
  BY <1>0 DEF steal_detach_end
<1>4. Detaches(pbag, sbag)
  BY <1>0, <1>2, <1>3 DEF Detaches
<1>5. chosen' = [chosen EXCEPT ![entry_head] = IF should_steal(h, sizes[h], points)
                                               THEN TRUE ELSE FALSE]
  BY <1>2 DEF simulate_steal, NoSteal
<1>6. DetachesView(h, points, pbag, sbag)
  BY <1>1, <1>2, <1>4, <1>5 DEF DetachesView
<1>7. DetachesEntry
  BY <1>2, <1>3 DEF DetachesEntry
<1>8. QED
  BY <1>6, <1>7

\* cilk_detach_end keeps types and places.
LEMMA DetachKeeps ==
  ASSUME StealIInv, NEW h, h = frame_head, NEW points, NEW pbag, NEW sbag,
         DetachesView(h, points, pbag, sbag), DetachesEntry
  PROVE  PlacedInv' /\ EntersView(sbag, pbag) /\ pbag \in Nodes
<1>0. PICK c, size : c = frame_head + 1 /\ size = current_sync_block_size[frame_head] + 1
  OBVIOUS
<1>t. BagTyped /\ CountsTyped /\ ViewsTyped /\ OptionsTyped /\ PointsTyped /\ Placed
  BY DEF StealIInv, StealTyped
<1>1. /\ Detaches(pbag, sbag) /\ below[c] = <<>> /\ InheritViews(c)
      /\ below' = IF check_reduce /\ size = 1
                  THEN [below EXCEPT ![h] = IF points[1] = NOP_STEAL THEN <<NULL>> ELSE <<>>]
                  ELSE below
      /\ bag_view' = IF Pbag[h] = NULL THEN [bag_view EXCEPT ![pbag] = curr_view_id[h]]
                     ELSE bag_view
      /\ chosen' = [chosen EXCEPT ![entry_head] = IF should_steal(h, size, points)
                                                  THEN TRUE ELSE FALSE]
      /\ steal_points' = [steal_points EXCEPT ![h] = points]
      /\ steal_index' = [steal_index EXCEPT ![h] = IndexAfter(h, size, points)]
      /\ points \in Points(h, size)
      /\ UNCHANGED <<optionVars, view_id>>
  BY <1>0 DEF DetachesView
<1>2. /\ frame_head < MaxFrames
      /\ StartNewFunction(sbag, [current_sync_block_size EXCEPT ![h] = size])
      /\ FirstStrandOfChild(sbag)
  BY <1>0, <1>1 DEF Detaches
<1>3. /\ h \in Levels /\ c \in Levels /\ h \in Depth /\ h # c /\ size \in Nat /\ size # 0
      /\ Pbag[h] # NULL => Pbag[h] \in 1 .. dset_size
      /\ views[h] \in Seq(Strands) /\ Len(views[h]) > 0 /\ Sbag[h] \in Nodes
      /\ size = 1 => Views(h) = 1
  <2>1. h \in Levels /\ c \in Levels /\ h \in Depth /\ h # c
    BY <1>0, <1>2, <1>t, Ranges DEF Levels
  <2>2. /\ Views(h) \in 1 .. Views(h) /\ Slot(h, Views(h)) = Pbag[h] /\ views[h] \in Seq(Strands)
        /\ Views(h) \in Nat /\ Skipped(h) \in {0, 1}
        /\ Len(below[h]) = Views(h) - 1 + Skipped(h)
    BY <1>t, <2>1, SlotRanges DEF Placed
  <2>3. Len(views[h]) > 0
    BY <1>t, <2>1 DEF Placed, StacksShaped, Views
  <2>4. current_sync_block_size[h] \in Nat /\ size \in Nat /\ size # 0
    BY <1>0, <1>t, <2>1 DEF CountsTyped
  <2>5. size = 1 => Views(h) = 1
    <3>1. SUFFICES ASSUME size = 1 PROVE Views(h) = 1
      OBVIOUS
    <3>2. current_sync_block_size[h] = 0
      BY <1>0, <2>4, <3>1
    <3>3. below[h] = <<>>
      BY <1>t, <2>1, <3>2 DEF Placed, StacksShaped
    <3>4. Len(below[h]) = 0
      BY <3>3
    <3>5. QED
      BY <2>2, <3>4
  <2>6. Sbag[h] \in Nodes
    BY <1>t, <2>1, Ranges DEF Placed, StealBagsDistinct
  <2>7. Pbag[h] # NULL => Pbag[h] \in 1 .. dset_size
    BY <1>t, <2>1, <2>2 DEF Placed, StealBagsDistinct
  <2>8. QED
    BY <2>1, <2>2, <2>3, <2>4, <2>5, <2>6, <2>7
<1>4. BagTyped' /\ CountsTyped' /\ EntersFrame(sbag, pbag) /\ pbag \in Nodes
  BY <1>1, <1>3, <1>t, DetachTyped
<1>5. LastOf(views[h]) \in Strands
  BY <1>3, FrontFacts
<1>6. EntersView(sbag, pbag)
  <2>1. current_sync_block_size' = [current_sync_block_size EXCEPT ![h] = size, ![c] = 0]
    BY <1>0, <1>2 DEF StartNewFunction
  <2>2. /\ \A k \in Levels : k # h /\ k # c =>
             current_sync_block_size'[k] = current_sync_block_size[k]
        /\ current_sync_block_size'[h] = size
    BY <1>3, <1>t, <2>1 DEF CountsTyped
  <2>3. /\ \A k \in Levels : k # h => below'[k] = below[k]
        /\ below'[h] = below[h] \/ (Views(h) = 1 /\ below'[h] \in {<<>>, <<NULL>>})
    BY <1>1, <1>3, <1>t DEF ViewsTyped
  <2>4. QED
    BY <1>0, <1>1, <1>3, <1>4, <2>2, <2>3 DEF EntersView, InheritViews
<1>7. ~HelperLeaving'
  BY DEF DetachesEntry, HelperLeaving
<1>8. Placed'
  BY <1>6, <1>7, <1>t, EntersPlaced
<1>9. RunningStrand'
  <2>1. frame_head' = frame_head + 1
    BY <1>2 DEF StartNewFunction
  <2>2. QED
    BY <1>2, <1>t, <2>1, RunningKept DEF Placed, StealIInv
<1>10. ViewsTyped'
  <2>1. curr_view_id[h] \in Nat /\ <<LastOf(views[h])>> \in Seq(Strands)
    BY <1>3, <1>5, <1>t DEF ViewsTyped
  <2>2. below' \in [Levels -> Seq(Nodes \cup {NULL})]
    <3>1. <<>> \in Seq(Nodes \cup {NULL}) /\ <<NULL>> \in Seq(Nodes \cup {NULL})
      OBVIOUS
    <3>2. QED
      BY <1>1, <1>t, <3>1 DEF ViewsTyped
  <2>3. bag_view' \in [Nodes -> Nat]
    BY <1>1, <1>4, <1>t, <2>1 DEF ViewsTyped
  <2>4. QED
    BY <1>0, <1>1, <1>5, <1>t, <2>1, <2>2, <2>3 DEF InheritViews, ViewsTyped
<1>11. OptionsTyped' /\ PointsTyped'
  <2>1. /\ \A i \in 1 .. MAX_NUM_STEALS : points[i] \in Nat
        /\ IndexAfter(h, size, points) \in Nat
    BY <1>1, <1>3, <1>t, PointsInRange
  <2>2. PointsTyped'
    BY <1>1, <1>3, <1>t, <2>1 DEF PointsTyped
  <2>3. QED
    BY <1>1, <1>t, <2>2 DEF OptionsTyped, optionVars
<1>12. QED
  BY <1>4, <1>6, <1>8, <1>9, <1>10, <1>11 DEF PlacedInv, StealTyped

\* A helper is left: leave_end, or leave_stolen in a return the runtime has
\* taken over.
LeavesHelper ==
  /\ steal_leave_end_helper \/ __cilksan_do_leave_stolen_callback
  /\ ~died'

\* That pops the entry of a helper that has detached, and goes on in the
\* spawner in a new view or in the old one, as was chosen at the detach.
LEMMA LeaveHelperFacts ==
  ASSUME StealIInv, LeavesHelper, NEW h, h = frame_head
  PROVE  /\ LeaveHelper /\ ViewAsserts(h) /\ HelperLeaving /\ ~HelperLeaving'
         /\ pc \in {"leaving", "returning"} /\ pc' \in {"user", "resuming"}
         /\ pc = "returning" => to_reduce = 0
         /\ prog[prog_depth] = "spawned" /\ entry_head = prog_depth
         /\ prog_depth \in 1 .. prog_depth /\ prog_depth \in Nat
         /\ FrameAt(prog_depth) = h + 1 /\ FrameAt(prog_depth - 1) = h
         /\ \A i \in 0 .. (prog_depth - 1) : FrameAt(i) \in Nat /\ FrameAt(i) <= h
         /\ Pbag[h] # NULL /\ h \in Depth /\ h \in Nat
         /\ chosen[entry_head] <=> next_continuation_was_stolen(h)
<1>t. BagTyped /\ EntriesInv /\ StealShape /\ StealPhases /\ TopsCurrent /\ ChoicesKept
  BY DEF StealIInv, StealTyped, Control
<1>1. /\ LeaveHelper /\ ViewAsserts(h) /\ pc \in {"leaving", "returning"}
      /\ pc' \in {"user", "resuming"}
      /\ pc = "leaving" => entry_type[entry_head] = "HELPER"
      /\ pc = "returning" => to_reduce = 0
  BY DEF LeavesHelper, steal_leave_end_helper, __cilksan_do_leave_stolen_callback, StealDie, Die
<1>2. /\ entry_head = prog_depth /\ prog[prog_depth] = "spawned"
      /\ entry_type[entry_head] = "HELPER"
  <2>1. pc = "returning" => prog[prog_depth] = "spawned"
    BY <1>t DEF StealPhases
  <2>2. pc = "leaving" => prog[prog_depth] \in {"cilk", "spawned"}
    BY <1>t DEF StealPhases
  <2>3. /\ entry_head = prog_depth
        /\ entry_type[entry_head] = "HELPER" <=> prog[prog_depth] \in {"helper", "spawned"}
    BY <1>t, TopIsHelper
  <2>4. QED
    BY <1>1, <2>1, <2>2, <2>3
<1>3. HelperLeaving /\ ~HelperLeaving'
  BY <1>1, <1>2 DEF HelperLeaving
<1>4. /\ prog_depth \in 1 .. prog_depth /\ FrameAt(prog_depth - 1) = FrameAt(prog_depth) - 1
      /\ \A i \in 0 .. (prog_depth - 1) : FrameAt(i) \in Nat /\ FrameAt(i) < FrameAt(prog_depth)
      /\ prog_depth \in Nat
  BY <1>2, <1>t, TopEntry, EntryRanges DEF StealShape
<1>5. FrameAt(prog_depth) = h + 1 /\ h \in Nat /\ h \in Depth
  BY <1>1, <1>t, Ranges DEF StealShape, FramePopped
<1>6. \A i \in 0 .. (prog_depth - 1) : FrameAt(i) \in Nat /\ FrameAt(i) <= h
  BY <1>4, <1>5
<1>7. FrameAt(prog_depth - 1) = h /\ FrameAt(prog_depth) - 1 = h
  BY <1>4, <1>5
<1>8. chosen[entry_head] <=> next_continuation_was_stolen(h)
  BY <1>2, <1>4, <1>7, <1>t DEF ChoicesKept
<1>9. Pbag[h] # NULL
  BY <1>3, <1>t DEF TopsCurrent
<1>10. QED
  BY <1>1, <1>2, <1>3, <1>4, <1>5, <1>6, <1>7, <1>8, <1>9

\* Leaving a helper keeps types and places.
LEMMA LeaveHelperKeeps ==
  ASSUME StealIInv, LeavesHelper
  PROVE  /\ PlacedInv'
         /\ IF next_continuation_was_stolen(frame_head) THEN StartsView ELSE QuietStep
         /\ UNCHANGED <<optionVars, pointVars, frame_head, current_sync_block_size>>
         /\ chosen' = [chosen EXCEPT ![entry_head] = FALSE]
<1>t. BagTyped /\ CountsTyped /\ ViewsTyped /\ OptionsTyped /\ PointsTyped /\ Placed
  BY DEF StealIInv, StealTyped
<1>0. PICK h : h = frame_head
  OBVIOUS
<1>1. /\ LeaveHelper /\ HelperLeaving /\ ~HelperLeaving' /\ Pbag[h] # NULL
      /\ chosen[entry_head] <=> next_continuation_was_stolen(h)
      /\ h \in Levels
  BY <1>0, <1>t, LeaveHelperFacts, Ranges
<1>2. /\ UNCHANGED <<optionVars, pointVars, frame_head, current_sync_block_size, Sbag,
                     init_cont_depth, frame_id, statVars, dsetVars, dagVars, countVars,
                     bag_view>>
      /\ chosen' = [chosen EXCEPT ![entry_head] = FALSE]
      /\ update_reducer_view(h) /\ StartView(h)
  BY <1>0, <1>1 DEF LeaveHelper
<1>3. chosen' \in [Entries -> BOOLEAN]
  BY <1>2, <1>t DEF PointsTyped
<1>4. CASE next_continuation_was_stolen(h)
  <2>1. StartsView
    BY <1>0, <1>1, <1>2, <1>4 DEF StartsView, update_reducer_view, StartView
  <2>2. PICK n : n = Views(frame_head)
    OBVIOUS
  <2>3. StartedSlots(h, n)
    BY <1>0, <1>1, <1>t, <2>1, <2>2, StartsSlots
  <2>4. Placed'
    BY <1>0, <1>1, <1>t, <2>1, <2>3, StartsPlaced DEF StealIInv
  <2>5. RunningStrand'
    BY <1>2, <1>t, RunningKept DEF Placed, StealIInv
  <2>6. BagTyped'
    <3>1. Pbag' \in [Levels -> Nodes \cup {NULL}]
      BY <1>t, <2>1 DEF StartsView, BagTyped
    <3>2. QED
      BY <1>2, <1>t, <3>1 DEF BagTyped, dsetVars, dagVars
  <2>7. CountsTyped' /\ OptionsTyped' /\ PointsTyped'
    BY <1>2, <1>3, <1>t DEF CountsTyped, OptionsTyped, PointsTyped, optionVars, pointVars,
                            statVars, countVars, dagVars, dsetVars
  <2>8. ViewsTyped'
    <3>1. /\ below[h] \in Seq(Nodes \cup {NULL}) /\ views[h] \in Seq(Strands)
          /\ Pbag[h] \in Nodes \cup {NULL} /\ nstrands \in Strands /\ view_id \in Nat
      BY <1>1, <1>t DEF ViewsTyped, BagTyped
    <3>2. Append(below[h], Pbag[h]) \in Seq(Nodes \cup {NULL}) /\ Append(views[h], nstrands) \in Seq(Strands)
      BY <3>1, AppendFacts
    <3>3. /\ curr_view_id' = [curr_view_id EXCEPT ![h] = view_id] /\ view_id' = view_id + 1
          /\ below' = [below EXCEPT ![h] = Append(@, Pbag[h])]
          /\ views' = [views EXCEPT ![h] = Append(@, nstrands)]
          /\ view_of' = [view_of EXCEPT ![nstrands] = nstrands]
      BY <1>0, <1>2, <1>4, <2>1 DEF update_reducer_view, ViewIdTaken, StartsView
    <3>4. view_id' \in Nat /\ curr_view_id' \in [Levels -> Nat]
      <4>1. view_id' \in Nat
        BY <3>1, <3>3
      <4>2. curr_view_id' \in [Levels -> Nat]
        BY <1>t, <3>1, <3>3 DEF ViewsTyped
      <4>3. QED
        BY <4>1, <4>2
    <3>5. QED
      BY <1>2, <1>t, <3>1, <3>2, <3>3, <3>4 DEF ViewsTyped
  <2>9. QED
    BY <1>0, <1>2, <1>4, <2>1, <2>4, <2>5, <2>6, <2>7, <2>8 DEF PlacedInv, StealTyped
<1>5. CASE ~next_continuation_was_stolen(h)
  <2>1. QuietStep
    BY <1>1, <1>2, <1>5 DEF update_reducer_view, StartView, QuietStep, bagVars, frameVars, viewVars
  <2>2. PlacedInv'
    BY <1>2, <1>3, <2>1, QuietKeeps DEF PlacedInv, StealIInv
  <2>3. QED
    BY <1>0, <1>2, <1>5, <2>1, <2>2
<1>6. QED
  BY <1>4, <1>5

-----------------------------------------------------------------------------
(***************************************************************************)
(* What an id names.                                                       *)
(***************************************************************************)
\* Ids name what they named while no view and no P-bag gets one.
LEMMA NamesFewer ==
  ASSUME Depth' \subseteq Depth, UNCHANGED <<views, curr_view_id, bag_view>>,
         \A k \in Depth' : \A v \in 1 .. Views(k)' :
           Slot(k, v)' # NULL => v \in 1 .. Views(k) /\ Slot(k, v)' = Slot(k, v),
         NEW id, NEW w, Names(id, w)'
  PROVE  Names(id, w)
<1>1. PICK k \in Depth' :
        \/ id = curr_view_id'[k] /\ w = LastOf(views'[k])
        \/ \E v \in 1 .. Views(k)' :
             Slot(k, v)' # NULL /\ id = bag_view'[Slot(k, v)'] /\ w = views'[k][v]
  BY DEF Names, LastOf
<1>2. k \in Depth
  OBVIOUS
<1>3. CASE id = curr_view_id'[k] /\ w = LastOf(views'[k])
  BY <1>2, <1>3 DEF Names
<1>4. ASSUME NEW v \in 1 .. Views(k)', Slot(k, v)' # NULL, id = bag_view'[Slot(k, v)'],
             w = views'[k][v]
      PROVE  Names(id, w)
  <2>1. v \in 1 .. Views(k) /\ Slot(k, v) # NULL /\ id = bag_view[Slot(k, v)] /\ w = views[k][v]
    BY <1>4
  <2>2. QED
    BY <1>2, <2>1 DEF Names
<1>5. QED
  BY <1>1, <1>3, <1>4

\* Then each names one view only, as before.
LEMMA IdsKept ==
  ASSUME IdsNameViews, view_id' = view_id,
         \A id, w : Names(id, w)' => Names(id, w),
         \A k \in Levels : curr_view_id'[k] < view_id, \A n \in Nodes : bag_view'[n] < view_id
  PROVE  IdsNameViews'
<1>1. ASSUME NEW id \in 0 .. view_id', NEW w \in Strands, NEW x \in Strands,
             Names(id, w)', Names(id, x)'
      PROVE  w = x
  <2>1. Names(id, w) /\ Names(id, x) /\ id \in 0 .. view_id
    BY <1>1
  <2>2. QED
    BY <2>1 DEF IdsNameViews
<1>2. QED
  BY <1>1 DEF IdsNameViews

\* A quiet handler changes no name.
LEMMA QuietIds ==
  ASSUME PlacedInv, QuietStep, IdsNameViews
  PROVE  IdsNameViews'
<1>1. /\ Depth' = Depth /\ UNCHANGED <<views, curr_view_id, bag_view, view_id>>
      /\ \A k \in Depth : SlotsSame(k)
  BY QuietPlaced DEF PlacedInv, StealTyped, QuietStep, viewVars
<1>2. \A k \in Depth' : \A v \in 1 .. Views(k)' :
        Slot(k, v)' # NULL => v \in 1 .. Views(k) /\ Slot(k, v)' = Slot(k, v)
  BY <1>1 DEF SlotsSame
<1>3. \A id, w : Names(id, w)' => Names(id, w)
  BY <1>1, <1>2, NamesFewer
<1>4. QED
  BY <1>1, <1>3, IdsKept DEF IdsNameViews

\* An id that names a view has been taken.
LEMMA NamesTaken ==
  ASSUME PlacedInv, IdsNameViews, NEW id, NEW w, Names(id, w)
  PROVE  id \in Nat /\ id < view_id /\ id \in 0 .. view_id /\ view_id \in Nat
<1>t. ViewsTyped /\ BagTyped /\ StealBagsDistinct
  BY DEF PlacedInv, StealTyped, Placed
<1>1. \A k \in Depth : k \in Levels /\ curr_view_id[k] \in Nat /\ curr_view_id[k] < view_id
  BY <1>t, Ranges DEF ViewsTyped, IdsNameViews
<1>2. \A n \in Nodes : bag_view[n] \in Nat /\ bag_view[n] < view_id
  BY <1>t DEF ViewsTyped, IdsNameViews
<1>3. PICK k \in Depth :
        \/ id = curr_view_id[k]
        \/ \E v \in 1 .. Views(k) : Slot(k, v) # NULL /\ id = bag_view[Slot(k, v)]
  BY DEF Names
<1>4. \A v \in 1 .. Views(k) : Slot(k, v) # NULL => Slot(k, v) \in Nodes
  BY <1>t, Ranges DEF StealBagsDistinct
<1>5. id \in Nat /\ id < view_id
  BY <1>1, <1>2, <1>3, <1>4
<1>6. view_id \in Nat
  BY <1>t DEF ViewsTyped
<1>7. QED
  BY <1>5, <1>6

\* Ids name one view each after a step that gives one id another view.
LEMMA IdMoved ==
  ASSUME PlacedInv, IdsNameViews, NEW newId, NEW newView,
         \A id, w : Names(id, w)' => \/ Names(id, w) /\ id # newId
                                     \/ id = newId /\ w = newView,
         \A k \in Levels : curr_view_id'[k] < view_id', \A n \in Nodes : bag_view'[n] < view_id'
  PROVE  IdsNameViews'
<1>1. ASSUME NEW id \in 0 .. view_id', NEW w \in Strands, NEW x \in Strands,
             Names(id, w)', Names(id, x)'
      PROVE  w = x
  <2>1. CASE id = newId
    BY <1>1, <2>1
  <2>2. CASE id # newId
    <3>1. Names(id, w) /\ Names(id, x)
      BY <1>1, <2>2
    <3>2. id \in 0 .. view_id
      BY <3>1, NamesTaken
    <3>3. QED
      BY <3>1, <3>2 DEF IdsNameViews
  <2>3. QED
    BY <2>1, <2>2
<1>2. QED
  BY <1>1 DEF IdsNameViews

\* A merge leaves no P-bag in the view that is gone, and the id of that view
\* goes to the one it joined.
LEMMA MergeIds ==
  ASSUME PlacedInv, IdsNameViews, MergesTop
  PROVE  IdsNameViews'
<1>0. PICK h, n : h = frame_head /\ n = Views(frame_head)
  OBVIOUS
<1>t. BagTyped /\ ViewsTyped /\ Placed /\ StacksShaped /\ ViewsDistinct
  BY DEF PlacedInv, StealTyped, Placed
<1>1. UNCHANGED <<curr_view_id, bag_view, view_id>> /\ Depth' = Depth
  BY DEF MergesTop, viewVars, Depth
<1>2. /\ \A k \in Levels : curr_view_id'[k] < view_id /\ curr_view_id'[k] < view_id'
      /\ \A m \in Nodes : bag_view'[m] < view_id /\ bag_view'[m] < view_id'
  BY <1>1 DEF IdsNameViews
<1>3. CASE n = 1
  <2>1. UNCHANGED views /\ \A k \in Depth : SlotsSame(k)
    BY <1>0, <1>3, <1>t, PopsSkipped
  <2>2. \A k \in Depth' : \A v \in 1 .. Views(k)' :
          Slot(k, v)' # NULL => v \in 1 .. Views(k) /\ Slot(k, v)' = Slot(k, v)
    BY <1>1, <2>1 DEF SlotsSame
  <2>3. \A id, w : Names(id, w)' => Names(id, w)
    BY <1>1, <2>1, <2>2, NamesFewer
  <2>4. QED
    BY <1>1, <1>2, <2>3, IdsKept
<1>4. CASE n # 1
  <2>1. MergedSlots(h, n)
    BY <1>0, <1>4, <1>t, MergesSlots
  <2>2. /\ h \in Depth /\ h \in Levels /\ \A k \in Depth : k <= h
        /\ n \in Nat /\ n > 1 /\ n = Views(h) /\ n \in 1 .. n /\ n - 1 \in 1 .. (n - 1)
        /\ Views(h)' = n - 1
        /\ \A v \in 1 .. (n - 1) : /\ v \in 1 .. n /\ v # n
                                   /\ views'[h][v] = views[h][v] /\ Slot(h, v)' = Slot(h, v)
        /\ LastOf(views[h]) = views[h][n] /\ LastOf(views'[h]) = views[h][n - 1]
        /\ \A k \in Depth : k # h => SlotsSame(k)
    BY <2>1 DEF MergedSlots
\* What a frame names after the step, and that it is no longer the view that
\* is gone.
  <2>3. ASSUME NEW k \in Depth, NEW v \in 1 .. Views(k), k # h \/ v # n
        PROVE  views[k][v] # views[h][n]
    <3>1. Views(k) \in Nat /\ k \in Int /\ h \in Int
      BY <1>t, <2>2, SlotRanges, Ranges DEF Depth
    <3>2. (k < h /\ 1 < n) \/ (k = h /\ v < n)
      BY <2>2, <2>3, <3>1
    <3>3. QED
      BY <1>t, <2>2, <3>2 DEF ViewsDistinct
  <2>4. ASSUME NEW k \in Depth, NEW v \in 1 .. Views(k)'
        PROVE  /\ v \in 1 .. Views(k) /\ views'[k][v] = views[k][v] /\ Slot(k, v)' = Slot(k, v)
               /\ k # h \/ v # n
    BY <2>2 DEF SlotsSame
  <2>5. ASSUME NEW k \in Depth
        PROVE  /\ LastOf(views'[k]) # views[h][n]
               /\ k # h => LastOf(views'[k]) = LastOf(views[k])
    <3>1. CASE k = h
      <4>1. n - 1 \in 1 .. Views(h) /\ n - 1 # n
        BY <2>2
      <4>2. QED
        BY <2>2, <2>3, <3>1, <4>1
    <3>2. CASE k # h
      <4>1. views'[k] = views[k]
        BY <2>2, <3>2 DEF SlotsSame
      <4>2. LastOf(views[k]) = views[k][Views(k)] /\ Views(k) \in 1 .. Views(k)
        BY <1>t, SlotRanges
      <4>3. views[k][Views(k)] # views[h][n]
        BY <2>3, <3>2, <4>2
      <4>4. LastOf(views'[k]) = LastOf(views[k])
        BY <4>1
      <4>5. QED
        BY <3>2, <4>2, <4>3, <4>4
    <3>3. QED
      BY <3>1, <3>2
  <2>6. ASSUME NEW id, NEW w, Names(id, w)'
        PROVE  /\ w # views[h][n]
               /\ Names(id, w) \/ (id = curr_view_id[h] /\ w = views[h][n - 1])
    <3>1. PICK k \in Depth :
            \/ id = curr_view_id[k] /\ w = LastOf(views'[k])
            \/ \E v \in 1 .. Views(k)' :
                 Slot(k, v)' # NULL /\ id = bag_view[Slot(k, v)'] /\ w = views'[k][v]
      BY <1>1, <2>6 DEF Names, LastOf
    <3>2. CASE id = curr_view_id[k] /\ w = LastOf(views'[k])
      <4>1. CASE k = h
        BY <2>2, <2>5, <3>2, <4>1
      <4>2. CASE k # h
        <5>1. w = LastOf(views[k]) /\ w # views[h][n]
          BY <2>5, <3>2, <4>2
        <5>2. QED
          BY <3>2, <5>1 DEF Names
      <4>3. QED
        BY <4>1, <4>2
    <3>3. ASSUME NEW v \in 1 .. Views(k)', Slot(k, v)' # NULL, id = bag_view[Slot(k, v)'],
                 w = views'[k][v]
          PROVE  w # views[h][n] /\ Names(id, w)
      <4>1. v \in 1 .. Views(k) /\ w = views[k][v] /\ Slot(k, v) # NULL /\ id = bag_view[Slot(k, v)]
            /\ (k # h \/ v # n)
        BY <2>4, <3>3
      <4>2. w # views[h][n]
        BY <2>3, <4>1
      <4>3. Names(id, w)
        BY <4>1 DEF Names
      <4>4. QED
        BY <4>2, <4>3
    <3>4. QED
      BY <3>1, <3>2, <3>3
  <2>7. ASSUME NEW id, NEW w, Names(id, w)'
        PROVE  \/ Names(id, w) /\ id # curr_view_id[h]
               \/ id = curr_view_id[h] /\ w = views[h][n - 1]
    <3>1. SUFFICES ASSUME Names(id, w), id = curr_view_id[h] PROVE FALSE
      BY <2>6, <2>7
    <3>2. Names(id, views[h][n])
      BY <2>2, <3>1 DEF Names
    <3>3. id \in 0 .. view_id
      BY <3>1, NamesTaken
    <3>4. w \in Strands /\ views[h][n] \in Strands
      <4>1. \A k \in Depth : \A v \in 1 .. Views(k) : views[k][v] \in Strands
        BY <1>t, SlotRanges
      <4>2. \A k \in Depth : LastOf(views[k]) = views[k][Views(k)] /\ Views(k) \in 1 .. Views(k)
        BY <1>t, SlotRanges
      <4>3. w \in Strands
        BY <3>1, <4>1, <4>2 DEF Names
      <4>4. QED
        BY <2>2, <4>1, <4>3
    <3>5. w = views[h][n]
      BY <3>1, <3>2, <3>3, <3>4 DEF IdsNameViews
    <3>6. QED
      BY <2>6, <2>7, <3>5
  <2>8. PICK newId, newView : newId = curr_view_id[h] /\ newView = views[h][n - 1]
    OBVIOUS
  <2>9. \A id, w : Names(id, w)' => \/ Names(id, w) /\ id # newId
                                    \/ id = newId /\ w = newView
    BY <2>7, <2>8
  <2>10. QED
    BY <1>2, <2>9, IdMoved
<1>5. QED
  BY <1>3, <1>4

\* A stolen continuation takes the next id for its new view; the P-bag of the
\* view it leaves keeps the old one.
LEMMA StartIds ==
  ASSUME PlacedInv, IdsNameViews, StartsView, Pbag[frame_head] # NULL,
         curr_view_id' = [curr_view_id EXCEPT ![frame_head] = view_id],
         view_id' = view_id + 1, UNCHANGED bag_view
  PROVE  IdsNameViews'
<1>0. PICK h, n : h = frame_head /\ n = Views(frame_head)
  OBVIOUS
<1>t. BagTyped /\ ViewsTyped /\ Placed /\ StacksShaped
  BY DEF PlacedInv, StealTyped, Placed
<1>1. StartedSlots(h, n)
  BY <1>0, <1>t, StartsSlots
<1>2. /\ h \in Depth /\ h \in Levels /\ n \in Nat /\ n = Views(h) /\ Views(h)' = n + 1
      /\ \A v \in 1 .. n : views'[h][v] = views[h][v] /\ Slot(h, v)' = Slot(h, v)
      /\ Slot(h, n + 1)' = NULL /\ LastOf(views'[h]) = nstrands
      /\ \A k \in Depth : k # h => SlotsSame(k)
  BY <1>1 DEF StartedSlots
<1>3. /\ curr_view_id'[h] = view_id
      /\ \A k \in Levels : k # h => curr_view_id'[k] = curr_view_id[k]
      /\ Depth' = Depth /\ Depth \subseteq Levels /\ view_id \in Nat
  BY <1>0, <1>2, <1>t, Ranges DEF ViewsTyped, StartsView, Depth
<1>4. /\ \A k \in Levels : curr_view_id'[k] < view_id'
      /\ \A m \in Nodes : bag_view'[m] < view_id'
  <2>1. \A k \in Levels : curr_view_id[k] \in Nat /\ curr_view_id[k] < view_id
    BY <1>t DEF ViewsTyped, IdsNameViews
  <2>2. \A m \in Nodes : bag_view[m] \in Nat /\ bag_view[m] < view_id
    BY <1>t DEF ViewsTyped, IdsNameViews
  <2>3. \A k \in Levels : curr_view_id'[k] < view_id + 1
    BY <1>2, <1>3, <2>1
  <2>4. \A m \in Nodes : bag_view'[m] < view_id + 1
    BY <1>3, <2>2
  <2>5. QED
    BY <2>3, <2>4
<1>5. ASSUME NEW id, NEW w, Names(id, w)'
      PROVE  \/ Names(id, w) /\ id # view_id
             \/ id = view_id /\ w = nstrands
  <2>1. PICK k \in Depth :
          \/ id = curr_view_id'[k] /\ w = LastOf(views'[k])
          \/ \E v \in 1 .. Views(k)' :
               Slot(k, v)' # NULL /\ id = bag_view[Slot(k, v)'] /\ w = views'[k][v]
    BY <1>3, <1>5 DEF Names, LastOf
  <2>2. Names(id, w) => id # view_id
    <3>1. SUFFICES ASSUME Names(id, w) PROVE id # view_id
      OBVIOUS
    <3>2. id \in Nat /\ id < view_id
      BY <3>1, NamesTaken
    <3>3. QED
      BY <1>3, <3>2
  <2>3. CASE id = curr_view_id'[k] /\ w = LastOf(views'[k])
    <3>1. CASE k = h
      BY <1>2, <1>3, <2>3, <3>1
    <3>2. CASE k # h
      <4>1. views'[k] = views[k] /\ id = curr_view_id[k]
        BY <1>2, <1>3, <2>3, <3>2 DEF SlotsSame
      <4>2. w = LastOf(views[k])
        BY <2>3, <4>1
      <4>3. Names(id, w)
        BY <4>1, <4>2 DEF Names
      <4>4. QED
        BY <2>2, <4>3
    <3>3. QED
      BY <3>1, <3>2
  <2>4. ASSUME NEW v \in 1 .. Views(k)', Slot(k, v)' # NULL, id = bag_view[Slot(k, v)'],
               w = views'[k][v]
        PROVE  Names(id, w)
    <3>1. v \in 1 .. Views(k) /\ Slot(k, v)' = Slot(k, v) /\ views'[k][v] = views[k][v]
      <4>1. CASE k = h
        <5>1. v # n + 1 /\ v \in 1 .. (n + 1)
          BY <1>2, <2>4, <4>1
        <5>2. v \in 1 .. n
          BY <1>2, <5>1
        <5>3. QED
          BY <1>2, <4>1, <5>2
      <4>2. CASE k # h
        BY <1>2, <4>2 DEF SlotsSame
      <4>3. QED
        BY <4>1, <4>2
    <3>2. Slot(k, v) # NULL /\ id = bag_view[Slot(k, v)] /\ w = views[k][v]
      BY <2>4, <3>1
    <3>3. QED
      BY <3>1, <3>2 DEF Names
  <2>5. QED
    BY <2>1, <2>2, <2>3, <2>4
<1>6. PICK newId, newView : newId = view_id /\ newView = nstrands
  OBVIOUS
<1>7. \A id, w : Names(id, w)' => \/ Names(id, w) /\ id # newId
                                  \/ id = newId /\ w = newView
  BY <1>5, <1>6
<1>8. QED
  BY <1>4, <1>7, IdMoved

\* A frame entered carries its caller's id, and so does a new P-bag of the
\* caller.
LEMMA EnterIds ==
  ASSUME PlacedInv, IdsNameViews, NEW sbag, NEW pbag, EntersView(sbag, pbag),
         InheritViews(frame_head + 1), UNCHANGED view_id,
         \/ bag_view' = bag_view /\ pbag = Pbag[frame_head]
         \/ /\ Pbag[frame_head] = NULL /\ pbag \in Nodes /\ dset_size < pbag
            /\ bag_view' = [bag_view EXCEPT ![pbag] = curr_view_id[frame_head]]
  PROVE  IdsNameViews'
<1>0. PICK h, c : h = frame_head /\ c = frame_head + 1
  OBVIOUS
<1>t. BagTyped /\ ViewsTyped /\ Placed /\ StacksShaped /\ StealBagsDistinct
  BY DEF PlacedInv, StealTyped, Placed
<1>1. EnteredSlots(h, c, pbag)
  BY <1>0, <1>t, EntersSlots
<1>2. /\ \A k \in Depth : k # h => SlotsSame(k)
      /\ Views(h)' = Views(h) /\ views'[h] = views[h]
      /\ \A v \in 1 .. Views(h) : Slot(h, v)' = IF v = Views(h) THEN pbag ELSE Slot(h, v)
      /\ Views(c)' = 1 /\ views'[c][1] = LastOf(views[h]) /\ Slot(c, 1)' = NULL
  BY <1>1 DEF EnteredSlots
<1>3. /\ h \in Depth /\ h \in Levels /\ c \in Levels /\ c \notin Depth /\ Depth' = Depth \cup {c}
      /\ Depth \subseteq Levels
      /\ frame_head < MaxFrames
  BY <1>0, <1>t, Ranges DEF EntersView, EntersFrame, Depth, Levels
<1>4. /\ curr_view_id'[c] = curr_view_id[h]
      /\ \A k \in Levels : k # c => curr_view_id'[k] = curr_view_id[k]
      /\ LastOf(views'[c]) = LastOf(views[h])
  <2>1. /\ curr_view_id' = [curr_view_id EXCEPT ![c] = curr_view_id[h]]
        /\ views' = [views EXCEPT ![c] = <<LastOf(views[h])>>]
    BY <1>0 DEF InheritViews
  <2>2. views'[c] = <<LastOf(views[h])>>
    BY <1>3, <1>t, <2>1 DEF ViewsTyped
  <2>3. LastOf(views'[c]) = LastOf(views[h])
    BY <2>2 DEF LastOf
  <2>4. QED
    BY <1>3, <1>t, <2>1, <2>3 DEF ViewsTyped
<1>5. /\ \A n \in 1 .. dset_size : n \in Nodes /\ bag_view'[n] = bag_view[n]
      /\ pbag # NULL => bag_view'[pbag] = curr_view_id[h] \/ (pbag = Pbag[h] /\ bag_view' = bag_view)
  <2>1. 1 .. dset_size \subseteq Nodes /\ bag_view \in [Nodes -> Nat] /\ dset_size \in Nat
    BY <1>t, Ranges DEF ViewsTyped
  <2>2. CASE bag_view' = bag_view /\ pbag = Pbag[frame_head]
    BY <1>0, <2>1, <2>2
  <2>3. CASE /\ pbag \in Nodes /\ dset_size < pbag
             /\ bag_view' = [bag_view EXCEPT ![pbag] = curr_view_id[frame_head]]
    <3>1. \A n \in 1 .. dset_size : n # pbag
      BY <2>1, <2>3 DEF Nodes
    <3>2. QED
      BY <1>0, <2>1, <2>3, <3>1
  <2>4. QED
    BY <2>2, <2>3
<1>6. /\ \A k \in Levels : curr_view_id'[k] < view_id
      /\ \A n \in Nodes : bag_view'[n] < view_id
  BY <1>0, <1>3, <1>4, <1>t DEF IdsNameViews, ViewsTyped
<1>7. ASSUME NEW id, NEW w, Names(id, w)' PROVE Names(id, w)
  <2>1. PICK k \in Depth' :
          \/ id = curr_view_id'[k] /\ w = LastOf(views'[k])
          \/ \E v \in 1 .. Views(k)' :
               Slot(k, v)' # NULL /\ id = bag_view'[Slot(k, v)'] /\ w = views'[k][v]
    BY <1>7 DEF Names, LastOf
  <2>2. CASE id = curr_view_id'[k] /\ w = LastOf(views'[k])
    <3>1. CASE k = c
      BY <1>3, <1>4, <2>2, <3>1 DEF Names
    <3>2. CASE k # c
      <4>1. k \in Depth /\ views'[k] = views[k] /\ id = curr_view_id[k]
        BY <1>2, <1>3, <1>4, <2>2, <3>2 DEF SlotsSame
      <4>2. w = LastOf(views[k])
        BY <2>2, <4>1
      <4>3. QED
        BY <4>1, <4>2 DEF Names
    <3>3. QED
      BY <3>1, <3>2
  <2>3. ASSUME NEW v \in 1 .. Views(k)', Slot(k, v)' # NULL, id = bag_view'[Slot(k, v)'],
               w = views'[k][v]
        PROVE  Names(id, w)
    <3>1. k # c
      <4>1. SUFFICES ASSUME k = c PROVE FALSE
        OBVIOUS
      <4>2. v = 1
        BY <1>2, <4>1
      <4>3. QED
        BY <1>2, <2>3, <4>1, <4>2
    <3>2. k \in Depth /\ v \in 1 .. Views(k) /\ w = views[k][v]
      BY <1>2, <1>3, <2>3, <3>1 DEF SlotsSame
    <3>3. CASE Slot(k, v)' = Slot(k, v)
      <4>1. Slot(k, v) \in 1 .. dset_size /\ Slot(k, v) # NULL
        BY <1>t, <2>3, <3>2, <3>3 DEF StealBagsDistinct
      <4>2. id = bag_view[Slot(k, v)]
        BY <1>5, <2>3, <3>3, <4>1
      <4>3. QED
        BY <3>2, <4>1, <4>2 DEF Names
    <3>4. CASE Slot(k, v)' # Slot(k, v)
      <4>1. k = h /\ v = Views(h) /\ Slot(k, v)' = pbag
        BY <1>2, <3>2, <3>4 DEF SlotsSame
      <4>2. Slot(h, Views(h)) = Pbag[h] /\ LastOf(views[h]) = views[h][Views(h)]
        BY <1>3, <1>t, SlotRanges
      <4>3. id = curr_view_id[h] /\ w = LastOf(views[h])
        BY <1>5, <2>3, <3>2, <3>4, <4>1, <4>2
      <4>4. QED
        BY <1>3, <4>3 DEF Names
    <3>5. QED
      BY <3>3, <3>4
  <2>4. QED
    BY <2>1, <2>2, <2>3
<1>8. QED
  BY <1>6, <1>7, IdsKept

\* No id names another view after a return.
LEMMA LeaveIds ==
  ASSUME StealIInv, steal_leave_begin, ~died'
  PROVE  IdsNameViews' /\ Depth' = 0 .. (frame_head - 1) /\ frame_head - 1 \in Depth
         /\ \A k \in Depth' : SlotsSame(k) /\ k \in Depth
<1>t. BagTyped /\ CountsTyped /\ ViewsTyped /\ Placed /\ IdsNameViews
  BY DEF StealIInv, StealTyped
<1>1. PopsFrame /\ (ReturnsSpawn \/ ReturnsCall)
  BY LeaveKeeps
<1>2. \A k \in Depth' : SlotsSame(k)
  BY <1>1, <1>t, ReturnsPlaced
<1>3. Depth' = 0 .. (frame_head - 1) /\ frame_head - 1 \in Depth /\ Depth' \subseteq Depth
  <2>1. frame_head > 0 /\ frame_head' = frame_head - 1
    BY <1>1 DEF ReturnsSpawn, ReturnsCall, LeavesFrame
  <2>2. QED
    BY <1>t, <2>1, Ranges DEF Depth
<1>4. UNCHANGED <<views, curr_view_id, bag_view, view_id>>
  BY DEF steal_leave_begin, StealDie, Die, viewVars
<1>5. \A k \in Depth' : \A v \in 1 .. Views(k)' :
        Slot(k, v)' # NULL => v \in 1 .. Views(k) /\ Slot(k, v)' = Slot(k, v)
  BY <1>2 DEF SlotsSame
<1>6. \A id, w : Names(id, w)' => Names(id, w)
  BY <1>3, <1>4, <1>5, NamesFewer
<1>7. IdsNameViews'
  BY <1>4, <1>6, <1>t, IdsKept DEF IdsNameViews
<1>8. QED
  BY <1>2, <1>3, <1>7

\* Nor after a sync, which leaves the frame no P-bag.
LEMMA SyncIds ==
  ASSUME StealIInv, steal_sync_end, ~died'
  PROVE  IdsNameViews'
<1>0. PICK h : h = frame_head
  OBVIOUS
<1>t. IdsNameViews
  BY DEF StealIInv
<1>1. /\ Depth' = Depth /\ Pbag'[h] = NULL
      /\ \A k \in Depth : k # h => SlotsSame(k)
      /\ Views(h) = 1 /\ UNCHANGED <<viewVars, views, frame_head>>
  BY <1>0, SyncKeeps
<1>2. UNCHANGED <<views, curr_view_id, bag_view, view_id>>
  BY <1>1 DEF viewVars
<1>3. \A v \in 1 .. Views(h)' : Slot(h, v)' = NULL
  <2>1. Views(h)' = 1
    BY <1>1 DEF Views
  <2>2. Slot(h, 1)' = NULL
    BY <1>1, <2>1 DEF Slot
  <2>3. \A v \in 1 .. Views(h)' : v = 1
    BY <2>1
  <2>4. QED
    BY <2>2, <2>3
<1>4. \A k \in Depth' : \A v \in 1 .. Views(k)' :
        Slot(k, v)' # NULL => v \in 1 .. Views(k) /\ Slot(k, v)' = Slot(k, v)
  BY <1>1, <1>3 DEF SlotsSame
<1>5. \A id, w : Names(id, w)' => Names(id, w)
  BY <1>1, <1>2, <1>4, NamesFewer
<1>6. QED
  BY <1>2, <1>5, <1>t, IdsKept DEF IdsNameViews

\* Nor after a helper is left, in a new view or not.
LEMMA LeaveHelperIds ==
  ASSUME StealIInv, LeavesHelper
  PROVE  IdsNameViews'
<1>0. PICK h : h = frame_head
  OBVIOUS
<1>t. PlacedInv /\ IdsNameViews
  BY DEF StealIInv, PlacedInv
<1>1. LeaveHelper /\ Pbag[h] # NULL
  BY <1>0, LeaveHelperFacts
<1>2. IF next_continuation_was_stolen(frame_head) THEN StartsView ELSE QuietStep
  BY LeaveHelperKeeps
<1>3. CASE next_continuation_was_stolen(frame_head)
  <2>1. /\ curr_view_id' = [curr_view_id EXCEPT ![frame_head] = view_id]
        /\ view_id' = view_id + 1 /\ UNCHANGED bag_view
    BY <1>1, <1>3 DEF LeaveHelper, update_reducer_view, ViewIdTaken
  <2>2. QED
    BY <1>0, <1>1, <1>2, <1>3, <1>t, <2>1, StartIds
<1>4. CASE ~next_continuation_was_stolen(frame_head)
  BY <1>2, <1>4, <1>t, QuietIds
<1>5. QED
  BY <1>3, <1>4

-----------------------------------------------------------------------------
(***************************************************************************)
(* What was chosen at a detach.                                            *)
(***************************************************************************)
\* What next_continuation_was_stolen reads of the frame at level k.
PointsSame(k) ==
  /\ steal_points'[k] = steal_points[k] /\ steal_index'[k] = steal_index[k]
  /\ current_sync_block_size'[k] = current_sync_block_size[k]
  /\ init_cont_depth'[k] = init_cont_depth[k]

\* Its answer is the same while that is.
LEMMA StolenKept ==
  ASSUME NEW k, PointsSame(k), UNCHANGED optionVars
  PROVE  next_continuation_was_stolen(k)' <=> next_continuation_was_stolen(k)
  BY DEF PointsSame, optionVars, next_continuation_was_stolen, ContDepthOf

\* The choices stand while the helpers that are left are old ones, of frames
\* that have counted no further continuation.
LEMMA ChoicesSame ==
  ASSUME ChoicesKept, UNCHANGED optionVars,
         \A i \in 1 .. prog_depth' : prog'[i] = "spawned" =>
           /\ i \in 1 .. prog_depth /\ prog[i] = "spawned" /\ FrameAt(i)' = FrameAt(i)
           /\ chosen'[i] = chosen[i] /\ PointsSame(FrameAt(i) - 1),
         \A k \in Depth' : current_sync_block_size'[k] # 0 => k \in Depth /\ PointsSame(k)
  PROVE  ChoicesKept'
<1>1. ASSUME NEW i \in 1 .. prog_depth', prog'[i] = "spawned"
      PROVE  chosen'[i] <=> next_continuation_was_stolen(FrameAt(i) - 1)'
  <2>1. PICK f : f = FrameAt(i) - 1
    OBVIOUS
  <2>2. /\ i \in 1 .. prog_depth /\ prog[i] = "spawned" /\ FrameAt(i)' - 1 = f
        /\ chosen'[i] = chosen[i] /\ PointsSame(f)
    BY <1>1, <2>1
  <2>3. chosen[i] <=> next_continuation_was_stolen(f)
    BY <2>1, <2>2 DEF ChoicesKept
  <2>4. next_continuation_was_stolen(f)' <=> next_continuation_was_stolen(f)
    BY <2>2, StolenKept
  <2>5. next_continuation_was_stolen(FrameAt(i) - 1)' <=> next_continuation_was_stolen(f)'
    BY <2>2 DEF next_continuation_was_stolen, ContDepthOf
  <2>6. QED
    BY <2>2, <2>3, <2>4, <2>5
<1>2. ASSUME NEW k \in Depth',
             check_reduce' /\ current_sync_block_size'[k] # 0 /\ steal_index'[k] # 0
      PROVE  /\ steal_index'[k] \in 1 .. MAX_NUM_STEALS
             /\ steal_points'[k][steal_index'[k]] <= current_sync_block_size'[k]
  BY <1>2 DEF ChoicesKept, PointsSame, optionVars
<1>3. QED
  BY <1>1, <1>2 DEF ChoicesKept

-----------------------------------------------------------------------------
(***************************************************************************)
(* The stacks, the top P-bags and the choices, handler by handler.         *)
(***************************************************************************)
\* The rest of the invariant.
ControlInv == Control /\ TopsCurrent /\ ChoicesKept

\* A step that touches neither stack keeps the phases' demands on them.
LEMMA ControlSame ==
  ASSUME Control, UNCHANGED <<entryVars, dequeVars, progVars, frame_head>>,
         FramePopped' <=> FramePopped, StealPhases', Contexts'
  PROVE  Control'
<1>1. EntriesInv'
  BY EntriesUnchanged DEF Control
<1>2. UNCHANGED <<prog, prog_depth, frame_head>>
  BY DEF progVars
<1>3. StealShape'
  BY <1>2 DEF Control, StealShape, CallStack, IsHelper, FrameAt, FramesIn
<1>4. QED
  BY <1>1, <1>3 DEF Control

\* No strand works on views.
LEMMA UserContext ==
  ASSUME context_stack = <<"USER">>, UNCHANGED context_stack
  PROVE  Contexts'
<1>1. /\ context_stack' \in Seq({"USER", "UPDATE", "REDUCE"}) /\ Len(context_stack') = 1
      /\ context_stack'[1] = "USER"
  OBVIOUS
<1>2. 2 .. Len(context_stack') = {}
  BY <1>1
<1>3. QED
  BY <1>1, <1>2 DEF Contexts

\* The functions that are still on the program's stack have their frames.
LEMMA FramesStay ==
  ASSUME EntriesInv, UNCHANGED prog, prog_depth' = prog_depth \/ prog_depth' = prog_depth - 1,
         NEW i \in 1 .. prog_depth'
  PROVE  i \in 1 .. prog_depth /\ prog'[i] = prog[i] /\ FrameAt(i)' = FrameAt(i)
<1>1. i \in 1 .. prog_depth
  BY EntryRanges
<1>2. QED
  BY <1>1 DEF FrameAt, FramesIn

\* A step that counts nothing and spawns nothing keeps the choices.
LEMMA ChoicesStay ==
  ASSUME ChoicesKept, Depth' \subseteq Depth,
         UNCHANGED <<optionVars, pointVars, current_sync_block_size, init_cont_depth>>,
         \A i \in 1 .. prog_depth' : prog'[i] = "spawned" =>
           /\ i \in 1 .. prog_depth /\ prog[i] = "spawned" /\ FrameAt(i)' = FrameAt(i)
           /\ chosen'[i] = chosen[i]
  PROVE  ChoicesKept'
<1>1. \A k : PointsSame(k)
  BY DEF PointsSame, pointVars
<1>2. QED
  BY <1>1, ChoicesSame

\* What a quiet step leaves of the top P-bags.
LEMMA QuietTops ==
  ASSUME TopsCurrent, QuietStep, UNCHANGED <<optionVars, pointVars>>,
         \/ TopCurrent(frame_head)
         \/ pc' \in {"syncing", "joining", "returning", "reducing"},
         pc' = "reducing" /\ HelperLeaving' => next_continuation_was_stolen(frame_head),
         pc' = "returning" /\ to_reduce' > 0 => next_continuation_was_stolen(frame_head)
  PROVE  TopsCurrent'
<1>1. UNCHANGED <<frame_head, Pbag, bag_view, curr_view_id>> /\ (HelperLeaving' => HelperLeaving)
  BY DEF QuietStep, bagVars, frameVars, viewVars
<1>2. Depth' = Depth
  BY <1>1 DEF Depth
<1>3. \A k : TopCurrent(k)' <=> TopCurrent(k)
  BY <1>1 DEF TopCurrent
<1>4. TopCurrent(frame_head)' <=> TopCurrent(frame_head)
  BY <1>1 DEF TopCurrent
<1>5. next_continuation_was_stolen(frame_head)' <=> next_continuation_was_stolen(frame_head)
  <2>1. PICK h : h = frame_head
    OBVIOUS
  <2>2. PointsSame(h)
    BY DEF PointsSame, QuietStep, bagVars, frameVars, pointVars
  <2>3. next_continuation_was_stolen(h)' <=> next_continuation_was_stolen(h)
    BY <2>2, StolenKept
  <2>4. next_continuation_was_stolen(frame_head)' <=> next_continuation_was_stolen(h)'
    BY <1>1, <2>1 DEF next_continuation_was_stolen, ContDepthOf
  <2>5. QED
    BY <2>1, <2>3, <2>4
<1>6. /\ \A k \in Depth' : k < frame_head' => TopCurrent(k)'
      /\ TopCurrent(frame_head)' \/ pc' \in {"syncing", "joining", "returning", "reducing"}
  BY <1>1, <1>2, <1>3, <1>4 DEF TopsCurrent
<1>7. HelperLeaving' => /\ Pbag'[frame_head'] # NULL
                        /\ TopCurrent(frame_head)' \/ next_continuation_was_stolen(frame_head)'
  BY <1>1, <1>4, <1>5 DEF TopsCurrent
<1>8. QED
  BY <1>5, <1>6, <1>7 DEF TopsCurrent

\* A quiet step that touches neither stack.
LEMMA QuietControl ==
  ASSUME StealIInv, QuietStep, UNCHANGED <<optionVars, pointVars, chosen>>,
         UNCHANGED <<entryVars, dequeVars, progVars>>,
         FramePopped' <=> FramePopped, StealPhases', Contexts',
         \/ TopCurrent(frame_head)
         \/ pc' \in {"syncing", "joining", "returning", "reducing"},
         pc' = "reducing" /\ HelperLeaving' => next_continuation_was_stolen(frame_head),
         pc' = "returning" /\ to_reduce' > 0 => next_continuation_was_stolen(frame_head)
  PROVE  ControlInv'
<1>1. UNCHANGED <<frame_head, current_sync_block_size, init_cont_depth>>
  BY DEF QuietStep, bagVars, frameVars
<1>2. Control'
  BY <1>1, ControlSame DEF StealIInv
<1>3. TopsCurrent'
  BY QuietTops DEF StealIInv
<1>4. ChoicesKept'
  <2>1. UNCHANGED <<prog, prog_depth>> /\ Depth' = Depth
    BY <1>1 DEF progVars, Depth
  <2>2. \A i \in 1 .. prog_depth' : i \in 1 .. prog_depth /\ prog'[i] = prog[i] /\ FrameAt(i)' = FrameAt(i)
    BY <2>1, FramesStay DEF StealIInv, Control
  <2>3. QED
    BY <1>1, <2>1, <2>2, ChoicesStay DEF StealIInv
<1>5. QED
  BY <1>2, <1>3, <1>4 DEF ControlInv

\* The phases between which CilkSan's own handlers move.
LEMMA UntouchedPhases ==
  ASSUME StealIInv, Untouched, ~died'
  PROVE  /\ pc \in {"user", "called", "entering", "prepared"}
         /\ pc' \in {"user", "called", "entering", "prepared", "detaching", "syncing", "exited"}
         /\ StealPhases' \/ cilk_enter_helper_begin
         /\ UNCHANGED <<entryVars, dequeVars, progVars>> \/ cilk_enter_helper_begin
<1>t. StealPhases
  BY DEF StealIInv, Control
<1> USE DEF Die, StealPhases
<1>1. CASE cilk_enter_helper_begin
  BY <1>1 DEF cilk_enter_helper_begin
<1>2. CASE cilk_enter_end
  BY <1>2 DEF cilk_enter_end
<1>3. CASE cilk_spawn_prepare
  BY <1>3 DEF cilk_spawn_prepare, InUser, progVars
<1>4. CASE cilk_spawn_or_continue
  BY <1>4, <1>t DEF cilk_spawn_or_continue, progVars
<1>5. CASE cilk_detach_begin
  BY <1>5 DEF cilk_detach_begin, InUser, progVars
<1>6. CASE cilk_sync_begin
  BY <1>6 DEF cilk_sync_begin, InUser, progVars
<1>7. CASE __cilksan_disable_checking
  BY <1>7 DEF __cilksan_disable_checking
<1>8. CASE __cilksan_enable_checking
  BY <1>8 DEF __cilksan_enable_checking
<1>9. CASE cilksan_deinit
  BY <1>9 DEF cilksan_deinit, InUser
<1>10. QED
  BY <1>1, <1>2, <1>3, <1>4, <1>5, <1>6, <1>7, <1>8, <1>9 DEF Untouched

\* CilkSan's own handlers.
LEMMA UntouchedControl ==
  ASSUME StealIInv, Untouched, UNCHANGED stealVars, context_stack = <<"USER">>, ~died'
  PROVE  ControlInv'
<1>t. BagTyped /\ EntriesInv /\ StealShape /\ StealPhases /\ TopsCurrent /\ ChoicesKept
  BY DEF StealIInv, StealTyped, Control
<1>1. QuietStep /\ UNCHANGED <<optionVars, pointVars, chosen>>
  BY QuietActions DEF QuietNext
<1>2. /\ pc \in {"user", "called", "entering", "prepared"}
      /\ pc' \in {"user", "called", "entering", "prepared", "detaching", "syncing", "exited"}
      /\ StealPhases' \/ cilk_enter_helper_begin
      /\ UNCHANGED <<entryVars, dequeVars, progVars>> \/ cilk_enter_helper_begin
  BY UntouchedPhases
<1>3. ~FramePopped /\ ~FramePopped' /\ TopCurrent(frame_head) /\ ~HelperLeaving'
  BY <1>2, <1>t DEF FramePopped, HelperLeaving, TopsCurrent
<1>4. Contexts'
  BY UserContext DEF stealVars, runtimeVars
<1>5. CASE ~cilk_enter_helper_begin
  BY <1>1, <1>2, <1>3, <1>4, <1>5, QuietControl
<1>6. CASE cilk_enter_helper_begin
  <2>1. /\ pc = "called" /\ pc' = "entering" /\ prog_depth < MaxEntries /\ entry_head < MaxEntries
        /\ PushEntry("HELPER") /\ ProgramCalls("helper")
        /\ rts_deque_end' = entry_head + 1 /\ youngest_active_helper' = entry_head + 1
        /\ prev_helper' = [prev_helper EXCEPT ![entry_head + 1] = youngest_active_helper]
        /\ UNCHANGED <<rts_deque_begin, bagVars>>
    BY <1>6 DEF cilk_enter_helper_begin, Die
  <2>2. EntriesInv'
    BY <1>t, <2>1, PushEntryInv
  <2>3. /\ CallStack /\ FrameAt(prog_depth) = frame_head /\ prog[prog_depth] = "cilk"
        /\ frame_head \in Nat /\ frame_head' = frame_head
    BY <1>3, <1>t, <2>1, Ranges DEF StealShape, StealPhases, bagVars, frameVars
  <2>4. PICK what : what = "helper"
    OBVIOUS
  <2>5. /\ CallStack' /\ FrameAt(prog_depth)' = frame_head'
        /\ \A i \in 0 .. prog_depth : prog'[i] = prog[i] /\ FrameAt(i)' = FrameAt(i)
        /\ prog_depth' = prog_depth + 1 /\ prog'[prog_depth + 1] = what
    <3>1. what \in {"cilk", "helper"} /\ ProgramCalls(what) /\ what # "cilk"
      BY <2>1, <2>4
    <3>2. QED
      BY <1>t, <2>1, <2>3, <3>1, CallGrows
  <2>6. Control'
    BY <1>3, <1>4, <2>1, <2>2, <2>5 DEF Control, StealShape, StealPhases
  <2>7. TopsCurrent'
    BY <1>1, <1>3, <1>t, <2>1, QuietTops
  <2>8. ChoicesKept'
    <3>1. ASSUME NEW i \in 1 .. prog_depth', prog'[i] = "spawned"
          PROVE  /\ i \in 1 .. prog_depth /\ prog[i] = "spawned" /\ FrameAt(i)' = FrameAt(i)
                 /\ chosen'[i] = chosen[i]
      <4>1. i # prog_depth + 1
        BY <2>4, <2>5, <3>1
      <4>2. i \in 1 .. prog_depth /\ i \in 0 .. prog_depth
        BY <1>t, <2>5, <4>1, EntryRanges
      <4>3. QED
        BY <1>1, <2>5, <3>1, <4>2
    <3>2. Depth' \subseteq Depth /\ UNCHANGED <<current_sync_block_size, init_cont_depth>>
      BY <2>1 DEF Depth, bagVars, frameVars
    <3>3. QED
      BY <1>1, <1>t, <3>1, <3>2, ChoicesStay
  <2>9. QED
    BY <2>6, <2>7, <2>8 DEF ControlInv
<1>7. QED
  BY <1>5, <1>6

\* The answer to the runtime at a return makes it merge only for a
\* continuation that was chosen.
LEMMA MergesForStolen ==
  ASSUME OptionsTyped, PointsTyped, NEW h \in Levels, IntervalAsserts(h, TRUE),
         ReducesAt(Interval(h), TRUE) > 0
  PROVE  next_continuation_was_stolen(h)
<1>1. Interval(h) \in {<<2, 1>>, <<3, 1>>}
  BY DEF ReducesAt
<1>2. \A x, y : x # 2 /\ x # 3 => <<x, y>> \notin {<<2, 1>>, <<3, 1>>}
  OBVIOUS
<1>3. \A x : <<x, 0>> \notin {<<2, 1>>, <<3, 1>>}
  OBVIOUS
<1>4. CASE cont_depth_to_check # 0
  <2>1. Interval(h) \in {<<0, 1>>, <<1, 0>>, <<0, 0>>}
    BY <1>4 DEF Interval
  <2>2. QED
    BY <1>1, <1>2, <2>1
<1>5. CASE cont_depth_to_check = 0 /\ check_reduce
  <2>1. steal_index[h] \in Nat
    BY DEF PointsTyped
  <2>2. CASE steal_index[h] = 0
    BY <1>1, <1>3, <1>5, <2>2 DEF Interval
  <2>3. CASE /\ steal_index[h] # 0
             /\ steal_points[h][steal_index[h]] # current_sync_block_size[h]
    BY <1>1, <1>3, <1>5, <2>3 DEF Interval
  <2>4. CASE /\ steal_index[h] # 0
             /\ steal_points[h][steal_index[h]] = current_sync_block_size[h]
    BY <1>5, <2>1, <2>4 DEF next_continuation_was_stolen
  <2>5. QED
    BY <2>2, <2>3, <2>4
<1>6. CASE cont_depth_to_check = 0 /\ ~check_reduce
  BY <1>6 DEF IntervalAsserts, simulating, next_continuation_was_stolen
<1>7. QED
  BY <1>4, <1>5, <1>6

\* The runtime asks for the interval.
LEMMA IntervalControl ==
  ASSUME StealIInv, context_stack = <<"USER">>, ~died',
         \/ __cilksan_check_for_reduce_interval_return
         \/ __cilksan_check_for_reduce_interval_sync
  PROVE  ControlInv'
<1>t. /\ BagTyped /\ EntriesInv /\ StealShape /\ StealPhases /\ OptionsTyped /\ PointsTyped
      /\ frame_head \in Levels
  BY Ranges DEF StealIInv, StealTyped, Control, BagTyped
<1>1. QuietStep /\ UNCHANGED <<optionVars, pointVars, chosen>>
  BY QuietActions DEF QuietNext
<1>2. CASE __cilksan_check_for_reduce_interval_return
  <2>1. /\ pc = "leaving" /\ pc' = "returning" /\ entry_type[entry_head] = "HELPER"
        /\ IntervalAsserts(frame_head, TRUE) /\ to_reduce' = ReducesAt(Interval(frame_head), TRUE)
        /\ UNCHANGED <<entryVars, dequeVars, progVars, context_stack>>
    BY <1>2 DEF __cilksan_check_for_reduce_interval_return, check_for_reduce_interval, StealDie,
                Die, StolenReturn
  <2>2. prog[prog_depth] = "spawned"
    BY <1>t, <2>1, TopIsHelper DEF StealPhases
  <2>3. StealPhases'
    BY <2>1, <2>2 DEF StealPhases, progVars
  <2>4. FramePopped /\ FramePopped'
    BY <2>1 DEF FramePopped
  <2>5. to_reduce' > 0 => next_continuation_was_stolen(frame_head)
    BY <1>t, <2>1, MergesForStolen
  <2>6. Contexts'
    BY <2>1, UserContext
  <2>7. QED
    BY <1>1, <2>1, <2>3, <2>4, <2>5, <2>6, QuietControl
<1>3. CASE __cilksan_check_for_reduce_interval_sync
  <2>1. /\ pc = "syncing" /\ pc' = "joining"
        /\ UNCHANGED <<entryVars, dequeVars, progVars, context_stack>>
    BY <1>3 DEF __cilksan_check_for_reduce_interval_sync, check_for_reduce_interval, StealDie, Die
  <2>2. StealPhases'
    BY <1>t, <2>1 DEF StealPhases, progVars
  <2>3. ~FramePopped /\ ~FramePopped'
    BY <2>1 DEF FramePopped, HelperLeaving
  <2>4. Contexts'
    BY <2>1, UserContext
  <2>5. QED
    BY <1>1, <2>1, <2>2, <2>3, <2>4, QuietControl
<1>4. QED
  BY <1>2, <1>3

\* The runtime resumes a continuation, or has merged the views of a frame.
LEMMA RuntimeControl ==
  ASSUME StealIInv, context_stack = <<"USER">>, ~died', steal_continue \/ steal_joined
  PROVE  ControlInv'
<1>t. StealPhases /\ TopsCurrent
  BY DEF StealIInv, Control
<1>1. QuietStep /\ UNCHANGED <<optionVars, pointVars, chosen>>
  BY QuietActions DEF QuietNext
<1>2. CASE steal_continue
  <2>1. /\ pc = "resuming" /\ pc' = "user"
        /\ UNCHANGED <<entryVars, dequeVars, progVars, context_stack>>
    BY <1>2 DEF steal_continue, StealDie, Die, stealVars, runtimeVars
  <2>2. StealPhases' /\ ~FramePopped /\ ~FramePopped' /\ TopCurrent(frame_head)
    BY <1>t, <2>1 DEF StealPhases, FramePopped, HelperLeaving, TopsCurrent
  <2>3. Contexts'
    BY <2>1, UserContext
  <2>4. QED
    BY <1>1, <2>1, <2>2, <2>3, QuietControl
<1>3. CASE steal_joined
  <2>1. /\ pc = "joining" /\ pc' = "syncing"
        /\ UNCHANGED <<entryVars, dequeVars, progVars, context_stack>>
    BY <1>3 DEF steal_joined
  <2>2. StealPhases' /\ ~FramePopped /\ ~FramePopped'
    BY <1>t, <2>1 DEF StealPhases, FramePopped, HelperLeaving, progVars
  <2>3. Contexts'
    BY <2>1, UserContext
  <2>4. QED
    BY <1>1, <2>1, <2>2, <2>3, QuietControl
<1>4. QED
  BY <1>2, <1>3

\* Popping an entry whose function is neither a helper nor on its way in.
LEMMA PoppedControl ==
  ASSUME StealIInv, PopsEntry, FramePopped, pc' \in {"user", "resuming"},
         prog[prog_depth] \in {"cilk", "spawned"}, UNCHANGED frame_head
  PROVE  /\ EntriesInv' /\ StealShape' /\ StealPhases'
         /\ \A i \in 1 .. prog_depth' : i \in 1 .. prog_depth /\ prog'[i] = prog[i] /\ i # prog_depth
                                        /\ FrameAt(i)' = FrameAt(i)
<1>t. /\ BagTyped /\ EntriesInv /\ CallStack
      /\ FrameAt(prog_depth) = frame_head + 1 /\ frame_head \in Nat
  BY Ranges DEF StealIInv, StealTyped, Control, StealShape
<1>1. EntriesInv'
  BY <1>t, LeaveEntryInv
<1>2. prog_depth' = prog_depth - 1 /\ UNCHANGED prog /\ prog_depth \in Nat
  BY <1>t, EntryRanges DEF PopsEntry
<1>3. /\ prog_depth \in 1 .. prog_depth
      /\ FrameAt(prog_depth - 1) = FrameAt(prog_depth) - 1
  BY <1>t, TopEntry
<1>4. FrameAt(prog_depth)' = frame_head'
  <2>1. FrameAt(prog_depth - 1) = frame_head
    BY <1>t, <1>3
  <2>2. FrameAt(prog_depth)' = FrameAt(prog_depth - 1)
    BY <1>2 DEF FrameAt, FramesIn
  <2>3. QED
    BY <2>1, <2>2
<1>5. ~FramePopped'
  BY DEF FramePopped, HelperLeaving
<1>6. ASSUME NEW i \in 1 .. prog_depth'
      PROVE  i \in 1 .. prog_depth /\ prog'[i] = prog[i] /\ i # prog_depth /\ FrameAt(i)' = FrameAt(i)
  BY <1>2, <1>t, FramesStay
<1>7. CallStack'
  <2>1. prog'[0] = "main" /\ \A i \in 1 .. prog_depth' : prog'[i] # "main"
    BY <1>2, <1>6, <1>t DEF CallStack
  <2>2. \A i \in 1 .. prog_depth' : IsHelper(i)' => i > 1 /\ prog'[i - 1] = "cilk"
    BY <1>2, <1>6, <1>t DEF CallStack, IsHelper
  <2>3. QED
    BY <2>1, <2>2 DEF CallStack
<1>8. StealShape'
  BY <1>4, <1>5, <1>7 DEF StealShape
<1>9. StealPhases'
  BY DEF StealPhases
<1>10. QED
  BY <1>1, <1>6, <1>8, <1>9

\* A function is left.
LEMMA LeaveFunctionControl ==
  ASSUME StealIInv, context_stack = <<"USER">>, ~died', steal_leave_end_function
  PROVE  ControlInv'
<1>t. EntriesInv /\ StealPhases /\ TopsCurrent /\ ChoicesKept
  BY DEF StealIInv, Control
<1>1. QuietStep /\ UNCHANGED <<optionVars, pointVars, chosen>>
  BY QuietActions DEF QuietNext
<1>2. /\ pc = "leaving" /\ pc' = "user" /\ entry_type[entry_head] # "HELPER"
      /\ PopsEntry /\ UNCHANGED <<context_stack, bagVars>>
  BY DEF steal_leave_end_function, cilk_leave_end, Die, PopsEntry, stealVars, runtimeVars
<1>3. FramePopped /\ ~HelperLeaving /\ prog[prog_depth] \in {"cilk", "spawned"}
  BY <1>2, <1>t DEF FramePopped, HelperLeaving, StealPhases
<1>4. UNCHANGED <<frame_head, current_sync_block_size, init_cont_depth>>
  BY <1>2 DEF bagVars, frameVars
<1>5. /\ EntriesInv' /\ StealShape' /\ StealPhases'
      /\ \A i \in 1 .. prog_depth' : i \in 1 .. prog_depth /\ prog'[i] = prog[i] /\ i # prog_depth
                                     /\ FrameAt(i)' = FrameAt(i)
  BY <1>2, <1>3, <1>4, PoppedControl
<1>6. TopsCurrent'
  <2>1. TopCurrent(frame_head)
    BY <1>2, <1>t DEF TopsCurrent
  <2>2. QED
    BY <1>1, <1>2, <1>t, <2>1, QuietTops
<1>7. ChoicesKept'
  <2>1. Depth' \subseteq Depth
    BY <1>4 DEF Depth
  <2>2. QED
    BY <1>1, <1>4, <1>5, <1>t, <2>1, ChoicesStay
<1>8. Contexts'
  BY <1>2, UserContext
<1>9. QED
  BY <1>5, <1>6, <1>7, <1>8 DEF ControlInv, Control

\* A strand that works on views starts, below the user's or within a reduce
\* operation, or ends.
LEMMA ContextsStep ==
  ASSUME StealIInv, ViewNext, ~died'
  PROVE  Contexts'
<1>0. PICK c, l : c = context_stack /\ l = Len(context_stack)
  OBVIOUS
<1>1. DEFINE Kinds == {"USER", "UPDATE", "REDUCE"}
<1>2. /\ c \in Seq(Kinds) /\ l = Len(c) /\ l \in Nat /\ l > 0 /\ c[1] = "USER"
      /\ \A i \in 2 .. l : c[i] = IF pc = "reducing" THEN "REDUCE" ELSE "UPDATE"
      /\ l > 1 => pc = "user" \/ (pc = "reducing" /\ Pbag[frame_head] # NULL)
  BY <1>0 DEF StealIInv, Control, Contexts
<1>3. ASSUME NEW x \in Kinds, context_stack' = Append(c, x), pc' = pc,
             x = IF pc = "reducing" THEN "REDUCE" ELSE "UPDATE",
             pc = "user" \/ (pc = "reducing" /\ Pbag[frame_head] # NULL),
             UNCHANGED <<Pbag, frame_head>>
      PROVE  Contexts'
  <2>1. /\ context_stack' \in Seq(Kinds) /\ Len(context_stack') = l + 1
        /\ \A i \in 1 .. l : context_stack'[i] = c[i]
        /\ context_stack'[l + 1] = x
    BY <1>2, <1>3, AppendFacts
  <2>2. context_stack'[1] = "USER" /\ Len(context_stack') > 0
    BY <1>2, <2>1
  <2>3. ASSUME NEW i \in 2 .. (l + 1)
        PROVE  context_stack'[i] = IF pc = "reducing" THEN "REDUCE" ELSE "UPDATE"
    BY <1>2, <1>3, <2>1
  <2>4. QED
    BY <1>3, <2>1, <2>2, <2>3 DEF Contexts
<1>4. ASSUME l > 1, context_stack' = Front(c), UNCHANGED <<Pbag, frame_head>>,
             pc' = pc \/ l = 2
      PROVE  Contexts'
  <2>1. /\ context_stack' \in Seq(Kinds) /\ Len(context_stack') = l - 1
        /\ \A i \in 1 .. (l - 1) : context_stack'[i] = c[i]
    BY <1>2, <1>4, FrontFacts
  <2>2. context_stack'[1] = "USER" /\ Len(context_stack') > 0
    BY <1>2, <1>4, <2>1
  <2>3. ASSUME NEW i \in 2 .. (l - 1)
        PROVE  context_stack'[i] = IF pc' = "reducing" THEN "REDUCE" ELSE "UPDATE"
    <3>1. i \in 2 .. l /\ i \in 1 .. (l - 1) /\ pc' = pc
      BY <1>2, <1>4
    <3>2. QED
      BY <1>2, <2>1, <3>1
  <2>4. l - 1 > 1 => pc' = "user" \/ (pc' = "reducing" /\ Pbag'[frame_head'] # NULL)
    BY <1>2, <1>4
  <2>5. QED
    BY <2>1, <2>2, <2>3, <2>4 DEF Contexts
<1>5. LastOf(c) = c[l] /\ (l = 1 \/ l \in 2 .. l)
  BY <1>2 DEF LastOf
<1> HIDE DEF Kinds
<1>k. {"USER", "UPDATE", "REDUCE"} = Kinds
  BY DEF Kinds
<1>6. CASE __cilksan_begin_reduce_strand
  <2>1. /\ pc = "reducing" /\ l = 1 /\ Pbag[frame_head] # NULL
        /\ context_stack' = Append(c, "REDUCE") /\ pc' = pc /\ UNCHANGED <<Pbag, frame_head>>
    BY <1>0, <1>6 DEF __cilksan_begin_reduce_strand, StealDie, Die, ContextChanges, bagVars, frameVars
  <2>2. "REDUCE" \in Kinds
    BY <1>k
  <2>3. QED
    BY <1>3, <2>1, <2>2
<1>7. CASE __cilksan_end_reduce_strand
  <2>1. l = 2 /\ context_stack' = Front(c) /\ UNCHANGED <<Pbag, frame_head>>
    BY <1>0, <1>7 DEF __cilksan_end_reduce_strand, StealDie, Die, ContextChanges, bagVars, frameVars
  <2>2. QED
    BY <1>4, <2>1
<1>8. CASE __cilksan_begin_update_strand
  <2>1. /\ pc \in {"user", "reducing"} /\ l \in BaseContexts .. (BaseContexts + MaxUpdates - 1)
        /\ context_stack' = Append(c, IF LastOf(c) = "REDUCE" THEN "REDUCE" ELSE "UPDATE")
        /\ pc' = pc /\ UNCHANGED <<Pbag, frame_head>>
    BY <1>0, <1>8 DEF __cilksan_begin_update_strand, ContextChanges, bagVars, frameVars
  <2>2. CASE pc = "user"
    <3>1. LastOf(c) # "REDUCE"
      BY <1>2, <1>5, <2>2
    <3>2. context_stack' = Append(c, "UPDATE") /\ "UPDATE" \in Kinds
      BY <1>k, <2>1, <3>1
    <3>3. QED
      BY <1>3, <2>1, <2>2, <3>2
  <2>3. CASE pc = "reducing"
    <3>1. l > 1
      BY <1>2, <2>1, <2>3, PromotesAssumption DEF BaseContexts
    <3>2. LastOf(c) = "REDUCE" /\ Pbag[frame_head] # NULL
      BY <1>2, <1>5, <2>3, <3>1
    <3>3. context_stack' = Append(c, "REDUCE") /\ "REDUCE" \in Kinds
      BY <1>k, <2>1, <3>2
    <3>4. QED
      BY <1>3, <2>1, <2>3, <3>2, <3>3
  <2>4. QED
    BY <2>1, <2>2, <2>3
<1>9. CASE __cilksan_end_update_strand
  <2>1. l > BaseContexts /\ context_stack' = Front(c) /\ pc' = pc /\ UNCHANGED <<Pbag, frame_head>>
    BY <1>0, <1>9 DEF __cilksan_end_update_strand, StealDie, Die, ContextChanges, bagVars, frameVars
  <2>2. l > 1
    BY <1>2, <2>1 DEF BaseContexts
  <2>3. QED
    BY <1>4, <2>1, <2>2
<1>10. QED
  BY <1>6, <1>7, <1>8, <1>9 DEF ViewNext

\* Such a strand touches nothing else.
LEMMA ViewControl ==
  ASSUME StealIInv, ViewNext, ~died'
  PROVE  ControlInv'
<1>t. EntriesInv /\ StealPhases /\ TopsCurrent
  BY DEF StealIInv, Control
<1>1. QuietStep /\ UNCHANGED <<optionVars, pointVars, chosen>>
  BY QuietActions DEF QuietNext
<1>2. Contexts'
  BY ContextsStep
<1>3. UNCHANGED <<entryVars, dequeVars, progVars, to_reduce>>
      /\ \/ pc' = pc
         \/ /\ pc = "reducing"
            /\ pc' = IF entry_type[entry_head] = "HELPER" THEN "returning" ELSE "joining"
  <2> USE DEF ContextChanges, StealDie, Die
  <2>1. CASE __cilksan_begin_reduce_strand
    BY <2>1 DEF __cilksan_begin_reduce_strand
  <2>2. CASE __cilksan_end_reduce_strand
    BY <2>2 DEF __cilksan_end_reduce_strand
  <2>3. CASE __cilksan_begin_update_strand
    BY <2>3 DEF __cilksan_begin_update_strand
  <2>4. CASE __cilksan_end_update_strand
    BY <2>4 DEF __cilksan_end_update_strand
  <2>5. QED
    BY <2>1, <2>2, <2>3, <2>4 DEF ViewNext
<1>4. UNCHANGED <<entry_type, entry_head, prog, prog_depth>>
  BY <1>3 DEF entryVars, progVars
<1>5. CASE pc' = pc
  <2>1. (HelperLeaving' <=> HelperLeaving) /\ (FramePopped' <=> FramePopped)
    BY <1>4, <1>5 DEF HelperLeaving, FramePopped
  <2>2. StealPhases'
    BY <1>4, <1>5, <1>t DEF StealPhases
  <2>3. /\ TopCurrent(frame_head) \/ pc' \in {"syncing", "joining", "returning", "reducing"}
        /\ pc' = "reducing" /\ HelperLeaving' => next_continuation_was_stolen(frame_head)
        /\ pc' = "returning" /\ to_reduce' > 0 => next_continuation_was_stolen(frame_head)
    BY <1>3, <1>5, <1>t, <2>1 DEF TopsCurrent
  <2>4. QED
    BY <1>1, <1>2, <1>3, <2>1, <2>2, <2>3, QuietControl
<1>6. CASE pc = "reducing" /\ pc' = IF entry_type[entry_head] = "HELPER" THEN "returning" ELSE "joining"
  <2>1. /\ HelperLeaving <=> entry_type[entry_head] = "HELPER"
        /\ HelperLeaving' <=> entry_type[entry_head] = "HELPER"
        /\ FramePopped' <=> FramePopped
    BY <1>4, <1>6 DEF HelperLeaving, FramePopped
  <2>2. StealPhases'
    <3>1. prog[prog_depth] \in {"cilk", "spawned"}
      BY <1>6, <1>t DEF StealPhases
    <3>2. entry_type[entry_head] = "HELPER" <=> prog[prog_depth] = "spawned"
      BY <1>t, <3>1, TopIsHelper
    <3>3. QED
      BY <1>4, <1>6, <3>1, <3>2 DEF StealPhases
  <2>3. pc' = "returning" => next_continuation_was_stolen(frame_head)
    BY <1>6, <1>t, <2>1 DEF TopsCurrent
  <2>4. QED
    BY <1>1, <1>2, <1>3, <1>6, <2>1, <2>2, <2>3, QuietControl
<1>7. QED
  BY <1>3, <1>5, <1>6

\* The frame of a function on the program's stack.
LEMMA SpawnedFrames ==
  ASSUME EntriesInv, NEW i \in 1 .. prog_depth, prog[i] = "spawned"
  PROVE  /\ FrameAt(i) \in Nat /\ FrameAt(i) - 1 \in Nat
         /\ FrameAt(i) <= FrameAt(prog_depth) /\ FrameAt(prog_depth) \in Nat
<1>1. i \in Nat /\ prog_depth \in Nat /\ i <= prog_depth /\ 0 < i
  BY EntryRanges
<1>2. FramesIn(prog, i) \in Nat /\ FramesIn(prog, prog_depth) \in Nat /\ FramesIn(prog, 0) \in Nat
  BY <1>1, FramesInType
<1>3. FramesIn(prog, i) <= FramesIn(prog, prog_depth)
  BY <1>1, FramesInGrows
<1>4. FramesIn(prog, 0) < FramesIn(prog, i)
  BY <1>1, FramesInGrows
<1>5. QED
  BY <1>2, <1>3, <1>4 DEF FrameAt

\* A P-bag of a frame has been created.
LEMMA PbagsInUse ==
  ASSUME PlacedInv
  PROVE  /\ \A k \in Depth : Pbag[k] # NULL => Pbag[k] \in 1 .. dset_size /\ Pbag[k] \in Nodes
         /\ \A k \in Levels : k \notin Depth => Pbag[k] = NULL
<1>t. BagTyped /\ ViewsTyped /\ StacksShaped /\ StealBagsDistinct
  BY DEF PlacedInv, StealTyped, Placed
<1>1. ASSUME NEW k \in Depth, Pbag[k] # NULL
      PROVE  Pbag[k] \in 1 .. dset_size /\ Pbag[k] \in Nodes
  <2>1. Views(k) \in 1 .. Views(k) /\ Slot(k, Views(k)) = Pbag[k]
    BY <1>t, SlotRanges
  <2>2. Pbag[k] \in 1 .. dset_size
    BY <1>1, <1>t, <2>1 DEF StealBagsDistinct
  <2>3. QED
    BY <1>t, <2>2, Ranges
<1>2. QED
  BY <1>1, <1>t DEF StealBagsDistinct

\* A child starts without a P-bag, and a new P-bag of its caller carries the
\* caller's id.
LEMMA EnterTops ==
  ASSUME StealIInv, NEW sbag, NEW pbag, EntersView(sbag, pbag), InheritViews(frame_head + 1),
         TopCurrent(frame_head), pc' \in {"entering", "user"},
         \/ bag_view' = bag_view /\ pbag = Pbag[frame_head]
         \/ /\ Pbag[frame_head] = NULL /\ pbag \in Nodes /\ dset_size < pbag
            /\ bag_view' = [bag_view EXCEPT ![pbag] = curr_view_id[frame_head]]
  PROVE  TopsCurrent'
<1>0. PICK h, c : h = frame_head /\ c = frame_head + 1
  OBVIOUS
<1>t. BagTyped /\ ViewsTyped /\ PlacedInv /\ TopsCurrent
  BY DEF StealIInv, StealTyped, PlacedInv
<1>1. /\ h \in Depth /\ h \in Levels /\ c \in Levels /\ c \notin Depth /\ Depth' = Depth \cup {c}
      /\ Depth \subseteq Levels /\ h # c /\ frame_head' = c /\ h \in Nat /\ c \in Nat
      /\ \A k \in Depth : k <= h /\ k \in Nat
  BY <1>0, <1>t, Ranges DEF EntersView, EntersFrame, Depth, Levels
<1>2. /\ Pbag'[h] = pbag /\ \A k \in Levels : k # h => Pbag'[k] = Pbag[k]
      /\ \A k \in Levels : k # c => curr_view_id'[k] = curr_view_id[k]
  BY <1>0, <1>1, <1>t DEF EntersView, EntersFrame, BagTyped, InheritViews, ViewsTyped
<1>3. /\ \A k \in Depth : Pbag[k] # NULL => Pbag[k] \in 1 .. dset_size /\ Pbag[k] \in Nodes
      /\ Pbag[c] = NULL
  BY <1>1, <1>t, PbagsInUse
<1>4. TopCurrent(c)'
  BY <1>1, <1>2, <1>3 DEF TopCurrent
<1>5. TopCurrent(h)'
  BY <1>0, <1>1, <1>2, <1>t DEF TopCurrent, ViewsTyped
<1>6. ASSUME NEW k \in Depth, k # h PROVE TopCurrent(k)'
  <2>1. k \in Levels /\ k # c /\ k < frame_head
    BY <1>0, <1>1, <1>6
  <2>2. TopCurrent(k)
    BY <1>t, <2>1 DEF TopsCurrent
  <2>3. Pbag'[k] = Pbag[k] /\ curr_view_id'[k] = curr_view_id[k]
    BY <1>2, <1>6, <2>1
  <2>4. Pbag[k] # NULL => bag_view'[Pbag[k]] = bag_view[Pbag[k]]
    <3>1. SUFFICES ASSUME Pbag[k] # NULL PROVE bag_view'[Pbag[k]] = bag_view[Pbag[k]]
      OBVIOUS
    <3>2. Pbag[k] \in 1 .. dset_size /\ Pbag[k] \in Nodes
      BY <1>3, <3>1
    <3>3. dset_size < pbag /\ pbag \in Nodes => Pbag[k] # pbag
      BY <1>t, <3>2, Ranges
    <3>4. QED
      BY <1>t, <3>2, <3>3 DEF ViewsTyped
  <2>5. QED
    BY <2>2, <2>3, <2>4 DEF TopCurrent
<1>7. \A k \in Depth' : TopCurrent(k)'
  BY <1>1, <1>4, <1>5, <1>6
<1>8. TopCurrent(frame_head)'
  BY <1>1, <1>4 DEF TopCurrent
<1>9. QED
  BY <1>7, <1>8 DEF TopsCurrent, HelperLeaving

\* cilk_enter_begin
LEMMA EnterControl ==
  ASSUME StealIInv, steal_enter_begin, context_stack = <<"USER">>, ~died'
  PROVE  ControlInv' /\ IdsNameViews'
<1>0. PICK h, c, what : h = frame_head /\ c = frame_head + 1 /\ what = "cilk"
  OBVIOUS
<1>t. /\ BagTyped /\ CountsTyped /\ EntriesInv /\ StealShape /\ TopsCurrent /\ ChoicesKept
      /\ PlacedInv /\ IdsNameViews
  BY DEF StealIInv, StealTyped, Control, PlacedInv
<1>1. /\ cilk_enter_begin /\ ~Die /\ InheritViews(c) /\ pc = "user"
      /\ UNCHANGED <<optionVars, pointVars, view_id, bag_view, context_stack, chosen>>
  BY <1>0 DEF steal_enter_begin, StealDie, Die, runtimeVars
<1>2. /\ frame_head < MaxFrames /\ prog_depth < MaxEntries /\ entry_head < MaxEntries
      /\ pc' = "entering" /\ frame_head' = frame_head + 1
      /\ PushEntry("SPAWNER") /\ ProgramCalls("cilk") /\ UNCHANGED <<prev_helper, dequeVars>>
      /\ current_sync_block_size' = [current_sync_block_size EXCEPT ![c] = 0]
      /\ \E depth : init_cont_depth' = [init_cont_depth EXCEPT ![c] = depth]
  BY <1>0, <1>1 DEF cilk_enter_begin, StartNewFunction
<1>3. EntersView(dset_size + 1, Pbag[frame_head])
  BY EnterKeeps
<1>4. /\ TopCurrent(frame_head) /\ ~FramePopped /\ ~FramePopped'
  BY <1>1, <1>2, <1>t DEF TopsCurrent, FramePopped, HelperLeaving
<1>5. IdsNameViews'
  <2>1. PICK sbag, pbag : sbag = dset_size + 1 /\ pbag = Pbag[frame_head]
    OBVIOUS
  <2>2. EntersView(sbag, pbag) /\ bag_view' = bag_view /\ InheritViews(frame_head + 1)
    BY <1>0, <1>1, <1>3, <2>1
  <2>3. QED
    BY <1>1, <1>t, <2>1, <2>2, EnterIds
<1>6. TopsCurrent'
  <2>1. PICK sbag, pbag : sbag = dset_size + 1 /\ pbag = Pbag[frame_head]
    OBVIOUS
  <2>2. EntersView(sbag, pbag) /\ bag_view' = bag_view /\ InheritViews(frame_head + 1)
    BY <1>0, <1>1, <1>3, <2>1
  <2>3. QED
    BY <1>2, <1>4, <2>1, <2>2, EnterTops
<1>7. EntriesInv'
  BY <1>2, <1>t, PushEntryInv
<1>8. /\ frame_head \in Nat /\ CallStack /\ FrameAt(prog_depth) = frame_head
      /\ c \in Levels /\ h \in Nat /\ 0 .. h \subseteq Levels /\ Depth' = Depth \cup {c}
      /\ \A k \in 0 .. h : k # c
  BY <1>0, <1>2, <1>4, <1>t, Ranges DEF StealShape, Depth, Levels
<1>9. /\ CallStack' /\ FrameAt(prog_depth)' = frame_head'
      /\ \A i \in 0 .. prog_depth : prog'[i] = prog[i] /\ FrameAt(i)' = FrameAt(i)
      /\ prog_depth' = prog_depth + 1 /\ prog'[prog_depth + 1] = what
  <2>1. what \in {"cilk", "helper"} /\ ProgramCalls(what) /\ what = "cilk"
    BY <1>0, <1>2
  <2>2. QED
    BY <1>2, <1>8, <1>t, <2>1, CallGrows
<1>10. Control'
  <2>1. Contexts'
    BY <1>1, UserContext
  <2>2. StealPhases'
    BY <1>2 DEF StealPhases
  <2>3. QED
    BY <1>4, <1>7, <1>9, <2>1, <2>2 DEF Control, StealShape
<1>11. ASSUME NEW k \in Levels, k # c PROVE PointsSame(k)
  BY <1>1, <1>2, <1>11, <1>t DEF PointsSame, pointVars, CountsTyped
<1>12. ChoicesKept'
  <2>1. ASSUME NEW i \in 1 .. prog_depth', prog'[i] = "spawned"
        PROVE  /\ i \in 1 .. prog_depth /\ prog[i] = "spawned" /\ FrameAt(i)' = FrameAt(i)
               /\ chosen'[i] = chosen[i] /\ PointsSame(FrameAt(i) - 1)
    <3>1. i # prog_depth + 1
      BY <1>0, <1>9, <2>1
    <3>2. i \in 1 .. prog_depth /\ i \in 0 .. prog_depth
      BY <1>9, <1>t, <3>1, EntryRanges
    <3>3. prog[i] = "spawned" /\ FrameAt(i)' = FrameAt(i)
      BY <1>9, <2>1, <3>2
    <3>4. FrameAt(i) \in Nat /\ FrameAt(i) - 1 \in Nat /\ FrameAt(i) <= h
      BY <1>0, <1>8, <1>t, <3>2, <3>3, SpawnedFrames
    <3>5. FrameAt(i) - 1 \in 0 .. h
      BY <1>8, <3>4
    <3>6. QED
      BY <1>1, <1>8, <1>11, <3>2, <3>3, <3>5
  <2>2. ASSUME NEW k \in Depth', current_sync_block_size'[k] # 0
        PROVE  k \in Depth /\ PointsSame(k)
    <3>1. current_sync_block_size'[c] = 0
      BY <1>2, <1>8, <1>t DEF CountsTyped
    <3>2. k # c /\ k \in Depth
      BY <1>8, <2>2, <3>1
    <3>3. QED
      BY <1>11, <1>t, <3>2, Ranges
  <2>3. QED
    BY <1>1, <1>t, <2>1, <2>2, ChoicesSame
<1>13. QED
  BY <1>5, <1>6, <1>10, <1>12 DEF ControlInv

\* cilk_leave_begin pops the frame and leaves the entry.
LEMMA LeaveControl ==
  ASSUME StealIInv, steal_leave_begin, context_stack = <<"USER">>, ~died'
  PROVE  ControlInv'
<1>t. /\ BagTyped /\ EntriesInv /\ StealShape /\ TopsCurrent /\ ChoicesKept
  BY DEF StealIInv, StealTyped, Control
<1>1. /\ cilk_leave_begin /\ ~Die /\ pc = "user" /\ pc' = "leaving"
      /\ frame_head > 0 /\ frame_head' = frame_head - 1
      /\ MergeAsserts(frame_head - 1, frame_head)
      /\ prog[prog_depth] \in {"cilk", "spawned"}
      /\ UNCHANGED <<optionVars, pointVars, viewVars, chosen, context_stack, entryVars, dequeVars,
                     progVars, Pbag, current_sync_block_size, init_cont_depth>>
  BY DEF steal_leave_begin, StealDie, Die, cilk_leave_begin, InUser, runtimeVars
<1>2. UNCHANGED <<entry_type, entry_head, prog, prog_depth, curr_view_id, bag_view>>
  BY <1>1 DEF entryVars, progVars, viewVars
<1>3. PICK p : p = frame_head - 1
  OBVIOUS
<1>4. /\ frame_head' = p /\ p < frame_head /\ p \in Depth /\ Depth' = 0 .. p /\ Depth' \subseteq Depth
      /\ frame_head = p + 1 /\ p \in Nat
  BY <1>1, <1>3, <1>t, Ranges DEF Depth
<1>5. ~FramePopped /\ FramePopped'
  BY <1>1 DEF FramePopped, HelperLeaving
<1>6. Control'
  <2>1. EntriesInv'
    BY <1>1, <1>t, EntriesUnchanged
  <2>2. StealShape'
    BY <1>2, <1>4, <1>5, <1>t DEF StealShape, CallStack, IsHelper, FrameAt, FramesIn
  <2>3. StealPhases'
    BY <1>1, <1>2 DEF StealPhases
  <2>4. Contexts'
    BY <1>1, UserContext
  <2>5. QED
    BY <2>1, <2>2, <2>3, <2>4 DEF Control
<1>7. TopsCurrent'
  <2>1. \A k : TopCurrent(k)' <=> TopCurrent(k)
    BY <1>1, <1>2 DEF TopCurrent
  <2>2. \A k \in Depth' : TopCurrent(k)
    <3>1. \A k \in 0 .. p : k < frame_head
      BY <1>4
    <3>2. QED
      BY <1>4, <1>t, <3>1 DEF TopsCurrent
  <2>3. p \in Depth'
    BY <1>4
  <2>4. TopCurrent(frame_head)'
    <3>1. TopCurrent(p)'
      BY <2>1, <2>2, <2>3
    <3>2. QED
      BY <1>4, <3>1 DEF TopCurrent
  <2>5. HelperLeaving' => Pbag'[frame_head'] # NULL
    <3>1. HelperLeaving' => Pbag[p] # NULL
      BY <1>1, <1>2, <1>3 DEF HelperLeaving, MergeAsserts, MergeTarget
    <3>2. QED
      BY <1>1, <1>4, <3>1
  <2>6. QED
    BY <1>1, <2>1, <2>2, <2>4, <2>5 DEF TopsCurrent
<1>8. ChoicesKept'
  <2>1. ASSUME NEW i \in 1 .. prog_depth'
        PROVE  i \in 1 .. prog_depth /\ prog'[i] = prog[i] /\ FrameAt(i)' = FrameAt(i)
    BY <1>2, <1>t, FramesStay
  <2>2. QED
    BY <1>1, <1>4, <1>t, <2>1, ChoicesStay
<1>9. QED
  BY <1>6, <1>7, <1>8 DEF ControlInv

\* leave_end and leave_stolen pop a helper's entry.
LEMMA LeaveHelperControl ==
  ASSUME StealIInv, LeavesHelper, context_stack = <<"USER">>
  PROVE  ControlInv'
<1>0. PICK h : h = frame_head
  OBVIOUS
<1>t. /\ BagTyped /\ ViewsTyped /\ EntriesInv /\ StealShape /\ TopsCurrent /\ ChoicesKept
  BY DEF StealIInv, StealTyped, Control
<1>1. /\ LeaveHelper /\ HelperLeaving /\ ~HelperLeaving'
      /\ pc' \in {"user", "resuming"} /\ prog[prog_depth] = "spawned" /\ entry_head = prog_depth
      /\ prog_depth \in 1 .. prog_depth /\ h \in Depth /\ h \in Levels
  BY <1>0, <1>t, LeaveHelperFacts, Ranges
<1>2. PopsEntry /\ FramePopped
  <2>1. entry_head > 0
    BY <1>1
  <2>2. QED
    BY <1>1, <2>1 DEF LeaveHelper, PopsEntry, FramePopped
<1>3. /\ UNCHANGED <<optionVars, pointVars, frame_head, current_sync_block_size, init_cont_depth,
                     bag_view, context_stack>>
      /\ chosen' = [chosen EXCEPT ![entry_head] = FALSE]
      /\ update_reducer_view(h)
  BY <1>0, <1>1 DEF LeaveHelper
<1>4. Depth' = Depth
  BY <1>3 DEF Depth
<1>5. /\ EntriesInv' /\ StealShape' /\ StealPhases'
      /\ \A i \in 1 .. prog_depth' : i \in 1 .. prog_depth /\ prog'[i] = prog[i] /\ i # prog_depth
                                     /\ FrameAt(i)' = FrameAt(i)
  BY <1>1, <1>2, <1>3, PoppedControl
<1>6. Contexts'
  BY <1>3, UserContext
<1>7. ChoicesKept'
  <2>1. \A i \in 1 .. prog_depth' : chosen'[i] = chosen[i]
    <3>1. \A i \in 1 .. prog_depth' : i \in Entries /\ i # entry_head
      BY <1>1, <1>5, <1>t, EntryRanges
    <3>2. chosen \in [Entries -> BOOLEAN]
      BY DEF StealIInv, StealTyped, PointsTyped
    <3>3. QED
      BY <1>3, <3>1, <3>2
  <2>2. QED
    BY <1>3, <1>4, <1>5, <1>t, <2>1, ChoicesStay
<1>8. /\ \A k \in Levels : k # h => Pbag'[k] = Pbag[k] /\ curr_view_id'[k] = curr_view_id[k]
      /\ Pbag'[h] = NULL \/ (Pbag'[h] = Pbag[h] /\ curr_view_id'[h] = curr_view_id[h] /\ TopCurrent(h))
  <2>1. CASE next_continuation_was_stolen(h)
    BY <1>1, <1>3, <1>t, <2>1 DEF update_reducer_view, BagTyped, ViewsTyped
  <2>2. CASE ~next_continuation_was_stolen(h)
    BY <1>0, <1>1, <1>3, <1>t, <2>2 DEF update_reducer_view, TopsCurrent
  <2>3. QED
    BY <2>1, <2>2
<1>9. TopsCurrent'
  <2>1. TopCurrent(h)'
    BY <1>3, <1>8 DEF TopCurrent
  <2>2. ASSUME NEW k \in Depth, k < frame_head PROVE TopCurrent(k)'
    <3>1. TopCurrent(k) /\ k \in Levels /\ k # h
      BY <1>0, <1>t, <2>2, Ranges DEF TopsCurrent
    <3>2. QED
      BY <1>3, <1>8, <3>1 DEF TopCurrent
  <2>3. TopCurrent(frame_head)'
    BY <1>0, <1>3, <2>1 DEF TopCurrent
  <2>4. pc' # "reducing" /\ pc' # "returning"
    BY <1>1
  <2>5. QED
    BY <1>1, <1>3, <1>4, <2>2, <2>3, <2>4 DEF TopsCurrent
<1>10. QED
  BY <1>5, <1>6, <1>7, <1>9 DEF ControlInv, Control

\* cilk_sync_end
LEMMA SyncControl ==
  ASSUME StealIInv, steal_sync_end, context_stack = <<"USER">>, ~died'
  PROVE  ControlInv'
<1>0. PICK h : h = frame_head
  OBVIOUS
<1>t. /\ BagTyped /\ ViewsTyped /\ CountsTyped /\ EntriesInv /\ StealShape /\ StealPhases
      /\ TopsCurrent /\ ChoicesKept
  BY DEF StealIInv, StealTyped, Control
<1>1. /\ pc = "syncing" /\ pc' = "user"
      /\ Pbag' = [Pbag EXCEPT ![h] = NULL]
      /\ current_sync_block_size' = [current_sync_block_size EXCEPT ![h] = 0]
      /\ UNCHANGED <<optionVars, pointVars, viewVars, chosen, context_stack, entryVars, dequeVars,
                     progVars, frame_head, init_cont_depth>>
  BY <1>0 DEF steal_sync_end, StealDie, Die, cilk_sync_end, complete_sync, runtimeVars
<1>2. UNCHANGED <<prog, prog_depth, curr_view_id, bag_view>> /\ Depth' = Depth
      /\ h \in Levels /\ h \in Depth /\ Depth \subseteq Levels
  BY <1>0, <1>1, <1>t, Ranges DEF progVars, viewVars, Depth
<1>3. ~FramePopped /\ ~FramePopped' /\ ~HelperLeaving'
  BY <1>1 DEF FramePopped, HelperLeaving
<1>4. Control'
  <2>1. Contexts'
    BY <1>1, UserContext
  <2>2. StealPhases'
    BY <1>1 DEF StealPhases
  <2>3. QED
    BY <1>1, <1>3, <2>1, <2>2, ControlSame DEF StealIInv
<1>5. TopsCurrent'
  <2>1. Pbag'[h] = NULL /\ \A k \in Levels : k # h => Pbag'[k] = Pbag[k]
    BY <1>1, <1>2, <1>t DEF BagTyped
  <2>2. TopCurrent(frame_head)'
    BY <1>0, <1>1, <2>1 DEF TopCurrent
  <2>3. ASSUME NEW k \in Depth, k < frame_head PROVE TopCurrent(k)'
    <3>1. TopCurrent(k) /\ k \in Levels /\ k # h
      BY <1>0, <1>t, <2>3, Ranges DEF TopsCurrent
    <3>2. QED
      BY <1>2, <2>1, <3>1 DEF TopCurrent
  <2>4. QED
    BY <1>1, <1>2, <1>3, <2>2, <2>3 DEF TopsCurrent
<1>6. ASSUME NEW k \in Levels, k # h PROVE PointsSame(k)
  BY <1>1, <1>6, <1>t DEF PointsSame, pointVars, CountsTyped
<1>7. ChoicesKept'
  <2>1. ASSUME NEW i \in 1 .. prog_depth', prog'[i] = "spawned"
        PROVE  /\ i \in 1 .. prog_depth /\ prog[i] = "spawned" /\ FrameAt(i)' = FrameAt(i)
               /\ chosen'[i] = chosen[i] /\ PointsSame(FrameAt(i) - 1)
    <3>1. i \in 1 .. prog_depth /\ prog[i] = "spawned" /\ FrameAt(i)' = FrameAt(i)
      BY <1>2, <1>t, <2>1, FramesStay
    <3>2. FrameAt(i) - 1 \in Nat /\ FrameAt(i) \in Nat /\ FrameAt(i) <= h
      BY <1>0, <1>3, <1>t, <3>1, SpawnedFrames DEF StealShape
    <3>3. FrameAt(i) - 1 \in Levels /\ FrameAt(i) - 1 # h
      BY <1>2, <3>2, BoundsAssumption DEF Levels
    <3>4. QED
      BY <1>1, <1>6, <3>1, <3>3
  <2>2. ASSUME NEW k \in Depth', current_sync_block_size'[k] # 0
        PROVE  k \in Depth /\ PointsSame(k)
    <3>1. current_sync_block_size'[h] = 0
      BY <1>1, <1>2, <1>t DEF CountsTyped
    <3>2. QED
      BY <1>2, <1>6, <2>2, <3>1
  <2>3. QED
    BY <1>1, <1>t, <2>1, <2>2, ChoicesSame
<1>8. QED
  BY <1>4, <1>5, <1>7 DEF ControlInv

\* __cilksan_invoke_reduce
LEMMA MergeControl ==
  ASSUME StealIInv, __cilksan_invoke_reduce, context_stack = <<"USER">>, ~died'
  PROVE  ControlInv'
<1>0. PICK h : h = frame_head
  OBVIOUS
<1>t. /\ BagTyped /\ ViewsTyped /\ EntriesInv /\ StealShape /\ StealPhases
      /\ TopsCurrent /\ ChoicesKept
  BY DEF StealIInv, StealTyped, Control
<1>1. /\ pc \in {"returning", "joining"} /\ to_reduce > 0 /\ pc' = "reducing"
      /\ UNCHANGED <<context_stack, entryVars, dequeVars, progVars, init_cont_depth>>
  BY DEF __cilksan_invoke_reduce, StealDie, Die
<1>2. MergesTop /\ UNCHANGED <<optionVars, pointVars, chosen>>
  BY MergeKeeps
<1>3. /\ UNCHANGED <<frame_head, current_sync_block_size, curr_view_id, bag_view>>
      /\ Depth' = Depth /\ h \in Levels
      /\ \E next : Pbag' = [Pbag EXCEPT ![h] = IF next # NULL THEN next ELSE @]
  BY <1>0, <1>2, <1>t, Ranges DEF MergesTop, viewVars, Depth
<1>4. UNCHANGED <<prog, prog_depth, entry_type, entry_head>>
  BY <1>1 DEF progVars, entryVars
<1>5. /\ prog[prog_depth] \in {"cilk", "spawned"}
      /\ entry_type[entry_head] = "HELPER" <=> pc = "returning"
  BY <1>1, <1>t, TopIsHelper DEF StealPhases
<1>6. /\ HelperLeaving <=> pc = "returning"
      /\ HelperLeaving' <=> pc = "returning"
      /\ FramePopped' <=> FramePopped
  BY <1>1, <1>4, <1>5 DEF HelperLeaving, FramePopped
<1>7. Control'
  <2>1. Contexts'
    BY <1>1, UserContext
  <2>2. StealPhases'
    BY <1>1, <1>4, <1>5 DEF StealPhases
  <2>3. QED
    BY <1>1, <1>3, <1>6, <2>1, <2>2, ControlSame DEF StealIInv
<1>8. next_continuation_was_stolen(frame_head)' <=> next_continuation_was_stolen(frame_head)
  BY <1>1, <1>2, <1>3 DEF next_continuation_was_stolen, ContDepthOf, optionVars, pointVars
<1>9. TopsCurrent'
  <2>1. ASSUME NEW k \in Depth, k < frame_head PROVE TopCurrent(k)'
    <3>1. TopCurrent(k) /\ k \in Levels /\ k # h
      BY <1>0, <1>t, <2>1, Ranges DEF TopsCurrent
    <3>2. Pbag'[k] = Pbag[k]
      BY <1>3, <1>t, <3>1 DEF BagTyped
    <3>3. QED
      BY <1>3, <3>1, <3>2 DEF TopCurrent
  <2>2. HelperLeaving' => Pbag'[frame_head'] # NULL /\ next_continuation_was_stolen(frame_head)'
    <3>1. HelperLeaving' => Pbag[h] # NULL /\ next_continuation_was_stolen(frame_head)
      BY <1>0, <1>1, <1>6, <1>t DEF TopsCurrent
    <3>2. Pbag[h] # NULL => Pbag'[h] # NULL
      BY <1>3, <1>t DEF BagTyped
    <3>3. QED
      BY <1>0, <1>3, <1>8, <3>1, <3>2
  <2>3. QED
    BY <1>1, <1>3, <2>1, <2>2 DEF TopsCurrent
<1>10. ChoicesKept'
  <2>1. ASSUME NEW i \in 1 .. prog_depth'
        PROVE  i \in 1 .. prog_depth /\ prog'[i] = prog[i] /\ FrameAt(i)' = FrameAt(i)
    BY <1>4, <1>t, FramesStay
  <2>2. QED
    BY <1>1, <1>2, <1>3, <1>t, <2>1, ChoicesStay
<1>11. QED
  BY <1>7, <1>9, <1>10 DEF ControlInv

\* The steal points of a block behind a continuation are those whose index
\* has been passed: none in a new block, but for the point 0.
LEMMA PassedPoint ==
  ASSUME PointsTyped, check_reduce, NEW f \in Levels, NEW size \in Nat \ {0},
         NEW points, PointAsserts(f, size, points),
         \A i \in 1 .. MAX_NUM_STEALS : points[i] \in Nat,
         size # 1 => points = steal_points[f],
         size # 1 /\ steal_index[f] # 0 =>
           steal_index[f] \in 1 .. MAX_NUM_STEALS /\ steal_points[f][steal_index[f]] < size,
         NEW n, n = IndexBefore(f, size, points)
  PROVE  n \in Nat /\ (n # 0 => n \in 1 .. MAX_NUM_STEALS /\ points[n] < size)
<1>1. CASE size # 1
  BY <1>1 DEF IndexBefore, PointsTyped
<1>2. CASE size = 1
  <2>1. /\ points[1] \in Nat /\ points[2] \in Nat /\ points[3] \in Nat
        /\ points[1] < points[2] /\ points[2] < points[3]
    BY <1>2 DEF PointAsserts, MAX_NUM_STEALS
  <2>2. {i \in 1 .. MAX_NUM_STEALS : points[i] < size} = IF points[1] = 0 THEN {1} ELSE {}
    <3>1. 1 .. MAX_NUM_STEALS = {1, 2, 3}
      BY DEF MAX_NUM_STEALS
    <3>2. points[2] # 0 /\ points[3] # 0 /\ \A x \in Nat : x < 1 <=> x = 0
      BY <2>1
    <3>3. \A i \in {1, 2, 3} : points[i] < 1 <=> i = 1 /\ points[1] = 0
      BY <2>1, <3>2
    <3>4. QED
      BY <1>2, <3>1, <3>3
  <2>3. n = Cardinality(IF points[1] = 0 THEN {1} ELSE {})
    BY <1>2, <2>2 DEF IndexBefore
  <2>4. n = IF points[1] = 0 THEN 1 ELSE 0
    <3>1. Cardinality({1}) = 1
      BY FS_Singleton
    <3>2. Cardinality({}) = 0
      BY FS_EmptySet
    <3>3. QED
      BY <2>3, <3>1, <3>2
  <2>5. QED
    BY <1>2, <2>1, <2>4 DEF MAX_NUM_STEALS
<1>3. QED
  BY <1>1, <1>2

\* After a detach, next_continuation_was_stolen answers what
\* should_steal_next_continuation has decided.
LEMMA ChosenAtDetach ==
  ASSUME StealIInv, NEW h, h = frame_head, NEW points, NEW pbag, NEW sbag,
         DetachesView(h, points, pbag, sbag),
         NEW size, size = current_sync_block_size[h] + 1
  PROVE  /\ should_steal(h, size, points) <=> next_continuation_was_stolen(h)'
         /\ check_reduce' /\ steal_index'[h] # 0 =>
              /\ steal_index'[h] \in 1 .. MAX_NUM_STEALS
              /\ steal_points'[h][steal_index'[h]] <= current_sync_block_size'[h]
<1>t. /\ BagTyped /\ CountsTyped /\ OptionsTyped /\ PointsTyped /\ ChoicesKept
      /\ h \in Levels /\ h \in Depth /\ h # h + 1
  BY Ranges DEF StealIInv, StealTyped
<1>1. size \in Nat \ {0} /\ current_sync_block_size[h] = size - 1
  BY <1>t DEF CountsTyped
<1>2. /\ points \in Points(h, size) /\ PointAsserts(h, size, points)
      /\ UNCHANGED <<cont_depth_to_check, check_reduce, simulate_all_steals>>
      /\ steal_points' = [steal_points EXCEPT ![h] = points]
      /\ steal_index' = [steal_index EXCEPT ![h] = IndexAfter(h, size, points)]
      /\ Detaches(pbag, sbag)
  BY DEF DetachesView, optionVars
<1>3. /\ steal_points'[h] = points /\ steal_index'[h] = IndexAfter(h, size, points)
  BY <1>2, <1>t DEF PointsTyped
<1>4. current_sync_block_size'[h] = size /\ init_cont_depth'[h] = init_cont_depth[h]
  <2>1. StartNewFunction(sbag, [current_sync_block_size EXCEPT ![h] = @ + 1])
    BY <1>2 DEF Detaches
  <2>2. /\ current_sync_block_size' =
             [[current_sync_block_size EXCEPT ![h] = @ + 1] EXCEPT ![h + 1] = 0]
        /\ \E depth : init_cont_depth' = [init_cont_depth EXCEPT ![h + 1] = depth]
    BY <2>1 DEF StartNewFunction
  <2>3. QED
    BY <1>t, <2>2 DEF CountsTyped
<1>5. CASE cont_depth_to_check # 0
  BY <1>2, <1>4, <1>5, <1>t DEF should_steal, next_continuation_was_stolen, ContDepthOf, OptionsTyped
<1>6. CASE cont_depth_to_check = 0 /\ ~check_reduce
  BY <1>2, <1>6 DEF should_steal, next_continuation_was_stolen
<1>7. CASE cont_depth_to_check = 0 /\ check_reduce
  <2>1. PICK n : n = IndexBefore(h, size, points)
    OBVIOUS
  <2>2. \A i \in 1 .. MAX_NUM_STEALS : points[i] \in Nat
    BY <1>1, <1>2, <1>t, PointsInRange
  <2>3. size # 1 => points = steal_points[h]
    BY <1>2 DEF Points
  <2>4. size # 1 /\ steal_index[h] # 0 =>
          steal_index[h] \in 1 .. MAX_NUM_STEALS /\ steal_points[h][steal_index[h]] < size
    <3>1. SUFFICES ASSUME size # 1, steal_index[h] # 0
                   PROVE  /\ steal_index[h] \in 1 .. MAX_NUM_STEALS
                          /\ steal_points[h][steal_index[h]] < size
      OBVIOUS
    <3>2. current_sync_block_size[h] # 0
      BY <1>1, <3>1
    <3>3. /\ steal_index[h] \in 1 .. MAX_NUM_STEALS
          /\ steal_points[h][steal_index[h]] <= current_sync_block_size[h]
      BY <1>7, <1>t, <3>1, <3>2 DEF ChoicesKept
    <3>4. steal_points[h][steal_index[h]] \in Nat
      BY <1>t, <3>3 DEF PointsTyped
    <3>5. QED
      BY <1>1, <3>3, <3>4
  <2>5. n \in Nat /\ (n # 0 => n \in 1 .. MAX_NUM_STEALS /\ points[n] < size)
    BY <1>1, <1>2, <1>7, <1>t, <2>1, <2>2, <2>3, <2>4, PassedPoint
  <2>6. CASE should_steal(h, size, points)
    <3>1. n + 1 \in 1 .. MAX_NUM_STEALS /\ points[n + 1] = size
      BY <1>7, <2>1, <2>6 DEF should_steal
    <3>2. steal_index'[h] = n + 1
      BY <1>3, <1>7, <2>1, <2>6 DEF IndexAfter
    <3>3. next_continuation_was_stolen(h)'
      BY <1>2, <1>3, <1>4, <1>7, <2>5, <3>1, <3>2 DEF next_continuation_was_stolen
    <3>4. steal_points'[h][steal_index'[h]] = size
      BY <1>3, <3>1, <3>2
    <3>5. size <= size
      BY <1>1
    <3>6. QED
      BY <1>4, <2>6, <3>1, <3>2, <3>3, <3>4, <3>5
  <2>7. CASE ~should_steal(h, size, points)
    <3>1. steal_index'[h] = n
      BY <1>3, <1>7, <2>1, <2>5, <2>7 DEF IndexAfter
    <3>2. n # 0 => points[n] # size /\ points[n] <= size
      BY <1>1, <2>2, <2>5
    <3>3. ~next_continuation_was_stolen(h)'
      BY <1>2, <1>3, <1>4, <1>7, <1>t, <2>5, <3>1, <3>2
         DEF next_continuation_was_stolen, OptionsTyped
    <3>4. QED
      BY <1>3, <1>4, <2>5, <2>7, <3>1, <3>2, <3>3
  <2>8. QED
    BY <2>6, <2>7
<1>8. QED
  BY <1>5, <1>6, <1>7

\* cilk_detach_end
LEMMA DetachControl ==
  ASSUME StealIInv, NEW h, h = frame_head, NEW points, NEW pbag, NEW sbag,
         DetachesView(h, points, pbag, sbag), DetachesEntry, context_stack = <<"USER">>
  PROVE  ControlInv' /\ IdsNameViews'
<1>0. PICK c, size : c = h + 1 /\ size = current_sync_block_size[h] + 1
  OBVIOUS
<1>t. /\ BagTyped /\ CountsTyped /\ OptionsTyped /\ PointsTyped /\ EntriesInv /\ StealShape
      /\ StealPhases /\ TopsCurrent /\ ChoicesKept /\ PlacedInv /\ IdsNameViews
      /\ CallStack /\ h \in Nat
  BY Ranges DEF StealIInv, StealTyped, Control, PlacedInv, StealShape
<1>1. /\ Detaches(pbag, sbag) /\ InheritViews(c)
      /\ bag_view' = IF Pbag[h] = NULL THEN [bag_view EXCEPT ![pbag] = curr_view_id[h]]
                     ELSE bag_view
      /\ chosen' = [chosen EXCEPT ![entry_head] = IF should_steal(h, size, points)
                                                  THEN TRUE ELSE FALSE]
      /\ steal_points' = [steal_points EXCEPT ![h] = points]
      /\ steal_index' = [steal_index EXCEPT ![h] = IndexAfter(h, size, points)]
      /\ UNCHANGED <<optionVars, view_id>>
  BY <1>0 DEF DetachesView
<1>2. /\ pc = "detaching" /\ pc' = "user" /\ entry_type[entry_head] = "HELPER"
      /\ prog' = [prog EXCEPT ![prog_depth] = "spawned"]
      /\ simulate_steal \/ NoSteal
      /\ UNCHANGED <<entry_head, entry_type, prev_helper, rts_deque_end,
                     youngest_active_helper, prog_depth, context_stack>>
  BY DEF DetachesEntry
<1>3. /\ TopCurrent(h) /\ ~FramePopped /\ ~FramePopped' /\ prog[prog_depth] = "helper"
  BY <1>2, <1>t DEF TopsCurrent, FramePopped, HelperLeaving, StealPhases
<1>4. EntersView(sbag, pbag) /\ pbag \in Nodes
  BY DetachKeeps
<1>5. \/ bag_view' = bag_view /\ pbag = Pbag[frame_head]
      \/ /\ Pbag[frame_head] = NULL /\ pbag \in Nodes /\ dset_size < pbag
         /\ bag_view' = [bag_view EXCEPT ![pbag] = curr_view_id[frame_head]]
  <2>1. CASE Pbag[h] # NULL
    BY <1>1, <2>1 DEF Detaches
  <2>2. CASE Pbag[h] = NULL
    <3>1. pbag = dset_size + 1 /\ dset_size \in Nat
      BY <1>1, <1>t, <2>2, Ranges DEF Detaches
    <3>2. dset_size < pbag
      BY <3>1
    <3>3. QED
      BY <1>1, <1>4, <2>2, <3>2
  <2>3. QED
    BY <2>1, <2>2
<1>6. IdsNameViews'
  BY <1>0, <1>1, <1>4, <1>5, <1>t, EnterIds
<1>7. TopsCurrent'
  BY <1>0, <1>1, <1>2, <1>3, <1>4, <1>5, EnterTops
<1>8. EntriesInv'
  <2>1. frame_type' \in [Entries -> {"SHADOW", "FULL"}] /\ rts_deque_begin' \in Entries
    <3>1. frame_type \in [Entries -> {"SHADOW", "FULL"}] /\ rts_deque_begin \in Entries
          /\ rts_deque_end \in Entries
      BY <1>t DEF EntriesInv, EntriesTyped
    <3>2. QED
      BY <1>2, <3>1 DEF simulate_steal, update_deque_for_simulating_steals, NoSteal
  <2>2. QED
    BY <1>2, <1>t, <2>1, DetachEntryInv
<1>9. frame_head' = frame_head + 1 /\ FrameAt(prog_depth) = frame_head /\ frame_head < MaxFrames
  BY <1>1, <1>3, <1>t DEF Detaches, StartNewFunction, StealShape
<1>10. /\ CallStack' /\ FrameAt(prog_depth)' = frame_head'
       /\ prog_depth \in 2 .. prog_depth
       /\ prog'[prog_depth] = "spawned" /\ FrameAt(prog_depth)' = h + 1
       /\ \A i \in 0 .. (prog_depth - 1) : prog'[i] = prog[i] /\ FrameAt(i)' = FrameAt(i)
  BY <1>2, <1>3, <1>9, <1>t, DetachFrames
<1>11. Control'
  <2>1. Contexts'
    BY <1>2, UserContext
  <2>2. StealPhases'
    BY <1>2 DEF StealPhases
  <2>4. StealShape'
    BY <1>2, <1>3, <1>10 DEF StealShape
  <2>5. QED
    BY <1>8, <2>1, <2>2, <2>4 DEF Control
<1>12. /\ should_steal(h, size, points) <=> next_continuation_was_stolen(h)'
       /\ check_reduce' /\ steal_index'[h] # 0 =>
            /\ steal_index'[h] \in 1 .. MAX_NUM_STEALS
            /\ steal_points'[h][steal_index'[h]] <= current_sync_block_size'[h]
  BY <1>0, ChosenAtDetach
<1>13. /\ h \in Levels /\ c \in Levels /\ Depth' = Depth \cup {c} /\ Depth \subseteq Levels
       /\ h # c /\ 0 .. h \subseteq Levels /\ c \notin 0 .. h
  BY <1>0, <1>9, <1>t, Ranges DEF Depth, Levels
<1>14. /\ current_sync_block_size' = [current_sync_block_size EXCEPT ![h] = size, ![c] = 0]
       /\ \E depth : init_cont_depth' = [init_cont_depth EXCEPT ![c] = depth]
  <2>1. StartNewFunction(sbag, [current_sync_block_size EXCEPT ![h] = @ + 1])
    BY <1>1 DEF Detaches
  <2>2. QED
    BY <1>0, <2>1 DEF StartNewFunction
<1>15. ASSUME NEW k \in Levels, k # h, k # c PROVE PointsSame(k)
  BY <1>1, <1>14, <1>15, <1>t DEF PointsSame, PointsTyped, CountsTyped
<1>16. ASSUME NEW i \in 1 .. prog_depth', prog'[i] = "spawned"
       PROVE  chosen'[i] <=> next_continuation_was_stolen(FrameAt(i) - 1)'
  <2>1. CASE i = prog_depth
    <3>1. FrameAt(i)' - 1 = h
      <4>1. FrameAt(i)' = h + 1
        BY <1>2, <1>10, <2>1 DEF FrameAt, FramesIn
      <4>2. QED
        BY <1>t, <4>1
    <3>2. next_continuation_was_stolen(FrameAt(i) - 1)' <=> next_continuation_was_stolen(h)'
      BY <3>1 DEF next_continuation_was_stolen, ContDepthOf
    <3>3. chosen'[i] <=> should_steal(h, size, points)
      <4>1. chosen \in [Entries -> BOOLEAN] /\ i \in Entries /\ i = entry_head
        BY <1>t, <2>1, EntryRanges DEF PointsTyped
      <4>2. QED
        BY <1>1, <4>1
    <3>4. QED
      BY <1>12, <3>2, <3>3
  <2>2. CASE i # prog_depth
    <3>1. i \in 0 .. (prog_depth - 1) /\ i \in 1 .. prog_depth /\ i \in Entries /\ i # entry_head
      BY <1>2, <1>t, <2>2, EntryRanges
    <3>2. prog[i] = "spawned" /\ FrameAt(i)' = FrameAt(i)
      BY <1>10, <1>16, <3>1
    <3>3. FrameAt(i) \in Nat /\ FrameAt(i) - 1 \in Nat /\ FrameAt(i) <= h
      BY <1>9, <1>t, <3>1, <3>2, SpawnedFrames
    <3>4. FrameAt(i) - 1 \in 0 .. h /\ FrameAt(i) - 1 # h
      BY <1>t, <3>3
    <3>5. PICK f : f = FrameAt(i) - 1
      OBVIOUS
    <3>6. f \in Levels /\ f # h /\ f # c
      BY <1>13, <3>4, <3>5
    <3>7. next_continuation_was_stolen(f)' <=> next_continuation_was_stolen(f)
      BY <1>1, <1>15, <3>6, StolenKept
    <3>8. next_continuation_was_stolen(FrameAt(i) - 1)' <=> next_continuation_was_stolen(f)'
      BY <3>2, <3>5 DEF next_continuation_was_stolen, ContDepthOf
    <3>9. chosen'[i] <=> chosen[i]
      BY <1>1, <1>t, <3>1 DEF PointsTyped
    <3>10. chosen[i] <=> next_continuation_was_stolen(f)
      BY <1>t, <3>1, <3>2, <3>5 DEF ChoicesKept
    <3>11. QED
      BY <3>7, <3>8, <3>9, <3>10
  <2>3. QED
    BY <2>1, <2>2
<1>17. ASSUME NEW k \in Depth', check_reduce' /\ current_sync_block_size'[k] # 0 /\ steal_index'[k] # 0
       PROVE  /\ steal_index'[k] \in 1 .. MAX_NUM_STEALS
              /\ steal_points'[k][steal_index'[k]] <= current_sync_block_size'[k]
  <2>1. CASE k = h
    BY <1>12, <1>17, <2>1
  <2>2. CASE k # h
    <3>1. current_sync_block_size'[c] = 0
      BY <1>13, <1>14, <1>t DEF CountsTyped
    <3>2. k \in Depth /\ k \in Levels /\ k # c
      BY <1>13, <1>17, <3>1
    <3>3. PointsSame(k) /\ check_reduce' = check_reduce
      BY <1>1, <1>15, <2>2, <3>2 DEF optionVars
    <3>4. QED
      BY <1>17, <1>t, <3>2, <3>3 DEF PointsSame, ChoicesKept
  <2>3. QED
    BY <2>1, <2>2
<1>18. ChoicesKept'
  BY <1>16, <1>17 DEF ChoicesKept
<1>19. QED
  BY <1>6, <1>7, <1>11, <1>18 DEF ControlInv

-----------------------------------------------------------------------------
(***************************************************************************)
(* The start, and every step.                                              *)
(***************************************************************************)
\* The options, as parse_input reads them.
LEMMA ParsedOptions ==
  ASSUME NEW c \in CommandLines, parse_input(c)
  PROVE  OptionsTyped
<1>1. /\ c.update \in Nat /\ c.sb_size \in Nat
      /\ c.steal = <<0, 0, 0>> \/ (c.steal \in Seq(Nat) /\ Len(c.steal) = 3)
  BY CommandLinesAssumption
<1>2. \A i \in 1 .. MAX_NUM_STEALS : c.steal[i] \in Nat
  <2>1. CASE c.steal = <<0, 0, 0>>
    BY <2>1 DEF MAX_NUM_STEALS
  <2>2. CASE c.steal \in Seq(Nat) /\ Len(c.steal) = 3
    BY <2>2 DEF MAX_NUM_STEALS
  <2>3. QED
    BY <1>1, <2>1, <2>2
<1>3. cont_depth_to_check = c.update /\ max_sync_block_size = c.sb_size /\ steal_point = c.steal
  BY DEF parse_input
<1>4. cont_depth_to_check # 0 => ~check_reduce /\ ~simulate_all_steals
  BY DEF parse_input
<1>5. ~(check_reduce /\ simulate_all_steals)
  BY DEF parse_input
<1>6. QED
  BY <1>1, <1>2, <1>3, <1>4, <1>5 DEF OptionsTyped

\* The invariant holds when main starts, in view 1.
LEMMA StealInitInv == ASSUME StealInit PROVE StealIInv /\ SPBagsCorrect
<1>1. Init /\ TypeOK /\ EntriesMatch /\ BagInv
  BY InitInv DEF StealInit
<1>2. BagTyped /\ CountsTyped /\ EntriesInv
  BY <1>1, TypeParts DEF EntriesInv
<1>3. /\ MaxFrames \in Nat /\ MaxEntries \in Nat /\ 0 \in Levels /\ 0 \in Entries
      /\ 1 \in Strands /\ 1 \in Nodes /\ NULL # 1 /\ Levels \subseteq Nat
      /\ frame_head = 0 /\ prog_depth = 0 /\ entry_head = 0 /\ nstrands = 1 /\ dset_size = 1
      /\ Depth = {0} /\ 1 .. nstrands = {1} /\ pc = "user"
  BY <1>1, BoundsAssumption DEF Init, Levels, Entries, Strands, Nodes, Depth
<1>4. /\ views[0] = <<1>> /\ Views(0) = 1 /\ LastOf(views[0]) = 1 /\ 1 .. Views(0) = {1}
      /\ views[0][1] = 1 /\ below[0] = <<>> /\ Len(below[0]) = 0
      /\ Skipped(0) = 0 /\ Pbag[0] = NULL /\ Slot(0, 1) = NULL
  <2>1. views[0] = <<1>> /\ below[0] = <<>> /\ Pbag[0] = NULL
    BY <1>1, <1>3 DEF StealInit, Init
  <2>2. Views(0) = 1 /\ Len(below[0]) = 0
    BY <2>1 DEF Views
  <2>3. QED
    BY <2>1, <2>2 DEF Skipped, Slot, LastOf
<1>5. OptionsTyped
  BY ParsedOptions DEF StealInit
<1>6. PointsTyped
  BY DEF StealInit, PointsTyped, MAX_NUM_STEALS
<1>7. ViewsTyped
  <2>1. below \in [Levels -> Seq(Nodes \cup {NULL})]
    BY DEF StealInit
  <2>2. views \in [Levels -> Seq(Strands)]
    <3>1. <<1>> \in Seq(Strands) /\ <<>> \in Seq(Strands)
      BY <1>3
    <3>2. QED
      BY <3>1 DEF StealInit
  <2>3. QED
    BY <1>3, <2>1, <2>2 DEF StealInit, ViewsTyped
<1>8. StacksShaped
  BY <1>3, <1>4 DEF StacksShaped
<1>9. StealBagsDistinct
  <2>1. Sbag[0] = 1 /\ set_node[1] = 1 /\ kind[1] = "S" /\ \A k \in Levels : Pbag[k] = NULL
    BY <1>1, <1>3 DEF Init
  <2>2. QED
    BY <1>3, <1>4, <2>1 DEF StealBagsDistinct
<1>10. NodesInUse
  BY <1>1 DEF BagInv
<1>11. StrandsInViews
  <2>1. SerialAt(1, 0)
    BY <1>1, <1>3 DEF Init, SerialAt, rep
  <2>2. view_of[1] = 1
    BY <1>3 DEF StealInit
  <2>3. SerialIn(1, 0)
    BY <1>4, <2>1, <2>2 DEF SerialIn
  <2>4. QED
    BY <1>3, <2>3 DEF StrandsInViews, InView
<1>12. ViewsDistinct
  BY <1>3, <1>4 DEF ViewsDistinct, HelperLeaving
<1>13. RunningStrand
  BY <1>1, <1>3 DEF RunningStrand, Init
<1>14. /\ \A k \in Levels : curr_view_id[k] < view_id
       /\ \A n \in Nodes : bag_view[n] < view_id
  BY <1>3 DEF StealInit
<1>15. IdsNameViews
  <2>1. ASSUME NEW id, NEW w, Names(id, w) PROVE w = 1
    BY <1>3, <1>4, <2>1 DEF Names
  <2>2. \A id \in 0 .. view_id : \A w, x \in Strands : Names(id, w) /\ Names(id, x) => w = x
    BY <2>1, Zenon
  <2>3. QED
    BY <1>14, <2>2 DEF IdsNameViews
<1>16. TopsCurrent
  BY <1>3, <1>4 DEF TopsCurrent, TopCurrent, HelperLeaving
<1>17. ChoicesKept
  BY <1>1, <1>3 DEF ChoicesKept, Init
<1>18. Control
  <2>1. FrameAt(prog_depth) = 0
    BY <1>3, FramesInZero DEF FrameAt
  <2>2. CallStack
    BY <1>1, <1>3 DEF CallStack, Init
  <2>3. StealShape
    BY <1>3, <2>1, <2>2 DEF StealShape, FramePopped, HelperLeaving
  <2>4. StealPhases
    BY <1>3 DEF StealPhases
  <2>5. Contexts
    BY DEF Contexts, StealInit
  <2>6. QED
    BY <1>2, <2>3, <2>4, <2>5 DEF Control
<1>19. SPBagsCorrect
  BY <1>1, SPBagsFromInv DEF IInv
<1>20. QED
  BY <1>2, <1>5, <1>6, <1>7, <1>8, <1>9, <1>10, <1>11, <1>12, <1>13, <1>15, <1>16, <1>17,
     <1>18, <1>19 DEF StealIInv, StealTyped, Placed

\* What SPBagsCorrect speaks of.
BagView == <<nstrands, kind, set_node, owner, past, frame_head>>

\* A step whose assertion fails moves no bag: the process ends there.
LEMMA DiesInPlace ==
  ASSUME StealNext, died'
  PROVE  UNCHANGED BagView
<1> USE DEF BagView, bagVars, frameVars, dsetVars, dagVars
<1>1. ~died
  BY DEF StealNext, ProgramNext, ViewNext
<1>2. CASE Die
  BY <1>2 DEF Die
<1>3. CASE Untouched /\ UNCHANGED stealVars
  <2>1. CASE cilk_enter_helper_begin
    BY <2>1, <1>1, <1>2 DEF cilk_enter_helper_begin
  <2>2. CASE cilk_enter_end
    BY <2>2, <1>1, <1>2 DEF cilk_enter_end
  <2>3. CASE cilk_spawn_prepare \/ cilk_spawn_or_continue \/ cilk_detach_begin \/ cilk_sync_begin
    BY <2>3, <1>1, <1>2
       DEF cilk_spawn_prepare, cilk_spawn_or_continue, cilk_detach_begin, cilk_sync_begin
  <2>4. CASE __cilksan_disable_checking \/ __cilksan_enable_checking \/ cilksan_deinit
    BY <2>4, <1>1, <1>2 DEF __cilksan_disable_checking, __cilksan_enable_checking, cilksan_deinit
  <2>5. QED
    BY <1>3, <2>1, <2>2, <2>3, <2>4 DEF Untouched
<1>4. CASE \/ __cilksan_check_for_reduce_interval_return
           \/ __cilksan_check_for_reduce_interval_sync
  BY <1>4 DEF __cilksan_check_for_reduce_interval_return, __cilksan_check_for_reduce_interval_sync,
              check_for_reduce_interval, StealDie, Die
<1>5. CASE steal_enter_begin
  BY <1>5, <1>1, <1>2 DEF steal_enter_begin, cilk_enter_begin, StealDie
<1>6. CASE steal_detach_end
  BY <1>6, <1>1, <1>2 DEF steal_detach_end, StealDie
<1>7. CASE __cilksan_invoke_reduce
  BY <1>7, <1>1, <1>2 DEF __cilksan_invoke_reduce, StealDie
<1>8. CASE steal_leave_begin
  BY <1>8, <1>1, <1>2 DEF steal_leave_begin, cilk_leave_begin, StealDie
<1>9. CASE steal_leave_end_helper \/ __cilksan_do_leave_stolen_callback
  BY <1>9, <1>2 DEF steal_leave_end_helper, __cilksan_do_leave_stolen_callback, LeaveHelper, StealDie
<1>10. CASE steal_leave_end_function
  BY <1>10, <1>2 DEF steal_leave_end_function, cilk_leave_end
<1>11. CASE steal_continue \/ steal_joined
  BY <1>11, <1>2 DEF steal_continue, steal_joined, StealDie
<1>12. CASE steal_sync_end
  BY <1>12, <1>1, <1>2 DEF steal_sync_end, cilk_sync_end, StealDie
<1>13. CASE ViewNext
  BY <1>13, <1>2 DEF ViewNext, __cilksan_begin_reduce_strand, __cilksan_end_reduce_strand,
                     __cilksan_begin_update_strand, __cilksan_end_update_strand,
                     ContextChanges, StealDie
<1>14. QED
  BY <1>3, <1>4, <1>5, <1>6, <1>7, <1>8, <1>9, <1>10, <1>11, <1>12, <1>13
     DEF StealNext, ProgramNext

\* Every handler that passes its assertions keeps the invariant.
LEMMA StealStep ==
  ASSUME StealIInv, StealNext, ~died'
  PROVE  StealIInv'
<1>s. SUFFICES PlacedInv' /\ ControlInv' /\ IdsNameViews'
  BY DEF StealIInv, PlacedInv, ControlInv
<1>t. PlacedInv /\ IdsNameViews /\ chosen \in [Entries -> BOOLEAN]
  BY DEF StealIInv, PlacedInv, StealTyped, PointsTyped
<1>1. CASE QuietNext
  <2>1. QuietStep /\ UNCHANGED <<optionVars, pointVars, chosen>>
    BY <1>1, QuietActions
  <2>2. PlacedInv' /\ IdsNameViews'
    BY <1>t, <2>1, QuietKeeps, QuietIds
  <2>3. ControlInv'
    <3>1. CASE ViewNext
      BY <3>1, ViewControl
    <3>2. CASE ~ViewNext
      <4>1. context_stack = <<"USER">>
        BY <3>2 DEF StealNext, ProgramNext
      <4>2. QED
        BY <1>1, <3>2, <4>1, UntouchedControl, IntervalControl, LeaveFunctionControl,
           RuntimeControl DEF QuietNext
    <3>3. QED
      BY <3>1, <3>2
  <2>4. QED
    BY <2>2, <2>3
<1>2. CASE ~QuietNext
  <2>1. context_stack = <<"USER">>
    BY <1>2 DEF StealNext, ProgramNext, QuietNext
  <2>2. CASE steal_enter_begin
    BY <2>1, <2>2, EnterKeeps, EnterControl
  <2>3. CASE steal_detach_end
    <3>1. BagTyped /\ CountsTyped
      BY DEF StealIInv, StealTyped
    <3>2. PICK h : h = frame_head
      OBVIOUS
    <3>3. DetachesEntry /\ \E points, pbag, sbag : DetachesView(h, points, pbag, sbag)
      BY <2>3, <3>1, <3>2, DetachFacts
    <3>4. PICK points, pbag, sbag : DetachesView(h, points, pbag, sbag)
      BY <3>3
    <3>5. PlacedInv'
      BY <3>2, <3>3, <3>4, DetachKeeps
    <3>6. ControlInv' /\ IdsNameViews'
      BY <2>1, <3>2, <3>3, <3>4, DetachControl
    <3>7. QED
      BY <3>5, <3>6
  <2>4. CASE __cilksan_invoke_reduce
    <3>1. PlacedInv' /\ MergesTop
      BY <2>4, MergeKeeps
    <3>2. QED
      BY <1>t, <2>1, <2>4, <3>1, MergeIds, MergeControl
  <2>5. CASE steal_leave_begin
    BY <2>1, <2>5, LeaveKeeps, LeaveIds, LeaveControl
  <2>6. CASE steal_leave_end_helper \/ __cilksan_do_leave_stolen_callback
    <3>1. LeavesHelper
      BY <2>6 DEF LeavesHelper
    <3>2. QED
      BY <2>1, <3>1, LeaveHelperKeeps, LeaveHelperIds, LeaveHelperControl
  <2>7. CASE steal_sync_end
    BY <2>1, <2>7, SyncKeeps, SyncIds, SyncControl
  <2>8. QED
    BY <1>2, <2>2, <2>3, <2>4, <2>5, <2>6, <2>7 DEF StealNext, ProgramNext, QuietNext
<1>3. QED
  BY <1>1, <1>2

\* Nor does the process change it by doing nothing.
LEMMA StealStutter ==
  ASSUME StealIInv, UNCHANGED <<vars, stealVars>>
  PROVE  StealIInv'
<1>t. PlacedInv /\ ControlInv /\ IdsNameViews
  BY DEF StealIInv, PlacedInv, ControlInv
<1>1. /\ UNCHANGED <<entryVars, dequeVars, bagVars, pc, progVars>>
      /\ UNCHANGED <<optionVars, pointVars, below, viewVars, runtimeVars, chosen, views, view_of>>
  BY DEF vars, stealVars, historyVars
<1>2. QuietStep /\ UNCHANGED <<optionVars, pointVars>> /\ UNCHANGED frame_head
  BY <1>1 DEF QuietStep, HelperLeaving, entryVars, bagVars, frameVars
<1>3. PlacedInv' /\ IdsNameViews'
  <2>1. chosen' \in [Entries -> BOOLEAN]
    BY <1>1, <1>t DEF PlacedInv, StealTyped, PointsTyped
  <2>2. QED
    BY <1>2, <1>t, <2>1, QuietKeeps, QuietIds
<1>4. FramePopped' <=> FramePopped
  BY <1>1 DEF FramePopped, HelperLeaving, entryVars
<1>5. StealPhases'
  BY <1>1, <1>t DEF StealPhases, ControlInv, Control, progVars
<1>6. Contexts'
  BY <1>1, <1>t DEF Contexts, ControlInv, Control, runtimeVars, bagVars, frameVars
<1>7. ControlInv'
  <2>1. UNCHANGED <<pc, to_reduce>>
    BY <1>1 DEF runtimeVars
  <2>2. /\ TopCurrent(frame_head) \/ pc' \in {"syncing", "joining", "returning", "reducing"}
        /\ pc' = "reducing" /\ HelperLeaving' => next_continuation_was_stolen(frame_head)
        /\ pc' = "returning" /\ to_reduce' > 0 => next_continuation_was_stolen(frame_head)
    BY <1>2, <1>t, <2>1 DEF QuietStep, ControlInv, TopsCurrent
  <2>3. UNCHANGED <<entryVars, dequeVars, progVars>> /\ UNCHANGED <<optionVars, pointVars, chosen>>
    BY <1>1
  <2>4. QED
    BY <1>2, <1>4, <1>5, <1>6, <2>2, <2>3, QuietControl
<1>8. QED
  BY <1>3, <1>7 DEF StealIInv, PlacedInv, ControlInv

-----------------------------------------------------------------------------
(***************************************************************************)
(* What the invariant says of the bags.                                    *)
(***************************************************************************)
\* Where strand s is: in the S-bag of a frame, which it precedes; or in the
\* P-bag of a frame for the view it is in, and then it precedes none.
LEMMA StrandIn ==
  ASSUME StealIInv, NEW s \in 1 .. nstrands
  PROVE  \E k \in Depth :
           \/ /\ BagOf(s) = Sbag[k] /\ is_SBag(BagOf(s)) /\ ~is_PBag(BagOf(s))
              /\ s \in past[frame_head] /\ \A j \in Depth : s \in joined[j] => s \in past[j]
           \/ \E v \in 1 .. Views(k) :
                /\ BagOf(s) = Slot(k, v) /\ Slot(k, v) # NULL
                /\ is_PBag(BagOf(s)) /\ ~is_SBag(BagOf(s))
                /\ view_of[s] = views[k][v] /\ s \notin past[frame_head]
                /\ \A j \in Depth : s \in joined[j] => j = k
<1>t. BagTyped /\ StealBagsDistinct /\ NodesInUse /\ StrandsInViews
  BY DEF StealIInv, StealTyped, Placed
<1>1. frame_head \in Depth /\ \A k \in Depth : k <= frame_head
  BY <1>t, Ranges DEF Depth
<1>2. rep(s) \in Nodes /\ rep(s) # NULL /\ BagOf(s) = rep(s)
  BY <1>t, Ranges DEF NodesInUse, BagTyped, rep, BagOf, get_set_node
<1>3. PICK k \in Depth : InView(s, k)
  BY <1>t DEF StrandsInViews
<1>4. CASE SerialIn(s, k)
  <2>1. /\ rep(s) = Sbag[k] /\ s \in past[frame_head]
        /\ \A j \in Depth : s \in joined[j] => s \in past[j]
    BY <1>1, <1>4 DEF SerialIn, SerialAt
  <2>2. kind[rep(s)] = "S"
    BY <1>t, <2>1 DEF StealBagsDistinct
  <2>3. QED
    BY <1>2, <2>1, <2>2 DEF is_SBag, is_PBag
<1>5. ASSUME NEW v \in 1 .. Views(k), ParallelIn(s, k, v)
      PROVE  /\ BagOf(s) = Slot(k, v) /\ Slot(k, v) # NULL
             /\ is_PBag(BagOf(s)) /\ ~is_SBag(BagOf(s))
             /\ view_of[s] = views[k][v] /\ s \notin past[frame_head]
             /\ \A j \in Depth : s \in joined[j] => j = k
  <2>1. /\ rep(s) = Slot(k, v) /\ view_of[s] = views[k][v] /\ s \notin past[frame_head]
        /\ \A j \in Depth : s \in joined[j] => j = k
    BY <1>1, <1>5 DEF ParallelIn
  <2>2. kind[rep(s)] = "P"
    BY <1>2, <1>t, <2>1 DEF StealBagsDistinct
  <2>3. QED
    BY <1>2, <2>1, <2>2 DEF is_SBag, is_PBag
<1>6. QED
  BY <1>3, <1>4, <1>5 DEF InView

\* So the bags answer the question SP-bags asks of them.
LEMMA SPBagsFromStealInv == ASSUME StealIInv PROVE SPBagsCorrect
  BY StrandIn DEF SPBagsCorrect

\* Two views of one frame are different, and so are its P-bags.
LEMMA ViewsOfFrame ==
  ASSUME StealIInv, NEW k \in Depth, NEW u \in 1 .. Views(k), NEW v \in 1 .. Views(k)
  PROVE  /\ views[k][u] = views[k][v] => u = v
         /\ Slot(k, u) # NULL /\ Slot(k, u) = Slot(k, v) => u = v
         /\ Views(k) \in 1 .. Views(k) /\ LastOf(views[k]) = views[k][Views(k)]
         /\ Slot(k, Views(k)) = Pbag[k]
<1>t. BagTyped /\ ViewsTyped /\ StacksShaped /\ StealBagsDistinct /\ ViewsDistinct
  BY DEF StealIInv, StealTyped, Placed
<1>1. /\ Views(k) \in Nat /\ Views(k) \in 1 .. Views(k) /\ LastOf(views[k]) = views[k][Views(k)]
      /\ Slot(k, Views(k)) = Pbag[k]
  BY <1>t, SlotRanges
<1>2. u < v \/ v < u \/ u = v
  BY <1>1
<1>3. views[k][u] = views[k][v] => u = v
  BY <1>2, <1>t DEF ViewsDistinct
<1>4. Slot(k, u) # NULL /\ Slot(k, u) = Slot(k, v) => u = v
  BY <1>t DEF StealBagsDistinct
<1>5. QED
  BY <1>1, <1>3, <1>4

\* The P-bags of a frame split the children it waits for by view.
LEMMA SplitByView == ASSUME StealIInv PROVE PBagsSplitByView
<1>t. NodesInUse /\ Depth = 0 .. frame_head
  BY DEF StealIInv, Placed, Depth
<1>1. ASSUME NEW k \in Depth, NEW s \in joined[k] \ past[k]
      PROVE  \E v \in 1 .. Views(k) : /\ BagOf(s) = Slot(k, v) /\ Slot(k, v) # NULL
                                      /\ is_PBag(BagOf(s)) /\ view_of[s] = views[k][v]
  <2>1. s \in 1 .. nstrands
    BY <1>t DEF NodesInUse
  <2>2. QED
    BY <2>1, StrandIn
<1>2. ASSUME NEW k \in Depth, NEW s \in joined[k] \ past[k], NEW t \in joined[k] \ past[k]
      PROVE  /\ is_PBag(BagOf(s))
             /\ BagOf(s) = Pbag[k] <=> view_of[s] = LastOf(views[k])
             /\ BagOf(s) = BagOf(t) <=> view_of[s] = view_of[t]
  <2>1. PICK u \in 1 .. Views(k) : /\ BagOf(s) = Slot(k, u) /\ Slot(k, u) # NULL
                                   /\ is_PBag(BagOf(s)) /\ view_of[s] = views[k][u]
    BY <1>1
  <2>2. PICK v \in 1 .. Views(k) : BagOf(t) = Slot(k, v) /\ view_of[t] = views[k][v]
    BY <1>1
  <2>3. Views(k) \in 1 .. Views(k) /\ LastOf(views[k]) = views[k][Views(k)]
        /\ Slot(k, Views(k)) = Pbag[k]
    BY ViewsOfFrame
  <2>4. BagOf(s) = Pbag[k] <=> view_of[s] = LastOf(views[k])
    <3>1. PICK n \in 1 .. Views(k) : n = Views(k)
      BY <2>3
    <3>2. /\ views[k][u] = views[k][n] => u = n
          /\ Slot(k, u) = Slot(k, n) => u = n
      BY <2>1, ViewsOfFrame
    <3>3. QED
      BY <2>1, <2>3, <3>1, <3>2
  <2>5. BagOf(s) = BagOf(t) <=> view_of[s] = view_of[t]
    <3>1. /\ views[k][u] = views[k][v] => u = v
          /\ Slot(k, u) = Slot(k, v) => u = v
      BY <2>1, ViewsOfFrame
    <3>2. QED
      BY <2>1, <2>2, <3>1
  <2>6. QED
    BY <2>1, <2>4, <2>5
<1>3. QED
  BY <1>2, <1>t DEF PBagsSplitByView

\* The id a strand that works on views is judged by names the view of the
\* frame on top.
LEMMA ContextNames ==
  ASSUME StealIInv, LastOf(context_stack) # "USER"
  PROVE  /\ Names(view_in_context, LastOf(views[frame_head]))
         /\ Pbag[frame_head] # NULL => bag_view[Pbag[frame_head]] = view_in_context
<1>t. /\ BagTyped /\ ViewsTyped /\ StacksShaped /\ StealBagsDistinct /\ TopsCurrent /\ Contexts
      /\ frame_head \in Depth
  BY Ranges DEF StealIInv, StealTyped, Placed, Control
<1>1. PICK h \in Depth : h = frame_head
  BY <1>t
<1>2. PICK v \in 1 .. Views(h) :
        Slot(h, v) = Pbag[h] /\ views[h][v] = LastOf(views[h])
  BY <1>t, SlotRanges
<1>3. /\ Len(context_stack) \in 2 .. Len(context_stack)
      /\ LastOf(context_stack) = IF pc = "reducing" THEN "REDUCE" ELSE "UPDATE"
      /\ pc = "user" \/ (pc = "reducing" /\ Pbag[h] # NULL)
  <2>1. Len(context_stack) \in Nat /\ Len(context_stack) > 0 /\ Len(context_stack) # 1
    BY <1>t DEF Contexts, LastOf
  <2>2. Len(context_stack) \in 2 .. Len(context_stack) /\ Len(context_stack) > 1
    BY <2>1
  <2>3. QED
    BY <1>1, <1>t, <2>2 DEF Contexts, LastOf
<1>4. CASE pc = "reducing"
  <2>1. Pbag[h] # NULL /\ set_node[Pbag[h]] = Pbag[h]
    BY <1>2, <1>3, <1>4, <1>t DEF StealBagsDistinct
  <2>2. view_in_context = bag_view[Pbag[h]]
    BY <1>1, <1>3, <1>4, <2>1 DEF view_in_context, get_set_node
  <2>3. Names(view_in_context, LastOf(views[h]))
    BY <1>2, <2>1, <2>2 DEF Names
  <2>4. QED
    BY <1>1, <2>2, <2>3
<1>5. CASE pc = "user"
  <2>1. view_in_context = curr_view_id[h]
    BY <1>1, <1>3, <1>5 DEF view_in_context
  <2>2. Names(view_in_context, LastOf(views[h]))
    BY <2>1 DEF Names
  <2>3. TopCurrent(h)
    BY <1>1, <1>5, <1>t DEF TopsCurrent
  <2>4. QED
    BY <1>1, <2>1, <2>2, <2>3 DEF TopCurrent
<1>6. QED
  BY <1>3, <1>4, <1>5

\* An access in another view races with such a strand, and one that a child
\* has made in the same view does not.
LEMMA RacesByView == ASSUME StealIInv PROVE ViewRacesFound
<1>1. SUFFICES ASSUME LastOf(context_stack) # "USER"
               PROVE  /\ \A s \in (1 .. nstrands) \ past[frame_head] :
                           view_of[s] # LastOf(views[frame_head]) => races_with(s)
                      /\ \A s \in joined[frame_head] \ past[frame_head] :
                           view_of[s] = LastOf(views[frame_head]) => ~races_with(s)
  BY DEF ViewRacesFound
<1>t. BagTyped /\ ViewsTyped /\ StacksShaped /\ NodesInUse /\ IdsNameViews /\ PlacedInv
  BY DEF StealIInv, StealTyped, Placed, PlacedInv
<1>2. PICK h \in Depth : h = frame_head
  BY <1>t, Ranges
<1>3. /\ Names(view_in_context, LastOf(views[h]))
      /\ Pbag[h] # NULL => bag_view[Pbag[h]] = view_in_context
  BY <1>1, <1>2, ContextNames
<1>4. LastOf(views[h]) \in Strands /\ \A k \in Depth : \A v \in 1 .. Views(k) : views[k][v] \in Strands
  BY <1>t, SlotRanges
<1>5. ASSUME NEW s \in (1 .. nstrands) \ past[h], view_of[s] # LastOf(views[h])
      PROVE  races_with(s)
  <2>0. PICK k \in Depth : \E v \in 1 .. Views(k) :
          /\ BagOf(s) = Slot(k, v) /\ Slot(k, v) # NULL
          /\ is_PBag(BagOf(s)) /\ view_of[s] = views[k][v]
    BY <1>2, StrandIn
  <2>1. PICK v \in 1 .. Views(k) :
          /\ BagOf(s) = Slot(k, v) /\ Slot(k, v) # NULL
          /\ is_PBag(BagOf(s)) /\ view_of[s] = views[k][v]
    BY <2>0
  <2>2. Names(bag_view[BagOf(s)], views[k][v])
    BY <2>1 DEF Names
  <2>3. bag_view[BagOf(s)] # view_in_context
    <3>1. SUFFICES ASSUME bag_view[BagOf(s)] = view_in_context PROVE FALSE
      OBVIOUS
    <3>2. PICK id : id = view_in_context
      OBVIOUS
    <3>3. Names(id, views[k][v]) /\ Names(id, LastOf(views[h]))
      BY <1>3, <2>2, <3>1, <3>2
    <3>4. id \in 0 .. view_id
      BY <1>t, <3>3, NamesTaken
    <3>5. views[k][v] = LastOf(views[h])
      BY <1>4, <1>t, <3>3, <3>4 DEF IdsNameViews
    <3>6. QED
      BY <1>5, <2>1, <3>5
  <2>4. QED
    BY <2>1, <2>3 DEF races_with
<1>6. ASSUME NEW s \in joined[h] \ past[h], view_of[s] = LastOf(views[h])
      PROVE  ~races_with(s)
  <2>1. s \in 1 .. nstrands
    BY <1>t DEF NodesInUse
  <2>2. PICK v \in 1 .. Views(h) :
          BagOf(s) = Slot(h, v) /\ Slot(h, v) # NULL /\ view_of[s] = views[h][v]
    BY <2>1, StrandIn
  <2>3. PICK n \in 1 .. Views(h) : n = Views(h)
    BY <2>2, ViewsOfFrame
  <2>4. LastOf(views[h]) = views[h][n] /\ Slot(h, n) = Pbag[h] /\ (views[h][v] = views[h][n] => v = n)
    BY <2>3, ViewsOfFrame
  <2>5. BagOf(s) = Pbag[h] /\ Pbag[h] # NULL
    BY <1>6, <2>2, <2>4
  <2>6. QED
    BY <1>1, <1>3, <2>5 DEF races_with
<1>7. QED
  BY <1>2, <1>5, <1>6

-----------------------------------------------------------------------------
(***************************************************************************)
(* The theorems.                                                           *)
(***************************************************************************)
\* Until the process ends the invariant holds, and after that the bags are as
\* they were.
LEMMA StealInvariant == StealSpec => [](SPBagsCorrect /\ (~died => StealIInv))
<1>1. StealInit => SPBagsCorrect /\ (~died => StealIInv)
  BY StealInitInv
<1>b. StealIInv => SPBagsCorrect
  BY SPBagsFromStealInv
<1>c. StealIInv' => SPBagsCorrect'
  BY <1>b, PTL
<1>2. SPBagsCorrect /\ (~died => StealIInv) /\ [StealNext]_<<vars, stealVars>>
        => (SPBagsCorrect /\ (~died => StealIInv))'
  <2>1. SUFFICES ASSUME SPBagsCorrect, ~died => StealIInv, [StealNext]_<<vars, stealVars>>
                 PROVE  SPBagsCorrect' /\ (~died' => StealIInv')
    OBVIOUS
  <2>2. UNCHANGED BagView => SPBagsCorrect'
    BY <2>1 DEF SPBagsCorrect, BagView, BagOf, get_set_node, is_SBag, is_PBag
  <2>4. CASE StealNext
    <3>1. ~died
      BY <2>4 DEF StealNext, ProgramNext, ViewNext
    <3>2. CASE died'
      BY <2>2, <2>4, <3>2, DiesInPlace
    <3>3. CASE ~died'
      BY <1>c, <2>1, <2>4, <3>1, <3>3, StealStep
    <3>4. QED
      BY <3>2, <3>3
  <2>5. CASE UNCHANGED <<vars, stealVars>>
    <3>1. UNCHANGED BagView /\ died' = died
      BY <2>5 DEF vars, BagView, bagVars, frameVars, dsetVars, dagVars
    <3>2. QED
      BY <2>1, <2>2, <2>5, <3>1, StealStutter
  <2>6. QED
    BY <2>1, <2>4, <2>5
<1>3. QED
  BY <1>1, <1>2, PTL DEF StealSpec

\* SP-bags survives the simulated steals: whichever continuations are chosen,
\* at whatever depth and in whatever order their views are merged again, the
\* bag of a strand is an S-bag exactly when the strand precedes the running
\* one, and a P-bag exactly when the two are parallel.
THEOREM StealSPBagsCorrectInv == StealSpec => []SPBagsCorrect
  BY StealInvariant, PTL

\* The stack Pbags of a frame splits the children it waits for by view:
\* update_reducer_view and update_disjointsets keep one P-bag per view, and
\* what returns goes to the P-bag of the view it ran in.
THEOREM PBagsSplitByViewInv == StealSpec => []PBagsSplitByView
<1>1. (~died => StealIInv) => PBagsSplitByView
  BY SplitByView DEF PBagsSplitByView, InUserCode
<1>2. QED
  BY <1>1, StealInvariant, PTL

\* races_with finds every race of a strand that works on a view, and reports
\* none with a child of the running frame that is in the same view.
THEOREM ViewRacesFoundInv == StealSpec => []ViewRacesFound
<1>1. (~died => StealIInv) => ViewRacesFound
  BY RacesByView DEF ViewRacesFound
<1>2. QED
  BY <1>1, StealInvariant, PTL
=============================================================================
