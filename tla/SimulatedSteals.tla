--------------------------- MODULE SimulatedSteals ---------------------------
(***************************************************************************)
(* cilksan with simulated steals (cilksan_reducer.h and what cilksan.cpp   *)
(* does for it): run with -cr, -steal or -update, the tool chooses          *)
(* continuations to treat as stolen, gives each a view of its own and a    *)
(* P-bag of its own in the stack Pbags of its frame, and merges the top    *)
(* two P-bags when the runtime is about to reduce two views.               *)
(*                                                                         *)
(* The module extends the event layer of CilkSan.  Pbag[f] is now the top  *)
(* P-bag, f->Pbags[f->Pbag_index], and below[f] the P-bags under it, so     *)
(* that Pbag_index is the length of below[f]; the slots above are NULL.    *)
(* A handler the steals do not touch is CilkSan's action with the          *)
(* variables of this module unchanged.                                     *)
(*                                                                         *)
(* The Cilk runtime is not part of the repository.  What it does is taken  *)
(* from the callbacks the tool exports to it and from the comments on them *)
(* (cilksan_reducer.h, lines 148-172): a spawned child whose parent was    *)
(* stolen returns through the runtime, as does a sync of a stolen frame;   *)
(* there the runtime asks for the current interval, announces each merge   *)
(* of two views, and after a return resumes the continuation.  The reduce  *)
(* operation then runs between __cilksan_begin_reduce_strand and           *)
(* __cilksan_end_reduce_strand, an update of a reducer likewise; which     *)
(* accesses race with those of such a strand depends on the view ids.      *)
(***************************************************************************)
EXTENDS CilkSan, Sequences

CONSTANTS
  CommandLines,   \* option lists given to __cilksan_parse_input
  Promotes,       \* simulate_steal promotes the runtime's deque
  MaxUpdates      \* bound on nested updates of reducers

ASSUME CommandLinesAssumption ==
  \A c \in CommandLines :
    /\ c.cr \in BOOLEAN /\ c.update \in Nat /\ c.sb_size \in Nat
    /\ c.steal = <<0, 0, 0>> \/ (c.steal \in Seq(Nat) /\ Len(c.steal) = 3
                                  /\ c.steal[1] < c.steal[2] /\ c.steal[2] < c.steal[3])
ASSUME PromotesAssumption == Promotes \in BOOLEAN /\ MaxUpdates \in Nat

VARIABLES
  \* what parse_input leaves
  cont_depth_to_check, check_reduce, simulate_all_steals, max_sync_block_size, steal_point,
  \* frame_stack, beyond CilkSan
  steal_points, steal_index, below, curr_view_id,
  view_id,          \* the next view
  bag_view,         \* _view_id of a P-bag
  context_stack,    \* what kind of strand is running
  \* the runtime
  detached,         \* per helper entry: its parent has been stolen since it was called
  unsynched,        \* per frame: a continuation has been stolen since its last sync
  to_reduce,        \* merges still to come in the return or the sync in progress
  \* history
  chosen,           \* per helper entry: the continuation after it was chosen at the detach
  views,            \* per frame: the views of the current sync block, the oldest first
  view_of           \* the view a strand's updates are in by now

optionVars  == <<cont_depth_to_check, check_reduce, simulate_all_steals,
                 max_sync_block_size, steal_point>>
pointVars   == <<steal_points, steal_index>>
viewVars    == <<curr_view_id, view_id, bag_view>>
runtimeVars == <<detached, unsynched, to_reduce, context_stack>>
historyVars == <<chosen, views, view_of>>
stealVars   == <<optionVars, pointVars, below, viewVars, runtimeVars, historyVars>>

NOP_STEAL == 0
MAX_NUM_STEALS == 3
Pbag_index(f) == Len(below[f])
LastOf(seq) == seq[Len(seq)]
Front(seq) == SubSeq(seq, 1, Len(seq) - 1)

-----------------------------------------------------------------------------
(***************************************************************************)
(* __cilksan_parse_input, before the first Cilk function.                  *)
(***************************************************************************)
parse_input(c) ==
  LET reduce == c.update = 0 /\ (c.cr \/ c.steal # <<0, 0, 0>>)
      all == reduce /\ c.sb_size <= 1 /\ ~(c.steal[1] # c.steal[2] /\ c.steal[2] # c.steal[3])
  IN  /\ cont_depth_to_check = c.update
      /\ check_reduce = (reduce /\ ~all)
      /\ simulate_all_steals = all
      /\ max_sync_block_size = c.sb_size
      /\ steal_point = c.steal

StealInit ==
  /\ Init
  /\ \E c \in CommandLines : parse_input(c)
  /\ steal_points = [k \in Levels |-> <<0, 0, 0>>]
  /\ steal_index = [k \in Levels |-> 0]
  /\ below = [k \in Levels |-> <<>>]
  /\ curr_view_id = [k \in Levels |-> IF k = 0 THEN 1 ELSE 0]
  /\ view_id = 2
  /\ bag_view = [n \in Nodes |-> 0]
  /\ context_stack = <<"USER">>
  /\ detached = [i \in Entries |-> FALSE] /\ unsynched = [k \in Levels |-> FALSE]
  /\ to_reduce = 0
  /\ chosen = [i \in Entries |-> FALSE]
  /\ views = [k \in Levels |-> IF k = 0 THEN <<1>> ELSE <<>>]
  /\ view_of = [s \in Strands |-> 1]

\* A failed assertion in a handler of this module.
StealDie == Die /\ UNCHANGED stealVars

-----------------------------------------------------------------------------
(***************************************************************************)
(* Choosing the continuations to steal.                                    *)
(***************************************************************************)
simulating == cont_depth_to_check # 0 \/ check_reduce \/ simulate_all_steals

SortedTriples(S) == {t \in S \X S \X S : t[1] < t[2] /\ t[2] < t[3]}

\* The user's points, or those randomize_steal_points picks; the first of a
\* block that cannot have two continuations is the special case.
PointChoices ==
  IF steal_point[1] # steal_point[2] THEN {steal_point}
  ELSE IF max_sync_block_size < 2 THEN {<<NOP_STEAL, NOP_STEAL, b>> : b \in {0, 1}}
  ELSE SortedTriples(0 .. (max_sync_block_size + 1))

\* The points a frame uses once it counts its size-th continuation, with the
\* index of the next one and whether that continuation is stolen.  A block
\* sets its points before its first spawn and skips those already passed.
ContDepthOf(f, size) == init_cont_depth[f] + size

Points(f, size) ==
  IF ~check_reduce \/ size # 1 THEN {steal_points[f]} ELSE PointChoices

IndexBefore(f, size, points) ==
  IF size # 1 THEN steal_index[f]
  ELSE Cardinality({i \in 1 .. MAX_NUM_STEALS : points[i] < size})

should_steal(f, size, points) ==
  IF cont_depth_to_check # 0 THEN ContDepthOf(f, size) = cont_depth_to_check
  ELSE IF check_reduce
  THEN \E i \in 1 .. MAX_NUM_STEALS : i = IndexBefore(f, size, points) + 1 /\ points[i] = size
  ELSE simulate_all_steals

IndexAfter(f, size, points) ==
  IF ~check_reduce THEN steal_index[f]
  ELSE IndexBefore(f, size, points) + (IF should_steal(f, size, points) THEN 1 ELSE 0)

\* should_steal_next_continuation and set_steal_points assert that points
\* increase and that the next one is ahead.
PointAsserts(f, size, points) ==
  check_reduce =>
    /\ size = 1 => points[1] < points[2] /\ points[2] < points[3]
    /\ \A i \in 1 .. MAX_NUM_STEALS :
         i = IndexAfter(f, size, points) + 1 => points[i] > size

\* Mutant: every continuation past the last steal point counts as stolen.
was_stolen_or_later(f) ==
  LET size == current_sync_block_size[f] IN
  \/ cont_depth_to_check # 0 /\ ContDepthOf(f, size) >= cont_depth_to_check
  \/ check_reduce /\ steal_index[f] > 0 /\ steal_points[f][steal_index[f]] <= size
  \/ simulate_all_steals

\* next_continuation_was_stolen recomputes that choice when the child leaves.
next_continuation_was_stolen(f) ==
  LET size == current_sync_block_size[f] IN
  \/ cont_depth_to_check # 0 /\ ContDepthOf(f, size) = cont_depth_to_check
  \/ check_reduce /\ steal_index[f] > 0 /\ steal_points[f][steal_index[f]] = size
  \/ simulate_all_steals

WasStolenAsserts(f) ==
  LET size == current_sync_block_size[f] IN
  check_reduce /\ (steal_index[f] = 0 \/ next_continuation_was_stolen(f)) =>
    \A i \in 1 .. MAX_NUM_STEALS : i = steal_index[f] + 1 => steal_points[f][i] > size

-----------------------------------------------------------------------------
(***************************************************************************)
(* simulate_steal.                                                         *)
(***************************************************************************)
\* check_deque_invariants, apart from the runtime's own head and tail.
DequeAsserts ==
  /\ entry_type[entry_head] = "HELPER"
  /\ rts_deque_begin <= rts_deque_end
  /\ rts_deque_begin < rts_deque_end =>
       /\ \A i \in 1 .. (rts_deque_begin - 1) : frame_type[i] = "FULL"
       /\ entry_head >= rts_deque_end /\ entry_type[rts_deque_end] = "HELPER"
       /\ entry_type[rts_deque_begin] # "HELPER" =>
            rts_deque_begin = 1 \/ frame_type[rts_deque_begin] = "FULL"
       /\ \A i \in (rts_deque_begin + 1) .. entry_head : frame_type[i] = "SHADOW"

\* Everything on the deque becomes FULL, and the deque is empty.
update_deque_for_simulating_steals ==
  /\ frame_type' = [i \in Entries |->
       IF i \in rts_deque_begin .. (rts_deque_end - 1) THEN "FULL" ELSE frame_type[i]]
  /\ rts_deque_begin' = rts_deque_end

\* Outside src/: the runtime then finds the parent of every helper that has
\* detached stolen.  A helper still evaluating its arguments has no frame.
Promoted ==
  LET helpers == {i \in 1 .. entry_head : prog[i] = "spawned"} \cup {entry_head}
      frame(i) == Cardinality({j \in 1 .. (i - 1) : prog[j] # "helper"})
  IN  /\ detached' = [i \in Entries |-> detached[i] \/ (Promotes /\ i \in helpers)]
      /\ unsynched' = [k \in Levels |->
           unsynched[k] \/ (Promotes /\ k \in {frame(i) : i \in helpers})]

simulate_steal ==
  /\ update_deque_for_simulating_steals
  /\ Promoted
  /\ chosen' = [chosen EXCEPT ![entry_head] = TRUE]

NoSteal ==
  /\ chosen' = [chosen EXCEPT ![entry_head] = FALSE]
  /\ UNCHANGED <<frame_type, rts_deque_begin, detached, unsynched>>

-----------------------------------------------------------------------------
(***************************************************************************)
(* Entering and spawning.                                                  *)
(***************************************************************************)
\* init_new_function: a child starts in the view of its parent.
InheritViews(child) ==
  /\ curr_view_id' = [curr_view_id EXCEPT ![child] = curr_view_id[frame_head]]
  /\ views' = [views EXCEPT ![child] = <<LastOf(views[frame_head])>>]
  /\ view_of' = [view_of EXCEPT ![nstrands + 1] = LastOf(views[frame_head])]

steal_enter_begin ==
  /\ pc = "user" /\ frame_head < MaxFrames
  /\ IF below[frame_head + 1] = <<>>
     THEN /\ cilk_enter_begin
          /\ InheritViews(frame_head + 1)
          /\ UNCHANGED <<optionVars, pointVars, below, view_id, bag_view, runtimeVars, chosen>>
     ELSE StealDie

\* cilk_detach_end: the continuation is chosen or not before the P-bag is
\* created and the child's frame is pushed.
steal_detach_end ==
  LET parent == frame_head
      sizes  == [current_sync_block_size EXCEPT ![parent] = @ + 1]
      fresh  == Pbag[parent] = NULL
      pbag   == IF fresh THEN dset_size + 1 ELSE Pbag[parent]
      sbag   == IF fresh THEN dset_size + 2 ELSE dset_size + 1
  IN
  /\ pc = "detaching"
  /\ frame_head < MaxFrames /\ sbag <= MaxNodes /\ nstrands < MaxStrands
  /\ \E points \in Points(parent, sizes[parent]) :
     LET steal == should_steal(parent, sizes[parent], points) IN
     IF /\ entry_type[entry_head] = "HELPER" /\ last_event = "DETACH"
        /\ CleanFrameAbove /\ below[parent + 1] = <<>> /\ checking_disabled > 0
        /\ PointAsserts(parent, sizes[parent], points)
        /\ steal => DequeAsserts /\ rts_deque_end = entry_head
     THEN /\ IF steal THEN simulate_steal ELSE NoSteal
          /\ steal_points' = [steal_points EXCEPT ![parent] = points]
          /\ steal_index' = [steal_index EXCEPT ![parent] = IndexAfter(parent, sizes[parent], points)]
          /\ below' = IF check_reduce /\ sizes[parent] = 1
                      THEN [below EXCEPT ![parent] =
                              IF points[1] = NOP_STEAL THEN <<NULL>> ELSE <<>>]
                      ELSE below
          /\ last_event' = "NONE"
          /\ Pbag' = [Pbag EXCEPT ![parent] = pbag]
          /\ bag_view' = IF fresh THEN [bag_view EXCEPT ![pbag] = curr_view_id[parent]]
                         ELSE bag_view
          /\ StartNewFunction(sbag, sizes)
          /\ dset_size' = sbag
          /\ kind' = [kind EXCEPT ![pbag] = "P", ![sbag] = "S"]
          /\ sib_sbag' = [sib_sbag EXCEPT ![pbag] = IF fresh THEN Sbag[parent] ELSE @]
          /\ func_id' = [func_id EXCEPT ![sbag] = frame_id + 1]
          /\ enable_checking
          /\ prog' = [prog EXCEPT ![prog_depth] = "spawned"]
          /\ FirstStrandOfChild(sbag)
          /\ InheritViews(parent + 1)
          /\ spawned' = [spawned EXCEPT ![parent] = @ + 1, ![parent + 1] = 0]
          /\ largest' = MaxOf(largest, spawned[parent] + 1)
          /\ pending' = pending + 1
          /\ deepest' = MaxOf(deepest, pending + 1)
          /\ pc' = "user"
          /\ UNCHANGED <<instrumentation, died, entry_head, entry_type, prev_helper,
                         rts_deque_end, youngest_active_helper, set_node, rsp, prog_depth,
                         user_off, optionVars, view_id, to_reduce, context_stack>>
     ELSE StealDie

-----------------------------------------------------------------------------
(***************************************************************************)
(* The interval, and the merges the runtime announces.                     *)
(***************************************************************************)
\* get_current_reduce_interval: the interval and whether it ends here.
Interval(f) ==
  LET size == current_sync_block_size[f]
      depth == ContDepthOf(f, size)
  IN  IF cont_depth_to_check # 0
      THEN IF depth = cont_depth_to_check THEN <<0, 1>>
           ELSE IF depth > cont_depth_to_check THEN <<1, 0>> ELSE <<0, 0>>
      ELSE IF check_reduce
      THEN IF steal_index[f] = 0 THEN <<0, 0>>
           ELSE IF steal_points[f][steal_index[f]] = size THEN <<steal_index[f] - 1, 1>>
           ELSE <<steal_index[f], 0>>
      ELSE IF size = 1 THEN <<0, 1>> ELSE <<3, 1>>

\* What it asserts of the P-bag index at a spawn's return and at a sync.
IntervalAsserts(f, spawn_ret) ==
  LET mask == Interval(f)
      reached == IF spawn_ret THEN mask[1] ELSE mask[1] + mask[2]
  IN  /\ simulating
      /\ \/ Pbag_index(f) = reached
         \/ Pbag_index(f) = 1 /\ reached >= MAX_NUM_STEALS

\* Outside src/: the merges the runtime makes of that answer.  At a return,
\* those that end interval 2, and one per steal when all are simulated; at
\* a sync, one for each P-bag above the first.
ReducesAt(mask, spawn_ret) ==
  IF spawn_ret
  THEN IF mask = <<2, 1>> THEN 2 ELSE IF mask = <<3, 1>> THEN 1 ELSE 0
  ELSE IF mask[1] + mask[2] >= MAX_NUM_STEALS THEN 1 ELSE mask[1] + mask[2]

check_for_reduce_interval(spawn_ret, next_pc) ==
  IF IntervalAsserts(frame_head, spawn_ret)
  THEN /\ to_reduce' = ReducesAt(Interval(frame_head), spawn_ret)
       /\ pc' = next_pc
       /\ UNCHANGED <<driverVars, died, entryVars, dequeVars, bagVars, rsp, progVars, user_off,
                      optionVars, pointVars, below, viewVars, detached, unsynched, context_stack,
                      historyVars>>
  ELSE StealDie

StolenReturn == entry_type[entry_head] = "HELPER" /\ detached[entry_head]

__cilksan_check_for_reduce_interval_return ==
  pc = "leaving" /\ StolenReturn /\ check_for_reduce_interval(TRUE, "returning")

__cilksan_check_for_reduce_interval_sync ==
  pc = "syncing" /\ unsynched[frame_head] /\ check_for_reduce_interval(FALSE, "joining")

\* The right of the last two views of the frame is merged into the left.
MergedViews(f) ==
  IF Len(views[f]) = 1 THEN UNCHANGED <<views, view_of>>
  ELSE LET left == views[f][Len(views[f]) - 1] IN
       /\ views' = [views EXCEPT ![f] = Front(@)]
       /\ view_of' = [s \in Strands |-> IF view_of[s] = LastOf(views[f]) THEN left ELSE view_of[s]]

\* Mutant: the top P-bag is popped and not merged.
TopDropped(top, next) == set_node

\* The set that the top P-bag and the next one make.
TopMerged(top, next) ==
  IF top = NULL \/ next = NULL THEN set_node ELSE Combined(next, top)

UpdateAsserts(f) ==
  /\ Pbag_index(f) > 0 /\ Pbag_index(f) < MAX_NUM_STEALS
  /\ LET next == LastOf(below[f]) IN
     Pbag[f] # NULL /\ next # NULL =>
       /\ is_PBag(get_set_node(Pbag[f])) /\ is_PBag(get_set_node(next))
       /\ get_set_node(Pbag[f]) # get_set_node(next)
       /\ get_func_id(next) = get_func_id(get_set_node(next))

\* __cilksan_invoke_reduce, update_disjointsets: the top P-bag is popped and
\* merged with the one below.  The reduce operation comes next.
__cilksan_invoke_reduce ==
  LET f == frame_head
      next == LastOf(below[f])
  IN
  /\ pc \in {"returning", "joining"} /\ to_reduce > 0
  /\ IF UpdateAsserts(f)
     THEN /\ below' = [below EXCEPT ![f] = Front(@)]
          /\ Pbag' = [Pbag EXCEPT ![f] = IF next # NULL THEN next ELSE @]
          /\ set_node' = TopMerged(Pbag[f], next)
          /\ to_reduce' = to_reduce - 1
          /\ pc' = "reducing"
          /\ MergedViews(f)
          /\ UNCHANGED <<driverVars, died, entryVars, dequeVars, rsp, progVars, user_off,
                         frame_head, Sbag, current_sync_block_size, init_cont_depth, frame_id,
                         statVars, dset_size, kind, func_id, sib_sbag, dagVars, countVars,
                         optionVars, pointVars, viewVars, detached, unsynched, context_stack, chosen>>
     ELSE StealDie

-----------------------------------------------------------------------------
(***************************************************************************)
(* Strands that work on views.                                             *)
(***************************************************************************)
ContextChanges ==
  UNCHANGED <<driverVars, died, entryVars, dequeVars, bagVars, rsp, progVars, user_off,
              optionVars, pointVars, below, viewVars, detached, unsynched, to_reduce,
              historyVars>>

\* Accesses of a REDUCE strand assert that there is a top P-bag.
__cilksan_begin_reduce_strand ==
  /\ pc = "reducing" /\ Len(context_stack) = 1
  /\ IF Pbag[frame_head] # NULL
     THEN /\ context_stack' = Append(context_stack, "REDUCE")
          /\ UNCHANGED pc /\ ContextChanges
     ELSE StealDie

__cilksan_end_reduce_strand ==
  /\ pc = "reducing" /\ Len(context_stack) = 2
  /\ IF LastOf(context_stack) = "REDUCE"
     THEN /\ context_stack' = Front(context_stack)
          /\ pc' = IF entry_type[entry_head] = "HELPER" THEN "returning" ELSE "joining"
          /\ ContextChanges
     ELSE StealDie

\* The contexts there are without an update.
BaseContexts == IF pc = "reducing" THEN 2 ELSE 1

\* REDUCE subsumes UPDATE.
__cilksan_begin_update_strand ==
  /\ pc \in {"user", "reducing"}
  /\ Len(context_stack) \in BaseContexts .. (BaseContexts + MaxUpdates - 1)
  /\ context_stack' =
       Append(context_stack, IF LastOf(context_stack) = "REDUCE" THEN "REDUCE" ELSE "UPDATE")
  /\ UNCHANGED pc /\ ContextChanges

__cilksan_end_update_strand ==
  /\ Len(context_stack) > BaseContexts
  /\ IF LastOf(context_stack) \in {"UPDATE", "REDUCE"}
     THEN context_stack' = Front(context_stack) /\ UNCHANGED pc /\ ContextChanges
     ELSE StealDie

\* MemAccess_t::races_with, for an earlier access of strand s to the heap.
view_in_context ==
  IF LastOf(context_stack) = "REDUCE" THEN bag_view[get_set_node(Pbag[frame_head])]
  ELSE curr_view_id[frame_head]

races_with(s) ==
  /\ is_PBag(BagOf(s))
  /\ LastOf(context_stack) = "USER" \/ bag_view[BagOf(s)] # view_in_context

-----------------------------------------------------------------------------
(***************************************************************************)
(* Leaving.                                                                *)
(***************************************************************************)
\* merge_bag_from_returning_child also asserts that the child has no P-bags.
\* The continuation of a spawn goes on in the view the child ends in, until
\* leave_end gives it one of its own.
steal_leave_begin ==
  /\ \/ InUser({"cilk"}) /\ joined[frame_head] = {}
     \/ InUser({"spawned"})
  /\ IF below[frame_head] = <<>>
     THEN /\ cilk_leave_begin
          /\ view_of' = [view_of EXCEPT ![nstrands + 1] = LastOf(views[frame_head - 1])]
          /\ UNCHANGED <<optionVars, pointVars, below, viewVars, runtimeVars, chosen, views>>
     ELSE StealDie

\* Mutant: the view id of a stolen continuation is handed out again.
ViewIdReused == UNCHANGED view_id

ViewIdTaken == view_id' = view_id + 1

\* update_reducer_view, for the frame the helper returns to.
update_reducer_view(f) ==
  IF next_continuation_was_stolen(f)
  THEN /\ curr_view_id' = [curr_view_id EXCEPT ![f] = view_id]
       /\ ViewIdTaken
       /\ below' = [below EXCEPT ![f] = Append(@, Pbag[f])]
       /\ Pbag' = [Pbag EXCEPT ![f] = NULL]
  ELSE UNCHANGED <<curr_view_id, view_id, below, Pbag>>

ViewAsserts(f) ==
  /\ WasStolenAsserts(f)
  /\ next_continuation_was_stolen(f) => Pbag_index(f) + 1 < MAX_NUM_STEALS

\* A continuation chosen at the detach goes on in a new view.
StartView(f) ==
  IF chosen[entry_head]
  THEN /\ views' = [views EXCEPT ![f] = Append(@, nstrands)]
       /\ view_of' = [view_of EXCEPT ![nstrands] = nstrands]
  ELSE UNCHANGED <<views, view_of>>

\* What leave_end and leave_stolen share for a helper.
LeaveHelper ==
  /\ LeavingHelper
  /\ update_reducer_view(frame_head)
  /\ StartView(frame_head)
  /\ entry_head' = entry_head - 1
  /\ prog_depth' = prog_depth - 1
  /\ detached' = [detached EXCEPT ![entry_head] = FALSE]
  /\ chosen' = [chosen EXCEPT ![entry_head] = FALSE]
  /\ UNCHANGED <<entry_type, frame_type, prev_helper, frame_head, Sbag,
                 current_sync_block_size, init_cont_depth, frame_id, statVars, dsetVars,
                 dagVars, countVars, rsp, prog, user_off, instrumentation, optionVars,
                 pointVars, bag_view, unsynched, to_reduce, context_stack>>

steal_leave_end_helper ==
  /\ pc = "leaving" /\ entry_type[entry_head] = "HELPER" /\ ~StolenReturn
  /\ IF last_event = "LEAVE_FRAME_OR_HELPER" /\ checking_disabled > 0 /\ ViewAsserts(frame_head)
     THEN /\ LeaveHelper
          /\ last_event' = "NONE"
          /\ enable_checking
          /\ pc' = "user"
     ELSE StealDie

steal_leave_end_function ==
  /\ entry_type[entry_head] # "HELPER"
  /\ cilk_leave_end
  /\ UNCHANGED stealVars

\* The matching leave_end of a helper whose __cilkrts_leave_frame does not
\* return; checking stays off until the continuation resumes.
__cilksan_do_leave_stolen_callback ==
  /\ pc = "returning" /\ to_reduce = 0
  /\ IF last_event = "LEAVE_FRAME_OR_HELPER" /\ ViewAsserts(frame_head)
     THEN /\ LeaveHelper
          /\ last_event' = "RUNTIME_LOOP"
          /\ pc' = "resuming"
          /\ UNCHANGED checking_disabled
     ELSE StealDie

\* cilk_spawn_or_continue(1)
steal_continue ==
  /\ pc = "resuming"
  /\ IF last_event = "RUNTIME_LOOP" /\ checking_disabled > 0
     THEN /\ last_event' = "NONE"
          /\ enable_checking
          /\ pc' = "user"
          /\ UNCHANGED <<instrumentation, died, entryVars, dequeVars, bagVars, rsp, progVars,
                         user_off, stealVars>>
     ELSE StealDie

-----------------------------------------------------------------------------
(***************************************************************************)
(* Syncing.                                                                *)
(***************************************************************************)
\* The runtime has merged all views of a stolen frame when it returns.
steal_joined ==
  /\ pc = "joining" /\ to_reduce = 0
  /\ pc' = "syncing"
  /\ unsynched' = [unsynched EXCEPT ![frame_head] = FALSE]
  /\ UNCHANGED <<driverVars, died, entryVars, dequeVars, bagVars, rsp, progVars, user_off,
                 optionVars, pointVars, below, viewVars, detached, to_reduce, context_stack,
                 historyVars>>

\* Mutant: the shift of a skipped first interval is left out.
ShiftNothing(f) == below[f]

\* complete_sync first moves the P-bag of a block that skipped its first
\* interval from Pbags[1] to Pbags[0].
Shifted(f) ==
  IF steal_points[f][1] = NOP_STEAL /\ below[f] # <<>> THEN Front(below[f]) ELSE below[f]

ShiftAsserts(f) ==
  steal_points[f][1] = NOP_STEAL /\ below[f] # <<>> => below[f] = <<NULL>> /\ Pbag[f] # NULL

\* After a sync the frame is back in the view its block began in.
steal_sync_end ==
  LET f == frame_head IN
  /\ pc = "syncing" /\ ~unsynched[f]
  /\ IF ShiftAsserts(f) /\ Shifted(f) = <<>>
     THEN /\ cilk_sync_end
          /\ below' = [below EXCEPT ![f] = <<>>]
          /\ view_of' = [view_of EXCEPT ![nstrands + 1] = views[f][1]]
          /\ UNCHANGED <<optionVars, pointVars, viewVars, runtimeVars, chosen, views>>
     ELSE StealDie

-----------------------------------------------------------------------------
\* The handlers that steals do not touch.
Untouched ==
  \/ cilk_enter_helper_begin \/ cilk_enter_end
  \/ cilk_spawn_prepare \/ cilk_spawn_or_continue
  \/ cilk_detach_begin \/ cilk_sync_begin
  \/ __cilksan_disable_checking \/ __cilksan_enable_checking
  \/ cilksan_deinit

ProgramNext ==
  /\ ~died /\ context_stack = <<"USER">>
  /\ \/ Untouched /\ UNCHANGED stealVars
     \/ steal_enter_begin \/ steal_detach_end
     \/ __cilksan_check_for_reduce_interval_return
     \/ __cilksan_check_for_reduce_interval_sync
     \/ __cilksan_invoke_reduce
     \/ steal_leave_begin
     \/ steal_leave_end_helper \/ steal_leave_end_function
     \/ __cilksan_do_leave_stolen_callback \/ steal_continue
     \/ steal_joined \/ steal_sync_end

\* The serial code of a reduce operation or an update.
ViewNext ==
  /\ ~died
  /\ \/ __cilksan_begin_reduce_strand \/ __cilksan_end_reduce_strand
     \/ __cilksan_begin_update_strand \/ __cilksan_end_update_strand

StealNext == ProgramNext \/ ViewNext

StealSpec == StealInit /\ [][StealNext]_<<vars, stealVars>>

-----------------------------------------------------------------------------
InUserCode == pc = "user" /\ ~died

\* The P-bags of a frame split its finished children by view: those that ran
\* in the view of the continuation are in the top one, two are in one P-bag
\* exactly when their views are one by now.  (Pbags, update_disjointsets)
PBagsSplitByView ==
  InUserCode => \A k \in 0 .. frame_head : \A s, t \in joined[k] \ past[k] :
    /\ is_PBag(BagOf(s))
    /\ BagOf(s) = Pbag[k] <=> view_of[s] = LastOf(views[k])
    /\ BagOf(s) = BagOf(t) <=> view_of[s] = view_of[t]

\* What an UPDATE or a REDUCE strand does is judged by the view it works on:
\* an access of a parallel strand in another view races with it, for a REDUCE
\* strand those of the two views it has just merged being one.  None is
\* missed, and among the children its frame waits for none is taken to race
\* that is in the same view.  (FrameData_t, view_id: "If two bags have the
\* same value for their view_id, the memory accesses contained in the bags
\* are based off the same view"; update_disjointsets)
ViewRacesFound ==
  ~died /\ LastOf(context_stack) # "USER" =>
    LET here == LastOf(views[frame_head]) IN
    /\ \A s \in (1 .. nstrands) \ past[frame_head] : view_of[s] # here => races_with(s)
    /\ \A s \in joined[frame_head] \ past[frame_head] : view_of[s] = here => ~races_with(s)

\* No strand in the same view is taken to race, whatever frame it ran in.
\* curr_view_id, "the view_id for the currently executing strand", keeps the
\* id of the last stolen continuation after a sync has merged its view.
NoFalseViewRace ==
  ~died /\ LastOf(context_stack) # "USER" =>
    \A s \in 1 .. nstrands : view_of[s] = LastOf(views[frame_head]) => ~races_with(s)
=============================================================================
