------------------------------- MODULE CilkSan -------------------------------
(***************************************************************************)
(* The event layer and the SP-bags of cilksan (cilksan/driver.cpp,         *)
(* cilksan/cilksan.cpp, spbag.h) in the configuration parse_input leaves   *)
(* when no -update or -cr option is given: no simulated steals, so         *)
(* should_steal_next_continuation and next_continuation_was_stolen return  *)
(* false, Pbag_index stays 0 and every bag has the same view id.           *)
(*                                                                         *)
(* The program under test runs serially and calls one handler after the    *)
(* other; each handler is one action.  Its state is the tool's own (driver *)
(* flags, entry_stack, frame_stack, the bags) and, next to it, the program *)
(* itself: its call stack, and the series-parallel dag of the strands it   *)
(* has executed, as the set of strands that precede the current one.  The  *)
(* properties compare the two.                                             *)
(*                                                                         *)
(* A stack (Stack_t) is an array and the index of its head; like the code, *)
(* push resets nothing, so an entry above the head keeps its last value.   *)
(* A disjoint set is known by the node get_set_node returns for it: module *)
(* DisjointSet refines that view.  A node is the number of the             *)
(* DisjointSet_t in dset_nodes and stands also for the SBag_t or PBag_t    *)
(* that created it.                                                        *)
(***************************************************************************)
EXTENDS Integers, FiniteSets

CONSTANTS
  NULL,         \* no bag, no stack pointer
  MaxEntries,   \* bound on the depth of entry_stack
  MaxFrames,    \* bound on the depth of frame_stack
  MaxNodes,     \* bound on dset_nodes
  MaxStrands,   \* bound on the strands of the program
  MaxOff        \* bound on nested calls of __cilksan_disable_checking

Levels  == 0 .. MaxFrames
Entries == 0 .. MaxEntries
Nodes   == 1 .. MaxNodes
Strands == 1 .. MaxStrands

ASSUME BoundsAssumption ==
  /\ MaxEntries \in Nat \ {0} /\ MaxFrames \in Nat \ {0}
  /\ MaxNodes \in Nat \ {0}   /\ MaxStrands \in Nat \ {0}
  /\ MaxOff \in Nat
  /\ NULL \notin Int

VARIABLES
  \* driver.cpp
  checking_disabled,        \* 0: memory accesses are checked
  instrumentation,          \* on from the first cilk_enter_end
  last_event,
  died,                     \* a cilksan_assert failed: die() ends the process
  \* entry_stack and the debugging model of the runtime deque
  entry_head, entry_type, frame_type, prev_helper,
  rts_deque_begin, rts_deque_end, youngest_active_helper,
  \* frame_stack
  frame_head, Sbag, Pbag, current_sync_block_size, init_cont_depth, frame_id,
  accounted_max_sync_block_size, accounted_max_cont_depth,
  \* the disjoint sets and the bags
  dset_size, kind, func_id, sib_sbag, rsp, set_node,
  \* the program
  pc,                       \* user code, or inside a pair of handlers
  prog_depth, prog,         \* its call stack
  user_off,                 \* its calls of __cilksan_disable_checking
  \* history of the program
  nstrands,                 \* strands started so far; the last one is running
  owner,                    \* the S-bag of the frame a strand runs in
  past,                     \* per frame: the strands that precede the point it has reached
  joined,                   \* per frame: what its next sync joins
  inst, lineage,            \* function instances, and those a strand is nested in
  spawned,                  \* per frame: spawns since its last sync
  pending,                  \* the same for all frames together: the continuation depth
  largest, deepest          \* the maxima of the two

driverVars == <<checking_disabled, instrumentation, last_event>>
entryVars  == <<entry_head, entry_type, frame_type, prev_helper>>
dequeVars  == <<rts_deque_begin, rts_deque_end, youngest_active_helper>>
frameVars  == <<frame_head, Sbag, Pbag, current_sync_block_size, init_cont_depth, frame_id>>
statVars   == <<accounted_max_sync_block_size, accounted_max_cont_depth>>
dsetVars   == <<dset_size, kind, func_id, sib_sbag, set_node>>
progVars   == <<prog_depth, prog>>
dagVars    == <<nstrands, owner, past, joined, inst, lineage>>
countVars  == <<spawned, pending, largest, deepest>>
bagVars    == <<frameVars, statVars, dsetVars, dagVars, countVars>>
vars == <<driverVars, died, entryVars, dequeVars, bagVars, rsp, pc, progVars, user_off>>

MaxOf(a, b) == IF a > b THEN a ELSE b

-----------------------------------------------------------------------------
(***************************************************************************)
(* Bags and disjoint sets.                                                 *)
(***************************************************************************)
get_set_node(x) == set_node[x]
is_SBag(x) == kind[x] = "S"
is_PBag(x) == kind[x] = "P"

\* Mutant: a P-bag answers for itself and not for its sibling S-bag.
get_func_id_of_bag(x) == func_id[x]

get_func_id(x) == func_id[sib_sbag[x]]
get_rsp(x) == rsp[sib_sbag[x]]

\* Mutant: link without swap_set_node.
CombinedYounger(this, that) ==
  [n \in Nodes |-> IF set_node[n] = set_node[this] THEN set_node[that] ELSE set_node[n]]

\* this->combine(that): the merged set keeps the _set_node of this.
Combined(this, that) ==
  [n \in Nodes |-> IF set_node[n] = set_node[that] THEN set_node[this] ELSE set_node[n]]

(***************************************************************************)
(* The state cilksan_init leaves, in the first cilk_enter_begin: the S-bag *)
(* of main, strand 1.                                                      *)
(***************************************************************************)
Init ==
  /\ checking_disabled = 0 /\ instrumentation = FALSE /\ last_event = "NONE"
  /\ died = FALSE
  /\ entry_head = 0
  /\ entry_type = [i \in Entries |-> "NONE"]
  /\ frame_type = [i \in Entries |-> IF i = 0 THEN "FULL" ELSE "SHADOW"]
  /\ prev_helper = [i \in Entries |-> 0]
  /\ rts_deque_begin = 1 /\ rts_deque_end = 1 /\ youngest_active_helper = 0
  /\ frame_head = 0 /\ frame_id = 0
  /\ Sbag = [k \in Levels |-> IF k = 0 THEN 1 ELSE NULL]
  /\ Pbag = [k \in Levels |-> NULL]
  /\ current_sync_block_size = [k \in Levels |-> 0]
  /\ init_cont_depth = [k \in Levels |-> 0]
  /\ accounted_max_sync_block_size = 0 /\ accounted_max_cont_depth = 0
  /\ dset_size = 1
  /\ kind = [n \in Nodes |-> "S"]
  /\ func_id = [n \in Nodes |-> 0]
  /\ sib_sbag = [n \in Nodes |-> n]
  /\ rsp = [n \in Nodes |-> NULL]
  /\ set_node = [n \in Nodes |-> n]
  /\ pc = "user" /\ prog_depth = 0 /\ user_off = 0
  /\ prog = [i \in Entries |-> "main"]
  /\ nstrands = 1
  /\ owner = [s \in Strands |-> 1]
  /\ past = [k \in Levels |-> IF k = 0 THEN {1} ELSE {}]
  /\ joined = [k \in Levels |-> {}]
  /\ inst = [k \in Levels |-> 1]
  /\ lineage = [s \in Strands |-> IF s = 1 THEN {1} ELSE {}]
  /\ spawned = [k \in Levels |-> 0] /\ pending = 0 /\ largest = 0 /\ deepest = 0

-----------------------------------------------------------------------------
(***************************************************************************)
(* Pieces the handlers share.                                              *)
(***************************************************************************)
\* A failed cilksan_assert prints and calls die(), which exits.
Die ==
  /\ died' = TRUE
  /\ UNCHANGED <<driverVars, entryVars, dequeVars, bagVars, rsp, pc, progVars, user_off>>

\* Mutant: the early return that forgets to enable.
leave_disabled == UNCHANGED checking_disabled

enable_checking  == checking_disabled' = checking_disabled - 1
disable_checking == checking_disabled' = checking_disabled + 1
should_check     == instrumentation /\ checking_disabled = 0

\* The program is at user code, with `top` on top of its call stack.
InUser(top) == pc = "user" /\ prog[prog_depth] \in top

PushEntry(type) ==
  /\ entry_head' = entry_head + 1
  /\ entry_type' = [entry_type EXCEPT ![entry_head + 1] = type]
  /\ frame_type' = [frame_type EXCEPT ![entry_head + 1] = "SHADOW"]

\* The program is called into a Cilk function, or into a spawn helper.
ProgramCalls(what) ==
  /\ prog_depth' = prog_depth + 1
  /\ prog' = [prog EXCEPT ![prog_depth + 1] = what]

\* Mutant: the depth of the parent's own frame is forgotten.
BlockSizeOnly(sizes) == sizes[frame_head]

\* The continuation depth at which a child of the frame starts.
ContDepth(sizes) == init_cont_depth[frame_head] + sizes[frame_head]

\* start_new_function, with sbag the node of the child's new S-bag and
\* sizes the parent's block sizes; start_new_sync_block closes an empty block.
StartNewFunction(sbag, sizes) ==
  LET child == frame_head + 1
      depth == ContDepth(sizes)
  IN  /\ frame_id' = frame_id + 1
      /\ frame_head' = child
      /\ Sbag' = [Sbag EXCEPT ![child] = sbag]
      /\ current_sync_block_size' = [sizes EXCEPT ![child] = 0]
      /\ init_cont_depth' = [init_cont_depth EXCEPT ![child] = depth]
      /\ accounted_max_cont_depth' = MaxOf(accounted_max_cont_depth, depth)
      /\ UNCHANGED accounted_max_sync_block_size

\* What start_new_function asserts of the frame it has just pushed.
CleanFrameAbove == Sbag[frame_head + 1] = NULL

\* The program enters a function instance: its first strand follows whatever
\* precedes the call or the spawn.
FirstStrandOfChild(sbag) ==
  LET child == frame_head + 1
      s == nstrands + 1
  IN  /\ nstrands' = s
      /\ owner' = [owner EXCEPT ![s] = sbag]
      /\ past' = [past EXCEPT ![child] = past[frame_head] \cup {s}]
      /\ joined' = [joined EXCEPT ![child] = {}]
      /\ inst' = [inst EXCEPT ![child] = s]
      /\ lineage' = [lineage EXCEPT ![s] = {inst[k] : k \in 0 .. frame_head} \cup {s}]

\* The program goes on in the frame at level k, in a new strand after preds.
NextStrandAt(k, preds) ==
  LET s == nstrands + 1
  IN  /\ nstrands' = s
      /\ owner' = [owner EXCEPT ![s] = Sbag[k]]
      /\ past' = [past EXCEPT ![k] = preds \cup {s}]
      /\ lineage' = [lineage EXCEPT ![s] = {inst[j] : j \in 0 .. k}]
      /\ UNCHANGED inst

-----------------------------------------------------------------------------
(***************************************************************************)
(* Entering a Cilk function.                                               *)
(***************************************************************************)
cilk_enter_begin ==
  LET sbag == dset_size + 1
  IN
  /\ InUser({"main", "cilk", "helper", "spawned"})
  /\ entry_head < MaxEntries /\ prog_depth < MaxEntries /\ frame_head < MaxFrames
  /\ dset_size < MaxNodes /\ nstrands < MaxStrands
  /\ IF last_event = "NONE" /\ CleanFrameAbove
     THEN /\ disable_checking
          /\ last_event' = "ENTER_FRAME"
          /\ PushEntry("SPAWNER")
          /\ StartNewFunction(sbag, current_sync_block_size)
          /\ dset_size' = sbag
          /\ kind' = [kind EXCEPT ![sbag] = "S"]
          /\ func_id' = [func_id EXCEPT ![sbag] = frame_id + 1]
          /\ ProgramCalls("cilk")
          /\ FirstStrandOfChild(sbag)
          /\ spawned' = [spawned EXCEPT ![frame_head + 1] = 0]
          /\ pc' = "entering"
          /\ UNCHANGED <<instrumentation, died, prev_helper, dequeVars, Pbag, sib_sbag,
                         set_node, pending, largest, deepest, rsp, user_off>>
     ELSE Die

\* Entering a spawn helper pushes an entry only; its frame comes with detach.
cilk_enter_helper_begin ==
  /\ pc = "called"
  /\ entry_head < MaxEntries /\ prog_depth < MaxEntries
  /\ IF last_event = "NONE"
     THEN /\ disable_checking
          /\ last_event' = "ENTER_HELPER"
          /\ PushEntry("HELPER")
          /\ rts_deque_end' = entry_head + 1
          /\ prev_helper' = [prev_helper EXCEPT ![entry_head + 1] = youngest_active_helper]
          /\ youngest_active_helper' = entry_head + 1
          /\ ProgramCalls("helper")
          /\ pc' = "entering"
          /\ UNCHANGED <<instrumentation, died, rts_deque_begin, bagVars, rsp, user_off>>
     ELSE Die

\* The stack pointer goes to the S-bag of frame_stack.head(): for a helper
\* that is still the spawner's frame.  The depth of the function in the
\* program's stack stands for its stack pointer.
cilk_enter_end ==
  /\ pc = "entering"
  /\ IF last_event \in {"ENTER_FRAME", "ENTER_HELPER"} /\ checking_disabled > 0
     THEN /\ rsp' = [rsp EXCEPT ![Sbag[frame_head]] = prog_depth]
          /\ last_event' = "NONE"
          /\ instrumentation' = TRUE
          /\ enable_checking
          /\ pc' = "user"
          /\ UNCHANGED <<died, entryVars, dequeVars, bagVars, progVars, user_off>>
     ELSE Die

-----------------------------------------------------------------------------
(***************************************************************************)
(* Spawning.                                                               *)
(***************************************************************************)
cilk_spawn_prepare ==
  /\ InUser({"cilk"})
  /\ IF last_event = "NONE"
     THEN /\ disable_checking
          /\ last_event' = "SPAWN_PREPARE"
          /\ pc' = "prepared"
          /\ UNCHANGED <<instrumentation, died, entryVars, dequeVars, bagVars, rsp,
                         progVars, user_off>>
     ELSE Die

\* cilk_spawn_or_continue(0), before the call of the helper.  It is called
\* with 1 only from the runtime's loop, after a steal.
cilk_spawn_or_continue ==
  /\ pc = "prepared"
  /\ IF last_event = "SPAWN_PREPARE" /\ checking_disabled > 0
     THEN /\ last_event' = "NONE"
          /\ enable_checking
          /\ pc' = "called"
          /\ UNCHANGED <<instrumentation, died, entryVars, dequeVars, bagVars, rsp,
                         progVars, user_off>>
     ELSE Die

cilk_detach_begin ==
  /\ InUser({"helper"})
  /\ IF last_event = "NONE"
     THEN /\ disable_checking
          /\ last_event' = "DETACH"
          /\ pc' = "detaching"
          /\ UNCHANGED <<instrumentation, died, entryVars, dequeVars, bagVars, rsp,
                         progVars, user_off>>
     ELSE Die

\* The spawner's P-bag is created when its first child since the last sync
\* detaches; then the child's frame is pushed.
cilk_detach_end ==
  LET parent == frame_head
      pbag  == IF Pbag[parent] = NULL THEN dset_size + 1 ELSE Pbag[parent]
      sbag  == IF Pbag[parent] = NULL THEN dset_size + 2 ELSE dset_size + 1
      sizes == [current_sync_block_size EXCEPT ![parent] = @ + 1]
  IN
  /\ pc = "detaching"
  /\ frame_head < MaxFrames /\ sbag <= MaxNodes /\ nstrands < MaxStrands
  /\ IF /\ entry_type[entry_head] = "HELPER" /\ last_event = "DETACH"
        /\ CleanFrameAbove /\ checking_disabled > 0
     THEN /\ last_event' = "NONE"
          /\ Pbag' = [Pbag EXCEPT ![parent] = pbag]
          /\ StartNewFunction(sbag, sizes)
          /\ dset_size' = sbag
          /\ kind' = [kind EXCEPT ![pbag] = "P", ![sbag] = "S"]
          /\ sib_sbag' = [sib_sbag EXCEPT ![pbag] = IF Pbag[parent] = NULL THEN Sbag[parent] ELSE @]
          /\ func_id' = [func_id EXCEPT ![sbag] = frame_id + 1]
          /\ enable_checking
          /\ prog' = [prog EXCEPT ![prog_depth] = "spawned"]
          /\ FirstStrandOfChild(sbag)
          /\ spawned' = [spawned EXCEPT ![parent] = @ + 1, ![parent + 1] = 0]
          /\ largest' = MaxOf(largest, spawned[parent] + 1)
          /\ pending' = pending + 1
          /\ deepest' = MaxOf(deepest, pending + 1)
          /\ pc' = "user"
          /\ UNCHANGED <<instrumentation, died, entryVars, dequeVars, set_node, rsp,
                         prog_depth, user_off>>
     ELSE Die

-----------------------------------------------------------------------------
(***************************************************************************)
(* Syncing.                                                                *)
(***************************************************************************)
cilk_sync_begin ==
  /\ InUser({"cilk"})
  /\ IF last_event = "NONE"
     THEN /\ disable_checking
          /\ last_event' = "CILK_SYNC"
          /\ pc' = "syncing"
          /\ UNCHANGED <<instrumentation, died, entryVars, dequeVars, bagVars, rsp,
                         progVars, user_off>>
     ELSE Die

\* complete_sync combines the P-bag, if the block had a spawn, into the
\* S-bag; start_new_sync_block accounts for the block and resets its size.
SyncAsserts(f) ==
  /\ is_SBag(get_set_node(Sbag[f]))
  /\ Pbag[f] # NULL => /\ is_PBag(get_set_node(Pbag[f]))
                       /\ get_set_node(Sbag[f]) # get_set_node(Pbag[f])
                       /\ get_func_id(Sbag[f]) = get_func_id(get_set_node(Sbag[f]))

\* Mutant: the P-bag stays with the frame after the sync.
complete_sync_keeps_pbag(f) ==
  /\ set_node' = IF Pbag[f] = NULL THEN set_node ELSE Combined(Sbag[f], Pbag[f])
  /\ current_sync_block_size' = [current_sync_block_size EXCEPT ![f] = 0]
  /\ UNCHANGED <<Pbag, statVars>>

complete_sync(f) ==
  /\ set_node' = IF Pbag[f] = NULL THEN set_node ELSE Combined(Sbag[f], Pbag[f])
  /\ Pbag' = [Pbag EXCEPT ![f] = NULL]
  /\ accounted_max_sync_block_size' =
       MaxOf(accounted_max_sync_block_size, current_sync_block_size[f])
  /\ accounted_max_cont_depth' =
       MaxOf(accounted_max_cont_depth, init_cont_depth[f] + current_sync_block_size[f])
  /\ current_sync_block_size' = [current_sync_block_size EXCEPT ![f] = 0]

cilk_sync_end ==
  /\ pc = "syncing" /\ nstrands < MaxStrands
  /\ IF last_event = "CILK_SYNC" /\ SyncAsserts(frame_head) /\ checking_disabled > 0
     THEN /\ last_event' = "NONE"
          /\ complete_sync(frame_head)
          /\ enable_checking
          /\ NextStrandAt(frame_head, past[frame_head] \cup joined[frame_head])
          /\ joined' = [joined EXCEPT ![frame_head] = {}]
          /\ spawned' = [spawned EXCEPT ![frame_head] = 0]
          /\ pending' = pending - spawned[frame_head]
          /\ pc' = "user"
          /\ UNCHANGED <<instrumentation, died, entryVars, dequeVars, frame_head, Sbag,
                         init_cont_depth, frame_id, dset_size, kind, func_id, sib_sbag,
                         largest, deepest, rsp, progVars, user_off>>
     ELSE Die

-----------------------------------------------------------------------------
(***************************************************************************)
(* Leaving.  leave_begin merges the returning child's bag and pops         *)
(* frame_stack; entry_stack is popped by leave_end only.                   *)
(***************************************************************************)
\* merge_bag_from_returning_child: into the parent's P-bag when returning
\* from a spawn, else into its S-bag.
MergeTarget(parent) ==
  IF entry_type[entry_head] = "HELPER" THEN Pbag[parent] ELSE Sbag[parent]

MergeAsserts(parent, child) ==
  LET bag == MergeTarget(parent) IN
  /\ Sbag[parent] # NULL /\ Sbag[child] # NULL
  /\ Pbag[child] = NULL
  /\ current_sync_block_size[child] = 0
  /\ bag # NULL
  /\ IF entry_type[entry_head] = "HELPER"
     THEN is_PBag(get_set_node(bag)) /\ is_SBag(get_set_node(Sbag[child]))
     ELSE is_SBag(get_set_node(bag))
  /\ get_set_node(bag) # get_set_node(Sbag[child])
  /\ get_func_id(Sbag[parent]) = get_func_id(get_set_node(Sbag[parent]))

\* A function returns once its spawned children are joined: the compiler
\* emits a sync before cilk_leave_begin.  A helper returns after its detach.
cilk_leave_begin ==
  LET child == frame_head
      parent == frame_head - 1
  IN
  /\ \/ InUser({"cilk"}) /\ joined[child] = {}
     \/ InUser({"spawned"})
  /\ nstrands < MaxStrands
  /\ IF last_event = "NONE" /\ child > 0 /\ MergeAsserts(parent, child)
     THEN /\ disable_checking
          /\ last_event' = "LEAVE_FRAME_OR_HELPER"
          /\ set_node' = Combined(MergeTarget(parent), Sbag[child])
          /\ Sbag' = [Sbag EXCEPT ![child] = NULL]
          /\ frame_head' = parent
          /\ IF prog[prog_depth] = "spawned"
             THEN /\ NextStrandAt(parent, past[parent])
                  /\ joined' = [joined EXCEPT ![parent] = @ \cup past[child]]
             ELSE /\ NextStrandAt(parent, past[child])
                  /\ UNCHANGED joined
          /\ pc' = "leaving"
          /\ UNCHANGED <<instrumentation, died, entryVars, dequeVars, Pbag,
                         current_sync_block_size, init_cont_depth, frame_id, statVars,
                         dset_size, kind, func_id, sib_sbag, countVars, rsp, progVars,
                         user_off>>
     ELSE Die

\* Mutant: the deque end drops to its beginning although a helper is active.
LeavingLastHelper ==
  LET begin == IF entry_head = rts_deque_begin THEN rts_deque_begin - 1 ELSE rts_deque_begin
  IN  /\ rts_deque_begin' = begin /\ rts_deque_end' = begin
      /\ youngest_active_helper' = prev_helper[entry_head]
      /\ UNCHANGED died

\* update_deque_for_leaving_spawn_helper: the end of the deque moves down to
\* the previous helper, or to its beginning.
LeavingHelper ==
  LET prev  == prev_helper[entry_head]
      begin == IF entry_head = rts_deque_begin THEN rts_deque_begin - 1 ELSE rts_deque_begin
      end   == IF prev >= begin THEN prev ELSE begin
  IN  IF /\ entry_head = rts_deque_begin => frame_type[begin] = "FULL"
         /\ entry_head = rts_deque_end
         /\ rts_deque_end > begin /\ rts_deque_end - prev >= 2
         /\ \A i \in (end + 1) .. (rts_deque_end - 1) : entry_type[i] # "HELPER"
         /\ rts_deque_end = youngest_active_helper
      THEN /\ rts_deque_begin' = begin
           /\ rts_deque_end' = end
           /\ youngest_active_helper' = prev
           /\ UNCHANGED died
      ELSE died' = TRUE /\ UNCHANGED dequeVars

\* Mutant: every function that leaves takes the bottom entry with it.
LeavingAnyFunction ==
  /\ rts_deque_begin' = rts_deque_begin - 1 /\ rts_deque_end' = rts_deque_end - 1
  /\ UNCHANGED <<youngest_active_helper, died>>

\* update_deque_for_leaving_cilk_function
LeavingCilkFunction ==
  IF entry_head = rts_deque_begin
  THEN IF /\ rts_deque_end = rts_deque_begin
          /\ frame_type[entry_head] = "FULL" \/ rts_deque_begin = 1
          /\ frame_type[entry_head - 1] = "FULL"
       THEN /\ rts_deque_begin' = rts_deque_begin - 1
            /\ rts_deque_end' = rts_deque_end - 1
            /\ UNCHANGED <<youngest_active_helper, died>>
       ELSE died' = TRUE /\ UNCHANGED dequeVars
  ELSE /\ died' = (rts_deque_end < rts_deque_begin)
       /\ UNCHANGED dequeVars

cilk_leave_end ==
  /\ pc = "leaving"
  /\ IF last_event = "LEAVE_FRAME_OR_HELPER" /\ entry_head > 0 /\ checking_disabled > 0
     THEN /\ last_event' = "NONE"
          /\ IF entry_type[entry_head] = "HELPER" THEN LeavingHelper ELSE LeavingCilkFunction
          /\ entry_head' = entry_head - 1
          /\ enable_checking
          /\ prog_depth' = prog_depth - 1
          /\ pc' = "user"
          /\ UNCHANGED <<instrumentation, entry_type, frame_type, prev_helper, bagVars, rsp,
                         prog, user_off>>
     ELSE Die

-----------------------------------------------------------------------------
(***************************************************************************)
(* The program's own calls, and its end.                                   *)
(***************************************************************************)
__cilksan_disable_checking ==
  /\ pc = "user" /\ user_off < MaxOff
  /\ disable_checking
  /\ user_off' = user_off + 1
  /\ UNCHANGED <<instrumentation, last_event, died, entryVars, dequeVars, bagVars, rsp, pc,
                 progVars>>

\* The program enables what it has disabled.
__cilksan_enable_checking ==
  /\ pc = "user" /\ user_off > 0
  /\ IF checking_disabled > 0
     THEN /\ enable_checking
          /\ user_off' = user_off - 1
          /\ UNCHANGED <<instrumentation, last_event, died, entryVars, dequeVars, bagVars,
                         rsp, pc, progVars>>
     ELSE Die

\* main returns: tsan_destroy runs cilksan_deinit, which checks the stacks
\* and frees the nodes.
cilksan_deinit ==
  /\ InUser({"main"})
  /\ IF frame_head = 0 /\ entry_head = 0
     THEN /\ pc' = "exited"
          /\ UNCHANGED <<driverVars, died, entryVars, dequeVars, bagVars, rsp, progVars,
                         user_off>>
     ELSE Die

Next ==
  /\ ~died
  /\ \/ cilk_enter_begin \/ cilk_enter_helper_begin \/ cilk_enter_end
     \/ cilk_spawn_prepare \/ cilk_spawn_or_continue
     \/ cilk_detach_begin \/ cilk_detach_end
     \/ cilk_sync_begin \/ cilk_sync_end
     \/ cilk_leave_begin \/ cilk_leave_end
     \/ __cilksan_disable_checking \/ __cilksan_enable_checking
     \/ cilksan_deinit

Spec == Init /\ [][Next]_vars

-----------------------------------------------------------------------------
PCs == {"user", "prepared", "called", "entering", "detaching", "syncing", "leaving", "exited"}
Events == {"NONE", "SPAWN_PREPARE", "ENTER_FRAME", "ENTER_HELPER", "DETACH", "CILK_SYNC",
           "LEAVE_FRAME_OR_HELPER"}

\* Every variable of the tool and of the history has its type.
TypeOK ==
  /\ checking_disabled \in Nat /\ instrumentation \in BOOLEAN /\ last_event \in Events
  /\ died \in BOOLEAN
  /\ entry_head \in Entries
  /\ entry_type \in [Entries -> {"NONE", "SPAWNER", "HELPER"}]
  /\ frame_type \in [Entries -> {"SHADOW", "FULL"}]
  /\ prev_helper \in [Entries -> Entries]
  /\ rts_deque_begin \in Entries /\ rts_deque_end \in Entries
  /\ youngest_active_helper \in Entries
  /\ frame_head \in Levels /\ frame_id \in Nat
  /\ Sbag \in [Levels -> Nodes \cup {NULL}] /\ Pbag \in [Levels -> Nodes \cup {NULL}]
  /\ current_sync_block_size \in [Levels -> Nat] /\ init_cont_depth \in [Levels -> Nat]
  /\ accounted_max_sync_block_size \in Nat /\ accounted_max_cont_depth \in Nat
  /\ dset_size \in Nodes
  /\ kind \in [Nodes -> {"S", "P"}]
  /\ func_id \in [Nodes -> Nat] /\ sib_sbag \in [Nodes -> Nodes]
  /\ rsp \in [Nodes -> Entries \cup {NULL}]
  /\ set_node \in [Nodes -> Nodes]
  /\ pc \in PCs /\ prog_depth \in Entries /\ user_off \in Nat
  /\ prog \in [Entries -> {"main", "cilk", "helper", "spawned"}]
  /\ nstrands \in Strands
  /\ owner \in [Strands -> Nodes]
  /\ past \in [Levels -> SUBSET Strands] /\ joined \in [Levels -> SUBSET Strands]
  /\ inst \in [Levels -> Strands] /\ lineage \in [Strands -> SUBSET Strands]
  /\ spawned \in [Levels -> Nat] /\ pending \in Int /\ largest \in Nat /\ deepest \in Nat

\* No assertion of the tool fails, whatever a well-formed program does.
NoAssertionFails == ~died

\* The bag find_set leads to from an access of strand s.
BagOf(s) == get_set_node(owner[s])

\* SP-bags: the bag of a strand is an S-bag exactly when the strand precedes
\* the one that is running, and a P-bag exactly when the two are parallel.
\* MemAccess_t::races_with asks nothing else of an access made by user code.
SPBagsCorrect ==
  \A s \in 1 .. nstrands :
    /\ is_SBag(BagOf(s)) <=> s \in past[frame_head]
    /\ is_PBag(BagOf(s)) <=> s \notin past[frame_head]

\* "lca" in races_with: the bag of a strand belongs to the deepest function
\* instance, among those that are running, in which the strand is nested.
DeepestCommonAncestor ==
  \A s \in 1 .. nstrands :
    \E k \in 0 .. frame_head :
      /\ BagOf(s) \in {Sbag[k], Pbag[k]}
      /\ get_func_id(BagOf(s)) = func_id[Sbag[k]]
      /\ inst[k] \in lineage[s]
      /\ k < frame_head => inst[k + 1] \notin lineage[s]

\* combine is only ever asked to merge a younger set into an older one, as
\* the NOTE in disjointset.h requires for the oldest node to represent a set
\* (module DisjointSet then implements what is assumed of set_node here).
Bags == INSTANCE Partition WITH size <- dset_size, rep <- set_node
UsesDisjointSetsAsRequired == Bags!Spec

\* User code is checked exactly when the program has not disabled checking;
\* no path through the handlers leaves a disable or an enable unmatched.
CheckingMatchesPhase ==
  checking_disabled = user_off + (IF pc \in {"user", "called", "exited"} THEN 0 ELSE 1)

\* The model of the runtime deque: Case 1 and Case 2 of its declaration, and
\* the youngest helper that has not been left.
DequeModelMirrors ==
  LET helpers == {i \in 1 .. entry_head : prog[i] \in {"helper", "spawned"}}
      youngest == IF helpers = {} THEN 0 ELSE CHOOSE i \in helpers : \A j \in helpers : j <= i
  IN  /\ rts_deque_begin <= rts_deque_end
      /\ youngest_active_helper = youngest
      /\ helpers # {} => rts_deque_begin < rts_deque_end /\ rts_deque_end = youngest
      /\ helpers = {} => rts_deque_begin = rts_deque_end

\* When every spawn has been synced, the maxima cilksan prints for the user
\* to choose steal points from are those of the execution so far: a block is
\* accounted for when it ends, a depth when a function starts or a block ends.
StatisticsComplete ==
  pending = 0 => /\ accounted_max_sync_block_size = largest
                 /\ accounted_max_cont_depth = deepest
=============================================================================
