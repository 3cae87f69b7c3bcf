------------------------------ MODULE ViewRead ------------------------------
(***************************************************************************)
(* viewread (viewread/viewread.c, viewread_stack.h): the tool that reports *)
(* a view-read race when two reads of a reducer may see different views,   *)
(* that is, when the strands of the two reads are parallel to different    *)
(* strands, their peers.  A frame has an SS-bag, of the functions with the *)
(* peers of its first strand; an SP-bag, of the functions with the peers   *)
(* of its current one; and a P-bag of all others.                          *)
(*                                                                         *)
(* The bags are disjoint sets linked by rank.  Their type is kept in       *)
(* nodes: the code writes it through a bag's pointer, which is not always  *)
(* the root, and reads it at the root.  find_set's path compression moves  *)
(* no node to another root (module DisjointSet), so the forest is given by *)
(* the root of each node.                                                  *)
(*                                                                         *)
(* The program runs serially.  Its dag is kept beside the tool's state as  *)
(* the peers each strand has so far; the strand that continues after a     *)
(* spawn exists from the spawn on.                                         *)
(***************************************************************************)
EXTENDS ReaderTable, FiniteSets, Sequences

CONSTANTS
  MaxDepth,     \* bound on the frames on the stack
  MaxNodes,     \* bound on the functions entered
  MaxStrands,   \* bound on the strands of the program
  MaxReads      \* bound on the calls of cilk_set_reducer and cilk_read_reducer

Nodes   == 1 .. MaxNodes
Strands == 1 .. MaxStrands

ASSUME BoundsAssumption ==
  /\ MaxDepth \in Nat \ {0} /\ MaxNodes \in Nat \ {0} /\ MaxStrands \in Nat \ {0}
  /\ MaxReads \in Nat

VARIABLES
  stack,          \* the frames; the last is stack->bot
  in_user_code,
  nnodes,         \* next_func_id - 1
  root, rank, type,
  memory,         \* the table of last readers
  outcome,        \* "running", or how the process ended
  pc,             \* user code, or inside a pair of handlers
  \* history
  prog,           \* per frame: the strand it started with, the strand after its
                  \* spawn, and its children since the last sync
  cur, nstrands, peers,
  nreads, last,   \* per reducer: the strand of its last read
  verdict         \* of the latest read

forestVars  == <<root, rank, type>>
toolVars    == <<stack, in_user_code, nnodes, forestVars, memory, outcome>>
historyVars == <<prog, cur, nstrands, peers, nreads, last, verdict>>
vars        == <<toolVars, pc, historyVars>>

Quiet == [reported |-> FALSE, raced |-> FALSE]

NewFrame(func_type, spawns, node) ==
  [func_type |-> func_type, ancestor_spawns |-> spawns, local_spawns |-> 0,
   ss_bag |-> node, sp_bag |-> NULL, p_bag |-> NULL]

bot == stack[Len(stack)]
above == stack[Len(stack) - 1]
spawn_count == bot.ancestor_spawns + bot.local_spawns

\* cilk_tool_init; also what cilk_set_reducer does if it comes first
Init ==
  /\ stack = <<NewFrame("MAIN", 0, 1)>> /\ in_user_code = TRUE /\ nnodes = 1
  /\ root = [n \in Nodes |-> n] /\ rank = [n \in Nodes |-> 0]
  /\ type = [n \in Nodes |-> "SS"]
  /\ memory = shadowmem_alloc(START_LG_CAPACITY)
  /\ outcome = "running" /\ pc = "user"
  /\ prog = <<[entry |-> 1, cont |-> 1, unsynced |-> 0]>>
  /\ cur = 1 /\ nstrands = 1 /\ peers = [s \in Strands |-> {}]
  /\ nreads = 0 /\ last = [r \in Reducers |-> 0] /\ verdict = Quiet

-----------------------------------------------------------------------------
\* The disjoint sets, as a value [root, rank, type].
forest == [root |-> root, rank |-> rank, type |-> type]
SetForest(f) == root' = f.root /\ rank' = f.rank /\ type' = f.type

\* DisjointSet_combine: the root of higher rank, or that of t, wins.
Combined(f, s, t) ==
  LET r == f.root[s]
      q == f.root[t]
      winner == IF f.rank[r] > f.rank[q] THEN r ELSE q
  IN  [f EXCEPT
         !.root = [n \in Nodes |-> IF f.root[n] \in {r, q} THEN winner ELSE f.root[n]],
         !.rank[q] = IF f.rank[r] = f.rank[q] THEN @ + 1 ELSE @]

\* A bag takes in another one, either of which may be NULL, and its node is
\* given a type.
AbsorbedBag(f, bag, other) == IF bag = NULL /\ other # NULL THEN f.root[other] ELSE bag

Absorbed(f, bag, other, t) ==
  CASE other = NULL -> f
    [] other # NULL /\ bag = NULL -> [f EXCEPT !.type[f.root[other]] = t]
    [] OTHER -> [Combined(f, bag, other) EXCEPT !.type[bag] = t]

\* DisjointSet_combine asserts that its two sets are different.
MayAbsorb(f, bag, other) == bag # NULL /\ other # NULL => f.root[bag] # f.root[other]

\* Mutant: the SP-bag's pointer is left behind.
FlushedKeepingSP(fr) == [fr EXCEPT !.p_bag = AbsorbedBag(forest, fr.p_bag, fr.sp_bag)]

\* The SP-bag of a frame is emptied into its P-bag.
Flushed(fr) ==
  [fr EXCEPT !.p_bag = AbsorbedBag(forest, fr.p_bag, fr.sp_bag), !.sp_bag = NULL]
FlushedForest(fr) == Absorbed(forest, fr.p_bag, fr.sp_bag, "P")

Asserting(cond) == outcome' = IF cond THEN "running" ELSE "assertion failed"

Replaced(fr) == [stack EXCEPT ![Len(stack)] = fr]

-----------------------------------------------------------------------------
\* The peers once strand s has been added with the peers P.
WithStrand(pe, s, P) ==
  [x \in Strands |-> IF x = s THEN P ELSE IF x \in P THEN pe[x] \cup {s} ELSE pe[x]]

\* A call starts no strand.
Called == prog' = Append(prog, [entry |-> cur, cont |-> cur, unsynced |-> 0])
          /\ UNCHANGED <<cur, nstrands, peers>>

\* A spawn starts two strands, that of the child and that of the continuation.
Spawned ==
  LET child == nstrands + 1
      cont  == nstrands + 2
  IN  /\ cont <= MaxStrands
      /\ nstrands' = cont
      /\ peers' = WithStrand(WithStrand(peers, child, peers[cur]), cont, peers[cur] \cup {child})
      /\ prog' = Append(prog, [entry |-> child, cont |-> cont, unsynced |-> 0])
      /\ cur' = child

\* A sync that joins children starts a strand with the peers the function
\* started with.
Synced ==
  IF prog[Len(prog)].unsynced = 0
  THEN UNCHANGED <<prog, cur, nstrands, peers>>
  ELSE /\ nstrands < MaxStrands
       /\ nstrands' = nstrands + 1
       /\ cur' = nstrands + 1
       /\ peers' = WithStrand(peers, nstrands + 1, peers[prog[Len(prog)].entry])
       /\ prog' = [prog EXCEPT ![Len(prog)].unsynced = 0]

readVars == <<nreads, last, verdict>>

-----------------------------------------------------------------------------
\* viewread_stack_push's new frame: an SS-bag of its own.
Push(fr, func_type) ==
  /\ Len(stack) < MaxDepth /\ nnodes < MaxNodes
  /\ nnodes' = nnodes + 1
  /\ stack' = Append(Replaced(fr),
                     NewFrame(func_type, fr.ancestor_spawns + fr.local_spawns, nnodes + 1))

\* A Cilk function is called.  A spawn helper calls one only once it has
\* detached: spawn arguments make no Cilk calls.
cilk_enter_begin ==
  /\ pc = "user"
  /\ pc' = "entering"
  /\ in_user_code' = FALSE
  /\ Push(bot, "CILK")
  /\ Called
  /\ UNCHANGED <<forestVars, memory, outcome, readVars>>

Counted(fr) == [fr EXCEPT !.local_spawns = @ + 1]

cilk_enter_helper_begin ==
  /\ pc = "prepared"
  /\ pc' = "entering"
  /\ Push(Flushed(Counted(bot)), "HELPER")
  /\ SetForest(FlushedForest(bot))
  /\ Asserting(MayAbsorb(forest, bot.p_bag, bot.sp_bag))
  /\ Spawned
  /\ UNCHANGED <<in_user_code, memory, readVars>>

cilk_enter_end ==
  /\ pc = "entering"
  /\ pc' = IF bot.func_type = "HELPER" THEN "attached" ELSE "user"
  /\ Asserting(bot.func_type = "CILK" => ~in_user_code)
  /\ in_user_code' = TRUE
  /\ UNCHANGED <<stack, nnodes, forestVars, memory, historyVars>>

\* cilk_detach_begin and cilk_detach_end, with nothing between them
cilk_detach ==
  /\ pc = "attached"
  /\ pc' = "user"
  /\ in_user_code' = TRUE
  /\ UNCHANGED <<stack, nnodes, forestVars, memory, outcome, historyVars>>

\* cilk_spawn_prepare, and cilk_spawn_or_continue(0), which does nothing
cilk_spawn_prepare ==
  /\ pc = "user" /\ bot.func_type = "CILK"
  /\ pc' = "prepared"
  /\ Asserting(in_user_code)
  /\ in_user_code' = FALSE
  /\ UNCHANGED <<stack, nnodes, forestVars, memory, historyVars>>

\* The compiler calls the handlers of a sync in Cilk functions only, not in
\* spawn helpers.
cilk_sync_begin ==
  /\ pc = "user" /\ bot.func_type = "CILK"
  /\ pc' = "syncing"
  /\ Asserting(in_user_code)
  /\ in_user_code' = FALSE
  /\ UNCHANGED <<stack, nnodes, forestVars, memory, historyVars>>

\* Mutant: the spawn count survives the sync.
KeepSpawns(fr) == fr
ResetSpawns(fr) == [fr EXCEPT !.local_spawns = 0]

cilk_sync_end ==
  /\ pc = "syncing"
  /\ pc' = "user"
  /\ stack' = Replaced(Flushed(ResetSpawns(bot)))
  /\ SetForest(FlushedForest(bot))
  /\ Asserting(~in_user_code /\ MayAbsorb(forest, bot.p_bag, bot.sp_bag))
  /\ in_user_code' = TRUE
  /\ Synced
  /\ UNCHANGED <<nnodes, memory, readVars>>

-----------------------------------------------------------------------------
\* The part of cilk_leave_begin before the switch: the frame is popped and
\* its P-bag goes to its parent's.
ReturnedPBag == AbsorbedBag(forest, above.p_bag, bot.p_bag)
ReturnedForest == Absorbed(forest, above.p_bag, bot.p_bag, "P")

PopTo(fr) == stack' = Append(SubSeq(stack, 1, Len(stack) - 2), fr)

\* Its assertions.  The last one reads the type of the P-bag through the
\* bag's pointer, whether or not that is the root.
LeaveAsserts ==
  /\ in_user_code /\ bot.sp_bag = NULL
  /\ MayAbsorb(forest, above.p_bag, bot.p_bag)
  /\ ReturnedPBag # NULL => ReturnedForest.type[ReturnedPBag] = "P"

Leaving(func_type) ==
  /\ pc = "user" /\ bot.func_type = func_type /\ prog[Len(prog)].unsynced = 0
  /\ pc' = "leaving"
  /\ in_user_code' = FALSE
  /\ UNCHANGED <<nnodes, memory, nstrands, peers, readVars>>

\* A called function returns: its SS-bag goes to its parent's SS-bag before
\* the parent's first spawn, to its SP-bag after it.
cilk_leave_begin_function ==
  /\ Leaving("CILK")
  /\ LET f == ReturnedForest
         fr == [above EXCEPT !.p_bag = ReturnedPBag]
     IN  IF above.local_spawns = 0
         THEN /\ PopTo(fr)
              /\ SetForest(Combined(f, above.ss_bag, bot.ss_bag))
              /\ Asserting(LeaveAsserts /\ MayAbsorb(f, above.ss_bag, bot.ss_bag)
                           /\ f.type[above.ss_bag] = "SS")
         ELSE /\ PopTo([fr EXCEPT !.sp_bag = AbsorbedBag(f, above.sp_bag, bot.ss_bag)])
              /\ SetForest(Absorbed(f, above.sp_bag, bot.ss_bag, "SP"))
              /\ Asserting(LeaveAsserts /\ MayAbsorb(f, above.sp_bag, bot.ss_bag))
  /\ prog' = SubSeq(prog, 1, Len(prog) - 1)
  /\ UNCHANGED cur

\* A spawn helper returns.  If the parent has no P-bag, the helper's SS-bag
\* becomes its SP-bag, with type P.  Otherwise it goes to the P-bag, and the
\* type is written through the SP-bag, which was emptied at the spawn: a NULL
\* pointer, and the process is killed.
cilk_leave_begin_helper ==
  /\ Leaving("HELPER")
  /\ LET f == ReturnedForest
         fr == [above EXCEPT !.p_bag = ReturnedPBag]
     IN  IF ReturnedPBag = NULL
         THEN /\ PopTo([fr EXCEPT !.sp_bag = f.root[bot.ss_bag]])
              /\ SetForest([f EXCEPT !.type[f.root[bot.ss_bag]] = "P"])
              /\ Asserting(LeaveAsserts /\ above.local_spawns # 0)
         ELSE /\ PopTo(fr)
              /\ SetForest(Combined(f, ReturnedPBag, bot.ss_bag))
              /\ outcome' = IF /\ LeaveAsserts /\ above.local_spawns # 0
                               /\ MayAbsorb(f, ReturnedPBag, bot.ss_bag)
                            THEN "killed" ELSE "assertion failed"
  /\ prog' = [SubSeq(prog, 1, Len(prog) - 1) EXCEPT ![Len(prog) - 1].unsynced = @ + 1]
  /\ cur' = prog[Len(prog)].cont

cilk_leave_end ==
  /\ pc = "leaving"
  /\ pc' = "user"
  /\ Asserting(~in_user_code)
  /\ in_user_code' = TRUE
  /\ UNCHANGED <<stack, nnodes, forestVars, memory, historyVars>>

-----------------------------------------------------------------------------
Recorded(r) ==
  /\ nreads < MaxReads /\ nreads' = nreads + 1
  /\ HasRoom(r, memory)
  /\ Asserting(ReaderAsserts(r, memory))
  /\ memory' = update_shadowmem(memory, r, cur, spawn_count, bot.ss_bag)
  /\ last' = [last EXCEPT ![r] = cur]
  /\ UNCHANGED <<stack, in_user_code, nnodes, forestVars, pc, prog, cur, nstrands, peers>>

cilk_set_reducer(r) ==
  /\ pc = "user"
  /\ Recorded(r)
  /\ verdict' = Quiet

\* A reducer is read once it has been set.
cilk_read_reducer(r) ==
  /\ pc = "user" /\ last[r] # 0
  /\ Recorded(r)
  /\ LET last_reader == LastReader(r, memory)
     IN  verdict' = [reported |-> type[root[last_reader.node]] = "P"
                                  \/ last_reader.spawns # spawn_count,
                     raced    |-> peers[last[r]] # peers[cur]]

Next ==
  /\ outcome = "running"
  /\ \/ cilk_enter_begin \/ cilk_enter_helper_begin \/ cilk_enter_end \/ cilk_detach
     \/ cilk_spawn_prepare \/ cilk_sync_begin \/ cilk_sync_end
     \/ cilk_leave_begin_function \/ cilk_leave_begin_helper \/ cilk_leave_end
     \/ \E r \in Reducers : cilk_set_reducer(r) \/ cilk_read_reducer(r)

Spec == Init /\ [][Next]_vars

-----------------------------------------------------------------------------
\* Every variable has its type.
TypeOK ==
  /\ \A k \in DOMAIN stack :
       /\ stack[k].func_type \in {"MAIN", "CILK", "HELPER"}
       /\ stack[k].ancestor_spawns \in Nat /\ stack[k].local_spawns \in Nat
       /\ stack[k].ss_bag \in Nodes
       /\ {stack[k].sp_bag, stack[k].p_bag} \subseteq Nodes \cup {NULL}
  /\ Len(stack) \in 1 .. MaxDepth /\ Len(prog) = Len(stack)
  /\ root \in [Nodes -> Nodes] /\ rank \in [Nodes -> Nat]
  /\ type \in [Nodes -> {"SS", "SP", "P"}]
  /\ memory.lg_capacity \in Nat /\ DOMAIN memory.entries = Slots(memory)
  /\ in_user_code \in BOOLEAN

\* cilk_read_reducer: a read is reported only if its strand and that of the
\* reducer's last read have different peers, so that the two may see
\* different views.
OnlyRacesReported == verdict.reported => verdict.raced

\* cilk_leave_begin, cilk_sync_end and viewread_stack_push move bags between
\* frames by pointer: every function entered is in exactly one bag of one
\* frame on the stack.
EveryFunctionInOneBag ==
  \A n \in 1 .. nnodes :
    Cardinality({kb \in (DOMAIN stack) \X {"ss_bag", "sp_bag", "p_bag"} :
                   LET bag == stack[kb[1]][kb[2]]
                   IN  bag # NULL /\ root[bag] = root[n]}) = 1

\* get_reader and update_shadowmem: whatever the collisions and however often
\* the table has grown, a reducer has one entry, the one of its last read,
\* and size counts the entries; increase_table_capacity copies until it has
\* copied size of them.
TableFindsLastReader ==
  /\ \A r \in Reducers : last[r] # 0 => LastReader(r, memory).reader = last[r]
  /\ memory.size = Cardinality({i \in Slots(memory) : ~ empty_reader_p(memory.entries[i])})
  /\ memory.size = Cardinality({r \in Reducers : last[r] # 0})

\* No assertion of the tool fails: the bags a returning frame hands over are
\* of the types and as full as its handler says, bags that are combined are
\* different, and a table that grows copies each entry to an empty slot.
NoAssertionFails == outcome # "assertion failed"

\* cilk_leave_begin: the SS-bag of a returning spawned child goes to its
\* parent's P-bag, as the comment at its HELPER case says.
SpawnedChildGoesToPBag ==
  [][cilk_leave_begin_helper =>
       LET p_bag == stack'[Len(stack')].p_bag
       IN  p_bag # NULL /\ root'[p_bag] = root'[bot.ss_bag]]_vars
=============================================================================
