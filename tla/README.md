# TLA+ models of the Cilk tools

## 1. The system

The repository holds four serial-execution tools for Cilk programs and a few libraries they share.
A tool is a static library linked into an instrumented program: the compiler inserts calls
(`cilk_enter_begin`, `cilk_spawn_prepare`, `cilk_sync_end`, `__tsan_read4`, ...) and the tool keeps
shadow state that it updates in each call.  Nothing is persisted.  All tools but the parallel builds
of cilkview/cilkprof force `CILK_NWORKERS=1`, so the hard part is not threads: it is a *long legal
sequence of calls*, and shadow state that must mean the right thing after any of them.

| component | source | state | operations |
|---|---|---|---|
| cilksan event layer | `cilksan/driver.cpp`, `cilksan/cilksan.cpp` | `checking_disabled`, `instrumentation`, `last_event`, `entry_stack`, `frame_stack` | enter/detach/sync/leave begin and end, spawn_prepare, spawn_or_continue |
| SP-bags | `cilksan/cilksan.cpp`, `spbag.h` | per frame an S-bag and P-bags; `frame_id`, `view_id`, `dset_nodes` | `start_new_function`, `merge_bag_from_returning_child`, `complete_sync` |
| disjoint sets | `cilksan/disjointset.h` | forest with ranks, `_node`, `_set_node` | `find_set` (path compression), `link`, `combine` |
| shadow memory | `cilksan/mem_access.*`, `record_mem_helper` | per 8-byte word, reader and writer slots at a mixed granularity, reference counts | read, write, clear on `malloc` |
| simulated steals | `cilksan/cilksan_reducer.h` | steal points, `Pbag_index`, view ids, model of the runtime deque | choose steal points, `update_reducer_view`, `update_disjointsets`, `get_current_reduce_interval` |
| race report | `cilksan/print_addr.cpp` | `races_found`, `duplicated_races` | `report_race` |
| call stack | `cilksan/stack.h` | array, capacity, head | push/pop with doubling and halving |
| cilkview | `cilkview/cilkview.c`, `context_stack*.h` | frame stack with prefix / longest child / continuation spans, running work | the same events; reducer identity and reduce |
| cilkview_perf | `cilkview/cilkview_perf.c` | as cilkview, with perf counters | as cilkview |
| viewread | `viewread/viewread.c`, `viewread_stack.h` | per frame an SS-, SP- and P-bag and two spawn counts | the same events, `cilk_set_reducer`, `cilk_read_reducer` |
| viewread table | `viewread/viewread_shadowmem.h` | open-addressing table of the last reader of each reducer | probe, update, grow |
| cilkprof | `cilkprof/cilkprof.c`, `cilkprof_stack.h` | frame stack, C-function stack, status vectors, call-site tables | the same events, C function enter/leave, print, destroy |
| cilkprof tables | `cc_hashtable.c`, `iaddrs.c` (built), `comp_hashtable.c`, `span_hashtable.c`, `strand_hashtable.c`, `call_sites.c`, `functions.c` (not built) | lists flushed into tables; chained table with a move-to-front cache | add, merge, flush, clear, grow |
| trace | `trace/trace.c` | none | prints |

The parts meet in few places.  In cilksan the event layer calls the SP-bags at `enter_begin`,
`sync_end` and `leave_begin`; the shadow memory keeps, in each access, a pointer to the S-bag node that
was current then, and asks the disjoint sets for the bag that node is in *now*; `malloc` clears the
shadow memory, but only while checking is on.  The flag `checking_disabled` is what keeps the tool from
checking its own accesses.  With simulated steals there is a third party: cilksan tells the Cilk runtime
which continuations count as stolen, and the runtime, when a child returns or a frame syncs, asks for the
reduce interval (`__cilksan_check_for_reduce_interval`) and announces each merge of two views
(`__cilksan_invoke_reduce`).  cilkview, viewread and cilkprof see the same events and keep a stack of
frames of their own; cilkprof also sees C functions.

### What is hard about it

* **Long legal sequences.**  Every handler is a few lines; what can go wrong is the state after many.
  Two stacks are popped at different events (`frame_stack` at `leave_begin`, `entry_stack` at
  `leave_end`), counters are raised in one handler and lowered in another, and a stack entry that is
  pushed again still holds what its last user left.
* **Stale references.**  A recorded access outlives its function; it is judged by the bag its node
  is in when a later access comes, by the representative of that set, and for a stack location by a stack
  pointer recorded long before.
* **One kept for many.**  One reader and one writer per byte, one longest child per sync block, one
  last reader per reducer stand for a whole history.  Keeping the wrong one goes wrong only much later.
* **Lent and swapped tables.**  A cilkprof frame works in a table its caller owns, adds tables by
  swapping pointers to the larger one, and keeps spares on free lists; a table that grows changes its address.
* **A decision made twice.**  Whether a continuation is stolen is decided at the detach, and decided again
  from other fields when the child returns.
* **Mixed granularity.**  A shadow word keeps slots of 1, 2, 4 or 8 bytes; an access of another size
  breaks a list up and shares access objects between slots by a count.

There are no threads, crashes, messages or timeouts in the serial tools, and nothing waits for anything:
all properties here are safety properties and no fairness is assumed.  The parallel builds
of cilkview and cilkprof reduce views in the order the runtime chooses; that is hazard `interleaving`,
covered by the algebra of `SpanView`, proved in `WorkSpanProofs`, only.

### What makes each component correct

* SP-bags: at every moment in user code, the set a strand's function is in is an S-bag exactly if the
  strand precedes the running one, and a P-bag exactly if the two are parallel; the function the P-bag
  names is the deepest frame on the stack that both are nested in.
* Disjoint sets: `combine` merges, `find_set` is stable, a set is represented by its oldest node, and
  the depth stays logarithmic.
* Shadow memory: per byte, a race is reported if and only if two accesses of the object there race; a word
  at a mixed granularity behaves like one reader and one writer per byte.
* Report: a pair of instructions is reported once.
* Event layer: checking is on exactly in user code, the model of the runtime's deque mirrors the
  helpers on the stack, no assertion fails.
* Simulated steals: the P-bags of a frame split its finished children by the view they ran in; an UPDATE or
  REDUCE strand races exactly with the parallel strands of other views; after every merge the SP-bags are still right.
* cilkprof: at every moment the tables, with the frames on the stack, say exactly what part of the longest
  path and of the work each call site has; each table has one owner; each call site keeps one number.
* cilkview: the span printed is the longest path of the dag, the work is at least the span.
* viewread: a reported pair of reads has different peers; no function is lost from the bags; the table
  finds the last reader.

## 2. The modules

| module | models | built on |
|---|---|---|
| `CilkSan` | event layer, SP-bags, model of the runtime's deque, statistics | - |
| `RaceDetector` | shadow memory by the byte, race checks, report | EXTENDS `CilkSan` |
| `SimulatedSteals`, `MCSimulatedSteals` | options, steal points, the stack of P-bags, view ids, intervals and merges, the stolen path through the runtime | EXTENDS `CilkSan` |
| `Partition` | abstract: a partition represented by its oldest nodes | - |
| `DisjointSet` | union by rank, path compression, swapped representatives | refines `Partition` |
| `ByteShadow` | abstract: one reader and one writer for every byte of a word | - |
| `MemAccessList`, `MCMemAccessList` | the two lists of a word, granularity, reference counts, cutting an access | refines `ByteShadow` |
| `SpanView` | the three spans of a cilkview frame and the operations on them, reduce included | - |
| `WorkSpan` | cilkview's handlers, frames and running work | EXTENDS `SpanView` |
| `ReaderTable` | viewread's table as operators on a table value | - |
| `ViewRead`, `MCViewRead` | viewread's handlers, bags and spawn counts, with the table | EXTENDS `ReaderTable` |
| `IaddrTable` | cilkprof's chained table of addresses as operators on a table value | - |
| `CcTable` | cilkprof's table of call sites and the list that is flushed into it | - |
| `CilkProf`, `MCCilkProf` | cilkprof's handlers, both stacks, status vectors, ownership of tables | EXTENDS `CcTable`, `IaddrTable` |
| `CilkSanProofs` | theorems about `CilkSan`: types, SP-bags and `Partition`; assertions, flags, deque, ancestors, statistics | - |
| `RaceDetectorProofs` | theorems about `RaceDetector` | EXTENDS `CilkSanProofs` |
| `SimulatedStealsProofs` | theorems about `SimulatedSteals` | EXTENDS `CilkSanProofs` |
| `DisjointSetProofs` | theorems about the forest, and about `Partition` through the refinement | - |
| `MemAccessListProofs` | theorems about `MemAccessList` | - |
| `WorkSpanProofs` | theorems about `SpanView` and `WorkSpan` | - |
| `ViewReadProofs` | theorems about `ReaderTable` and `ViewRead` | - |
| `CilkProfProofs` | theorems about `IaddrTable` and `CilkProf`: types, the status vectors, the owners of tables | - |

The conventions are the same in all of them.  An action is one handler and has the handler's name.
Variables have the names of the code's fields; `Stack_t` is an array (a function on levels) and its head,
and push resets nothing.  Beside the tool's state each module keeps the *program's*: where it is in a
pair of handlers (`pc`), its call stack, and its series-parallel dag as history variables, built from what
spawn, sync, call and return mean and never from the tool's state.  The properties compare
the two.  The program is any that the compiler can produce: a function that spawned syncs before it
returns, a helper detaches once and then makes its call.  An assertion that fails sets `died` (in
`ViewRead`, `outcome`), after which nothing happens, since `die` and `assert` end the process.

`NoAssertionFails` speaks of every assertion of the modelled code that could be false of the model's state.  In `ViewRead` the
table code's are `CopyAsserts` (`viewread_shadowmem.h:156`), made for each larger table tried on the way (`ReaderAsserts`).  In
`CilkProf` they are `AddAsserts`, `FlushAsserts` and `SumAsserts` of `CcTable`: an update is combined with an entry of its own call
site, at whatever point of the list, growth or merge it is when it gets there (`cc_hashtable.c:178`, `257`, `292`, `401`, `420`, `479`).
Assertions that the form of the model makes true are left out:

* a pointer is not NULL, a result is `true`, or a switch does not reach its default: `viewread.c:93`, `121`,
  `viewread_stack.h:109`, `viewread_shadowmem.h:103`, `180`; `cilkprof.c:126`, `285`, `959`-`991`, `1305`-`1337`, `1344`, `1492`,
  `cilkprof_stack.h:304`; `cc_hashtable.c:143`, `177`, `291`, `400`, `478`; `iaddrs.c:108`, `156`, `217`, `244` and
  `cilkprof.c:344`;
* head, tail and `list_size` agree, where the model has one sequence: `cc_hashtable.c:144`, `145`, `169`, `170`, `198`, `212`, `271`,
  `284`, `380`, `393`, `451`, `505`, `531`; a populated entry is not empty (`475`); an address not found has no record (`iaddrs.c:221`);
* a capacity, an index or a slot is in range by the operator that makes it: `viewread_shadowmem.h:73`, `107`, `cc_hashtable.c:36`,
  `iaddrs.c:62`; two sets just united are one (`viewread_stack.h:112`);
* what is asserted is the action's guard, or was tested or written just before: `cilkprof.c:191`, `280`, `286`, `288`, `894`,
  `1021`, `1086`, `1249`, `1428` (the table cleared just before), `cilkprof_stack.h:528`, `viewread.c:407` (the `else` of
  its own condition);
* a helper does not sync: `viewread.c:263`-`265`.

`cilkprof.c:765`, that main's function is not on the stack when main is entered, is asserted, but of the vector just allocated.

**CilkSan.**  The configuration without `-update` and `-cr`.  A bag is known by the node its set is
represented by; `Combined` is the abstract `combine`, and `UsesDisjointSetsAsRequired` is the obligation
that goes with it: every step of `CilkSan` is one of `Partition`.  `past[k]` is the set of
strands that precede the point frame `k` has reached, `joined[k]` what its next sync will add.

**RaceDetector.**  All of `CilkSan`, and a memory.  `hist[l]` is every checked access to the object now
at `l`; `raced` and `reported` compare it with what the tool kept.  A heap location is reused through
`malloc`; a stack location is the depth of the function that owns it, so a location is reused by the
next call of the same depth.

**SimulatedSteals.**  The event layer of `CilkSan` run with `-cr`, `-steal` or `-update`.  `Pbag[f]` of `CilkSan`
is the top P-bag `Pbags[Pbag_index]` and `below[f]` the P-bags under it, so `Pbag_index` is `Len(below[f])`.
A handler that steals touch is `CilkSan`'s with what this module adds to it (`steal_enter_begin`, `steal_leave_begin`,
`steal_sync_end`, ...) or a version of its own (`steal_detach_end`); the others are `Untouched`.  The runtime is
not in the repository; what it does is taken from the callbacks exported to it and the comments on them
(`cilksan_reducer.h:148-177`).  It is marked external in the map: promoting the deque makes the parents of all
detached helpers stolen (`Promoted`); a child of a stolen parent returns through the runtime (`StolenReturn`), which
asks for the interval, merges twice at the end of interval 2, once per return when all steals are simulated, and
otherwise not (`ReducesAt`); a sync of a stolen frame merges until one P-bag is left.  `views[f]` and
`view_of[s]` are the real views, as history: a stolen continuation starts one, a merge ends one.  After a merge the reduce
operation runs as a REDUCE strand, and user code may run an UPDATE strand at any point; `context_stack` is theirs, and
`races_with` is the test of `mem_access.h:48` for an earlier access of any strand, which stands for every content the
shadow memory can have.  That the runtime turns checking on for a reduce operation is its own matter.

**CilkProf.**  The serial build without `COMPUTE_STRAND_DATA`, and without `IADDR_CACHE`, which is 0 in the source and which
no makefile sets.  `heap` holds the tables by identity,
as the code holds them by pointer; a table that grows gets a new identity, and `AddTables` swaps identities
where `add_cc_hashtables` swaps pointers.  A strand's length is a parameter of the action that measures it.
`path` is the longest path to the current point, split by call site, and `truth` the work, both built
from the dag alone; `PathProfileExact` and `WorkProfileExact` compare them with the tables at *every* state, not
only when they are printed.  The list in front of a table and the table are one value in `CcTable`; the free list of list elements
only recycles memory.

**MemAccessList.**  One 8-byte word, both its lists, with the list's granularity as a length
of slot.  Locations and functions are irrelevant here: whether a kept access races or may be
replaced is chosen by \E for each access object, which covers every answer the bags can give.

**WorkSpan.**  `now[k]` is the longest path to the point frame `k` has reached, `join[k]` to what its
next sync joins; `entered[k]` is where it started.  Times are taken from `StrandTimes` when the code
stops its clock.

**ViewRead.**  The bags' types are kept in nodes as in the code, which writes them through a pointer and
reads them at the root.  `peers[s]` is the set of strands parallel to strand `s` so far; the strand after a
spawn exists from the spawn on, so that peers of two strands once equal stay equal.

## 3. The runs

| run | configuration | what it shows |
|---|---|---|
| `cilksan` | `CilkSan.cfg` | the eight properties of the core: types, assertions, SP-bags, deepest common ancestor, checking flag, deque model, statistics, use of the disjoint sets |
| `race_detector` | `RaceDetector.cfg` | on a heap location a race is reported iff there is one, with nested disabling of checking, except for objects allocated over an entry while checking was off; on reused stack memory no race between accesses of one frame is missed; no pair is reported twice |
| `race_stack_false` | `RaceStackFalse.cfg` | **violation**: a report on a stack slot that was reused |
| `disjoint_set` | `DisjointSet.cfg` | the forest implements the partition; a root of rank r has a set of at least 2^r nodes, so no path is long |
| `mem_access_list` | `MemAccessList.cfg` | a word implements a reader and a writer per byte; counts are exact; pieces cover an access |
| `work_span` | `WorkSpan.cfg` | the printed span is the longest path, and never above the work |
| `work_span_asserts` | `WorkSpanAsserts.cfg` | **violation**: with assertions compiled in, a spawned Cilk function aborts the program |
| `view_read` | `ViewRead.cfg` | reports are races; every function is in one bag; the table finds the last reader; no assertion fails |
| `view_read_bags` | `ViewReadBags.cfg` | **violation**: a spawned child's bag does not go to the P-bag |
| `cilkprof` | `CilkProf.cfg` | profiles of work and span are exact at every state; tables have one owner; numbering is stable; no assertion fails |
| `simulated_steals` | `SimulatedSteals.cfg` | under every option, P-bags split children by view, UPDATE and REDUCE strands race with all that is parallel in another view, SP-bags stay right, no assertion fails |
| `steals_not_promoted` | `StealsNotPromoted.cfg` | **violation**: with the promotion commented out, as it is, the first sync after a steal fails an assertion |

`tlc -workers 2 -config X.cfg M` repeats a run and `tlapm M.tla` a proof.  All configurations say
`CHECK_DEADLOCK FALSE`: a program ends when its `main` returns, and the bounds end it too.

**Bounds.**  They are constants, named in each module, and stand in guards.
`MaxEntries` 6 is main, a function, a helper, a spawned function and two more levels: enough for
a helper that calls a function that spawns, which is where the deque end has to move back.  `MaxFrames` 4
gives a stack entry that is popped and pushed again under a live parent; `MaxNodes` 8 and
`MaxStrands` 10 give a function two sync blocks with two children, and a sync of a set that was
combined twice.  The race run needs only a spawn, its continuation, a sync and a reuse: six strands
and three accesses, since a kept access is lost by the second and missed by the third; a heap and a stack location,
one reading and two writing instructions, so that two writes race as a pair and in both orders.
`SimulatedSteals` has the five command lines that reach every branch of the interval (all continuations, random
points of a block of two, user points with and without a skipped first interval, one depth); ten strands
are enough for a block of three spawns and what follows its sync: interval 2 ends when the third child returns, and two merges come at
once.  Turning checking off is left to the other two runs of the event layer (`MaxOff` 0).
`CilkProf` runs programs of nine strands over a recursive Cilk function, its helper and a C function, called from one
site each: enough for two spawns in one block whose second child becomes the longest, for recursion from one site, and for
a third call site, at which tables of one, status vectors of one and the address table of two all grow.  Initial
sizes are constants so that this happens early; two addresses hash alike until the table has 16 chains.  `DisjointSet` with six nodes
reaches rank 2 and a path of length 2 that is then compressed.  `MemAccessList` takes three accesses from ten ranges: all
aligned sizes, odd sizes, and ranges that cross a slot of the next size.  `StrandTimes` {0, 1, 3} makes a path through
two short strands shorter, and one through four longer, than a long one.  `ViewRead` has five functions (two spawns in one
function, or a spawn and two calls) and three reducers, two of which collide in a table of two slots
that the third makes grow.  What is *not* bounded is what the theorems show.

**Mutants.**  Each module contains, next to a definition, a wrong form of it marked "Mutant"; put in its
place, it makes TLC refute the property it is listed with.  Nothing else uses them.

### Disagreements between the code and what is said of it

1. *Stack reports* (`race_stack_false`).  `cilk_enter_end` of a helper writes the helper's stack pointer to the
   spawner's S-bag (`cilksan.cpp:537`), because the helper has no frame yet.  Memory that a later call reuses
   then passes for memory of the shared ancestor, against `mem_access.h:58`.
2. *Promotion* (`steals_not_promoted`).  `simulate_steal` no longer calls `__cilkrts_promote_own_deque`
   (`cilksan_reducer.h:476`), against the comment above it.  Nothing is stolen, no merge is announced, and
   `complete_sync` finds `Pbag_index` above 0 (`cilksan.cpp:476`).  `simulated_steals` checks the tool with
   the call in place (`Promotes`).
3. *cilkview's assertion* (`work_span_asserts`).  `cilkview.c:200` asserts that a helper is not in
   user code when it calls the spawned function; `cilk_enter_end` of the helper has just said it is.
   `work_span` therefore leaves assertions out (`AssertsCompiledIn`).
4. *viewread's helper case* (`view_read_bags`).  The returning bag is stored in `sp_bag` where the comment and
   the test on `p_bag` say `p_bag`; the other branch writes through an `sp_bag` that is NULL.  The process is
   killed in any program in which a function spawns twice, or spawns one that spawns.

More are described without a run.  `mem_access.h:40` says that a unique pointer to an access object means a
reference count of 0; it means 1 (`RefCountsExact` is stated for what the code does).  `cilksan.cpp:142` calls
`curr_view_id` "the view_id for the currently executing strand"; after a sync has merged the views of a block it
keeps the id of the last stolen continuation.  A function called while a spawned child of its caller is outstanding
then has another id than that child for the same view, and an UPDATE strand in it is reported to race with the child:
`NoFalseViewRace` of `SimulatedSteals`, which asks that this does not happen, is false.  The model of the runtime's deque has a corner too: when a helper
calls a Cilk function before it detaches and a continuation in there is stolen, the deque is left empty although the detach pushes the
spawner; no assertion notices.  In cilkview_perf, the last strand of a function takes the counter difference with its
readings swapped (`cilkview_perf.c:385`), in unsigned arithmetic.  `read_proc_maps` of cilkprof appends each map at
a tail it never advances (`cilkprof/util.c:66`), so all maps but the first and the last are lost.
The comment at `print_addr.cpp:16` says races are kept by the larger
address; the code keys them by the smaller, consistently.  And viewread misses races, which no doc promises it
will not: when a call returns into the SP-bag that holds a spawned child (which the fourth item put there) the
bag's type becomes SP; when a link makes the other set's node the root, the type written through the bag's pointer
is not the one read; and a read in one sync block has the same spawn count as one in a child spawned in the next.

## 4. The proofs

Every theorem is checked by tlapm to the last leaf, for all values of the constants that satisfy the assumptions named
in the last column.  The bounds among the constants (`MaxEntries`, `MaxNodes`, ...) are any numbers, so that "for every
bound" is every program.

| theorem | states | assumes |
|---|---|---|
| `CilkSanProofs!TypeCorrect` | `Spec => []TypeOK` | `BoundsAssumption` |
| `CilkSanProofs!SPBagsCorrectInv` | `Spec => []SPBagsCorrect` | `BoundsAssumption` |
| `CilkSanProofs!ImplementsPartition` | `Spec => UsesDisjointSetsAsRequired` | `BoundsAssumption` |
| `CilkSanProofs!NoAssertionFailsInv` | `Spec => []NoAssertionFails` | `BoundsAssumption` |
| `CilkSanProofs!CheckingMatchesPhaseInv` | `Spec => []CheckingMatchesPhase` | `BoundsAssumption` |
| `CilkSanProofs!DequeModelMirrorsInv` | `Spec => []DequeModelMirrors` | `BoundsAssumption` |
| `CilkSanProofs!DeepestCommonAncestorInv` | `Spec => []DeepestCommonAncestor` | `BoundsAssumption` |
| `CilkSanProofs!StatisticsCompleteInv` | `Spec => []StatisticsComplete` | `BoundsAssumption` |
| `RaceDetectorProofs!MemTypeCorrect`, `MemNoAssertionFails` | `MemSpec => []MemTypeOK`, `[]NoAssertionFails` | `BoundsAssumption`, `LocsAssumption` |
| `RaceDetectorProofs!RaceReportedIffRaceExistsInv` | `MemSpec => []RaceReportedIffRaceExists` | the same |
| `RaceDetectorProofs!NoRaceMissedInv` | `MemSpec => []NoRaceMissed` | the same |
| `RaceDetectorProofs!RacesFoundAreDistinctInv` | `MemSpec => []RacesFoundAreDistinct` | the same |
| `SimulatedStealsProofs!StealSPBagsCorrectInv` | `StealSpec => []SPBagsCorrect` | `BoundsAssumption`, `CommandLinesAssumption` |
| `SimulatedStealsProofs!PBagsSplitByViewInv` | `StealSpec => []PBagsSplitByView` | the same |
| `SimulatedStealsProofs!ViewRacesFoundInv` | `StealSpec => []ViewRacesFound` | the same |
| `DisjointSetProofs!PartitionKeepsOldest` | `Spec => []OldestRepresents` of `Partition` | `MaxNodesAssumption` |
| `DisjointSetProofs!TypeCorrect`, `RanksBoundDepthInv` | `Spec => []TypeOK`, `[]RanksBoundDepth` | `MaxNodesAssumption` |
| `DisjointSetProofs!ImplementsPartitionProof` | `Spec => ImplementsPartition` | the same |
| `DisjointSetProofs!OldestRepresentsInv` | `OldestRepresents` of `Partition`, in the forest | the same |
| `MemAccessListProofs!TypeCorrect`, `NoAssertionFailsInv` | `Spec => []TypeOK`, `[]NoAssertionFails` | `RangesAssumption` |
| `MemAccessListProofs!RefCountsExactInv` | `Spec => []RefCountsExact` | the same |
| `MemAccessListProofs!ImplementsByteShadowProof` | `Spec => ImplementsByteShadow` | the same |
| `MemAccessListProofs!PiecesCoverAnyAccess`, `PiecesCoverAccessInv` | the pieces of any access; `Spec => []PiecesCoverAccess` | none; `RangesAssumption` |
| `WorkSpanProofs!TypeCorrect` | `Spec => []TypeOK` | `TimesAssumption` |
| `WorkSpanProofs!PrintedSpanCorrect` | `Spec => []PrintedSpanIsLongestPath` | `TimesAssumption` |
| `WorkSpanProofs!ParallelismAtLeastOne` | `Spec => []SpanNeverExceedsWork` | `TimesAssumption` |
| `ViewReadProofs!TypeCorrect`, `NoAssertionFailsInv` | `Spec => []TypeOK`, `[]NoAssertionFails` | `BoundsAssumption`, `ReducersAssumption` |
| `ViewReadProofs!TableFindsLastReaderInv` | `Spec => []TableFindsLastReader` | the same |
| `ViewReadProofs!EveryFunctionInOneBagInv` | `Spec => []EveryFunctionInOneBag` | the same |
| `ViewReadProofs!OnlyRacesReportedInv` | `Spec => []OnlyRacesReported` | the same |
| `CilkProfProofs!SpecTypeOK` | `Spec => []TypeOK` | `CilkProfAssumption`, `StartLgAssumption` |
| `CilkProfProofs!SpecStatusMatchesStack` | `Spec => []StatusMatchesStack` | the same |
| `CilkProfProofs!SpecTablesHaveOneOwner` | `Spec => []TablesHaveOneOwner` | the same and `CcTableAssumption`, of which `NULL \notin Nat`: no table is at address `NULL` |
| `WorkSpanProofs!ReduceIdentity`, `ReduceAssociative`, `ReduceCommutesWithHandlers` | algebra of cilkview's reduce | views are naturals |

**SP-bags.**  `SPBagsCorrect` speaks only of the running strand, so it is not inductive: a return makes the
parent's continuation current, and the parent's bags must already have been right for it.  The invariant `IInv`
adds, for *every* frame on the stack and not only the top one:

* `EntriesMatch` - the entry stack and the program's call stack have the same depth and agree on which entries are
  helpers; this is what tells at `leave_begin` whether the child was called or spawned;
* `BagsDistinct`, `NodesInUse` - the bags of all frames are different sets, and nodes above
  `dset_size` are fresh, so that a step on one bag moves no strand in another;
* `StrandsPlaced` - for every frame, `SerialAt` and `ParallelAt`: a strand that precedes the point the frame has
  reached and no deeper one is in its S-bag, and one that its next sync joins is in its P-bag.

`StrandsPlaced` is the real invariant: call and return move the top of the statement by one frame, spawn-return
moves an S-bag to a P-bag exactly as it moves the child's strands from `past` to `joined`, and sync joins both.
Each action has a lemma.  TLC checked `IInv` on the bounds of `CilkSan.cfg` before it was proved.

**SP-bags implement Partition.**  `Partition` lets `combine` merge only a younger set into an older one, but no
handler compares ages.  `BagsSortedByAge` is why none has to: going up `frame_stack`, a frame's S-bag is older than its P-bag and
both are older than the bags of the frames above.  With `IInv` it is inductive (`SortedStep`: a
push adds the youngest bags on top, a sync or a pop only removes bags), and it makes each merge a step of
`Partition` (`ImplementsStep`).  `BagSteps` reduces the handlers to the four shapes those two lemmas treat.

**Assertions of the event layer.**  `frame_stack` and `entry_stack` are popped at different events and nothing in the tool ties one
to the other.  The program does: `StackShape` says that the frames are, in order, the Cilk functions and detached helpers
among the entries (`FrameAt` counts them), with one entry more while a function is leaving.  With it, what a handler asserts of a
frame can be followed from the entry that made it:

* `Phases` - the last event is the one that opened the section of the tool that runs; with `CheckingMatchesPhase` it
  gives the assertions on `last_event` and on checking;
* `Blocks` - a frame has a P-bag exactly from the first spawn of a block to its sync, and then either a child has been joined to it or
  one is still on the stack; no level above the top holds an S-bag; this gives the assertions on bags that must, or must not, be NULL;
* `Deque` - the helpers on the stack form the list `prev_helper` from the youngest down, and the deque ends at the
  youngest; this is `DequeModelMirrors` made inductive, since a leaving helper must know the one before;
* `Ancestors` - a strand whose bag is at level k is nested in the instances up to that level and in none above, and a
  P-bag answers with the S-bag of its level;
* `Counts` - a frame starts at the depth of the spawns pending below it, and the printed maxima lag behind the program's by blocks that
  are still open only.

Each is proved handler by handler in a section of its own, from those before it.  `SafeInv` is their conjunction; TLC checked it, and each
of its parts, on the bounds of `CilkSan.cfg` first.

**One reader and one writer lose no race.**  That a kept access stands for all of its kind does not follow from
the bags at one moment: the bag of the kept one and that of a forgotten one both move.  What is
kept by every handler is an *order*: the strands of the S-bags from the outermost frame in, then those of the P-bags from the
innermost frame out (`Over`).  A sync empties the innermost P-bag into the innermost S-bag, which are neighbours in the order; a return
moves the innermost S-bag one place.  An access replaces the kept one only when that one is in an S-bag, and the
running strand is in the last S-bag, so that the kept access is a last one of its kind (`Covers`), and it is in a P-bag as soon as any
of them is.  Conversely the kept access is one of the object's own unless the entry was not erased (`Fresh`,
`stale`), which is where `RaceReportedIffRaceExists` stops.  On the stack a second test may drop an access, by the stack pointer of the
ancestor; `StackPointers` says where those pointers stand - at the frame, or at the helper that moved them (the first disagreement above) -
and that this is never above what a strand in a P-bag can share (`Within`), so that no race is missed, though some are reported that are none.
`RacesFoundAreDistinct` needs `RacesKeyed`, that a race is filed under the key of its pair.

**Simulated steals.**  With several P-bags per frame, `StrandsPlaced` is not enough: a merge of two P-bags moves strands between bags, and whether that
is right depends on the views they ran in.  The invariant `StealIInv` therefore has, in place of one P-bag per frame, one *slot* per view
(`Slot(k, v)`: the last view's is the top P-bag, the others are in the stack below), and says of every strand in which slot it is and that
its view is that slot's.

* `StacksShaped` - a frame has as many slots as views, and one more at the bottom, always empty, in a block that skips its first interval;
* `StealBagsDistinct`, `StrandsInViews`, `ViewsDistinct` - bags in different slots are different sets, a strand whose frame has returned is in the slot
  of its view, a frame starts in its caller's last view, and all further views are different from each other.  From these three follow
  `SPBagsCorrect` and `PBagsSplitByView`;
* `RunningStrand` - the strand that goes on after a return is the last one, so that a stolen continuation, which moves to a view of its own, takes no other
  strand along;
* `IdsNameViews` - a view id, wherever it is kept (`curr_view_id`, the `_view_id` of a P-bag), names one view.  The ids themselves go stale: after a
  merge a frame keeps the id of the view that is gone.  What holds is that such an id names no other view any more (`MergeIds`, `StartIds`);
* `TopsCurrent` - the top P-bag carries the frame's id, except while the runtime merges; with `IdsNameViews` it gives `ViewRacesFound`;
* `ChoicesKept` - what `next_continuation_was_stolen` computes when a child returns is what `should_steal_next_continuation` decided at its detach
  (`ChosenAtDetach`): the hazard of a decision made twice.  It needs that an index never points past the counter (`PassedPoint`);
* `Control` - the stacks and phases, as far as these need them: a child that returns through the runtime has popped its frame and not its entry.

Unlike in `CilkSan`, assertions can fail in `StealSpec` (without the promotion they do, the second disagreement above), so that nothing is assumed
of them: the invariant is kept by every handler that passes its assertions (`StealStep`), and a failed one ends the process with the bags as they were
(`DiesInPlace`).  `SPBagsCorrect` holds in that last state too; the theorems hold for both values of `Promotes`.
The steps are treated once each, in the shapes that several handlers share: `ContinuesInInv` (a frame goes on), `EntersPlaced`, `ReturnsPlaced`,
`SyncsPlaced`, `MergesPlaced`, `StartsPlaced`.  TLC checked every part of the invariant on the five command lines of `MCSimulatedSteals` first.

**The forest.**  `find_set` and its path are recursive functions on a graph that changes, so the proof begins
with their existence.  `Above`, the nodes closed under parents, is not recursive, and gives both functions their equations
(`RootUnfolds`, `PathUnfolds`).  Ranks grow along parents and are bounded, which makes an induction (`AlongParents`, from the least element of
a set of naturals) in place of one over data.  With it a compression moves no root (`CompressedKeepsRoots`) and
a link merges two sets and no others (`HungUnder`, `LinkedMerges`, `CombineMerges`).  A root of rank r has 2^r nodes because equal ranks
double (`CombineKeepsBound`); 2^r is taken as the number of subsets of 1..r (`PowersOfTwo`), since nothing
is known to the prover of powers.  The swap of set nodes in `link` keeps them all different, and that is what makes
the representative the older one, as `Partition` says; its theorem then holds of the forest.

**A word of shadow memory.**  The arithmetic is in four lemmas on the slot of a byte: it contains the byte, slots nest from one granularity to
the next, an access's granularity cuts its ends, and the walk over slots visits those of the bytes accessed
(`SlotOfByte`, `SlotsNest`, `AccessGrain`, `WalkVisitsCovered`).  `ListsInv` says that only slots at the list's granularity hold an
access.  Breaking a list up then changes the access of no byte (`BrokenKeepsBytes`) and an update changes those of the bytes accessed
(`UpdateKeepsBytes`), which is the step of `ByteShadow`.  `CountsInv` counts slots through a break, which may turn one slot into eight, and
a replacement in one of the two lists; an object is deleted exactly when its last slot goes (`UpdateKeepsCounts`).  `PiecesCoverAnyAccess` is arithmetic
for every address and size: the loop over the words stops one word early, so that the last piece is never empty.

**Span.**  A frame remembers one spawned child per sync block, so the printed span is right only if what it
forgot was never longer.  `PathInv` says so for every frame on the stack (`Consistent`): relative to
the function's entry, the path to the point reached and the path to what the next sync joins are those the view
stands for, and a called function was entered where its caller stands.  `WorkInv` says that neither path of any frame is longer than
the running work.  `FramesTyped` and `FlagsTyped` are the types, apart because most handlers change only one of the two.

**Reduce.**  `ReduceAssociative` is stated for the two path lengths a view stands for, not for the three fields:
the fields themselves do depend on the grouping, since a reduce that keeps the left longest child leaves
the right prefix in the continuation.

**The table of viewread.**  Two recursive functions and a least element stand for three loops: the copy into a larger table (`CopyInto`), the
growth until the reducer fits (`get_reader`), and the search for a capacity.  That the functions exist is itself proved, from the least
number of steps for which there would be none (`CopiesExist`, `GrowsExist`); an invariant of the loop follows in the same way.
`IsTable` says that every entry is the one the search for its reducer ends at, so that a reducer has one.  A copy that finds a slot for
every entry keeps the entries and is again such a table (`SameEntries`), and each of its copies goes to an empty slot
(`SlotIsEmpty`, `CopiesHold`), since all before it are of other reducers; so no assertion fails on the way to a table that has room
(`ReaderNeverFails`), although the mask, and with it every slot, has changed; that
nothing is ever removed is what lets an insertion leave the search for all other reducers where it was.  `MaxLgCapacity` is a bound of the
model: a read that would need a larger table is not taken (`HasRoom`).

**The bags of viewread.**  `FramesInv` is what handlers know of frames: a frame's `local_spawns` counts the children it must sync, the one that runs
included (`SpawnsCounted`), and its SP-bag is empty while that one runs.
`BagsInv` says that every function is in one bag, that two bags have different roots, that the nodes of an SS-bag have its type, and that the
pointer of an SP-bag that reads as P is its root, and that the node the pointer of a P-bag names has type P.  The last is what
`viewread.c:296` asserts, and it is an invariant only because a set that takes in another keeps the node it is named by, root or not, at
type P (`AbsorbedHasType`), and because nothing writes the type of a node in another bag (`OtherTypes`).  The moves of bags are treated once, as operations on slots that hold them
(`Grouped`, `Moved`, `HeldAfter`), and each handler is one or two of them.  The assertions of `cilk_leave_begin` and `DisjointSet_combine` follow.

**Reports of viewread are races.**  A read is reported when the last reader's function is in a P-bag, or when the spawn counts differ.  The invariant
speaks of every *point* a later read may be compared at: the running strand, and those that the frames on the stack go
back to, each with its spawn count (`Point`).

* `PointsDiffer`, `ReadsDiffer` - different counts mean different peers, for two points and for a recorded read and a point: between
  two strands whose counts differ one spawn lies that is not synced, and its child is a peer of one of them only;
* `ReadsPlaced` - a recorded read whose function is in a bag that reports has other peers than any point; in the other bags its count tells
  how many spawns it had behind it;
* `Parallel` - the continuation of a spawn is a peer of all that its child has done.

`ReadsPlaced` is inductive for two reasons.  A spawned child that returns to a bag that reports is parallel to the continuation, which becomes
current and is no peer of itself (`Parallel`).  At a spawn or a sync the SP-bag is emptied into the P-bag: its reads counted more spawns than
the frame started with, so that they differ from every older strand that can still be returned to; the strands that start at a spawn have
peers of their own, and the one that starts at a sync has those of the frame's first strand (`FlushPlaced`, `SpawnDag`, `JoinDag`).
`ReadsKept` ties the entries of the table to the history.  TLC checked the invariant on the bounds of `ViewRead.cfg` first.
The theorems speak of an execution up to the kill of the fourth disagreement above, which ends the process when a frame that has a P-bag
gets a spawned child back.

**The numbers of cilkprof.**  A handler indexes `cs_status` by the number that the table of addresses gives a call site, and `fn_status` by the number
found there; that both are within bounds, and mean that call site and that function, is a fact about the hash table first.  `IsIaddrTable` says that
every record is in the chain its address hashes to, that no key has two, and that the numbers are those below `table_size`.  A lookup
reorders a chain (`MoveFacts`), an insertion adds the next number in front (`PushFacts`), and a rehash pushes every record again, which is a fold over the
concatenation of the chains: the fold and the concatenation are recursive functions over a finite range, shown to exist and
followed by an induction over the naturals (`RehashSteps`, `FlattenSteps`).  `SitesTyped` ties the vectors to the table,
and `StatusMatches` both vectors to the C stack, for the stack as it is; a frame that is entered (`OnStackFacts`)
and one that returns (`LeftFacts`) change the outermost frame of at most one call site and one function.  What makes a return right
is that a call site which is on the stack keeps its function (`IsNewSite` is false for it), so that the function taken off is the one put on.
`Inv` adds to this the shapes of the stacks: a frame's head is a place on the C stack, above that of the frame below (`Piled`).

**Owners of cilkprof's tables.**  `TablesHaveOneOwner` counts pointers against tables, and a count is not inductive.  `OwnersInv` says instead
who owns what: the tables in memory are shared out, without overlap (`Apart`), among the frames, the list of helpers' tables, the
list of spawners' tables, the tool's `wrk_table`, and those that a destroy forgot; and within each of the first three no table is named
twice (`OwnedOnce`, `HelpersOnce`, `SpawnersOnce`).  Three things make it inductive:

* a frame that calls a Cilk function lends it a table, its prefix table while no child has been measured and its continuation's
  after that, and does not own that table until the return (`Owns`, `LentPlace`); which tables a frame has depends on its kind, and `Kinds`
  ties the kind to what the program has done: a HELPER is the frame of a spawn not yet returned from, stands on no other HELPER,
  and has a prefix table only;
* between the two handlers of a pair the running frame has the kind the second one relies on: a frame that is in a sync is a SPAWNER
  and one that detaches a HELPER, or the second handler would free, or hand over, a table it does not own;
* `add_cc_hashtables` swaps its two pointers when the right table is the larger, and may move the one it adds to, so both pointers
  of a caller change: `MovedTo` says that the table made takes the place of the one named, and `SumApart` and `TwoMove` that every
  other owner's tables stay apart.

The count follows by a bijection from the pointers to the tables in memory (`OwnersAreOne`).

**Only model-checked.**  `NoAssertionFails` of `SimulatedSteals`, whose assertions on the deque and on intervals speak of the runtime, and of `CilkProf` its
assertions, the numbers in the tables' entries, and the profiles.
They are not out of reach, except for what follows.

**Out of the prover's reach.**  Liveness and ENABLED (nothing here needs them).  What a fold or a recursive function computes for every input has no
induction theorem to cite; it is provable only where an induction over the naturals can be spelled out.  The table of call sites
is flushed from a list and merged by walks over both, and what those walks add up to, for every list, stays with TLC.

## 5. What is not modelled

* Liveness: the tools are called, do their work and return; no handler waits for another or retries, and nothing is scheduled,
  so there is no fairness to assume and no liveness property to state.
* The shadow memory under UPDATE and REDUCE strands: `RaceDetector` keeps accesses of user code only.  Which kept
  accesses race with such a strand is `races_with` of `SimulatedSteals`; which access is kept when several could be is checked for user
  code only.
* Addresses within a stack frame: a stack location is a depth, so the boundary `addr == rsp` is not told apart.
* In cilkview and viewread, Cilk calls made while spawn arguments are evaluated (before the detach).  A helper's own
  strands are not timed, as in the code.  (`CilkSan` and `CilkProf` let a helper call before it detaches.)
* A program that exits inside a Cilk function: `cilksan_deinit` then finds frames on the stacks and its
  assertions fail, in an `atexit` handler.
* `Stack_t`'s capacity: doubling and halving keep the contents, and no caller keeps a pointer across a move.
* In cilkprof: `COMPUTE_STRAND_DATA`, the cache of addresses (`IADDR_CACHE`), the parallel build (`cilkprof_stack_reducer.h`), and
  `cilk_spawn_or_continue(1)`, which a serial run does not call.  A strand is at least 1 long, since the code asserts that work is not 0;
  the program may print itself, and destroy then prints nothing more; main's last strand before the print is not measured, as in the
  code.  The tool can be initialized again after a destroy (`MaxInits` 1 leaves that out).  When main is not instrumented its C frame
  has index 0, which is also the first call site's; the properties leave that frame out.  A function called through a pointer from one
  site is charged to the function called there first.
* `cilkview_perf` (cilkview's algorithm on other clocks), trace, and files no makefile compiles (`reducer_redrace.cpp`, `red_access.h`,
  `metacall.h`, five of cilkprof's tables).
* Symbolising addresses, reading process maps, and printing.

## 6. Plan

| step | content | state |
|---|---|---|
| 1 | `CilkSan`: event layer and SP-bags, type and SP-bag theorems | done |
| 2 | `RaceDetector`: shadow memory and reports over `CilkSan` | done |
| 3 | `Partition`/`DisjointSet`, `ByteShadow`/`MemAccessList`: abstract specifications and refinements | done |
| 4 | `SpanView`/`WorkSpan`: cilkview, span and work theorems | done |
| 5 | `ReaderTable`/`ViewRead`: viewread | done |
| 6 | `IaddrTable`/`CcTable`/`CilkProf`: cilkprof | done |
| 7 | `SimulatedSteals`: steal points, P-bags, view ids, intervals, with the runtime as external | done |
| 8 | proofs: all properties of `CilkSan`, `RaceDetector`, `DisjointSet`, `MemAccessList`, `WorkSpan` and `ViewRead`, and the three refinements | done |
| 9 | proofs: SP-bags, P-bags and view races of `SimulatedSteals` | done |
| 9b | proofs: types and status vectors of `CilkProf`, with its table of addresses | done |
| 9c | proofs: owners of the tables of `CilkProf` | done |
| 9d | proofs: assertions, numbering and profiles of `CilkProf` | |
| 10 | `SimulatedSteals` composed with `RaceDetector`: UPDATE and REDUCE strands in the shadow memory, and `NoFalseViewRace` as a run | |
| 11 | cilkview's parallel schedule over `SpanView`; `cilkview_perf` as an instance of `WorkSpan` | |
