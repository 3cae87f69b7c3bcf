---------------------------- MODULE RaceDetector -----------------------------
(***************************************************************************)
(* The shadow memory of cilksan over the SP-bags of module CilkSan: the    *)
(* last reader and the last writer of each location, the race checks of a  *)
(* read and of a write, the clearing of a block malloc returns, and the    *)
(* list of races found (cilksan/driver.cpp, cilksan/cilksan.cpp,           *)
(* mem_access.h, mem_access.cpp, print_addr.cpp).                          *)
(*                                                                         *)
(* A location is one byte (module MemAccessList models how a word keeps    *)
(* its bytes at a mixed granularity).  A stack location is the depth of    *)
(* the function that owns it: the stack grows down, so with a function's   *)
(* stack pointer also given by its depth, addr >= rsp reads loc <= rsp.    *)
(* All accesses are made by user code (context USER).                      *)
(***************************************************************************)
EXTENDS CilkSan

CONSTANTS
  HeapLocs,     \* locations of the heap
  StackLocs,    \* locations of the stack: depths, a subset of Entries
  ReadInsts,    \* instruction addresses of reads
  WriteInsts,   \* instruction addresses of writes
  MaxAccesses   \* bound on the accesses and the allocations of a run

Locs  == HeapLocs \cup StackLocs
Insts == ReadInsts \cup WriteInsts
Accs  == [func : Nodes, rip : Insts]

ASSUME LocsAssumption ==
  /\ StackLocs \subseteq Entries \ {0} /\ HeapLocs \cap Int = {}
  /\ Insts \subseteq Nat /\ ReadInsts \cap WriteInsts = {}
  /\ NULL \notin Accs
  /\ MaxAccesses \in Nat

VARIABLES
  readers, writers,     \* shadow_mem: NULL or the last access kept
  races_found,          \* the multimap, as records with their key
  duplicated_races,
  \* history
  accesses,             \* steps taken by the program's memory operations
  hist,                 \* checked accesses of the object now at the location
  raced,                \* two of them race
  reported,             \* report_race was called for one of them
  stale                 \* the object was allocated while its location was not cleared

shadowVars == <<readers, writers>>
reportVars == <<races_found, duplicated_races>>
histVars   == <<hist, raced, reported, stale>>
memVars    == <<shadowVars, reportVars, accesses, histVars>>
allVars    == <<vars, memVars>>

MemInit ==
  /\ readers = [l \in Locs |-> NULL] /\ writers = [l \in Locs |-> NULL]
  /\ races_found = {} /\ duplicated_races = 0
  /\ accesses = 0
  /\ hist = [l \in Locs |-> {}]
  /\ raced = [l \in Locs |-> FALSE]
  /\ reported = [l \in Locs |-> FALSE]
  /\ stale = [l \in Locs |-> FALSE]

-----------------------------------------------------------------------------
is_on_stack(l) == l \in StackLocs

\* The bag a recorded access is found in.
lca(acc) == get_set_node(acc.func)

\* Mutant: the comparison of stack addresses is turned round.
races_below_rsp(acc, l) ==
  /\ acc # NULL
  /\ is_PBag(lca(acc))
  /\ is_on_stack(l) => get_rsp(lca(acc)) <= l

races_with(acc, l) ==
  /\ acc # NULL
  /\ is_PBag(lca(acc))
  /\ is_on_stack(l) => l <= get_rsp(lca(acc))

\* Mutant: the last access always replaces the one kept.
AlwaysReplaceable(acc, l) == TRUE

\* The recorded access is replaced by the current one if it is in series.
Replaceable(acc, l) ==
  \/ acc = NULL
  \/ is_SBag(lca(acc))
  \/ is_on_stack(l) /\ get_rsp(lca(acc)) < l

\* check_invariants, for the two accesses kept at the location
AccessAsserts(l) ==
  \A acc \in {readers[l], writers[l]} \ {NULL} :
    /\ get_func_id(Sbag[frame_head]) >= get_func_id(lca(acc))
    /\ is_SBag(lca(acc)) \/ get_rsp(lca(acc)) # NULL

\* Mutant: races are keyed by the access that came first.
FirstAddress(first, second) == first

\* report_race: a pair of instructions is kept once, in whichever order.
RaceKey(first, second) == IF first < second THEN first ELSE second
RaceRecord(first, second) == [key |-> RaceKey(first, second), first |-> first, second |-> second]
is_equivalent_race(r, q) ==
  \/ r.first = q.first /\ r.second = q.second
  \/ r.first = q.second /\ r.second = q.first
AlreadyFound(found, race) == \E q \in found : q.key = race.key /\ is_equivalent_race(race, q)

\* Of a set of at most one race, what report_race keeps.
NotFound(found, races) == {r \in races : ~AlreadyFound(found, r)}

\* The races the two checks of one access report, in order.
ReportRaces(first, second) ==
  LET once  == NotFound(races_found, first)
      twice == NotFound(races_found \cup once, second)
  IN  /\ races_found' = races_found \cup once \cup twice
      /\ duplicated_races' = duplicated_races + (IF once = first THEN 0 ELSE 1)
                                              + (IF twice = second THEN 0 ELSE 1)

\* Mutant: the record takes the function of the access for its instruction.
RacesOfFunction(acc, l, inst_addr) ==
  IF races_with(acc, l) THEN {RaceRecord(acc.func, inst_addr)} ELSE {}

RacesOf(acc, l, inst_addr) ==
  IF races_with(acc, l) THEN {RaceRecord(acc.rip, inst_addr)} ELSE {}

\* check_races_and_update_with_read, or the access that creates the entry
Read(l, inst_addr) ==
  /\ ReportRaces(RacesOf(writers[l], l, inst_addr), {})
  /\ readers' = IF Replaceable(readers[l], l)
                THEN [readers EXCEPT ![l] = [func |-> Sbag[frame_head], rip |-> inst_addr]]
                ELSE readers
  /\ reported' = [reported EXCEPT ![l] = @ \/ races_with(writers[l], l)]
  /\ UNCHANGED writers

\* check_races_and_update_with_write, or the access that creates the entry:
\* the last writer is checked first, then the last reader
Write(l, inst_addr) ==
  /\ ReportRaces(RacesOf(writers[l], l, inst_addr), RacesOf(readers[l], l, inst_addr))
  /\ writers' = IF Replaceable(writers[l], l)
                THEN [writers EXCEPT ![l] = [func |-> Sbag[frame_head], rip |-> inst_addr]]
                ELSE writers
  /\ reported' = [reported EXCEPT ![l] =
                    @ \/ races_with(writers[l], l) \/ races_with(readers[l], l)]
  /\ UNCHANGED readers

\* The program accesses a location: the heap, or the frame of a running function.
Accessible(l) == is_on_stack(l) => l <= prog_depth

\* History: an access races with those of parallel strands, if one writes.
Record(l, is_read) ==
  /\ hist' = [hist EXCEPT ![l] = @ \cup {[strand |-> nstrands, is_read |-> is_read]}]
  /\ raced' = [raced EXCEPT ![l] =
                 @ \/ \E a \in hist[l] : a.strand \notin past[frame_head] /\ ~(is_read /\ a.is_read)]
  /\ UNCHANGED stale

TickAccess == accesses < MaxAccesses /\ accesses' = accesses + 1

tsan_read(l, inst_addr) ==
  /\ pc = "user" /\ should_check /\ Accessible(l) /\ TickAccess
  /\ IF AccessAsserts(l)
     THEN Read(l, inst_addr) /\ Record(l, TRUE) /\ UNCHANGED vars
     ELSE Die /\ UNCHANGED <<shadowVars, reportVars, histVars>>

tsan_write(l, inst_addr) ==
  /\ pc = "user" /\ should_check /\ Accessible(l) /\ TickAccess
  /\ IF AccessAsserts(l)
     THEN Write(l, inst_addr) /\ Record(l, FALSE) /\ UNCHANGED vars
     ELSE Die /\ UNCHANGED <<shadowVars, reportVars, histVars>>

\* Mutant: only the readers are erased.
clear_readers(l) ==
  /\ readers' = [readers EXCEPT ![l] = NULL]
  /\ UNCHANGED writers

\* The shadow entry is erased.
clear_shadow_memory(l) ==
  /\ readers' = [readers EXCEPT ![l] = NULL]
  /\ writers' = [writers EXCEPT ![l] = NULL]

\* malloc returns a block at the location: a new object.  Its shadow entry is
\* erased only while accesses are checked.
malloc(l) ==
  /\ pc = "user" /\ l \in HeapLocs /\ TickAccess
  /\ IF should_check THEN clear_shadow_memory(l) ELSE UNCHANGED shadowVars
  /\ hist' = [hist EXCEPT ![l] = {}]
  /\ raced' = [raced EXCEPT ![l] = FALSE]
  /\ reported' = [reported EXCEPT ![l] = FALSE]
  /\ stale' = [stale EXCEPT ![l] = ~should_check /\ (readers[l] # NULL \/ writers[l] # NULL)]
  /\ UNCHANGED <<vars, reportVars>>

\* An event handler; a function that is entered has a new frame on the stack.
Event ==
  /\ Next
  /\ LET fresh == {l \in StackLocs : prog_depth' > prog_depth /\ l = prog_depth'}
     IN  /\ hist' = [l \in Locs |-> IF l \in fresh THEN {} ELSE hist[l]]
         /\ raced' = [l \in Locs |-> raced[l] /\ l \notin fresh]
         /\ reported' = [l \in Locs |-> reported[l] /\ l \notin fresh]
  /\ UNCHANGED <<shadowVars, reportVars, accesses, stale>>

MemNext ==
  \/ Event
  \/ /\ ~died
     /\ \E l \in Locs :
          \/ \E i \in ReadInsts : tsan_read(l, i)
          \/ \E i \in WriteInsts : tsan_write(l, i)
          \/ malloc(l)

MemSpec == Init /\ MemInit /\ [][MemNext]_allVars

-----------------------------------------------------------------------------
MemTypeOK ==
  /\ readers \in [Locs -> Accs \cup {NULL}] /\ writers \in [Locs -> Accs \cup {NULL}]
  /\ races_found \subseteq [key : Insts, first : Insts, second : Insts]
  /\ duplicated_races \in Nat /\ accesses \in Nat
  /\ hist \in [Locs -> SUBSET [strand : Strands, is_read : BOOLEAN]]
  /\ raced \in [Locs -> BOOLEAN] /\ reported \in [Locs -> BOOLEAN]
  /\ stale \in [Locs -> BOOLEAN]

\* The guarantee of SP-bags with one reader and one writer per location: a
\* race is reported at a heap location exactly when two checked accesses of
\* the object there, at least one a write, are logically parallel.  The
\* readers and writers that are not kept lose no race.  An object allocated
\* while checking was disabled over an unerased entry is out of its reach.
RaceReportedIffRaceExists ==
  \A l \in HeapLocs : ~stale[l] => (reported[l] <=> raced[l])

\* On the stack too, no race between two accesses of one frame is missed, and
\* none of an object over an entry that was not erased.
NoRaceMissed == \A l \in Locs : raced[l] => reported[l]

\* races_found holds no two reports of the same pair of instructions, though
\* report_race looks up one key only.
RacesFoundAreDistinct ==
  \A r, q \in races_found : is_equivalent_race(r, q) => r = q

\* mem_access.h: accesses to the stack race with each other only if the
\* location is allocated in the shared ancestor's stack; what is reported for
\* a function's own frame is a race between accesses to that frame.
StackReportsAreRaces == \A l \in StackLocs : reported[l] => raced[l]
=============================================================================
