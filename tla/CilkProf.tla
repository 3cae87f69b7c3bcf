------------------------------ MODULE CilkProf -------------------------------
(***************************************************************************)
(* The serial build of cilkprof (cilkprof/cilkprof.c, cilkprof_stack.h):   *)
(* a stack of frames of Cilk functions and spawn helpers, a stack of C     *)
(* frames beside it, and the tables that say for every call site how much  *)
(* work, and how much of the critical path, is due to it.                  *)
(*                                                                         *)
(* frames[1] is MAIN and the last one is stack->bot; c_stack[1] is the     *)
(* C frame of index 0, so c_tail is Len(c_stack) - 1.  Tables live in heap *)
(* and frames hold their identities, which a table that grows changes.     *)
(* A strand is measured when a handler ends it: its length is a parameter  *)
(* of the action.  The history variables keep what really happened: the    *)
(* longest path to the point reached, with the part each call site has in  *)
(* it, and every call site's work.                                         *)
(***************************************************************************)
EXTENDS CcTable, IaddrTable, Functions

CONSTANTS
  Sites,         \* the program's call sites: records [rip, fn, type]
  MainSite,      \* main's own
  StrandLengths, LeavingLengths,  \* of strands; of those that end a spawned child
  START_STATUS_VECTOR_SIZE, START_C_STACK_SIZE,   \* 4 and 8 in the source
  MaxDepth,      \* bound on the C stack
  MaxEvents,     \* bound on the strands measured
  MaxInits,      \* bound on the times the tool is initialized
  PrintFrom      \* bound: the program prints after this many strands, or not at all

ASSUME CilkProfAssumption ==
  /\ StrandLengths \cup LeavingLengths \subseteq Nat
  /\ Sites \subseteq [rip : Nat \ {0}, fn : Nat \ {0}, type : {"SPAWNER", "HELPER", "C_FUNCTION"}]
  /\ MainSite \in [rip : Nat \ {0}, fn : Nat \ {0}, type : {"MAIN"}]
  /\ {START_STATUS_VECTOR_SIZE, START_C_STACK_SIZE} \subseteq Nat \ {0}
  /\ {MaxDepth, MaxEvents, MaxInits, PrintFrom} \subseteq Nat

VARIABLES
  TOOL_INITIALIZED, TOOL_PRINTED, in_user_code,
  frames, c_stack, c_stack_capacity,
  helper_sf_free_list, spawner_sf_free_list,
  heap, wrk_table,                     \* the tables in use; that of the work
  call_site_table, function_table, cs_status, fn_status, MIN_CAPACITY,
  died,
  pc,                                  \* the pair of handlers the program is in
  \* history
  hist,      \* per frame: how far the program is in it, the path at its spawn,
             \* and the longest path its next sync joins
  keys,      \* per C frame: the call site it was entered from
  path,      \* the longest path to here: how much of it is local to each site
  truth,     \* per site: local work and invocations, work while on the stack
             \* and outermost invocations, all up to here
  leaked,    \* tables nothing points to any more
  nevents, ninits

stackVars == <<frames, c_stack, c_stack_capacity, helper_sf_free_list, spawner_sf_free_list>>
tableVars == <<heap, wrk_table>>
siteVars == <<call_site_table, function_table, cs_status, fn_status, MIN_CAPACITY>>
histVars == <<hist, keys, path, truth>>
toolVars == <<TOOL_INITIALIZED, TOOL_PRINTED, leaked, ninits>>
vars == <<stackVars, tableVars, siteVars, histVars, toolVars, in_user_code, died, pc, nevents>>

OFF_STACK == -1
UNINITIALIZED == -1

KeyOf(site) == <<site.rip, site.type>>
MainKey == KeyOf(MainSite)
Keys == {KeyOf(s) : s \in Sites} \cup {MainKey}

bot == Last(frames)
c_tail == Len(c_stack) - 1
AtHead == bot.c_head = c_tail

-----------------------------------------------------------------------------
\* Tables in memory.

Fresh(h) == CHOOSE i \in 0 .. Cardinality(DOMAIN h) : i \notin DOMAIN h

Allocated(h, id, tab) == [i \in DOMAIN h \cup {id} |-> IF i = id THEN tab ELSE h[i]]

Created(h) == Allocated(h, Fresh(h), cc_hashtable_create)

\* A table that has grown is a new allocation, made before the old is freed.
Stored(h, id, tab) ==
  IF tab.lg_capacity = h[id].lg_capacity
  THEN [heap |-> [h EXCEPT ![id] = tab], id |-> id]
  ELSE [heap |-> Allocated(Restrict(h, DOMAIN h \ {id}), Fresh(h), tab), id |-> Fresh(h)]

AddTo(h, id, update) == Stored(h, id, add_to_cc_hashtable(h[id], update, MIN_CAPACITY))
Flush(h, id) == Stored(h, id, flush_cc_hashtable(h[id], MIN_CAPACITY))
Clear(h, id) == [h EXCEPT ![id] = clear_cc_hashtable(@)]

\* add_cc_hashtables(&left, &right): the pointers are swapped if right is larger.
AddTables(h, left, right) ==
  LET swap  == h[right].lg_capacity > h[left].lg_capacity
      big   == IF swap THEN right ELSE left
      small == IF swap THEN left ELSE right
      sum   == Stored([h EXCEPT ![small].list = <<>>], big, Added(h[big], h[small], MIN_CAPACITY))
  IN  [heap |-> sum.heap, left |-> sum.id, right |-> small]

\* The assertions of the table code
MayAdd(h, id, update) == AddAsserts(h[id], update, MIN_CAPACITY)
MayFlush(h, id) == FlushAsserts(h[id], MIN_CAPACITY)
MayAddTables(h, left, right) ==
  IF h[right].lg_capacity > h[left].lg_capacity THEN SumAsserts(h[right], h[left], MIN_CAPACITY)
                                                ELSE SumAsserts(h[left], h[right], MIN_CAPACITY)

-----------------------------------------------------------------------------
\* Numbering of call sites and functions, and what is on the stack of each.

Off == [c_tail |-> OFF_STACK, fn_index |-> UNINITIALIZED, recursive |-> FALSE]

NoSites ==
  [sites |-> iaddr_table_create, fns |-> iaddr_table_create,
   cs |-> [i \in 0 .. START_STATUS_VECTOR_SIZE - 1 |-> Off],
   fn |-> [i \in 0 .. START_STATUS_VECTOR_SIZE - 1 |-> OFF_STACK]]

CurrentSites ==
  [sites |-> call_site_table, fns |-> function_table, cs |-> cs_status, fn |-> fn_status]

\* resize_cs_status_vector and resize_fn_status_vector, if index is past the end
Resized(vector, index, empty) ==
  IF index < Cardinality(DOMAIN vector) THEN vector
  ELSE [i \in 0 .. 2 * Cardinality(DOMAIN vector) - 1 |->
          IF i \in DOMAIN vector THEN vector[i] ELSE empty]

\* No C frame of that function is on the stack.
IsOffStack(fn, fi) == Resized(fn, fi, OFF_STACK)[fi] = OFF_STACK

\* Functions are keyed by the kind of frame, helpers as spawners.
FunctionType(type) == IF type = "HELPER" THEN "SPAWNER" ELSE type

\* A call site's function is numbered when it is first called from there.
IsNewSite(status) == status.c_tail = OFF_STACK /\ status.fn_index = UNINITIALIZED

\* The call site and the function that have these indices are on the stack
\* from C frame tail on, unless they are already.
OnStack(cs, fn, index, fi, tail) ==
  IF cs[index].c_tail # OFF_STACK
  THEN [cs |-> [cs EXCEPT ![index].recursive = TRUE], fn |-> fn]
  ELSE [cs |-> [cs EXCEPT ![index].c_tail = tail, ![index].fn_index = fi],
        fn |-> IF fn[fi] = OFF_STACK THEN [fn EXCEPT ![fi] = tail] ELSE fn]

EnteredNew(cs, fn, fns, fi, index, tail, ok) ==
  [fns |-> fns, status |-> OnStack(cs, Resized(fn, fi, OFF_STACK), index, fi, tail),
   min |-> index + 1, ok |-> ok]

EnteredAgain(st, cs, index, tail) ==
  [fns |-> st.fns, status |-> OnStack(cs, st.fn, index, cs[index].fn_index, tail),
   min |-> MIN_CAPACITY, ok |-> TRUE]

EnteredFrom(st, cs, site, sites, index, tail) ==
  LET fns == add_to_iaddr_table(st.fns, site.fn, FunctionType(site.type))
  IN  IF IsNewSite(cs[index])
      THEN EnteredNew(cs, st.fn, fns, IndexOf(fns, site.fn), index, tail,
                      sites.table_size = index + 1)
      ELSE EnteredAgain(st, cs, index, tail)

\* The middle part of the four handlers that enter a function: the call site
\* is looked up, and numbered if it is new; then its status is updated.
EnteredAt(st, site, sites, index, tail) ==
  [sites |-> sites, index |-> index,
   rest |-> EnteredFrom(st, Resized(st.cs, index, Off), site, sites, index, tail)]

Numbered(st, site, sites, tail) == EnteredAt(st, site, sites, IndexOf(sites, site.rip), tail)

Entered(st, site, tail) ==
  Numbered(st, site, add_to_iaddr_table(st.sites, site.rip, site.type), tail)

SitesBecome(e) ==
  /\ call_site_table' = e.sites /\ function_table' = e.rest.fns
  /\ cs_status' = e.rest.status.cs /\ fn_status' = e.rest.status.fn
  /\ MIN_CAPACITY' = e.rest.min

\* Is the C frame at tail the outermost instance of its call site?
IsTop(index, tail) == cs_status[index].c_tail = tail

\* Mutant: a recursive instance takes its call site off the stack.
LeftByAny(index, tail) ==
  [cs |-> [cs_status EXCEPT ![index].c_tail = OFF_STACK], fn |-> fn_status]

\* The C frame at tail returns: its call site, and its function if it is the
\* outermost instance, are off the stack.
Left(index, tail) ==
  LET fi == cs_status[index].fn_index
  IN  IF ~IsTop(index, tail) THEN [cs |-> cs_status, fn |-> fn_status]
      ELSE [cs |-> [cs_status EXCEPT ![index].c_tail = OFF_STACK],
            fn |-> IF fn_status[fi] = tail THEN [fn_status EXCEPT ![fi] = OFF_STACK]
                                           ELSE fn_status]

-----------------------------------------------------------------------------
\* Frames.

NewCFrame(index, rip) ==
  [cs_index |-> index, rip |-> rip, local_wrk |-> 0, running_wrk |-> 0, running_spn |-> 0]

NewFrame(type, c_head, prefix, lchild, contin) ==
  [func_type |-> type, c_head |-> c_head, local_contin |-> 0, local_spn |-> 0,
   prefix_spn |-> 0, lchild_spn |-> 0,
   prefix_table |-> prefix, lchild_table |-> lchild, contin_table |-> contin]

\* A handler asserts: the process aborts.
Asserting(cond) == died' = ~cond

Tick == nevents < MaxEvents /\ nevents' = nevents + 1

\* measure_and_add_strand_length
Measured(t) == [c_stack EXCEPT ![Len(c_stack)].local_wrk = @ + t]

\* The strand belongs to the Cilk function or helper itself, not to a C
\* function it has called.
WithContin(t) == IF AtHead THEN [bot EXCEPT !.local_contin = @ + t] ELSE bot

Bottom(frame) == Front(frames) \o <<frame>>

\* Mutant: the C stack grows one frame late.
PushCFrameLate(stack, index, site) ==
  /\ c_stack' = Append(stack, NewCFrame(index, site.rip))
  /\ c_stack_capacity' = IF Len(stack) > c_stack_capacity THEN 2 * c_stack_capacity
                                                          ELSE c_stack_capacity
  /\ keys' = Append(keys, KeyOf(site))

\* cilkprof_c_fn_push
PushCFrame(stack, index, site) ==
  /\ c_stack' = Append(stack, NewCFrame(index, site.rip))
  /\ c_stack_capacity' = IF Len(stack) >= c_stack_capacity THEN 2 * c_stack_capacity
                                                           ELSE c_stack_capacity
  /\ keys' = Append(keys, KeyOf(site))

\* cilkprof_stack_push of a HELPER: it has a prefix table of its own.
PushHelper(stack, under, ok) ==
  LET h  == IF helper_sf_free_list = <<>> THEN Created(heap) ELSE heap
      id == IF helper_sf_free_list = <<>> THEN Fresh(heap) ELSE Head(helper_sf_free_list)
  IN  /\ heap' = h
      /\ helper_sf_free_list' = IF helper_sf_free_list = <<>> THEN <<>>
                                                             ELSE Tail(helper_sf_free_list)
      /\ frames' = Append(under, NewFrame("HELPER", Len(stack), id, NULL, NULL))
      /\ Asserting(cc_hashtable_is_empty(h[id]) /\ in_user_code /\ AtHead /\ ok)
      /\ UNCHANGED spawner_sf_free_list

\* The caller's table for the segment of the path its callee is on.
LentTable(frame) == IF frame.lchild_spn = 0 THEN frame.prefix_table ELSE frame.contin_table

\* cilkprof_stack_push of a SPAWNER: it goes on in its caller's table.
PushSpawner(stack, under, ok) ==
  LET new    == spawner_sf_free_list = <<>>
      h1     == IF new THEN Created(heap) ELSE heap
      lchild == IF new THEN Fresh(heap) ELSE Head(spawner_sf_free_list).lchild
      h2     == IF new THEN Created(h1) ELSE h1
      contin == IF new THEN Fresh(h1) ELSE Head(spawner_sf_free_list).contin
  IN  /\ heap' = h2
      /\ spawner_sf_free_list' = IF new THEN <<>> ELSE Tail(spawner_sf_free_list)
      /\ frames' = Append(under, NewFrame("SPAWNER", Len(stack), LentTable(Last(under)),
                                          lchild, contin))
      /\ Asserting(/\ cc_hashtable_is_empty(h2[lchild]) /\ cc_hashtable_is_empty(h2[contin])
                   /\ ok)
      /\ UNCHANGED helper_sf_free_list

-----------------------------------------------------------------------------
\* History of the program.

NoPath == [k \in Keys |-> 0]
Length(p) == FoldFunction(+, 0, p)
Longer(p, q) == IF Length(q) > Length(p) THEN q ELSE p

PathAfter(t) == [path EXCEPT ![Last(keys)] = @ + t]

NoTruth == [k \in Keys |-> [local_wrk |-> 0, local_count |-> 0, wrk |-> 0, count |-> 0]]

\* A strand of length t has been executed.
TruthAfter(t) ==
  [k \in Keys |-> [truth[k] EXCEPT !.local_wrk = IF k = Last(keys) THEN @ + t ELSE @,
                                   !.wrk = IF k \in Range(keys) THEN @ + t ELSE @]]

\* ... and a function is entered from the site with that key, ...
TruthEntering(t, key) ==
  [TruthAfter(t) EXCEPT ![key].local_count = @ + 1,
                        ![key].count = IF key \in Range(keys) THEN @ ELSE @ + 1]

History(stage, resume, join) ==
  [stage |-> stage, unsynced |-> FALSE, resume |-> resume, join |-> join]

Stage(stage) == hist' = [hist EXCEPT ![Len(hist)].stage = stage]

Passed(t) == path' = PathAfter(t) /\ truth' = TruthAfter(t)

-----------------------------------------------------------------------------
Init ==
  /\ TOOL_INITIALIZED = FALSE /\ TOOL_PRINTED = FALSE /\ in_user_code = FALSE
  /\ frames = <<>> /\ c_stack = <<>> /\ c_stack_capacity = START_C_STACK_SIZE
  /\ helper_sf_free_list = <<>> /\ spawner_sf_free_list = <<>>
  /\ heap = <<>> /\ wrk_table = NULL
  /\ call_site_table = NoSites.sites /\ function_table = NoSites.fns
  /\ cs_status = NoSites.cs /\ fn_status = NoSites.fn
  /\ MIN_CAPACITY = 1
  /\ died = FALSE /\ pc = "user"
  /\ hist = <<>> /\ keys = <<>> /\ path = NoPath
  /\ truth = NoTruth
  /\ leaked = {} /\ nevents = 0 /\ ninits = 0

\* initialize_tool and cilkprof_stack_init(MAIN): four tables, in this order.
Initialized ==
  LET h1 == Created(heap)  h2 == Created(h1)  h3 == Created(h2)
      main == NewFrame("MAIN", 0, Fresh(heap), Fresh(h1), Fresh(h2))
  IN  [heap |-> Created(h3), wrk |-> Fresh(h3), main |-> main]

InitTool ==
  /\ ~TOOL_INITIALIZED /\ ninits < MaxInits
  /\ ninits' = ninits + 1
  /\ TOOL_INITIALIZED' = TRUE /\ TOOL_PRINTED' = FALSE
  /\ wrk_table' = Initialized.wrk
  /\ path' = NoPath
  /\ UNCHANGED leaked

\* cilk_tool_c_function_enter, called by main (or by what is taken for main
\* after a cilk_tool_destroy): the frame of MAIN is main's.
cilk_tool_c_function_enter_main ==
  \E e \in {Entered(NoSites, MainSite, 0)} :
      /\ InitTool
      /\ SitesBecome(e)
      /\ c_stack' = <<NewCFrame(e.index, MainSite.rip)>>
      /\ c_stack_capacity' = START_C_STACK_SIZE
      /\ frames' = <<Initialized.main>>
      /\ heap' = Initialized.heap
      /\ helper_sf_free_list' = <<>> /\ spawner_sf_free_list' = <<>>
      /\ in_user_code' = TRUE
      /\ Asserting(e.rest.ok /\ IsOffStack(NoSites.fn, IndexOf(e.rest.fns, MainSite.fn)))
      /\ keys' = <<MainKey>> /\ truth' = NoTruth
      /\ hist' = <<History("body", NoPath, NoPath)>>
      /\ UNCHANGED <<pc, nevents>>

\* cilk_enter_begin, when main is not instrumented: MAIN's C frame has the
\* index 0 of the call site that is numbered first.
cilk_enter_begin_first(site) ==
  \E e \in {Entered(NoSites, site, 1)} :
  LET h1 == Created(Initialized.heap)
  IN  /\ site.type = "SPAWNER" /\ MaxDepth > 0
      /\ InitTool
      /\ SitesBecome(e)
      /\ c_stack' = <<NewCFrame(0, 0), NewCFrame(e.index, site.rip)>>
      /\ c_stack_capacity' = IF START_C_STACK_SIZE = 1 THEN 2 ELSE START_C_STACK_SIZE
      /\ frames' = <<Initialized.main,
                     NewFrame("SPAWNER", 1, Initialized.main.prefix_table,
                              Fresh(Initialized.heap), Fresh(h1))>>
      /\ heap' = Created(h1)
      /\ helper_sf_free_list' = <<>> /\ spawner_sf_free_list' = <<>>
      /\ in_user_code' = FALSE
      /\ Asserting(e.rest.ok)
      /\ keys' = <<MainKey, KeyOf(site)>>
      /\ truth' = [NoTruth EXCEPT ![KeyOf(site)].local_count = 1, ![KeyOf(site)].count = 1]
      /\ hist' = <<History("body", NoPath, NoPath), History("body", NoPath, NoPath)>>
      /\ pc' = "entering"
      /\ UNCHANGED nevents

\* The program runs user code, and may call a function.
Running == TOOL_INITIALIZED /\ pc = "user"
MayPush == Running /\ Len(c_stack) <= MaxDepth

\* cilk_enter_begin
cilk_enter_begin(site, t) ==
  LET e == Entered(CurrentSites, site, Len(c_stack))
  IN  /\ MayPush /\ site.type = "SPAWNER" /\ Tick
      /\ in_user_code' = FALSE
      /\ PushCFrame(Measured(t), e.index, site)
      /\ PushSpawner(Measured(t), Bottom(WithContin(t)), e.rest.ok)
      /\ SitesBecome(e)
      /\ pc' = "entering"
      /\ path' = PathAfter(t) /\ truth' = TruthEntering(t, KeyOf(site))
      /\ hist' = Append(hist, History("body", NoPath, PathAfter(t)))
      /\ UNCHANGED <<wrk_table, toolVars>>

\* cilk_enter_helper_begin
cilk_enter_helper_begin(site, t) ==
  LET e == Entered(CurrentSites, site, Len(c_stack))
  IN  /\ MayPush /\ site.type = "HELPER" /\ Tick
      /\ AtHead /\ Last(hist).stage = "spawning"
      /\ in_user_code' = FALSE
      /\ PushCFrame(Measured(t), e.index, site)
      /\ PushHelper(Measured(t), Bottom(WithContin(t)), e.rest.ok)
      /\ SitesBecome(e)
      /\ pc' = "entering"
      /\ path' = PathAfter(t) /\ truth' = TruthEntering(t, KeyOf(site))
      /\ hist' = Append(hist, History("args", PathAfter(t), PathAfter(t)))
      /\ UNCHANGED <<wrk_table, toolVars>>

\* cilk_enter_end, cilk_detach_end and cilk_leave_end: a strand begins.
BackInUserCode ==
  /\ pc' = "user"
  /\ in_user_code' = TRUE
  /\ UNCHANGED <<stackVars, tableVars, siteVars, keys, path, truth, toolVars, nevents>>

cilk_enter_end ==
  /\ pc = "entering" /\ BackInUserCode
  /\ Asserting(~in_user_code) /\ UNCHANGED hist

\* cilk_tool_c_function_enter
cilk_tool_c_function_enter(site, t) ==
  LET e == Entered(CurrentSites, site, Len(c_stack))
  IN  /\ MayPush /\ site.type = "C_FUNCTION" /\ Tick
      /\ PushCFrame(Measured(t), e.index, site)
      /\ frames' = Bottom(WithContin(t))
      /\ SitesBecome(e)
      /\ Asserting(in_user_code /\ e.rest.ok)
      /\ path' = PathAfter(t) /\ truth' = TruthEntering(t, KeyOf(site))
      /\ UNCHANGED <<helper_sf_free_list, spawner_sf_free_list, tableVars, in_user_code, pc,
                     hist, toolVars>>

\* A function's own strand ends without a call: spawn, detach or sync.
EndStrand(t, next) ==
  /\ Tick
  /\ c_stack' = Measured(t)
  /\ frames' = Bottom([bot EXCEPT !.local_contin = @ + t])
  /\ Asserting(AtHead /\ in_user_code)
  /\ in_user_code' = FALSE
  /\ pc' = next
  /\ Passed(t)
  /\ UNCHANGED <<c_stack_capacity, helper_sf_free_list, spawner_sf_free_list, tableVars,
                 siteVars, keys, toolVars>>

\* cilk_spawn_prepare
cilk_spawn_prepare(t) ==
  /\ Running /\ AtHead /\ bot.func_type = "SPAWNER" /\ Last(hist).stage = "body"
  /\ EndStrand(t, "prepared")
  /\ Stage("spawning")

\* cilk_spawn_or_continue(0): calls may follow that evaluate arguments.
cilk_spawn_or_continue ==
  /\ pc = "prepared" /\ BackInUserCode
  /\ Asserting(AtHead /\ ~in_user_code) /\ UNCHANGED hist

\* cilk_detach_begin
cilk_detach_begin(t) ==
  /\ Running /\ AtHead /\ bot.func_type = "HELPER" /\ Last(hist).stage = "args"
  /\ EndStrand(t, "detaching")
  /\ UNCHANGED hist

cilk_detach_end ==
  /\ pc = "detaching" /\ BackInUserCode
  /\ Asserting(AtHead /\ ~in_user_code) /\ Stage("detached")

\* cilk_sync_begin
cilk_sync_begin(t) ==
  /\ Running /\ AtHead /\ bot.func_type = "SPAWNER" /\ Last(hist).stage = "body"
  /\ EndStrand(t, "syncing")
  /\ UNCHANGED hist

\* The path through the longest spawned child is the longer one.
ChildIsLonger(lchild, contin) == lchild > contin

\* Mutant: the frame's own part of the continuation is forgotten.
SyncedForgetting(child, running, a) ==
  IF child THEN [bot EXCEPT !.prefix_spn = @ + bot.lchild_spn, !.lchild_spn = 0,
                            !.local_contin = 0,
                            !.prefix_table = a.left, !.lchild_table = a.right]
           ELSE [bot EXCEPT !.prefix_spn = @ + running, !.lchild_spn = 0, !.local_contin = 0,
                            !.prefix_table = a.left, !.contin_table = a.right]

\* The frame once one of the two paths, in tables a.left, is its prefix.
Synced(child, running, a) ==
  IF child THEN [bot EXCEPT !.prefix_spn = @ + bot.lchild_spn, !.lchild_spn = 0,
                            !.local_contin = 0,
                            !.prefix_table = a.left, !.lchild_table = a.right]
           ELSE [bot EXCEPT !.prefix_spn = @ + running, !.lchild_spn = 0,
                            !.local_spn = @ + bot.local_contin, !.local_contin = 0,
                            !.prefix_table = a.left, !.contin_table = a.right]

\* cilk_sync_end: the longer of the two paths becomes part of the prefix.
cilk_sync_end ==
  LET running == Last(c_stack).running_spn
      child   == ChildIsLonger(bot.lchild_spn, running + bot.local_contin)
      joined  == Longer(path, Last(hist).join)
      other   == IF child THEN bot.lchild_table ELSE bot.contin_table
  IN  /\ pc = "syncing"
      /\ \E a \in {AddTables(heap, bot.prefix_table, other)} :
           LET b1 == Synced(child, running, a)
           IN  /\ frames' = Bottom(b1)
               /\ heap' = Clear(Clear(a.heap, b1.lchild_table), b1.contin_table)
      /\ c_stack' = [c_stack EXCEPT ![Len(c_stack)].running_spn = 0]
      /\ Asserting(/\ AtHead /\ bot.func_type = "SPAWNER" /\ ~in_user_code
                   /\ MayAddTables(heap, bot.prefix_table, other))
      /\ in_user_code' = TRUE /\ pc' = "user"
      /\ path' = joined
      /\ hist' = [hist EXCEPT ![Len(hist)].unsynced = FALSE, ![Len(hist)].join = joined]
      /\ UNCHANGED <<c_stack_capacity, helper_sf_free_list, spawner_sf_free_list, wrk_table,
                     siteVars, keys, truth, toolVars, nevents>>

-----------------------------------------------------------------------------
\* A frame returns: what its call site is charged with.
Charge(c, tail, wrk, spn, local_spn) ==
  LET left   == Left(c.cs_index, tail)
      caller == left.cs[c_stack[tail].cs_index].fn_index
      top_fn == left.fn[caller] = tail - 1
  IN  [index |-> c.cs_index, rip |-> c.rip,
       sums |-> IF IsTop(c.cs_index, tail) THEN Invocation(top_fn, wrk, spn, c.local_wrk, local_spn)
                                           ELSE LocalInvocation(c.local_wrk, local_spn)]


ReturnedSites(c) ==
  LET left == Left(c.cs_index, c_tail)
  IN  /\ cs_status' = left.cs /\ fn_status' = left.fn
      /\ UNCHANGED <<call_site_table, function_table, MIN_CAPACITY>>

\* cilk_tool_c_function_leave, of a C function other than main
cilk_tool_c_function_leave(t) ==
  LET c    == Last(Measured(t))
      wrk  == c.running_wrk + c.local_wrk
      spn  == c.running_spn + c.local_wrk
      update == Charge(c, c_tail, wrk, spn, c.local_wrk)
      w    == AddTo(heap, wrk_table, update)
      dst  == LentTable(bot)
      s    == AddTo(w.heap, dst, update)
  IN  /\ Running /\ ~AtHead /\ Tick
      /\ c_stack' = [Front(c_stack) EXCEPT ![c_tail].running_wrk = @ + wrk,
                                           ![c_tail].running_spn = @ + spn]
      /\ heap' = s.heap /\ wrk_table' = w.id
      /\ frames' = Bottom(IF bot.lchild_spn = 0 THEN [bot EXCEPT !.prefix_table = s.id]
                                                ELSE [bot EXCEPT !.contin_table = s.id])
      /\ ReturnedSites(c)
      /\ Asserting(/\ in_user_code /\ dst # NULL
                   /\ MayAdd(heap, wrk_table, update) /\ MayAdd(w.heap, dst, update))
      /\ keys' = Front(keys)
      /\ Passed(t)
      /\ UNCHANGED <<c_stack_capacity, helper_sf_free_list, spawner_sf_free_list,
                     in_user_code, pc, hist, toolVars>>

\* The part of cilk_leave_begin up to the return to a call or to a spawn: the
\* frame's span, its work, and the two tables they are added to.
Leaving(t) ==
  LET c     == Last(Measured(t))
      local == bot.local_spn + bot.local_contin + t
      span  == bot.prefix_spn + c.running_spn + local
      wrk   == c.running_wrk + c.local_wrk
      update == Charge(c, c_tail, wrk, span, local)
      w     == AddTo(heap, wrk_table, update)
      s     == AddTo(w.heap, bot.prefix_table, update)
  IN  [c |-> c, span |-> span, heap |-> s.heap, wrk_table |-> w.id, prefix_table |-> s.id,
       c_stack |-> [Front(c_stack) EXCEPT ![c_tail].running_wrk = @ + wrk],
       ok |-> MayAdd(heap, wrk_table, update) /\ MayAdd(w.heap, bot.prefix_table, update)]

MayLeave == Running /\ AtHead /\ Len(frames) > 1

Leave(t, r) ==
  /\ Tick
  /\ wrk_table' = r.wrk_table
  /\ ReturnedSites(r.c)
  /\ in_user_code' = FALSE /\ pc' = "leaving"
  /\ keys' = Front(keys) /\ truth' = TruthAfter(t)
  /\ UNCHANGED <<c_stack_capacity, toolVars>>

parent == frames[Len(frames) - 1]

\* Mutant: the caller goes on with the pointer it lent.
CallerUnchanged(frame, table) == frame

\* The callee's table may have been exchanged or have grown.
CallerGetsBack(frame, table) ==
  IF frame.lchild_spn = 0 THEN [frame EXCEPT !.prefix_table = table]
                          ELSE [frame EXCEPT !.contin_table = table]

\* cilk_leave_begin of a Cilk function, which returns to a call; the compiler
\* has made it sync its children.
cilk_leave_begin_call(t) ==
  /\ MayLeave /\ bot.func_type = "SPAWNER"
  /\ Last(hist).stage = "body" /\ ~Last(hist).unsynced
  /\ \E r \in {Leaving(t)} :
       /\ Leave(t, r)
       /\ c_stack' = [r.c_stack EXCEPT ![c_tail].running_spn = @ + r.span]
       /\ heap' = r.heap
       /\ frames' = Append(SubSeq(frames, 1, Len(frames) - 2),
                           CallerGetsBack(parent, r.prefix_table))
       /\ Asserting(/\ in_user_code /\ bot.lchild_spn = 0 /\ r.ok
                    /\ cc_hashtable_is_empty(heap[bot.lchild_table])
                    /\ cc_hashtable_is_empty(heap[bot.contin_table]))
  /\ spawner_sf_free_list' = <<[lchild |-> bot.lchild_table, contin |-> bot.contin_table]>>
                               \o spawner_sf_free_list
  /\ path' = PathAfter(t) /\ hist' = Front(hist)
  /\ UNCHANGED helper_sf_free_list

\* The spawned child r has the longest path: what precedes its spawn joins the
\* prefix, its table is kept, and the former longest child's goes to the list.
LongestChild(r, running, a) ==
  /\ heap' = Clear(Clear(a.heap, parent.lchild_table), a.right)
  /\ frames' = Append(SubSeq(frames, 1, Len(frames) - 2),
                 [parent EXCEPT !.prefix_spn = @ + running,
                                !.local_spn = @ + parent.local_contin,
                                !.lchild_spn = r.span, !.local_contin = 0,
                                !.prefix_table = a.left, !.contin_table = a.right,
                                !.lchild_table = r.prefix_table])
  /\ c_stack' = [r.c_stack EXCEPT ![c_tail].running_spn = 0]
  /\ helper_sf_free_list' = <<parent.lchild_table>> \o helper_sf_free_list

ShorterChild(r) ==
  /\ heap' = Clear(r.heap, r.prefix_table)
  /\ frames' = Front(frames) /\ c_stack' = r.c_stack
  /\ helper_sf_free_list' = <<r.prefix_table>> \o helper_sf_free_list

\* cilk_leave_begin of a spawn helper: it becomes the longest child if a path
\* through it is longer, and what precedes the spawn joins the prefix.
cilk_leave_begin_spawn(t) ==
  /\ MayLeave /\ bot.func_type = "HELPER" /\ Last(hist).stage = "detached"
  /\ \E r \in {Leaving(t)} :
       LET running == r.c_stack[c_tail].running_spn
           longest == ChildIsLonger(running + parent.local_contin + r.span, parent.lchild_spn)
       IN  /\ Leave(t, r)
           /\ IF longest
              THEN LongestChild(r, running,
                                AddTables(r.heap, parent.prefix_table, parent.contin_table))
              ELSE ShorterChild(r)
           /\ Asserting(/\ in_user_code /\ bot.lchild_spn = 0 /\ parent.func_type # "HELPER"
                        /\ r.ok /\ bot.lchild_table = NULL /\ bot.contin_table = NULL
                        /\ longest => MayAddTables(r.heap, parent.prefix_table,
                                                   parent.contin_table))
  /\ path' = Last(hist).resume
  /\ hist' = [Front(hist) EXCEPT ![Len(hist) - 1].join = Longer(@, PathAfter(t)),
                                 ![Len(hist) - 1].unsynced = TRUE,
                                 ![Len(hist) - 1].stage = "body"]
  /\ UNCHANGED spawner_sf_free_list

cilk_leave_end ==
  /\ pc = "leaving" /\ BackInUserCode
  /\ Asserting(~in_user_code) /\ UNCHANGED hist

-----------------------------------------------------------------------------
\* cilk_tool_print, on what main's frame is after it: the continuation joins
\* the prefix, and both tables are flushed.
Printed ==
  LET a == AddTables(heap, bot.prefix_table, bot.contin_table)
      s == Flush(Clear(a.heap, a.right), a.left)
      w == Flush(s.heap, wrk_table)
  IN  [heap |-> w.heap, wrk_table |-> w.id,
       main |-> [bot EXCEPT !.prefix_table = s.id, !.contin_table = a.right]]

\* Its assertions: those of the table code, and on the two tables that every
\* call site has an entry of its own in the first, unless it has none, and one
\* of the same address in the second, all of whose entries are printed.
PrintAsserts(p) ==
  LET a    == AddTables(heap, bot.prefix_table, bot.contin_table)
      work == p.heap[p.wrk_table]  span == p.heap[p.main.prefix_table]
      printed(rec) == rec.index \in Populated(work)
  IN  /\ MayAddTables(heap, bot.prefix_table, bot.contin_table)
      /\ MayFlush(a.heap, a.left) /\ MayFlush(a.heap, wrk_table)
      /\ \A rec \in AllRecords(call_site_table) :
           /\ rec.index < Capacity(work)
           /\ printed(rec) => can_override_entry(work.entries[rec.index], rec.iaddr)
           /\ printed(rec) /\ rec.index \in Populated(span) =>
                span.entries[rec.index].rip = work.entries[rec.index].rip
      /\ table_size(span) =
           Cardinality({rec \in AllRecords(call_site_table) :
                          printed(rec) /\ rec.index \in Populated(span)})

InMain == Running /\ AtHead /\ Len(frames) = 1

\* cilk_tool_print, called by the program
cilk_tool_print ==
  /\ InMain /\ nevents >= PrintFrom
  /\ \E p \in {Printed} :
       /\ heap' = p.heap /\ wrk_table' = p.wrk_table /\ frames' = <<p.main>>
       /\ Asserting(PrintAsserts(p))
  /\ TOOL_PRINTED' = TRUE
  /\ UNCHANGED <<c_stack, c_stack_capacity, helper_sf_free_list, spawner_sf_free_list,
                 siteVars, histVars, TOOL_INITIALIZED, leaked, ninits, in_user_code, pc, nevents>>

\* The tables cilk_tool_destroy frees: those of the free lists, on which it
\* puts the frame of MAIN as a helper's, and that of the work.
Freed(p) ==
  {p.wrk_table, p.main.prefix_table} \cup Range(helper_sf_free_list)
    \cup UNION {{f.lchild, f.contin} : f \in Range(spawner_sf_free_list)}

\* cilk_tool_destroy, or cilk_tool_c_function_leave of main, which calls it.
cilk_tool_destroy ==
  /\ InMain
  /\ \E p \in {IF TOOL_PRINTED
               THEN [heap |-> heap, wrk_table |-> wrk_table, main |-> bot] ELSE Printed} :
       /\ heap' = Restrict(p.heap, DOMAIN p.heap \ Freed(p))
       /\ leaked' = leaked \cup {p.main.lchild_table, p.main.contin_table}
       /\ Asserting(TOOL_PRINTED \/ PrintAsserts(p))
  /\ TOOL_INITIALIZED' = FALSE /\ TOOL_PRINTED' = TRUE
  /\ wrk_table' = NULL
  /\ frames' = <<>> /\ c_stack' = <<>> /\ keys' = <<>> /\ hist' = <<>>
  /\ helper_sf_free_list' = <<>> /\ spawner_sf_free_list' = <<>>
  /\ UNCHANGED <<c_stack_capacity, siteVars, path, truth, ninits, in_user_code, pc, nevents>>

Next ==
  /\ ~died
  /\ \/ cilk_tool_c_function_enter_main
     \/ \E site \in Sites :
          \/ cilk_enter_begin_first(site)
          \/ \E t \in StrandLengths :
               \/ cilk_enter_begin(site, t) \/ cilk_enter_helper_begin(site, t)
               \/ cilk_tool_c_function_enter(site, t)
     \/ \E t \in StrandLengths :
          \/ cilk_spawn_prepare(t) \/ cilk_detach_begin(t) \/ cilk_sync_begin(t)
          \/ cilk_tool_c_function_leave(t) \/ cilk_leave_begin_call(t)
     \/ \E t \in LeavingLengths : cilk_leave_begin_spawn(t)
     \/ cilk_enter_end \/ cilk_spawn_or_continue \/ cilk_detach_end
     \/ cilk_sync_end \/ cilk_leave_end
     \/ cilk_tool_print \/ cilk_tool_destroy

Spec == Init /\ [][Next]_vars

-----------------------------------------------------------------------------
\* Properties

Ids == Nat \cup {NULL}

\* Every frame names tables in use, the three stacks agree, and no vector or
\* table is indexed past its end.
TypeOK ==
  /\ {TOOL_INITIALIZED, TOOL_PRINTED, in_user_code, died} \subseteq BOOLEAN
  /\ pc \in {"user", "entering", "prepared", "detaching", "syncing", "leaving"}
  /\ DOMAIN heap \subseteq Nat /\ wrk_table \in Ids
  /\ \A i \in DOMAIN frames :
       /\ frames[i].func_type \in {"MAIN", "SPAWNER", "HELPER"}
       /\ frames[i].c_head \in 0 .. c_tail
  /\ Len(hist) = Len(frames) /\ Len(keys) = Len(c_stack)
  /\ Len(c_stack) <= c_stack_capacity
  /\ \A j \in DOMAIN c_stack : c_stack[j].cs_index \in DOMAIN cs_status
  /\ \A i \in DOMAIN cs_status :
       cs_status[i].c_tail # OFF_STACK => cs_status[i].fn_index \in DOMAIN fn_status

\* No assertion of the handlers and of the table code fails, whatever the
\* program calls, spawns and prints: the tables that are handed on are empty
\* when their new owner expects it, updates are only ever combined with those
\* of the same call site, when they are added, flushed or merged, and the two
\* tables printed agree with each other and with the numbering.
NoAssertionFails == ~died

-----------------------------------------------------------------------------
\* The table of frame i that the Cilk function it called goes on with: the
\* caller's pointer is not used until the callee returns.
IsLent(i, table) ==
  /\ i < Len(frames) /\ frames[i + 1].func_type = "SPAWNER"
  /\ table = IF frames[i].lchild_spn = 0 THEN "prefix_table" ELSE "contin_table"

\* The tables the frames own, in the given places of theirs.
Owned(places) ==
  {p \in (DOMAIN frames) \X places : frames[p[1]][p[2]] # NULL /\ ~IsLent(p[1], p[2])}

\* Everything that points to a table, as pairs of a place and the table.
Pointers ==
  {<<"frame", p[1], p[2], frames[p[1]][p[2]]>> :
     p \in Owned({"prefix_table", "lchild_table", "contin_table"})}
    \cup {<<"helpers", i, "prefix_table", helper_sf_free_list[i]>> :
            i \in DOMAIN helper_sf_free_list}
    \cup (UNION {{<<"spawners", i, "lchild_table", spawner_sf_free_list[i].lchild>>,
                  <<"spawners", i, "contin_table", spawner_sf_free_list[i].contin>>} :
                   i \in DOMAIN spawner_sf_free_list})
    \cup (IF wrk_table = NULL THEN {} ELSE {<<"work", 0, "wrk_table", wrk_table>>})
    \cup {<<"leaked", 0, "table", id>> : id \in leaked}

\* Tables are swapped when one is added to a larger one, replaced when they
\* grow, lent to callees and kept on free lists; still every table in use has
\* exactly one owner: none is freed and used, used by two, or lost (but for
\* the two of MAIN's frame, which cilk_tool_destroy forgets).
TablesHaveOneOwner ==
  /\ {p[4] : p \in Pointers} = DOMAIN heap
  /\ Cardinality(Pointers) = Cardinality(DOMAIN heap)

\* The number of a call site; its table of numbers has one record for it.
NumberOf(key) ==
  {rec.index : rec \in {r \in AllRecords(call_site_table) : <<r.iaddr, r.func_type>> = key}}

\* A call site keeps its number, however the table of addresses is searched
\* and grows: there is one record per call site entered, the numbers are the
\* first ones, and every frame and every table entry of that number is that
\* call site's.
NumberingIsStable ==
  TOOL_INITIALIZED =>
    /\ {rec.index : rec \in AllRecords(call_site_table)} = 0 .. call_site_table.table_size - 1
    /\ Cardinality(AllRecords(call_site_table)) = call_site_table.table_size
    /\ \A j \in DOMAIN c_stack :
         c_stack[j].rip # 0 => NumberOf(keys[j]) = {c_stack[j].cs_index}
    /\ \A rec \in AllRecords(call_site_table) : \A id \in DOMAIN heap \ leaked :
         RipsOf(heap[id], rec.index) \subseteq {rec.iaddr}

\* A call site is on the stack from its outermost C frame on, and so is a
\* function, as far as call sites know theirs: recursion that goes through
\* several call sites neither keeps one on the stack nor takes it off early.
StatusMatchesStack ==
  LET real == {j \in DOMAIN c_stack : c_stack[j].rip # 0}
      Outermost(js) == IF js = {} THEN OFF_STACK ELSE Min(js) - 1
  IN  TOOL_INITIALIZED =>
        /\ \A i \in DOMAIN cs_status :
             cs_status[i].c_tail = Outermost({j \in real : c_stack[j].cs_index = i})
        /\ \A f \in DOMAIN fn_status :
             fn_status[f] =
               Outermost({j \in real : cs_status[c_stack[j].cs_index].fn_index = f})

-----------------------------------------------------------------------------
\* What the tables say of a call site that may not have a number yet.
Sums(id, key) == IF NumberOf(key) = {} THEN NoInvocation
                 ELSE DataOf(heap[id], CHOOSE i \in NumberOf(key) : TRUE)

IsHead(j) == \E i \in DOMAIN frames : frames[i].c_head = j - 1

\* The path to here goes through these tables.
TablesOnPath == {frames[p[1]][p[2]] : p \in Owned({"prefix_table", "contin_table"})}

SpanOf(i) == frames[i].local_spn + frames[i].local_contin

\* At every point of the program the tables, with the locals of the frames on
\* the stack, say exactly which part of the longest path to that point is due
\* to each call site, and the frames' spans add up to its length.  So does
\* the profile that is printed.
PathProfileExact ==
  TOOL_INITIALIZED =>
    /\ \A k \in Keys :
         path[k] = MapThenSumSet(LAMBDA id : Sums(id, k).local_spn, TablesOnPath)
                   + MapThenSumSet(SpanOf, {i \in DOMAIN frames : keys[frames[i].c_head + 1] = k})
                   + MapThenSumSet(LAMBDA j : c_stack[j].local_wrk,
                                   {j \in DOMAIN keys : keys[j] = k /\ ~IsHead(j)})
    /\ Length(path) = MapThenSumSet(LAMBDA i : SpanOf(i) + frames[i].prefix_spn, DOMAIN frames)
                      + MapThenSumSet(LAMBDA j : c_stack[j].running_spn, DOMAIN c_stack)
                      + MapThenSumSet(LAMBDA j : c_stack[j].local_wrk,
                                      {j \in DOMAIN c_stack : ~IsHead(j)})

\* No strand and no invocation is lost from the work table, or counted twice,
\* while entries move between its list and its array: what it says of a call
\* site, with the frames still on the stack, is that call site's local work
\* and its invocations, and, once none of them is on the stack, the work of
\* the outermost ones.  The work printed is the sum.
WorkProfileExact ==
  TOOL_INITIALIZED =>
    /\ \A k \in Keys :
         LET on == {j \in DOMAIN keys : keys[j] = k}
         IN  /\ truth[k].local_wrk = Sums(wrk_table, k).local_wrk
                                     + MapThenSumSet(LAMBDA j : c_stack[j].local_wrk, on)
             /\ truth[k].local_count = Sums(wrk_table, k).local_count + Cardinality(on \ {1})
             /\ on = {} => /\ truth[k].wrk = Sums(wrk_table, k).wrk
                           /\ truth[k].count = Sums(wrk_table, k).count
    /\ MapThenSumSet(LAMBDA k : truth[k].local_wrk, Keys)
         = MapThenSumSet(LAMBDA j : c_stack[j].running_wrk + c_stack[j].local_wrk, DOMAIN c_stack)
=============================================================================
