------------------------------ MODULE WorkSpan -------------------------------
(***************************************************************************)
(* The serial build of cilkview (cilkview/cilkview.c, context_stack.h):    *)
(* the stack of frames, the running work, and the flag in_user_code.  The  *)
(* program's series-parallel dag is kept beside it as the longest path to  *)
(* each point; the span the tool prints is compared with it.               *)
(*                                                                         *)
(* Time passes between a gettime(start) and the next gettime(stop): an     *)
(* action that stops the timer takes the length of the strand from         *)
(* StrandTimes.  A helper's own strands are not timed by the tool: the     *)
(* handlers add no strand time while the bottom frame is a HELPER.         *)
(***************************************************************************)
EXTENDS SpanView

CONSTANTS
  AssertsCompiledIn,  \* FALSE when the library is built with -DNDEBUG
  StrandTimes,        \* lengths of strands
  MaxDepth,           \* bound on the stack of frames
  MaxEvents           \* bound on the events that take time

Levels == 0 .. MaxDepth

ASSUME TimesAssumption ==
  /\ StrandTimes \subseteq Nat /\ AssertsCompiledIn \in BOOLEAN
  /\ MaxDepth \in Nat /\ MaxEvents \in Nat

VARIABLES
  func_type, view, height,    \* the frames, by level
  bot,                        \* level of the bottommost frame
  running_wrk, in_user_code,
  died,
  pc,                         \* the pair of handlers the program is in
  detached,                   \* per level: the helper there has detached
  \* history
  entered, now, join,         \* per level: longest path to the function's entry, to
                              \* the point reached, and to what its next sync joins
  unsynced,                   \* per level: children returned since the last sync
  nevents

frameVars == <<func_type, view, height, bot>>
dagVars == <<entered, now, join, unsynced>>
vars == <<frameVars, running_wrk, in_user_code, died, pc, detached, dagVars, nevents>>

MaxOf(a, b) == IF a > b THEN a ELSE b

\* cilk_tool_init
Init ==
  /\ func_type = [k \in Levels |-> "MAIN"]
  /\ view = [k \in Levels |-> Identity]
  /\ height = [k \in Levels |-> 0]
  /\ bot = 0 /\ running_wrk = 0 /\ in_user_code = TRUE
  /\ died = FALSE /\ pc = "user"
  /\ detached = [k \in Levels |-> FALSE]
  /\ nevents = 0
  /\ entered = [k \in Levels |-> 0] /\ now = [k \in Levels |-> 0]
  /\ join = [k \in Levels |-> 0] /\ unsynced = [k \in Levels |-> 0]

-----------------------------------------------------------------------------
\* A handler asserts: the process aborts, or nothing if asserts are left out.
Asserting(cond) == died' = (AssertsCompiledIn /\ ~cond)

Tick == nevents < MaxEvents /\ nevents' = nevents + 1

\* stop - start is added to the work, and to the continuation of the bottom
\* frame; the program's longest path to here grows by as much.
TakeStrandTime(t) == running_wrk' = running_wrk + t
NoStrandTime == UNCHANGED running_wrk

\* context_stack_push, the caller's view and path being v and n by now
Push(type, v, n) ==
  /\ bot' = bot + 1
  /\ func_type' = [func_type EXCEPT ![bot + 1] = type]
  /\ view' = [view EXCEPT ![bot] = v, ![bot + 1] = Identity]
  /\ height' = [height EXCEPT ![bot + 1] = 0]
  /\ entered' = [entered EXCEPT ![bot + 1] = n]
  /\ now' = [now EXCEPT ![bot] = n, ![bot + 1] = n]
  /\ join' = [join EXCEPT ![bot + 1] = n]
  /\ unsynced' = [unsynced EXCEPT ![bot + 1] = 0]
  /\ detached' = [detached EXCEPT ![bot + 1] = FALSE]

\* Spawn arguments make no Cilk calls: a helper calls only once detached.
MayCall == func_type[bot] = "HELPER" => detached[bot]

cilk_enter_begin(t) ==
  /\ pc = "user" /\ bot < MaxDepth /\ MayCall /\ Tick
  /\ pc' = "entering"
  /\ IF func_type[bot] # "HELPER"
     THEN /\ TakeStrandTime(t)
          /\ in_user_code' = FALSE
          /\ Push("SPAWN", Extend(view[bot], t), now[bot] + t)
          /\ UNCHANGED died
     ELSE /\ Asserting(~in_user_code)
          /\ NoStrandTime
          /\ Push("SPAWN", view[bot], now[bot])
          /\ UNCHANGED in_user_code

cilk_enter_helper_begin ==
  /\ pc = "prepared" /\ bot < MaxDepth
  /\ pc' = "entering"
  /\ in_user_code' = FALSE
  /\ Push("HELPER", view[bot], now[bot])
  /\ NoStrandTime
  /\ UNCHANGED <<died, nevents>>

cilk_enter_end ==
  /\ pc = "entering"
  /\ pc' = "user"
  /\ Asserting(func_type[bot] = "SPAWN" => ~in_user_code)
  /\ in_user_code' = TRUE
  /\ NoStrandTime
  /\ UNCHANGED <<frameVars, dagVars, detached, nevents>>

\* cilk_spawn_prepare, and cilk_spawn_or_continue(0), which does nothing
cilk_spawn_prepare(t) ==
  /\ pc = "user" /\ func_type[bot] = "SPAWN" /\ Tick
  /\ pc' = "prepared"
  /\ TakeStrandTime(t)
  /\ view' = [view EXCEPT ![bot] = Extend(@, t)]
  /\ now' = [now EXCEPT ![bot] = @ + t]
  /\ Asserting(in_user_code)
  /\ in_user_code' = FALSE
  /\ UNCHANGED <<func_type, height, bot, detached, entered, join, unsynced>>

\* cilk_detach_begin and cilk_detach_end do nothing; the program knows.
cilk_detach ==
  /\ pc = "user" /\ func_type[bot] = "HELPER" /\ ~detached[bot]
  /\ detached' = [detached EXCEPT ![bot] = TRUE]
  /\ NoStrandTime
  /\ UNCHANGED <<frameVars, in_user_code, died, pc, dagVars, nevents>>

cilk_sync_begin(t) ==
  /\ pc = "user" /\ func_type[bot] = "SPAWN" /\ Tick
  /\ pc' = "syncing"
  /\ TakeStrandTime(t)
  /\ view' = [view EXCEPT ![bot] = Extend(@, t)]
  /\ now' = [now EXCEPT ![bot] = @ + t]
  /\ Asserting(in_user_code)
  /\ in_user_code' = FALSE
  /\ UNCHANGED <<func_type, height, bot, detached, entered, join, unsynced>>

cilk_sync_end ==
  /\ pc = "syncing"
  /\ pc' = "user"
  /\ view' = [view EXCEPT ![bot] = Sync(@)]
  /\ Asserting(~in_user_code)
  /\ in_user_code' = TRUE
  /\ now' = [now EXCEPT ![bot] = MaxOf(@, join[bot])]
  /\ join' = [join EXCEPT ![bot] = MaxOf(@, now[bot])]
  /\ unsynced' = [unsynced EXCEPT ![bot] = 0]
  /\ NoStrandTime
  /\ UNCHANGED <<func_type, height, bot, detached, entered, nevents>>

Pop ==
  /\ bot' = bot - 1
  /\ height' = [height EXCEPT ![bot - 1] = MaxOf(@, height[bot] + 1)]
  /\ UNCHANGED <<func_type, detached, entered>>

\* A Cilk function returns; the compiler has made it sync its children.
cilk_leave_begin_function(t) ==
  /\ pc = "user" /\ func_type[bot] = "SPAWN" /\ unsynced[bot] = 0 /\ Tick
  /\ pc' = "leaving"
  /\ Asserting(in_user_code /\ view[bot].lchild_spn = 0)
  /\ in_user_code' = FALSE
  /\ TakeStrandTime(t)
  /\ Pop
  /\ view' = [view EXCEPT ![bot - 1] = Extend(@, SpanOf(Extend(view[bot], t)))]
  /\ now' = [now EXCEPT ![bot - 1] = now[bot] + t]
  /\ UNCHANGED <<join, unsynced>>

\* A spawn helper returns.
cilk_leave_begin_helper ==
  /\ pc = "user" /\ func_type[bot] = "HELPER" /\ detached[bot]
  /\ pc' = "leaving"
  /\ Asserting(in_user_code /\ func_type[bot - 1] # "HELPER" /\ view[bot].lchild_spn = 0)
  /\ in_user_code' = FALSE
  /\ NoStrandTime
  /\ Pop
  /\ view' = [view EXCEPT ![bot - 1] = SpawnReturn(@, SpanOf(view[bot]))]
  /\ join' = [join EXCEPT ![bot - 1] = MaxOf(@, now[bot])]
  /\ unsynced' = [unsynced EXCEPT ![bot - 1] = @ + 1]
  /\ UNCHANGED <<now, nevents>>

cilk_leave_end ==
  /\ pc = "leaving"
  /\ pc' = "user"
  /\ Asserting(~in_user_code)
  /\ in_user_code' = TRUE
  /\ NoStrandTime
  /\ UNCHANGED <<frameVars, dagVars, detached, nevents>>

Next ==
  /\ ~died
  /\ \/ \E t \in StrandTimes :
          \/ cilk_enter_begin(t) \/ cilk_spawn_prepare(t)
          \/ cilk_sync_begin(t)  \/ cilk_leave_begin_function(t)
     \/ cilk_enter_helper_begin \/ cilk_enter_end \/ cilk_detach
     \/ cilk_sync_end \/ cilk_leave_begin_helper \/ cilk_leave_end

Spec == Init /\ [][Next]_vars

-----------------------------------------------------------------------------
\* Every variable has its type.
TypeOK ==
  /\ func_type \in [Levels -> {"MAIN", "SPAWN", "HELPER"}]
  /\ view \in [Levels -> Views] /\ height \in [Levels -> Nat]
  /\ bot \in Levels /\ running_wrk \in Nat
  /\ in_user_code \in BOOLEAN /\ died \in BOOLEAN
  /\ pc \in {"user", "entering", "prepared", "syncing", "leaving"}
  /\ detached \in [Levels -> BOOLEAN]
  /\ nevents \in Nat
  /\ entered \in [Levels -> Nat] /\ now \in [Levels -> Nat]
  /\ join \in [Levels -> Nat] /\ unsynced \in [Levels -> Nat]

\* What cilk_tool_print prints, when only main's frame is left.
printed_span == SpanOf(view[bot])

\* cilk_tool_print: back in main, the prefix and the continuation add up to
\* the longest path of the dag executed so far, though a frame remembers one
\* spawned child per block.
PrintedSpanIsLongestPath == bot = 0 => printed_span = now[0]

\* The printed parallelism, running work over span, is never below one.
SpanNeverExceedsWork == bot = 0 => printed_span <= running_wrk

\* in_user_code tells whether user code is being executed, as the assertions
\* of the handlers state.
NoAssertionFails == ~died
=============================================================================
