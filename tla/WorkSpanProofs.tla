---------------------------- MODULE WorkSpanProofs ----------------------------
(***************************************************************************)
(* The span cilkview prints, for every program: frames of any depth,       *)
(* strands of any length, any number of events.  The inductive invariant   *)
(* relates each frame's three spans to the two longest paths the history   *)
(* keeps for it.                                                           *)
(***************************************************************************)
EXTENDS WorkSpan, TLAPS

-----------------------------------------------------------------------------
(***************************************************************************)
(* The algebra of cilkview's views, for every length of every strand.  A   *)
(* view stands for two path lengths: Reached, to the point the function    *)
(* has reached, and Joined, to that point if a sync were put there.  The   *)
(* three spans are only one way to write them down; two views with the     *)
(* same path lengths print the same span whatever follows.                 *)
(***************************************************************************)
Longer(a, b) == IF a > b THEN a ELSE b

Joined(v) == Longer(Reached(v), ToJoin(v))

SameSpans(v, w) == Reached(v) = Reached(w) /\ Joined(v) = Joined(w)

-----------------------------------------------------------------------------
\* The event handlers and the reduce return views.
LEMMA ViewsClosed ==
  ASSUME NEW v \in Views, NEW w \in Views, NEW t \in Nat
  PROVE  /\ Extend(v, t) \in Views
         /\ SpawnReturn(v, t) \in Views
         /\ Sync(v) \in Views
         /\ Reduce(v, w) \in Views
         /\ SpanOf(v) \in Nat /\ Reached(v) \in Nat /\ ToJoin(v) \in Nat
  BY DEF Views, Extend, SpawnReturn, Sync, Reduce, SpanOf, Reached, ToJoin

\* What a strand, the return of a child and a sync do to the path lengths: the
\* child forgotten by SpawnReturn is one no longest path goes through.
LEMMA HandlerPaths ==
  ASSUME NEW v \in Views, NEW t \in Nat
  PROVE  /\ Reached(Extend(v, t)) = Reached(v) + t
         /\ ToJoin(Extend(v, t)) = ToJoin(v)
         /\ Reached(SpawnReturn(v, t)) = Reached(v)
         /\ ToJoin(SpawnReturn(v, t)) = Longer(ToJoin(v), Reached(v) + t)
         /\ Reached(Sync(v)) = Joined(v)
         /\ ToJoin(Sync(v)) = Joined(v)
  BY DEF Views, Extend, SpawnReturn, Sync, Reached, ToJoin, Joined, Longer

\* What reduce does to them: the right view goes on where the left one is.
LEMMA ReducePaths ==
  ASSUME NEW left \in Views, NEW right \in Views
  PROVE  /\ Reached(Reduce(left, right)) = Reached(left) + Reached(right)
         /\ ToJoin(Reduce(left, right)) = Longer(ToJoin(left), Reached(left) + ToJoin(right))
         /\ Joined(Reduce(left, right)) = Longer(Joined(left), Reached(left) + Joined(right))
  BY DEF Views, Reduce, Extend, Reached, ToJoin, Joined, Longer

-----------------------------------------------------------------------------
\* The view identity_context_stack makes is an identity of reduce, on either
\* side: a steal after which nothing is executed changes no span.
THEOREM ReduceIdentity ==
  ASSUME NEW v \in Views
  PROVE  Reduce(Identity, v) = v /\ SameSpans(Reduce(v, Identity), v)
<1>1. Reduce(Identity, v) = v
  BY DEF Views, Identity, Reduce, Extend
<1>2. Identity \in Views /\ Reached(Identity) = 0 /\ Joined(Identity) = 0
  BY DEF Views, Identity, Reached, ToJoin, Joined, Longer
<1>3. Reached(v) \in Nat /\ ToJoin(v) \in Nat
  BY ViewsClosed, 0 \in Nat
<1>4. SameSpans(Reduce(v, Identity), v)
  BY <1>2, <1>3, ReducePaths DEF SameSpans, Joined, Longer
<1>5. QED
  BY <1>1, <1>4

\* The runtime may reduce the views of three consecutive stretches of a
\* function in either grouping: the parallel tool prints the same span.
THEOREM ReduceAssociative ==
  ASSUME NEW a \in Views, NEW b \in Views, NEW c \in Views
  PROVE  SameSpans(Reduce(Reduce(a, b), c), Reduce(a, Reduce(b, c)))
<1> DEFINE ab == Reduce(a, b)
           bc == Reduce(b, c)
<1>1. ab \in Views /\ bc \in Views
  BY ViewsClosed, 0 \in Nat
<1>2. /\ Reached(a) \in Nat /\ Reached(b) \in Nat /\ Reached(c) \in Nat
      /\ ToJoin(a) \in Nat /\ ToJoin(b) \in Nat /\ ToJoin(c) \in Nat
  BY ViewsClosed, 0 \in Nat
<1>3. /\ Reached(ab) = Reached(a) + Reached(b)
      /\ Reached(bc) = Reached(b) + Reached(c)
      /\ Joined(ab) = Longer(Joined(a), Reached(a) + Joined(b))
      /\ Joined(bc) = Longer(Joined(b), Reached(b) + Joined(c))
  BY ReducePaths
<1> HIDE DEF ab, bc
<1>4. /\ Reached(Reduce(ab, c)) = Reached(ab) + Reached(c)
      /\ Reached(Reduce(a, bc)) = Reached(a) + Reached(bc)
      /\ Joined(Reduce(ab, c)) = Longer(Joined(ab), Reached(ab) + Joined(c))
      /\ Joined(Reduce(a, bc)) = Longer(Joined(a), Reached(a) + Joined(bc))
  BY <1>1, ReducePaths
<1>5. Reached(Reduce(ab, c)) = Reached(Reduce(a, bc))
  BY <1>2, <1>3, <1>4
<1>6. Joined(Reduce(ab, c)) = Joined(Reduce(a, bc))
  BY <1>2, <1>3, <1>4 DEF Joined, Longer
<1>7. QED
  BY <1>5, <1>6 DEF SameSpans, ab, bc

\* A steal is invisible: an event handled in the view of a stolen continuation
\* and then reduced leaves the path lengths the serial tool would have.
THEOREM ReduceCommutesWithHandlers ==
  ASSUME NEW left \in Views, NEW right \in Views, NEW t \in Nat
  PROVE  /\ SameSpans(Reduce(left, Extend(right, t)), Extend(Reduce(left, right), t))
         /\ SameSpans(Reduce(left, SpawnReturn(right, t)), SpawnReturn(Reduce(left, right), t))
<1>1. Extend(right, t) \in Views /\ SpawnReturn(right, t) \in Views /\ Reduce(left, right) \in Views
  BY ViewsClosed
<1>2. /\ Reached(left) \in Nat /\ Reached(right) \in Nat
      /\ ToJoin(left) \in Nat /\ ToJoin(right) \in Nat
  BY ViewsClosed
<1>3. SameSpans(Reduce(left, Extend(right, t)), Extend(Reduce(left, right), t))
  BY <1>1, <1>2, HandlerPaths, ReducePaths DEF SameSpans, Joined, Longer
<1>4. SameSpans(Reduce(left, SpawnReturn(right, t)), SpawnReturn(Reduce(left, right), t))
  BY <1>1, <1>2, HandlerPaths, ReducePaths DEF SameSpans, Joined, Longer
<1>5. QED
  BY <1>3, <1>4

-----------------------------------------------------------------------------
\* The view of a frame entered at path length e, whose longest path to the
\* point it has reached is n, and to its unjoined children j.
Consistent(e, v, n, j) == n = e + Reached(v) /\ MaxOf(j, n) = e + Joined(v)

FramesTyped ==
  /\ func_type \in [Levels -> {"MAIN", "SPAWN", "HELPER"}]
  /\ view \in [Levels -> Views] /\ height \in [Levels -> Nat]
  /\ bot \in Levels /\ running_wrk \in Nat
  /\ detached \in [Levels -> BOOLEAN]
  /\ entered \in [Levels -> Nat] /\ now \in [Levels -> Nat]
  /\ join \in [Levels -> Nat] /\ unsynced \in [Levels -> Nat]
  /\ func_type[0] = "MAIN"

FlagsTyped ==
  /\ in_user_code \in BOOLEAN /\ died \in BOOLEAN
  /\ pc \in {"user", "entering", "prepared", "syncing", "leaving"}
  /\ nevents \in Nat

PathInv ==
  /\ entered[0] = 0
  /\ \A k \in 0 .. bot : Consistent(entered[k], view[k], now[k], join[k])
  /\ \A k \in 1 .. bot : entered[k] = now[k - 1]

WorkInv == \A k \in 0 .. bot : now[k] <= running_wrk /\ join[k] <= running_wrk

\* What the handlers do to the frames must keep; the flags are apart.
FramesInv == FramesTyped /\ PathInv /\ WorkInv

IInv == FramesInv /\ FlagsTyped

-----------------------------------------------------------------------------
(***************************************************************************)
(* Consistent, step by step.                                               *)
(***************************************************************************)
\* A frame just pushed has the identity view.
LEMMA ConsistentAtEntry ==
  ASSUME NEW e \in Nat
  PROVE  Identity \in Views /\ Consistent(e, Identity, e, e)
  BY DEF Consistent, Identity, Views, Reached, ToJoin, Joined, Longer, MaxOf

\* A strand, or a called function, is added to both.
LEMMA ConsistentExtend ==
  ASSUME NEW e \in Nat, NEW v \in Views, NEW n \in Nat, NEW j \in Nat, NEW t \in Nat,
         Consistent(e, v, n, j)
  PROVE  Extend(v, t) \in Views /\ Consistent(e, Extend(v, t), n + t, j)
<1>1. Reached(v) \in Nat /\ ToJoin(v) \in Nat /\ Extend(v, t) \in Views
  BY ViewsClosed
<1>2. Reached(Extend(v, t)) = Reached(v) + t /\ ToJoin(Extend(v, t)) = ToJoin(v)
  BY HandlerPaths
<1>3. QED
  BY <1>1, <1>2 DEF Consistent, Joined, Longer, MaxOf

\* A spawned child of span s returns: its path may become the longest.
LEMMA ConsistentSpawnReturn ==
  ASSUME NEW e \in Nat, NEW v \in Views, NEW n \in Nat, NEW j \in Nat, NEW s \in Nat,
         Consistent(e, v, n, j)
  PROVE  SpawnReturn(v, s) \in Views /\ Consistent(e, SpawnReturn(v, s), n, MaxOf(j, n + s))
<1>1. Reached(v) \in Nat /\ ToJoin(v) \in Nat /\ SpawnReturn(v, s) \in Views
  BY ViewsClosed
<1>2. /\ Reached(SpawnReturn(v, s)) = Reached(v)
      /\ ToJoin(SpawnReturn(v, s)) = Longer(ToJoin(v), Reached(v) + s)
  BY HandlerPaths
<1>3. QED
  BY <1>1, <1>2 DEF Consistent, Joined, Longer, MaxOf

\* A sync joins the two paths.
LEMMA ConsistentSync ==
  ASSUME NEW e \in Nat, NEW v \in Views, NEW n \in Nat, NEW j \in Nat,
         Consistent(e, v, n, j)
  PROVE  Sync(v) \in Views /\ Consistent(e, Sync(v), MaxOf(n, j), MaxOf(j, n))
<1>1. Reached(v) \in Nat /\ ToJoin(v) \in Nat /\ Sync(v) \in Views
  BY ViewsClosed, 0 \in Nat
<1>2. Reached(Sync(v)) = Joined(v) /\ ToJoin(Sync(v)) = Joined(v)
  BY HandlerPaths, 0 \in Nat
<1>3. QED
  BY <1>1, <1>2 DEF Consistent, Joined, Longer, MaxOf

-----------------------------------------------------------------------------
(***************************************************************************)
(* The steps that touch the frames.                                        *)
(***************************************************************************)
\* The bottommost frame ends a strand of length t.
StrandEnds(t) ==
  /\ running_wrk' = running_wrk + t
  /\ view' = [view EXCEPT ![bot] = Extend(@, t)]
  /\ now' = [now EXCEPT ![bot] = @ + t]
  /\ UNCHANGED <<func_type, height, bot, detached, entered, join, unsynced>>

\* The end of a strand keeps the types of frames.
LEMMA StrandEndsInv ==
  ASSUME FramesInv, NEW t \in Nat, StrandEnds(t)
  PROVE  FramesInv'
<1>1. /\ bot \in Levels /\ entered[bot] \in Nat /\ view[bot] \in Views
      /\ now[bot] \in Nat /\ join[bot] \in Nat
  BY DEF FramesInv, FramesTyped
<1>2. Consistent(entered[bot], view[bot], now[bot], join[bot])
  BY <1>1 DEF FramesInv, PathInv, Levels
<1>3. /\ Extend(view[bot], t) \in Views
      /\ Consistent(entered[bot], Extend(view[bot], t), now[bot] + t, join[bot])
  BY <1>1, <1>2, ConsistentExtend
<1>4. PathInv'
  <2>1. entered'[0] = 0
    BY DEF FramesInv, PathInv, StrandEnds
  <2>2. ASSUME NEW k \in 0 .. bot'
        PROVE  Consistent(entered'[k], view'[k], now'[k], join'[k])
    BY <1>1, <1>3 DEF FramesInv, FramesTyped, PathInv, StrandEnds, Levels
  <2>3. ASSUME NEW k \in 1 .. bot' PROVE entered'[k] = now'[k - 1]
    BY <1>1, TimesAssumption DEF FramesInv, FramesTyped, PathInv, StrandEnds, Levels
  <2>4. QED
    BY <2>1, <2>2, <2>3 DEF PathInv
<1>5. WorkInv'
  <2>1. ASSUME NEW k \in 0 .. bot
        PROVE  now'[k] <= running_wrk + t /\ join[k] <= running_wrk + t
    <3>1. k \in Levels /\ now[k] \in Nat /\ join[k] \in Nat /\ running_wrk \in Nat
      BY <1>1, TimesAssumption, SMTT(20) DEF FramesInv, FramesTyped, Levels
    <3>2. now[k] <= running_wrk /\ join[k] <= running_wrk
      BY DEF FramesInv, WorkInv
    <3>3. now'[k] = now[k] \/ now'[k] = now[k] + t
      BY <3>1 DEF FramesInv, FramesTyped, StrandEnds
    <3>4. QED
      BY <3>1, <3>2, <3>3
  <2>2. QED
    BY <2>1 DEF StrandEnds, WorkInv
<1>6. QED
  BY <1>1, <1>3, <1>4, <1>5 DEF FramesInv, FramesTyped, StrandEnds

\* A frame of the given type is pushed, after a strand of length t of its
\* caller.
Pushes(type, t) ==
  /\ bot < MaxDepth
  /\ running_wrk' = running_wrk + t
  /\ Push(type, Extend(view[bot], t), now[bot] + t)

\* So does the push of a frame.
LEMMA PushesInv ==
  ASSUME FramesInv, NEW t \in Nat, NEW type \in {"SPAWN", "HELPER"}, Pushes(type, t)
  PROVE  FramesInv'
<1>1. /\ bot \in Levels /\ bot + 1 \in Levels /\ bot + 1 # 0
      /\ entered[bot] \in Nat /\ view[bot] \in Views
      /\ now[bot] \in Nat /\ join[bot] \in Nat /\ now[bot] + t \in Nat
  BY TimesAssumption, SMTT(20) DEF FramesInv, FramesTyped, Pushes, Levels
<1>2. Consistent(entered[bot], view[bot], now[bot], join[bot])
  BY <1>1 DEF FramesInv, PathInv, Levels
<1>3. /\ Extend(view[bot], t) \in Views
      /\ Consistent(entered[bot], Extend(view[bot], t), now[bot] + t, join[bot])
  BY <1>1, <1>2, ConsistentExtend
<1>4. Identity \in Views /\ Consistent(now[bot] + t, Identity, now[bot] + t, now[bot] + t)
  BY <1>1, ConsistentAtEntry
<1>5. PathInv'
  <2>1. entered'[0] = 0
    BY <1>1 DEF FramesInv, FramesTyped, PathInv, Pushes, Push
  <2>2. ASSUME NEW k \in 0 .. bot'
        PROVE  Consistent(entered'[k], view'[k], now'[k], join'[k])
    <3>1. CASE k = bot + 1
      BY <1>1, <1>4, <3>1 DEF FramesInv, FramesTyped, Pushes, Push
    <3>2. CASE k = bot
      BY <1>1, <1>3, <3>2 DEF FramesInv, FramesTyped, Pushes, Push, Levels
    <3>3. CASE k \in 0 .. (bot - 1)
      <4>1. k \in Levels /\ k # bot /\ k # bot + 1
        BY <1>1, <3>3, TimesAssumption DEF Levels
      <4>2. Consistent(entered[k], view[k], now[k], join[k])
        BY <1>1, <3>3, TimesAssumption DEF FramesInv, PathInv, Levels
      <4>3. QED
        BY <1>1, <4>1, <4>2 DEF FramesInv, FramesTyped, Pushes, Push
    <3>4. QED
      BY <1>1, <3>1, <3>2, <3>3 DEF Pushes, Push, Levels
  <2>3. ASSUME NEW k \in 1 .. bot' PROVE entered'[k] = now'[k - 1]
    <3>1. CASE k = bot + 1
      <4>1. k - 1 = bot /\ bot # bot + 1
        BY <1>1, <3>1, TimesAssumption DEF Levels
      <4>2. QED
        BY <1>1, <3>1, <4>1 DEF FramesInv, FramesTyped, Pushes, Push
    <3>2. CASE k \in 1 .. bot
      <4>1. k \in Levels /\ k - 1 \in Levels /\ k # bot + 1 /\ k - 1 # bot /\ k - 1 # bot + 1
        BY <1>1, <3>2, TimesAssumption DEF Levels
      <4>2. entered[k] = now[k - 1]
        BY <3>2 DEF FramesInv, PathInv
      <4>3. QED
        BY <1>1, <4>1, <4>2 DEF FramesInv, FramesTyped, Pushes, Push
    <3>3. QED
      BY <1>1, <3>1, <3>2 DEF Pushes, Push, Levels
  <2>4. QED
    BY <2>1, <2>2, <2>3 DEF PathInv, Consistent
<1>6. WorkInv'
  <2>1. ASSUME NEW k \in 0 .. (bot + 1)
        PROVE  now'[k] <= running_wrk + t /\ join'[k] <= running_wrk + t
    <3>1. now[bot] + t <= running_wrk + t /\ running_wrk \in Nat
      BY <1>1 DEF FramesInv, FramesTyped, WorkInv, Levels
    <3>2. CASE k = bot + 1
      BY <1>1, <3>1, <3>2 DEF FramesInv, FramesTyped, Pushes, Push
    <3>3. CASE k \in 0 .. bot
      <4>0. k \in Levels /\ k # bot + 1
        BY <1>1, <3>3, TimesAssumption DEF Levels
      <4>1. k \in Levels /\ k # bot + 1 /\ now[k] \in Nat /\ join[k] \in Nat
        BY <4>0 DEF FramesInv, FramesTyped
      <4>2. now[k] <= running_wrk /\ join[k] <= running_wrk
        BY <3>3 DEF FramesInv, WorkInv
      <4>3. (now'[k] = now[k] \/ now'[k] = now[bot] + t) /\ join'[k] = join[k]
        BY <1>1, <4>1 DEF FramesInv, FramesTyped, Pushes, Push
      <4>4. QED
        BY <3>1, <4>1, <4>2, <4>3
    <3>4. QED
      BY <1>1, <3>2, <3>3 DEF Levels
  <2>2. QED
    BY <2>1 DEF Pushes, Push, WorkInv
<1>7. QED
  BY <1>1, <1>3, <1>4, <1>5, <1>6 DEF FramesInv, FramesTyped, Pushes, Push

\* The bottommost frame syncs.
Syncs ==
  /\ view' = [view EXCEPT ![bot] = Sync(@)]
  /\ now' = [now EXCEPT ![bot] = MaxOf(@, join[bot])]
  /\ join' = [join EXCEPT ![bot] = MaxOf(@, now[bot])]
  /\ unsynced' = [unsynced EXCEPT ![bot] = 0]
  /\ UNCHANGED <<func_type, height, bot, detached, entered, running_wrk>>

\* So does a sync.
LEMMA SyncsInv ==
  ASSUME FramesInv, Syncs
  PROVE  FramesInv'
<1>1. /\ bot \in Levels /\ entered[bot] \in Nat /\ view[bot] \in Views
      /\ now[bot] \in Nat /\ join[bot] \in Nat
      /\ MaxOf(now[bot], join[bot]) \in Nat /\ MaxOf(join[bot], now[bot]) \in Nat
  BY DEF FramesInv, FramesTyped, MaxOf
<1>2. Consistent(entered[bot], view[bot], now[bot], join[bot])
  BY <1>1, TimesAssumption DEF FramesInv, PathInv, Levels
<1>3. /\ Sync(view[bot]) \in Views
      /\ Consistent(entered[bot], Sync(view[bot]), MaxOf(now[bot], join[bot]),
                    MaxOf(join[bot], now[bot]))
  BY <1>1, <1>2, ConsistentSync
<1>4. PathInv'
  <2>1. entered'[0] = 0
    BY DEF FramesInv, PathInv, Syncs
  <2>2. ASSUME NEW k \in 0 .. bot'
        PROVE  Consistent(entered'[k], view'[k], now'[k], join'[k])
    BY <1>1, <1>3 DEF FramesInv, FramesTyped, PathInv, Syncs, Levels
  <2>3. ASSUME NEW k \in 1 .. bot' PROVE entered'[k] = now'[k - 1]
    BY <1>1, TimesAssumption DEF FramesInv, FramesTyped, PathInv, Syncs, Levels
  <2>4. QED
    BY <2>1, <2>2, <2>3 DEF PathInv
<1>5. WorkInv'
  <2>1. ASSUME NEW k \in 0 .. bot
        PROVE  now'[k] <= running_wrk /\ join'[k] <= running_wrk
    <3>1. k \in Levels
      BY <1>1, TimesAssumption DEF Levels
    <3>2. /\ now[k] <= running_wrk /\ join[k] <= running_wrk
          /\ now[bot] <= running_wrk /\ join[bot] <= running_wrk
      BY <1>1, TimesAssumption DEF FramesInv, WorkInv, Levels
    <3>3. /\ now'[k] = now[k] \/ now'[k] = now[bot] \/ now'[k] = join[bot]
          /\ join'[k] = join[k] \/ join'[k] = now[bot] \/ join'[k] = join[bot]
      BY <1>1, <3>1 DEF FramesInv, FramesTyped, Syncs, MaxOf
    <3>4. QED
      BY <3>2, <3>3
  <2>2. QED
    BY <2>1 DEF Syncs, WorkInv
<1>6. QED
  BY <1>1, <1>3, <1>4, <1>5 DEF FramesInv, FramesTyped, Syncs

-----------------------------------------------------------------------------
(***************************************************************************)
(* The steps that pop a frame.                                             *)
(***************************************************************************)
\* What holds of the two bottommost frames whenever there are two.
LEMMA TwoFrames ==
  ASSUME FramesInv, bot # 0
  PROVE  /\ bot \in Levels /\ bot - 1 \in Levels /\ bot - 1 # bot
         /\ view[bot] \in Views /\ view[bot - 1] \in Views
         /\ entered[bot] \in Nat /\ entered[bot - 1] \in Nat
         /\ now[bot] \in Nat /\ now[bot - 1] \in Nat
         /\ join[bot] \in Nat /\ join[bot - 1] \in Nat
         /\ Consistent(entered[bot - 1], view[bot - 1], now[bot - 1], join[bot - 1])
         /\ SpanOf(view[bot]) \in Nat
         /\ now[bot] = now[bot - 1] + SpanOf(view[bot])
         /\ now[bot] <= running_wrk
<1>1. bot \in Levels /\ bot - 1 \in Levels /\ bot - 1 # bot /\ bot \in 1 .. bot
  BY TimesAssumption DEF FramesInv, FramesTyped, Levels
<1>2. /\ view[bot] \in Views /\ view[bot - 1] \in Views
      /\ entered[bot] \in Nat /\ entered[bot - 1] \in Nat
      /\ now[bot] \in Nat /\ now[bot - 1] \in Nat
      /\ join[bot] \in Nat /\ join[bot - 1] \in Nat
  BY <1>1 DEF FramesInv, FramesTyped
<1>3. /\ Consistent(entered[bot], view[bot], now[bot], join[bot])
      /\ Consistent(entered[bot - 1], view[bot - 1], now[bot - 1], join[bot - 1])
      /\ entered[bot] = now[bot - 1]
      /\ now[bot] <= running_wrk
  BY <1>1, TimesAssumption DEF FramesInv, PathInv, WorkInv, Levels
<1>4. SpanOf(view[bot]) \in Nat
  BY <1>2, ViewsClosed
<1>5. now[bot] = now[bot - 1] + SpanOf(view[bot])
  BY <1>3 DEF Consistent, SpanOf, Reached
<1>6. QED
  BY <1>1, <1>2, <1>3, <1>4, <1>5

\* The parent's view becomes v, and its two paths n and j.
ParentBecomes(v, n, j) ==
  /\ bot' = bot - 1
  /\ view' = [view EXCEPT ![bot - 1] = v]
  /\ now' = [now EXCEPT ![bot - 1] = n]
  /\ join' = [join EXCEPT ![bot - 1] = j]
  /\ height' = [height EXCEPT ![bot - 1] = MaxOf(@, height[bot] + 1)]
  /\ unsynced' \in {unsynced, [unsynced EXCEPT ![bot - 1] = @ + 1]}
  /\ UNCHANGED <<func_type, detached, entered>>

\* A pop keeps the invariant if it leaves the parent consistent and its paths
\* within the running work.
LEMMA PopInv ==
  ASSUME FramesInv, bot # 0, NEW v \in Views, NEW n \in Nat, NEW j \in Nat,
         ParentBecomes(v, n, j), Consistent(entered[bot - 1], v, n, j),
         running_wrk' \in Nat, running_wrk <= running_wrk',
         n <= running_wrk', j <= running_wrk'
  PROVE  FramesInv'
<1>1. /\ bot \in Levels /\ bot - 1 \in Levels
      /\ entered[bot - 1] \in Nat
  BY TwoFrames
<1>2. PathInv'
  <2>1. entered'[0] = 0
    BY DEF FramesInv, PathInv, ParentBecomes
  <2>2. ASSUME NEW k \in 0 .. bot'
        PROVE  Consistent(entered'[k], view'[k], now'[k], join'[k])
    <3>1. k \in Levels /\ k \in 0 .. bot
      BY <1>1, TimesAssumption DEF ParentBecomes, Levels
    <3>2. Consistent(entered[k], view[k], now[k], join[k])
      BY <3>1 DEF FramesInv, PathInv
    <3>3. QED
      BY <1>1, <3>1, <3>2 DEF FramesInv, FramesTyped, ParentBecomes
  <2>3. ASSUME NEW k \in 1 .. bot' PROVE entered'[k] = now'[k - 1]
    <3>1. k \in 1 .. bot /\ k - 1 \in Levels /\ k - 1 # bot - 1
      BY <1>1, TimesAssumption DEF ParentBecomes, Levels
    <3>2. entered[k] = now[k - 1]
      BY <3>1 DEF FramesInv, PathInv
    <3>3. QED
      BY <1>1, <3>1, <3>2 DEF FramesInv, FramesTyped, ParentBecomes
  <2>4. QED
    BY <2>1, <2>2, <2>3 DEF PathInv
<1>3. WorkInv'
  <2>1. ASSUME NEW k \in 0 .. bot'
        PROVE  now'[k] <= running_wrk' /\ join'[k] <= running_wrk'
    <3>1. k \in Levels /\ k \in 0 .. bot
      BY <1>1, TimesAssumption DEF ParentBecomes, Levels
    <3>2. now[k] \in Nat /\ join[k] \in Nat /\ running_wrk \in Nat
      BY <3>1 DEF FramesInv, FramesTyped
    <3>3. now[k] <= running_wrk /\ join[k] <= running_wrk
      BY <3>1 DEF FramesInv, WorkInv
    <3>4. /\ now'[k] = now[k] \/ now'[k] = n
          /\ join'[k] = join[k] \/ join'[k] = j
      BY <3>1 DEF FramesInv, FramesTyped, ParentBecomes
    <3>5. QED
      BY <3>2, <3>3, <3>4
  <2>2. QED
    BY <2>1 DEF WorkInv
<1>4. FramesTyped'
  <2>1. height[bot - 1] \in Nat /\ height[bot] + 1 \in Nat /\ unsynced[bot - 1] + 1 \in Nat
    BY <1>1 DEF FramesInv, FramesTyped
  <2>2. MaxOf(height[bot - 1], height[bot] + 1) \in Nat
    BY <2>1 DEF MaxOf
  <2>3. height' \in [Levels -> Nat] /\ unsynced' \in [Levels -> Nat]
    BY <2>1, <2>2 DEF FramesInv, FramesTyped, ParentBecomes
  <2>4. QED
    BY <1>1, <2>3 DEF FramesInv, FramesTyped, ParentBecomes
<1>5. QED
  BY <1>2, <1>3, <1>4 DEF FramesInv

\* A Cilk function returns to its caller after a strand of length t.
LEMMA FunctionReturnsInv ==
  ASSUME FramesInv, bot # 0, NEW t \in Nat, running_wrk' = running_wrk + t,
         ParentBecomes(Extend(view[bot - 1], SpanOf(Extend(view[bot], t))),
                       now[bot] + t, join[bot - 1])
  PROVE  FramesInv'
<1> DEFINE span == SpanOf(view[bot]) + t
           v == Extend(view[bot - 1], span)
<1>1. SpanOf(Extend(view[bot], t)) = span
  BY TwoFrames DEF SpanOf, Extend, Views
<1>2. span \in Nat /\ now[bot] + t = now[bot - 1] + span /\ now[bot] + t \in Nat
  BY TwoFrames
<1> HIDE DEF span
<1>3. v \in Views /\ Consistent(entered[bot - 1], v, now[bot] + t, join[bot - 1])
  BY <1>2, TwoFrames, ConsistentExtend
<1>4. join[bot - 1] <= running_wrk
  BY TwoFrames, TimesAssumption DEF FramesInv, WorkInv, Levels
<1>5. /\ running_wrk' \in Nat /\ running_wrk <= running_wrk'
      /\ now[bot] + t <= running_wrk' /\ join[bot - 1] <= running_wrk'
  BY <1>4, TwoFrames DEF FramesInv, FramesTyped
<1>6. ParentBecomes(v, now[bot] + t, join[bot - 1])
  BY <1>1
<1> HIDE DEF v
<1>7. QED
  BY <1>2, <1>3, <1>5, <1>6, TwoFrames, PopInv

\* A spawn helper returns to its spawner.
LEMMA HelperReturnsInv ==
  ASSUME FramesInv, bot # 0, running_wrk' = running_wrk,
         ParentBecomes(SpawnReturn(view[bot - 1], SpanOf(view[bot])),
                       now[bot - 1], MaxOf(join[bot - 1], now[bot]))
  PROVE  FramesInv'
<1> DEFINE v == SpawnReturn(view[bot - 1], SpanOf(view[bot]))
           j == MaxOf(join[bot - 1], now[bot])
<1>1. v \in Views /\ Consistent(entered[bot - 1], v, now[bot - 1], j)
  BY TwoFrames, ConsistentSpawnReturn
<1>2. now[bot - 1] <= running_wrk /\ join[bot - 1] <= running_wrk
  BY TwoFrames, TimesAssumption DEF FramesInv, WorkInv, Levels
<1>3. /\ j \in Nat /\ j <= running_wrk' /\ now[bot - 1] <= running_wrk'
      /\ running_wrk' \in Nat /\ running_wrk <= running_wrk'
  BY <1>2, TwoFrames DEF FramesInv, FramesTyped, MaxOf
<1>4. ParentBecomes(v, now[bot - 1], j)
  OBVIOUS
<1> HIDE DEF v, j
<1>5. QED
  BY <1>1, <1>3, <1>4, TwoFrames, PopInv

-----------------------------------------------------------------------------
\* The invariant holds in main, before anything is executed.
LEMMA InitIInv == Init => IInv
<1> SUFFICES ASSUME Init PROVE IInv
  OBVIOUS
<1>1. 0 \in Levels
  BY TimesAssumption DEF Levels
<1>2. Identity \in Views /\ Consistent(0, Identity, 0, 0)
  BY ConsistentAtEntry, 0 \in Nat
<1>3. FramesTyped /\ FlagsTyped
  BY <1>1, <1>2 DEF Init, FramesTyped, FlagsTyped
<1>4. PathInv
  BY <1>2, TimesAssumption DEF Init, PathInv, Levels
<1>5. WorkInv
  BY TimesAssumption DEF Init, WorkInv, Levels
<1>6. QED
  BY <1>3, <1>4, <1>5 DEF IInv, FramesInv

\* Nothing but the variables of FramesInv can disturb it.
LEMMA FramesUnchanged ==
  ASSUME FramesInv, UNCHANGED <<frameVars, dagVars, detached, running_wrk>>
  PROVE  FramesInv'
  BY DEF frameVars, dagVars, FramesInv, FramesTyped, PathInv, WorkInv

\* One step per handler.
LEMMA StepIInv == IInv /\ [Next]_vars => IInv'
<1> SUFFICES ASSUME IInv, [Next]_vars PROVE FramesInv' /\ FlagsTyped'
  BY DEF IInv
<1>0. /\ FramesInv /\ bot \in Levels /\ now[bot] \in Nat /\ view[bot] \in Views
      /\ func_type[bot] # "MAIN" => bot # 0
  BY DEF IInv, FramesInv, FramesTyped
<1>z. Extend(view[bot], 0) = view[bot] /\ now[bot] + 0 = now[bot] /\ running_wrk + 0 = running_wrk
  BY <1>0 DEF Extend, Views, FramesInv, FramesTyped
<1>t. Tick => nevents' \in Nat
  BY DEF Tick, IInv, FlagsTyped
<1>1. ASSUME NEW t \in StrandTimes, cilk_enter_begin(t) PROVE FramesInv' /\ FlagsTyped'
  <2>1. t \in Nat
    BY TimesAssumption
  <2>2. CASE func_type[bot] # "HELPER"
    <3>1. Pushes("SPAWN", t)
      BY <1>1, <2>2 DEF cilk_enter_begin, Pushes, TakeStrandTime
    <3>2. QED
      BY <1>0, <1>t, <1>1, <2>1, <2>2, <3>1, PushesInv
         DEF cilk_enter_begin, IInv, FlagsTyped
  <2>3. CASE func_type[bot] = "HELPER"
    <3>1. Pushes("SPAWN", 0)
      BY <1>1, <1>z, <2>3 DEF cilk_enter_begin, Pushes, NoStrandTime
    <3>2. QED
      BY <1>0, <1>t, <1>1, <2>3, <3>1, PushesInv
         DEF cilk_enter_begin, Asserting, IInv, FlagsTyped
  <2>4. QED
    BY <2>2, <2>3
<1>2. ASSUME NEW t \in StrandTimes, cilk_spawn_prepare(t) PROVE FramesInv' /\ FlagsTyped'
  <2>1. t \in Nat /\ StrandEnds(t)
    BY <1>2, TimesAssumption DEF cilk_spawn_prepare, StrandEnds, TakeStrandTime
  <2>2. QED
    BY <1>0, <1>t, <1>2, <2>1, StrandEndsInv DEF cilk_spawn_prepare, Asserting, IInv, FlagsTyped
<1>3. ASSUME NEW t \in StrandTimes, cilk_sync_begin(t) PROVE FramesInv' /\ FlagsTyped'
  <2>1. t \in Nat /\ StrandEnds(t)
    BY <1>3, TimesAssumption DEF cilk_sync_begin, StrandEnds, TakeStrandTime
  <2>2. QED
    BY <1>0, <1>t, <1>3, <2>1, StrandEndsInv DEF cilk_sync_begin, Asserting, IInv, FlagsTyped
<1>4. ASSUME NEW t \in StrandTimes, cilk_leave_begin_function(t)
      PROVE  FramesInv' /\ FlagsTyped'
  <2>1. t \in Nat /\ bot # 0
    BY <1>0, <1>4, TimesAssumption DEF cilk_leave_begin_function
  <2>2. join = [join EXCEPT ![bot - 1] = join[bot - 1]]
    BY <1>0, <2>1, TwoFrames DEF FramesInv, FramesTyped
  <2>3. /\ running_wrk' = running_wrk + t
        /\ ParentBecomes(Extend(view[bot - 1], SpanOf(Extend(view[bot], t))),
                         now[bot] + t, join[bot - 1])
    BY <1>4, <2>2 DEF cilk_leave_begin_function, TakeStrandTime, Pop, ParentBecomes
  <2>4. QED
    BY <1>0, <1>4, <1>t, <2>1, <2>3, FunctionReturnsInv
       DEF cilk_leave_begin_function, Asserting, IInv, FlagsTyped
<1>5. CASE cilk_enter_helper_begin
  <2>1. Pushes("HELPER", 0)
    BY <1>5, <1>z DEF cilk_enter_helper_begin, Pushes, NoStrandTime
  <2>2. QED
    BY <1>0, <1>5, <2>1, PushesInv DEF cilk_enter_helper_begin, IInv, FlagsTyped
<1>6. CASE cilk_enter_end
  BY <1>0, <1>6, FramesUnchanged
     DEF cilk_enter_end, NoStrandTime, Asserting, IInv, FlagsTyped
<1>7. CASE cilk_detach
  <2>1. FramesTyped'
    BY <1>0, <1>7 DEF cilk_detach, frameVars, dagVars, NoStrandTime, FramesInv, FramesTyped
  <2>2. PathInv' /\ WorkInv'
    BY <1>0, <1>7
       DEF cilk_detach, frameVars, dagVars, NoStrandTime, FramesInv, PathInv, WorkInv
  <2>3. QED
    BY <1>7, <2>1, <2>2 DEF cilk_detach, FramesInv, IInv, FlagsTyped
<1>8. CASE cilk_sync_end
  <2>1. Syncs
    BY <1>8 DEF cilk_sync_end, Syncs, NoStrandTime
  <2>2. QED
    BY <1>0, <1>8, <2>1, SyncsInv DEF cilk_sync_end, Asserting, IInv, FlagsTyped
<1>9. CASE cilk_leave_begin_helper
  <2>1. bot # 0
    BY <1>0, <1>9 DEF cilk_leave_begin_helper
  <2>2. now = [now EXCEPT ![bot - 1] = now[bot - 1]]
    BY <1>0, <2>1, TwoFrames DEF FramesInv, FramesTyped
  <2>3. /\ running_wrk' = running_wrk
        /\ ParentBecomes(SpawnReturn(view[bot - 1], SpanOf(view[bot])),
                         now[bot - 1], MaxOf(join[bot - 1], now[bot]))
    BY <1>9, <2>2 DEF cilk_leave_begin_helper, NoStrandTime, Pop, ParentBecomes
  <2>4. QED
    BY <1>0, <1>9, <2>1, <2>3, HelperReturnsInv
       DEF cilk_leave_begin_helper, Asserting, IInv, FlagsTyped
<1>10. CASE cilk_leave_end
  BY <1>0, <1>10, FramesUnchanged
     DEF cilk_leave_end, NoStrandTime, Asserting, IInv, FlagsTyped
<1>11. CASE UNCHANGED vars
  BY <1>0, <1>11, FramesUnchanged DEF vars, frameVars, dagVars, IInv, FlagsTyped
<1>12. QED
  BY <1>1, <1>2, <1>3, <1>4, <1>5, <1>6, <1>7, <1>8, <1>9, <1>10, <1>11 DEF Next

\* The inductive invariant holds in every state.
LEMMA InductiveInvariant == Spec => []IInv
<1>1. Init => IInv
  BY InitIInv
<1>2. IInv /\ [Next]_vars => IInv'
  BY StepIInv
<1>3. QED
  BY <1>1, <1>2, PTL DEF Spec

\* Every variable keeps its type; in particular no span is ever negative and
\* the stack never pops main.
THEOREM TypeCorrect == Spec => []TypeOK
<1>1. IInv => TypeOK
  BY DEF IInv, FramesInv, FramesTyped, FlagsTyped, TypeOK
<1>2. QED
  BY <1>1, InductiveInvariant, PTL

\* Whenever only main's frame is left, the span the tool would print is the
\* length of the longest path of the dag executed so far.
THEOREM PrintedSpanCorrect == Spec => []PrintedSpanIsLongestPath
<1>1. ASSUME IInv, bot = 0 PROVE printed_span = now[0]
  <2>1. entered[0] = 0 /\ Consistent(entered[0], view[0], now[0], join[0])
    BY <1>1 DEF IInv, FramesInv, PathInv
  <2>2. now[0] \in Nat /\ Reached(view[0]) \in Nat
    BY <1>1, ViewsClosed, 0 \in Nat DEF IInv, FramesInv, FramesTyped
  <2>3. now[0] = Reached(view[0])
    BY <2>1, <2>2 DEF Consistent
  <2>4. QED
    BY <1>1, <2>3 DEF printed_span, SpanOf, Reached
<1>2. QED
  BY <1>1, InductiveInvariant, PTL DEF PrintedSpanIsLongestPath

\* The span printed is never above the work printed: the parallelism of a
\* program is at least one.
THEOREM ParallelismAtLeastOne == Spec => []SpanNeverExceedsWork
<1>1. IInv /\ PrintedSpanIsLongestPath => SpanNeverExceedsWork
  BY DEF IInv, FramesInv, WorkInv, PrintedSpanIsLongestPath, SpanNeverExceedsWork
<1>2. QED
  BY <1>1, InductiveInvariant, PrintedSpanCorrect, PTL
=============================================================================
