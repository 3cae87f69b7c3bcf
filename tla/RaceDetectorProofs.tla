------------------------- MODULE RaceDetectorProofs --------------------------
(***************************************************************************)
(* One reader and one writer per location lose no race, for every program  *)
(* and every bound.                                                        *)
(*                                                                         *)
(* The bags order the strands: those in the S-bags from the outermost      *)
(* frame in, then those in the P-bags from the innermost frame out.  Every *)
(* handler keeps that order, though it moves strands from bag to bag: a    *)
(* sync empties the innermost P-bag into the innermost S-bag, a return     *)
(* moves the innermost S-bag one place up or down.  The access kept at a   *)
(* location is one that comes last in the order among the accesses of its  *)
(* kind, so it is in a P-bag whenever any of them is.                      *)
(***************************************************************************)
EXTENDS RaceDetector, CilkSanProofs

\* Strand s comes after strand t in the order of the bags, or with it.
Over(s, t) ==
  \E j, k \in Depth :
    \/ rep(t) = Sbag[j] /\ rep(s) = Sbag[k] /\ j <= k
    \/ rep(t) = Sbag[j] /\ rep(s) = Pbag[k]
    \/ rep(t) = Pbag[j] /\ rep(s) = Pbag[k] /\ k <= j

\* The running strand is in the S-bag on top; functions deeper on frame_stack
\* have later ids.
Running ==
  /\ owner[nstrands] = Sbag[frame_head]
  /\ \A k \in Depth : func_id[Sbag[k]] <= frame_id
  /\ \A j, k \in Depth : j <= k => func_id[Sbag[j]] <= func_id[Sbag[k]]

\* cilk_enter_end of a spawn helper moves the stack pointer recorded for its
\* spawner down to the helper's own frame; so it is when the child returns.
StackPointers ==
  /\ pc = "entering" => prog[prog_depth] \in {"cilk", "helper"}
  /\ \A i \in 1 .. prog_depth :
       IsHelper(i) /\ (pc = "entering" => i < prog_depth) => rsp[Sbag[FrameAt(i - 1)]] = i
  /\ \A k \in Depth : Pbag[k] # NULL => rsp[Sbag[k]] # NULL

\* A strand of a P-bag was in frames at or above address l of the stack.
Within(s, l) == \A k \in Depth : rep(s) = Pbag[k] => l <= rsp[Sbag[k]]

\* The accesses of one kind to the object at a location.
Same(l, is_read) == {a \in hist[l] : a.is_read = is_read}

\* The access kept for reads, or for writes.
KeptFor(l, is_read) == IF is_read THEN readers[l] ELSE writers[l]

\* The access kept was made by a strand of the program.
Known(kept) == kept # NULL => \E s \in 1 .. nstrands : kept.func = owner[s]

\* It is the last of its kind in the order of the bags.
Covers(kept, l, is_read) ==
  Accessible(l) /\ Same(l, is_read) # {} =>
    /\ kept # NULL
    /\ \E s \in 1 .. nstrands :
         /\ kept.func = owner[s]
         /\ \A a \in Same(l, is_read) : Over(s, a.strand)
         /\ is_on_stack(l) => Within(s, l)

\* On the heap it is an access to the object that is there now.
Fresh(kept, l, is_read) ==
  l \in HeapLocs /\ ~stale[l] /\ kept # NULL =>
    \E a \in Same(l, is_read) : kept.func = owner[a.strand]

Kept(kept, l, is_read) ==
  Known(kept) /\ Covers(kept, l, is_read) /\ Fresh(kept, l, is_read)

ShadowInv ==
  /\ \A l \in Locs : \A a \in hist[l] : a.strand \in 1 .. nstrands
  /\ \A l \in Locs, b \in BOOLEAN : Kept(KeptFor(l, b), l, b)

RacesKeyed == \A r \in races_found : r.key = RaceKey(r.first, r.second)

MemInv ==
  /\ MemTypeOK /\ RacesKeyed /\ RacesFoundAreDistinct
  /\ ShadowInv /\ RaceReportedIffRaceExists /\ NoRaceMissed

-----------------------------------------------------------------------------
(***************************************************************************)
(* The strand that runs and the functions on the stack.                    *)
(***************************************************************************)
\* The handlers that leave the bags, the frames and the history alone.
OtherHandlers ==
  \/ cilk_enter_helper_begin \/ cilk_enter_end \/ cilk_spawn_prepare
  \/ cilk_spawn_or_continue \/ cilk_detach_begin \/ cilk_sync_begin \/ cilk_leave_end
  \/ __cilksan_disable_checking \/ __cilksan_enable_checking \/ cilksan_deinit

\* The handlers that are none of the four bag operations leave the bags alone.
LEMMA OtherHandlersFrame == ASSUME OtherHandlers, ~Die PROVE UNCHANGED bagVars
  BY DEF OtherHandlers, cilk_enter_helper_begin, cilk_enter_end, cilk_spawn_prepare,
         cilk_spawn_or_continue, cilk_detach_begin, cilk_sync_begin, cilk_leave_end,
         __cilksan_disable_checking, __cilksan_enable_checking, cilksan_deinit

\* A new frame has the function id of its own S-bag.
LEMMA EnterRunning ==
  ASSUME BagsInv, Running, NEW sbag, NEW pbag, EntersFrame(sbag, pbag),
         frame_id' = frame_id + 1, func_id' = [func_id EXCEPT ![sbag] = frame_id + 1]
  PROVE  Running'
<1>0. PICK c, s, f : c = frame_head + 1 /\ s = nstrands + 1 /\ f = frame_id + 1
  OBVIOUS
<1>1. /\ c \in Levels /\ c \notin Depth /\ Depth \subseteq Levels /\ Depth' = Depth \cup {c}
      /\ \A k \in Depth : k \in Nat /\ ~(c <= k)
      /\ s \in Strands /\ nstrands' = s /\ frame_head' = c /\ frame_id' = f
      /\ frame_id \in Nat /\ f \in Nat /\ frame_id <= f
  <2>1. /\ c \in Levels /\ c \notin Depth /\ Depth \subseteq Levels /\ Depth' = Depth \cup {c}
        /\ \A k \in Depth : k \in Nat /\ ~(c <= k)
        /\ frame_head' = c
    BY <1>0, Ranges DEF BagsInv, EntersFrame, Depth, Levels
  <2>2. s \in Strands /\ nstrands' = s
    BY <1>0, Ranges DEF BagsInv, EntersFrame, FirstStrandOfChild, Strands
  <2>3. frame_id' = f /\ frame_id \in Nat /\ f \in Nat /\ frame_id <= f
    BY <1>0 DEF BagsInv, CountsTyped
  <2>4. QED
    BY <2>1, <2>2, <2>3
<1>2. /\ Sbag'[c] = sbag /\ \A k \in Depth : Sbag'[k] = Sbag[k]
      /\ owner'[s] = sbag
  BY <1>0, <1>1 DEF EntersFrame, FirstStrandOfChild, BagsInv, BagTyped
<1>3. sbag \in Nodes /\ \A k \in Depth : Sbag[k] \in Nodes /\ Sbag[k] # sbag
  BY Ranges DEF EntersFrame, BagsInv, BagInv, BagsDistinct
<1>4. /\ func_id'[sbag] = f
      /\ \A k \in Depth : func_id'[Sbag'[k]] = func_id[Sbag[k]] /\ func_id[Sbag[k]] \in Nat
  BY <1>0, <1>2, <1>3 DEF BagsInv, CountsTyped
<1>5. \A k \in Depth : func_id[Sbag[k]] <= frame_id /\ func_id[Sbag[k]] <= f
  BY <1>1, <1>4 DEF Running
<1>6. QED
  BY <1>1, <1>2, <1>4, <1>5 DEF Running

\* Every handler keeps the running function that of the top S-bag.
LEMMA RunningStep ==
  ASSUME BagsInv, Running, Next, ~Die
  PROVE  Running'
<1>1. CASE cilk_enter_begin
  <2>1. EntersFrame(dset_size + 1, Pbag[frame_head])
    BY <1>1, EnterBagsInv
  <2>2. frame_id' = frame_id + 1 /\ func_id' = [func_id EXCEPT ![dset_size + 1] = frame_id + 1]
    BY <1>1 DEF cilk_enter_begin, StartNewFunction
  <2>3. QED
    BY <2>1, <2>2, EnterRunning
<1>2. CASE cilk_detach_end
  <2>1. PICK sbag, pbag : EntersFrame(sbag, pbag)
    BY <1>2, DetachBagsInv
  <2>2. dset_size' = sbag
    BY <2>1 DEF EntersFrame
  <2>3. /\ frame_id' = frame_id + 1
        /\ func_id' = [func_id EXCEPT ![dset_size'] = frame_id + 1]
    BY <1>2 DEF cilk_detach_end, StartNewFunction
  <2>4. QED
    BY <2>1, <2>2, <2>3, EnterRunning
<1>3. CASE cilk_sync_end
  <2>1. /\ nstrands < MaxStrands /\ nstrands' = nstrands + 1
        /\ owner' = [owner EXCEPT ![nstrands + 1] = Sbag[frame_head]]
        /\ UNCHANGED <<frame_head, Sbag, func_id, frame_id>>
    BY <1>3 DEF cilk_sync_end, NextStrandAt
  <2>2. nstrands + 1 \in Strands
    BY <2>1, Ranges DEF BagsInv, Strands
  <2>3. QED
    BY <2>1, <2>2 DEF Running, Depth, BagsInv, BagTyped
<1>4. CASE cilk_leave_begin
  <2>0. PICK h, p : h = frame_head /\ p = frame_head - 1
    OBVIOUS
  <2>1. /\ h > 0 /\ nstrands < MaxStrands /\ nstrands' = nstrands + 1 /\ frame_head' = p
        /\ owner' = [owner EXCEPT ![nstrands + 1] = Sbag[p]]
        /\ Sbag' = [Sbag EXCEPT ![h] = NULL]
        /\ UNCHANGED <<func_id, frame_id>>
    BY <1>4, <2>0 DEF cilk_leave_begin, NextStrandAt
  <2>2. /\ nstrands + 1 \in Strands /\ p \in Levels /\ Depth \subseteq Levels
        /\ Depth' \subseteq Depth /\ \A k \in Depth' : k # h
        /\ p \in Depth'
    BY <2>0, <2>1, Ranges DEF BagsInv, Strands, Depth, Levels
  <2>3. \A k \in Depth' : Sbag'[k] = Sbag[k]
    BY <2>1, <2>2 DEF BagsInv, BagTyped
  <2>4. QED
    BY <2>1, <2>2, <2>3 DEF Running, BagsInv, BagTyped
<1>5. CASE OtherHandlers
  BY <1>5, OtherHandlersFrame DEF Running, Depth, bagVars, frameVars, dsetVars, dagVars
<1>6. QED
  BY <1>1, <1>2, <1>3, <1>4, <1>5 DEF Next, OtherHandlers

-----------------------------------------------------------------------------
(***************************************************************************)
(* The stack pointers.                                                     *)
(***************************************************************************)
LEMMA FrameBelow ==
  ASSUME StackInv, pc # "leaving", NEW i \in 0 .. prog_depth
  PROVE  i \in Nat /\ FrameAt(i) \in Depth
<1>1. prog_depth \in Nat /\ i \in Nat /\ i <= prog_depth
  BY EntryRanges DEF StackInv
<1>2. FramesIn(prog, i) <= FramesIn(prog, prog_depth) /\ FramesIn(prog, i) \in Nat
  BY <1>1, FramesInGrows, FramesInType
<1>3. FramesIn(prog, prog_depth) = frame_head /\ frame_head \in Nat
  BY Ranges DEF StackInv, BagsInv, StackShape, CallStack, FrameAt
<1>4. QED
  BY <1>1, <1>2, <1>3 DEF FrameAt, Depth

\* Entering and detaching: the frames below keep their S-bags.
LEMMA EnterPointers ==
  ASSUME StackInv, StackPointers, NEW sbag, NEW pbag, EntersFrame(sbag, pbag), rsp' = rsp,
         pc \notin {"leaving", "entering"}, pc' = "entering" => prog'[prog_depth'] = "cilk",
         pbag # Pbag[frame_head] => rsp[Sbag[frame_head]] # NULL,
         NEW n \in 0 .. prog_depth,
         \A i \in 0 .. n : FrameAt(i)' = FrameAt(i),
         \A i \in 1 .. prog_depth' :
           IsHelper(i)' => i \in 1 .. prog_depth /\ i - 1 \in 0 .. n /\ IsHelper(i)
  PROVE  StackPointers'
<1>0. PICK h, c : h = frame_head /\ c = frame_head + 1
  OBVIOUS
<1>1. /\ h \in Levels /\ h \in Depth /\ c \in Levels /\ c \notin Depth /\ Depth \subseteq Levels
      /\ Depth' = Depth \cup {c} /\ \A k \in Depth : k # c
  BY <1>0, Ranges DEF StackInv, BagsInv, EntersFrame, Depth, Levels
<1>2. \A k \in Depth : Sbag'[k] = Sbag[k]
  BY <1>0, <1>1 DEF EntersFrame, StackInv, BagsInv, BagTyped
<1>3. Pbag'[h] = pbag /\ \A k \in Levels : k # h => Pbag'[k] = Pbag[k]
  BY <1>0, <1>1 DEF EntersFrame, StackInv, BagsInv, BagTyped
<1>4. Pbag'[c] = NULL
  BY <1>1, <1>3 DEF StackInv, BagsInv, BagInv, BagsDistinct
<1>5. ASSUME NEW i \in 1 .. prog_depth', IsHelper(i)'
      PROVE  rsp'[Sbag'[FrameAt(i - 1)']] = i
  <2>1. i \in 1 .. prog_depth /\ i - 1 \in 0 .. n /\ IsHelper(i) /\ i - 1 \in 0 .. prog_depth
    BY <1>5, EntryRanges DEF StackInv
  <2>2. FrameAt(i - 1)' = FrameAt(i - 1) /\ FrameAt(i - 1) \in Depth
    BY <2>1, FrameBelow
  <2>3. rsp[Sbag[FrameAt(i - 1)]] = i
    BY <2>1 DEF StackPointers
  <2>4. QED
    BY <1>2, <2>2, <2>3
<1>6. ASSUME NEW k \in Depth', Pbag'[k] # NULL PROVE rsp'[Sbag'[k]] # NULL
  <2>1. k \in Depth
    BY <1>1, <1>4, <1>6
  <2>2. Pbag[k] # NULL => rsp[Sbag[k]] # NULL
    BY <2>1 DEF StackPointers
  <2>3. QED
    BY <1>0, <1>1, <1>2, <1>3, <1>6, <2>1, <2>2
<1>7. QED
  BY <1>5, <1>6 DEF StackPointers

\* The stack pointer is recorded for the frame on top.
LEMMA EnterEndPointers ==
  ASSUME StackInv, RspTyped, StackPointers, cilk_enter_end, ~Die
  PROVE  StackPointers'
<1>0. PICK h, d : h = frame_head /\ d = prog_depth
  OBVIOUS
<1>1. /\ pc = "entering" /\ pc' = "user" /\ rsp' = [rsp EXCEPT ![Sbag[h]] = d]
      /\ UNCHANGED <<prog, prog_depth, frame_head, Sbag, Pbag>>
  BY <1>0 DEF cilk_enter_end, progVars, bagVars, frameVars
<1>2. /\ d \in Nat /\ d # NULL /\ h \in Depth /\ h \in Nat /\ Depth' = Depth
      /\ d - 1 \in 0 .. d \/ d = 0
  BY <1>0, <1>1, EntryRanges, Ranges, BoundsAssumption DEF StackInv, BagsInv, Depth
<1>3. \A k \in Depth : Sbag[k] \in Nodes /\ (k # h => Sbag[k] # Sbag[h])
  BY <1>2, Ranges DEF StackInv, BagsInv, BagInv, BagsDistinct
<1>4. prog[d] \in {"cilk", "helper"} /\ d # 0 /\ FrameAt(d) = h
  BY <1>0, <1>1 DEF StackInv, StackShape, CallStack, StackPointers
<1>5. d - 1 \in Nat /\ (d - 1) + 1 = d
  BY <1>2, <1>4
<1>6. \A n \in Nodes : rsp'[n] = IF n = Sbag[h] THEN d ELSE rsp[n]
  BY <1>1 DEF RspTyped
<1>7. FrameAt(d - 1) \in Nat /\ FrameAt(d) = FrameAt(d - 1) + (IF prog[d] = "cilk" THEN 1 ELSE 0)
  BY <1>4, <1>5, FramesInStep, FramesInType DEF FrameAt
<1>8. ASSUME NEW i \in 1 .. d, IsHelper(i) PROVE rsp'[Sbag[FrameAt(i - 1)]] = i
  <2>1. i - 1 \in 0 .. d /\ i - 1 \in Nat /\ FrameAt(i - 1) \in Depth
    BY <1>0, <1>1, <1>2, FrameBelow
  <2>2. CASE i = d
    <3>1. prog[d] = "helper"
      BY <1>4, <1>8, <2>2 DEF IsHelper
    <3>2. FrameAt(i - 1) = h
      BY <1>2, <1>4, <1>7, <2>2, <3>1
    <3>3. QED
      BY <1>2, <1>3, <1>6, <2>2, <3>2
  <2>3. CASE i # d
    <3>1. FrameAt(i - 1) < h
      <4>1. CASE prog[d] = "cilk"
        <5>1. i - 1 < d /\ i - 1 <= d
          BY <1>2, <2>3
        <5>2. FramesIn(prog, i - 1) < FramesIn(prog, d)
          BY <1>2, <2>1, <4>1, <5>1, FramesInGrows
        <5>3. QED
          BY <1>4, <5>2 DEF FrameAt
      <4>2. CASE prog[d] = "helper"
        <5>1. prog[d - 1] = "cilk"
          BY <1>0, <1>2, <1>4, <4>2 DEF StackInv, StackShape, CallStack, IsHelper
        <5>2. i - 1 < d - 1 /\ i - 1 <= d - 1
          BY <1>2, <2>3
        <5>3. FramesIn(prog, i - 1) < FramesIn(prog, d - 1)
          BY <1>5, <2>1, <5>1, <5>2, FramesInGrows
        <5>4. FrameAt(d - 1) = h
          BY <1>2, <1>4, <1>7, <4>2
        <5>5. QED
          BY <5>3, <5>4 DEF FrameAt
      <4>3. QED
        BY <1>4, <4>1, <4>2
    <3>2. rsp[Sbag[FrameAt(i - 1)]] = i
      BY <1>0, <1>2, <1>8, <2>3 DEF StackPointers
    <3>3. Sbag[FrameAt(i - 1)] \in Nodes /\ Sbag[FrameAt(i - 1)] # Sbag[h]
      <4>1. PICK k : k = FrameAt(i - 1)
        OBVIOUS
      <4>2. k \in Depth /\ k < h /\ k # h
        BY <1>2, <2>1, <3>1, <4>1
      <4>3. QED
        BY <1>3, <4>1, <4>2
    <3>4. QED
      BY <1>6, <3>2, <3>3
  <2>4. QED
    BY <2>2, <2>3
<1>9. ASSUME NEW k \in Depth, Pbag[k] # NULL PROVE rsp'[Sbag[k]] # NULL
  BY <1>2, <1>3, <1>6, <1>9 DEF StackPointers
<1>10. \A i : FrameAt(i)' = FrameAt(i) /\ IsHelper(i)' = IsHelper(i)
  BY <1>1 DEF FrameAt, FramesIn, IsHelper
<1>11. QED
  BY <1>0, <1>1, <1>2, <1>8, <1>9, <1>10 DEF StackPointers

\* A frame is popped: the helpers on the stack were spawned below it.
LEMMA LeavePointers ==
  ASSUME StackInv, StackPointers, cilk_leave_begin, ~Die
  PROVE  StackPointers'
<1>0. PICK h, p : h = frame_head /\ p = frame_head - 1
  OBVIOUS
<1>1. /\ pc = "user" /\ pc' = "leaving" /\ h > 0 /\ frame_head' = p
      /\ prog[prog_depth] \in {"cilk", "spawned"}
      /\ Sbag' = [Sbag EXCEPT ![h] = NULL]
      /\ UNCHANGED <<prog, prog_depth, Pbag, rsp>>
  BY <1>0 DEF cilk_leave_begin, InUser, progVars
<1>2. /\ h \in Nat /\ Depth' \subseteq Depth /\ Depth \subseteq Levels
      /\ \A k \in Depth : k # h <=> k \in Depth'
      /\ \A k \in Depth' : k # h
  BY <1>0, <1>1, Ranges DEF StackInv, BagsInv, Depth
<1>3. \A k \in Depth' : Sbag'[k] = Sbag[k]
  BY <1>1, <1>2 DEF StackInv, BagsInv, BagTyped
<1>4. \A i : FrameAt(i)' = FrameAt(i) /\ IsHelper(i)' = IsHelper(i)
  BY <1>1 DEF FrameAt, FramesIn, IsHelper
<1>5. ASSUME NEW i \in 1 .. prog_depth, IsHelper(i)
      PROVE  rsp[Sbag'[FrameAt(i - 1)]] = i
  <2>1. i - 1 \in 0 .. (prog_depth - 1) /\ i - 1 \in 0 .. prog_depth
    BY EntryRanges DEF StackInv
  <2>2. FrameAt(i - 1) \in Nat /\ FrameAt(i - 1) < FrameAt(prog_depth) /\ FrameAt(prog_depth) = h
    BY <1>0, <1>1, <2>1, TopFrame DEF StackInv, StackShape, CallStack
  <2>3. FrameAt(i - 1) \in Depth /\ FrameAt(i - 1) # h
    BY <1>1, <1>2, <2>1, <2>2, FrameBelow
  <2>4. rsp[Sbag[FrameAt(i - 1)]] = i
    BY <1>1, <1>5 DEF StackPointers
  <2>5. QED
    BY <1>2, <1>3, <2>3, <2>4
<1>6. QED
  BY <1>1, <1>2, <1>3, <1>4, <1>5 DEF StackPointers

\* Every handler keeps the stack pointers of bags where StackPointers says.
LEMMA PointersStep ==
  ASSUME StackInv, RspTyped, StackPointers, Next, ~Die, ~died'
  PROVE  StackPointers'
<1>0. prog_depth \in Nat /\ prog_depth \in 0 .. prog_depth
  BY EntryRanges DEF StackInv
<1>1. CASE cilk_enter_begin
  <2>1. /\ pc = "user" /\ pc' = "entering" /\ ProgramCalls("cilk") /\ prog_depth < MaxEntries
        /\ rsp' = rsp /\ frame_head' = frame_head + 1
    BY <1>1 DEF cilk_enter_begin, InUser, StartNewFunction
  <2>2. EntersFrame(dset_size + 1, Pbag[frame_head])
    BY <1>1, EnterBagsInv DEF StackInv
  <2>3. /\ \A i \in 0 .. prog_depth : prog'[i] = prog[i] /\ FrameAt(i)' = FrameAt(i)
        /\ prog_depth' = prog_depth + 1 /\ prog'[prog_depth + 1] = "cilk"
    BY <2>1, CallShape
  <2>4. ASSUME NEW i \in 1 .. prog_depth', IsHelper(i)'
        PROVE  i \in 1 .. prog_depth /\ i - 1 \in 0 .. prog_depth /\ IsHelper(i)
    BY <1>0, <2>3, <2>4 DEF IsHelper
  <2>5. QED
    BY <1>0, <2>1, <2>2, <2>3, <2>4, EnterPointers
<1>2. CASE cilk_enter_helper_begin
  <2>1. /\ pc = "called" /\ pc' = "entering" /\ ProgramCalls("helper")
        /\ prog_depth < MaxEntries /\ rsp' = rsp /\ UNCHANGED <<frame_head, Sbag, Pbag>>
    BY <1>2 DEF cilk_enter_helper_begin, bagVars, frameVars
  <2>2. prog[prog_depth] = "cilk"
    BY <2>1 DEF StackInv, Phases
  <2>3. /\ \A i \in 0 .. prog_depth : prog'[i] = prog[i] /\ FrameAt(i)' = FrameAt(i)
        /\ prog_depth' = prog_depth + 1 /\ prog'[prog_depth + 1] = "helper"
    BY <2>1, <2>2, CallShape
  <2>4. ASSUME NEW i \in 1 .. prog_depth', IsHelper(i)', i < prog_depth'
        PROVE  rsp[Sbag[FrameAt(i - 1)']] = i
    <3>1. i \in 1 .. prog_depth /\ i - 1 \in 0 .. prog_depth /\ IsHelper(i)
      BY <1>0, <2>3, <2>4 DEF IsHelper
    <3>2. QED
      BY <2>1, <2>3, <3>1 DEF StackPointers
  <2>5. QED
    BY <2>1, <2>3, <2>4 DEF StackPointers, Depth
<1>3. CASE cilk_detach_end
  <2>1. /\ pc = "detaching" /\ pc' = "user" /\ prog' = [prog EXCEPT ![prog_depth] = "spawned"]
        /\ prog_depth' = prog_depth /\ rsp' = rsp /\ frame_head' = frame_head + 1
    BY <1>3 DEF cilk_detach_end, StartNewFunction
  <2>2. PICK sbag, pbag : EntersFrame(sbag, pbag)
    BY <1>3, DetachBagsInv DEF StackInv
  <2>3. /\ prog_depth \in 2 .. prog_depth /\ prog[prog_depth - 1] = "cilk"
        /\ \A i \in 0 .. (prog_depth - 1) : prog'[i] = prog[i] /\ FrameAt(i)' = FrameAt(i)
        /\ FrameAt(prog_depth - 1) = frame_head
    BY <2>1, DetachShape
  <2>4. prog[prog_depth] = "helper"
    BY <2>1 DEF StackInv, Phases
  <2>5. rsp[Sbag[frame_head]] # NULL
    <3>1. prog_depth \in 1 .. prog_depth /\ prog_depth # NULL
      BY <1>0, <2>3, BoundsAssumption
    <3>2. rsp[Sbag[FrameAt(prog_depth - 1)]] = prog_depth
      BY <2>1, <2>4, <3>1 DEF StackPointers, IsHelper
    <3>3. QED
      BY <2>3, <3>1, <3>2
  <2>6. ASSUME NEW i \in 1 .. prog_depth', IsHelper(i)'
        PROVE  i \in 1 .. prog_depth /\ i - 1 \in 0 .. (prog_depth - 1) /\ IsHelper(i)
    BY <1>0, <2>1, <2>3, <2>4, <2>6 DEF IsHelper
  <2>7. prog_depth - 1 \in 0 .. prog_depth
    BY <1>0, <2>3
  <2>8. QED
    BY <2>1, <2>2, <2>3, <2>5, <2>6, <2>7, EnterPointers
<1>4. CASE cilk_sync_end
  <2>1. /\ Pbag' = [Pbag EXCEPT ![frame_head] = NULL] /\ pc' = "user" /\ pc = "syncing"
        /\ UNCHANGED <<prog, prog_depth, frame_head, Sbag, rsp>>
    BY <1>4 DEF cilk_sync_end, complete_sync, progVars
  <2>2. \A k \in Depth : Pbag'[k] = NULL \/ Pbag'[k] = Pbag[k]
    BY <2>1, Ranges DEF StackInv, BagsInv, BagTyped
  <2>3. QED
    BY <2>1, <2>2 DEF StackPointers, Depth, FrameAt, FramesIn, IsHelper
<1>5. CASE cilk_leave_end
  <2>1. /\ pc = "leaving" /\ pc' = "user" /\ prog_depth' = prog_depth - 1
        /\ UNCHANGED <<prog, frame_head, Sbag, Pbag, rsp>>
    BY <1>5 DEF cilk_leave_end, bagVars, frameVars
  <2>2. \A i \in 1 .. prog_depth' : i \in 1 .. prog_depth
    BY <1>0, <2>1
  <2>3. QED
    BY <2>1, <2>2 DEF StackPointers, Depth, FrameAt, FramesIn, IsHelper
<1>6. CASE \/ cilk_spawn_prepare \/ cilk_spawn_or_continue \/ cilk_detach_begin
           \/ cilk_sync_begin \/ __cilksan_disable_checking \/ __cilksan_enable_checking
           \/ cilksan_deinit
  <2>1. /\ UNCHANGED <<prog, prog_depth, frame_head, Sbag, Pbag, rsp>>
        /\ pc # "entering" /\ pc' # "entering"
    BY <1>6 DEF cilk_spawn_prepare, cilk_spawn_or_continue, cilk_detach_begin,
                cilk_sync_begin, __cilksan_disable_checking, __cilksan_enable_checking,
                cilksan_deinit, InUser, bagVars, frameVars, progVars
  <2>2. QED
    BY <2>1 DEF StackPointers, Depth, FrameAt, FramesIn, IsHelper
<1>7. QED
  BY <1>1, <1>2, <1>3, <1>4, <1>5, <1>6, EnterEndPointers, LeavePointers DEF Next

-----------------------------------------------------------------------------
(***************************************************************************)
(* Every handler keeps the order of the bags.                              *)
(***************************************************************************)
\* The bag of a strand is one of those on the stack.
LEMMA RepKnown ==
  ASSUME BagsInv, NEW s \in 1 .. nstrands
  PROVE  /\ s \in Strands /\ owner[s] \in Nodes /\ rep(s) \in 1 .. dset_size
         /\ rep(s) \in Nodes /\ rep(s) # NULL
         /\ \E k \in Depth : rep(s) = Sbag[k] \/ rep(s) = Pbag[k]
<1>1. s \in Strands /\ owner[s] \in 1 .. dset_size /\ owner[s] \in Nodes
  BY Ranges DEF BagsInv, BagInv, NodesInUse
<1>2. rep(s) \in 1 .. dset_size
  BY <1>1, Ranges DEF BagsInv, BagInv, NodesInUse, rep, Nodes
<1>3. \E k \in Depth : rep(s) = Sbag[k] \/ rep(s) = Pbag[k]
  BY DEF BagsInv, BagInv, StrandsPlaced, SerialAt, ParallelAt
<1>4. QED
  BY <1>1, <1>2, <1>3, Ranges DEF BagsInv

\* Entering a frame keeps the order of strands, and what is within a frame.
LEMMA EnterOver ==
  ASSUME BagsInv, NEW sbag, NEW pbag, EntersFrame(sbag, pbag),
         NEW s \in 1 .. nstrands, NEW t \in 1 .. nstrands
  PROVE  /\ Over(s, t) => Over(s, t)'
         /\ \A l : Within(s, l) /\ rsp' = rsp => Within(s, l)'
<1>0. PICK h, c : h = frame_head /\ c = frame_head + 1
  OBVIOUS
<1>1. /\ h \in Levels /\ h \in Depth /\ c \in Levels /\ c \notin Depth /\ Depth \subseteq Levels
      /\ Depth' = Depth \cup {c} /\ \A k \in Depth : k # c
  BY <1>0, Ranges DEF BagsInv, EntersFrame, Depth, Levels
<1>2. \A k \in Depth : Sbag'[k] = Sbag[k]
  BY <1>0, <1>1 DEF EntersFrame, BagsInv, BagTyped
<1>3. /\ Pbag'[h] = pbag /\ \A k \in Levels : k # h => Pbag'[k] = Pbag[k]
      /\ Pbag'[c] = NULL
  BY <1>0, <1>1 DEF EntersFrame, BagsInv, BagTyped, BagInv, BagsDistinct
<1>4. ASSUME NEW q \in 1 .. nstrands
      PROVE  /\ set_node'[owner'[q]] = rep(q) /\ rep(q) # NULL
             /\ \A k \in Depth : rep(q) = Pbag[k] <=> rep(q) = Pbag'[k]
             /\ rep(q) # Pbag'[c]
  <2>1. owner'[q] = owner[q] /\ set_node' = set_node
    <3>1. q # nstrands + 1
      BY Ranges DEF BagsInv
    <3>2. QED
      BY <3>1, RepKnown DEF EntersFrame, FirstStrandOfChild, BagsInv, BagTyped
  <2>2. pbag = Pbag[h] \/ (Pbag[h] = NULL /\ pbag \notin 1 .. dset_size)
    BY <1>0, Ranges DEF EntersFrame, BagsInv, Nodes
  <2>3. rep(q) \in 1 .. dset_size /\ rep(q) # NULL
    BY RepKnown
  <2>4. QED
    BY <1>1, <1>3, <2>1, <2>2, <2>3 DEF rep
<1>5. Over(s, t) => Over(s, t)'
  <2> SUFFICES ASSUME Over(s, t) PROVE Over(s, t)'
    OBVIOUS
  <2>1. PICK j \in Depth, k \in Depth :
          \/ rep(t) = Sbag[j] /\ rep(s) = Sbag[k] /\ j <= k
          \/ rep(t) = Sbag[j] /\ rep(s) = Pbag[k]
          \/ rep(t) = Pbag[j] /\ rep(s) = Pbag[k] /\ k <= j
    BY DEF Over
  <2>2. j \in Depth' /\ k \in Depth'
    BY <1>1
  <2>3. \/ rep(t)' = Sbag'[j] /\ rep(s)' = Sbag'[k] /\ j <= k
        \/ rep(t)' = Sbag'[j] /\ rep(s)' = Pbag'[k]
        \/ rep(t)' = Pbag'[j] /\ rep(s)' = Pbag'[k] /\ k <= j
    BY <1>2, <1>4, <2>1 DEF rep
  <2>4. QED
    BY <2>2, <2>3 DEF Over
<1>6. ASSUME NEW l, Within(s, l), rsp' = rsp, NEW k \in Depth', rep(s)' = Pbag'[k]
      PROVE  l <= rsp'[Sbag'[k]]
  <2>1. set_node'[owner'[s]] = rep(s)
    BY <1>4
  <2>2. k \in Depth /\ rep(s) = Pbag[k]
    <3>1. rep(s) = Pbag'[k]
      BY <1>6, <2>1 DEF rep
    <3>2. k # c
      BY <1>4, <3>1
    <3>3. k \in Depth
      BY <1>1, <3>2
    <3>4. QED
      BY <1>4, <3>1, <3>3
  <2>3. QED
    BY <1>2, <1>6, <2>2 DEF Within
<1>7. QED
  BY <1>5, <1>6 DEF Within

\* A sync moves the innermost P-bag to the innermost S-bag.
LEMMA SyncOver ==
  ASSUME BagsInv, cilk_sync_end, ~Die, NEW s \in 1 .. nstrands, NEW t \in 1 .. nstrands
  PROVE  /\ Over(s, t) => Over(s, t)'
         /\ \A l : Within(s, l) => Within(s, l)'
<1>0. PICK h : h = frame_head
  OBVIOUS
<1>1. /\ nstrands < MaxStrands /\ UNCHANGED <<frame_head, Sbag, rsp>>
      /\ set_node' = IF Pbag[h] = NULL THEN set_node ELSE Combined(Sbag[h], Pbag[h])
      /\ Pbag' = [Pbag EXCEPT ![h] = NULL]
      /\ owner' = [owner EXCEPT ![nstrands + 1] = Sbag[h]]
  BY <1>0 DEF cilk_sync_end, complete_sync, NextStrandAt
<1>2. /\ h \in Depth /\ Depth' = Depth /\ Depth \subseteq Levels
      /\ h \in Nat /\ \A k \in Depth : k \in Nat /\ k <= h /\ (h <= k => k = h)
  BY <1>0, <1>1, Ranges DEF BagsInv, Depth
<1>3. Pbag'[h] = NULL /\ \A k \in Depth : k # h => Pbag'[k] = Pbag[k]
  BY <1>1, <1>2 DEF BagsInv, BagTyped
<1>4. /\ \A j, k \in Depth : Sbag[j] # Pbag[k] /\ Sbag[j] # NULL
      /\ \A k \in Depth : k # h /\ Pbag[k] # NULL => Pbag[k] # Pbag[h]
  BY <1>2, SbagsAreNotPbags DEF BagsInv, BagInv, BagsDistinct
<1>5. ASSUME NEW q \in 1 .. nstrands
      PROVE  rep(q) # NULL /\ rep(q)' = IF rep(q) = Pbag[h] THEN Sbag[h] ELSE rep(q)
  <2>1. owner'[q] = owner[q] /\ owner[q] \in Nodes /\ rep(q) # NULL
    <3>1. q # nstrands + 1
      BY Ranges DEF BagsInv
    <3>2. QED
      BY <1>1, <3>1, RepKnown DEF BagsInv, BagTyped
  <2>2. /\ set_node[Sbag[h]] = Sbag[h]
        /\ Pbag[h] # NULL => set_node[Pbag[h]] = Pbag[h]
    BY <1>2 DEF BagsInv, BagInv, BagsDistinct
  <2>3. QED
    BY <1>1, <2>1, <2>2 DEF Combined, rep
<1>6. Over(s, t) => Over(s, t)'
  <2> SUFFICES ASSUME Over(s, t) PROVE Over(s, t)'
    OBVIOUS
  <2>1. PICK j \in Depth, k \in Depth :
          \/ rep(t) = Sbag[j] /\ rep(s) = Sbag[k] /\ j <= k
          \/ rep(t) = Sbag[j] /\ rep(s) = Pbag[k]
          \/ rep(t) = Pbag[j] /\ rep(s) = Pbag[k] /\ k <= j
    BY DEF Over
  <2>2. CASE rep(t) = Sbag[j] /\ rep(s) = Sbag[k] /\ j <= k
    <3>1. rep(t)' = Sbag'[j] /\ rep(s)' = Sbag'[k]
      BY <1>1, <1>2, <1>4, <1>5, <2>2
    <3>2. QED
      BY <1>2, <2>2, <3>1 DEF Over
  <2>3. CASE rep(t) = Sbag[j] /\ rep(s) = Pbag[k]
    <3>1. rep(t)' = Sbag'[j] /\ j <= h
      BY <1>1, <1>2, <1>4, <1>5, <2>3
    <3>2. IF k = h THEN rep(s)' = Sbag'[h] ELSE rep(s)' = Pbag'[k]
      BY <1>1, <1>2, <1>3, <1>4, <1>5, <2>3
    <3>3. QED
      BY <1>2, <3>1, <3>2 DEF Over
  <2>4. CASE rep(t) = Pbag[j] /\ rep(s) = Pbag[k] /\ k <= j
    <3>1. IF k = h THEN rep(s)' = Sbag'[h] ELSE rep(s)' = Pbag'[k]
      BY <1>1, <1>2, <1>3, <1>4, <1>5, <2>4
    <3>2. IF j = h THEN rep(t)' = Sbag'[h] ELSE rep(t)' = Pbag'[j]
      BY <1>1, <1>2, <1>3, <1>4, <1>5, <2>4
    <3>3. k = h => j = h
      BY <1>2, <2>4
    <3>4. h <= h
      BY <1>2
    <3>5. QED
      BY <1>2, <2>4, <3>1, <3>2, <3>3, <3>4 DEF Over
  <2>5. QED
    BY <2>1, <2>2, <2>3, <2>4
<1>7. ASSUME NEW l, Within(s, l), NEW k \in Depth', rep(s)' = Pbag'[k]
      PROVE  l <= rsp'[Sbag'[k]]
  <2>1. k \in Depth /\ rep(s) # NULL /\ rep(s)' = IF rep(s) = Pbag[h] THEN Sbag[h] ELSE rep(s)
    BY <1>2, <1>5, <1>7
  <2>2. rep(s)' # NULL /\ (k # h => Pbag'[k] = Pbag[k])
    BY <1>2, <1>3, <1>4, <2>1
  <2>3. k # h /\ rep(s) = Pbag[k]
    BY <1>2, <1>3, <1>4, <1>7, <2>1, <2>2
  <2>4. QED
    BY <1>1, <1>7, <2>1, <2>3 DEF Within
<1>8. QED
  BY <1>6, <1>7 DEF Within

\* A return moves the innermost S-bag down to its parent's S-bag or, of a
\* spawn, up to its parent's P-bag, the innermost one; then the spawner's
\* stack pointer is that of the child.
LEMMA LeaveOver ==
  ASSUME StackInv, StackPointers, cilk_leave_begin, ~Die,
         NEW s \in 1 .. nstrands, NEW t \in 1 .. nstrands
  PROVE  /\ Over(s, t) => Over(s, t)'
         /\ \A l : Within(s, l) /\ l <= prog_depth => Within(s, l)'
<1>0. PICK h, p, a, b : /\ h = frame_head /\ p = frame_head - 1 /\ b = Sbag[frame_head]
                        /\ a = IF prog[prog_depth] = "spawned" THEN Pbag[frame_head - 1]
                                                              ELSE Sbag[frame_head - 1]
  OBVIOUS
<1>1. BagsInv /\ BagTyped /\ BagInv /\ EntriesInv
  BY DEF StackInv, BagsInv
<1>2. LeavesFrame(a) /\ (a = Sbag[p] \/ a = Pbag[p])
  BY <1>0, <1>1, LeaveBagsInv DEF ReturnsSpawn, ReturnsCall
<1>3. /\ p \in Nat /\ p \in Depth /\ h = p + 1 /\ h \in Depth /\ h \in Levels
      /\ Depth \subseteq Levels /\ Depth' = 0 .. p /\ frame_head' = p
      /\ \A k \in Depth : k \in Nat /\ (k \in Depth' \/ k = h)
      /\ \A k \in Depth' : k \in Depth /\ k <= p /\ k # h /\ k <= h
      /\ p <= p /\ p \in Depth'
  <2>1. /\ p \in Nat /\ p \in Depth /\ h = p + 1 /\ h \in Depth /\ h \in Levels
        /\ Depth \subseteq Levels
    BY <1>0, <1>1, <1>2, LeavesFrameFacts
  <2>2. frame_head' = p
    BY <1>0, <1>2 DEF LeavesFrame
  <2>3. Depth = 0 .. h /\ Depth' = 0 .. p
    BY <1>0, <2>2 DEF Depth
  <2>4. /\ \A k \in 0 .. h : k \in Nat /\ (k \in 0 .. p \/ k = h)
        /\ \A k \in 0 .. p : k \in 0 .. h /\ k <= p /\ k # h /\ k <= h
        /\ p <= p /\ p \in 0 .. p
    BY <2>1
  <2>5. QED
    BY <2>1, <2>2, <2>3, <2>4
<1>4. /\ \A k \in Depth' : Sbag'[k] = Sbag[k] /\ Sbag[k] # b
      /\ Pbag' = Pbag /\ Pbag[h] = NULL /\ rsp' = rsp
      /\ \A k \in Depth : Pbag[k] # b
  <2>1. Pbag' = Pbag /\ Pbag[h] = NULL
    BY <1>0, <1>2 DEF LeavesFrame
  <2>2. rsp' = rsp
    BY DEF cilk_leave_begin
  <2>3. \A k \in 0 .. p : Sbag'[k] = Sbag[k] /\ Sbag[k] # b
    BY <1>0, <1>1, <1>2, LeavesFrameFacts
  <2>4. \A k \in Depth : Pbag[k] # b
    BY <1>0, <1>1, <1>3, SbagsAreNotPbags
  <2>5. QED
    BY <1>3, <2>1, <2>2, <2>3, <2>4
<1>5. ASSUME NEW q \in 1 .. nstrands
      PROVE  rep(q) # NULL /\ rep(q)' = IF rep(q) = b THEN a ELSE rep(q)
  <2>1. nstrands < MaxStrands /\ \E n : owner' = [owner EXCEPT ![nstrands + 1] = n]
    BY DEF cilk_leave_begin, NextStrandAt
  <2>2. owner'[q] = owner[q] /\ rep(q) # NULL
    <3>1. q # nstrands + 1
      BY <1>1, Ranges
    <3>2. QED
      BY <1>1, <2>1, <3>1, RepKnown DEF BagTyped
  <2>3. set_node'[owner[q]] = IF rep(q) = b THEN a ELSE rep(q)
    BY <1>0, <1>1, <1>2, LeavesFrameFacts
  <2>4. QED
    BY <2>2, <2>3 DEF rep
<1>6. Over(s, t) => Over(s, t)'
  <2> SUFFICES ASSUME Over(s, t) PROVE Over(s, t)'
    OBVIOUS
  <2>1. PICK j \in Depth, k \in Depth :
          \/ rep(t) = Sbag[j] /\ rep(s) = Sbag[k] /\ j <= k
          \/ rep(t) = Sbag[j] /\ rep(s) = Pbag[k]
          \/ rep(t) = Pbag[j] /\ rep(s) = Pbag[k] /\ k <= j
    BY DEF Over
  <2>2. rep(t) = Sbag[j] => IF j = h THEN rep(t)' = a ELSE j \in Depth' /\ rep(t)' = Sbag'[j]
    BY <1>0, <1>3, <1>4, <1>5
  <2>3. rep(s) = Sbag[k] => IF k = h THEN rep(s)' = a ELSE k \in Depth' /\ rep(s)' = Sbag'[k]
    BY <1>0, <1>3, <1>4, <1>5
  <2>4. rep(s) = Pbag[k] => k \in Depth' /\ rep(s)' = Pbag'[k]
    BY <1>3, <1>4, <1>5
  <2>5. rep(t) = Pbag[j] => j \in Depth' /\ rep(t)' = Pbag'[j]
    BY <1>3, <1>4, <1>5
  <2>6. a = Sbag'[p] \/ a = Pbag'[p]
    BY <1>2, <1>3, <1>4
  <2>7. CASE rep(t) = Sbag[j] /\ rep(s) = Sbag[k] /\ j <= k
    <3>1. CASE k = h /\ j = h
      BY <1>3, <2>2, <2>3, <2>6, <2>7, <3>1 DEF Over
    <3>2. CASE k = h /\ j # h
      BY <1>3, <2>2, <2>3, <2>6, <2>7, <3>2 DEF Over
    <3>3. CASE k # h
      <4>1. j # h
        BY <1>3, <2>7, <3>3
      <4>2. QED
        BY <2>2, <2>3, <2>7, <3>3, <4>1 DEF Over
    <3>4. QED
      BY <3>1, <3>2, <3>3
  <2>8. CASE rep(t) = Sbag[j] /\ rep(s) = Pbag[k]
    BY <1>3, <2>2, <2>4, <2>6, <2>8 DEF Over
  <2>9. CASE rep(t) = Pbag[j] /\ rep(s) = Pbag[k] /\ k <= j
    BY <2>4, <2>5, <2>9 DEF Over
  <2>10. QED
    BY <2>1, <2>7, <2>8, <2>9
<1>7. ASSUME NEW l, Within(s, l), l <= prog_depth, NEW k \in Depth', rep(s)' = Pbag'[k]
      PROVE  l <= rsp'[Sbag'[k]]
  <2>1. CASE rep(s) = Pbag[k]
    BY <1>3, <1>4, <1>7, <2>1 DEF Within
  <2>2. CASE rep(s) # Pbag[k]
    <3>1. a = Pbag[k]
      BY <1>4, <1>5, <1>7, <2>2
    <3>2. a = Pbag[p] /\ prog[prog_depth] = "spawned"
      <4>1. Sbag[p] # Pbag[k]
        BY <1>1, <1>3, SbagsAreNotPbags
      <4>2. QED
        BY <1>0, <3>1, <4>1
    <3>3. a # NULL /\ k = p
      <4>1. a # NULL
        BY <1>1, <1>2, Ranges DEF LeavesFrame
      <4>2. k \in Depth /\ p \in Depth /\ Pbag[k] # NULL /\ Pbag[k] = Pbag[p]
        BY <1>3, <1>7, <3>1, <3>2, <4>1
      <4>3. k = p
        BY <1>1, <4>2 DEF BagInv, BagsDistinct
      <4>4. QED
        BY <4>1, <4>3
    <3>4. rsp[Sbag[p]] = prog_depth
      <4>1. /\ prog_depth \in 1 .. prog_depth /\ FrameAt(prog_depth - 1) = FrameAt(prog_depth) - 1
            /\ pc = "user"
        BY <3>2, TopFrame DEF cilk_leave_begin, InUser
      <4>2. FrameAt(prog_depth) = h
        BY <1>0, <4>1 DEF StackInv, StackShape, CallStack
      <4>3. FrameAt(prog_depth - 1) = p
        BY <1>0, <4>1, <4>2
      <4>4. QED
        BY <3>2, <4>1, <4>3 DEF StackPointers, IsHelper
    <3>5. QED
      BY <1>3, <1>4, <1>7, <3>3, <3>4
  <2>3. QED
    BY <2>1, <2>2
<1>8. QED
  BY <1>6, <1>7 DEF Within

\* Every step of the tool keeps the order, and the stack pointers recorded
\* for strands of locations that are still on the stack.
LEMMA OverStep ==
  ASSUME StackInv, RspTyped, StackPointers, Next, ~Die,
         NEW s \in 1 .. nstrands, NEW t \in 1 .. nstrands
  PROVE  /\ Over(s, t) => Over(s, t)'
         /\ \A l : Within(s, l) /\ l <= prog_depth => Within(s, l)'
<1>0. BagsInv
  BY DEF StackInv
<1>1. CASE cilk_enter_begin
  <2>1. EntersFrame(dset_size + 1, Pbag[frame_head]) /\ rsp' = rsp
    BY <1>0, <1>1, EnterBagsInv DEF cilk_enter_begin
  <2>2. QED
    BY <1>0, <2>1, EnterOver
<1>2. CASE cilk_detach_end
  <2>1. PICK sbag, pbag : EntersFrame(sbag, pbag)
    BY <1>0, <1>2, DetachBagsInv
  <2>2. rsp' = rsp
    BY <1>2 DEF cilk_detach_end
  <2>3. QED
    BY <1>0, <2>1, <2>2, EnterOver
<1>3. CASE OtherHandlers
  <2>1. UNCHANGED bagVars
    BY <1>3, OtherHandlersFrame
  <2>2. Over(s, t) => Over(s, t)'
    BY <2>1 DEF Over, Depth, rep, bagVars, frameVars, dsetVars, dagVars
  <2>3. \/ rsp' = rsp
        \/ rsp' = [rsp EXCEPT ![Sbag[frame_head]] = prog_depth]
    BY <1>3 DEF OtherHandlers, cilk_enter_helper_begin, cilk_enter_end, cilk_spawn_prepare,
         cilk_spawn_or_continue, cilk_detach_begin, cilk_sync_begin, cilk_leave_end,
         __cilksan_disable_checking, __cilksan_enable_checking, cilksan_deinit
  <2>4. ASSUME NEW l, Within(s, l), l <= prog_depth, NEW k \in Depth, rep(s) = Pbag[k]
        PROVE  l <= rsp'[Sbag[k]]
    <3>1. Sbag[k] \in Nodes
      BY <1>0, Ranges DEF BagsInv, BagInv, BagsDistinct
    <3>2. rsp'[Sbag[k]] = rsp[Sbag[k]] \/ rsp'[Sbag[k]] = prog_depth
      BY <2>3, <3>1 DEF RspTyped
    <3>3. l <= rsp[Sbag[k]]
      BY <2>4 DEF Within
    <3>4. QED
      BY <2>4, <3>2, <3>3
  <2>5. \A l : Within(s, l) /\ l <= prog_depth => Within(s, l)'
    BY <2>1, <2>4 DEF Within, Depth, rep, bagVars, frameVars, dsetVars, dagVars
  <2>6. QED
    BY <2>2, <2>5
<1>4. QED
  BY <1>0, <1>1, <1>2, <1>3, SyncOver, LeaveOver DEF Next, OtherHandlers

-----------------------------------------------------------------------------
(***************************************************************************)
(* The frames, all together.                                               *)
(***************************************************************************)
FrameInv == IInv /\ SafeInv /\ Running /\ StackPointers

\* What the memory's proofs use of the event layer's invariant.
LEMMA FrameParts ==
  ASSUME FrameInv
  PROVE  /\ FlagsTyped /\ EntriesInv /\ RspTyped /\ BagsInv /\ BagTyped /\ BagInv /\ CountsTyped
         /\ StackInv /\ Ancestors /\ SPBagsCorrect
<1>1. FlagsTyped /\ EntriesInv /\ RspTyped /\ BagsInv /\ BagTyped /\ BagInv /\ CountsTyped
  BY TypeParts DEF FrameInv, IInv, EntriesInv, BagsInv
<1>2. StackInv /\ Ancestors
  BY <1>1 DEF FrameInv, SafeInv, StackInv
<1>3. SPBagsCorrect
  BY SPBagsFromInv DEF FrameInv
<1>4. QED
  BY <1>1, <1>2, <1>3

\* The event layer's invariant is kept, and no handler dies.
LEMMA FrameStep ==
  ASSUME FrameInv, [Next]_vars
  PROVE  FrameInv' /\ (Next => ~Die)
<1>1. IInv'
  BY FrameParts, StepInv
     DEF IInv, EntriesInv, BagsInv, TypeOK, FlagsTyped, EntriesTyped, CountsTyped, RspTyped, BagTyped
<1>2. SafeInv'
  BY <1>1, StepSafe DEF FrameInv
<1>3. CASE Next
  <2>1. ~died' /\ ~Die
    BY <1>2 DEF SafeInv, Die
  <2>2. QED
    BY <1>1, <1>2, <1>3, <2>1, FrameParts, RunningStep, PointersStep DEF FrameInv
<1>4. CASE UNCHANGED vars
  <2>1. ~Next \/ ~Die
    BY <1>2 DEF SafeInv, Die
  <2>2. Running' /\ StackPointers'
    BY <1>4 DEF FrameInv, Running, StackPointers, Depth, FrameAt, FramesIn, IsHelper, vars, bagVars,
                frameVars, dsetVars, dagVars, progVars
  <2>3. QED
    BY <1>1, <1>2, <2>1, <2>2 DEF FrameInv
<1>5. QED
  BY <1>3, <1>4

\* The event layer starts with its invariant.
LEMMA InitFrame == Init => FrameInv
<1> SUFFICES ASSUME Init PROVE FrameInv
  OBVIOUS
<1>1. IInv /\ SafeInv
  BY InitInv, InitSafe DEF IInv
<1>2. /\ frame_head = 0 /\ prog_depth = 0 /\ Depth = {0} /\ 1 .. prog_depth = {}
      /\ 0 \in Levels /\ 1 \in Nodes /\ 1 \in Strands
  BY BoundsAssumption DEF Init, Depth, Levels, Nodes, Strands
<1>3. Running /\ StackPointers
  BY <1>2 DEF Init, Running, StackPointers
<1>4. QED
  BY <1>1, <1>3 DEF FrameInv

\* The strands stay what they are.
LEMMA StrandsStay ==
  ASSUME FrameInv, Next
  PROVE  \A s \in 1 .. nstrands : s \in 1 .. nstrands' /\ owner'[s] = owner[s]
<1>1. ~Die /\ BagTyped /\ BagsInv
  BY FrameStep, FrameParts
<1>2. \/ UNCHANGED <<nstrands, owner>>
      \/ nstrands' = nstrands + 1 /\ \E n : owner' = [owner EXCEPT ![nstrands + 1] = n]
  <2>1. CASE cilk_enter_begin \/ cilk_detach_end
    BY <1>1, <2>1 DEF cilk_enter_begin, cilk_detach_end, FirstStrandOfChild
  <2>2. CASE cilk_sync_end \/ cilk_leave_begin
    BY <1>1, <2>2 DEF cilk_sync_end, cilk_leave_begin, NextStrandAt
  <2>3. CASE OtherHandlers
    BY <1>1, <2>3, OtherHandlersFrame DEF bagVars, dagVars
  <2>4. QED
    BY <2>1, <2>2, <2>3 DEF Next, OtherHandlers
<1>3. ASSUME NEW s \in 1 .. nstrands PROVE s \in 1 .. nstrands' /\ owner'[s] = owner[s]
  <2>1. s \in Strands /\ s # nstrands + 1 /\ (s \in 1 .. (nstrands + 1))
    BY <1>1, Ranges
  <2>2. QED
    BY <1>1, <1>2, <2>1 DEF BagTyped
<1>4. QED
  BY <1>3

\* The stack grows one entry at a time.
LEMMA DepthStep ==
  ASSUME FrameInv, Next
  PROVE  prog_depth' = prog_depth \/ prog_depth' = prog_depth - 1 \/ prog_depth' = prog_depth + 1
<1>1. ~Die
  BY FrameStep
<1>2. QED
  BY <1>1 DEF Next, cilk_enter_begin, cilk_enter_helper_begin, cilk_enter_end, cilk_spawn_prepare,
         cilk_spawn_or_continue, cilk_detach_begin, cilk_detach_end, cilk_sync_begin,
         cilk_sync_end, cilk_leave_begin, cilk_leave_end, __cilksan_disable_checking,
         __cilksan_enable_checking, cilksan_deinit, ProgramCalls, progVars

\* Where a strand's bag is, and what it answers.
LEMMA BagAt ==
  ASSUME FrameInv, NEW s \in 1 .. nstrands
  PROVE  \E k \in Depth :
           /\ get_func_id(rep(s)) = func_id[Sbag[k]]
           /\ \/ rep(s) = Sbag[k] /\ kind[rep(s)] = "S"
              \/ /\ rep(s) = Pbag[k] /\ kind[rep(s)] = "P"
                 /\ get_rsp(rep(s)) = rsp[Sbag[k]] /\ rsp[Sbag[k]] \in Entries
<1>1. BagsInv /\ Ancestors /\ BagInv /\ BagTyped /\ RspTyped
  BY FrameParts
<1>2. PICK k \in Depth : rep(s) = Sbag[k] \/ rep(s) = Pbag[k]
  BY <1>1, RepKnown
<1>3. rep(s) # NULL /\ k \in Levels /\ Sbag[k] \in Nodes
  BY <1>1, RepKnown, Ranges DEF BagInv, BagsDistinct
<1>4. sib_sbag[rep(s)] = Sbag[k]
  BY <1>1, <1>2, <1>3 DEF Ancestors
<1>5. CASE rep(s) = Sbag[k]
  BY <1>1, <1>4, <1>5 DEF BagInv, BagsDistinct, get_func_id
<1>6. CASE rep(s) = Pbag[k]
  <2>1. kind[rep(s)] = "P"
    BY <1>1, <1>3, <1>6 DEF BagInv, BagsDistinct
  <2>2. rsp[Sbag[k]] \in Entries
    BY <1>1, <1>3, <1>6 DEF FrameInv, StackPointers, RspTyped
  <2>3. QED
    BY <1>4, <1>6, <2>1, <2>2 DEF get_func_id, get_rsp
<1>7. QED
  BY <1>2, <1>5, <1>6

\* The running strand is over the strands in S-bags, and under those in P-bags.
LEMMA RunningOver ==
  ASSUME FrameInv, NEW s \in 1 .. nstrands
  PROVE  /\ nstrands \in 1 .. nstrands /\ rep(nstrands) = Sbag[frame_head]
         /\ kind[rep(nstrands)] = "S"
         /\ kind[rep(s)] = "S" => Over(nstrands, s)
         /\ kind[rep(s)] = "P" => Over(s, nstrands)
<1>1. BagTyped /\ BagInv
  BY FrameParts
<1>2. nstrands \in 1 .. nstrands /\ frame_head \in Depth /\ \A k \in Depth : k <= frame_head
  BY <1>1, Ranges DEF Depth
<1>3. rep(nstrands) = Sbag[frame_head] /\ kind[rep(nstrands)] = "S"
  BY <1>1, <1>2 DEF FrameInv, Running, BagInv, BagsDistinct, rep
<1>4. PICK k \in Depth : \/ rep(s) = Sbag[k] /\ kind[rep(s)] = "S"
                         \/ rep(s) = Pbag[k] /\ kind[rep(s)] = "P"
  BY BagAt
<1>5. k <= frame_head
  BY <1>2
<1>6. QED
  BY <1>2, <1>3, <1>4, <1>5 DEF Over

\* A strand over one that is in a P-bag is in a P-bag.
LEMMA OverParallel ==
  ASSUME FrameInv, NEW s \in 1 .. nstrands, NEW t, Over(s, t), kind[rep(t)] = "P"
  PROVE  kind[rep(s)] = "P"
<1>1. BagTyped /\ BagInv
  BY FrameParts
<1>2. PICK j \in Depth, k \in Depth :
        \/ rep(t) = Sbag[j] \/ (rep(t) = Pbag[j] /\ rep(s) = Pbag[k])
  BY DEF Over
<1>3. rep(t) # Sbag[j]
  BY <1>1 DEF BagInv, BagsDistinct
<1>4. rep(s) # NULL /\ k \in Levels
  BY <1>1, FrameParts, RepKnown, Ranges
<1>5. QED
  BY <1>1, <1>2, <1>3, <1>4 DEF BagInv, BagsDistinct

-----------------------------------------------------------------------------
(***************************************************************************)
(* The access kept at a location.                                          *)
(***************************************************************************)
ShadowOK == FrameInv /\ MemTypeOK /\ ShadowInv

\* The kept access that a new access of a kind is compared with is well kept.
LEMMA KeptForOK ==
  ASSUME ShadowOK, NEW l \in Locs, NEW is_read \in BOOLEAN
  PROVE  KeptFor(l, is_read) \in Accs \cup {NULL} /\ Kept(KeptFor(l, is_read), l, is_read)
  BY DEF ShadowOK, ShadowInv, MemTypeOK, KeptFor

\* Its bag is that of a strand.
LEMMA KeptBag ==
  ASSUME FrameInv, NEW kept, kept # NULL, Known(kept)
  PROVE  \E s \in 1 .. nstrands : kept.func = owner[s] /\ lca(kept) = rep(s)
  BY DEF Known, lca, get_set_node, rep

\* check_invariants holds of the accesses kept: the functions on the stack
\* have later ids than those below, and a spawner's stack pointer is recorded
\* before its P-bag is created.
LEMMA AccessAssertsHold ==
  ASSUME ShadowOK, NEW l \in Locs
  PROVE  AccessAsserts(l)
<1> SUFFICES ASSUME NEW acc \in {readers[l], writers[l]} \ {NULL}
             PROVE  /\ get_func_id(Sbag[frame_head]) >= get_func_id(lca(acc))
                    /\ is_SBag(lca(acc)) \/ get_rsp(lca(acc)) # NULL
  BY DEF AccessAsserts
<1>1. FrameInv /\ acc # NULL /\ Known(acc)
  <2>1. acc = KeptFor(l, TRUE) \/ acc = KeptFor(l, FALSE)
    BY DEF KeptFor
  <2>2. QED
    BY <2>1, KeptForOK DEF ShadowOK, Kept
<1>2. PICK s \in 1 .. nstrands : lca(acc) = rep(s)
  BY <1>1, KeptBag
<1>3. PICK k \in Depth :
        /\ get_func_id(rep(s)) = func_id[Sbag[k]]
        /\ \/ kind[rep(s)] = "S"
           \/ get_rsp(rep(s)) = rsp[Sbag[k]] /\ rsp[Sbag[k]] \in Entries
  BY <1>1, BagAt
<1>4. /\ frame_head \in Depth /\ k <= frame_head
      /\ \A j \in Depth : Sbag[j] \in Nodes /\ func_id[Sbag[j]] \in Nat
  BY <1>1, FrameParts, Ranges DEF Depth, BagInv, BagsDistinct, CountsTyped
<1>5. get_func_id(Sbag[frame_head]) = func_id[Sbag[frame_head]]
  BY <1>1, <1>4, FrameParts DEF Ancestors, get_func_id
<1>6. func_id[Sbag[k]] <= func_id[Sbag[frame_head]]
  BY <1>1, <1>4 DEF FrameInv, Running
<1>7. NULL \notin Entries
  BY BoundsAssumption DEF Entries
<1>8. QED
  BY <1>2, <1>3, <1>4, <1>5, <1>6, <1>7 DEF is_SBag

\* The one race check of a kind sees a race with any access of that kind.
LEMMA RaceIsReported ==
  ASSUME ShadowOK, NEW l \in Locs, Accessible(l), NEW a \in hist[l],
         a.strand \notin past[frame_head]
  PROVE  races_with(KeptFor(l, a.is_read), l)
<1>1. FrameInv /\ a.strand \in 1 .. nstrands /\ a.is_read \in BOOLEAN
  <2>1. hist[l] \in SUBSET [strand : Strands, is_read : BOOLEAN]
    BY DEF ShadowOK, MemTypeOK
  <2>2. QED
    BY <2>1 DEF ShadowOK, ShadowInv
<1>2. PICK kept : kept = KeptFor(l, a.is_read)
  OBVIOUS
<1>3. Kept(kept, l, a.is_read)
  BY <1>1, <1>2, KeptForOK
<1>4. a \in Same(l, a.is_read) /\ Same(l, a.is_read) # {}
  BY DEF Same
<1>5. /\ kept # NULL
      /\ \E s \in 1 .. nstrands :
           /\ kept.func = owner[s]
           /\ \A c \in Same(l, a.is_read) : Over(s, c.strand)
           /\ is_on_stack(l) => Within(s, l)
  BY <1>3, <1>4 DEF Kept, Covers
<1>6. PICK s \in 1 .. nstrands :
        /\ kept.func = owner[s] /\ Over(s, a.strand) /\ (is_on_stack(l) => Within(s, l))
  BY <1>4, <1>5
<1>7. kind[rep(a.strand)] = "P"
  BY <1>1, FrameParts DEF SPBagsCorrect, BagOf, is_PBag, get_set_node, rep
<1>8. kind[rep(s)] = "P"
  BY <1>1, <1>6, <1>7, OverParallel
<1>9. PICK k \in Depth : rep(s) = Pbag[k] /\ get_rsp(rep(s)) = rsp[Sbag[k]]
  BY <1>1, <1>8, BagAt
<1>10. lca(kept) = rep(s)
  BY <1>6 DEF lca, get_set_node, rep
<1>11. is_on_stack(l) => l <= get_rsp(lca(kept))
  BY <1>6, <1>9, <1>10 DEF Within
<1>12. QED
  BY <1>2, <1>5, <1>8, <1>10, <1>11 DEF races_with, is_PBag

\* On the heap a race that is seen is one.
LEMMA ReportIsRace ==
  ASSUME ShadowOK, NEW l \in HeapLocs, ~stale[l], NEW is_read \in BOOLEAN,
         races_with(KeptFor(l, is_read), l)
  PROVE  \E a \in hist[l] : a.is_read = is_read /\ a.strand \notin past[frame_head]
<1>1. l \in Locs /\ FrameInv
  BY DEF Locs, ShadowOK
<1>2. PICK kept : kept = KeptFor(l, is_read)
  OBVIOUS
<1>3. Kept(kept, l, is_read) /\ kept # NULL /\ kind[lca(kept)] = "P"
  BY <1>1, <1>2, KeptForOK DEF races_with, is_PBag
<1>4. PICK a \in hist[l] : a.is_read = is_read /\ kept.func = owner[a.strand]
  BY <1>3 DEF Kept, Fresh, Same
<1>5. a.strand \in 1 .. nstrands
  BY <1>1 DEF ShadowOK, ShadowInv
<1>6. kind[rep(a.strand)] = "P"
  BY <1>3, <1>4 DEF lca, get_set_node, rep
<1>7. a.strand \notin past[frame_head]
  BY <1>1, <1>5, <1>6, FrameParts DEF SPBagsCorrect, BagOf, is_PBag, get_set_node, rep
<1>8. QED
  BY <1>4, <1>7

\* An access leaves the frames and the order of the bags alone.
LEMMA OrderStays ==
  ASSUME UNCHANGED vars
  PROVE  /\ nstrands' = nstrands /\ owner' = owner
         /\ \A s, t : Over(s, t)' = Over(s, t)
         /\ \A s, l : Within(s, l)' = Within(s, l)
         /\ \A l : Accessible(l)' = Accessible(l)
  BY DEF Over, Within, Accessible, Depth, rep, is_on_stack, vars, bagVars, frameVars,
         dsetVars, dagVars, progVars

\* Where no access of its kind is added, the access kept is as good as before.
LEMMA KeptStays ==
  ASSUME UNCHANGED vars, UNCHANGED stale, NEW l, NEW b, NEW kept,
         Kept(kept, l, b), Same(l, b)' = Same(l, b)
  PROVE  Kept(kept, l, b)'
<1>1. Known(kept)'
  BY OrderStays DEF Kept, Known
<1>2. Covers(kept, l, b)'
  BY OrderStays DEF Kept, Covers, is_on_stack
<1>3. Fresh(kept, l, b)'
  BY OrderStays DEF Kept, Fresh
<1>4. QED
  BY <1>1, <1>2, <1>3 DEF Kept

\* The access kept may be replaced only when every access of its kind is in
\* series with the one that replaces it.
LEMMA ReplacedInSeries ==
  ASSUME ShadowOK, NEW l \in Locs, Accessible(l), NEW b \in BOOLEAN,
         Replaceable(KeptFor(l, b), l), NEW a \in Same(l, b)
  PROVE  a.strand \in 1 .. nstrands /\ kind[rep(a.strand)] = "S"
<1>1. FrameInv /\ a \in hist[l] /\ a.is_read = b /\ a.strand \in 1 .. nstrands
  BY DEF ShadowOK, ShadowInv, Same
<1>2. ASSUME a.strand \notin past[frame_head] PROVE FALSE
  <2>1. PICK kept : kept = KeptFor(l, b)
    OBVIOUS
  <2>2. races_with(kept, l)
    BY <1>1, <1>2, <2>1, RaceIsReported
  <2>3. Known(kept) /\ kept # NULL /\ kind[lca(kept)] = "P"
    BY <2>1, <2>2, KeptForOK DEF Kept, races_with, is_PBag
  <2>4. PICK s \in 1 .. nstrands : lca(kept) = rep(s)
    BY <1>1, <2>3, KeptBag
  <2>5. get_rsp(lca(kept)) \in Entries
    BY <1>1, <2>3, <2>4, BagAt
  <2>6. is_on_stack(l) => l \in Int /\ get_rsp(lca(kept)) \in Int /\ l <= get_rsp(lca(kept))
    BY <2>2, <2>5, LocsAssumption, BoundsAssumption DEF races_with, is_on_stack, Entries
  <2>7. QED
    BY <2>1, <2>3, <2>6 DEF Replaceable, is_SBag
<1>3. kind[rep(a.strand)] = "S"
  BY <1>1, <1>2, FrameParts DEF SPBagsCorrect, BagOf, is_SBag, get_set_node, rep
<1>4. QED
  BY <1>1, <1>3

\* An access that is not replaced is in a P-bag, and its location is in the
\* frames of the function the bag belongs to.
LEMMA NotReplaced ==
  ASSUME ShadowOK, NEW l \in Locs, NEW b \in BOOLEAN, NEW s \in 1 .. nstrands,
         ~Replaceable(KeptFor(l, b), l), lca(KeptFor(l, b)) = rep(s)
  PROVE  kind[rep(s)] = "P" /\ (is_on_stack(l) => Within(s, l))
<1>1. FrameInv /\ BagInv /\ BagTyped /\ BagsInv
  BY FrameParts DEF ShadowOK
<1>2. PICK k \in Depth : \/ rep(s) = Sbag[k] /\ kind[rep(s)] = "S"
                         \/ /\ rep(s) = Pbag[k] /\ kind[rep(s)] = "P"
                            /\ get_rsp(rep(s)) = rsp[Sbag[k]] /\ rsp[Sbag[k]] \in Entries
  BY <1>1, BagAt
<1>3. kind[rep(s)] # "S" /\ (is_on_stack(l) => ~(get_rsp(rep(s)) < l))
  BY DEF Replaceable, is_SBag
<1>4. is_on_stack(l) => l <= rsp[Sbag[k]]
  BY <1>2, <1>3, LocsAssumption, BoundsAssumption DEF is_on_stack, Entries
<1>5. ASSUME NEW j \in Depth, rep(s) = Pbag[j] PROVE j = k
  BY <1>1, <1>2, <1>3, <1>5, RepKnown DEF BagInv, BagsDistinct
<1>6. QED
  BY <1>2, <1>3, <1>4, <1>5 DEF Within

\* The current access, or the one kept, covers those before it and itself.
LEMMA KeptUpdated ==
  ASSUME ShadowOK, UNCHANGED vars, UNCHANGED stale,
         NEW l \in Locs, NEW b \in BOOLEAN, NEW i \in Insts, Accessible(l),
         hist' = [hist EXCEPT ![l] = @ \cup {[strand |-> nstrands, is_read |-> b]}],
         NEW kept, kept = IF Replaceable(KeptFor(l, b), l)
                          THEN [func |-> Sbag[frame_head], rip |-> i] ELSE KeptFor(l, b)
  PROVE  Kept(kept, l, b)'
<1>0. PICK n, old, x : /\ n = nstrands /\ old = KeptFor(l, b)
                       /\ x = [strand |-> nstrands, is_read |-> b]
  OBVIOUS
<1>1. FrameInv /\ BagInv /\ BagTyped /\ BagsInv /\ Kept(old, l, b)
  BY <1>0, FrameParts, KeptForOK DEF ShadowOK
<1>2. /\ n \in 1 .. nstrands /\ owner[n] = Sbag[frame_head] /\ rep(n) = Sbag[frame_head]
      /\ Over(n, n) /\ x.strand = n
  <2>1. nstrands \in 1 .. nstrands
    BY <1>1, Ranges
  <2>2. kind[rep(nstrands)] = "S" /\ rep(nstrands) = Sbag[frame_head] /\ Over(nstrands, nstrands)
    BY <1>1, <2>1, RunningOver
  <2>3. owner[nstrands] = Sbag[frame_head]
    BY <1>1 DEF FrameInv, Running
  <2>4. QED
    BY <1>0, <2>1, <2>2, <2>3
<1>3. Same(l, b)' = Same(l, b) \cup {x} /\ x \in Same(l, b)'
  <2>1. hist'[l] = hist[l] \cup {x}
    BY <1>0 DEF ShadowOK, MemTypeOK
  <2>2. x.is_read = b
    BY <1>0
  <2>3. QED
    BY <2>1, <2>2 DEF Same
<1>4. CASE Replaceable(old, l)
  <2>1. kept = [func |-> Sbag[frame_head], rip |-> i] /\ kept.func = owner[n] /\ kept # NULL
    <3>1. frame_head \in Depth /\ Sbag[frame_head] \in Nodes
      BY <1>1, Ranges DEF BagInv, BagsDistinct
    <3>2. QED
      BY <1>0, <1>2, <1>4, <3>1, LocsAssumption DEF Accs
  <2>2. \A a \in Same(l, b)' : Over(n, a.strand)
    <3>1. \A a \in Same(l, b) : Over(n, a.strand)
      BY <1>0, <1>1, <1>4, ReplacedInSeries, RunningOver
    <3>2. QED
      BY <1>2, <1>3, <3>1
  <2>3. Within(n, l)
    BY <1>1, <1>2, SbagsAreNotPbags, Ranges DEF Within
  <2>4. Known(kept)'
    BY <1>2, <2>1, OrderStays DEF Known
  <2>5. Covers(kept, l, b)'
    BY <1>2, <2>1, <2>2, <2>3, OrderStays DEF Covers, is_on_stack
  <2>6. Fresh(kept, l, b)'
    BY <1>2, <1>3, <2>1, OrderStays DEF Fresh
  <2>7. QED
    BY <2>4, <2>5, <2>6 DEF Kept
<1>5. CASE ~Replaceable(old, l)
  <2>1. kept = old /\ kept # NULL
    BY <1>0, <1>5 DEF Replaceable
  <2>2. PICK s \in 1 .. nstrands :
          kept.func = owner[s] /\ \A a \in Same(l, b) : Over(s, a.strand)
    <3>1. CASE Same(l, b) = {}
      BY <1>1, <2>1, <3>1 DEF Kept, Known
    <3>2. CASE Same(l, b) # {}
      BY <1>1, <2>1, <3>2 DEF Kept, Covers
    <3>3. QED
      BY <3>1, <3>2
  <2>3. lca(kept) = rep(s)
    BY <2>2 DEF lca, get_set_node, rep
  <2>4. kind[rep(s)] = "P" /\ (is_on_stack(l) => Within(s, l))
    BY <1>0, <1>5, <2>1, <2>3, NotReplaced
  <2>5. Over(s, n)
    BY <1>0, <1>1, <2>4, RunningOver
  <2>6. \A a \in Same(l, b)' : Over(s, a.strand)
    BY <1>2, <1>3, <2>2, <2>5
  <2>7. Known(kept)'
    BY <2>2, OrderStays DEF Known
  <2>8. Covers(kept, l, b)'
    BY <2>1, <2>2, <2>4, <2>6, OrderStays DEF Covers, is_on_stack
  <2>9. Fresh(kept, l, b)'
    BY <1>1, <1>3, <2>1, OrderStays DEF Kept, Fresh
  <2>10. QED
    BY <2>7, <2>8, <2>9 DEF Kept
<1>6. QED
  BY <1>4, <1>5

-----------------------------------------------------------------------------
(***************************************************************************)
(* The steps of the program's memory operations.                           *)
(***************************************************************************)
\* What a checked read or write is to the shadow memory and to the history.
Accesses(l, i, is_read) ==
  /\ pc = "user" /\ Accessible(l)
  /\ UNCHANGED <<vars, stale>>
  /\ hist' = [hist EXCEPT ![l] = @ \cup {[strand |-> nstrands, is_read |-> is_read]}]
  /\ raced' = [raced EXCEPT ![l] =
                 @ \/ \E a \in hist[l] : a.strand \notin past[frame_head] /\ ~(is_read /\ a.is_read)]
  /\ reported' = [reported EXCEPT ![l] =
                    @ \/ \E b \in BOOLEAN : ~(is_read /\ b) /\ races_with(KeptFor(l, b), l)]
  /\ \A m \in Locs, b \in BOOLEAN :
       KeptFor(m, b)' = IF m = l /\ b = is_read /\ Replaceable(KeptFor(l, b), l)
                        THEN [func |-> Sbag[frame_head], rip |-> i] ELSE KeptFor(m, b)
  /\ readers' \in [Locs -> Accs \cup {NULL}] /\ writers' \in [Locs -> Accs \cup {NULL}]

\* The access object made for the running strand has its type.
LEMMA AccessTyped ==
  ASSUME ShadowOK, NEW i \in Insts
  PROVE  [func |-> Sbag[frame_head], rip |-> i] \in Accs
<1>1. Sbag[frame_head] \in Nodes
  BY FrameParts, Ranges DEF ShadowOK, BagInv, BagsDistinct
<1>2. QED
  BY <1>1 DEF Accs

\* A read in the terms common to reads and writes.
LEMMA ReadAccesses ==
  ASSUME ShadowOK, NEW l \in Locs, NEW i \in ReadInsts, tsan_read(l, i)
  PROVE  Accesses(l, i, TRUE) /\ ReportRaces(RacesOf(writers[l], l, i), {})
<1>1. AccessAsserts(l)
  BY AccessAssertsHold
<1>2. /\ pc = "user" /\ Accessible(l) /\ Read(l, i) /\ Record(l, TRUE) /\ UNCHANGED vars
  BY <1>1 DEF tsan_read
<1>3. readers \in [Locs -> Accs \cup {NULL}] /\ writers \in [Locs -> Accs \cup {NULL}]
  BY DEF ShadowOK, MemTypeOK
<1>4. [func |-> Sbag[frame_head], rip |-> i] \in Accs
  BY AccessTyped DEF Insts
<1>5. readers' \in [Locs -> Accs \cup {NULL}] /\ writers' \in [Locs -> Accs \cup {NULL}]
  BY <1>2, <1>3, <1>4 DEF Read
<1>6. ASSUME NEW m \in Locs, NEW b \in BOOLEAN
      PROVE  KeptFor(m, b)' = IF m = l /\ b = TRUE /\ Replaceable(KeptFor(l, b), l)
                              THEN [func |-> Sbag[frame_head], rip |-> i] ELSE KeptFor(m, b)
  BY <1>2, <1>3 DEF Read, KeptFor
<1>7. (\E b \in BOOLEAN : ~(TRUE /\ b) /\ races_with(KeptFor(l, b), l))
        <=> races_with(writers[l], l)
  BY DEF KeptFor
<1>8. reported' = [reported EXCEPT ![l] =
                    @ \/ \E b \in BOOLEAN : ~(TRUE /\ b) /\ races_with(KeptFor(l, b), l)]
  BY <1>2, <1>7, Zenon DEF Read
<1>9. QED
  BY <1>2, <1>5, <1>6, <1>8 DEF Accesses, Read, Record

\* A write in the same terms.
LEMMA WriteAccesses ==
  ASSUME ShadowOK, NEW l \in Locs, NEW i \in WriteInsts, tsan_write(l, i)
  PROVE  /\ Accesses(l, i, FALSE)
         /\ ReportRaces(RacesOf(writers[l], l, i), RacesOf(readers[l], l, i))
<1>1. AccessAsserts(l)
  BY AccessAssertsHold
<1>2. /\ pc = "user" /\ Accessible(l) /\ Write(l, i) /\ Record(l, FALSE) /\ UNCHANGED vars
  BY <1>1 DEF tsan_write
<1>3. readers \in [Locs -> Accs \cup {NULL}] /\ writers \in [Locs -> Accs \cup {NULL}]
  BY DEF ShadowOK, MemTypeOK
<1>4. [func |-> Sbag[frame_head], rip |-> i] \in Accs
  BY AccessTyped DEF Insts
<1>5. readers' \in [Locs -> Accs \cup {NULL}] /\ writers' \in [Locs -> Accs \cup {NULL}]
  BY <1>2, <1>3, <1>4 DEF Write
<1>6. ASSUME NEW m \in Locs, NEW b \in BOOLEAN
      PROVE  KeptFor(m, b)' = IF m = l /\ b = FALSE /\ Replaceable(KeptFor(l, b), l)
                              THEN [func |-> Sbag[frame_head], rip |-> i] ELSE KeptFor(m, b)
  BY <1>2, <1>3 DEF Write, KeptFor
<1>7. (\E b \in BOOLEAN : ~(FALSE /\ b) /\ races_with(KeptFor(l, b), l))
        <=> races_with(writers[l], l) \/ races_with(readers[l], l)
  BY DEF KeptFor
<1>8. reported' = [reported EXCEPT ![l] =
                    @ \/ \E b \in BOOLEAN : ~(FALSE /\ b) /\ races_with(KeptFor(l, b), l)]
  <2>1. reported' = [reported EXCEPT ![l] =
                       @ \/ races_with(writers[l], l) \/ races_with(readers[l], l)]
    BY <1>2 DEF Write
  <2>2. (reported[l] \/ races_with(writers[l], l) \/ races_with(readers[l], l))
          = (reported[l] \/ \E b \in BOOLEAN : ~(FALSE /\ b) /\ races_with(KeptFor(l, b), l))
    BY <1>7, Zenon
  <2>3. QED
    BY <2>1, <2>2, Zenon
<1>9. QED
  BY <1>2, <1>5, <1>6, <1>8 DEF Accesses, Write, Record

\* The accesses kept still cover the history.
LEMMA AccessShadow ==
  ASSUME ShadowOK, NEW l \in Locs, NEW i \in Insts, NEW is_read \in BOOLEAN,
         Accesses(l, i, is_read)
  PROVE  ShadowInv'
<1>1. UNCHANGED vars /\ UNCHANGED stale /\ Accessible(l)
      /\ hist' = [hist EXCEPT ![l] = @ \cup {[strand |-> nstrands, is_read |-> is_read]}]
  BY DEF Accesses
<1>2. hist \in [Locs -> SUBSET [strand : Strands, is_read : BOOLEAN]]
  BY DEF ShadowOK, MemTypeOK
<1>3. /\ hist'[l] = hist[l] \cup {[strand |-> nstrands, is_read |-> is_read]}
      /\ \A m \in Locs : m # l => hist'[m] = hist[m]
  BY <1>1, <1>2
<1>4. ASSUME NEW m \in Locs, NEW a \in hist'[m] PROVE a.strand \in 1 .. nstrands'
  <2>1. nstrands \in 1 .. nstrands /\ nstrands' = nstrands
    BY <1>1, FrameParts, Ranges, OrderStays DEF ShadowOK
  <2>2. a \in hist[m] \/ a.strand = nstrands
    BY <1>3
  <2>3. QED
    BY <2>1, <2>2 DEF ShadowOK, ShadowInv
<1>5. ASSUME NEW m \in Locs, NEW b \in BOOLEAN, NEW kept, kept = KeptFor(m, b)'
      PROVE  Kept(kept, m, b)'
  <2>1. kept = IF m = l /\ b = is_read /\ Replaceable(KeptFor(l, b), l)
               THEN [func |-> Sbag[frame_head], rip |-> i] ELSE KeptFor(m, b)
    BY <1>5 DEF Accesses
  <2>2. CASE m = l /\ b = is_read
    BY <1>1, <2>1, <2>2, KeptUpdated
  <2>3. CASE ~(m = l /\ b = is_read)
    <3>1. Same(m, b)' = Same(m, b)
      BY <1>3, <2>3 DEF Same
    <3>2. Kept(kept, m, b)
      BY <2>1, <2>3, KeptForOK
    <3>3. QED
      BY <1>1, <3>1, <3>2, KeptStays
  <2>4. QED
    BY <2>2, <2>3
<1>6. ASSUME NEW m \in Locs, NEW b \in BOOLEAN PROVE Kept(KeptFor(m, b), m, b)'
  <2>1. PICK kept : kept = KeptFor(m, b)'
    OBVIOUS
  <2>2. Kept(kept, m, b)'
    BY <1>5, <2>1
  <2>3. QED
    BY <2>1, <2>2 DEF Kept, Known, Covers, Fresh
<1>7. QED
  BY <1>4, <1>6 DEF ShadowInv

\* A race is reported when there is one, on the heap only then.
LEMMA AccessRaces ==
  ASSUME ShadowOK, RaceReportedIffRaceExists, NoRaceMissed,
         NEW l \in Locs, NEW i \in Insts, NEW is_read \in BOOLEAN, Accesses(l, i, is_read)
  PROVE  RaceReportedIffRaceExists' /\ NoRaceMissed'
<1>1. PICK races, reports :
        /\ races = \E a \in hist[l] : a.strand \notin past[frame_head] /\ ~(is_read /\ a.is_read)
        /\ reports = \E b \in BOOLEAN : ~(is_read /\ b) /\ races_with(KeptFor(l, b), l)
  OBVIOUS
<1>2. raced \in [Locs -> BOOLEAN] /\ reported \in [Locs -> BOOLEAN]
  BY DEF ShadowOK, MemTypeOK
<1>3. /\ raced' = [raced EXCEPT ![l] = @ \/ races]
      /\ reported' = [reported EXCEPT ![l] = @ \/ reports]
      /\ stale' = stale /\ Accessible(l)
  BY <1>1 DEF Accesses
<1>4. /\ raced'[l] = (raced[l] \/ races) /\ reported'[l] = (reported[l] \/ reports)
      /\ \A m \in Locs : m # l => raced'[m] = raced[m] /\ reported'[m] = reported[m]
  BY <1>2, <1>3
<1>5. races => reports
  <2> SUFFICES ASSUME NEW a \in hist[l], a.strand \notin past[frame_head],
                      ~(is_read /\ a.is_read)
               PROVE  reports
    BY <1>1
  <2>1. races_with(KeptFor(l, a.is_read), l)
    BY <1>3, RaceIsReported
  <2>2. a.is_read \in BOOLEAN
    BY DEF ShadowOK, MemTypeOK
  <2>3. QED
    BY <1>1, <2>1, <2>2
<1>6. l \in HeapLocs /\ ~stale[l] /\ reports => races
  <2> SUFFICES ASSUME l \in HeapLocs, ~stale[l], NEW b \in BOOLEAN, ~(is_read /\ b),
                      races_with(KeptFor(l, b), l)
               PROVE  races
    BY <1>1
  <2>1. PICK a \in hist[l] : a.is_read = b /\ a.strand \notin past[frame_head]
    BY ReportIsRace
  <2>2. QED
    BY <1>1, <2>1
<1>7. ASSUME NEW m \in Locs, raced'[m] PROVE reported'[m]
  BY <1>4, <1>5, <1>7 DEF NoRaceMissed
<1>8. ASSUME NEW m \in HeapLocs, ~stale'[m] PROVE reported'[m] <=> raced'[m]
  <2>1. m \in Locs /\ (reported[m] <=> raced[m])
    BY <1>3, <1>8 DEF RaceReportedIffRaceExists, Locs
  <2>2. QED
    BY <1>3, <1>4, <1>5, <1>6, <1>8, <2>1
<1>9. QED
  BY <1>7, <1>8 DEF RaceReportedIffRaceExists, NoRaceMissed

-----------------------------------------------------------------------------
(***************************************************************************)
(* The list of races found.                                                *)
(***************************************************************************)
Races == [key : Insts, first : Insts, second : Insts]

\* Races under their own key, no two of the same pair of instructions.
WellKept(found) ==
  /\ \A r \in found : r \in Races /\ r.key = RaceKey(r.first, r.second)
  /\ \A r, q \in found : is_equivalent_race(r, q) => r = q

\* What a check reports: at most one race, under its key.
Reportable(races) ==
  /\ \A r \in races : r \in Races /\ r.key = RaceKey(r.first, r.second)
  /\ \A r, q \in races : r = q

\* Equivalent races have one key, so the look-up under a race's own key finds
\* every race it could duplicate.
LEMMA AddRaces ==
  ASSUME NEW found, NEW races, WellKept(found), Reportable(races)
  PROVE  WellKept(found \cup NotFound(found, races))
<1>1. ASSUME NEW r \in NotFound(found, races)
      PROVE  r \in races /\ r \in Races /\ r.key = RaceKey(r.first, r.second)
  BY DEF NotFound, Reportable
<1>2. ASSUME NEW q \in found, NEW r \in NotFound(found, races)
      PROVE  ~is_equivalent_race(r, q) /\ ~is_equivalent_race(q, r)
  <2>1. /\ r.first \in Nat /\ r.second \in Nat /\ q.first \in Nat /\ q.second \in Nat
        /\ r.key = RaceKey(r.first, r.second) /\ q.key = RaceKey(q.first, q.second)
    BY <1>1, LocsAssumption DEF WellKept, Races
  <2>2. ~(q.key = r.key /\ is_equivalent_race(r, q))
    BY DEF NotFound, AlreadyFound
  <2>3. QED
    BY <2>1, <2>2 DEF is_equivalent_race, RaceKey
<1>3. QED
  BY <1>1, <1>2 DEF WellKept, Reportable

\* What is found against a kept access can be reported.
LEMMA RacesOfKept ==
  ASSUME ShadowOK, NEW l \in Locs, NEW i \in Insts, NEW b \in BOOLEAN,
         NEW races, races = RacesOf(KeptFor(l, b), l, i)
  PROVE  Reportable(races)
<1>1. PICK kept : kept = KeptFor(l, b)
  OBVIOUS
<1>2. races_with(kept, l) => kept.rip \in Insts
  BY <1>1, KeptForOK DEF races_with, Accs
<1>3. races_with(kept, l) => RaceRecord(kept.rip, i) \in Races
  BY <1>2 DEF RaceRecord, RaceKey, Races
<1>4. /\ RaceRecord(kept.rip, i).key = RaceKey(kept.rip, i)
      /\ RaceRecord(kept.rip, i).first = kept.rip /\ RaceRecord(kept.rip, i).second = i
  BY DEF RaceRecord
<1>5. QED
  BY <1>1, <1>3, <1>4 DEF RacesOf, Reportable

\* Reporting keeps the races found filed under their keys.
LEMMA ReportsKept ==
  ASSUME WellKept(races_found), duplicated_races \in Nat,
         NEW first, NEW second, ReportRaces(first, second),
         Reportable(first), Reportable(second)
  PROVE  WellKept(races_found') /\ duplicated_races' \in Nat
<1>1. PICK once, twice, found : /\ once = NotFound(races_found, first)
                                /\ found = races_found \cup once
                                /\ twice = NotFound(found, second)
  OBVIOUS
<1>2. WellKept(found)
  BY <1>1, AddRaces
<1>3. WellKept(found \cup twice)
  BY <1>1, <1>2, AddRaces
<1>4. races_found' = found \cup twice /\ duplicated_races' \in Nat
  BY <1>1 DEF ReportRaces
<1>5. QED
  BY <1>3, <1>4

-----------------------------------------------------------------------------
(***************************************************************************)
(* The inductive invariant.                                                *)
(***************************************************************************)
LEMMA MemInvParts ==
  ASSUME FrameInv, MemInv
  PROVE  /\ ShadowOK /\ WellKept(races_found) /\ duplicated_races \in Nat /\ accesses \in Nat
         /\ hist \in [Locs -> SUBSET [strand : Strands, is_read : BOOLEAN]]
         /\ raced \in [Locs -> BOOLEAN] /\ reported \in [Locs -> BOOLEAN]
         /\ stale \in [Locs -> BOOLEAN]
         /\ readers \in [Locs -> Accs \cup {NULL}] /\ writers \in [Locs -> Accs \cup {NULL}]
<1>1. ShadowOK
  BY DEF MemInv, ShadowOK
<1>2. WellKept(races_found)
  BY DEF MemInv, MemTypeOK, RacesKeyed, RacesFoundAreDistinct, WellKept, Races
<1>3. QED
  BY <1>1, <1>2 DEF MemInv, MemTypeOK

\* An access of either kind keeps the memory's invariant.
LEMMA AccessStep ==
  ASSUME FrameInv, MemInv, NEW l \in Locs, NEW i \in Insts, NEW is_read \in BOOLEAN,
         Accesses(l, i, is_read), TickAccess,
         WellKept(races_found'), duplicated_races' \in Nat
  PROVE  MemInv'
<1>1. ShadowOK
  BY MemInvParts
<1>2. ShadowInv' /\ RaceReportedIffRaceExists' /\ NoRaceMissed'
  BY <1>1, AccessShadow, AccessRaces DEF MemInv
<1>3. MemTypeOK'
  <2>1. nstrands \in Strands /\ accesses' \in Nat
    BY MemInvParts, FrameParts DEF BagTyped, TickAccess
  <2>2. hist' \in [Locs -> SUBSET [strand : Strands, is_read : BOOLEAN]]
    BY <2>1, MemInvParts DEF Accesses
  <2>3. raced' \in [Locs -> BOOLEAN]
    BY MemInvParts DEF Accesses
  <2>4. reported' \in [Locs -> BOOLEAN]
    BY MemInvParts DEF Accesses
  <2>5. races_found' \subseteq Races
    BY DEF WellKept
  <2>6. stale' \in [Locs -> BOOLEAN]
    BY MemInvParts DEF Accesses
  <2>7. readers' \in [Locs -> Accs \cup {NULL}] /\ writers' \in [Locs -> Accs \cup {NULL}]
    BY DEF Accesses
  <2>8. QED
    BY <2>1, <2>2, <2>3, <2>4, <2>5, <2>6, <2>7 DEF MemTypeOK, Races
<1>4. RacesKeyed' /\ RacesFoundAreDistinct'
  BY DEF WellKept, RacesKeyed, RacesFoundAreDistinct
<1>5. QED
  BY <1>2, <1>3, <1>4 DEF MemInv

\* A read keeps the memory's invariant.
LEMMA ReadStep ==
  ASSUME FrameInv, MemInv, NEW l \in Locs, NEW i \in ReadInsts, tsan_read(l, i)
  PROVE  MemInv' /\ UNCHANGED vars
<1>1. ShadowOK /\ WellKept(races_found) /\ duplicated_races \in Nat /\ i \in Insts
  BY MemInvParts DEF Insts
<1>2. Accesses(l, i, TRUE) /\ ReportRaces(RacesOf(writers[l], l, i), {}) /\ TickAccess
  BY <1>1, ReadAccesses DEF tsan_read
<1>3. PICK races : races = RacesOf(KeptFor(l, FALSE), l, i)
  OBVIOUS
<1>4. races = RacesOf(writers[l], l, i)
  BY <1>3 DEF KeptFor
<1>5. Reportable(races) /\ Reportable({})
  <2>1. Reportable(races)
    BY <1>1, <1>3, RacesOfKept
  <2>2. Reportable({})
    BY DEF Reportable
  <2>3. QED
    BY <2>1, <2>2
<1>6. WellKept(races_found') /\ duplicated_races' \in Nat
  BY <1>1, <1>2, <1>4, <1>5, ReportsKept
<1>7. QED
  BY <1>1, <1>2, <1>6, AccessStep DEF Accesses

\* A write keeps the memory's invariant.
LEMMA WriteStep ==
  ASSUME FrameInv, MemInv, NEW l \in Locs, NEW i \in WriteInsts, tsan_write(l, i)
  PROVE  MemInv' /\ UNCHANGED vars
<1>1. ShadowOK /\ WellKept(races_found) /\ duplicated_races \in Nat /\ i \in Insts
  BY MemInvParts DEF Insts
<1>2. /\ Accesses(l, i, FALSE) /\ TickAccess
      /\ ReportRaces(RacesOf(writers[l], l, i), RacesOf(readers[l], l, i))
  BY <1>1, WriteAccesses DEF tsan_write
<1>3. PICK first, second : /\ first = RacesOf(KeptFor(l, FALSE), l, i)
                           /\ second = RacesOf(KeptFor(l, TRUE), l, i)
  OBVIOUS
<1>4. first = RacesOf(writers[l], l, i) /\ second = RacesOf(readers[l], l, i)
  BY <1>3 DEF KeptFor
<1>5. Reportable(first)
  BY <1>1, <1>3, RacesOfKept
<1>6. Reportable(second)
  BY <1>1, <1>3, RacesOfKept
<1>7. WellKept(races_found') /\ duplicated_races' \in Nat
  BY <1>1, <1>2, <1>4, <1>5, <1>6, ReportsKept
<1>8. QED
  BY <1>1, <1>2, <1>7, AccessStep DEF Accesses

\* A block that malloc returns: the entry is erased, or the object is stale
\* if there was one.
LEMMA MallocStep ==
  ASSUME FrameInv, MemInv, NEW l \in Locs, malloc(l)
  PROVE  MemInv' /\ UNCHANGED vars
<1>1. ShadowOK /\ l \in HeapLocs
  BY MemInvParts DEF malloc
<1>2. /\ UNCHANGED <<vars, reportVars>> /\ TickAccess
      /\ hist' = [hist EXCEPT ![l] = {}]
      /\ raced' = [raced EXCEPT ![l] = FALSE] /\ reported' = [reported EXCEPT ![l] = FALSE]
      /\ stale' = [stale EXCEPT ![l] = ~should_check /\ (readers[l] # NULL \/ writers[l] # NULL)]
      /\ \/ UNCHANGED shadowVars
         \/ readers' = [readers EXCEPT ![l] = NULL] /\ writers' = [writers EXCEPT ![l] = NULL]
      /\ should_check =>
           readers' = [readers EXCEPT ![l] = NULL] /\ writers' = [writers EXCEPT ![l] = NULL]
  BY DEF malloc, clear_shadow_memory
<1>3. MemTypeOK'
  <2>1. readers' \in [Locs -> Accs \cup {NULL}] /\ writers' \in [Locs -> Accs \cup {NULL}]
    BY <1>2, MemInvParts DEF shadowVars
  <2>2. hist' \in [Locs -> SUBSET [strand : Strands, is_read : BOOLEAN]] /\ accesses' \in Nat
    BY <1>2, MemInvParts DEF TickAccess
  <2>3. raced' \in [Locs -> BOOLEAN] /\ reported' \in [Locs -> BOOLEAN]
    BY <1>2, MemInvParts
  <2>4. stale' \in [Locs -> BOOLEAN]
    <3>1. (~should_check /\ (readers[l] # NULL \/ writers[l] # NULL)) \in BOOLEAN
      OBVIOUS
    <3>2. stale \in [Locs -> BOOLEAN]
      BY MemInvParts
    <3>3. QED
      BY <1>2, <3>1, <3>2, Zenon
  <2>5. QED
    BY <1>2, <2>1, <2>2, <2>3, <2>4 DEF MemInv, MemTypeOK, reportVars
<1>4. RacesKeyed' /\ RacesFoundAreDistinct'
  BY <1>2 DEF MemInv, RacesKeyed, RacesFoundAreDistinct, reportVars
<1>5. /\ hist'[l] = {} /\ raced'[l] = FALSE /\ reported'[l] = FALSE
      /\ \A m \in Locs : m # l => /\ hist'[m] = hist[m] /\ raced'[m] = raced[m]
                                  /\ reported'[m] = reported[m] /\ stale'[m] = stale[m]
  BY <1>2, MemInvParts
<1>6. RaceReportedIffRaceExists' /\ NoRaceMissed'
  BY <1>5 DEF MemInv, RaceReportedIffRaceExists, NoRaceMissed, Locs
<1>7. ASSUME NEW m \in Locs, NEW b \in BOOLEAN, NEW kept, kept = KeptFor(m, b)'
      PROVE  Kept(kept, m, b)'
  <2>1. kept = KeptFor(m, b) \/ kept = NULL
    BY <1>2, <1>7, MemInvParts DEF shadowVars, KeptFor
  <2>2. Kept(KeptFor(m, b), m, b)
    BY <1>1, KeptForOK
  <2>3. Known(kept)'
    BY <1>2, <2>1, <2>2, OrderStays DEF Kept, Known
  <2>4. CASE m = l
    <3>1. Same(m, b)' = {}
      BY <1>5, <2>4 DEF Same
    <3>2. Covers(kept, m, b)'
      BY <3>1 DEF Covers
    <3>3. ~stale'[m] => kept = NULL
      <4>1. stale'[l] = (~should_check /\ (readers[l] # NULL \/ writers[l] # NULL))
        BY <1>2, MemInvParts
      <4>2. CASE should_check
        BY <1>2, <1>7, <2>4, <4>2, MemInvParts DEF KeptFor
      <4>3. CASE ~should_check
        BY <1>2, <1>7, <2>1, <2>4, <4>1, <4>3 DEF KeptFor
      <4>4. QED
        BY <4>2, <4>3
    <3>4. Fresh(kept, m, b)'
      BY <3>3 DEF Fresh
    <3>5. QED
      BY <2>3, <3>2, <3>4 DEF Kept
  <2>5. CASE m # l
    <3>1. Same(m, b)' = Same(m, b) /\ stale'[m] = stale[m]
      BY <1>5, <2>5 DEF Same
    <3>2. kept = KeptFor(m, b)
      BY <1>2, <1>7, <2>5, MemInvParts DEF shadowVars, KeptFor
    <3>3. Covers(kept, m, b)'
      BY <1>2, <2>2, <3>1, <3>2, OrderStays DEF Kept, Covers, is_on_stack
    <3>4. Fresh(kept, m, b)'
      BY <1>2, <2>2, <3>1, <3>2, OrderStays DEF Kept, Fresh
    <3>5. QED
      BY <2>3, <3>3, <3>4 DEF Kept
  <2>6. QED
    BY <2>4, <2>5
<1>8. ShadowInv'
  <2>1. ASSUME NEW m \in Locs, NEW a \in hist'[m] PROVE a.strand \in 1 .. nstrands'
    BY <1>1, <1>2, <1>5, <2>1, OrderStays DEF ShadowOK, ShadowInv
  <2>2. ASSUME NEW m \in Locs, NEW b \in BOOLEAN PROVE Kept(KeptFor(m, b), m, b)'
    <3>1. PICK kept : kept = KeptFor(m, b)'
      OBVIOUS
    <3>2. Kept(kept, m, b)'
      BY <1>7, <3>1
    <3>3. QED
      BY <3>1, <3>2 DEF Kept, Known, Covers, Fresh
  <2>3. QED
    BY <2>1, <2>2 DEF ShadowInv
<1>9. QED
  BY <1>2, <1>3, <1>4, <1>6, <1>8 DEF MemInv

\* A handler: the order of the bags is kept, and a function that enters finds
\* no access to its frame.
LEMMA EventStep ==
  ASSUME FrameInv, MemInv, Event
  PROVE  MemInv'
<1>0. PICK fresh : fresh = {l \in StackLocs : prog_depth' > prog_depth /\ l = prog_depth'}
  OBVIOUS
<1>1. /\ Next /\ UNCHANGED <<readers, writers, reportVars, accesses, stale>>
      /\ hist' = [l \in Locs |-> IF l \in fresh THEN {} ELSE hist[l]]
      /\ raced' = [l \in Locs |-> raced[l] /\ l \notin fresh]
      /\ reported' = [l \in Locs |-> reported[l] /\ l \notin fresh]
  BY <1>0 DEF Event, shadowVars
<1>2. /\ ShadowOK /\ StackInv /\ RspTyped /\ StackPointers /\ ~Die
      /\ prog_depth \in Nat
  BY <1>1, MemInvParts, FrameParts, FrameStep, EntryRanges DEF FrameInv
<1>3. MemTypeOK'
  <2>1. /\ hist' \in [Locs -> SUBSET [strand : Strands, is_read : BOOLEAN]]
        /\ raced' \in [Locs -> BOOLEAN] /\ reported' \in [Locs -> BOOLEAN]
    BY <1>1, MemInvParts
  <2>2. QED
    BY <1>1, <2>1 DEF MemInv, MemTypeOK, reportVars
<1>4. RacesKeyed' /\ RacesFoundAreDistinct'
  BY <1>1 DEF MemInv, RacesKeyed, RacesFoundAreDistinct, reportVars
<1>5. ASSUME NEW l \in HeapLocs PROVE l \in Locs /\ l \notin fresh
  <2>1. l \notin Int /\ StackLocs \subseteq Entries
    BY LocsAssumption
  <2>2. \A i \in Entries : i \in Int
    BY BoundsAssumption DEF Entries
  <2>3. QED
    BY <1>0, <2>1, <2>2 DEF Locs
<1>6. RaceReportedIffRaceExists' /\ NoRaceMissed'
  BY <1>1, <1>5 DEF MemInv, RaceReportedIffRaceExists, NoRaceMissed
<1>7. ASSUME NEW l \in Locs, l \notin fresh, Accessible(l)' PROVE Accessible(l)
  <2>1. is_on_stack(l) => l \in Int /\ l <= prog_depth'
    BY <1>7, LocsAssumption, BoundsAssumption DEF Accessible, is_on_stack, Entries
  <2>2. \/ prog_depth' = prog_depth \/ prog_depth' = prog_depth - 1
        \/ prog_depth' = prog_depth + 1
    BY <1>1, DepthStep
  <2>3. is_on_stack(l) => l <= prog_depth
    BY <1>0, <1>2, <1>7, <2>1, <2>2 DEF is_on_stack
  <2>4. QED
    BY <2>3 DEF Accessible
<1>8. ASSUME NEW l \in Locs, NEW b \in BOOLEAN, NEW kept, kept = KeptFor(l, b)'
      PROVE  Kept(kept, l, b)'
  <2>1. kept = KeptFor(l, b)
    BY <1>1, <1>8 DEF KeptFor
  <2>2. Kept(kept, l, b)
    BY <1>2, <2>1, KeptForOK
  <2>3. \A s \in 1 .. nstrands : s \in 1 .. nstrands' /\ owner'[s] = owner[s]
    BY <1>1, StrandsStay
  <2>4. Known(kept)'
    BY <2>2, <2>3 DEF Kept, Known
  <2>5. \A a \in Same(l, b) : a.strand \in 1 .. nstrands
    BY <1>2 DEF ShadowOK, ShadowInv, Same
  <2>6. Fresh(kept, l, b)'
    <3>1. l \in HeapLocs => Same(l, b)' = Same(l, b)
      BY <1>1, <1>5 DEF Same
    <3>2. QED
      BY <1>1, <2>2, <2>3, <2>5, <3>1 DEF Kept, Fresh
  <2>7. Covers(kept, l, b)'
    <3> SUFFICES ASSUME Accessible(l)', Same(l, b)' # {}
                 PROVE  /\ kept # NULL
                        /\ \E s \in 1 .. nstrands' :
                             /\ kept.func = owner'[s]
                             /\ \A a \in Same(l, b)' : Over(s, a.strand)'
                             /\ is_on_stack(l) => Within(s, l)'
      BY DEF Covers, is_on_stack
    <3>1. l \notin fresh /\ Same(l, b)' = Same(l, b)
      BY <1>1 DEF Same
    <3>2. Accessible(l)
      BY <1>7, <3>1
    <3>3. PICK s \in 1 .. nstrands :
            /\ kept # NULL /\ kept.func = owner[s]
            /\ \A a \in Same(l, b) : Over(s, a.strand)
            /\ is_on_stack(l) => Within(s, l)
      BY <2>2, <3>1, <3>2 DEF Kept, Covers
    <3>4. \A a \in Same(l, b) : Over(s, a.strand)'
      BY <1>1, <1>2, <2>5, <3>3, OverStep
    <3>5. is_on_stack(l) => Within(s, l)'
      <4>1. is_on_stack(l) => l <= prog_depth
        BY <3>2 DEF Accessible
      <4>2. QED
        BY <1>1, <1>2, <3>3, <4>1, OverStep
    <3>6. QED
      BY <2>3, <3>1, <3>3, <3>4, <3>5
  <2>8. QED
    BY <2>4, <2>6, <2>7 DEF Kept
<1>9. ShadowInv'
  <2>1. ASSUME NEW m \in Locs, NEW a \in hist'[m] PROVE a.strand \in 1 .. nstrands'
    <3>1. a \in hist[m]
      BY <1>1, <2>1
    <3>2. QED
      BY <1>1, <1>2, <3>1, StrandsStay DEF ShadowOK, ShadowInv
  <2>2. ASSUME NEW m \in Locs, NEW b \in BOOLEAN PROVE Kept(KeptFor(m, b), m, b)'
    <3>1. PICK kept : kept = KeptFor(m, b)'
      OBVIOUS
    <3>2. Kept(kept, m, b)'
      BY <1>8, <3>1
    <3>3. QED
      BY <3>1, <3>2 DEF Kept, Known, Covers, Fresh
  <2>3. QED
    BY <2>1, <2>2 DEF ShadowInv
<1>10. QED
  BY <1>3, <1>4, <1>6, <1>9 DEF MemInv

\* The memory starts with its invariant.
LEMMA InitMem == Init /\ MemInit => MemInv
<1> SUFFICES ASSUME Init, MemInit PROVE MemInv
  OBVIOUS
<1>1. MemTypeOK /\ RacesKeyed /\ RacesFoundAreDistinct
  BY DEF MemInit, MemTypeOK, RacesKeyed, RacesFoundAreDistinct
<1>2. \A l \in Locs : hist[l] = {} /\ raced[l] = FALSE /\ reported[l] = FALSE
  BY DEF MemInit
<1>3. RaceReportedIffRaceExists /\ NoRaceMissed
  BY <1>2 DEF RaceReportedIffRaceExists, NoRaceMissed, Locs
<1>4. ASSUME NEW l \in Locs, NEW b \in BOOLEAN PROVE Kept(KeptFor(l, b), l, b)
  <2>1. KeptFor(l, b) = NULL /\ Same(l, b) = {}
    BY <1>2 DEF MemInit, KeptFor, Same
  <2>2. QED
    BY <2>1 DEF Kept, Known, Covers, Fresh
<1>5. QED
  BY <1>1, <1>2, <1>3, <1>4 DEF MemInv, ShadowInv

\* Every step of the program with its memory operations.
LEMMA MemStep ==
  ASSUME FrameInv, MemInv, [MemNext]_allVars
  PROVE  FrameInv' /\ MemInv'
<1>1. CASE Event
  BY <1>1, EventStep, FrameStep DEF Event
<1>2. ASSUME NEW l \in Locs,
             \/ \E i \in ReadInsts : tsan_read(l, i)
             \/ \E i \in WriteInsts : tsan_write(l, i)
             \/ malloc(l)
      PROVE  FrameInv' /\ MemInv'
  BY <1>2, ReadStep, WriteStep, MallocStep, FrameStep
<1>3. CASE UNCHANGED allVars
  <2>1. FrameInv' /\ UNCHANGED vars
    BY <1>3, FrameStep DEF allVars
  <2>2. ShadowInv'
    <3>1. ASSUME NEW m \in Locs, NEW b \in BOOLEAN, NEW kept, kept = KeptFor(m, b)'
          PROVE  Kept(kept, m, b)'
      <4>1. kept = KeptFor(m, b) /\ Same(m, b)' = Same(m, b) /\ UNCHANGED stale
        BY <1>3, <3>1 DEF KeptFor, Same, allVars, memVars, shadowVars, histVars
      <4>2. Kept(kept, m, b)
        BY <4>1, MemInvParts, KeptForOK
      <4>3. QED
        BY <2>1, <4>1, <4>2, KeptStays
    <3>2. ASSUME NEW m \in Locs, NEW b \in BOOLEAN PROVE Kept(KeptFor(m, b), m, b)'
      <4>1. PICK kept : kept = KeptFor(m, b)'
        OBVIOUS
      <4>2. Kept(kept, m, b)'
        BY <3>1, <4>1
      <4>3. QED
        BY <4>1, <4>2 DEF Kept, Known, Covers, Fresh
    <3>3. QED
      BY <1>3, <2>1, <3>2, OrderStays DEF MemInv, ShadowInv, allVars, memVars, histVars
  <2>3. QED
    BY <1>3, <2>1, <2>2
       DEF MemInv, MemTypeOK, RacesKeyed, RacesFoundAreDistinct, RaceReportedIffRaceExists,
           NoRaceMissed, allVars, memVars, shadowVars, reportVars, histVars
<1>4. QED
  BY <1>1, <1>2, <1>3 DEF MemNext

\* The inductive invariant of the composition holds in every state.
LEMMA MemInductive == MemSpec => [](FrameInv /\ MemInv)
<1>1. Init /\ MemInit => FrameInv /\ MemInv
  BY InitFrame, InitMem
<1>2. FrameInv /\ MemInv /\ [MemNext]_allVars => FrameInv' /\ MemInv'
  BY MemStep
<1>3. QED
  BY <1>1, <1>2, PTL DEF MemSpec

-----------------------------------------------------------------------------
\* The guarantee of SP-bags, with one reader and one writer kept for each
\* location: at a heap location a race is reported exactly when two checked
\* accesses of the object there, one of them a write, are logically parallel.
\* check_races_and_update_with_read and _with_write may forget every access
\* they replace, and every one they do not keep.
THEOREM RaceReportedIffRaceExistsInv == MemSpec => []RaceReportedIffRaceExists
<1>1. MemInv => RaceReportedIffRaceExists
  BY DEF MemInv
<1>2. QED
  BY <1>1, MemInductive, PTL

\* No race is missed at any location: not on the stack, where an access made
\* below the recorded stack pointer is passed over as one to a dead frame,
\* and not of a heap object that lies over an entry that was not erased.
THEOREM NoRaceMissedInv == MemSpec => []NoRaceMissed
<1>1. MemInv => NoRaceMissed
  BY DEF MemInv
<1>2. QED
  BY <1>1, MemInductive, PTL

\* report_race keeps a pair of instructions once, in whichever order the two
\* accesses came, though it looks under one key of the multimap only.
THEOREM RacesFoundAreDistinctInv == MemSpec => []RacesFoundAreDistinct
<1>1. MemInv => RacesFoundAreDistinct
  BY DEF MemInv
<1>2. QED
  BY <1>1, MemInductive, PTL

\* The shadow memory names bags and instructions that exist.
THEOREM MemTypeCorrect == MemSpec => []MemTypeOK
<1>1. MemInv => MemTypeOK
  BY DEF MemInv
<1>2. QED
  BY <1>1, MemInductive, PTL

\* check_invariants never fails of an access kept, however long ago it was
\* made, nor does any other assertion while memory is accessed.
THEOREM MemNoAssertionFails == MemSpec => []NoAssertionFails
<1>1. FrameInv => NoAssertionFails
  BY DEF FrameInv, SafeInv, NoAssertionFails
<1>2. QED
  BY <1>1, MemInductive, PTL

=============================================================================
