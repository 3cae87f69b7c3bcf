---------------------------- MODULE CilkSanProofs ----------------------------
(***************************************************************************)
(* SP-bags, for every program and every bound: the bag cilksan finds for a *)
(* strand is an S-bag exactly when the strand precedes the running one.    *)
(*                                                                         *)
(* The inductive invariant says where the bag of every strand is: in the   *)
(* S-bag of some level of frame_stack, and then the strand precedes what   *)
(* that frame and every frame above it execute; or in a P-bag, and then it *)
(* precedes none of them and the next sync of that frame joins it.         *)
(*                                                                         *)
(* A second invariant, further down, ties frame_stack to entry_stack and   *)
(* the deque; no assertion fails, and what is printed is complete.         *)
(***************************************************************************)
EXTENDS CilkSan, TLAPS, FiniteSetTheorems

rep(s) == set_node[owner[s]]
Depth == 0 .. frame_head

\* The bags of the frames are distinct sets of the right kind, each known by
\* its own node, and no node that has not been created is in any of them.
BagsDistinct ==
  /\ \A k \in Depth : /\ Sbag[k] \in 1 .. dset_size
                      /\ set_node[Sbag[k]] = Sbag[k] /\ kind[Sbag[k]] = "S"
  /\ \A k \in Levels : Pbag[k] # NULL =>
       /\ k \in Depth /\ Pbag[k] \in 1 .. dset_size
       /\ set_node[Pbag[k]] = Pbag[k] /\ kind[Pbag[k]] = "P"
  /\ \A j, k \in Depth : j # k =>
       /\ Sbag[j] # Sbag[k]
       /\ Pbag[j] # NULL => Pbag[j] # Pbag[k]

NodesInUse ==
  /\ \A n \in Nodes : IF n <= dset_size THEN set_node[n] \in 1 .. dset_size
                                        ELSE set_node[n] = n
  /\ \A s \in 1 .. nstrands : owner[s] \in 1 .. dset_size
  /\ \A k \in Depth : past[k] \subseteq 1 .. nstrands /\ joined[k] \subseteq 1 .. nstrands

\* Strand s is in the S-bag of level k: it precedes levels k and above.
SerialAt(s, k) ==
  /\ rep(s) = Sbag[k]
  /\ \A j \in Depth : (s \in past[j] <=> k <= j) /\ (s \in joined[j] => k <= j)

\* Strand s is in the P-bag of level k, whose next sync joins it.
ParallelAt(s, k) ==
  /\ rep(s) = Pbag[k]
  /\ \A j \in Depth : s \notin past[j] /\ (s \in joined[j] <=> j = k)

StrandsPlaced ==
  \A s \in 1 .. nstrands : \E k \in Depth : SerialAt(s, k) \/ ParallelAt(s, k)

\* The entry and the program's call are pushed and popped together.
EntriesMatch ==
  /\ entry_head = prog_depth
  /\ \A i \in 0 .. entry_head :
       entry_type[i] = "HELPER" <=> prog[i] \in {"helper", "spawned"}

BagInv == BagsDistinct /\ NodesInUse /\ StrandsPlaced

IInv == TypeOK /\ EntriesMatch /\ BagInv

-----------------------------------------------------------------------------
(***************************************************************************)
(* The bags, step by step.                                                 *)
(***************************************************************************)
\* The part of TypeOK the bags need.
BagTyped ==
  /\ frame_head \in Levels /\ dset_size \in Nodes /\ nstrands \in Strands
  /\ Sbag \in [Levels -> Nodes \cup {NULL}] /\ Pbag \in [Levels -> Nodes \cup {NULL}]
  /\ kind \in [Nodes -> {"S", "P"}] /\ set_node \in [Nodes -> Nodes]
  /\ owner \in [Strands -> Nodes]
  /\ past \in [Levels -> SUBSET Strands] /\ joined \in [Levels -> SUBSET Strands]

\* The ranges the bounds stand for.
LEMMA Ranges ==
  ASSUME BagTyped
  PROVE  /\ frame_head \in Nat /\ MaxFrames \in Nat /\ frame_head <= MaxFrames
         /\ dset_size \in Nat /\ MaxNodes \in Nat /\ 1 <= dset_size /\ dset_size <= MaxNodes
         /\ nstrands \in Nat /\ MaxStrands \in Nat /\ 1 <= nstrands /\ nstrands <= MaxStrands
         /\ frame_head \in Depth /\ Depth \subseteq Levels
         /\ 1 .. dset_size \subseteq Nodes /\ 1 .. nstrands \subseteq Strands
         /\ NULL \notin Nodes
<1>1. MaxFrames \in Nat /\ MaxNodes \in Nat /\ MaxStrands \in Nat /\ NULL \notin Nodes
  BY BoundsAssumption DEF Nodes
<1>2. frame_head \in 0 .. MaxFrames /\ dset_size \in 1 .. MaxNodes /\ nstrands \in 1 .. MaxStrands
  BY DEF BagTyped, Levels, Nodes, Strands
<1>3. frame_head \in Depth /\ Depth \subseteq Levels
  BY <1>1, <1>2 DEF Depth, Levels
<1>4. 1 .. dset_size \subseteq Nodes /\ 1 .. nstrands \subseteq Strands
  BY <1>1, <1>2 DEF Nodes, Strands
<1>5. QED
  BY <1>1, <1>2, <1>3, <1>4

\* A function is entered: the S-bag sbag is created, above the head, and the
\* parent's P-bag is pbag, which may be new.
EntersFrame(sbag, pbag) ==
  /\ frame_head < MaxFrames /\ nstrands < MaxStrands
  /\ sbag \in Nodes /\ dset_size < sbag /\ dset_size' = sbag
  /\ \/ pbag = Pbag[frame_head]
     \/ Pbag[frame_head] = NULL /\ pbag \in Nodes /\ dset_size < pbag /\ pbag < sbag
  /\ Pbag' = [Pbag EXCEPT ![frame_head] = pbag]
  /\ kind'[sbag] = "S" /\ (pbag # NULL => kind'[pbag] = "P")
  /\ \A n \in 1 .. dset_size : n # pbag => kind'[n] = kind[n]
  /\ set_node' = set_node
  /\ frame_head' = frame_head + 1
  /\ Sbag' = [Sbag EXCEPT ![frame_head + 1] = sbag]
  /\ FirstStrandOfChild(sbag)

\* Entering a frame, with new bags above the head, keeps the bags' invariant.
LEMMA EntersFrameInv ==
  ASSUME BagTyped, BagInv, NEW sbag, NEW pbag, EntersFrame(sbag, pbag)
  PROVE  BagInv'
<1>0. PICK h, c, s : h = frame_head /\ c = frame_head + 1 /\ s = nstrands + 1
  OBVIOUS
<1>1. /\ h \in Levels /\ c \in Levels /\ h \in Depth /\ c \notin Depth
      /\ Depth \subseteq Levels /\ Depth' = Depth \cup {c} /\ \A k \in Depth : k <= c /\ ~(c <= k)
  BY <1>0, Ranges DEF EntersFrame, Depth, Levels
<1>2. /\ s \in Strands /\ nstrands' = s /\ s \notin 1 .. nstrands
      /\ 1 .. nstrands \subseteq Strands /\ (1 .. nstrands)' = (1 .. nstrands) \cup {s}
  BY <1>0, Ranges DEF EntersFrame, FirstStrandOfChild, Strands
<1>3. /\ sbag \in Nodes /\ sbag \notin 1 .. dset_size
      /\ 1 .. dset_size \subseteq Nodes /\ dset_size' = sbag /\ sbag \in 1 .. dset_size'
      /\ 1 .. dset_size \subseteq 1 .. dset_size'
      /\ sbag # NULL
  BY Ranges DEF EntersFrame, Nodes
<1>4. /\ Sbag'[c] = sbag /\ \A k \in Depth : Sbag'[k] = Sbag[k]
      /\ Pbag'[h] = pbag /\ \A k \in Levels : k # h => Pbag'[k] = Pbag[k]
      /\ set_node' = set_node
  BY <1>0, <1>1 DEF EntersFrame, BagTyped
<1>5. /\ past'[c] = past[h] \cup {s} /\ \A k \in Depth : past'[k] = past[k]
      /\ joined'[c] = {} /\ \A k \in Depth : joined'[k] = joined[k]
      /\ owner'[s] = sbag /\ \A t \in 1 .. nstrands : owner'[t] = owner[t]
  BY <1>0, <1>1, <1>2 DEF EntersFrame, FirstStrandOfChild, BagTyped
<1>6. set_node[sbag] = sbag
  BY <1>3, Ranges DEF BagInv, NodesInUse, Nodes
<1>7. \/ pbag = Pbag[h]
      \/ /\ Pbag[h] = NULL /\ pbag \in Nodes /\ pbag \notin 1 .. dset_size
         /\ pbag \in 1 .. dset_size' /\ pbag # sbag /\ set_node[pbag] = pbag
  BY <1>0, Ranges DEF EntersFrame, BagInv, NodesInUse, Nodes
<1>8. BagsDistinct'
  <2>1. ASSUME NEW k \in Depth'
        PROVE  /\ Sbag'[k] \in 1 .. dset_size'
               /\ set_node'[Sbag'[k]] = Sbag'[k] /\ kind'[Sbag'[k]] = "S"
    <3>1. CASE k = c
      BY <1>3, <1>4, <1>6, <3>1 DEF EntersFrame
    <3>2. CASE k \in Depth
      <4>1. /\ Sbag[k] \in 1 .. dset_size /\ set_node[Sbag[k]] = Sbag[k]
            /\ kind[Sbag[k]] = "S" /\ Sbag[k] # pbag
        BY <1>1, <1>7, <3>2, Ranges DEF BagInv, BagsDistinct
      <4>2. QED
        BY <1>3, <1>4, <3>2, <4>1 DEF EntersFrame
    <3>3. QED
      BY <1>1, <3>1, <3>2
  <2>2. ASSUME NEW k \in Levels, Pbag'[k] # NULL
        PROVE  /\ k \in Depth' /\ Pbag'[k] \in 1 .. dset_size'
               /\ set_node'[Pbag'[k]] = Pbag'[k] /\ kind'[Pbag'[k]] = "P"
    <3>1. CASE k # h
      <4>1. Pbag'[k] = Pbag[k] /\ Pbag[k] # NULL
        BY <1>4, <2>2, <3>1
      <4>2. /\ k \in Depth /\ Pbag[k] \in 1 .. dset_size
            /\ set_node[Pbag[k]] = Pbag[k] /\ kind[Pbag[k]] = "P"
        BY <4>1 DEF BagInv, BagsDistinct
      <4>3. Pbag[k] # pbag
        BY <1>1, <1>7, <3>1, <4>1, <4>2 DEF BagInv, BagsDistinct
      <4>4. QED
        BY <1>1, <1>3, <1>4, <4>1, <4>2, <4>3 DEF EntersFrame
    <3>2. CASE k = h /\ pbag = Pbag[h]
      BY <1>1, <1>3, <1>4, <2>2, <3>2 DEF EntersFrame, BagInv, BagsDistinct
    <3>3. CASE k = h /\ pbag # Pbag[h]
      BY <1>1, <1>4, <1>7, <2>2, <3>3 DEF EntersFrame
    <3>4. QED
      BY <3>1, <3>2, <3>3
  <2>3. ASSUME NEW j \in Depth', NEW k \in Depth', j # k
        PROVE  Sbag'[j] # Sbag'[k] /\ (Pbag'[j] # NULL => Pbag'[j] # Pbag'[k])
    <3>1. Sbag'[j] # Sbag'[k]
      BY <1>1, <1>3, <1>4, <2>3 DEF BagInv, BagsDistinct
    <3>2. Pbag'[c] = NULL
      <4>1. c # h /\ Pbag'[c] = Pbag[c]
        BY <1>1, <1>4
      <4>2. QED
        BY <1>1, <4>1 DEF BagInv, BagsDistinct
    <3>3. \A i \in Depth : i # h => Pbag'[i] = Pbag[i] /\ (Pbag[i] # NULL => Pbag[i] # pbag)
      BY <1>1, <1>4, <1>7 DEF BagInv, BagsDistinct
    <3>4. Pbag'[j] # NULL => Pbag'[j] # Pbag'[k]
      BY <1>1, <1>4, <2>3, <3>2, <3>3 DEF BagInv, BagsDistinct
    <3>5. QED
      BY <3>1, <3>4
  <2>4. QED
    BY <2>1, <2>2, <2>3 DEF BagsDistinct
<1>9. NodesInUse'
  <2>1. ASSUME NEW n \in Nodes
        PROVE  IF n <= dset_size' THEN set_node'[n] \in 1 .. dset_size' ELSE set_node'[n] = n
    <3>1. CASE n <= dset_size
      BY <1>3, <1>4, <3>1, Ranges DEF BagInv, NodesInUse, Nodes
    <3>2. CASE dset_size < n
      BY <1>3, <1>4, <3>2, Ranges DEF BagInv, NodesInUse, Nodes
    <3>3. QED
      BY <3>1, <3>2, Ranges DEF Nodes
  <2>2. ASSUME NEW t \in (1 .. nstrands)' PROVE owner'[t] \in 1 .. dset_size'
    BY <1>2, <1>3, <1>5 DEF BagInv, NodesInUse
  <2>3. ASSUME NEW k \in Depth'
        PROVE  past'[k] \subseteq (1 .. nstrands)' /\ joined'[k] \subseteq (1 .. nstrands)'
    BY <1>1, <1>2, <1>5 DEF BagInv, NodesInUse
  <2>4. QED
    BY <2>1, <2>2, <2>3 DEF NodesInUse
<1>10. StrandsPlaced'
  <2>1. ASSUME NEW t \in 1 .. nstrands
        PROVE  \E k \in Depth' : SerialAt(t, k)' \/ ParallelAt(t, k)'
    <3>0. t # s /\ owner[t] \in 1 .. dset_size /\ rep(t)' = rep(t) /\ rep(t) \in 1 .. dset_size
      BY <1>2, <1>3, <1>4, <1>5, Ranges DEF BagInv, NodesInUse, rep, Nodes
    <3>1. PICK k \in Depth : SerialAt(t, k) \/ ParallelAt(t, k)
      BY DEF BagInv, StrandsPlaced
    <3>2. k \in Depth' /\ k <= h /\ k <= c
      BY <1>0, <1>1, <3>1 DEF Depth
    <3>3. CASE SerialAt(t, k)
      <4>1. rep(t)' = Sbag'[k]
        BY <1>4, <3>0, <3>1, <3>3 DEF SerialAt
      <4>2. ASSUME NEW j \in Depth'
            PROVE  (t \in past'[j] <=> k <= j) /\ (t \in joined'[j] => k <= j)
        BY <1>1, <1>5, <3>0, <3>2, <3>3 DEF SerialAt
      <4>3. SerialAt(t, k)'
        BY <4>1, <4>2 DEF SerialAt
      <4>4. QED
        BY <3>2, <4>3
    <3>4. CASE ParallelAt(t, k)
      <4>1. Pbag[k] # NULL /\ Pbag'[k] = Pbag[k]
        BY <1>0, <1>1, <1>4, <1>7, <3>0, <3>1, <3>4, Ranges DEF ParallelAt
      <4>2. rep(t)' = Pbag'[k]
        BY <3>0, <3>4, <4>1 DEF ParallelAt
      <4>3. ASSUME NEW j \in Depth'
            PROVE  t \notin past'[j] /\ (t \in joined'[j] <=> j = k)
        BY <1>1, <1>5, <3>0, <3>1, <3>4 DEF ParallelAt
      <4>4. ParallelAt(t, k)'
        BY <4>2, <4>3 DEF ParallelAt
      <4>5. QED
        BY <3>2, <4>4
    <3>5. QED
      BY <3>1, <3>3, <3>4
  <2>2. SerialAt(s, c)'
    <3>1. rep(s)' = Sbag'[c]
      BY <1>4, <1>5, <1>6 DEF rep
    <3>2. \A j \in Depth : s \notin past[j] /\ s \notin joined[j]
      BY <1>2 DEF BagInv, NodesInUse
    <3>3. ASSUME NEW j \in Depth'
          PROVE  (s \in past'[j] <=> c <= j) /\ (s \in joined'[j] => c <= j)
      <4>1. CASE j \in Depth
        BY <1>1, <1>5, <3>2, <4>1
      <4>2. CASE j = c
        <5>1. c <= c /\ s \in past'[c] /\ s \notin joined'[c]
          BY <1>0, <1>5, Ranges
        <5>2. QED
          BY <4>2, <5>1
      <4>3. QED
        BY <1>1, <4>1, <4>2
    <3>4. QED
      BY <3>1, <3>3 DEF SerialAt
  <2>3. QED
    BY <1>1, <1>2, <2>1, <2>2 DEF StrandsPlaced
<1>11. QED
  BY <1>8, <1>9, <1>10 DEF BagInv

\* No S-bag of a frame is a P-bag of a frame.
LEMMA SbagsAreNotPbags ==
  ASSUME BagTyped, BagInv
  PROVE  \A j, k \in Depth : Sbag[j] # Pbag[k] /\ Sbag[j] # NULL
<1> SUFFICES ASSUME NEW j \in Depth, NEW k \in Depth PROVE Sbag[j] # Pbag[k] /\ Sbag[j] # NULL
  OBVIOUS
<1>1. k \in Levels /\ Sbag[j] \in 1 .. dset_size /\ kind[Sbag[j]] = "S" /\ Sbag[j] # NULL
  BY Ranges DEF BagInv, BagsDistinct
<1>2. QED
  BY <1>1 DEF BagInv, BagsDistinct

\* The set of b, a bag that no frame will have any longer, may join the set
\* of a; the program goes on at level top in a new strand that follows preds.
Continues(top, preds, a, b) ==
  /\ nstrands < MaxStrands
  /\ NextStrandAt(top, preds)
  /\ frame_head' = top /\ dset_size' = dset_size /\ kind' = kind
  /\ \A n \in Nodes : set_node'[n] = IF set_node[n] = b THEN a ELSE set_node[n]
  /\ \A k \in 0 .. top : Sbag'[k] = Sbag[k] /\ Sbag[k] # b
  /\ \A k \in Levels : \/ Pbag'[k] = NULL
                       \/ Pbag'[k] = Pbag[k] /\ k <= top /\ Pbag[k] # b
  /\ \A k \in 0 .. top : joined'[k] \subseteq 1 .. nstrands

\* Where the strands executed so far are after the step.
Moved(t, top, preds, k) ==
  \/ /\ set_node'[owner[t]] = Sbag[k]
     /\ t \in preds
     /\ \A j \in 0 .. top : /\ j # top => (t \in past[j] <=> k <= j)
                            /\ t \in joined'[j] => k <= j
  \/ /\ set_node'[owner[t]] = Pbag'[k]
     /\ t \notin preds
     /\ \A j \in 0 .. top : /\ j # top => t \notin past[j]
                            /\ t \in joined'[j] <=> j = k

\* The same for going on in frame top after bag b has been merged into bag a.
LEMMA ContinuesInv ==
  ASSUME BagTyped, BagInv, NEW top \in Depth, NEW preds \in SUBSET (1 .. nstrands),
         NEW a \in 1 .. dset_size, NEW b \in (1 .. dset_size) \cup {NULL},
         Continues(top, preds, a, b),
         \A t \in 1 .. nstrands : \E k \in 0 .. top : Moved(t, top, preds, k)
  PROVE  BagInv'
<1>0. PICK s : s = nstrands + 1
  OBVIOUS
<1>1. /\ top \in Levels /\ top \in 0 .. top /\ 0 .. top \subseteq Depth /\ Depth \subseteq Levels
      /\ Depth' = 0 .. top /\ \A k \in 0 .. top : k <= top
      /\ top \in Nat
  BY Ranges DEF Continues, Depth, Levels
<1>2. /\ s \in Strands /\ nstrands' = s /\ s \notin 1 .. nstrands
      /\ 1 .. nstrands \subseteq Strands /\ (1 .. nstrands)' = (1 .. nstrands) \cup {s}
  BY <1>0, Ranges DEF Continues, NextStrandAt, Strands
<1>3. /\ past'[top] = preds \cup {s} /\ \A k \in Levels : k # top => past'[k] = past[k]
      /\ owner'[s] = Sbag[top] /\ \A t \in 1 .. nstrands : owner'[t] = owner[t]
  BY <1>0, <1>1, <1>2 DEF Continues, NextStrandAt, BagTyped
<1>4. a \in Nodes /\ 1 .. dset_size \subseteq Nodes /\ dset_size' = dset_size /\ kind' = kind
  BY Ranges DEF Continues
<1>5. BagsDistinct'
  <2>1. ASSUME NEW k \in Depth'
        PROVE  /\ Sbag'[k] \in 1 .. dset_size'
               /\ set_node'[Sbag'[k]] = Sbag'[k] /\ kind'[Sbag'[k]] = "S"
    <3>1. /\ Sbag'[k] = Sbag[k] /\ Sbag[k] # b /\ Sbag[k] \in 1 .. dset_size
          /\ set_node[Sbag[k]] = Sbag[k] /\ kind[Sbag[k]] = "S"
      BY <1>1 DEF Continues, BagInv, BagsDistinct
    <3>2. QED
      BY <1>4, <3>1 DEF Continues
  <2>2. ASSUME NEW k \in Levels, Pbag'[k] # NULL
        PROVE  /\ k \in Depth' /\ Pbag'[k] \in 1 .. dset_size'
               /\ set_node'[Pbag'[k]] = Pbag'[k] /\ kind'[Pbag'[k]] = "P"
    <3>1. Pbag'[k] = Pbag[k] /\ k <= top /\ Pbag[k] # b /\ Pbag[k] # NULL
      BY <2>2 DEF Continues
    <3>2. /\ k \in Depth /\ Pbag[k] \in 1 .. dset_size
          /\ set_node[Pbag[k]] = Pbag[k] /\ kind[Pbag[k]] = "P"
      BY <3>1 DEF BagInv, BagsDistinct
    <3>3. k \in 0 .. top
      BY <1>1, <3>1, <3>2, Ranges DEF Depth
    <3>4. QED
      BY <1>1, <1>4, <3>1, <3>2, <3>3 DEF Continues
  <2>3. ASSUME NEW j \in Depth', NEW k \in Depth', j # k
        PROVE  Sbag'[j] # Sbag'[k] /\ (Pbag'[j] # NULL => Pbag'[j] # Pbag'[k])
    <3>1. j \in Depth /\ k \in Depth /\ j \in Levels /\ k \in Levels
      BY <1>1
    <3>2. Sbag'[j] # Sbag'[k]
      BY <1>1, <2>3, <3>1 DEF Continues, BagInv, BagsDistinct
    <3>3. Pbag'[j] # NULL => Pbag'[j] # Pbag'[k]
      BY <2>3, <3>1 DEF Continues, BagInv, BagsDistinct
    <3>4. QED
      BY <3>2, <3>3
  <2>4. QED
    BY <2>1, <2>2, <2>3 DEF BagsDistinct
<1>6. NodesInUse'
  <2>1. ASSUME NEW n \in Nodes
        PROVE  IF n <= dset_size' THEN set_node'[n] \in 1 .. dset_size' ELSE set_node'[n] = n
    <3>1. CASE n <= dset_size
      BY <1>4, <3>1 DEF Continues, BagInv, NodesInUse
    <3>2. CASE ~(n <= dset_size)
      <4>1. set_node[n] = n
        BY <3>2 DEF BagInv, NodesInUse
      <4>2. n # b
        BY <3>2, Ranges DEF Nodes
      <4>3. QED
        BY <1>4, <3>2, <4>1, <4>2 DEF Continues
    <3>3. QED
      BY <3>1, <3>2
  <2>2. ASSUME NEW t \in (1 .. nstrands)' PROVE owner'[t] \in 1 .. dset_size'
    BY <1>1, <1>2, <1>3, <1>4 DEF BagInv, NodesInUse, BagsDistinct
  <2>3. ASSUME NEW k \in Depth'
        PROVE  past'[k] \subseteq (1 .. nstrands)' /\ joined'[k] \subseteq (1 .. nstrands)'
    BY <1>1, <1>2, <1>3 DEF Continues, BagInv, NodesInUse
  <2>4. QED
    BY <2>1, <2>2, <2>3 DEF NodesInUse
<1>7. StrandsPlaced'
  <2>1. ASSUME NEW t \in 1 .. nstrands
        PROVE  \E k \in Depth' : SerialAt(t, k)' \/ ParallelAt(t, k)'
    <3>1. PICK k \in 0 .. top : Moved(t, top, preds, k)
      OBVIOUS
    <3>2. t # s /\ rep(t)' = set_node'[owner[t]]
      BY <1>2, <1>3 DEF rep
    <3>3. k \in Depth' /\ k <= top /\ Sbag'[k] = Sbag[k]
      BY <1>1 DEF Continues
    <3>4. \A j \in Depth' : /\ j = top => (t \in past'[j] <=> t \in preds)
                            /\ j # top => past'[j] = past[j]
      BY <1>1, <1>3, <3>2
    <3>5. SerialAt(t, k)' \/ ParallelAt(t, k)'
      <4>1. CASE /\ set_node'[owner[t]] = Sbag[k]
                 /\ t \in preds
                 /\ \A j \in 0 .. top : /\ j # top => (t \in past[j] <=> k <= j)
                                        /\ t \in joined'[j] => k <= j
        <5>1. ASSUME NEW j \in Depth'
              PROVE  (t \in past'[j] <=> k <= j) /\ (t \in joined'[j] => k <= j)
          BY <1>1, <3>3, <3>4, <4>1
        <5>2. QED
          BY <3>2, <3>3, <4>1, <5>1 DEF SerialAt
      <4>2. CASE /\ set_node'[owner[t]] = Pbag'[k]
                 /\ t \notin preds
                 /\ \A j \in 0 .. top : /\ j # top => t \notin past[j]
                                        /\ t \in joined'[j] <=> j = k
        <5>1. ASSUME NEW j \in Depth'
              PROVE  t \notin past'[j] /\ (t \in joined'[j] <=> j = k)
          BY <1>1, <3>4, <4>2
        <5>2. QED
          BY <3>2, <4>2, <5>1 DEF ParallelAt
      <4>3. QED
        BY <3>1, <4>1, <4>2 DEF Moved
    <3>6. QED
      BY <3>3, <3>5
  <2>2. SerialAt(s, top)'
    <3>1. rep(s)' = Sbag'[top]
      BY <1>1, <1>3, <1>4 DEF rep, Continues, BagInv, BagsDistinct
    <3>2. ASSUME NEW j \in Depth'
          PROVE  (s \in past'[j] <=> top <= j) /\ (s \in joined'[j] => top <= j)
      <4>1. s \notin joined'[j] /\ (j # top => s \notin past'[j])
        BY <1>1, <1>2, <1>3 DEF Continues, BagInv, NodesInUse
      <4>2. s \in past'[top] /\ (top <= j <=> j = top)
        BY <1>1, <1>3
      <4>3. QED
        BY <4>1, <4>2
    <3>3. QED
      BY <3>1, <3>2 DEF SerialAt
  <2>3. QED
    BY <1>1, <1>2, <2>1, <2>2 DEF StrandsPlaced
<1>8. QED
  BY <1>5, <1>6, <1>7 DEF BagInv

-----------------------------------------------------------------------------
(***************************************************************************)
(* A sync and the two kinds of return are such steps.                      *)
(***************************************************************************)
SyncsFrame ==
  /\ nstrands < MaxStrands
  /\ set_node' = IF Pbag[frame_head] = NULL THEN set_node
                 ELSE Combined(Sbag[frame_head], Pbag[frame_head])
  /\ Pbag' = [Pbag EXCEPT ![frame_head] = NULL]
  /\ NextStrandAt(frame_head, past[frame_head] \cup joined[frame_head])
  /\ joined' = [joined EXCEPT ![frame_head] = {}]
  /\ UNCHANGED <<frame_head, Sbag, dset_size, kind>>

\* A sync, which merges a frame's P-bag into its S-bag.
LEMMA SyncsFrameInv ==
  ASSUME BagTyped, BagInv, SyncsFrame
  PROVE  BagInv'
<1>0. PICK h, a, b, preds : /\ h = frame_head /\ a = Sbag[frame_head] /\ b = Pbag[frame_head]
                            /\ preds = past[frame_head] \cup joined[frame_head]
  OBVIOUS
<1>1. /\ h \in Depth /\ h \in Levels /\ 0 .. h = Depth /\ Depth \subseteq Levels
      /\ \A k \in Depth : k <= h
      /\ h \in Nat /\ NULL \notin Nodes /\ 1 .. dset_size \subseteq Nodes
  BY <1>0, Ranges DEF Depth
<1>2. /\ a \in 1 .. dset_size /\ set_node[a] = a /\ a # b
      /\ b = NULL \/ (b \in 1 .. dset_size /\ set_node[b] = b)
      /\ \A k \in Depth : Sbag[k] # b /\ Sbag[k] # NULL
      /\ \A k \in Depth : k # h => Pbag[k] = NULL \/ Pbag[k] # b
  <2>1. a \in 1 .. dset_size /\ set_node[a] = a
    BY <1>0, <1>1 DEF BagInv, BagsDistinct
  <2>2. b = NULL \/ (b \in 1 .. dset_size /\ set_node[b] = b)
    BY <1>0, <1>1 DEF BagInv, BagsDistinct
  <2>3. \A k \in Depth : Sbag[k] # b /\ Sbag[k] # NULL
    BY <1>0, <1>1, SbagsAreNotPbags
  <2>4. \A k \in Depth : k # h => Pbag[k] = NULL \/ Pbag[k] # b
    BY <1>0, <1>1 DEF BagInv, BagsDistinct
  <2>5. QED
    BY <1>0, <1>1, <2>1, <2>2, <2>3, <2>4
<1>3. preds \in SUBSET (1 .. nstrands)
  BY <1>0, <1>1 DEF BagInv, NodesInUse
<1>4. \A n \in Nodes : set_node'[n] = IF set_node[n] = b THEN a ELSE set_node[n]
  <2>1. CASE b = NULL
    BY <1>0, <1>1, <2>1 DEF SyncsFrame, BagTyped
  <2>2. CASE b # NULL
    BY <1>0, <1>1, <1>2, <2>2 DEF SyncsFrame, Combined, BagTyped
  <2>3. QED
    BY <2>1, <2>2
<1>5. /\ Pbag'[h] = NULL /\ \A k \in Levels : k # h => Pbag'[k] = Pbag[k]
      /\ joined'[h] = {} /\ \A k \in Levels : k # h => joined'[k] = joined[k]
  BY <1>0, <1>1 DEF SyncsFrame, BagTyped
<1>6. Continues(h, preds, a, b)
  <2>1. \A k \in Levels : Pbag'[k] = NULL \/ (Pbag'[k] = Pbag[k] /\ k <= h /\ Pbag[k] # b)
    BY <1>1, <1>2, <1>5 DEF BagInv, BagsDistinct
  <2>2. \A k \in 0 .. h : joined'[k] \subseteq 1 .. nstrands
    BY <1>1, <1>5 DEF BagInv, NodesInUse
  <2>3. \A k \in 0 .. h : Sbag'[k] = Sbag[k] /\ Sbag[k] # b
    BY <1>1, <1>2 DEF SyncsFrame
  <2>4. QED
    BY <1>0, <1>4, <2>1, <2>2, <2>3 DEF Continues, SyncsFrame
<1>7. ASSUME NEW t \in 1 .. nstrands PROVE \E k \in 0 .. h : Moved(t, h, preds, k)
  <2>1. owner[t] \in Nodes /\ rep(t) \in Nodes
    BY <1>1 DEF BagInv, NodesInUse, BagTyped, rep
  <2>2. set_node'[owner[t]] = IF rep(t) = b THEN a ELSE rep(t)
    BY <1>4, <2>1 DEF rep
  <2>3. PICK k \in Depth : SerialAt(t, k) \/ ParallelAt(t, k)
    BY DEF BagInv, StrandsPlaced
  <2>4. CASE SerialAt(t, k)
    <3>1. set_node'[owner[t]] = Sbag[k]
      BY <1>2, <2>2, <2>4 DEF SerialAt
    <3>2. t \in preds
      BY <1>0, <1>1, <2>4 DEF SerialAt
    <3>3. ASSUME NEW j \in 0 .. h
          PROVE  (j # h => (t \in past[j] <=> k <= j)) /\ (t \in joined'[j] => k <= j)
      BY <1>1, <1>5, <2>4 DEF SerialAt
    <3>4. QED
      BY <1>1, <3>1, <3>2, <3>3 DEF Moved
  <2>5. CASE ParallelAt(t, k) /\ k = h
    <3>1. set_node'[owner[t]] = Sbag[h]
      BY <1>0, <2>2, <2>5 DEF ParallelAt
    <3>2. t \in preds
      BY <1>0, <1>1, <2>5 DEF ParallelAt
    <3>3. ASSUME NEW j \in 0 .. h
          PROVE  (j # h => (t \in past[j] <=> h <= j)) /\ (t \in joined'[j] => h <= j)
      BY <1>1, <1>5, <2>5 DEF ParallelAt
    <3>4. QED
      BY <1>1, <3>1, <3>2, <3>3 DEF Moved
  <2>6. CASE ParallelAt(t, k) /\ k # h
    <3>1. set_node'[owner[t]] = Pbag'[k]
      BY <1>1, <1>2, <1>5, <2>1, <2>2, <2>3, <2>6 DEF ParallelAt
    <3>2. t \notin preds
      BY <1>0, <1>1, <2>6 DEF ParallelAt
    <3>3. ASSUME NEW j \in 0 .. h
          PROVE  (j # h => t \notin past[j]) /\ (t \in joined'[j] <=> j = k)
      BY <1>1, <1>5, <2>3, <2>6 DEF ParallelAt
    <3>4. QED
      BY <1>1, <3>1, <3>2, <3>3 DEF Moved
  <2>7. QED
    BY <2>3, <2>4, <2>5, <2>6
<1>8. QED
  BY <1>1, <1>2, <1>3, <1>6, <1>7, ContinuesInv

\* A frame is popped and its S-bag joins bag a, one of its parent's.
LeavesFrame(a) ==
  /\ 0 < frame_head /\ nstrands < MaxStrands
  /\ Pbag[frame_head] = NULL /\ a \in Nodes
  /\ set_node' = Combined(a, Sbag[frame_head])
  /\ Sbag' = [Sbag EXCEPT ![frame_head] = NULL]
  /\ frame_head' = frame_head - 1
  /\ UNCHANGED <<Pbag, dset_size, kind>>

\* What leaving a frame does to the levels and sets that are left.
LEMMA LeavesFrameFacts ==
  ASSUME BagTyped, BagInv, NEW a, LeavesFrame(a), NEW p, p = frame_head - 1,
         a = Sbag[p] \/ a = Pbag[p], NEW b, b = Sbag[frame_head]
  PROVE  /\ p \in Nat /\ p \in Depth /\ p \in Levels /\ frame_head = p + 1
         /\ frame_head \in Depth /\ frame_head \in Levels
         /\ 0 .. p \subseteq Depth /\ \A k \in Depth : k \in 0 .. p \/ k = frame_head
         /\ Depth \subseteq Levels
         /\ a \in 1 .. dset_size /\ b \in 1 .. dset_size
         /\ \A n \in Nodes : set_node'[n] = IF set_node[n] = b THEN a ELSE set_node[n]
         /\ \A k \in 0 .. p : Sbag'[k] = Sbag[k] /\ Sbag[k] # b
         /\ \A k \in Levels : Pbag[k] = NULL \/ (k <= p /\ Pbag[k] # b)
         /\ \A t \in 1 .. nstrands :
              /\ rep(t) \in Nodes
              /\ set_node'[owner[t]] = IF rep(t) = b THEN a ELSE rep(t)
<1>1. /\ p \in Nat /\ p \in Depth /\ p \in Levels /\ frame_head = p + 1
      /\ frame_head \in Depth /\ frame_head \in Levels
      /\ 0 .. p \subseteq Depth /\ \A k \in Depth : k \in 0 .. p \/ k = frame_head
      /\ Depth \subseteq Levels /\ \A k \in 0 .. p : k # frame_head
      /\ NULL \notin Nodes /\ 1 .. dset_size \subseteq Nodes
  BY Ranges DEF LeavesFrame, Depth, Levels
<1>2. /\ a \in 1 .. dset_size /\ set_node[a] = a
      /\ b \in 1 .. dset_size /\ set_node[b] = b
  BY <1>1 DEF LeavesFrame, BagInv, BagsDistinct
<1>3. \A n \in Nodes : set_node'[n] = IF set_node[n] = b THEN a ELSE set_node[n]
  BY <1>1, <1>2 DEF LeavesFrame, Combined, BagTyped
<1>4. \A k \in 0 .. p : Sbag'[k] = Sbag[k] /\ Sbag[k] # b
  BY <1>1 DEF LeavesFrame, BagTyped, BagInv, BagsDistinct
<1>5. ASSUME NEW k \in Levels PROVE Pbag[k] = NULL \/ (k <= p /\ Pbag[k] # b)
  <2>1. CASE k \in Depth
    BY <1>1, <2>1, SbagsAreNotPbags DEF LeavesFrame
  <2>2. CASE k \notin Depth
    BY <2>2 DEF BagInv, BagsDistinct
  <2>3. QED
    BY <2>1, <2>2
<1>6. ASSUME NEW t \in 1 .. nstrands
      PROVE  /\ rep(t) \in Nodes
             /\ set_node'[owner[t]] = IF rep(t) = b THEN a ELSE rep(t)
  BY <1>1, <1>3 DEF BagInv, NodesInUse, BagTyped, rep
<1>7. QED
  BY <1>1, <1>2, <1>3, <1>4, <1>5, <1>6

\* A called function returns: what it executed precedes what follows.
ReturnsCall ==
  /\ LeavesFrame(Sbag[frame_head - 1])
  /\ NextStrandAt(frame_head - 1, past[frame_head])
  /\ UNCHANGED joined

\* A called function returns: its S-bag goes to its parent's S-bag.
LEMMA ReturnsCallInv ==
  ASSUME BagTyped, BagInv, ReturnsCall
  PROVE  BagInv'
<1>0. PICK p, a, b, preds : /\ p = frame_head - 1 /\ a = Sbag[frame_head - 1]
                            /\ b = Sbag[frame_head] /\ preds = past[frame_head]
  OBVIOUS
<1>1. LeavesFrame(a) /\ (a = Sbag[p] \/ a = Pbag[p]) /\ a = Sbag[p]
  BY <1>0 DEF ReturnsCall
<1>2. preds \in SUBSET (1 .. nstrands)
  BY <1>0, <1>1, LeavesFrameFacts DEF BagInv, NodesInUse
<1>3. Continues(p, preds, a, b)
  <2>1. \A k \in Levels : Pbag'[k] = NULL \/ (Pbag'[k] = Pbag[k] /\ k <= p /\ Pbag[k] # b)
    BY <1>0, <1>1, LeavesFrameFacts DEF LeavesFrame
  <2>2. \A k \in 0 .. p : joined'[k] \subseteq 1 .. nstrands
    BY <1>0, <1>1, LeavesFrameFacts DEF ReturnsCall, BagInv, NodesInUse
  <2>3. /\ \A n \in Nodes : set_node'[n] = IF set_node[n] = b THEN a ELSE set_node[n]
        /\ \A k \in 0 .. p : Sbag'[k] = Sbag[k] /\ Sbag[k] # b
    BY <1>0, <1>1, LeavesFrameFacts
  <2>4. NextStrandAt(p, preds)
    BY <1>0 DEF ReturnsCall
  <2>5. QED
    BY <1>0, <1>1, <2>1, <2>2, <2>3, <2>4 DEF Continues, LeavesFrame
<1>4. ASSUME NEW t \in 1 .. nstrands PROVE \E k \in 0 .. p : Moved(t, p, preds, k)
  <2>0. /\ p \in Nat /\ p \in 0 .. p /\ frame_head \in Depth /\ frame_head = p + 1
        /\ 0 .. p \subseteq Depth /\ \A k \in 0 .. p : k <= p /\ k <= frame_head
        /\ \A k \in 0 .. p : ~(frame_head <= k)
    BY <1>0, <1>1, LeavesFrameFacts
  <2>1. rep(t) \in Nodes /\ set_node'[owner[t]] = IF rep(t) = b THEN a ELSE rep(t)
    BY <1>0, <1>1, LeavesFrameFacts
  <2>2. PICK k \in Depth : SerialAt(t, k) \/ ParallelAt(t, k)
    BY DEF BagInv, StrandsPlaced
  <2>3. k \in 0 .. p \/ k = frame_head
    BY <1>0, <1>1, LeavesFrameFacts
  <2>4. CASE SerialAt(t, k) /\ k = frame_head
    <3>1. set_node'[owner[t]] = Sbag[p] /\ t \in preds
      BY <1>0, <1>1, <2>0, <2>1, <2>4 DEF SerialAt
    <3>2. ASSUME NEW j \in 0 .. p
          PROVE  (j # p => (t \in past[j] <=> p <= j)) /\ (t \in joined'[j] => p <= j)
      BY <2>0, <2>4 DEF SerialAt, ReturnsCall
    <3>3. QED
      BY <2>0, <3>1, <3>2 DEF Moved
  <2>5. CASE SerialAt(t, k) /\ k \in 0 .. p
    <3>1. set_node'[owner[t]] = Sbag[k] /\ t \in preds
      BY <1>0, <1>1, <2>0, <2>1, <2>5, LeavesFrameFacts DEF SerialAt
    <3>2. ASSUME NEW j \in 0 .. p
          PROVE  (j # p => (t \in past[j] <=> k <= j)) /\ (t \in joined'[j] => k <= j)
      BY <2>0, <2>5 DEF SerialAt, ReturnsCall
    <3>3. QED
      BY <2>5, <3>1, <3>2 DEF Moved
  <2>6. CASE ParallelAt(t, k) /\ k \in 0 .. p
    <3>1. Pbag'[k] = Pbag[k] /\ Pbag[k] # b
      BY <1>0, <1>1, <2>0, <2>1, <2>6, LeavesFrameFacts, Ranges DEF ParallelAt, LeavesFrame
    <3>2. set_node'[owner[t]] = Pbag'[k] /\ t \notin preds
      BY <1>0, <2>0, <2>1, <2>6, <3>1 DEF ParallelAt
    <3>3. ASSUME NEW j \in 0 .. p
          PROVE  (j # p => t \notin past[j]) /\ (t \in joined'[j] <=> j = k)
      BY <2>0, <2>6 DEF ParallelAt, ReturnsCall
    <3>4. QED
      BY <2>6, <3>2, <3>3 DEF Moved
  <2>7. CASE ParallelAt(t, k) /\ k = frame_head
    BY <1>1, <2>1, <2>7, Ranges DEF ParallelAt, LeavesFrame
  <2>8. QED
    BY <2>2, <2>3, <2>4, <2>5, <2>6, <2>7
<1>5. QED
  <2>1. p \in Depth /\ a \in 1 .. dset_size /\ b \in 1 .. dset_size
    BY <1>0, <1>1, LeavesFrameFacts
  <2>2. QED
    BY <1>2, <1>3, <1>4, <2>1, ContinuesInv

\* A spawned function returns: what it executed is parallel to what follows,
\* until the parent syncs.
ReturnsSpawn ==
  /\ LeavesFrame(Pbag[frame_head - 1])
  /\ NextStrandAt(frame_head - 1, past[frame_head - 1])
  /\ joined' = [joined EXCEPT ![frame_head - 1] = @ \cup past[frame_head]]

\* A spawned child returns: its S-bag goes to its parent's P-bag.
LEMMA ReturnsSpawnInv ==
  ASSUME BagTyped, BagInv, ReturnsSpawn
  PROVE  BagInv'
<1>0. PICK p, a, b, preds : /\ p = frame_head - 1 /\ a = Pbag[frame_head - 1]
                            /\ b = Sbag[frame_head] /\ preds = past[frame_head - 1]
  OBVIOUS
<1>1. LeavesFrame(a) /\ (a = Sbag[p] \/ a = Pbag[p]) /\ a = Pbag[p]
  BY <1>0 DEF ReturnsSpawn
<1>2. preds \in SUBSET (1 .. nstrands)
  BY <1>0, <1>1, LeavesFrameFacts DEF BagInv, NodesInUse
<1>3. /\ joined'[p] = joined[p] \cup past[frame_head]
      /\ \A k \in Levels : k # p => joined'[k] = joined[k]
  BY <1>0, <1>1, LeavesFrameFacts DEF ReturnsSpawn, BagTyped
<1>4. Continues(p, preds, a, b)
  <2>1. \A k \in Levels : Pbag'[k] = NULL \/ (Pbag'[k] = Pbag[k] /\ k <= p /\ Pbag[k] # b)
    BY <1>0, <1>1, LeavesFrameFacts DEF LeavesFrame
  <2>2. \A k \in 0 .. p : joined'[k] \subseteq 1 .. nstrands
    <3>1. \A k \in Depth : past[k] \subseteq 1 .. nstrands /\ joined[k] \subseteq 1 .. nstrands
      BY DEF BagInv, NodesInUse
    <3>2. QED
      BY <1>0, <1>1, <1>3, <3>1, LeavesFrameFacts
  <2>3. /\ \A n \in Nodes : set_node'[n] = IF set_node[n] = b THEN a ELSE set_node[n]
        /\ \A k \in 0 .. p : Sbag'[k] = Sbag[k] /\ Sbag[k] # b
    BY <1>0, <1>1, LeavesFrameFacts
  <2>4. NextStrandAt(p, preds)
    BY <1>0 DEF ReturnsSpawn
  <2>5. QED
    BY <1>0, <1>1, <2>1, <2>2, <2>3, <2>4 DEF Continues, LeavesFrame
<1>5. ASSUME NEW t \in 1 .. nstrands PROVE \E k \in 0 .. p : Moved(t, p, preds, k)
  <2>0. /\ p \in Nat /\ p \in 0 .. p /\ p \in Levels /\ frame_head \in Depth
        /\ frame_head = p + 1 /\ preds = past[p]
        /\ 0 .. p \subseteq Depth /\ \A k \in 0 .. p : k <= p /\ k <= frame_head
        /\ \A k \in 0 .. p : ~(frame_head <= k)
        /\ \A k \in 0 .. p : k \in Levels
    BY <1>0, <1>1, LeavesFrameFacts
  <2>1. rep(t) \in Nodes /\ set_node'[owner[t]] = IF rep(t) = b THEN a ELSE rep(t)
    BY <1>0, <1>1, LeavesFrameFacts
  <2>2. PICK k \in Depth : SerialAt(t, k) \/ ParallelAt(t, k)
    BY DEF BagInv, StrandsPlaced
  <2>3. k \in 0 .. p \/ k = frame_head
    BY <1>0, <1>1, LeavesFrameFacts
  <2>4. CASE SerialAt(t, k) /\ k = frame_head
    <3>1. set_node'[owner[t]] = Pbag'[p]
      BY <1>0, <1>1, <2>1, <2>4 DEF SerialAt, LeavesFrame
    <3>2. t \notin preds
      BY <2>0, <2>4 DEF SerialAt
    <3>3. ASSUME NEW j \in 0 .. p
          PROVE  (j # p => t \notin past[j]) /\ (t \in joined'[j] <=> j = p)
      BY <1>3, <2>0, <2>4 DEF SerialAt
    <3>4. QED
      BY <2>0, <3>1, <3>2, <3>3 DEF Moved
  <2>5. CASE SerialAt(t, k) /\ k \in 0 .. p
    <3>1. set_node'[owner[t]] = Sbag[k] /\ t \in preds
      BY <1>0, <1>1, <2>0, <2>1, <2>5, LeavesFrameFacts DEF SerialAt
    <3>2. ASSUME NEW j \in 0 .. p
          PROVE  (j # p => (t \in past[j] <=> k <= j)) /\ (t \in joined'[j] => k <= j)
      BY <1>3, <2>0, <2>5 DEF SerialAt
    <3>3. QED
      BY <2>5, <3>1, <3>2 DEF Moved
  <2>6. CASE ParallelAt(t, k) /\ k \in 0 .. p
    <3>1. Pbag'[k] = Pbag[k] /\ Pbag[k] # b
      BY <1>0, <1>1, <2>0, <2>1, <2>6, LeavesFrameFacts, Ranges DEF ParallelAt, LeavesFrame
    <3>2. set_node'[owner[t]] = Pbag'[k] /\ t \notin preds
      BY <2>0, <2>1, <2>6, <3>1 DEF ParallelAt
    <3>3. ASSUME NEW j \in 0 .. p
          PROVE  (j # p => t \notin past[j]) /\ (t \in joined'[j] <=> j = k)
      BY <1>3, <2>0, <2>6 DEF ParallelAt
    <3>4. QED
      BY <2>6, <3>2, <3>3 DEF Moved
  <2>7. CASE ParallelAt(t, k) /\ k = frame_head
    BY <1>1, <2>1, <2>7, Ranges DEF ParallelAt, LeavesFrame
  <2>8. QED
    BY <2>2, <2>3, <2>4, <2>5, <2>6, <2>7
<1>6. QED
  <2>1. p \in Depth /\ a \in 1 .. dset_size /\ b \in 1 .. dset_size
    BY <1>0, <1>1, LeavesFrameFacts
  <2>2. QED
    BY <1>2, <1>4, <1>5, <2>1, ContinuesInv

-----------------------------------------------------------------------------
(***************************************************************************)
(* The handlers.  TypeOK is split by what a handler changes.               *)
(***************************************************************************)
FlagsTyped ==
  /\ checking_disabled \in Nat /\ instrumentation \in BOOLEAN /\ last_event \in Events
  /\ died \in BOOLEAN /\ pc \in PCs /\ user_off \in Nat

EntriesTyped ==
  /\ entry_head \in Entries
  /\ entry_type \in [Entries -> {"NONE", "SPAWNER", "HELPER"}]
  /\ frame_type \in [Entries -> {"SHADOW", "FULL"}]
  /\ prev_helper \in [Entries -> Entries]
  /\ rts_deque_begin \in Entries /\ rts_deque_end \in Entries
  /\ youngest_active_helper \in Entries
  /\ prog_depth \in Entries
  /\ prog \in [Entries -> {"main", "cilk", "helper", "spawned"}]

CountsTyped ==
  /\ frame_id \in Nat
  /\ current_sync_block_size \in [Levels -> Nat] /\ init_cont_depth \in [Levels -> Nat]
  /\ accounted_max_sync_block_size \in Nat /\ accounted_max_cont_depth \in Nat
  /\ func_id \in [Nodes -> Nat] /\ sib_sbag \in [Nodes -> Nodes]
  /\ inst \in [Levels -> Strands] /\ lineage \in [Strands -> SUBSET Strands]
  /\ spawned \in [Levels -> Nat] /\ pending \in Int /\ largest \in Nat /\ deepest \in Nat

RspTyped == rsp \in [Nodes -> Entries \cup {NULL}]

\* TypeOK in the parts its proof is split into.
LEMMA TypeParts == TypeOK <=> FlagsTyped /\ EntriesTyped /\ CountsTyped /\ RspTyped /\ BagTyped
  BY DEF TypeOK, FlagsTyped, EntriesTyped, CountsTyped, RspTyped, BagTyped

EntriesInv == EntriesTyped /\ EntriesMatch
BagsInv == BagTyped /\ CountsTyped /\ BagInv

\* A step that leaves the entry stack and the call stack alone.
LEMMA EntriesUnchanged ==
  ASSUME EntriesInv, UNCHANGED <<entryVars, dequeVars, progVars>>
  PROVE  EntriesInv'
  BY DEF EntriesInv, EntriesTyped, EntriesMatch, entryVars, dequeVars, progVars

\* A step that leaves the bags and the dag alone.
LEMMA BagsUnchanged ==
  ASSUME BagsInv, UNCHANGED bagVars
  PROVE  BagsInv'
<1>1. BagTyped' /\ CountsTyped'
  BY DEF BagsInv, BagTyped, CountsTyped, bagVars, frameVars, statVars, dsetVars, dagVars, countVars
<1>2. BagsDistinct' /\ NodesInUse'
  BY DEF BagsInv, BagInv, BagsDistinct, NodesInUse, Depth, bagVars, frameVars, statVars,
         dsetVars, dagVars, countVars
<1>3. StrandsPlaced'
  BY DEF BagsInv, BagInv, StrandsPlaced, SerialAt, ParallelAt, rep, Depth, bagVars, frameVars,
         statVars, dsetVars, dagVars, countVars
<1>4. QED
  BY <1>1, <1>2, <1>3 DEF BagsInv, BagInv

-----------------------------------------------------------------------------
(***************************************************************************)
(* entry_stack, the deque model and the program's call stack.              *)
(***************************************************************************)
LEMMA PushEntryInv ==
  ASSUME EntriesInv, entry_head < MaxEntries,
         NEW type, NEW what, PushEntry(type), ProgramCalls(what),
         \/ type = "SPAWNER" /\ what = "cilk" /\ UNCHANGED <<dequeVars, prev_helper>>
         \/ /\ type = "HELPER" /\ what = "helper"
            /\ rts_deque_end' = entry_head + 1 /\ youngest_active_helper' = entry_head + 1
            /\ prev_helper' = [prev_helper EXCEPT ![entry_head + 1] = youngest_active_helper]
            /\ UNCHANGED rts_deque_begin
  PROVE  EntriesInv'
<1>1. entry_head + 1 \in Entries /\ prog_depth = entry_head /\ entry_head \in Entries
  BY BoundsAssumption DEF EntriesInv, EntriesTyped, EntriesMatch, Entries
<1>2. EntriesTyped'
  BY <1>1 DEF EntriesInv, EntriesTyped, PushEntry, ProgramCalls, dequeVars
<1>3. EntriesMatch'
  <2>1. entry_head' = prog_depth'
    BY <1>1 DEF PushEntry, ProgramCalls
  <2>2. ASSUME NEW i \in 0 .. entry_head'
        PROVE  entry_type'[i] = "HELPER" <=> prog'[i] \in {"helper", "spawned"}
    <3>1. i \in Entries /\ (i = entry_head + 1 \/ (i \in 0 .. entry_head /\ i # entry_head + 1))
      BY <1>1, BoundsAssumption DEF PushEntry, Entries
    <3>2. CASE i = entry_head + 1
      BY <1>1, <3>2 DEF EntriesInv, EntriesTyped, PushEntry, ProgramCalls
    <3>3. CASE i \in 0 .. entry_head /\ i # entry_head + 1
      BY <1>1, <3>1, <3>3
         DEF EntriesInv, EntriesTyped, EntriesMatch, PushEntry, ProgramCalls
    <3>4. QED
      BY <3>1, <3>2, <3>3
  <2>3. QED
    BY <2>1, <2>2 DEF EntriesMatch
<1>4. QED
  BY <1>2, <1>3 DEF EntriesInv

\* A helper that detaches is still a helper.
LEMMA DetachEntryInv ==
  ASSUME EntriesInv, entry_type[entry_head] = "HELPER",
         prog' = [prog EXCEPT ![prog_depth] = "spawned"],
         frame_type' \in [Entries -> {"SHADOW", "FULL"}], rts_deque_begin' \in Entries,
         UNCHANGED <<entry_head, entry_type, prev_helper, rts_deque_end, youngest_active_helper,
                     prog_depth>>
  PROVE  EntriesInv'
<1>1. prog_depth = entry_head /\ entry_head \in Entries /\ 0 .. entry_head \subseteq Entries
  BY BoundsAssumption DEF EntriesInv, EntriesTyped, EntriesMatch, Entries
<1>2. EntriesTyped'
  BY <1>1 DEF EntriesInv, EntriesTyped
<1>3. ASSUME NEW i \in 0 .. entry_head
      PROVE  entry_type[i] = "HELPER" <=> prog'[i] \in {"helper", "spawned"}
  BY <1>1 DEF EntriesInv, EntriesTyped, EntriesMatch
<1>4. EntriesMatch'
  BY <1>1, <1>3 DEF EntriesMatch, EntriesInv
<1>5. QED
  BY <1>2, <1>4 DEF EntriesInv

\* A function or a helper is left: its entry is popped.
PopsEntry ==
  /\ entry_head > 0 /\ entry_head' = entry_head - 1 /\ prog_depth' = prog_depth - 1
  /\ LeavingHelper \/ LeavingCilkFunction
  /\ UNCHANGED <<entry_type, frame_type, prev_helper, prog>>

\* Popping an entry never takes the deque below its own bottom.
LEMMA LeaveEntryInv ==
  ASSUME EntriesInv, PopsEntry
  PROVE  EntriesInv'
<1>1. /\ entry_head > 0 /\ entry_head' = entry_head - 1 /\ prog_depth' = prog_depth - 1
      /\ LeavingHelper \/ LeavingCilkFunction
      /\ UNCHANGED <<entry_type, frame_type, prev_helper, prog>>
  BY DEF PopsEntry
<1>2. /\ entry_head \in Entries /\ entry_head - 1 \in Entries /\ prog_depth = entry_head
      /\ 0 .. (entry_head - 1) \subseteq 0 .. entry_head
      /\ prev_helper[entry_head] \in Entries
  BY <1>1, BoundsAssumption DEF EntriesInv, EntriesTyped, EntriesMatch, Entries
<1>3. /\ rts_deque_begin' \in Entries /\ rts_deque_end' \in Entries
      /\ youngest_active_helper' \in Entries
  <2>1. CASE LeavingHelper
    BY <1>1, <1>2, <2>1 DEF LeavingHelper, dequeVars, EntriesInv, EntriesTyped
  <2>2. CASE LeavingCilkFunction
    BY <1>1, <1>2, <2>2 DEF LeavingCilkFunction, dequeVars, EntriesInv, EntriesTyped
  <2>3. QED
    BY <1>1, <2>1, <2>2
<1>4. EntriesTyped'
  BY <1>1, <1>2, <1>3 DEF EntriesInv, EntriesTyped
<1>5. EntriesMatch'
  BY <1>1, <1>2 DEF EntriesInv, EntriesMatch
<1>6. QED
  BY <1>4, <1>5 DEF EntriesInv

-----------------------------------------------------------------------------
(***************************************************************************)
(* The handlers that change the bags take the steps proved about above.    *)
(***************************************************************************)
LEMMA NatMax == ASSUME NEW x \in Nat, NEW y \in Nat PROVE MaxOf(x, y) \in Nat
  BY DEF MaxOf

\* Types after a frame is pushed for the strand that enters it.
LEMMA NewFrameTyped ==
  ASSUME BagTyped, CountsTyped, frame_head < MaxFrames, nstrands < MaxStrands,
         NEW sbag \in Nodes, NEW sizes \in [Levels -> Nat],
         StartNewFunction(sbag, sizes), FirstStrandOfChild(sbag)
  PROVE  /\ frame_head' \in Levels /\ frame_id' \in Nat
         /\ Sbag' \in [Levels -> Nodes \cup {NULL}]
         /\ current_sync_block_size' \in [Levels -> Nat]
         /\ init_cont_depth' \in [Levels -> Nat]
         /\ accounted_max_sync_block_size' \in Nat /\ accounted_max_cont_depth' \in Nat
         /\ nstrands' \in Strands /\ owner' \in [Strands -> Nodes]
         /\ past' \in [Levels -> SUBSET Strands] /\ joined' \in [Levels -> SUBSET Strands]
         /\ inst' \in [Levels -> Strands] /\ lineage' \in [Strands -> SUBSET Strands]
<1>1. /\ frame_head \in Levels /\ frame_head + 1 \in Levels /\ nstrands + 1 \in Strands
      /\ 0 .. frame_head \subseteq Levels
  BY Ranges DEF BagTyped, Levels, Strands
<1>2. ContDepth(sizes) \in Nat
  <2>1. init_cont_depth[frame_head] \in Nat /\ sizes[frame_head] \in Nat
    BY <1>1 DEF CountsTyped
  <2>2. QED
    BY <2>1 DEF ContDepth
<1>3. /\ frame_head' \in Levels /\ frame_id' \in Nat
      /\ Sbag' \in [Levels -> Nodes \cup {NULL}]
  BY <1>1 DEF StartNewFunction, BagTyped, CountsTyped
<1>4. /\ current_sync_block_size' \in [Levels -> Nat]
      /\ init_cont_depth' \in [Levels -> Nat]
      /\ accounted_max_sync_block_size' \in Nat /\ accounted_max_cont_depth' \in Nat
  BY <1>1, <1>2, NatMax DEF StartNewFunction, CountsTyped
<1>5. /\ nstrands' \in Strands /\ owner' \in [Strands -> Nodes]
      /\ past' \in [Levels -> SUBSET Strands] /\ joined' \in [Levels -> SUBSET Strands]
  BY <1>1 DEF FirstStrandOfChild, BagTyped
<1>6. {inst[k] : k \in 0 .. frame_head} \subseteq Strands
  BY <1>1 DEF CountsTyped
<1>7. inst' \in [Levels -> Strands] /\ lineage' \in [Strands -> SUBSET Strands]
  BY <1>1, <1>6 DEF FirstStrandOfChild, CountsTyped
<1>8. QED
  BY <1>3, <1>4, <1>5, <1>7

\* The types cilk_enter_begin leaves, and the frame it enters, with its
\* caller's P-bag kept.
LEMMA EnterTyped ==
  ASSUME BagTyped, CountsTyped, cilk_enter_begin, ~Die,
         Pbag[frame_head] # NULL => /\ Pbag[frame_head] \in 1 .. dset_size
                                    /\ kind[Pbag[frame_head]] = "P"
  PROVE  BagTyped' /\ CountsTyped' /\ EntersFrame(dset_size + 1, Pbag[frame_head])
<1>0. PICK sbag, pbag : sbag = dset_size + 1 /\ pbag = Pbag[frame_head]
  OBVIOUS
<1>1. /\ frame_head < MaxFrames /\ nstrands < MaxStrands
      /\ StartNewFunction(sbag, current_sync_block_size) /\ FirstStrandOfChild(sbag)
      /\ dset_size' = sbag /\ dset_size < MaxNodes
      /\ kind' = [kind EXCEPT ![sbag] = "S"]
      /\ func_id' = [func_id EXCEPT ![sbag] = frame_id + 1]
      /\ spawned' = [spawned EXCEPT ![frame_head + 1] = 0]
      /\ UNCHANGED <<Pbag, sib_sbag, set_node, pending, largest, deepest>>
  BY <1>0 DEF cilk_enter_begin
<1>2. /\ sbag \in Nodes /\ dset_size < sbag /\ frame_head \in Levels
      /\ \A n \in 1 .. dset_size : n \in Nodes /\ n # sbag
  BY <1>0, <1>1, Ranges DEF BagTyped, Nodes
<1>3. current_sync_block_size \in [Levels -> Nat] /\ frame_id + 1 \in Nat
  BY DEF CountsTyped
<1>4. BagTyped' /\ CountsTyped'
  BY <1>1, <1>2, <1>3, NewFrameTyped DEF BagTyped, CountsTyped
<1>5. EntersFrame(sbag, pbag)
  <2>1. Pbag' = [Pbag EXCEPT ![frame_head] = pbag]
    BY <1>0, <1>1, <1>2 DEF BagTyped
  <2>2. kind'[sbag] = "S" /\ \A n \in 1 .. dset_size : kind'[n] = kind[n]
    BY <1>1, <1>2 DEF BagTyped
  <2>3. pbag # NULL => kind'[pbag] = "P"
    BY <1>0, <1>2, <2>2
  <2>4. QED
    BY <1>0, <1>1, <1>2, <2>1, <2>2, <2>3 DEF EntersFrame, StartNewFunction
<1>6. QED
  BY <1>0, <1>4, <1>5

\* cilk_enter_begin keeps the invariant of the bags.
LEMMA EnterBagsInv ==
  ASSUME BagsInv, cilk_enter_begin, ~Die
  PROVE  BagsInv' /\ EntersFrame(dset_size + 1, Pbag[frame_head])
<1>1. frame_head \in Levels
  BY DEF BagsInv, BagTyped
<1>2. Pbag[frame_head] # NULL => /\ Pbag[frame_head] \in 1 .. dset_size
                                 /\ kind[Pbag[frame_head]] = "P"
  BY <1>1 DEF BagsInv, BagInv, BagsDistinct
<1>3. BagTyped' /\ CountsTyped' /\ EntersFrame(dset_size + 1, Pbag[frame_head])
  BY <1>2, EnterTyped DEF BagsInv
<1>4. QED
  BY <1>3, EntersFrameInv DEF BagsInv

\* What cilk_detach_end does to the frames and the bags: the spawner's P-bag
\* is pbag, created if it has none, and the child's S-bag is sbag.
Detaches(pbag, sbag) ==
  LET sizes == [current_sync_block_size EXCEPT ![frame_head] = @ + 1] IN
  /\ frame_head < MaxFrames /\ sbag <= MaxNodes /\ nstrands < MaxStrands
  /\ pbag = IF Pbag[frame_head] = NULL THEN dset_size + 1 ELSE Pbag[frame_head]
  /\ sbag = IF Pbag[frame_head] = NULL THEN dset_size + 2 ELSE dset_size + 1
  /\ Pbag' = [Pbag EXCEPT ![frame_head] = pbag]
  /\ StartNewFunction(sbag, sizes) /\ FirstStrandOfChild(sbag)
  /\ dset_size' = sbag
  /\ kind' = [kind EXCEPT ![pbag] = "P", ![sbag] = "S"]
  /\ sib_sbag' = [sib_sbag EXCEPT ![pbag] = IF Pbag[frame_head] = NULL
                                            THEN Sbag[frame_head] ELSE @]
  /\ func_id' = [func_id EXCEPT ![sbag] = frame_id + 1]
  /\ spawned' = [spawned EXCEPT ![frame_head] = @ + 1, ![frame_head + 1] = 0]
  /\ largest' = MaxOf(largest, spawned[frame_head] + 1)
  /\ pending' = pending + 1 /\ deepest' = MaxOf(deepest, pending + 1)
  /\ set_node' = set_node

\* The types that leaves, and the frame it enters.
LEMMA DetachTyped ==
  ASSUME BagTyped, CountsTyped, NEW pbag, NEW sbag, Detaches(pbag, sbag),
         Sbag[frame_head] \in Nodes,
         Pbag[frame_head] # NULL => Pbag[frame_head] \in 1 .. dset_size
  PROVE  /\ BagTyped' /\ CountsTyped' /\ EntersFrame(sbag, pbag)
         /\ pbag \in Nodes /\ pbag # NULL
         /\ \/ pbag = Pbag[frame_head] /\ sib_sbag' = sib_sbag
            \/ /\ Pbag[frame_head] = NULL /\ dset_size < pbag /\ pbag < sbag
               /\ sib_sbag' = [sib_sbag EXCEPT ![pbag] = Sbag[frame_head]]
<1>0. PICK sizes : sizes = [current_sync_block_size EXCEPT ![frame_head] = @ + 1]
  OBVIOUS
<1>1. /\ frame_head < MaxFrames /\ sbag <= MaxNodes /\ nstrands < MaxStrands
      /\ pbag = IF Pbag[frame_head] = NULL THEN dset_size + 1 ELSE Pbag[frame_head]
      /\ sbag = IF Pbag[frame_head] = NULL THEN dset_size + 2 ELSE dset_size + 1
      /\ Pbag' = [Pbag EXCEPT ![frame_head] = pbag]
      /\ StartNewFunction(sbag, sizes) /\ FirstStrandOfChild(sbag)
      /\ dset_size' = sbag
      /\ kind' = [kind EXCEPT ![pbag] = "P", ![sbag] = "S"]
      /\ sib_sbag' = [sib_sbag EXCEPT ![pbag] = IF Pbag[frame_head] = NULL
                                                THEN Sbag[frame_head] ELSE @]
      /\ func_id' = [func_id EXCEPT ![sbag] = frame_id + 1]
      /\ spawned' = [spawned EXCEPT ![frame_head] = @ + 1, ![frame_head + 1] = 0]
      /\ largest' = MaxOf(largest, spawned[frame_head] + 1)
      /\ pending' = pending + 1 /\ deepest' = MaxOf(deepest, pending + 1)
      /\ set_node' = set_node
  BY <1>0 DEF Detaches
<1>2. /\ frame_head \in Levels
      /\ sbag \in Nodes /\ dset_size < sbag
      /\ pbag \in Nodes /\ pbag # sbag /\ pbag # NULL
      /\ \A n \in 1 .. dset_size : n \in Nodes /\ n # sbag
      /\ \/ pbag = Pbag[frame_head]
         \/ Pbag[frame_head] = NULL /\ dset_size < pbag /\ pbag < sbag
  <2>1. frame_head \in Levels
    BY DEF BagTyped
  <2>2. CASE Pbag[frame_head] = NULL
    BY <1>1, <2>1, <2>2, Ranges DEF Nodes
  <2>3. CASE Pbag[frame_head] # NULL
    BY <1>1, <2>1, <2>3, Ranges DEF Nodes
  <2>4. QED
    BY <2>2, <2>3
<1>3. BagTyped' /\ CountsTyped'
  <2>1. sizes \in [Levels -> Nat] /\ frame_id + 1 \in Nat
    BY <1>0, <1>2 DEF CountsTyped
  <2>2. BagTyped'
    BY <1>1, <1>2, <2>1, NewFrameTyped DEF BagTyped
  <2>3. spawned[frame_head] + 1 \in Nat /\ pending + 1 \in Int
    BY <1>2 DEF CountsTyped
  <2>4. largest' \in Nat /\ deepest' \in Nat
    BY <1>1, <2>3 DEF CountsTyped, MaxOf
  <2>5. func_id' \in [Nodes -> Nat] /\ sib_sbag' \in [Nodes -> Nodes]
    BY <1>1, <1>2, <2>1 DEF CountsTyped
  <2>6. spawned' \in [Levels -> Nat] /\ pending' \in Int
    BY <1>1, <2>3 DEF CountsTyped
  <2>7. QED
    BY <1>1, <1>2, <2>1, <2>2, <2>4, <2>5, <2>6, NewFrameTyped DEF CountsTyped
<1>4. EntersFrame(sbag, pbag)
  <2>1. /\ kind'[sbag] = "S" /\ kind'[pbag] = "P"
        /\ \A n \in 1 .. dset_size : n # pbag => kind'[n] = kind[n]
    BY <1>1, <1>2 DEF BagTyped
  <2>2. QED
    BY <1>1, <1>2, <2>1 DEF EntersFrame, StartNewFunction
<1>5. pbag = Pbag[frame_head] => sib_sbag' = sib_sbag
  BY <1>1, <1>2 DEF CountsTyped
<1>6. QED
  BY <1>1, <1>2, <1>3, <1>4, <1>5

\* cilk_detach_end, as a frame entered; the parent may get a P-bag first.
LEMMA DetachBagsInv ==
  ASSUME BagsInv, cilk_detach_end, ~Die
  PROVE  /\ BagsInv'
         /\ \E sbag, pbag :
              /\ EntersFrame(sbag, pbag)
              /\ \/ pbag = Pbag[frame_head] /\ sib_sbag' = sib_sbag
                 \/ /\ Pbag[frame_head] = NULL /\ pbag \in Nodes
                    /\ dset_size < pbag /\ pbag < sbag
                    /\ sib_sbag' = [sib_sbag EXCEPT ![pbag] = Sbag[frame_head]]
<1>1. PICK pbag, sbag : Detaches(pbag, sbag)
  BY DEF cilk_detach_end, Detaches
<1>2. /\ Sbag[frame_head] \in Nodes
      /\ Pbag[frame_head] # NULL => Pbag[frame_head] \in 1 .. dset_size
  BY Ranges DEF BagsInv, BagTyped, BagInv, BagsDistinct
<1>3. QED
  BY <1>1, <1>2, DetachTyped, EntersFrameInv DEF BagsInv

\* Types after the program goes on at a level in a new strand.
LEMMA NextStrandTyped ==
  ASSUME BagTyped, CountsTyped, nstrands < MaxStrands, NEW k \in Depth, Sbag[k] \in Nodes,
         NEW preds \in SUBSET Strands, NextStrandAt(k, preds)
  PROVE  /\ nstrands' \in Strands /\ owner' \in [Strands -> Nodes]
         /\ past' \in [Levels -> SUBSET Strands]
         /\ inst' \in [Levels -> Strands] /\ lineage' \in [Strands -> SUBSET Strands]
<1>1. k \in Levels /\ nstrands + 1 \in Strands /\ 0 .. k \subseteq Levels
  BY Ranges DEF BagTyped, Levels, Strands, Depth
<1>2. {inst[j] : j \in 0 .. k} \subseteq Strands
  BY <1>1 DEF CountsTyped
<1>3. /\ nstrands' \in Strands /\ owner' \in [Strands -> Nodes]
      /\ past' \in [Levels -> SUBSET Strands]
  BY <1>1 DEF NextStrandAt, BagTyped
<1>4. inst' \in [Levels -> Strands] /\ lineage' \in [Strands -> SUBSET Strands]
  BY <1>1, <1>2 DEF NextStrandAt, CountsTyped
<1>5. QED
  BY <1>3, <1>4

\* Combining two bags maps nodes to nodes.
LEMMA CombinedTyped ==
  ASSUME set_node \in [Nodes -> Nodes], NEW x \in Nodes, NEW y
  PROVE  Combined(x, y) \in [Nodes -> Nodes]
  BY DEF Combined

\* The types cilk_sync_end leaves.
LEMMA SyncTyped ==
  ASSUME BagTyped, CountsTyped, Sbag[frame_head] \in Nodes, cilk_sync_end, ~Die
  PROVE  BagTyped' /\ CountsTyped'
<1>1. /\ nstrands < MaxStrands
      /\ complete_sync(frame_head)
      /\ NextStrandAt(frame_head, past[frame_head] \cup joined[frame_head])
      /\ joined' = [joined EXCEPT ![frame_head] = {}]
      /\ spawned' = [spawned EXCEPT ![frame_head] = 0]
      /\ pending' = pending - spawned[frame_head]
      /\ UNCHANGED <<frame_head, Sbag, init_cont_depth, frame_id, dset_size, kind, func_id,
                     sib_sbag, largest, deepest>>
  BY DEF cilk_sync_end
<1>2. /\ frame_head \in Levels /\ frame_head \in Depth
      /\ past[frame_head] \cup joined[frame_head] \in SUBSET Strands
  BY Ranges DEF BagTyped
<1>3. /\ nstrands' \in Strands /\ owner' \in [Strands -> Nodes]
      /\ past' \in [Levels -> SUBSET Strands]
      /\ inst' \in [Levels -> Strands] /\ lineage' \in [Strands -> SUBSET Strands]
  BY <1>1, <1>2, NextStrandTyped
<1>4. BagTyped'
  <2>1. set_node' \in [Nodes -> Nodes]
    BY <1>1, CombinedTyped DEF complete_sync, BagTyped
  <2>2. Pbag' \in [Levels -> Nodes \cup {NULL}] /\ joined' \in [Levels -> SUBSET Strands]
    BY <1>1, <1>2 DEF complete_sync, BagTyped
  <2>3. QED
    BY <1>1, <1>2, <1>3, <2>1, <2>2 DEF BagTyped
<1>5. CountsTyped'
  <2>1. /\ current_sync_block_size[frame_head] \in Nat
        /\ init_cont_depth[frame_head] + current_sync_block_size[frame_head] \in Nat
        /\ spawned[frame_head] \in Nat /\ pending - spawned[frame_head] \in Int
    BY <1>2 DEF CountsTyped
  <2>2. /\ accounted_max_sync_block_size' \in Nat /\ accounted_max_cont_depth' \in Nat
        /\ current_sync_block_size' \in [Levels -> Nat]
    BY <1>1, <2>1, NatMax DEF complete_sync, CountsTyped
  <2>3. QED
    BY <1>1, <1>3, <2>1, <2>2 DEF CountsTyped
<1>6. QED
  BY <1>4, <1>5

\* cilk_sync_end, as a sync or as nothing.
LEMMA SyncBagsInv ==
  ASSUME BagsInv, cilk_sync_end, ~Die
  PROVE  BagsInv'
<1>1. SyncsFrame
  BY DEF cilk_sync_end, SyncsFrame, complete_sync
<1>2. Sbag[frame_head] \in Nodes
  BY Ranges DEF BagsInv, BagInv, BagsDistinct
<1>3. QED
  BY <1>1, <1>2, SyncTyped, SyncsFrameInv DEF BagsInv

\* The two ways to leave a frame, and the bag its S-bag joins.
ReturnsTo(a) ==
  /\ prog[prog_depth] \in {"cilk", "spawned"}
  /\ LeavesFrame(a)
  /\ IF prog[prog_depth] = "spawned"
     THEN a = Pbag[frame_head - 1] /\ ReturnsSpawn
     ELSE a = Sbag[frame_head - 1] /\ ReturnsCall

\* cilk_leave_begin, as the return the entry stack says it is, and the types
\* it leaves.
LEMMA LeaveTyped ==
  ASSUME BagTyped, CountsTyped, EntriesInv, \A k \in Depth : Sbag[k] \in Nodes,
         cilk_leave_begin, ~Die
  PROVE  BagTyped' /\ CountsTyped' /\ ReturnsTo(MergeTarget(frame_head - 1))
<1>0. PICK a : a = MergeTarget(frame_head - 1)
  OBVIOUS
<1>1. /\ prog[prog_depth] \in {"cilk", "spawned"} /\ nstrands < MaxStrands
      /\ frame_head > 0 /\ MergeAsserts(frame_head - 1, frame_head)
      /\ set_node' = Combined(a, Sbag[frame_head])
      /\ Sbag' = [Sbag EXCEPT ![frame_head] = NULL]
      /\ frame_head' = frame_head - 1
      /\ IF prog[prog_depth] = "spawned"
         THEN /\ NextStrandAt(frame_head - 1, past[frame_head - 1])
              /\ joined' = [joined EXCEPT ![frame_head - 1] = @ \cup past[frame_head]]
         ELSE /\ NextStrandAt(frame_head - 1, past[frame_head])
              /\ UNCHANGED joined
      /\ UNCHANGED <<Pbag, current_sync_block_size, init_cont_depth, frame_id, statVars,
                     dset_size, kind, func_id, sib_sbag, countVars>>
  BY <1>0 DEF cilk_leave_begin, InUser
<1>2. frame_head \in Levels /\ frame_head - 1 \in Levels /\ frame_head - 1 \in Depth
  <2>1. frame_head \in Nat /\ frame_head > 0 /\ MaxFrames \in Nat /\ frame_head <= MaxFrames
    BY <1>1, Ranges
  <2>2. QED
    BY <2>1 DEF Depth, Levels
<1>3. entry_type[entry_head] = "HELPER" <=> prog[prog_depth] = "spawned"
  <2>1. entry_head \in 0 .. entry_head /\ prog_depth = entry_head
    BY BoundsAssumption DEF EntriesInv, EntriesMatch, EntriesTyped, Entries
  <2>2. entry_type[entry_head] = "HELPER" <=> prog[prog_depth] \in {"helper", "spawned"}
    BY <2>1 DEF EntriesInv, EntriesMatch
  <2>3. QED
    BY <1>1, <2>2
<1>4. a = IF prog[prog_depth] = "spawned" THEN Pbag[frame_head - 1] ELSE Sbag[frame_head - 1]
  BY <1>0, <1>3 DEF MergeTarget
<1>5. a \in Nodes /\ Pbag[frame_head] = NULL
  BY <1>0, <1>1, <1>2, <1>4 DEF MergeAsserts, BagTyped
<1>6. LeavesFrame(a)
  BY <1>1, <1>5 DEF LeavesFrame
<1>7. ReturnsTo(a)
  BY <1>1, <1>4, <1>6 DEF ReturnsTo, ReturnsSpawn, ReturnsCall
<1>8. /\ nstrands' \in Strands /\ owner' \in [Strands -> Nodes]
      /\ past' \in [Levels -> SUBSET Strands]
      /\ inst' \in [Levels -> Strands] /\ lineage' \in [Strands -> SUBSET Strands]
  <2>1. past[frame_head] \in SUBSET Strands /\ past[frame_head - 1] \in SUBSET Strands
    BY <1>2 DEF BagTyped
  <2>2. QED
    BY <1>1, <1>2, <2>1, NextStrandTyped
<1>9. BagTyped'
  <2>1. set_node' \in [Nodes -> Nodes]
    BY <1>1, <1>5, CombinedTyped DEF BagTyped
  <2>2. Sbag' \in [Levels -> Nodes \cup {NULL}] /\ joined' \in [Levels -> SUBSET Strands]
    BY <1>1, <1>2 DEF BagTyped
  <2>3. QED
    BY <1>1, <1>2, <1>8, <2>1, <2>2 DEF BagTyped
<1>10. CountsTyped'
  BY <1>1, <1>8 DEF CountsTyped, statVars, countVars
<1>11. QED
  BY <1>0, <1>7, <1>9, <1>10

\* cilk_leave_begin keeps the invariant of the bags.
LEMMA LeaveBagsInv ==
  ASSUME BagsInv, EntriesInv, cilk_leave_begin, ~Die
  PROVE  /\ BagsInv'
         /\ IF prog[prog_depth] = "spawned" THEN ReturnsSpawn ELSE ReturnsCall
<1>1. \A k \in Depth : Sbag[k] \in Nodes
  BY Ranges DEF BagsInv, BagInv, BagsDistinct
<1>2. BagTyped' /\ CountsTyped' /\ ReturnsTo(MergeTarget(frame_head - 1))
  BY <1>1, LeaveTyped DEF BagsInv
<1>3. QED
  BY <1>2, ReturnsSpawnInv, ReturnsCallInv DEF BagsInv, ReturnsTo

-----------------------------------------------------------------------------
\* The invariant holds when main starts.
LEMMA InitInv == Init => TypeOK /\ EntriesMatch /\ BagInv
<1> SUFFICES ASSUME Init PROVE TypeOK /\ EntriesMatch /\ BagInv
  OBVIOUS
<1>1. /\ 0 \in Levels /\ 0 \in Entries /\ 1 \in Entries /\ 1 \in Nodes /\ 1 \in Strands
      /\ NULL \notin Int /\ Nodes \subseteq Int
  BY BoundsAssumption DEF Levels, Entries, Nodes, Strands
<1>2. FlagsTyped /\ EntriesTyped /\ CountsTyped /\ RspTyped /\ BagTyped
  <2>1. FlagsTyped
    BY DEF Init, FlagsTyped, Events, PCs
  <2>2. EntriesTyped
    BY <1>1 DEF Init, EntriesTyped
  <2>3. CountsTyped /\ RspTyped
    BY <1>1 DEF Init, CountsTyped, RspTyped
  <2>4. BagTyped
    BY <1>1 DEF Init, BagTyped
  <2>5. QED
    BY <2>1, <2>2, <2>3, <2>4
<1>3. EntriesMatch
  BY <1>1 DEF Init, EntriesMatch
<1>4. BagsDistinct
  BY <1>1 DEF Init, BagsDistinct, Depth
<1>5. NodesInUse
  <2>1. ASSUME NEW n \in Nodes
        PROVE  IF n <= dset_size THEN set_node[n] \in 1 .. dset_size ELSE set_node[n] = n
    BY <1>1 DEF Init, Nodes
  <2>2. \A s \in 1 .. nstrands : owner[s] \in 1 .. dset_size
    BY <1>1 DEF Init
  <2>3. \A k \in Depth : past[k] \subseteq 1 .. nstrands /\ joined[k] \subseteq 1 .. nstrands
    BY <1>1 DEF Init, Depth
  <2>4. QED
    BY <2>1, <2>2, <2>3 DEF NodesInUse
<1>6. StrandsPlaced
  <2>1. SerialAt(1, 0)
    BY <1>1 DEF Init, SerialAt, rep, Depth
  <2>2. QED
    BY <2>1 DEF Init, StrandsPlaced, Depth
<1>7. QED
  BY <1>2, <1>3, <1>4, <1>5, <1>6, TypeParts DEF BagInv

\* A failed assertion changes nothing but died.
LEMMA DieInv ==
  ASSUME FlagsTyped, EntriesInv, RspTyped, BagsInv, Die
  PROVE  FlagsTyped' /\ EntriesInv' /\ RspTyped' /\ BagsInv'
<1>1. EntriesInv'
  BY EntriesUnchanged DEF Die
<1>2. BagsInv'
  BY BagsUnchanged DEF Die
<1>3. FlagsTyped' /\ RspTyped'
  BY DEF Die, FlagsTyped, RspTyped, driverVars
<1>4. QED
  BY <1>1, <1>2, <1>3

\* One step per handler.
LEMMA StepInv ==
  ASSUME FlagsTyped, EntriesInv, RspTyped, BagsInv, [Next]_vars
  PROVE  FlagsTyped' /\ EntriesInv' /\ RspTyped' /\ BagsInv'
<1> USE DEF enable_checking, disable_checking
<1>0. CASE Die
  BY <1>0, DieInv
<1>1. CASE cilk_enter_begin /\ ~Die
  <2>1. EntriesInv'
    BY <1>1, PushEntryInv DEF cilk_enter_begin
  <2>2. BagsInv'
    BY <1>1, EnterBagsInv
  <2>3. FlagsTyped' /\ RspTyped'
    BY <1>1 DEF cilk_enter_begin, FlagsTyped, RspTyped, Events, PCs
  <2>4. QED
    BY <2>1, <2>2, <2>3
<1>2. CASE cilk_enter_helper_begin /\ ~Die
  <2>1. EntriesInv'
    BY <1>2, PushEntryInv DEF cilk_enter_helper_begin
  <2>2. BagsInv'
    BY <1>2, BagsUnchanged DEF cilk_enter_helper_begin
  <2>3. FlagsTyped' /\ RspTyped'
    BY <1>2 DEF cilk_enter_helper_begin, FlagsTyped, RspTyped, Events, PCs
  <2>4. QED
    BY <2>1, <2>2, <2>3
<1>3. CASE cilk_enter_end /\ ~Die
  <2>1. EntriesInv' /\ BagsInv'
    BY <1>3, EntriesUnchanged, BagsUnchanged DEF cilk_enter_end
  <2>2. FlagsTyped'
    <3>1. /\ checking_disabled > 0 /\ checking_disabled' = checking_disabled - 1
          /\ last_event' = "NONE" /\ instrumentation' = TRUE /\ pc' = "user"
          /\ UNCHANGED <<died, user_off>>
      BY <1>3 DEF cilk_enter_end
    <3>2. QED
      BY <3>1 DEF FlagsTyped, Events, PCs
  <2>3. RspTyped'
    BY <1>3 DEF cilk_enter_end, RspTyped, EntriesInv, EntriesTyped
  <2>4. QED
    BY <2>1, <2>2, <2>3
<1>4. CASE (cilk_spawn_prepare \/ cilk_detach_begin \/ cilk_sync_begin) /\ ~Die
  BY <1>4, EntriesUnchanged, BagsUnchanged
     DEF cilk_spawn_prepare, cilk_detach_begin, cilk_sync_begin, FlagsTyped, RspTyped,
         Events, PCs
<1>5. CASE cilk_spawn_or_continue /\ ~Die
  BY <1>5, EntriesUnchanged, BagsUnchanged
     DEF cilk_spawn_or_continue, FlagsTyped, RspTyped, Events, PCs
<1>6. CASE cilk_detach_end /\ ~Die
  <2>1. EntriesInv'
    BY <1>6, DetachEntryInv
       DEF cilk_detach_end, entryVars, dequeVars, EntriesInv, EntriesTyped
  <2>2. BagsInv'
    BY <1>6, DetachBagsInv
  <2>3. FlagsTyped' /\ RspTyped'
    BY <1>6 DEF cilk_detach_end, FlagsTyped, RspTyped, Events, PCs
  <2>4. QED
    BY <2>1, <2>2, <2>3
<1>7. CASE cilk_sync_end /\ ~Die
  <2>1. EntriesInv'
    BY <1>7, EntriesUnchanged DEF cilk_sync_end
  <2>2. BagsInv'
    BY <1>7, SyncBagsInv
  <2>3. FlagsTyped' /\ RspTyped'
    BY <1>7 DEF cilk_sync_end, FlagsTyped, RspTyped, Events, PCs
  <2>4. QED
    BY <2>1, <2>2, <2>3
<1>8. CASE cilk_leave_begin /\ ~Die
  <2>1. EntriesInv'
    BY <1>8, EntriesUnchanged DEF cilk_leave_begin
  <2>2. BagsInv'
    BY <1>8, LeaveBagsInv
  <2>3. FlagsTyped' /\ RspTyped'
    BY <1>8 DEF cilk_leave_begin, FlagsTyped, RspTyped, Events, PCs
  <2>4. QED
    BY <2>1, <2>2, <2>3
<1>9. CASE cilk_leave_end /\ ~Die
  <2>1. EntriesInv'
    BY <1>9, LeaveEntryInv DEF cilk_leave_end, PopsEntry
  <2>2. BagsInv'
    BY <1>9, BagsUnchanged DEF cilk_leave_end
  <2>3. died' \in BOOLEAN
    <3>1. LeavingHelper => died' \in BOOLEAN
      BY DEF LeavingHelper, FlagsTyped
    <3>2. LeavingCilkFunction => died' \in BOOLEAN
      <4>1. (rts_deque_end < rts_deque_begin) \in BOOLEAN
        OBVIOUS
      <4>2. QED
        BY <4>1, Zenon DEF LeavingCilkFunction, FlagsTyped
    <3>3. QED
      BY <1>9, <3>1, <3>2 DEF cilk_leave_end
  <2>4. FlagsTyped' /\ RspTyped'
    BY <1>9, <2>3 DEF cilk_leave_end, FlagsTyped, RspTyped, Events, PCs
  <2>5. QED
    BY <2>1, <2>2, <2>4
<1>10. CASE (__cilksan_disable_checking \/ __cilksan_enable_checking) /\ ~Die
  BY <1>10, EntriesUnchanged, BagsUnchanged
     DEF __cilksan_disable_checking, __cilksan_enable_checking, FlagsTyped, RspTyped
<1>11. CASE cilksan_deinit /\ ~Die
  BY <1>11, EntriesUnchanged, BagsUnchanged
     DEF cilksan_deinit, driverVars, FlagsTyped, RspTyped, PCs
<1>12. CASE UNCHANGED vars
  BY <1>12, EntriesUnchanged, BagsUnchanged DEF vars, driverVars, FlagsTyped, RspTyped
<1>13. QED
  BY <1>0, <1>1, <1>2, <1>3, <1>4, <1>5, <1>6, <1>7, <1>8, <1>9, <1>10, <1>11, <1>12 DEF Next

\* The inductive invariant holds in every state.
LEMMA InductiveInvariant == Spec => []IInv
<1>1. IInv <=> FlagsTyped /\ EntriesInv /\ RspTyped /\ BagsInv
  BY TypeParts DEF IInv, EntriesInv, BagsInv
<1>2. Init => IInv
  BY InitInv DEF IInv
<1>3. IInv /\ [Next]_vars => IInv'
  <2>1. (FlagsTyped /\ EntriesInv /\ RspTyped /\ BagsInv)' => IInv'
    BY <1>1, TypeParts DEF IInv, EntriesInv, BagsInv, TypeOK, FlagsTyped, EntriesTyped,
                           CountsTyped, RspTyped, BagTyped
  <2>2. QED
    BY <1>1, <2>1, StepInv
<1>4. QED
  BY <1>2, <1>3, PTL DEF Spec

\* Every variable of the tool keeps its type: no stack is popped below its
\* bottom, no node is named that the pool does not hold, and the deque model
\* never leaves the stack.
THEOREM TypeCorrect == Spec => []TypeOK
<1>1. IInv => TypeOK
  BY DEF IInv
<1>2. QED
  BY <1>1, InductiveInvariant, PTL

\* Where the bags are decides the question SP-bags asks of them.
LEMMA SPBagsFromInv == ASSUME IInv PROVE SPBagsCorrect
<1>1. BagTyped /\ BagInv
  BY TypeParts DEF IInv
<1>2. ASSUME NEW s \in 1 .. nstrands
      PROVE  /\ is_SBag(BagOf(s)) <=> s \in past[frame_head]
             /\ is_PBag(BagOf(s)) <=> s \notin past[frame_head]
  <2>1. PICK k \in Depth : SerialAt(s, k) \/ ParallelAt(s, k)
    BY <1>1 DEF BagInv, StrandsPlaced
  <2>2. frame_head \in Depth /\ k <= frame_head /\ k \in Levels
    BY <1>1, Ranges DEF Depth
  <2>3. rep(s) \in Nodes
    BY <1>1, Ranges DEF BagInv, NodesInUse, BagTyped, rep
  <2>4. CASE SerialAt(s, k)
    BY <1>1, <2>2, <2>4
       DEF SerialAt, BagInv, BagsDistinct, is_SBag, is_PBag, BagOf, get_set_node, rep
  <2>5. CASE ParallelAt(s, k)
    <3>1. Pbag[k] # NULL
      BY <1>1, <2>3, <2>5, Ranges DEF ParallelAt
    <3>2. QED
      BY <1>1, <2>2, <2>5, <3>1
         DEF ParallelAt, BagInv, BagsDistinct, is_SBag, is_PBag, BagOf, get_set_node, rep
  <2>6. QED
    BY <2>1, <2>4, <2>5
<1>3. QED
  BY <1>2 DEF SPBagsCorrect

\* The theorem SP-bags rests on, for the handlers as cilksan runs them: the
\* bag found for a strand is an S-bag exactly when the strand precedes the
\* running one, and a P-bag exactly when it is parallel to it, for every
\* program, every nesting of calls and spawns, and every number of strands.
THEOREM SPBagsCorrectInv == Spec => []SPBagsCorrect
<1>1. IInv => SPBagsCorrect
  BY SPBagsFromInv
<1>2. QED
  BY <1>1, InductiveInvariant, PTL

-----------------------------------------------------------------------------
(***************************************************************************)
(* The bags of cilksan keep to what disjointset.h requires of its callers: *)
(* every step of the tool creates sets, merges a younger set into an older *)
(* one, or leaves the sets alone (module Partition).                       *)
(*                                                                         *)
(* The handlers never compare ages.  They may merge as they do because the *)
(* bags on frame_stack are sorted: going up the stack, the S-bag of each   *)
(* frame is older than its P-bag, and both are older than the bags of the  *)
(* frames above it.                                                        *)
(***************************************************************************)

BagsSortedByAge ==
  \A k \in Depth :
    /\ Pbag[k] # NULL => Sbag[k] < Pbag[k]
    /\ k < frame_head => /\ Sbag[k] < Sbag[k + 1]
                         /\ Pbag[k] # NULL => Pbag[k] < Sbag[k + 1]

bagAges == <<frame_head, Sbag, Pbag, dset_size, set_node>>

(***************************************************************************)
(* What a step does to the bags: a frame is pushed, with new bags; a P-bag *)
(* is merged into the S-bag of its frame; a frame is popped and its S-bag  *)
(* is merged into a bag of its parent.                                     *)
(***************************************************************************)
PushesBags(sbag, pbag) ==
  /\ frame_head < MaxFrames /\ frame_head' = frame_head + 1
  /\ sbag \in Nodes /\ dset_size < sbag /\ dset_size' = sbag
  /\ \/ pbag = Pbag[frame_head]
     \/ pbag \in Nodes /\ dset_size < pbag /\ pbag < sbag
  /\ Sbag' = [Sbag EXCEPT ![frame_head + 1] = sbag]
  /\ Pbag' = [Pbag EXCEPT ![frame_head] = pbag]
  /\ set_node' = set_node

JoinsBags ==
  /\ set_node' = IF Pbag[frame_head] = NULL THEN set_node
                 ELSE Combined(Sbag[frame_head], Pbag[frame_head])
  /\ Pbag' = [Pbag EXCEPT ![frame_head] = NULL]
  /\ UNCHANGED <<frame_head, Sbag, dset_size>>

PopsBags(bag) ==
  /\ 0 < frame_head /\ frame_head' = frame_head - 1
  /\ bag \in {Sbag[frame_head - 1], Pbag[frame_head - 1]} \ {NULL}
  /\ set_node' = Combined(bag, Sbag[frame_head])
  /\ Sbag' = [Sbag EXCEPT ![frame_head] = NULL]
  /\ UNCHANGED <<Pbag, dset_size>>

\* Every handler does one of four things to the bags.
LEMMA BagSteps ==
  ASSUME BagsInv, [Next]_vars
  PROVE  \/ \E sbag, pbag : PushesBags(sbag, pbag)
         \/ JoinsBags
         \/ \E bag : PopsBags(bag)
         \/ UNCHANGED bagAges
<1> USE DEF bagAges, bagVars, frameVars, dsetVars
<1>0. CASE Die
  BY <1>0 DEF Die
<1>1. CASE cilk_enter_begin /\ ~Die
  <2>1. /\ frame_head < MaxFrames /\ dset_size < MaxNodes
        /\ StartNewFunction(dset_size + 1, current_sync_block_size)
        /\ dset_size' = dset_size + 1
        /\ Pbag' = Pbag /\ set_node' = set_node
    BY <1>1 DEF cilk_enter_begin
  <2>2. /\ dset_size + 1 \in Nodes /\ dset_size < dset_size + 1
        /\ Pbag' = [Pbag EXCEPT ![frame_head] = Pbag[frame_head]]
    BY <2>1, Ranges DEF BagsInv, BagTyped, Nodes
  <2>3. PushesBags(dset_size + 1, Pbag[frame_head])
    BY <2>1, <2>2 DEF PushesBags, StartNewFunction
  <2>4. QED
    BY <2>3
<1>2. CASE cilk_detach_end /\ ~Die
  <2>0. PICK pbag, sbag, sizes :
          /\ pbag = IF Pbag[frame_head] = NULL THEN dset_size + 1 ELSE Pbag[frame_head]
          /\ sbag = IF Pbag[frame_head] = NULL THEN dset_size + 2 ELSE dset_size + 1
          /\ sizes = [current_sync_block_size EXCEPT ![frame_head] = @ + 1]
    OBVIOUS
  <2>1. /\ frame_head < MaxFrames /\ sbag <= MaxNodes
        /\ Pbag' = [Pbag EXCEPT ![frame_head] = pbag]
        /\ StartNewFunction(sbag, sizes)
        /\ dset_size' = sbag /\ set_node' = set_node
    BY <1>2, <2>0 DEF cilk_detach_end
  <2>2. /\ sbag \in Nodes /\ dset_size < sbag
        /\ \/ pbag = Pbag[frame_head]
           \/ pbag \in Nodes /\ dset_size < pbag /\ pbag < sbag
    <3>1. CASE Pbag[frame_head] = NULL
      BY <2>0, <2>1, <3>1, Ranges DEF BagsInv, Nodes
    <3>2. CASE Pbag[frame_head] # NULL
      BY <2>0, <2>1, <3>2, Ranges DEF BagsInv, Nodes
    <3>3. QED
      BY <3>1, <3>2
  <2>3. PushesBags(sbag, pbag)
    BY <2>1, <2>2 DEF PushesBags, StartNewFunction
  <2>4. QED
    BY <2>3
<1>3. CASE cilk_sync_end /\ ~Die
  BY <1>3 DEF cilk_sync_end, complete_sync, JoinsBags
<1>4. CASE cilk_leave_begin /\ ~Die
  <2>1. /\ frame_head > 0 /\ frame_head' = frame_head - 1
        /\ MergeAsserts(frame_head - 1, frame_head)
        /\ set_node' = Combined(MergeTarget(frame_head - 1), Sbag[frame_head])
        /\ Sbag' = [Sbag EXCEPT ![frame_head] = NULL]
        /\ UNCHANGED <<Pbag, dset_size>>
    BY <1>4 DEF cilk_leave_begin
  <2>2. MergeTarget(frame_head - 1) \in {Sbag[frame_head - 1], Pbag[frame_head - 1]} \ {NULL}
    BY <2>1 DEF MergeAsserts, MergeTarget
  <2>3. 0 < frame_head
    BY <2>1, Ranges DEF BagsInv
  <2>4. PopsBags(MergeTarget(frame_head - 1))
    BY <2>1, <2>2, <2>3 DEF PopsBags
  <2>5. QED
    BY <2>4
<1>5. CASE /\ \/ cilk_enter_helper_begin \/ cilk_enter_end
              \/ cilk_spawn_prepare \/ cilk_spawn_or_continue
              \/ cilk_detach_begin \/ cilk_sync_begin \/ cilk_leave_end
              \/ __cilksan_disable_checking \/ __cilksan_enable_checking
              \/ cilksan_deinit
           /\ ~Die
  BY <1>5 DEF cilk_enter_helper_begin, cilk_enter_end, cilk_spawn_prepare,
              cilk_spawn_or_continue, cilk_detach_begin, cilk_sync_begin, cilk_leave_end,
              __cilksan_disable_checking, __cilksan_enable_checking, cilksan_deinit
<1>6. CASE UNCHANGED vars
  BY <1>6 DEF vars
<1>7. QED
  BY <1>0, <1>1, <1>2, <1>3, <1>4, <1>5, <1>6 DEF Next

-----------------------------------------------------------------------------
(***************************************************************************)
(* The order is kept: new bags are the youngest and go on top.             *)
(***************************************************************************)
LEMMA SortedStep ==
  ASSUME BagTyped, BagInv, BagsSortedByAge,
         \/ \E sbag, pbag : PushesBags(sbag, pbag)
         \/ JoinsBags
         \/ \E bag : PopsBags(bag)
         \/ UNCHANGED bagAges
  PROVE  BagsSortedByAge'
<1>0. PICK h : h = frame_head
  OBVIOUS
<1>1. /\ h \in Nat /\ h \in Levels /\ h \in Depth /\ Depth \subseteq Levels
      /\ \A k \in Depth : k \in Nat /\ k <= h /\ (k < h => k + 1 \in Depth)
      /\ Depth = 0 .. h
  BY <1>0, Ranges DEF Depth, Levels
<1>2. /\ Sbag \in [Levels -> Nodes \cup {NULL}] /\ Pbag \in [Levels -> Nodes \cup {NULL}]
      /\ \A k \in Depth : Sbag[k] \in Nat /\ Sbag[k] <= dset_size
      /\ \A k \in Depth : Pbag[k] # NULL => Pbag[k] \in Nat /\ Pbag[k] <= dset_size
      /\ dset_size \in Nat
  <2>1. Sbag \in [Levels -> Nodes \cup {NULL}] /\ Pbag \in [Levels -> Nodes \cup {NULL}]
    BY DEF BagTyped
  <2>2. dset_size \in Nat /\ \A n \in 1 .. dset_size : n \in Nat /\ n <= dset_size
    BY Ranges
  <2>3. /\ \A k \in Depth : Sbag[k] \in 1 .. dset_size
        /\ \A k \in Depth : Pbag[k] # NULL => Pbag[k] \in 1 .. dset_size
    BY <1>1 DEF BagInv, BagsDistinct
  <2>4. QED
    BY <2>1, <2>2, <2>3
<1>3. ASSUME NEW sbag, NEW pbag, PushesBags(sbag, pbag) PROVE BagsSortedByAge'
  <2>1. /\ h + 1 \in Levels /\ h + 1 \in Nat /\ h # h + 1 /\ frame_head' = h + 1
        /\ sbag \in Nat /\ dset_size < sbag /\ sbag # NULL
        /\ Depth' = 0 .. (h + 1) /\ \A k \in Depth : k # h + 1
    BY <1>0, <1>1, <1>3, Ranges DEF PushesBags, Depth, Levels, Nodes
  <2>2. /\ Sbag'[h + 1] = sbag /\ \A k \in Depth : Sbag'[k] = Sbag[k]
        /\ Pbag'[h] = pbag /\ \A k \in Levels : k # h => Pbag'[k] = Pbag[k]
    BY <1>0, <1>1, <1>2, <1>3, <2>1 DEF PushesBags
  <2>3. Pbag'[h + 1] = NULL
    BY <1>0, <1>1, <2>1, <2>2 DEF BagInv, BagsDistinct
  <2>4. pbag # NULL => Sbag[h] < pbag /\ pbag < sbag
    <3>1. CASE pbag = Pbag[h]
      BY <1>1, <1>2, <2>1, <3>1 DEF BagsSortedByAge
    <3>2. CASE pbag \in Nodes /\ dset_size < pbag /\ pbag < sbag
      BY <1>1, <1>2, <2>1, <3>2, Ranges DEF Nodes
    <3>3. QED
      BY <1>0, <1>3, <3>1, <3>2 DEF PushesBags
  <2>5. ASSUME NEW k \in Depth'
        PROVE  /\ Pbag'[k] # NULL => Sbag'[k] < Pbag'[k]
               /\ k < h + 1 => /\ Sbag'[k] < Sbag'[k + 1]
                               /\ Pbag'[k] # NULL => Pbag'[k] < Sbag'[k + 1]
    <3>1. CASE k = h + 1
      BY <1>1, <2>3, <3>1
    <3>2. CASE k = h
      BY <1>1, <1>2, <2>1, <2>2, <2>4, <3>2
    <3>3. CASE k \in Depth /\ k # h
      <4>1. k < h /\ k + 1 \in Depth
        BY <1>1, <3>3
      <4>2. /\ Sbag'[k] = Sbag[k] /\ Sbag'[k + 1] = Sbag[k + 1] /\ Pbag'[k] = Pbag[k]
        BY <1>1, <2>2, <3>3, <4>1
      <4>3. QED
        BY <1>0, <3>3, <4>1, <4>2 DEF BagsSortedByAge
    <3>4. k = h + 1 \/ k \in Depth
      BY <1>1, <2>1
    <3>5. QED
      BY <3>1, <3>2, <3>3, <3>4
  <2>6. QED
    BY <2>1, <2>5 DEF BagsSortedByAge
<1>4. CASE JoinsBags
  BY <1>0, <1>1, <1>2, <1>4 DEF JoinsBags, BagsSortedByAge, Depth
<1>5. ASSUME NEW bag, PopsBags(bag) PROVE BagsSortedByAge'
  <2>1. /\ frame_head' = h - 1 /\ 0 < h /\ Depth' = 0 .. (h - 1) /\ Pbag' = Pbag
        /\ \A k \in 0 .. (h - 1) : k \in Depth /\ k < h /\ Sbag'[k] = Sbag[k]
    BY <1>0, <1>1, <1>2, <1>5 DEF PopsBags, Depth
  <2>2. ASSUME NEW k \in 0 .. (h - 1)
        PROVE  /\ Pbag'[k] # NULL => Sbag'[k] < Pbag'[k]
               /\ k < h - 1 => /\ Sbag'[k] < Sbag'[k + 1]
                               /\ Pbag'[k] # NULL => Pbag'[k] < Sbag'[k + 1]
    <3>1. k < h - 1 => k + 1 \in 0 .. (h - 1)
      BY <1>1
    <3>2. QED
      BY <1>0, <2>1, <3>1 DEF BagsSortedByAge
  <2>3. QED
    BY <2>1, <2>2 DEF BagsSortedByAge
<1>6. CASE UNCHANGED bagAges
  BY <1>6 DEF bagAges, BagsSortedByAge, Depth
<1>7. QED
  BY <1>3, <1>4, <1>5, <1>6

(***************************************************************************)
(* Every step is a step of Partition or leaves the sets alone.             *)
(***************************************************************************)
LEMMA ImplementsStep ==
  ASSUME BagTyped, BagInv, BagsSortedByAge,
         \/ \E sbag, pbag : PushesBags(sbag, pbag)
         \/ JoinsBags
         \/ \E bag : PopsBags(bag)
         \/ UNCHANGED bagAges
  PROVE  [Bags!Next]_<<dset_size, set_node>>
<1>0. PICK h : h = frame_head
  OBVIOUS
<1>1. h \in Nat /\ h \in Levels /\ h \in Depth /\ dset_size \in Nat
  BY <1>0, Ranges DEF Levels
<1>2. ASSUME NEW sbag, NEW pbag, PushesBags(sbag, pbag) PROVE Bags!Create
  BY <1>2, Ranges DEF PushesBags, Bags!Create, Nodes
<1>3. ASSUME NEW this \in 1 .. dset_size, NEW that \in 1 .. dset_size,
             set_node[this] = this, set_node[that] = that, this < that,
             set_node' = Combined(this, that), dset_size' = dset_size
      PROVE  Bags!Next
  <2>1. Bags!Combine(this, that)
    BY <1>3 DEF Bags!Combine, Bags!Nodes, Combined, Nodes
  <2>2. QED
    BY <2>1 DEF Bags!Next
<1>4. CASE JoinsBags
  <2>1. CASE Pbag[h] = NULL
    BY <1>0, <1>4, <2>1 DEF JoinsBags
  <2>2. CASE Pbag[h] # NULL
    <3>1. /\ Sbag[h] \in 1 .. dset_size /\ set_node[Sbag[h]] = Sbag[h]
          /\ Pbag[h] \in 1 .. dset_size /\ set_node[Pbag[h]] = Pbag[h]
          /\ Sbag[h] < Pbag[h]
      BY <1>1, <2>2 DEF BagInv, BagsDistinct, BagsSortedByAge
    <3>2. QED
      BY <1>0, <1>3, <1>4, <2>2, <3>1 DEF JoinsBags
  <2>3. QED
    BY <2>1, <2>2
<1>5. ASSUME NEW bag, PopsBags(bag) PROVE Bags!Next
  <2>1. PICK p : p = h - 1
    OBVIOUS
  <2>2. p \in Depth /\ p \in Levels /\ p < h /\ h = p + 1
    BY <1>0, <1>1, <1>5, <2>1, Ranges DEF PopsBags, Depth
  <2>3. /\ bag = Sbag[p] \/ (bag = Pbag[p] /\ Pbag[p] # NULL)
        /\ set_node' = Combined(bag, Sbag[h]) /\ dset_size' = dset_size
    BY <1>0, <1>5, <2>1 DEF PopsBags
  <2>4. /\ bag \in 1 .. dset_size /\ set_node[bag] = bag
        /\ Sbag[h] \in 1 .. dset_size /\ set_node[Sbag[h]] = Sbag[h]
    BY <1>1, <2>2, <2>3 DEF BagInv, BagsDistinct
  <2>5. bag < Sbag[h]
    BY <1>0, <2>2, <2>3 DEF BagsSortedByAge
  <2>6. QED
    BY <1>3, <2>3, <2>4, <2>5
<1>6. CASE UNCHANGED bagAges
  BY <1>6 DEF bagAges
<1>7. QED
  BY <1>2, <1>4, <1>5, <1>6 DEF Bags!Next

-----------------------------------------------------------------------------
\* The bags on frame_stack are always sorted by age.
LEMMA AlwaysSorted == Spec => []BagsSortedByAge
<1>1. Init => BagsSortedByAge
  BY BoundsAssumption DEF Init, BagsSortedByAge, Depth, Levels
<1>2. IInv /\ BagsSortedByAge /\ [Next]_vars => BagsSortedByAge'
  <2>1. IInv => BagsInv
    BY TypeParts DEF IInv, BagsInv
  <2>2. QED
    BY <2>1, BagSteps, SortedStep DEF BagsInv
<1>3. QED
  BY <1>1, <1>2, InductiveInvariant, PTL DEF Spec

\* cilksan uses its disjoint sets as the NOTE in disjointset.h requires, for
\* every program: combine always merges a younger set into an older one, so
\* the oldest node goes on representing its set.
THEOREM ImplementsPartition == Spec => UsesDisjointSetsAsRequired
<1>1. Init => Bags!Init
  BY BoundsAssumption DEF Init, Bags!Init, Bags!Nodes, Nodes
<1>2. IInv /\ BagsSortedByAge /\ [Next]_vars => [Bags!Next]_<<dset_size, set_node>>
  <2>1. IInv => BagsInv
    BY TypeParts DEF IInv, BagsInv
  <2>2. QED
    BY <2>1, BagSteps, ImplementsStep DEF BagsInv
<1>3. QED
  BY <1>1, <1>2, InductiveInvariant, AlwaysSorted, PTL
     DEF Spec, UsesDisjointSetsAsRequired, Bags!Spec

-----------------------------------------------------------------------------
(***************************************************************************)
(* What cilksan asserts and what its model of the deque, its statistics    *)
(* and its ancestors rest on, for every program and every bound: no        *)
(* assertion of the tool can fail.                                         *)
(*                                                                         *)
(* frame_stack and entry_stack are popped by different handlers, and       *)
(* nothing in the tool ties one to the other.  The program does: StackShape *)
(* says which frame belongs to which entry, and with it a frame's bags,    *)
(* block sizes and deque entry can be followed from the handler that makes *)
(* them to the one that asserts something of them.                         *)
(***************************************************************************)

\* Entries 1 .. i of a call stack p that have a frame: a Cilk function has
\* one from its entry on, a spawn helper from its detach on.
FramesIn(p, i) == Cardinality({j \in 1 .. i : p[j] \in {"cilk", "spawned"}})
FrameAt(i) == FramesIn(prog, i)

IsHelper(i) == prog[i] \in {"helper", "spawned"}

\* A helper is called by a Cilk function.
CallStack ==
  /\ prog[0] = "main"
  /\ \A i \in 1 .. prog_depth : prog[i] # "main"
  /\ \A i \in 1 .. prog_depth : IsHelper(i) => i > 1 /\ prog[i - 1] = "cilk"

\* Between leave_begin and leave_end the entry that leaves has no frame any
\* more.
StackShape ==
  /\ CallStack
  /\ FrameAt(prog_depth) = IF pc = "leaving" THEN frame_head + 1 ELSE frame_head

\* The handler that opened the tool's section is the last event.
Phases ==
  /\ pc \in {"user", "called", "exited"} => last_event = "NONE"
  /\ pc = "prepared"  => last_event = "SPAWN_PREPARE" /\ prog[prog_depth] = "cilk"
  /\ pc = "called"    => prog[prog_depth] = "cilk"
  /\ pc = "entering"  => last_event \in {"ENTER_FRAME", "ENTER_HELPER"}
  /\ pc = "detaching" => last_event = "DETACH" /\ prog[prog_depth] = "helper"
  /\ pc = "syncing"   => last_event = "CILK_SYNC" /\ prog[prog_depth] = "cilk"
  /\ pc = "leaving"   => /\ last_event = "LEAVE_FRAME_OR_HELPER"
                         /\ prog[prog_depth] \in {"cilk", "spawned"}

\* A spawned child of frame k is still on the stack.
ChildOutstanding(k) ==
  k < frame_head /\ \E i \in 1 .. prog_depth : prog[i] = "spawned" /\ FrameAt(i) = k + 1

\* A frame has a P-bag from the first spawn of a block to its sync, and then
\* something to join or a child that has not returned.
Blocks ==
  /\ \A k \in Levels : frame_head < k => Sbag[k] = NULL
  /\ \A k \in Depth :
       /\ past[k] # {}
       /\ current_sync_block_size[k] = spawned[k]
       /\ Pbag[k] = NULL => spawned[k] = 0
       /\ Pbag[k] # NULL => joined[k] # {} \/ ChildOutstanding(k)
  /\ \A i \in 1 .. prog_depth :
       prog[i] = "spawned" => Pbag[FrameAt(i)] = NULL /\ Pbag[FrameAt(i) - 1] # NULL

\* y is the youngest helper among entries 1 .. i of call stack p, or 0.
YoungestIn(p, y, i) ==
  /\ y = 0 \/ (y \in 1 .. i /\ p[y] \in {"helper", "spawned"})
  /\ \A j \in 1 .. i : p[j] \in {"helper", "spawned"} => j <= y

\* The helpers form a list from the youngest down, and the deque spans it.
Deque ==
  /\ rts_deque_begin \in {0, 1} /\ frame_type[0] = "FULL"
  /\ YoungestIn(prog, youngest_active_helper, entry_head)
  /\ rts_deque_end = IF youngest_active_helper = 0 THEN rts_deque_begin ELSE youngest_active_helper
  /\ \A i \in 1 .. entry_head : IsHelper(i) => YoungestIn(prog, prev_helper[i], i - 1)

\* A strand whose bag is at level k is nested in the instances up to that
\* level and in none above; a P-bag answers with the S-bag of its own level.
Ancestors ==
  /\ \A k \in Depth : inst[k] \in 1 .. nstrands
  /\ \A s \in 1 .. nstrands :
       /\ lineage[s] \subseteq 1 .. nstrands
       /\ \A k \in Depth : rep(s) \in {Sbag[k], Pbag[k]} =>
            \A j \in Depth : inst[j] \in lineage[s] <=> j <= k
  /\ \A k \in Depth : /\ sib_sbag[Sbag[k]] = Sbag[k]
                      /\ Pbag[k] # NULL => sib_sbag[Pbag[k]] = Sbag[k]
  /\ \A n \in Nodes : dset_size < n => sib_sbag[n] = n

\* The depth a frame starts at is the spawns pending below it, and the maxima
\* lag behind the program's only by blocks that are still open.
Counts ==
  /\ init_cont_depth[0] = 0
  /\ \A k \in Depth : k < frame_head => init_cont_depth[k + 1] = init_cont_depth[k] + spawned[k]
  /\ \A j, k \in Depth : j < k => init_cont_depth[j] + spawned[j] <= init_cont_depth[k]
  /\ pending = init_cont_depth[frame_head] + spawned[frame_head]
  /\ accounted_max_cont_depth = deepest /\ pending <= deepest
  /\ accounted_max_sync_block_size <= largest
  /\ \A k \in Depth : spawned[k] <= largest
  /\ \/ largest = accounted_max_sync_block_size
     \/ \E k \in Depth : spawned[k] = largest

\* With the invariant of the bags (IInv), this one is inductive.
SafeInv ==
  /\ ~died /\ CheckingMatchesPhase /\ Phases /\ StackShape
  /\ Blocks /\ Deque /\ Ancestors /\ Counts

-----------------------------------------------------------------------------
(***************************************************************************)
(* Counting frames.                                                        *)
(***************************************************************************)
LEMMA FramesInType ==
  ASSUME NEW p, NEW i \in Nat
  PROVE  /\ IsFiniteSet({j \in 1 .. i : p[j] \in {"cilk", "spawned"}})
         /\ FramesIn(p, i) \in Nat
<1>1. IsFiniteSet(1 .. i)
  BY FS_Interval
<1>2. {j \in 1 .. i : p[j] \in {"cilk", "spawned"}} \in SUBSET (1 .. i)
  OBVIOUS
<1>3. IsFiniteSet({j \in 1 .. i : p[j] \in {"cilk", "spawned"}})
  BY <1>1, <1>2, FS_Subset
<1>4. QED
  BY <1>3, FS_CardinalityType DEF FramesIn

\* No entries, no frames.
LEMMA FramesInZero == ASSUME NEW p PROVE FramesIn(p, 0) = 0
<1>1. {j \in 1 .. 0 : p[j] \in {"cilk", "spawned"}} = {}
  OBVIOUS
<1>2. QED
  BY <1>1, FS_EmptySet DEF FramesIn

\* An entry adds a frame, or none.
LEMMA FramesInStep ==
  ASSUME NEW p, NEW i \in Nat
  PROVE  FramesIn(p, i + 1) =
           FramesIn(p, i) + (IF p[i + 1] \in {"cilk", "spawned"} THEN 1 ELSE 0)
<1> DEFINE F(n) == {j \in 1 .. n : p[j] \in {"cilk", "spawned"}}
<1>1. IsFiniteSet(F(i)) /\ i + 1 \notin F(i) /\ FramesIn(p, i) \in Nat
  BY FramesInType
<1>2. CASE p[i + 1] \in {"cilk", "spawned"}
  <2>1. F(i + 1) = F(i) \cup {i + 1}
    BY <1>2
  <2>2. Cardinality(F(i) \cup {i + 1}) = Cardinality(F(i)) + 1
    BY <1>1, FS_AddElement
  <2>3. QED
    BY <1>2, <2>1, <2>2 DEF FramesIn
<1>3. CASE p[i + 1] \notin {"cilk", "spawned"}
  <2>1. F(i + 1) = F(i)
    BY <1>3
  <2>2. QED
    BY <1>1, <1>3, <2>1 DEF FramesIn
<1>4. QED
  BY <1>2, <1>3

\* Frames above are counted later.
LEMMA FramesInGrows ==
  ASSUME NEW p, NEW i \in Nat, NEW j \in Nat, i <= j
  PROVE  /\ FramesIn(p, i) <= FramesIn(p, j)
         /\ i < j /\ p[j] \in {"cilk", "spawned"} => FramesIn(p, i) < FramesIn(p, j)
<1>1. ASSUME NEW n \in Nat, i <= n PROVE FramesIn(p, i) <= FramesIn(p, n)
  <2>1. {k \in 1 .. i : p[k] \in {"cilk", "spawned"}}
          \in SUBSET {k \in 1 .. n : p[k] \in {"cilk", "spawned"}}
    BY <1>1
  <2>2. IsFiniteSet({k \in 1 .. n : p[k] \in {"cilk", "spawned"}})
    BY FramesInType
  <2>3. QED
    BY <2>1, <2>2, FS_Subset DEF FramesIn
<1>2. ASSUME i < j, p[j] \in {"cilk", "spawned"} PROVE FramesIn(p, i) < FramesIn(p, j)
  <2>1. j - 1 \in Nat /\ i <= j - 1 /\ (j - 1) + 1 = j
    BY <1>2
  <2>2. FramesIn(p, j) = FramesIn(p, j - 1) + 1
    BY <1>2, <2>1, FramesInStep
  <2>3. FramesIn(p, i) <= FramesIn(p, j - 1)
    BY <1>1, <2>1
  <2>4. FramesIn(p, i) \in Nat /\ FramesIn(p, j - 1) \in Nat
    BY <2>1, FramesInType
  <2>5. QED
    BY <2>2, <2>3, <2>4
<1>3. QED
  BY <1>1, <1>2

\* The count depends on the entries counted only.
LEMMA FramesInSame ==
  ASSUME NEW p, NEW q, NEW i \in Nat, \A j \in 1 .. i : p[j] = q[j]
  PROVE  FramesIn(p, i) = FramesIn(q, i)
<1>1. {j \in 1 .. i : p[j] \in {"cilk", "spawned"}} = {j \in 1 .. i : q[j] \in {"cilk", "spawned"}}
  OBVIOUS
<1>2. QED
  BY <1>1 DEF FramesIn

\* The ranges of the entry stack.
LEMMA EntryRanges ==
  ASSUME EntriesInv
  PROVE  /\ entry_head = prog_depth /\ prog_depth \in Nat /\ MaxEntries \in Nat
         /\ prog_depth \in Entries /\ 0 \in Entries /\ prog_depth <= MaxEntries
         /\ \A i \in 0 .. prog_depth : i \in Entries /\ i \in Nat
         /\ prog_depth < MaxEntries => prog_depth + 1 \in Entries
         /\ prog \in [Entries -> {"main", "cilk", "helper", "spawned"}]
  BY BoundsAssumption DEF EntriesInv, EntriesTyped, EntriesMatch, Entries

-----------------------------------------------------------------------------
(***************************************************************************)
(* The phases.                                                             *)
(***************************************************************************)
\* What the handlers ask of last_event and of the checking flag holds.
LEMMA PhasesStep ==
  ASSUME FlagsTyped, EntriesInv, Phases, CheckingMatchesPhase, Next, ~Die, ~died'
  PROVE  Phases' /\ CheckingMatchesPhase'
<1> USE DEF Phases, CheckingMatchesPhase, FlagsTyped, PCs, enable_checking, disable_checking
<1>1. CASE cilk_enter_begin
  BY <1>1, EntryRanges DEF cilk_enter_begin, ProgramCalls
<1>2. CASE cilk_enter_helper_begin
  BY <1>2, EntryRanges DEF cilk_enter_helper_begin, ProgramCalls
<1>3. CASE cilk_enter_end
  BY <1>3 DEF cilk_enter_end, progVars
<1>4. CASE cilk_spawn_prepare \/ cilk_detach_begin \/ cilk_sync_begin
  BY <1>4 DEF cilk_spawn_prepare, cilk_detach_begin, cilk_sync_begin, InUser, progVars
<1>5. CASE cilk_spawn_or_continue
  BY <1>5 DEF cilk_spawn_or_continue, progVars
<1>6. CASE cilk_detach_end
  BY <1>6 DEF cilk_detach_end
<1>7. CASE cilk_sync_end
  BY <1>7 DEF cilk_sync_end, progVars
<1>8. CASE cilk_leave_begin
  BY <1>8 DEF cilk_leave_begin, InUser, progVars
<1>9. CASE cilk_leave_end
  BY <1>9 DEF cilk_leave_end
<1>10. CASE __cilksan_disable_checking \/ __cilksan_enable_checking
  BY <1>10 DEF __cilksan_disable_checking, __cilksan_enable_checking, progVars
<1>11. CASE cilksan_deinit
  BY <1>11 DEF cilksan_deinit, InUser, progVars, driverVars
<1>12. QED
  BY <1>1, <1>2, <1>3, <1>4, <1>5, <1>6, <1>7, <1>8, <1>9, <1>10, <1>11 DEF Next

-----------------------------------------------------------------------------
(***************************************************************************)
(* The two stacks.                                                         *)
(***************************************************************************)
StackInv == FlagsTyped /\ EntriesInv /\ BagsInv /\ Phases /\ StackShape

\* A call or the entry of a helper: every frame on the stack keeps its entry.
LEMMA CallGrows ==
  ASSUME EntriesInv, CallStack, frame_head \in Nat, FrameAt(prog_depth) = frame_head,
         prog_depth < MaxEntries, NEW what \in {"cilk", "helper"}, ProgramCalls(what),
         what = "helper" => prog[prog_depth] = "cilk",
         frame_head' = IF what = "cilk" THEN frame_head + 1 ELSE frame_head
  PROVE  /\ CallStack' /\ FrameAt(prog_depth)' = frame_head'
         /\ \A i \in 0 .. prog_depth : prog'[i] = prog[i] /\ FrameAt(i)' = FrameAt(i)
         /\ prog_depth' = prog_depth + 1 /\ prog'[prog_depth + 1] = what
<1>1. /\ prog_depth \in Nat /\ prog_depth + 1 \in Entries
      /\ \A i \in 0 .. prog_depth : i \in Entries /\ i \in Nat
      /\ prog \in [Entries -> {"main", "cilk", "helper", "spawned"}]
  BY EntryRanges
<1>2. /\ prog_depth' = prog_depth + 1 /\ prog'[prog_depth + 1] = what
      /\ \A i \in 0 .. prog_depth : prog'[i] = prog[i]
  BY <1>1 DEF ProgramCalls
<1>3. ASSUME NEW i \in 0 .. prog_depth PROVE FrameAt(i)' = FrameAt(i)
  <2>1. \A j \in 1 .. i : prog[j] = prog'[j]
    BY <1>1, <1>2
  <2>2. FramesIn(prog, i) = FramesIn(prog', i)
    BY <1>1, <2>1, FramesInSame
  <2>3. QED
    BY <2>2 DEF FrameAt, FramesIn
<1>4. prog'[0] = "main"
  BY <1>1, <1>2 DEF CallStack
<1>5. ASSUME NEW i \in 1 .. prog_depth'
      PROVE  prog'[i] # "main" /\ (IsHelper(i)' => i > 1 /\ prog'[i - 1] = "cilk")
  <2>1. CASE i \in 1 .. prog_depth
    <3>1. /\ i \in 0 .. prog_depth /\ i - 1 \in 0 .. prog_depth
          /\ prog[i] # "main" /\ (IsHelper(i) => i > 1 /\ prog[i - 1] = "cilk")
      BY <1>1, <2>1 DEF CallStack
    <3>2. QED
      BY <1>2, <3>1 DEF IsHelper
  <2>2. CASE i = prog_depth + 1
    <3>1. prog_depth \in 0 .. prog_depth /\ (prog_depth + 1) - 1 = prog_depth
      BY <1>1
    <3>2. prog_depth = 0 => prog[prog_depth] = "main"
      BY DEF CallStack
    <3>3. what = "helper" => prog_depth + 1 > 1
      BY <1>1, <3>2
    <3>4. QED
      BY <1>2, <2>2, <3>1, <3>3 DEF IsHelper
  <2>3. QED
    BY <1>1, <1>2, <2>1, <2>2
<1>6. FramesIn(prog', prog_depth + 1) = frame_head'
  <2>1. FramesIn(prog', prog_depth + 1) =
          FramesIn(prog', prog_depth)
            + (IF prog'[prog_depth + 1] \in {"cilk", "spawned"} THEN 1 ELSE 0)
    BY <1>1, FramesInStep
  <2>2. FramesIn(prog', prog_depth) = frame_head
    <3>1. prog_depth \in 0 .. prog_depth
      BY <1>1
    <3>2. \A i \in 0 .. prog_depth : FramesIn(prog', i) = FramesIn(prog, i)
      BY <1>3 DEF FrameAt, FramesIn
    <3>3. FramesIn(prog, prog_depth) = frame_head
      BY DEF CallStack, FrameAt
    <3>4. QED
      BY <3>1, <3>2, <3>3
  <2>3. frame_head \in Nat
    BY Ranges
  <2>4. QED
    BY <1>2, <2>1, <2>2, <2>3
<1>7. FrameAt(prog_depth)' = frame_head'
  BY <1>2, <1>6 DEF FrameAt, FramesIn
<1>8. QED
  BY <1>2, <1>3, <1>4, <1>5, <1>7 DEF CallStack

\* A detach: the helper's entry gets its frame.
LEMMA DetachFrames ==
  ASSUME EntriesInv, CallStack, frame_head \in Nat, FrameAt(prog_depth) = frame_head,
         prog[prog_depth] = "helper",
         prog' = [prog EXCEPT ![prog_depth] = "spawned"], prog_depth' = prog_depth,
         frame_head' = frame_head + 1
  PROVE  /\ CallStack' /\ FrameAt(prog_depth)' = frame_head'
         /\ prog_depth \in 2 .. prog_depth /\ prog[prog_depth - 1] = "cilk"
         /\ prog'[prog_depth] = "spawned" /\ FrameAt(prog_depth)' = frame_head + 1
         /\ \A i \in 0 .. (prog_depth - 1) : prog'[i] = prog[i] /\ FrameAt(i)' = FrameAt(i)
         /\ FrameAt(prog_depth - 1) = frame_head
<1>1. /\ prog_depth \in Nat /\ prog_depth \in Entries
      /\ \A i \in 0 .. prog_depth : i \in Entries /\ i \in Nat
      /\ prog \in [Entries -> {"main", "cilk", "helper", "spawned"}]
      /\ frame_head \in Nat
  BY EntryRanges
<1>2. prog[prog_depth] = "helper" /\ prog_depth # 0
  BY DEF CallStack
<1>3. prog_depth > 1 /\ prog[prog_depth - 1] = "cilk"
  BY <1>1, <1>2 DEF CallStack, IsHelper
<1>4. prog'[prog_depth] = "spawned" /\ \A i \in 0 .. (prog_depth - 1) : prog'[i] = prog[i]
  BY <1>1
<1>5. ASSUME NEW i \in 0 .. (prog_depth - 1) PROVE FrameAt(i)' = FrameAt(i)
  <2>1. i \in Nat
    BY <1>1
  <2>2. \A j \in 1 .. i : prog[j] = prog'[j]
    BY <1>1, <1>4
  <2>3. FramesIn(prog, i) = FramesIn(prog', i)
    BY <2>1, <2>2, FramesInSame, ZenonT(30)
  <2>4. QED
    BY <2>3 DEF FrameAt, FramesIn
<1>6. prog_depth - 1 \in Nat /\ (prog_depth - 1) + 1 = prog_depth
  BY <1>1, <1>3
<1>7. FrameAt(prog_depth - 1) = frame_head
  <2>1. FrameAt(prog_depth) = frame_head
    BY DEF CallStack
  <2>2. FramesIn(prog, prog_depth) = FramesIn(prog, prog_depth - 1) + 0
    BY <1>2, <1>6, FramesInStep
  <2>3. FramesIn(prog, prog_depth - 1) \in Nat
    BY <1>6, FramesInType
  <2>4. QED
    BY <2>1, <2>2, <2>3 DEF FrameAt
<1>8. FrameAt(prog_depth)' = frame_head + 1
  <2>1. FramesIn(prog', prog_depth) = FramesIn(prog', prog_depth - 1) + 1
    BY <1>4, <1>6, FramesInStep
  <2>2. FramesIn(prog', prog_depth - 1) = frame_head
    <3>1. prog_depth - 1 \in 0 .. (prog_depth - 1)
      BY <1>6
    <3>2. FrameAt(prog_depth - 1)' = FrameAt(prog_depth - 1)
      BY <1>5, <3>1
    <3>3. QED
      BY <1>7, <3>2 DEF FrameAt, FramesIn
  <2>3. QED
    BY <2>1, <2>2 DEF FrameAt, FramesIn
<1>9. CallStack'
  <2>1. prog'[0] = "main"
    BY <1>1, <1>3, <1>4 DEF CallStack
  <2>2. ASSUME NEW i \in 1 .. prog_depth
        PROVE  prog'[i] # "main" /\ (IsHelper(i)' => i > 1 /\ prog'[i - 1] = "cilk")
    <3>1. CASE i = prog_depth
      BY <1>1, <1>3, <1>4, <1>6, <3>1
    <3>2. CASE i # prog_depth
      <4>1. i \in 0 .. (prog_depth - 1) /\ i - 1 \in 0 .. (prog_depth - 1)
        BY <1>1, <3>2
      <4>2. prog[i] # "main" /\ (IsHelper(i) => i > 1 /\ prog[i - 1] = "cilk")
        BY DEF CallStack
      <4>3. QED
        BY <1>4, <4>1, <4>2 DEF IsHelper
    <3>3. QED
      BY <3>1, <3>2
  <2>3. QED
    BY <1>8, <2>1, <2>2 DEF CallStack
<1>10. QED
  BY <1>1, <1>3, <1>4, <1>5, <1>7, <1>8, <1>9

\* The entry on top, once its function has returned or is about to, is the
\* only one of its frame.
LEMMA TopEntry ==
  ASSUME EntriesInv, CallStack, prog[prog_depth] \in {"cilk", "spawned"}
  PROVE  /\ prog_depth \in 1 .. prog_depth /\ FrameAt(prog_depth) \in Nat
         /\ FrameAt(prog_depth) > 0
         /\ \A i \in 0 .. (prog_depth - 1) : FrameAt(i) \in Nat /\ FrameAt(i) < FrameAt(prog_depth)
         /\ FrameAt(prog_depth - 1) = FrameAt(prog_depth) - 1
<1>1. prog_depth \in Nat /\ prog_depth # 0
  BY EntryRanges DEF CallStack
<1>2. prog_depth - 1 \in Nat /\ (prog_depth - 1) + 1 = prog_depth /\ prog_depth \in 1 .. prog_depth
  BY <1>1
<1>3. FramesIn(prog, prog_depth) = FramesIn(prog, prog_depth - 1) + 1
  BY <1>2, FramesInStep
<1>4. FramesIn(prog, prog_depth) \in Nat /\ FramesIn(prog, prog_depth - 1) \in Nat
  BY <1>1, <1>2, FramesInType
<1>5. ASSUME NEW i \in 0 .. (prog_depth - 1)
      PROVE  FramesIn(prog, i) \in Nat /\ FramesIn(prog, i) < FramesIn(prog, prog_depth)
  <2>1. i \in Nat /\ i < prog_depth /\ i <= prog_depth
    BY <1>1
  <2>2. QED
    BY <1>1, <2>1, FramesInType, FramesInGrows
<1>6. QED
  BY <1>2, <1>3, <1>4, <1>5 DEF FrameAt

\* The same in the module's invariant: a call or the entry of a helper keeps
\* StackShape.
LEMMA CallShape ==
  ASSUME StackInv, pc # "leaving", pc' # "leaving", prog_depth < MaxEntries,
         NEW what \in {"cilk", "helper"}, ProgramCalls(what),
         what = "helper" => prog[prog_depth] = "cilk",
         frame_head' = IF what = "cilk" THEN frame_head + 1 ELSE frame_head
  PROVE  /\ StackShape'
         /\ \A i \in 0 .. prog_depth : prog'[i] = prog[i] /\ FrameAt(i)' = FrameAt(i)
         /\ prog_depth' = prog_depth + 1 /\ prog'[prog_depth + 1] = what
  BY CallGrows, Ranges DEF StackInv, BagsInv, StackShape, CallStack

\* A detach keeps StackShape.
LEMMA DetachShape ==
  ASSUME StackInv, pc = "detaching", pc' # "leaving",
         prog' = [prog EXCEPT ![prog_depth] = "spawned"], prog_depth' = prog_depth,
         frame_head' = frame_head + 1
  PROVE  /\ StackShape'
         /\ prog_depth \in 2 .. prog_depth /\ prog[prog_depth - 1] = "cilk"
         /\ prog'[prog_depth] = "spawned" /\ FrameAt(prog_depth)' = frame_head + 1
         /\ \A i \in 0 .. (prog_depth - 1) : prog'[i] = prog[i] /\ FrameAt(i)' = FrameAt(i)
         /\ FrameAt(prog_depth - 1) = frame_head
<1>1. /\ EntriesInv /\ CallStack /\ frame_head \in Nat
      /\ FrameAt(prog_depth) = frame_head /\ prog[prog_depth] = "helper"
  BY Ranges DEF StackInv, BagsInv, StackShape, CallStack, Phases
<1>2. QED
  BY <1>1, DetachFrames DEF StackShape, CallStack

\* The top entry in the module's invariant.
LEMMA TopFrame ==
  ASSUME StackInv, prog[prog_depth] \in {"cilk", "spawned"}
  PROVE  /\ prog_depth \in 1 .. prog_depth /\ FrameAt(prog_depth) \in Nat
         /\ FrameAt(prog_depth) > 0
         /\ \A i \in 0 .. (prog_depth - 1) : FrameAt(i) \in Nat /\ FrameAt(i) < FrameAt(prog_depth)
         /\ FrameAt(prog_depth - 1) = FrameAt(prog_depth) - 1
  BY TopEntry DEF StackInv, StackShape, CallStack

\* So does a step that moves neither stack.
LEMMA StackUnchanged ==
  ASSUME StackShape, UNCHANGED <<prog, prog_depth, frame_head>>, pc # "leaving", pc' # "leaving"
  PROVE  StackShape'
  BY DEF StackShape, CallStack, FrameAt, FramesIn, IsHelper

\* Every handler keeps StackShape.
LEMMA StackStep ==
  ASSUME StackInv, Next, ~Die, ~died'
  PROVE  StackShape'
<1> USE DEF InUser
<1>1. CASE cilk_enter_begin
  BY <1>1, CallShape DEF cilk_enter_begin, StartNewFunction
<1>2. CASE cilk_enter_helper_begin
  <2>1. /\ pc = "called" /\ pc' = "entering" /\ prog_depth < MaxEntries
        /\ ProgramCalls("helper") /\ frame_head' = frame_head
    BY <1>2 DEF cilk_enter_helper_begin, bagVars, frameVars
  <2>2. prog[prog_depth] = "cilk"
    BY <2>1 DEF StackInv, Phases
  <2>3. QED
    BY <2>1, <2>2, CallShape
<1>3. CASE cilk_detach_end
  BY <1>3, DetachShape DEF cilk_detach_end, StartNewFunction
<1>4. CASE cilk_leave_begin
  <2>1. /\ prog[prog_depth] \in {"cilk", "spawned"} /\ pc = "user" /\ pc' = "leaving"
        /\ frame_head' = frame_head - 1 /\ UNCHANGED <<prog, prog_depth>>
    BY <1>4 DEF cilk_leave_begin, progVars
  <2>2. frame_head \in Nat
    BY Ranges DEF StackInv, BagsInv
  <2>3. QED
    BY <2>1, <2>2 DEF StackInv, StackShape, CallStack, FrameAt, FramesIn, IsHelper
<1>5. CASE cilk_leave_end
  <2>1. /\ pc = "leaving" /\ pc' = "user" /\ prog_depth' = prog_depth - 1
        /\ UNCHANGED <<prog, frame_head>>
    BY <1>5 DEF cilk_leave_end, bagVars, frameVars
  <2>2. prog[prog_depth] \in {"cilk", "spawned"}
    BY <2>1 DEF StackInv, Phases
  <2>3. prog_depth \in Nat /\ frame_head \in Nat
    BY EntryRanges, Ranges DEF StackInv, BagsInv
  <2>4. FrameAt(prog_depth - 1) = frame_head
    BY <2>1, <2>2, <2>3, TopFrame DEF StackInv, StackShape, CallStack
  <2>5. FrameAt(prog_depth)' = frame_head'
    BY <2>1, <2>4 DEF FrameAt, FramesIn
  <2>6. QED
    BY <2>1, <2>3, <2>5 DEF StackInv, StackShape, CallStack, IsHelper
<1>6. CASE \/ cilk_enter_end \/ cilk_spawn_prepare \/ cilk_spawn_or_continue
           \/ cilk_detach_begin \/ cilk_sync_begin \/ cilk_sync_end
           \/ __cilksan_disable_checking \/ __cilksan_enable_checking \/ cilksan_deinit
  BY <1>6, StackUnchanged
     DEF StackInv, cilk_enter_end, cilk_spawn_prepare, cilk_spawn_or_continue,
         cilk_detach_begin, cilk_sync_begin, cilk_sync_end, __cilksan_disable_checking,
         __cilksan_enable_checking, cilksan_deinit, progVars, bagVars, frameVars
<1>7. QED
  BY <1>1, <1>2, <1>3, <1>4, <1>5, <1>6 DEF Next

-----------------------------------------------------------------------------
(***************************************************************************)
(* The blocks of every frame.                                              *)
(***************************************************************************)
BlockInv == StackInv /\ Blocks

\* A child that has been outstanding still is if its parent's level and the
\* entries below the child's are untouched.
LEMMA StillOutstanding ==
  ASSUME NEW k, NEW n, k < frame_head', n <= prog_depth', n \in Nat, prog_depth' \in Nat,
         \E i \in 1 .. n : prog[i] = "spawned" /\ FrameAt(i) = k + 1,
         \A i \in 1 .. n : prog'[i] = prog[i] /\ FrameAt(i)' = FrameAt(i)
  PROVE  ChildOutstanding(k)'
<1>1. PICK i \in 1 .. n : prog[i] = "spawned" /\ FrameAt(i) = k + 1
  OBVIOUS
<1>2. i \in 1 .. prog_depth' /\ prog'[i] = "spawned" /\ FrameAt(i)' = k + 1
  BY <1>1
<1>3. QED
  BY <1>2 DEF ChildOutstanding

\* A function enters: its frame has an empty block.
LEMMA EnterBlocks ==
  ASSUME BlockInv, cilk_enter_begin, ~Die
  PROVE  Blocks'
<1>0. PICK h, s : h = frame_head /\ s = nstrands + 1
  OBVIOUS
<1>1. /\ frame_head' = h + 1 /\ h < MaxFrames /\ prog_depth < MaxEntries
      /\ Sbag' = [Sbag EXCEPT ![h + 1] = dset_size + 1]
      /\ current_sync_block_size' = [current_sync_block_size EXCEPT ![h + 1] = 0]
      /\ past' = [past EXCEPT ![h + 1] = past[h] \cup {s}]
      /\ joined' = [joined EXCEPT ![h + 1] = {}]
      /\ spawned' = [spawned EXCEPT ![h + 1] = 0]
      /\ Pbag' = Pbag /\ ProgramCalls("cilk")
      /\ pc = "user" /\ pc' = "entering"
  BY <1>0 DEF cilk_enter_begin, StartNewFunction, FirstStrandOfChild, InUser
<1>2. /\ h \in Nat /\ h \in Depth /\ h + 1 \in Levels /\ h + 1 \notin Depth /\ MaxFrames \in Nat
      /\ Depth' = Depth \cup {h + 1} /\ Depth \subseteq Levels
      /\ \A k \in Depth : k \in Nat /\ k <= h /\ k < h + 1
      /\ Levels \subseteq Nat
  BY <1>0, <1>1, Ranges DEF BlockInv, StackInv, BagsInv, Depth, Levels
<1>3. /\ \A i \in 0 .. prog_depth : prog'[i] = prog[i] /\ FrameAt(i)' = FrameAt(i)
      /\ prog_depth' = prog_depth + 1 /\ prog'[prog_depth + 1] = "cilk"
      /\ prog_depth \in Nat
  BY <1>0, <1>1, CallShape, EntryRanges DEF BlockInv, StackInv
<1>4. ASSUME NEW k \in Levels, frame_head' < k PROVE Sbag'[k] = NULL
  BY <1>0, <1>1, <1>2, <1>4 DEF BlockInv, Blocks, StackInv, BagsInv, BagTyped
<1>5. ASSUME NEW k \in Depth'
      PROVE  /\ past'[k] # {} /\ current_sync_block_size'[k] = spawned'[k]
             /\ Pbag'[k] = NULL => spawned'[k] = 0
             /\ Pbag'[k] # NULL => joined'[k] # {} \/ ChildOutstanding(k)'
  <2>1. CASE k = h + 1
    <3>1. past'[k] # {} /\ current_sync_block_size'[k] = 0 /\ spawned'[k] = 0
      BY <1>1, <1>2, <2>1 DEF BlockInv, StackInv, BagsInv, BagTyped, CountsTyped
    <3>2. Pbag'[k] = NULL
      BY <1>1, <1>2, <2>1 DEF BlockInv, StackInv, BagsInv, BagInv, BagsDistinct
    <3>3. QED
      BY <3>1, <3>2
  <2>2. CASE k \in Depth
    <3>1. /\ past'[k] = past[k] /\ current_sync_block_size'[k] = current_sync_block_size[k]
          /\ spawned'[k] = spawned[k] /\ joined'[k] = joined[k] /\ Pbag'[k] = Pbag[k]
      BY <1>1, <1>2, <2>2 DEF BlockInv, StackInv, BagsInv, BagTyped, CountsTyped
    <3>2. ChildOutstanding(k) => ChildOutstanding(k)'
      <4>1. k < frame_head' /\ prog_depth <= prog_depth' /\ prog_depth' \in Nat
        BY <1>1, <1>2, <1>3, <2>2
      <4>2. \A i \in 1 .. prog_depth : prog'[i] = prog[i] /\ FrameAt(i)' = FrameAt(i)
        BY <1>3
      <4>3. QED
        BY <1>3, <4>1, <4>2, StillOutstanding DEF ChildOutstanding
    <3>3. QED
      BY <2>2, <3>1, <3>2 DEF BlockInv, Blocks
  <2>3. QED
    BY <1>2, <2>1, <2>2
<1>6. ASSUME NEW i \in 1 .. prog_depth', prog'[i] = "spawned"
      PROVE  Pbag'[FrameAt(i)'] = NULL /\ Pbag'[FrameAt(i)' - 1] # NULL
  <2>1. i \in 1 .. prog_depth /\ i \in 0 .. prog_depth
    BY <1>3, <1>6
  <2>2. prog[i] = "spawned" /\ FrameAt(i)' = FrameAt(i)
    BY <1>3, <1>6, <2>1
  <2>3. QED
    BY <1>1, <2>1, <2>2 DEF BlockInv, Blocks
<1>7. QED
  BY <1>4, <1>5, <1>6 DEF Blocks

\* A helper enters with no frame.
LEMMA HelperBlocks ==
  ASSUME BlockInv, cilk_enter_helper_begin, ~Die
  PROVE  Blocks'
<1>1. /\ pc = "called" /\ pc' = "entering" /\ prog_depth < MaxEntries
      /\ ProgramCalls("helper") /\ UNCHANGED bagVars
  BY DEF cilk_enter_helper_begin
<1>2. prog[prog_depth] = "cilk" /\ frame_head' = frame_head
  BY <1>1 DEF BlockInv, StackInv, Phases, bagVars, frameVars
<1>3. /\ \A i \in 0 .. prog_depth : prog'[i] = prog[i] /\ FrameAt(i)' = FrameAt(i)
      /\ prog_depth' = prog_depth + 1 /\ prog'[prog_depth + 1] = "helper"
      /\ prog_depth \in Nat
  BY <1>1, <1>2, CallShape, EntryRanges DEF BlockInv, StackInv
<1>4. ASSUME NEW k, ChildOutstanding(k) PROVE ChildOutstanding(k)'
  <2>1. prog_depth <= prog_depth' /\ prog_depth' \in Nat
    BY <1>3
  <2>2. \A i \in 1 .. prog_depth : prog'[i] = prog[i] /\ FrameAt(i)' = FrameAt(i)
    BY <1>3
  <2>3. QED
    BY <1>2, <1>3, <1>4, <2>1, <2>2, StillOutstanding DEF ChildOutstanding
<1>5. ASSUME NEW i \in 1 .. prog_depth', prog'[i] = "spawned"
      PROVE  Pbag'[FrameAt(i)'] = NULL /\ Pbag'[FrameAt(i)' - 1] # NULL
  <2>1. i \in 1 .. prog_depth /\ i \in 0 .. prog_depth
    BY <1>3, <1>5
  <2>2. prog[i] = "spawned" /\ FrameAt(i)' = FrameAt(i)
    BY <1>3, <1>5, <2>1
  <2>3. QED
    BY <1>1, <2>1, <2>2 DEF BlockInv, Blocks, bagVars, frameVars
<1>6. QED
  BY <1>1, <1>4, <1>5 DEF BlockInv, Blocks, Depth, bagVars, frameVars, dagVars, countVars

\* A child detaches: the parent's block has one spawn more, and the child is
\* outstanding.
LEMMA DetachBlocks ==
  ASSUME BlockInv, cilk_detach_end, ~Die
  PROVE  Blocks'
<1>0. PICK h, s, pbag, sbag :
        /\ h = frame_head /\ s = nstrands + 1
        /\ pbag = IF Pbag[h] = NULL THEN dset_size + 1 ELSE Pbag[h]
        /\ sbag = IF Pbag[h] = NULL THEN dset_size + 2 ELSE dset_size + 1
  OBVIOUS
<1>1. /\ frame_head' = h + 1 /\ h < MaxFrames
      /\ Sbag' = [Sbag EXCEPT ![h + 1] = sbag]
      /\ current_sync_block_size' =
           [[current_sync_block_size EXCEPT ![h] = @ + 1] EXCEPT ![h + 1] = 0]
      /\ past' = [past EXCEPT ![h + 1] = past[h] \cup {s}]
      /\ joined' = [joined EXCEPT ![h + 1] = {}]
      /\ spawned' = [spawned EXCEPT ![h] = @ + 1, ![h + 1] = 0]
      /\ Pbag' = [Pbag EXCEPT ![h] = pbag]
      /\ prog' = [prog EXCEPT ![prog_depth] = "spawned"] /\ prog_depth' = prog_depth
      /\ pc = "detaching" /\ pc' = "user"
  BY <1>0 DEF cilk_detach_end, StartNewFunction, FirstStrandOfChild
<1>2. /\ h \in Nat /\ h \in Depth /\ h \in Levels /\ h + 1 \in Levels /\ h + 1 \notin Depth
      /\ Depth' = Depth \cup {h + 1} /\ Depth \subseteq Levels /\ MaxFrames \in Nat
      /\ \A k \in Depth : k \in Nat /\ k <= h /\ k < h + 1 /\ (k # h => k < h)
      /\ Levels \subseteq Nat
  BY <1>0, <1>1, Ranges DEF BlockInv, StackInv, BagsInv, Depth, Levels
<1>3. pbag # NULL
  <2>1. dset_size + 1 \in Int /\ NULL \notin Int
    BY BoundsAssumption, Ranges DEF BlockInv, StackInv, BagsInv
  <2>2. QED
    BY <1>0, <2>1
<1>4. /\ prog_depth \in 2 .. prog_depth /\ prog[prog_depth - 1] = "cilk"
      /\ prog'[prog_depth] = "spawned" /\ FrameAt(prog_depth)' = h + 1
      /\ \A i \in 0 .. (prog_depth - 1) : prog'[i] = prog[i] /\ FrameAt(i)' = FrameAt(i)
      /\ FrameAt(prog_depth - 1) = h
      /\ prog_depth \in Nat /\ prog[prog_depth] = "helper"
  <2>1. pc' # "leaving"
    BY <1>1
  <2>2. prog_depth \in Nat /\ prog[prog_depth] = "helper"
    BY <1>1, EntryRanges DEF BlockInv, StackInv, Phases
  <2>3. QED
    BY <1>0, <1>1, <2>1, <2>2, DetachShape DEF BlockInv
<1>d. PICK d : d = prog_depth /\ FrameAt(d)' = h + 1
  BY <1>1, <1>4 DEF FrameAt, FramesIn
<1>5. /\ Pbag'[h] = pbag /\ \A k \in Levels : k # h => Pbag'[k] = Pbag[k]
      /\ Pbag'[h + 1] = NULL
  <2>1. Pbag'[h] = pbag /\ \A k \in Levels : k # h => Pbag'[k] = Pbag[k]
    BY <1>1, <1>2 DEF BlockInv, StackInv, BagsInv, BagTyped
  <2>2. Pbag[h + 1] = NULL /\ h # h + 1
    BY <1>2 DEF BlockInv, StackInv, BagsInv, BagInv, BagsDistinct
  <2>3. QED
    BY <1>2, <2>1, <2>2
<1>6. ASSUME NEW k \in Levels, frame_head' < k PROVE Sbag'[k] = NULL
  BY <1>0, <1>1, <1>2, <1>6 DEF BlockInv, Blocks, StackInv, BagsInv, BagTyped
<1>7. ASSUME NEW k \in Depth'
      PROVE  /\ past'[k] # {} /\ current_sync_block_size'[k] = spawned'[k]
             /\ Pbag'[k] = NULL => spawned'[k] = 0
             /\ Pbag'[k] # NULL => joined'[k] # {} \/ ChildOutstanding(k)'
  <2>1. CASE k = h + 1
    BY <1>1, <1>2, <1>5, <2>1 DEF BlockInv, StackInv, BagsInv, BagTyped, CountsTyped
  <2>2. CASE k = h
    <3>1. past'[h] = past[h] /\ past[h] # {}
      BY <1>1, <1>2 DEF BlockInv, Blocks, StackInv, BagsInv, BagTyped
    <3>2. current_sync_block_size'[h] = spawned'[h]
      BY <1>1, <1>2 DEF BlockInv, Blocks, StackInv, BagsInv, CountsTyped
    <3>3. ChildOutstanding(h)'
      <4>1. h < frame_head' /\ d \in 1 .. prog_depth' /\ prog'[d] = "spawned"
        BY <1>1, <1>2, <1>4, <1>d
      <4>2. QED
        BY <1>d, <4>1 DEF ChildOutstanding
    <3>4. QED
      BY <1>3, <1>5, <2>2, <3>1, <3>2, <3>3
  <2>3. CASE k \in Depth /\ k # h
    <3>1. /\ past'[k] = past[k] /\ current_sync_block_size'[k] = current_sync_block_size[k]
          /\ spawned'[k] = spawned[k] /\ joined'[k] = joined[k] /\ Pbag'[k] = Pbag[k]
      BY <1>1, <1>2, <2>3 DEF BlockInv, StackInv, BagsInv, BagTyped, CountsTyped
    <3>2. ChildOutstanding(k) => ChildOutstanding(k)'
      <4>1. SUFFICES ASSUME ChildOutstanding(k) PROVE ChildOutstanding(k)'
        OBVIOUS
      <4>2. PICK i \in 1 .. prog_depth : prog[i] = "spawned" /\ FrameAt(i) = k + 1
        BY <4>1 DEF ChildOutstanding
      <4>3. i # prog_depth
        BY <1>4, <4>2
      <4>4. i \in 0 .. (prog_depth - 1)
        BY <1>4, <4>3
      <4>5. k < frame_head' /\ i \in 1 .. prog_depth' /\ prog'[i] = "spawned" /\ FrameAt(i)' = k + 1
        BY <1>1, <1>2, <1>4, <2>3, <4>2, <4>4
      <4>6. QED
        BY <4>5 DEF ChildOutstanding
    <3>3. QED
      BY <2>3, <3>1, <3>2 DEF BlockInv, Blocks
  <2>4. QED
    BY <1>2, <2>1, <2>2, <2>3
<1>8. ASSUME NEW i \in 1 .. prog_depth', prog'[i] = "spawned"
      PROVE  Pbag'[FrameAt(i)'] = NULL /\ Pbag'[FrameAt(i)' - 1] # NULL
  <2>1. CASE i = prog_depth
    <3>1. FrameAt(i)' = h + 1 /\ (h + 1) - 1 = h
      BY <1>2, <1>d, <2>1
    <3>2. QED
      BY <1>3, <1>5, <3>1
  <2>2. CASE i # prog_depth
    <3>1. i \in 0 .. (prog_depth - 1) /\ i \in 1 .. prog_depth
      BY <1>1, <1>4, <2>2
    <3>2. prog[i] = "spawned" /\ FrameAt(i)' = FrameAt(i)
      BY <1>4, <1>8, <3>1
    <3>3. i \in Nat /\ prog_depth - 1 \in Nat /\ i <= prog_depth - 1 /\ i < prog_depth - 1
      <4>1. i # prog_depth - 1
        BY <1>4, <3>2
      <4>2. QED
        BY <1>4, <3>1, <4>1
    <3>4. FrameAt(i) < FrameAt(prog_depth - 1)
      BY <1>4, <3>3, FramesInGrows DEF FrameAt
    <3>5. FrameAt(i) \in Nat /\ FrameAt(i) > 0
      <4>0. 0 \in Nat /\ i \in Nat /\ 0 < i /\ 0 <= i /\ prog[i] \in {"cilk", "spawned"}
        BY <1>8, <3>1, <3>2, <3>3
      <4>1. FramesIn(prog, 0) < FramesIn(prog, i) /\ FramesIn(prog, i) \in Nat
        BY <4>0, FramesInGrows, FramesInType
      <4>2. QED
        BY <4>1, FramesInZero DEF FrameAt
    <3>6. FrameAt(i) \in Levels /\ FrameAt(i) - 1 \in Levels /\ FrameAt(i) # h /\ FrameAt(i) - 1 # h
      BY <1>1, <1>2, <1>4, <3>4, <3>5 DEF Levels
    <3>7. QED
      BY <1>5, <3>1, <3>2, <3>6 DEF BlockInv, Blocks
  <2>3. QED
    BY <2>1, <2>2
<1>9. QED
  BY <1>6, <1>7, <1>8 DEF Blocks

\* Where the frame of an entry can be.
LEMMA FrameBounds ==
  ASSUME StackInv, NEW i \in 1 .. prog_depth, prog[i] \in {"cilk", "spawned"}
  PROVE  /\ i \in Nat /\ FrameAt(i) \in Nat /\ FrameAt(i) > 0 /\ FrameAt(i) <= FrameAt(prog_depth)
         /\ FrameAt(prog_depth) \in Nat
<1>1. prog_depth \in Nat /\ i \in Nat /\ 0 \in Nat /\ 0 < i /\ 0 <= i /\ i <= prog_depth
  BY EntryRanges DEF StackInv
<1>2. FramesIn(prog, 0) < FramesIn(prog, i) /\ FramesIn(prog, i) <= FramesIn(prog, prog_depth)
  BY <1>1, FramesInGrows
<1>3. FramesIn(prog, i) \in Nat /\ FramesIn(prog, prog_depth) \in Nat
  BY <1>1, FramesInType
<1>4. QED
  BY <1>1, <1>2, <1>3, FramesInZero DEF FrameAt

\* A sync empties the block of the frame on top.
LEMMA SyncBlocks ==
  ASSUME BlockInv, cilk_sync_end, ~Die
  PROVE  Blocks'
<1>0. PICK h, s : h = frame_head /\ s = nstrands + 1
  OBVIOUS
<1>1. /\ UNCHANGED <<frame_head, Sbag, prog, prog_depth>>
      /\ current_sync_block_size' = [current_sync_block_size EXCEPT ![h] = 0]
      /\ past' = [past EXCEPT ![h] = (past[h] \cup joined[h]) \cup {s}]
      /\ joined' = [joined EXCEPT ![h] = {}]
      /\ spawned' = [spawned EXCEPT ![h] = 0]
      /\ Pbag' = [Pbag EXCEPT ![h] = NULL]
      /\ pc = "syncing"
  BY <1>0 DEF cilk_sync_end, complete_sync, NextStrandAt, progVars
<1>2. /\ h \in Nat /\ h \in Depth /\ h \in Levels /\ Depth' = Depth /\ Depth \subseteq Levels
  BY <1>0, <1>1, Ranges DEF BlockInv, StackInv, BagsInv, Depth, Levels
<1>3. prog[prog_depth] = "cilk" /\ FrameAt(prog_depth) = h
  BY <1>0, <1>1 DEF BlockInv, StackInv, Phases, StackShape, CallStack
<1>4. ASSUME NEW k PROVE FrameAt(k)' = FrameAt(k) /\ ChildOutstanding(k)' = ChildOutstanding(k)
  BY <1>1 DEF FrameAt, FramesIn, ChildOutstanding
<1>5. ASSUME NEW k \in Depth'
      PROVE  /\ past'[k] # {} /\ current_sync_block_size'[k] = spawned'[k]
             /\ Pbag'[k] = NULL => spawned'[k] = 0
             /\ Pbag'[k] # NULL => joined'[k] # {} \/ ChildOutstanding(k)'
  <2>1. CASE k = h
    BY <1>1, <1>2, <2>1 DEF BlockInv, StackInv, BagsInv, BagTyped, CountsTyped
  <2>2. CASE k # h
    <3>1. /\ past'[k] = past[k] /\ current_sync_block_size'[k] = current_sync_block_size[k]
          /\ spawned'[k] = spawned[k] /\ joined'[k] = joined[k] /\ Pbag'[k] = Pbag[k]
      BY <1>1, <1>2, <2>2 DEF BlockInv, StackInv, BagsInv, BagTyped, CountsTyped
    <3>2. QED
      BY <1>2, <1>4, <3>1 DEF BlockInv, Blocks
  <2>3. QED
    BY <2>1, <2>2
<1>6. ASSUME NEW i \in 1 .. prog_depth', prog'[i] = "spawned"
      PROVE  Pbag'[FrameAt(i)'] = NULL /\ Pbag'[FrameAt(i)' - 1] # NULL
  <2>1. i \in 1 .. prog_depth /\ prog[i] = "spawned" /\ i \in 0 .. (prog_depth - 1)
    BY <1>1, <1>3, <1>6, EntryRanges DEF BlockInv, StackInv
  <2>2. FrameAt(i) < h /\ FrameAt(i) \in Nat /\ FrameAt(i) > 0
    BY <1>3, <2>1, TopFrame, FrameBounds DEF BlockInv
  <2>3. /\ FrameAt(i) \in Levels /\ FrameAt(i) - 1 \in Levels
        /\ FrameAt(i) # h /\ FrameAt(i) - 1 # h
    BY <1>2, <2>2, BoundsAssumption DEF Levels
  <2>4. Pbag'[FrameAt(i)] = Pbag[FrameAt(i)] /\ Pbag'[FrameAt(i) - 1] = Pbag[FrameAt(i) - 1]
    BY <1>1, <2>3 DEF BlockInv, StackInv, BagsInv, BagTyped
  <2>5. QED
    BY <1>4, <2>1, <2>4 DEF BlockInv, Blocks
<1>7. QED
  BY <1>1, <1>5, <1>6 DEF BlockInv, Blocks

\* A frame is popped: its spawn, if it was one, is now to be joined.
LEMMA LeaveBeginBlocks ==
  ASSUME BlockInv, cilk_leave_begin, ~Die
  PROVE  Blocks'
<1>0. PICK h, p, s : h = frame_head /\ p = frame_head - 1 /\ s = nstrands + 1
  OBVIOUS
<1>1. /\ h > 0 /\ frame_head' = p /\ Sbag' = [Sbag EXCEPT ![h] = NULL]
      /\ UNCHANGED <<Pbag, current_sync_block_size, spawned, prog, prog_depth>>
      /\ \E preds : past' = [past EXCEPT ![p] = preds \cup {s}]
      /\ IF prog[prog_depth] = "spawned"
         THEN joined' = [joined EXCEPT ![p] = @ \cup past[h]] ELSE joined' = joined
      /\ pc = "user" /\ prog[prog_depth] \in {"cilk", "spawned"}
  BY <1>0 DEF cilk_leave_begin, NextStrandAt, progVars, countVars, InUser
<1>2. /\ h \in Nat /\ h \in Depth /\ h \in Levels /\ p \in Levels /\ p \in Nat /\ h = p + 1
      /\ Depth' \subseteq Depth /\ Depth \subseteq Levels /\ h \notin Depth'
      /\ \A k \in Depth' : k <= p /\ k \in Nat /\ (k # p => k < p) /\ k < h
      /\ Levels \subseteq Nat
  BY <1>0, <1>1, Ranges DEF BlockInv, StackInv, BagsInv, Depth, Levels
<1>3. FrameAt(prog_depth) = h
  BY <1>0, <1>1 DEF BlockInv, StackInv, StackShape, CallStack
<1>4. ASSUME NEW k PROVE FrameAt(k)' = FrameAt(k)
  BY <1>1 DEF FrameAt, FramesIn
<1>5. ASSUME NEW k \in Levels, frame_head' < k PROVE Sbag'[k] = NULL
  <2>1. k = h \/ (k # h /\ frame_head < k)
    BY <1>0, <1>1, <1>2, <1>5
  <2>2. QED
    BY <1>1, <1>2, <2>1 DEF BlockInv, Blocks, StackInv, BagsInv, BagTyped
<1>6. ASSUME NEW k \in Depth'
      PROVE  /\ past'[k] # {} /\ current_sync_block_size'[k] = spawned'[k]
             /\ Pbag'[k] = NULL => spawned'[k] = 0
             /\ Pbag'[k] # NULL => joined'[k] # {} \/ ChildOutstanding(k)'
  <2>1. past'[k] # {}
    BY <1>1, <1>2 DEF BlockInv, Blocks, StackInv, BagsInv, BagTyped
  <2>2. joined[k] # {} => joined'[k] # {}
    BY <1>1, <1>2 DEF BlockInv, StackInv, BagsInv, BagTyped
  <2>3. ChildOutstanding(k) => joined'[k] # {} \/ ChildOutstanding(k)'
    <3>1. SUFFICES ASSUME ChildOutstanding(k) PROVE joined'[k] # {} \/ ChildOutstanding(k)'
      OBVIOUS
    <3>2. PICK i \in 1 .. prog_depth : prog[i] = "spawned" /\ FrameAt(i) = k + 1
      BY <3>1 DEF ChildOutstanding
    <3>3. CASE k # p
      <4>1. /\ k < frame_head' /\ i \in 1 .. prog_depth' /\ prog'[i] = "spawned"
            /\ FrameAt(i)' = k + 1
        BY <1>1, <1>2, <1>4, <3>2, <3>3
      <4>2. QED
        BY <4>1 DEF ChildOutstanding
    <3>4. CASE k = p
      <4>1. i = prog_depth
        <5>1. FrameAt(i) = h
          BY <1>2, <3>2, <3>4
        <5>2. i \notin 0 .. (prog_depth - 1)
          BY <1>1, <1>2, <1>3, <5>1, TopFrame DEF BlockInv
        <5>3. prog_depth \in Nat
          BY EntryRanges DEF BlockInv, StackInv
        <5>4. QED
          BY <3>2, <5>2, <5>3
      <4>2. joined'[p] = joined[p] \cup past[h] /\ past[h] # {}
        BY <1>1, <1>2, <3>2, <4>1 DEF BlockInv, Blocks, StackInv, BagsInv, BagTyped
      <4>3. QED
        BY <3>4, <4>2
    <3>5. QED
      BY <3>3, <3>4
  <2>4. QED
    BY <1>1, <1>2, <2>1, <2>2, <2>3 DEF BlockInv, Blocks
<1>7. ASSUME NEW i \in 1 .. prog_depth', prog'[i] = "spawned"
      PROVE  Pbag'[FrameAt(i)'] = NULL /\ Pbag'[FrameAt(i)' - 1] # NULL
  BY <1>1, <1>4, <1>7 DEF BlockInv, Blocks
<1>8. QED
  BY <1>5, <1>6, <1>7 DEF Blocks

\* The entry that leaves is of no frame on the stack.
LEMMA LeaveEndBlocks ==
  ASSUME BlockInv, cilk_leave_end, ~Die
  PROVE  Blocks'
<1>1. /\ pc = "leaving" /\ prog_depth' = prog_depth - 1 /\ UNCHANGED bagVars /\ prog' = prog
  BY DEF cilk_leave_end
<1>2. /\ FrameAt(prog_depth) = frame_head + 1 /\ frame_head \in Nat /\ prog_depth \in Nat
      /\ prog_depth # 0
  BY <1>1, EntryRanges, Ranges DEF BlockInv, StackInv, StackShape, CallStack, Phases, BagsInv
<1>3. ASSUME NEW k PROVE FrameAt(k)' = FrameAt(k)
  BY <1>1 DEF FrameAt, FramesIn
<1>4. ASSUME NEW k \in Depth, ChildOutstanding(k) PROVE ChildOutstanding(k)'
  <2>1. PICK i \in 1 .. prog_depth : prog[i] = "spawned" /\ FrameAt(i) = k + 1
    BY <1>4 DEF ChildOutstanding
  <2>2. k < frame_head /\ k \in Nat /\ k < frame_head'
    BY <1>1, <1>2, <1>4 DEF ChildOutstanding, Depth, bagVars, frameVars
  <2>3. i # prog_depth
    BY <1>2, <2>1, <2>2
  <2>4. i \in 1 .. prog_depth' /\ prog'[i] = "spawned" /\ FrameAt(i)' = k + 1
    BY <1>1, <1>2, <1>3, <2>1, <2>3
  <2>5. QED
    BY <2>2, <2>4 DEF ChildOutstanding
<1>5. ASSUME NEW i \in 1 .. prog_depth', prog'[i] = "spawned"
      PROVE  Pbag'[FrameAt(i)'] = NULL /\ Pbag'[FrameAt(i)' - 1] # NULL
  <2>1. i \in 1 .. prog_depth /\ prog[i] = "spawned"
    BY <1>1, <1>2, <1>5
  <2>2. QED
    BY <1>1, <1>3, <2>1 DEF BlockInv, Blocks, bagVars, frameVars
<1>6. QED
  BY <1>1, <1>4, <1>5 DEF BlockInv, Blocks, Depth, bagVars, frameVars, dagVars, countVars

\* A step that leaves the bags and the call stack alone keeps Blocks.
LEMMA BlocksUnchanged ==
  ASSUME Blocks, UNCHANGED <<bagVars, progVars>>
  PROVE  Blocks'
<1>1. ASSUME NEW k PROVE FrameAt(k)' = FrameAt(k) /\ ChildOutstanding(k)' = ChildOutstanding(k)
  BY DEF FrameAt, FramesIn, ChildOutstanding, bagVars, frameVars, progVars
<1>2. QED
  BY <1>1 DEF Blocks, Depth, bagVars, frameVars, dagVars, countVars, progVars

\* Every handler keeps Blocks.
LEMMA BlocksStep ==
  ASSUME BlockInv, Next, ~Die
  PROVE  Blocks'
<1>1. CASE \/ cilk_enter_end \/ cilk_spawn_prepare \/ cilk_spawn_or_continue
           \/ cilk_detach_begin \/ cilk_sync_begin
           \/ __cilksan_disable_checking \/ __cilksan_enable_checking \/ cilksan_deinit
  BY <1>1, BlocksUnchanged
     DEF BlockInv, cilk_enter_end, cilk_spawn_prepare, cilk_spawn_or_continue,
         cilk_detach_begin, cilk_sync_begin, __cilksan_disable_checking,
         __cilksan_enable_checking, cilksan_deinit
<1>2. QED
  BY <1>1, EnterBlocks, HelperBlocks, DetachBlocks, SyncBlocks, LeaveBeginBlocks, LeaveEndBlocks
     DEF Next

-----------------------------------------------------------------------------
(***************************************************************************)
(* The model of the runtime deque.                                         *)
(***************************************************************************)
DequeInv == EntriesInv /\ Phases /\ StackShape /\ Deque

\* The youngest helper depends only on which entries are helpers.
LEMMA YoungestSame ==
  ASSUME NEW p, NEW q, NEW y, NEW i \in Nat,
         \A j \in 1 .. i : p[j] \in {"helper", "spawned"} <=> q[j] \in {"helper", "spawned"}
  PROVE  YoungestIn(p, y, i) <=> YoungestIn(q, y, i)
  BY DEF YoungestIn

\* The fields of a helper's entry.
LEMMA HelperOnTop ==
  ASSUME DequeInv, IsHelper(prog_depth)
  PROVE  /\ prog_depth \in Nat /\ prog_depth > 1 /\ entry_head = prog_depth
         /\ youngest_active_helper = prog_depth /\ rts_deque_end = prog_depth
         /\ YoungestIn(prog, prev_helper[prog_depth], prog_depth - 1)
         /\ prev_helper[prog_depth] \in Nat /\ prog_depth - prev_helper[prog_depth] >= 2
<1>1. prog_depth \in Nat /\ entry_head = prog_depth /\ prog_depth # 0
  BY EntryRanges DEF DequeInv, StackShape, CallStack, IsHelper
<1>2. prog_depth > 1 /\ prog[prog_depth - 1] = "cilk" /\ prog_depth \in 1 .. prog_depth
  BY <1>1 DEF DequeInv, StackShape, CallStack
<1>3. youngest_active_helper = prog_depth
  BY <1>1, <1>2 DEF DequeInv, Deque, YoungestIn, IsHelper
<1>4. YoungestIn(prog, prev_helper[prog_depth], prog_depth - 1)
  BY <1>1, <1>2 DEF DequeInv, Deque
<1>5. prev_helper[prog_depth] \in Nat /\ prog_depth - prev_helper[prog_depth] >= 2
  <2>1. CASE prev_helper[prog_depth] = 0
    BY <1>1, <1>2, <2>1
  <2>2. CASE prev_helper[prog_depth] # 0
    BY <1>1, <1>2, <1>4, <2>2 DEF YoungestIn
  <2>3. QED
    BY <2>1, <2>2
<1>6. QED
  BY <1>1, <1>2, <1>3, <1>4, <1>5 DEF DequeInv, Deque

\* The deque never ends below its beginning, and ends above it while there is
\* a helper: helpers are at entry 2 or above.
LEMMA DequeSpans ==
  ASSUME DequeInv
  PROVE  /\ youngest_active_helper = 0 => rts_deque_end = rts_deque_begin
         /\ youngest_active_helper # 0 => rts_deque_begin < rts_deque_end
                                          /\ rts_deque_end = youngest_active_helper
         /\ rts_deque_begin <= rts_deque_end
<1>1. rts_deque_begin \in {0, 1} /\ entry_head = prog_depth /\ prog_depth \in Nat
  BY EntryRanges DEF DequeInv, Deque
<1>2. ASSUME youngest_active_helper # 0
      PROVE youngest_active_helper \in 1 .. prog_depth /\ youngest_active_helper > 1
  BY <1>1, <1>2 DEF DequeInv, Deque, YoungestIn, StackShape, CallStack, IsHelper
<1>3. QED
  BY <1>1, <1>2 DEF DequeInv, Deque

\* What a leaving helper asserts of the deque.
LEMMA HelperLeaves ==
  ASSUME DequeInv, ~died, IsHelper(prog_depth), LeavingHelper
  PROVE  /\ ~died' /\ rts_deque_begin' = rts_deque_begin
         /\ youngest_active_helper' = prev_helper[prog_depth]
         /\ rts_deque_end' = IF prev_helper[prog_depth] = 0 THEN rts_deque_begin
                                                            ELSE prev_helper[prog_depth]
<1>1. PICK e, prev, begin : e = prog_depth /\ prev = prev_helper[e] /\ begin = rts_deque_begin
  OBVIOUS
<1>2. /\ e \in Nat /\ e > 1 /\ entry_head = e /\ youngest_active_helper = e /\ rts_deque_end = e
      /\ YoungestIn(prog, prev, e - 1) /\ prev \in Nat /\ e - prev >= 2
      /\ begin \in {0, 1} /\ entry_head # rts_deque_begin
  BY <1>1, HelperOnTop DEF DequeInv, Deque
<1>3. PICK end : end = IF prev >= begin THEN prev ELSE begin
  OBVIOUS
<1>4. end = IF prev = 0 THEN begin ELSE prev
  BY <1>2, <1>3
<1>5. ASSUME NEW i \in (end + 1) .. (e - 1) PROVE entry_type[i] # "HELPER"
  <2>1. i \in 1 .. (e - 1) /\ ~(i <= prev) /\ i \in 0 .. entry_head
    BY <1>2, <1>3
  <2>2. prog[i] \notin {"helper", "spawned"}
    BY <1>2, <2>1 DEF YoungestIn
  <2>3. QED
    BY <2>1, <2>2 DEF DequeInv, EntriesInv, EntriesMatch
<1>6. QED
  BY <1>1, <1>2, <1>3, <1>4, <1>5 DEF LeavingHelper

\* What a leaving Cilk function asserts of the deque.
LEMMA CilkFunctionLeaves ==
  ASSUME DequeInv, ~died, ~IsHelper(prog_depth), prog_depth > 0, LeavingCilkFunction
  PROVE  /\ ~died' /\ youngest_active_helper' = youngest_active_helper
         /\ YoungestIn(prog, youngest_active_helper, prog_depth - 1)
         /\ \/ UNCHANGED <<rts_deque_begin, rts_deque_end>>
            \/ rts_deque_begin' = 0 /\ rts_deque_end' = 0 /\ youngest_active_helper = 0
<1>1. /\ prog_depth \in Nat /\ entry_head = prog_depth /\ rts_deque_begin \in {0, 1}
      /\ frame_type[0] = "FULL"
  BY EntryRanges DEF DequeInv, Deque
<1>2. YoungestIn(prog, youngest_active_helper, prog_depth - 1)
  BY <1>1 DEF DequeInv, Deque, YoungestIn, IsHelper
<1>3. CASE entry_head = rts_deque_begin
  <2>1. entry_head = 1 /\ entry_head - 1 = 0 /\ rts_deque_begin = 1
    BY <1>1, <1>3
  <2>2. youngest_active_helper = 0
    BY <1>1, <1>2, <2>1 DEF YoungestIn
  <2>3. rts_deque_end = rts_deque_begin
    BY <2>2, DequeSpans
  <2>4. UNCHANGED <<youngest_active_helper, died>> /\ rts_deque_begin' = 0 /\ rts_deque_end' = 0
    BY <1>1, <1>3, <2>1, <2>3 DEF LeavingCilkFunction
  <2>5. QED
    BY <1>2, <2>2, <2>4
<1>4. CASE entry_head # rts_deque_begin
  <2>1. died' = (rts_deque_end < rts_deque_begin) /\ UNCHANGED dequeVars
    BY <1>4 DEF LeavingCilkFunction
  <2>2. ~(rts_deque_end < rts_deque_begin)
    <3>1. rts_deque_end \in Nat
      BY EntryRanges DEF DequeInv, EntriesInv, EntriesTyped, Entries
    <3>2. QED
      BY <1>1, <3>1, DequeSpans
  <2>3. QED
    BY <1>2, <2>1, <2>2 DEF dequeVars
<1>5. QED
  BY <1>3, <1>4

\* Every handler keeps Deque, and the assertions of cilk_leave_end hold.
LEMMA DequeStep ==
  ASSUME DequeInv, FlagsTyped, Next, ~died, ~Die
  PROVE  Deque' /\ (cilk_leave_end => ~died')
<1>0. PICK e, y : e = entry_head /\ y = youngest_active_helper
  OBVIOUS
<1>1. /\ e \in Nat /\ prog_depth = e /\ e \in Entries /\ e <= MaxEntries /\ MaxEntries \in Nat
      /\ 0 \in Entries /\ \A i \in 0 .. e : i \in Entries /\ i \in Nat
      /\ e < MaxEntries => e + 1 \in Entries /\ e + 1 # 0 /\ e + 1 \notin 0 .. e
      /\ prog \in [Entries -> {"main", "cilk", "helper", "spawned"}]
      /\ prev_helper \in [Entries -> Entries] /\ frame_type \in [Entries -> {"SHADOW", "FULL"}]
  BY <1>0, EntryRanges DEF DequeInv, EntriesInv, EntriesTyped
<1>2. /\ rts_deque_begin \in {0, 1} /\ frame_type[0] = "FULL" /\ YoungestIn(prog, y, e)
      /\ rts_deque_end = IF y = 0 THEN rts_deque_begin ELSE y
      /\ \A i \in 1 .. e : IsHelper(i) => YoungestIn(prog, prev_helper[i], i - 1)
  BY <1>0 DEF DequeInv, Deque
<1>3. ASSUME PushEntry("SPAWNER") \/ PushEntry("HELPER"), e < MaxEntries,
             NEW what \in {"cilk", "helper"}, ProgramCalls(what)
      PROVE  /\ entry_head' = e + 1 /\ frame_type'[0] = "FULL" /\ prog'[e + 1] = what
             /\ \A j \in 1 .. e : prog'[j] = prog[j]
             /\ YoungestIn(prog', y, e)
             /\ \A i \in 1 .. e : IsHelper(i)' => YoungestIn(prog', prev_helper[i], i - 1)
  <2>1. /\ entry_head' = e + 1 /\ frame_type'[0] = "FULL" /\ prog'[e + 1] = what
        /\ \A j \in 1 .. e : prog'[j] = prog[j]
    BY <1>0, <1>1, <1>2, <1>3 DEF PushEntry, ProgramCalls
  <2>2. YoungestIn(prog', y, e)
    BY <1>1, <1>2, <2>1, YoungestSame
  <2>3. ASSUME NEW i \in 1 .. e, IsHelper(i)' PROVE YoungestIn(prog', prev_helper[i], i - 1)
    <3>1. IsHelper(i) /\ YoungestIn(prog, prev_helper[i], i - 1)
      BY <1>2, <2>1, <2>3 DEF IsHelper
    <3>2. i - 1 \in Nat /\ \A j \in 1 .. (i - 1) : prog'[j] = prog[j]
      BY <1>1, <2>1
    <3>3. QED
      BY <3>1, <3>2, YoungestSame
  <2>4. QED
    BY <2>1, <2>2, <2>3
<1>4. CASE cilk_enter_begin
  <2>1. /\ PushEntry("SPAWNER") /\ ProgramCalls("cilk") /\ e < MaxEntries
        /\ UNCHANGED <<dequeVars, prev_helper>>
    BY <1>0, <1>4 DEF cilk_enter_begin
  <2>2. YoungestIn(prog', y, e + 1)
    BY <1>1, <1>3, <2>1 DEF YoungestIn
  <2>3. \A i \in 1 .. (e + 1) : IsHelper(i)' => YoungestIn(prog', prev_helper[i], i - 1)
    <3>1. SUFFICES ASSUME NEW i \in 1 .. (e + 1), IsHelper(i)'
                   PROVE  YoungestIn(prog', prev_helper[i], i - 1)
      OBVIOUS
    <3>2. i # e + 1
      BY <1>3, <2>1, <3>1 DEF IsHelper
    <3>3. QED
      BY <1>1, <1>3, <2>1, <3>1, <3>2
  <2>4. QED
    BY <1>0, <1>2, <1>3, <1>4, <2>1, <2>2, <2>3
       DEF Deque, dequeVars, cilk_enter_begin, cilk_leave_end
<1>5. CASE cilk_enter_helper_begin
  <2>1. /\ PushEntry("HELPER") /\ ProgramCalls("helper") /\ e < MaxEntries
        /\ rts_deque_end' = e + 1 /\ youngest_active_helper' = e + 1
        /\ prev_helper' = [prev_helper EXCEPT ![e + 1] = y] /\ UNCHANGED rts_deque_begin
    BY <1>0, <1>5 DEF cilk_enter_helper_begin
  <2>2. YoungestIn(prog', e + 1, e + 1)
    BY <1>1, <1>3, <2>1 DEF YoungestIn
  <2>3. ASSUME NEW i \in 1 .. (e + 1), IsHelper(i)'
        PROVE  YoungestIn(prog', prev_helper'[i], i - 1)
    <3>1. CASE i = e + 1
      <4>1. prev_helper'[i] = y /\ i - 1 = e
        BY <1>1, <2>1, <3>1
      <4>2. QED
        BY <1>3, <2>1, <4>1
    <3>2. CASE i \in 1 .. e
      <4>1. prev_helper'[i] = prev_helper[i]
        BY <1>1, <2>1, <3>2
      <4>2. QED
        BY <1>3, <2>1, <2>3, <3>2, <4>1
    <3>3. QED
      BY <1>1, <3>1, <3>2
  <2>4. QED
    BY <1>1, <1>2, <1>3, <1>5, <2>1, <2>2, <2>3
       DEF Deque, cilk_enter_helper_begin, cilk_leave_end
<1>6. CASE cilk_detach_end
  <2>1. /\ prog' = [prog EXCEPT ![prog_depth] = "spawned"] /\ pc = "detaching"
        /\ UNCHANGED <<entryVars, dequeVars>>
    BY <1>6 DEF cilk_detach_end
  <2>2. prog[prog_depth] = "helper"
    BY <2>1 DEF DequeInv, Phases
  <2>3. \A j \in 0 .. e : prog'[j] \in {"helper", "spawned"} <=> prog[j] \in {"helper", "spawned"}
    BY <1>1, <2>1, <2>2
  <2>4. YoungestIn(prog', y, e)
    BY <1>1, <1>2, <2>3, YoungestSame
  <2>5. ASSUME NEW i \in 1 .. e, IsHelper(i)' PROVE YoungestIn(prog', prev_helper[i], i - 1)
    <3>1. i \in 0 .. e /\ i - 1 \in Nat /\ \A j \in 1 .. (i - 1) : j \in 0 .. e
      BY <1>1
    <3>2. YoungestIn(prog, prev_helper[i], i - 1)
      BY <1>2, <2>3, <2>5, <3>1 DEF IsHelper
    <3>3. QED
      BY <2>3, <3>1, <3>2, YoungestSame
  <2>6. QED
    BY <1>0, <1>2, <1>6, <2>1, <2>4, <2>5
       DEF Deque, entryVars, dequeVars, cilk_detach_end, cilk_leave_end
<1>7. CASE cilk_leave_end
  <2>1. /\ IF entry_type[e] = "HELPER" THEN LeavingHelper ELSE LeavingCilkFunction
        /\ entry_head' = e - 1 /\ e > 0 /\ UNCHANGED <<frame_type, prev_helper, prog>>
    BY <1>0, <1>7 DEF cilk_leave_end
  <2>2. e - 1 \in Nat /\ \A i \in 1 .. (e - 1) : i \in 1 .. e
    BY <1>1, <2>1
  <2>3. entry_type[e] = "HELPER" <=> IsHelper(e)
    BY <1>0, <1>1 DEF DequeInv, EntriesInv, EntriesMatch, IsHelper
  <2>4. \A i \in 1 .. (e - 1) : IsHelper(i)' => YoungestIn(prog', prev_helper'[i], i - 1)
    BY <1>2, <2>1, <2>2 DEF IsHelper
  <2>5. CASE IsHelper(e)
    <3>1. /\ ~died' /\ rts_deque_begin' = rts_deque_begin
          /\ youngest_active_helper' = prev_helper[e]
          /\ rts_deque_end' = IF prev_helper[e] = 0 THEN rts_deque_begin ELSE prev_helper[e]
      BY <1>1, <2>1, <2>3, <2>5, HelperLeaves
    <3>2. YoungestIn(prog, prev_helper[e], e - 1)
      BY <1>1, <2>5, HelperOnTop
    <3>3. QED
      BY <1>2, <2>1, <2>4, <3>1, <3>2 DEF Deque
  <2>6. CASE ~IsHelper(e)
    <3>1. /\ ~died' /\ youngest_active_helper' = y /\ YoungestIn(prog, y, e - 1)
          /\ \/ UNCHANGED <<rts_deque_begin, rts_deque_end>>
             \/ rts_deque_begin' = 0 /\ rts_deque_end' = 0 /\ y = 0
      BY <1>0, <1>1, <2>1, <2>3, <2>6, CilkFunctionLeaves
    <3>2. QED
      BY <1>2, <2>1, <2>4, <3>1 DEF Deque
  <2>7. QED
    BY <2>5, <2>6
<1>8. CASE \/ cilk_enter_end \/ cilk_spawn_prepare \/ cilk_spawn_or_continue
           \/ cilk_detach_begin \/ cilk_sync_begin \/ cilk_sync_end \/ cilk_leave_begin
           \/ __cilksan_disable_checking \/ __cilksan_enable_checking \/ cilksan_deinit
  <2>1. UNCHANGED <<entryVars, dequeVars, progVars>> /\ ~died'
    BY <1>8 DEF cilk_enter_end, cilk_spawn_prepare, cilk_spawn_or_continue, cilk_detach_begin,
                cilk_sync_begin, cilk_sync_end, cilk_leave_begin, __cilksan_disable_checking,
                __cilksan_enable_checking, cilksan_deinit
  <2>2. QED
    BY <1>0, <1>2, <2>1 DEF Deque, IsHelper, entryVars, dequeVars, progVars
<1>9. QED
  BY <1>4, <1>5, <1>6, <1>7, <1>8 DEF Next

-----------------------------------------------------------------------------
(***************************************************************************)
(* The assertions.                                                         *)
(***************************************************************************)
AssertInv == BlockInv /\ CheckingMatchesPhase /\ Deque

\* What complete_sync asserts.
LEMMA SyncAssertsHold ==
  ASSUME BagsInv
  PROVE  SyncAsserts(frame_head)
<1>1. frame_head \in Depth /\ frame_head \in Levels
  BY Ranges DEF BagsInv
<1>2. Sbag[frame_head] # Pbag[frame_head]
  BY <1>1, SbagsAreNotPbags DEF BagsInv
<1>3. QED
  BY <1>1, <1>2
     DEF BagsInv, BagInv, BagsDistinct, SyncAsserts, is_SBag, is_PBag, get_set_node, get_func_id

\* What merge_bag_from_returning_child asserts: the bag it merges into exists
\* and is not the child's, and the child has synced.
LEMMA MergeAssertsHold ==
  ASSUME BlockInv, pc = "user",
         \/ prog[prog_depth] = "cilk" /\ joined[frame_head] = {}
         \/ prog[prog_depth] = "spawned"
  PROVE  frame_head > 0 /\ MergeAsserts(frame_head - 1, frame_head)
<1>0. PICK h, p : h = frame_head /\ p = frame_head - 1
  OBVIOUS
<1>1. /\ FrameAt(prog_depth) = h /\ h > 0 /\ h \in Nat /\ prog_depth \in 1 .. prog_depth
      /\ prog_depth \in Nat
  BY <1>0, TopFrame, EntryRanges DEF BlockInv, StackInv, StackShape, CallStack
<1>2. /\ h \in Depth /\ h \in Levels /\ p \in Depth /\ p \in Levels /\ h # p /\ ~(h < h)
  BY <1>0, <1>1, Ranges DEF BlockInv, StackInv, BagsInv, Depth, Levels
<1>3. entry_type[entry_head] = "HELPER" <=> prog[prog_depth] = "spawned"
  <2>1. entry_head = prog_depth /\ prog_depth \in 0 .. entry_head
    BY <1>1, EntryRanges DEF BlockInv, StackInv
  <2>2. QED
    BY <2>1 DEF BlockInv, StackInv, EntriesInv, EntriesMatch
<1>4. prog[prog_depth] = "spawned" => Pbag[h] = NULL /\ Pbag[p] # NULL
  BY <1>0, <1>1 DEF BlockInv, Blocks
<1>5. Pbag[h] = NULL
  BY <1>0, <1>2, <1>4 DEF BlockInv, Blocks, ChildOutstanding
<1>6. current_sync_block_size[h] = 0
  BY <1>2, <1>5 DEF BlockInv, Blocks
<1>7. /\ Sbag[p] # NULL /\ Sbag[h] # NULL /\ Sbag[p] # Sbag[h] /\ Pbag[p] # Sbag[h]
      /\ get_set_node(Sbag[p]) = Sbag[p] /\ get_set_node(Sbag[h]) = Sbag[h]
      /\ kind[Sbag[p]] = "S" /\ kind[Sbag[h]] = "S"
      /\ Pbag[p] # NULL => get_set_node(Pbag[p]) = Pbag[p] /\ kind[Pbag[p]] = "P"
  BY <1>2, SbagsAreNotPbags
     DEF BlockInv, StackInv, BagsInv, BagInv, BagsDistinct, get_set_node
<1>8. QED
  BY <1>0, <1>1, <1>3, <1>4, <1>5, <1>6, <1>7
     DEF MergeAsserts, MergeTarget, is_SBag, is_PBag, get_func_id

\* No handler takes the branch of a failed assertion.
LEMMA NothingDies ==
  ASSUME AssertInv, ~died, Next
  PROVE  ~died' /\ ~Die
<1>0. ~died' => ~Die
  BY DEF Die
<1> USE DEF InUser
<1>1. /\ pc \in {"user", "called", "exited"} => last_event = "NONE"
      /\ pc \notin {"user", "called", "exited"} => checking_disabled > 0
      /\ checking_disabled >= user_off
  BY DEF AssertInv, BlockInv, StackInv, Phases, CheckingMatchesPhase, FlagsTyped
<1>2. prog_depth \in Nat /\ entry_head = prog_depth /\ (prog_depth = 0 <=> prog[prog_depth] = "main")
  BY EntryRanges DEF AssertInv, BlockInv, StackInv, StackShape, CallStack
<1>3. ASSUME frame_head < MaxFrames PROVE CleanFrameAbove
  <2>1. frame_head + 1 \in Levels /\ frame_head < frame_head + 1
    BY <1>3, Ranges DEF AssertInv, BlockInv, StackInv, BagsInv, Levels
  <2>2. QED
    BY <2>1 DEF AssertInv, BlockInv, Blocks, CleanFrameAbove
<1>4. CASE cilk_enter_begin
  BY <1>0, <1>1, <1>3, <1>4 DEF cilk_enter_begin
<1>5. CASE cilk_enter_helper_begin
  BY <1>0, <1>1, <1>5 DEF cilk_enter_helper_begin
<1>6. CASE cilk_enter_end
  BY <1>0, <1>1, <1>6 DEF cilk_enter_end, AssertInv, BlockInv, StackInv, Phases
<1>7. CASE cilk_spawn_prepare \/ cilk_detach_begin \/ cilk_sync_begin
  BY <1>0, <1>1, <1>7 DEF cilk_spawn_prepare, cilk_detach_begin, cilk_sync_begin
<1>8. CASE cilk_spawn_or_continue
  BY <1>0, <1>1, <1>8 DEF cilk_spawn_or_continue, AssertInv, BlockInv, StackInv, Phases
<1>9. CASE cilk_detach_end
  <2>1. pc = "detaching" /\ frame_head < MaxFrames
    BY <1>9 DEF cilk_detach_end
  <2>2. last_event = "DETACH" /\ prog[prog_depth] = "helper" /\ prog_depth \in 0 .. entry_head
    BY <1>2, <2>1 DEF AssertInv, BlockInv, StackInv, Phases
  <2>3. entry_type[entry_head] = "HELPER"
    BY <1>2, <2>2 DEF AssertInv, BlockInv, StackInv, EntriesInv, EntriesMatch
  <2>4. QED
    BY <1>0, <1>1, <1>3, <1>9, <2>1, <2>2, <2>3 DEF cilk_detach_end
<1>10. CASE cilk_sync_end
  <2>1. SyncAsserts(frame_head)
    BY SyncAssertsHold DEF AssertInv, BlockInv, StackInv
  <2>2. QED
    BY <1>0, <1>1, <1>10, <2>1 DEF cilk_sync_end, AssertInv, BlockInv, StackInv, Phases
<1>11. CASE cilk_leave_begin
  <2>1. frame_head > 0 /\ MergeAsserts(frame_head - 1, frame_head)
    BY <1>11, MergeAssertsHold DEF cilk_leave_begin, AssertInv
  <2>2. QED
    BY <1>0, <1>1, <1>11, <2>1 DEF cilk_leave_begin
<1>12. CASE cilk_leave_end
  <2>1. /\ pc = "leaving" /\ last_event = "LEAVE_FRAME_OR_HELPER"
        /\ prog[prog_depth] \in {"cilk", "spawned"}
    BY <1>12 DEF cilk_leave_end, AssertInv, BlockInv, StackInv, Phases
  <2>2. entry_head > 0 /\ checking_disabled > 0
    BY <1>0, <1>1, <1>2, <2>1
  <2>3. IF entry_type[entry_head] = "HELPER" THEN LeavingHelper ELSE LeavingCilkFunction
    BY <1>12, <2>1, <2>2 DEF cilk_leave_end
  <2>4. DequeInv /\ prog_depth > 0
    BY <1>2, <2>2 DEF DequeInv, AssertInv, BlockInv, StackInv
  <2>5. entry_type[entry_head] = "HELPER" <=> IsHelper(prog_depth)
    BY <1>2 DEF AssertInv, BlockInv, StackInv, EntriesInv, EntriesMatch, IsHelper
  <2>6. QED
    BY <1>0, <2>3, <2>4, <2>5, HelperLeaves, CilkFunctionLeaves
<1>13. CASE __cilksan_disable_checking \/ __cilksan_enable_checking
  <2>1. user_off \in Nat /\ checking_disabled \in Nat
    BY DEF AssertInv, BlockInv, StackInv, FlagsTyped
  <2>2. user_off > 0 => checking_disabled > 0
    BY <1>1, <2>1
  <2>3. QED
    BY <1>0, <1>13, <2>2 DEF __cilksan_disable_checking, __cilksan_enable_checking
<1>14. CASE cilksan_deinit
  <2>1. pc = "user" /\ prog[prog_depth] = "main"
    BY <1>14 DEF cilksan_deinit
  <2>2. entry_head = 0 /\ frame_head = FramesIn(prog, 0)
    BY <1>2, <2>1 DEF AssertInv, BlockInv, StackInv, StackShape, CallStack, FrameAt
  <2>3. QED
    BY <1>0, <1>14, <2>2, FramesInZero DEF cilksan_deinit
<1>15. QED
  BY <1>0, <1>4, <1>5, <1>6, <1>7, <1>8, <1>9, <1>10, <1>11, <1>12, <1>13, <1>14 DEF Next

-----------------------------------------------------------------------------
(***************************************************************************)
(* The function instances a bag stands for.                                *)
(***************************************************************************)
AncestorInv == BagsInv /\ Ancestors

\* A function is entered by a call (pbag is the parent's P-bag) or a spawn.
LEMMA EnterAncestors ==
  ASSUME AncestorInv, NEW sbag, NEW pbag, EntersFrame(sbag, pbag),
         \/ pbag = Pbag[frame_head] /\ sib_sbag' = sib_sbag
         \/ /\ Pbag[frame_head] = NULL /\ pbag \in Nodes /\ dset_size < pbag /\ pbag < sbag
            /\ sib_sbag' = [sib_sbag EXCEPT ![pbag] = Sbag[frame_head]]
  PROVE  Ancestors'
<1>0. PICK h, c, s : h = frame_head /\ c = frame_head + 1 /\ s = nstrands + 1
  OBVIOUS
<1>1. /\ h \in Nat /\ h \in Levels /\ c \in Levels /\ h \in Depth /\ c \notin Depth /\ h # c
      /\ Depth \subseteq Levels /\ Depth' = Depth \cup {c}
      /\ \A k \in Depth : k \in Nat /\ k <= h /\ k <= c /\ ~(c <= k) /\ k # c
      /\ c \in Nat /\ c <= c /\ frame_head' = c /\ 0 .. h = Depth
  BY <1>0, Ranges DEF AncestorInv, BagsInv, EntersFrame, Depth, Levels
<1>2. /\ s \in Strands /\ nstrands' = s /\ s \notin 1 .. nstrands /\ s \in 1 .. nstrands'
      /\ 1 .. nstrands \subseteq Strands /\ (1 .. nstrands)' = (1 .. nstrands) \cup {s}
  BY <1>0, Ranges DEF AncestorInv, BagsInv, EntersFrame, FirstStrandOfChild, Strands
<1>3. /\ sbag \in Nodes /\ sbag \notin 1 .. dset_size /\ 1 .. dset_size \subseteq Nodes
      /\ set_node' = set_node /\ dset_size' = sbag /\ dset_size < sbag /\ NULL \notin Nodes
      /\ \A n \in Nodes : sbag < n => dset_size < n /\ n # pbag
      /\ set_node[sbag] = sbag /\ sbag # pbag
  <2>1. sbag \in Nodes /\ dset_size < sbag /\ dset_size' = sbag /\ set_node' = set_node
    BY DEF EntersFrame
  <2>2. Pbag[h] = NULL \/ Pbag[h] \in 1 .. dset_size
    BY <1>1 DEF AncestorInv, BagsInv, BagInv, BagsDistinct
  <2>3. /\ sbag \notin 1 .. dset_size /\ 1 .. dset_size \subseteq Nodes /\ NULL \notin Nodes
        /\ \A n \in Nodes : sbag < n => dset_size < n /\ n # pbag
        /\ sbag # pbag
    BY <1>0, <2>1, <2>2, Ranges DEF AncestorInv, BagsInv, Nodes
  <2>4. set_node[sbag] = sbag
    BY <2>1, Ranges DEF AncestorInv, BagsInv, BagInv, NodesInUse, Nodes
  <2>5. QED
    BY <2>1, <2>3, <2>4
<1>4. /\ Sbag'[c] = sbag /\ \A k \in Depth : Sbag'[k] = Sbag[k]
      /\ Pbag'[h] = pbag /\ \A k \in Levels : k # h => Pbag'[k] = Pbag[k]
      /\ Pbag'[c] = NULL
  <2>1. /\ Sbag'[c] = sbag /\ \A k \in Depth : Sbag'[k] = Sbag[k]
        /\ Pbag'[h] = pbag /\ \A k \in Levels : k # h => Pbag'[k] = Pbag[k]
    BY <1>0, <1>1 DEF EntersFrame, AncestorInv, BagsInv, BagTyped
  <2>2. Pbag[c] = NULL
    BY <1>1 DEF AncestorInv, BagsInv, BagInv, BagsDistinct
  <2>3. QED
    BY <1>1, <2>1, <2>2
<1>5. /\ inst'[c] = s /\ \A k \in Depth : inst'[k] = inst[k]
      /\ owner'[s] = sbag /\ \A t \in 1 .. nstrands : owner'[t] = owner[t]
      /\ lineage'[s] = {inst[k] : k \in Depth} \cup {s}
      /\ \A t \in 1 .. nstrands : lineage'[t] = lineage[t]
  BY <1>0, <1>1, <1>2 DEF EntersFrame, FirstStrandOfChild, AncestorInv, BagsInv, BagTyped, CountsTyped
<1>6. ASSUME NEW k \in Depth' PROVE inst'[k] \in (1 .. nstrands)'
  BY <1>1, <1>2, <1>5 DEF AncestorInv, Ancestors
<1>7. ASSUME NEW t \in 1 .. nstrands
      PROVE  /\ lineage'[t] \subseteq (1 .. nstrands)'
             /\ \A k \in Depth' : rep(t)' \in {Sbag'[k], Pbag'[k]} =>
                  \A j \in Depth' : inst'[j] \in lineage'[t] <=> j <= k
  <2>1. lineage'[t] = lineage[t] /\ lineage[t] \subseteq 1 .. nstrands /\ s \notin lineage[t]
    BY <1>2, <1>5 DEF AncestorInv, Ancestors
  <2>2. rep(t)' = rep(t) /\ rep(t) \in 1 .. dset_size
    <3>1. owner[t] \in 1 .. dset_size
      BY DEF AncestorInv, BagsInv, BagInv, NodesInUse
    <3>2. set_node[owner[t]] \in 1 .. dset_size
      BY <1>3, <3>1, Ranges DEF AncestorInv, BagsInv, BagInv, NodesInUse, Nodes
    <3>3. QED
      BY <1>3, <1>5, <3>2 DEF rep
  <2>3. ASSUME NEW k \in Depth', rep(t)' \in {Sbag'[k], Pbag'[k]}, NEW j \in Depth'
        PROVE  inst'[j] \in lineage'[t] <=> j <= k
    <3>1. k # c
      BY <1>3, <1>4, <2>2, <2>3
    <3>2. k \in Depth /\ rep(t) \in {Sbag[k], Pbag[k]}
      <4>1. k \in Depth /\ Sbag'[k] = Sbag[k]
        BY <1>1, <1>4, <3>1
      <4>2. k # h => Pbag'[k] = Pbag[k]
        BY <1>1, <1>4, <4>1
      <4>3. pbag = Pbag[h] \/ pbag \notin 1 .. dset_size
        BY <1>0, Ranges DEF AncestorInv, BagsInv
      <4>4. QED
        BY <1>4, <2>2, <2>3, <4>1, <4>2, <4>3
    <3>3. CASE j = c
      BY <1>1, <1>5, <2>1, <3>2, <3>3
    <3>4. CASE j \in Depth
      BY <1>5, <2>1, <3>2, <3>4 DEF AncestorInv, Ancestors
    <3>5. QED
      BY <1>1, <3>3, <3>4
  <2>4. QED
    BY <1>2, <2>1, <2>3
<1>8. /\ lineage'[s] \subseteq (1 .. nstrands)'
      /\ \A k \in Depth' : rep(s)' \in {Sbag'[k], Pbag'[k]} =>
           \A j \in Depth' : inst'[j] \in lineage'[s] <=> j <= k
  <2>1. lineage'[s] \subseteq (1 .. nstrands)'
    BY <1>2, <1>5 DEF AncestorInv, Ancestors
  <2>2. rep(s)' = sbag
    BY <1>3, <1>5 DEF rep
  <2>3. ASSUME NEW k \in Depth', sbag \in {Sbag'[k], Pbag'[k]} PROVE k = c
    <3>1. SUFFICES ASSUME k \in Depth PROVE FALSE
      BY <1>1
    <3>2. Sbag[k] \in 1 .. dset_size /\ (Pbag[k] = NULL \/ Pbag[k] \in 1 .. dset_size)
      BY <1>1, <3>1 DEF AncestorInv, BagsInv, BagInv, BagsDistinct
    <3>3. Sbag'[k] = Sbag[k] /\ (Pbag'[k] = Pbag[k] \/ Pbag'[k] = pbag)
      BY <1>1, <1>4, <3>1
    <3>4. QED
      BY <1>3, <2>3, <3>2, <3>3
  <2>4. \A j \in Depth' : inst'[j] \in lineage'[s] /\ j <= c
    BY <1>1, <1>5
  <2>5. QED
    BY <2>1, <2>2, <2>3, <2>4
<1>9. ASSUME NEW k \in Depth'
      PROVE  /\ sib_sbag'[Sbag'[k]] = Sbag'[k]
             /\ Pbag'[k] # NULL => sib_sbag'[Pbag'[k]] = Sbag'[k]
  <2>0. /\ \A n \in 1 .. dset_size : sib_sbag'[n] = sib_sbag[n]
        /\ sib_sbag'[sbag] = sbag
    <3>1. sib_sbag[sbag] = sbag
      BY <1>3 DEF AncestorInv, Ancestors
    <3>2. QED
      BY <1>3, <3>1, Ranges, SMTT(20) DEF AncestorInv, BagsInv, CountsTyped, Nodes
  <2>1. CASE k = c
    BY <1>4, <2>0, <2>1
  <2>2. CASE k \in Depth
    <3>1. /\ Sbag[k] \in 1 .. dset_size /\ (Pbag[k] = NULL \/ Pbag[k] \in 1 .. dset_size)
          /\ sib_sbag[Sbag[k]] = Sbag[k] /\ (Pbag[k] # NULL => sib_sbag[Pbag[k]] = Sbag[k])
      BY <1>1, <2>2 DEF AncestorInv, Ancestors, BagsInv, BagInv, BagsDistinct
    <3>2. CASE Pbag'[k] = Pbag[k]
      BY <1>4, <2>0, <2>2, <3>1, <3>2
    <3>3. CASE Pbag'[k] # Pbag[k]
      <4>1. k = h /\ Pbag'[k] = pbag /\ pbag # Pbag[h]
        BY <1>1, <1>4, <2>2, <3>3
      <4>2. sib_sbag'[pbag] = Sbag[h]
        BY <1>0, <4>1 DEF AncestorInv, BagsInv, CountsTyped
      <4>3. QED
        BY <1>4, <2>0, <2>2, <3>1, <4>1, <4>2
    <3>4. QED
      BY <3>2, <3>3
  <2>3. QED
    BY <1>1, <2>1, <2>2
<1>10. ASSUME NEW n \in Nodes, dset_size' < n PROVE sib_sbag'[n] = n
  <2>1. dset_size < n /\ n # pbag
    BY <1>3, <1>10
  <2>2. QED
    BY <2>1 DEF AncestorInv, Ancestors, BagsInv, CountsTyped
<1>11. QED
  BY <1>2, <1>6, <1>7, <1>8, <1>9, <1>10 DEF Ancestors

\* The program goes on in the frame at level top.
LEMMA ContinueAncestors ==
  ASSUME AncestorInv, BagsInv', NEW top \in Depth, NEW preds, NextStrandAt(top, preds),
         nstrands < MaxStrands, frame_head' = top, UNCHANGED <<dset_size, sib_sbag>>,
         \A k \in 0 .. top : Sbag'[k] = Sbag[k] /\ (Pbag'[k] = NULL \/ Pbag'[k] = Pbag[k]),
         \A t \in 1 .. nstrands : \A k \in 0 .. top :
           set_node'[owner[t]] \in {Sbag[k], Pbag'[k]} =>
             \A j \in 0 .. top : inst[j] \in lineage[t] <=> j <= k
  PROVE  Ancestors'
<1>0. PICK s : s = nstrands + 1
  OBVIOUS
<1>1. /\ top \in Nat /\ top \in 0 .. top /\ 0 .. top \subseteq Depth /\ Depth \subseteq Levels
      /\ Depth' = 0 .. top /\ \A k \in 0 .. top : k <= top
  BY Ranges DEF AncestorInv, BagsInv, Depth, Levels
<1>2. /\ s \in Strands /\ nstrands' = s /\ s \notin 1 .. nstrands /\ s \in 1 .. nstrands'
      /\ 1 .. nstrands \subseteq Strands /\ (1 .. nstrands)' = (1 .. nstrands) \cup {s}
  BY <1>0, Ranges DEF AncestorInv, BagsInv, NextStrandAt, Strands
<1>3. /\ inst' = inst /\ owner'[s] = Sbag[top] /\ \A t \in 1 .. nstrands : owner'[t] = owner[t]
      /\ lineage'[s] = {inst[j] : j \in 0 .. top}
      /\ \A t \in 1 .. nstrands : lineage'[t] = lineage[t]
  BY <1>0, <1>2 DEF NextStrandAt, AncestorInv, BagsInv, BagTyped, CountsTyped
<1>4. ASSUME NEW k \in Depth' PROVE inst'[k] \in (1 .. nstrands)'
  BY <1>1, <1>2, <1>3 DEF AncestorInv, Ancestors
<1>5. ASSUME NEW t \in 1 .. nstrands
      PROVE  /\ lineage'[t] \subseteq (1 .. nstrands)'
             /\ \A k \in Depth' : rep(t)' \in {Sbag'[k], Pbag'[k]} =>
                  \A j \in Depth' : inst'[j] \in lineage'[t] <=> j <= k
  <2>1. lineage'[t] = lineage[t] /\ lineage[t] \subseteq (1 .. nstrands)'
    BY <1>2, <1>3 DEF AncestorInv, Ancestors
  <2>2. rep(t)' = set_node'[owner[t]]
    BY <1>3 DEF rep
  <2>3. QED
    BY <1>1, <1>3, <2>1, <2>2
<1>6. /\ lineage'[s] \subseteq (1 .. nstrands)'
      /\ \A k \in Depth' : rep(s)' \in {Sbag'[k], Pbag'[k]} =>
           \A j \in Depth' : inst'[j] \in lineage'[s] <=> j <= k
  <2>1. lineage'[s] \subseteq (1 .. nstrands)'
    BY <1>1, <1>2, <1>3 DEF AncestorInv, Ancestors
  <2>2. rep(s)' = Sbag'[top]
    <3>1. owner'[s] = Sbag'[top] /\ set_node'[Sbag'[top]] = Sbag'[top]
      BY <1>1, <1>3 DEF BagsInv, BagInv, BagsDistinct
    <3>2. QED
      BY <3>1 DEF rep
  <2>3. ASSUME NEW k \in Depth', Sbag'[top] \in {Sbag'[k], Pbag'[k]} PROVE k = top
    <3>1. \A i, j \in Depth' : Sbag'[i] # Pbag'[j]
      <4>1. SUFFICES ASSUME NEW i \in Depth', NEW j \in Depth' PROVE Sbag'[i] # Pbag'[j]
        OBVIOUS
      <4>2. Sbag'[i] \in Int /\ kind'[Sbag'[i]] = "S" /\ j \in Levels
        BY <1>1 DEF BagsInv, BagInv, BagsDistinct
      <4>3. Pbag'[j] # NULL => kind'[Pbag'[j]] = "P"
        BY <4>2 DEF BagsInv, BagInv, BagsDistinct
      <4>4. QED
        BY <4>2, <4>3, BoundsAssumption
    <3>2. \A i, j \in Depth' : i # j => Sbag'[i] # Sbag'[j]
      BY DEF BagsInv, BagInv, BagsDistinct
    <3>3. QED
      BY <1>1, <2>3, <3>1, <3>2
  <2>4. \A j \in Depth' : inst'[j] \in lineage'[s] /\ j <= top
    BY <1>1, <1>3
  <2>5. QED
    BY <2>1, <2>2, <2>3, <2>4
<1>7. ASSUME NEW k \in Depth'
      PROVE  /\ sib_sbag'[Sbag'[k]] = Sbag'[k]
             /\ Pbag'[k] # NULL => sib_sbag'[Pbag'[k]] = Sbag'[k]
  BY <1>1 DEF AncestorInv, Ancestors
<1>8. QED
  BY <1>2, <1>4, <1>5, <1>6, <1>7 DEF AncestorInv, Ancestors

\* Where the strands' bags are after the two sets are merged.
LEMMA SyncAncestors ==
  ASSUME AncestorInv, BagsInv', cilk_sync_end, ~Die
  PROVE  Ancestors'
<1>0. PICK h : h = frame_head
  OBVIOUS
<1>1. /\ h \in Depth /\ 0 .. h = Depth /\ Depth \subseteq Levels /\ NULL \notin Nodes
      /\ h \in Nat /\ 1 .. dset_size \subseteq Nodes
  BY <1>0, Ranges DEF AncestorInv, BagsInv, Depth
<1>2. /\ nstrands < MaxStrands /\ frame_head' = h /\ UNCHANGED <<dset_size, sib_sbag, Sbag>>
      /\ NextStrandAt(h, past[h] \cup joined[h])
      /\ Pbag' = [Pbag EXCEPT ![h] = NULL]
      /\ set_node' = IF Pbag[h] = NULL THEN set_node ELSE Combined(Sbag[h], Pbag[h])
  BY <1>0 DEF cilk_sync_end, complete_sync
<1>3. Pbag'[h] = NULL /\ \A k \in Levels : k # h => Pbag'[k] = Pbag[k]
  BY <1>1, <1>2 DEF AncestorInv, BagsInv, BagTyped
<1>4. ASSUME NEW t \in 1 .. nstrands, NEW k \in Depth,
             set_node'[owner[t]] \in {Sbag[k], Pbag'[k]}, NEW j \in Depth
      PROVE  inst[j] \in lineage[t] <=> j <= k
  <2>1. owner[t] \in Nodes /\ rep(t) \in Nodes
    BY <1>1 DEF AncestorInv, BagsInv, BagInv, NodesInUse, BagTyped, rep
  <2>2. set_node[Sbag[h]] = Sbag[h] /\ (Pbag[h] # NULL => set_node[Pbag[h]] = Pbag[h])
    BY <1>1 DEF AncestorInv, BagsInv, BagInv, BagsDistinct
  <2>3. set_node'[owner[t]] = IF Pbag[h] # NULL /\ rep(t) = Pbag[h] THEN Sbag[h] ELSE rep(t)
    BY <1>2, <2>1, <2>2 DEF Combined, rep
  <2>4. rep(t) \in {Sbag[k], Pbag[k]}
    <3>1. CASE Pbag[h] # NULL /\ rep(t) = Pbag[h]
      <4>1. Sbag[h] \in {Sbag[k], Pbag'[k]} /\ Sbag[h] # Pbag'[k]
        <5>1. Sbag[h] # NULL /\ Sbag[h] # Pbag[k]
          BY <1>1, SbagsAreNotPbags DEF AncestorInv, BagsInv
        <5>2. Pbag'[k] = NULL \/ Pbag'[k] = Pbag[k]
          BY <1>1, <1>3
        <5>3. QED
          BY <1>4, <2>3, <3>1, <5>1, <5>2
      <4>2. k = h
        BY <1>1, <4>1 DEF AncestorInv, BagsInv, BagInv, BagsDistinct
      <4>3. QED
        BY <3>1, <4>2
    <3>2. CASE ~(Pbag[h] # NULL /\ rep(t) = Pbag[h])
      <4>1. Pbag'[k] = NULL \/ Pbag'[k] = Pbag[k]
        BY <1>1, <1>3
      <4>2. QED
        BY <1>1, <1>4, <2>1, <2>3, <3>2, <4>1
    <3>3. QED
      BY <3>1, <3>2
  <2>5. QED
    BY <2>4 DEF AncestorInv, Ancestors
<1>5. \A k \in 0 .. h : Sbag'[k] = Sbag[k] /\ (Pbag'[k] = NULL \/ Pbag'[k] = Pbag[k])
  BY <1>1, <1>2, <1>3
<1>6. \A t \in 1 .. nstrands : \A k \in 0 .. h :
        set_node'[owner[t]] \in {Sbag[k], Pbag'[k]} =>
          \A j \in 0 .. h : inst[j] \in lineage[t] <=> j <= k
  BY <1>1, <1>4
<1>7. QED
  BY <1>1, <1>2, <1>5, <1>6, ContinueAncestors

\* A return keeps Ancestors.
LEMMA LeaveAncestors ==
  ASSUME AncestorInv, BagsInv', cilk_leave_begin, ~Die
  PROVE  Ancestors'
<1>0. PICK h, p, a, b : /\ h = frame_head /\ p = frame_head - 1
                        /\ a = MergeTarget(p) /\ b = Sbag[h]
  OBVIOUS
<1>1. /\ h > 0 /\ nstrands < MaxStrands /\ MergeAsserts(p, h)
      /\ frame_head' = p /\ UNCHANGED <<dset_size, sib_sbag, Pbag, kind>>
      /\ set_node' = Combined(a, Sbag[h])
      /\ Sbag' = [Sbag EXCEPT ![h] = NULL]
      /\ \E preds : NextStrandAt(p, preds)
  BY <1>0 DEF cilk_leave_begin, MergeTarget
<1>2. /\ h \in Nat /\ h \in Depth /\ p \in Depth /\ p \in Nat /\ h = p + 1
      /\ 0 .. p \subseteq Depth /\ Depth \subseteq Levels /\ NULL \notin Nodes
      /\ 1 .. dset_size \subseteq Nodes
      /\ \A k \in 0 .. p : k # h /\ k <= p /\ k <= h
  BY <1>0, <1>1, Ranges DEF AncestorInv, BagsInv, Depth
<1>3. /\ a = Sbag[p] \/ a = Pbag[p]
      /\ a \in Nodes /\ set_node[a] = a /\ b \in Nodes /\ set_node[b] = b
  <2>1. (a = Sbag[p] \/ a = Pbag[p]) /\ a # NULL
    BY <1>0, <1>1 DEF MergeTarget, MergeAsserts
  <2>2. QED
    BY <1>0, <1>2, <2>1 DEF AncestorInv, BagsInv, BagInv, BagsDistinct
<1>4. \A k \in 0 .. p : Sbag'[k] = Sbag[k] /\ Sbag[k] # b /\ Pbag[k] # b
  BY <1>0, <1>1, <1>2, SbagsAreNotPbags
     DEF AncestorInv, BagsInv, BagTyped, BagInv, BagsDistinct
<1>5. ASSUME NEW t \in 1 .. nstrands, NEW k \in 0 .. p,
             set_node'[owner[t]] \in {Sbag[k], Pbag'[k]}, NEW j \in 0 .. p
      PROVE  inst[j] \in lineage[t] <=> j <= k
  <2>1. owner[t] \in Nodes
    BY <1>2 DEF AncestorInv, BagsInv, BagInv, NodesInUse
  <2>2. set_node'[owner[t]] = IF rep(t) = b THEN a ELSE rep(t)
    BY <1>0, <1>1, <1>3, <2>1 DEF Combined, rep
  <2>3. j \in Depth /\ k \in Depth
    BY <1>2
  <2>4. CASE rep(t) = b
    <3>1. k = p
      <4>1. a \in {Sbag[k], Pbag[k]} /\ a # NULL
        BY <1>1, <1>2, <1>3, <1>5, <2>2, <2>4
      <4>2. CASE a = Sbag[p]
        BY <1>2, <2>3, <4>1, <4>2, SbagsAreNotPbags
           DEF AncestorInv, BagsInv, BagInv, BagsDistinct
      <4>3. CASE a = Pbag[p]
        BY <1>2, <2>3, <4>1, <4>3, SbagsAreNotPbags
           DEF AncestorInv, BagsInv, BagInv, BagsDistinct
      <4>4. QED
        BY <1>3, <4>2, <4>3
    <3>2. inst[j] \in lineage[t]
      <4>1. j <= h /\ rep(t) \in {Sbag[h], Pbag[h]}
        BY <1>0, <1>2, <2>4
      <4>2. QED
        BY <1>2, <2>3, <4>1 DEF AncestorInv, Ancestors
    <3>3. QED
      BY <1>2, <3>1, <3>2
  <2>5. CASE rep(t) # b
    BY <1>1, <1>5, <2>2, <2>3, <2>5 DEF AncestorInv, Ancestors
  <2>6. QED
    BY <2>4, <2>5
<1>6. QED
  BY <1>1, <1>2, <1>4, <1>5, ContinueAncestors

\* Every handler keeps Ancestors.
LEMMA AncestorsStep ==
  ASSUME AncestorInv, BagsInv', Next, ~Die
  PROVE  Ancestors'
<1>1. CASE cilk_enter_begin
  <2>1. EntersFrame(dset_size + 1, Pbag[frame_head]) /\ sib_sbag' = sib_sbag
    BY <1>1, EnterBagsInv DEF AncestorInv, cilk_enter_begin
  <2>2. QED
    BY <2>1, EnterAncestors
<1>2. CASE cilk_detach_end
  BY <1>2, DetachBagsInv, EnterAncestors DEF AncestorInv
<1>3. CASE cilk_sync_end \/ cilk_leave_begin
  BY <1>3, SyncAncestors, LeaveAncestors
<1>4. CASE \/ cilk_enter_helper_begin \/ cilk_enter_end \/ cilk_spawn_prepare
           \/ cilk_spawn_or_continue \/ cilk_detach_begin \/ cilk_sync_begin \/ cilk_leave_end
           \/ __cilksan_disable_checking \/ __cilksan_enable_checking \/ cilksan_deinit
  <2>1. UNCHANGED bagVars
    BY <1>4 DEF cilk_enter_helper_begin, cilk_enter_end, cilk_spawn_prepare,
                cilk_spawn_or_continue, cilk_detach_begin, cilk_sync_begin, cilk_leave_end,
                __cilksan_disable_checking, __cilksan_enable_checking, cilksan_deinit
  <2>2. QED
    BY <2>1 DEF AncestorInv, Ancestors, rep, Depth, bagVars, frameVars, dsetVars, dagVars
<1>5. QED
  BY <1>1, <1>2, <1>3, <1>4 DEF Next

-----------------------------------------------------------------------------
(***************************************************************************)
(* The statistics of sync blocks and continuation depths.                  *)
(***************************************************************************)
CountInv == BlockInv /\ Counts

\* A call keeps Counts.
LEMMA EnterCounts ==
  ASSUME CountInv, cilk_enter_begin, ~Die
  PROVE  Counts'
<1>0. PICK h, d : h = frame_head /\ d = ContDepth(current_sync_block_size)
  OBVIOUS
<1>1. /\ frame_head' = h + 1 /\ h < MaxFrames
      /\ init_cont_depth' = [init_cont_depth EXCEPT ![h + 1] = d]
      /\ accounted_max_cont_depth' = MaxOf(accounted_max_cont_depth, d)
      /\ UNCHANGED <<accounted_max_sync_block_size, pending, largest, deepest>>
      /\ spawned' = [spawned EXCEPT ![h + 1] = 0]
  BY <1>0 DEF cilk_enter_begin, StartNewFunction
<1>2. /\ h \in Nat /\ h \in Depth /\ h + 1 \in Levels /\ 0 \in Depth
      /\ Depth' = Depth \cup {h + 1} /\ Depth \subseteq Levels /\ MaxFrames \in Nat
      /\ \A k \in Depth : k \in Nat /\ k <= h /\ k # h + 1 /\ k + 1 \in Levels
                          /\ (k # h => k < h /\ k + 1 \in Depth)
  BY <1>0, <1>1, Ranges DEF CountInv, BlockInv, StackInv, BagsInv, Depth, Levels
<1>3. /\ \A k \in Levels : spawned[k] \in Nat /\ init_cont_depth[k] \in Nat
      /\ pending \in Int /\ largest \in Nat /\ deepest \in Nat
      /\ accounted_max_sync_block_size \in Nat /\ accounted_max_cont_depth \in Nat
      /\ init_cont_depth'[h + 1] = d /\ spawned'[h + 1] = 0
      /\ \A k \in Depth : init_cont_depth'[k] = init_cont_depth[k] /\ spawned'[k] = spawned[k]
  BY <1>1, <1>2 DEF CountInv, BlockInv, StackInv, BagsInv, CountsTyped
<1>4. d = pending /\ d <= deepest /\ d = init_cont_depth[h] + spawned[h] /\ init_cont_depth[0] = 0
  BY <1>0, <1>2 DEF CountInv, BlockInv, Blocks, Counts, ContDepth
<1>5. accounted_max_cont_depth' = deepest
  BY <1>1, <1>3, <1>4 DEF CountInv, Counts, MaxOf
<1>6. ASSUME NEW k \in Depth', k < frame_head'
      PROVE  init_cont_depth'[k + 1] = init_cont_depth'[k] + spawned'[k]
  BY <1>0, <1>1, <1>2, <1>3, <1>4, <1>6 DEF CountInv, Counts
<1>7. ASSUME NEW j \in Depth', NEW k \in Depth', j < k
      PROVE  init_cont_depth'[j] + spawned'[j] <= init_cont_depth'[k]
  <2>1. j \in Depth /\ j <= h
    BY <1>2, <1>7
  <2>2. CASE k \in Depth
    BY <1>3, <1>7, <2>1, <2>2 DEF CountInv, Counts
  <2>3. CASE k = h + 1
    <3>1. init_cont_depth[j] + spawned[j] <= init_cont_depth[h] + spawned[h]
      <4>1. CASE j = h
        BY <1>2, <1>3, <4>1
      <4>2. CASE j # h
        <5>1. init_cont_depth[j] + spawned[j] <= init_cont_depth[h]
          BY <1>2, <2>1, <4>2 DEF CountInv, Counts
        <5>2. QED
          BY <1>2, <1>3, <2>1, <5>1
      <4>3. QED
        BY <4>1, <4>2
    <3>2. QED
      BY <1>3, <1>4, <2>1, <2>3, <3>1
  <2>4. QED
    BY <1>2, <2>2, <2>3
<1>8. \A k \in Depth' : spawned'[k] <= largest'
  BY <1>1, <1>2, <1>3 DEF CountInv, Counts
<1>9. \/ largest' = accounted_max_sync_block_size'
      \/ \E k \in Depth' : spawned'[k] = largest'
  BY <1>1, <1>2, <1>3 DEF CountInv, Counts
<1>10. pending' = init_cont_depth'[frame_head'] + spawned'[frame_head']
  BY <1>1, <1>3, <1>4
<1>11. /\ init_cont_depth'[0] = 0 /\ pending' <= deepest'
       /\ accounted_max_sync_block_size' <= largest'
  BY <1>1, <1>2, <1>3, <1>4 DEF CountInv, Counts
<1>12. QED
  BY <1>1, <1>5, <1>6, <1>7, <1>8, <1>9, <1>10, <1>11 DEF Counts

\* A detach adds one to its parent's block.
LEMMA DetachCounts ==
  ASSUME CountInv, cilk_detach_end, ~Die
  PROVE  Counts'
<1>0. PICK h, n, d : /\ h = frame_head /\ n = spawned[frame_head] + 1
                     /\ d = ContDepth([current_sync_block_size EXCEPT ![frame_head] = @ + 1])
  OBVIOUS
<1>1. /\ frame_head' = h + 1 /\ h < MaxFrames
      /\ init_cont_depth' = [init_cont_depth EXCEPT ![h + 1] = d]
      /\ accounted_max_cont_depth' = MaxOf(accounted_max_cont_depth, d)
      /\ UNCHANGED accounted_max_sync_block_size
      /\ spawned' = [spawned EXCEPT ![h] = n, ![h + 1] = 0]
      /\ largest' = MaxOf(largest, n)
      /\ pending' = pending + 1
      /\ deepest' = MaxOf(deepest, pending + 1)
  BY <1>0 DEF cilk_detach_end, StartNewFunction
<1>2. /\ h \in Nat /\ h \in Depth /\ h + 1 \in Levels /\ 0 \in Depth /\ h # h + 1
      /\ Depth' = Depth \cup {h + 1} /\ Depth \subseteq Levels /\ MaxFrames \in Nat
      /\ \A k \in Depth : k \in Nat /\ k <= h /\ k # h + 1 /\ k + 1 \in Levels
                          /\ (k # h => k < h /\ k + 1 \in Depth)
  BY <1>0, <1>1, Ranges DEF CountInv, BlockInv, StackInv, BagsInv, Depth, Levels
<1>3. /\ \A k \in Levels : spawned[k] \in Nat /\ init_cont_depth[k] \in Nat
      /\ pending \in Int /\ largest \in Nat /\ deepest \in Nat
      /\ accounted_max_sync_block_size \in Nat /\ accounted_max_cont_depth \in Nat
      /\ init_cont_depth'[h + 1] = d /\ spawned'[h + 1] = 0
      /\ \A k \in Depth : /\ init_cont_depth'[k] = init_cont_depth[k]
                          /\ spawned'[k] = IF k = h THEN n ELSE spawned[k]
  BY <1>1, <1>2 DEF CountInv, BlockInv, StackInv, BagsInv, CountsTyped
<1>4. /\ d = pending + 1 /\ pending = init_cont_depth[h] + spawned[h] /\ init_cont_depth[0] = 0
      /\ n = spawned[h] + 1 /\ n \in Nat /\ d \in Nat
  <2>1. current_sync_block_size[h] = spawned[h]
    BY <1>2 DEF CountInv, BlockInv, Blocks
  <2>2. d = init_cont_depth[h] + (current_sync_block_size[h] + 1)
    BY <1>0, <1>2 DEF CountInv, BlockInv, StackInv, BagsInv, CountsTyped, ContDepth
  <2>3. pending = init_cont_depth[h] + spawned[h] /\ init_cont_depth[0] = 0
    BY <1>0 DEF CountInv, Counts
  <2>4. QED
    BY <1>0, <1>2, <1>3, <2>1, <2>2, <2>3
<1>5. /\ accounted_max_cont_depth' = deepest' /\ pending' <= deepest'
      /\ largest' >= largest /\ largest' >= n /\ (largest' = largest \/ largest' = n)
      /\ largest' \in Nat
  BY <1>1, <1>3, <1>4 DEF CountInv, Counts, MaxOf
<1>6. ASSUME NEW k \in Depth', k < frame_head'
      PROVE  init_cont_depth'[k + 1] = init_cont_depth'[k] + spawned'[k]
  <2>1. k \in Depth
    BY <1>1, <1>2, <1>6
  <2>2. CASE k = h
    BY <1>2, <1>3, <1>4, <2>2
  <2>3. CASE k # h
    BY <1>0, <1>2, <1>3, <2>1, <2>3 DEF CountInv, Counts
  <2>4. QED
    BY <2>2, <2>3
<1>7. ASSUME NEW j \in Depth', NEW k \in Depth', j < k
      PROVE  init_cont_depth'[j] + spawned'[j] <= init_cont_depth'[k]
  <2>1. j \in Depth /\ j <= h
    BY <1>2, <1>7
  <2>2. CASE k \in Depth
    <3>1. j # h
      BY <1>2, <1>7, <2>1, <2>2
    <3>2. QED
      BY <1>3, <1>7, <2>1, <2>2, <3>1 DEF CountInv, Counts
  <2>3. CASE k = h + 1
    <3>1. init_cont_depth'[k] = init_cont_depth[h] + spawned[h] + 1
      BY <1>2, <1>3, <1>4, <2>3
    <3>2. CASE j = h
      BY <1>2, <1>3, <1>4, <3>1, <3>2
    <3>3. CASE j # h
      <4>1. init_cont_depth[j] + spawned[j] <= init_cont_depth[h]
        BY <1>2, <2>1, <3>3 DEF CountInv, Counts
      <4>2. QED
        BY <1>2, <1>3, <2>1, <3>1, <3>3, <4>1
    <3>4. QED
      BY <3>2, <3>3
  <2>4. QED
    BY <1>2, <2>2, <2>3
<1>8. ASSUME NEW k \in Depth' PROVE spawned'[k] <= largest'
  <2>1. CASE k = h + 1
    BY <1>3, <1>5, <2>1
  <2>2. CASE k \in Depth
    <3>1. spawned[k] <= largest /\ spawned[k] \in Nat
      BY <1>2, <1>3, <2>2 DEF CountInv, Counts
    <3>2. QED
      BY <1>3, <1>4, <1>5, <2>2, <3>1
  <2>3. QED
    BY <1>2, <2>1, <2>2
<1>9. \/ largest' = accounted_max_sync_block_size'
      \/ \E k \in Depth' : spawned'[k] = largest'
  <2>1. CASE largest' = n
    BY <1>2, <1>3, <2>1
  <2>2. CASE largest' # n
    <3>1. largest' = largest /\ spawned[h] < largest
      BY <1>2, <1>3, <1>4, <1>5, <2>2
    <3>2. CASE largest = accounted_max_sync_block_size
      BY <1>1, <3>1, <3>2
    <3>3. CASE \E k \in Depth : spawned[k] = largest
      <4>1. PICK k \in Depth : spawned[k] = largest
        BY <3>3
      <4>2. k # h
        BY <1>2, <1>3, <3>1, <4>1
      <4>3. k \in Depth' /\ spawned'[k] = largest'
        BY <1>2, <1>3, <3>1, <4>1, <4>2
      <4>4. QED
        BY <4>3
    <3>4. QED
      BY <3>2, <3>3 DEF CountInv, Counts
  <2>3. QED
    BY <2>1, <2>2
<1>10. pending' = init_cont_depth'[frame_head'] + spawned'[frame_head']
  BY <1>1, <1>3, <1>4
<1>11. init_cont_depth'[0] = 0 /\ accounted_max_sync_block_size' <= largest'
  BY <1>1, <1>2, <1>3, <1>4, <1>5 DEF CountInv, Counts
<1>12. QED
  BY <1>5, <1>6, <1>7, <1>8, <1>9, <1>10, <1>11 DEF Counts

\* A sync accounts for the block and empties it.
LEMMA SyncCounts ==
  ASSUME CountInv, cilk_sync_end, ~Die
  PROVE  Counts'
<1>0. PICK h : h = frame_head
  OBVIOUS
<1>1. /\ frame_head' = h /\ spawned' = [spawned EXCEPT ![h] = 0]
      /\ UNCHANGED <<init_cont_depth, largest, deepest>>
      /\ pending' = pending - spawned[h]
      /\ accounted_max_sync_block_size' =
           MaxOf(accounted_max_sync_block_size, current_sync_block_size[h])
      /\ accounted_max_cont_depth' =
           MaxOf(accounted_max_cont_depth, init_cont_depth[h] + current_sync_block_size[h])
  BY <1>0 DEF cilk_sync_end, complete_sync
<1>2. /\ h \in Nat /\ h \in Depth /\ Depth' = Depth /\ Depth \subseteq Levels
      /\ \A k \in Depth : k \in Nat /\ k <= h
  BY <1>0, <1>1, Ranges DEF CountInv, BlockInv, StackInv, BagsInv, Depth, Levels
<1>3. /\ \A k \in Levels : spawned[k] \in Nat /\ init_cont_depth[k] \in Nat
      /\ pending \in Int /\ largest \in Nat /\ deepest \in Nat
      /\ accounted_max_sync_block_size \in Nat /\ accounted_max_cont_depth \in Nat
      /\ \A k \in Depth : spawned'[k] = IF k = h THEN 0 ELSE spawned[k]
      /\ current_sync_block_size[h] = spawned[h]
  BY <1>1, <1>2 DEF CountInv, BlockInv, Blocks, StackInv, BagsInv, CountsTyped
<1>4. /\ pending = init_cont_depth[h] + spawned[h] /\ spawned[h] \in Nat
      /\ spawned[h] <= largest /\ accounted_max_sync_block_size <= largest /\ pending <= deepest
      /\ accounted_max_cont_depth = deepest /\ init_cont_depth[h] \in Nat
  BY <1>0, <1>2, <1>3 DEF CountInv, Counts
<1>5. /\ accounted_max_cont_depth' = deepest' /\ pending' <= deepest'
      /\ pending' = init_cont_depth'[frame_head'] + spawned'[frame_head']
  BY <1>1, <1>2, <1>3, <1>4 DEF MaxOf
<1>6. /\ accounted_max_sync_block_size' <= largest'
      /\ \/ largest' = accounted_max_sync_block_size'
         \/ \E k \in Depth' : spawned'[k] = largest'
  <2>1. accounted_max_sync_block_size' = MaxOf(accounted_max_sync_block_size, spawned[h])
    BY <1>1, <1>3
  <2>2. accounted_max_sync_block_size' <= largest'
    BY <1>1, <1>3, <1>4, <2>1 DEF MaxOf
  <2>3. CASE largest = accounted_max_sync_block_size \/ spawned[h] = largest
    <3>1. largest' = accounted_max_sync_block_size'
      BY <1>1, <1>3, <1>4, <2>1, <2>3 DEF MaxOf
    <3>2. QED
      BY <2>2, <3>1
  <2>4. CASE ~(largest = accounted_max_sync_block_size \/ spawned[h] = largest)
    <3>1. PICK k \in Depth : spawned[k] = largest
      BY <2>4 DEF CountInv, Counts
    <3>2. k \in Depth' /\ spawned'[k] = largest'
      BY <1>1, <1>2, <1>3, <2>4, <3>1
    <3>3. QED
      BY <2>2, <3>2
  <2>5. QED
    BY <2>3, <2>4
<1>7. \A k \in Depth' : spawned'[k] <= largest'
  BY <1>1, <1>2, <1>3 DEF CountInv, Counts
<1>8. ASSUME NEW j \in Depth', NEW k \in Depth', j < k
      PROVE  /\ init_cont_depth'[j] + spawned'[j] <= init_cont_depth'[k]
             /\ init_cont_depth'[j + 1] = init_cont_depth'[j] + spawned'[j]
  <2>1. j # h /\ j < h
    BY <1>2, <1>8
  <2>2. QED
    BY <1>0, <1>1, <1>2, <1>3, <1>8, <2>1 DEF CountInv, Counts
<1>9. QED
  BY <1>0, <1>1, <1>2, <1>5, <1>6, <1>7, <1>8 DEF CountInv, Counts

\* The child that returns has an empty block.
LEMMA LeaveCounts ==
  ASSUME CountInv, cilk_leave_begin, ~Die
  PROVE  Counts'
<1>0. PICK h, p : h = frame_head /\ p = frame_head - 1
  OBVIOUS
<1>1. /\ h > 0 /\ frame_head' = p /\ MergeAsserts(p, h)
      /\ UNCHANGED <<init_cont_depth, countVars, statVars>>
  BY <1>0 DEF cilk_leave_begin
<1>2. /\ h \in Nat /\ h \in Depth /\ p \in Depth /\ p \in Nat /\ h = p + 1 /\ p < h
      /\ Depth' \subseteq Depth /\ Depth \subseteq Levels
      /\ \A k \in Depth : k = h \/ k \in Depth'
      /\ \A k \in Depth' : k \in Nat /\ k <= p /\ k < h
  BY <1>0, <1>1, Ranges DEF CountInv, BlockInv, StackInv, BagsInv, Depth, Levels
<1>3. /\ \A k \in Levels : spawned[k] \in Nat /\ init_cont_depth[k] \in Nat
      /\ accounted_max_sync_block_size \in Nat /\ largest \in Nat
  BY DEF CountInv, BlockInv, StackInv, BagsInv, CountsTyped
<1>4. spawned[h] = 0
  BY <1>1, <1>2 DEF CountInv, BlockInv, Blocks, MergeAsserts
<1>5. pending = init_cont_depth[p] + spawned[p]
  <2>1. init_cont_depth[h] = init_cont_depth[p] + spawned[p] /\ pending = init_cont_depth[h] + 0
    BY <1>0, <1>2, <1>4 DEF CountInv, Counts
  <2>2. QED
    BY <1>2, <1>3, <2>1
<1>6. \/ largest = accounted_max_sync_block_size
      \/ \E k \in Depth' : spawned[k] = largest
  BY <1>2, <1>3, <1>4 DEF CountInv, Counts
<1>7. QED
  BY <1>0, <1>1, <1>2, <1>5, <1>6 DEF CountInv, Counts, countVars, statVars

\* Every handler keeps Counts.
LEMMA CountsStep ==
  ASSUME CountInv, Next, ~Die
  PROVE  Counts'
<1>1. CASE \/ cilk_enter_helper_begin \/ cilk_enter_end \/ cilk_spawn_prepare
           \/ cilk_spawn_or_continue \/ cilk_detach_begin \/ cilk_sync_begin \/ cilk_leave_end
           \/ __cilksan_disable_checking \/ __cilksan_enable_checking \/ cilksan_deinit
  <2>1. UNCHANGED bagVars
    BY <1>1 DEF cilk_enter_helper_begin, cilk_enter_end, cilk_spawn_prepare,
                cilk_spawn_or_continue, cilk_detach_begin, cilk_sync_begin, cilk_leave_end,
                __cilksan_disable_checking, __cilksan_enable_checking, cilksan_deinit
  <2>2. QED
    BY <2>1 DEF CountInv, Counts, Depth, bagVars, frameVars, statVars, countVars
<1>2. QED
  BY <1>1, EnterCounts, DetachCounts, SyncCounts, LeaveCounts DEF Next

-----------------------------------------------------------------------------
(***************************************************************************)
(* The inductive invariant.                                                *)
(***************************************************************************)
LEMMA InitSafe == Init => SafeInv
<1> SUFFICES ASSUME Init PROVE SafeInv
  OBVIOUS
<1>1. /\ MaxFrames \in Nat /\ MaxEntries \in Nat /\ 0 \in Levels /\ 0 \in Entries
      /\ 1 \in Strands /\ 1 \in Nodes /\ NULL # 1
      /\ frame_head = 0 /\ prog_depth = 0 /\ entry_head = 0 /\ nstrands = 1 /\ dset_size = 1
      /\ Depth = {0} /\ 1 .. nstrands = {1}
  BY BoundsAssumption DEF Init, Levels, Entries, Strands, Nodes, Depth
<1>2. ~died /\ CheckingMatchesPhase /\ Phases
  BY DEF Init, CheckingMatchesPhase, Phases
<1>3. StackShape
  <2>1. FrameAt(prog_depth) = 0
    BY <1>1, FramesInZero DEF FrameAt
  <2>2. QED
    BY <1>1, <2>1 DEF Init, StackShape, CallStack
<1>4. Blocks
  BY <1>1 DEF Init, Blocks
<1>5. Deque
  BY <1>1 DEF Init, Deque, YoungestIn
<1>6. Ancestors
  BY <1>1 DEF Init, Ancestors, rep
<1>7. Counts
  BY <1>1 DEF Init, Counts
<1>8. QED
  BY <1>2, <1>3, <1>4, <1>5, <1>6, <1>7 DEF SafeInv

\* Every step keeps the conjunction of all parts.
LEMMA StepSafe ==
  ASSUME IInv, IInv', SafeInv, [Next]_vars
  PROVE  SafeInv'
<1>1. FlagsTyped /\ EntriesInv /\ BagsInv
  BY TypeParts DEF IInv, EntriesInv, BagsInv
<1>2. BagsInv'
  BY DEF IInv, TypeOK, BagsInv, BagTyped, CountsTyped
<1>3. /\ BlockInv /\ StackInv /\ DequeInv /\ AncestorInv /\ CountInv /\ AssertInv
  BY <1>1 DEF SafeInv, BlockInv, StackInv, DequeInv, AncestorInv, CountInv, AssertInv
<1>4. CASE Next
  <2>1. ~died' /\ ~Die
    BY <1>3, <1>4, NothingDies DEF SafeInv
  <2>2. Phases' /\ CheckingMatchesPhase'
    BY <1>1, <1>4, <2>1, PhasesStep DEF SafeInv
  <2>3. StackShape' /\ Blocks'
    BY <1>3, <1>4, <2>1, StackStep, BlocksStep
  <2>4. Deque'
    BY <1>1, <1>3, <1>4, <2>1, DequeStep DEF SafeInv
  <2>5. Ancestors' /\ Counts'
    BY <1>2, <1>3, <1>4, <2>1, AncestorsStep, CountsStep
  <2>6. QED
    BY <2>1, <2>2, <2>3, <2>4, <2>5 DEF SafeInv
<1>5. CASE UNCHANGED vars
  <2> USE <1>5 DEF vars, driverVars, entryVars, dequeVars, bagVars, frameVars, statVars,
                   dsetVars, dagVars, countVars, progVars
  <2>1. ~died' /\ CheckingMatchesPhase' /\ Phases' /\ StackShape'
    BY DEF SafeInv, CheckingMatchesPhase, Phases, StackShape, CallStack, FrameAt, FramesIn, IsHelper
  <2>2. Blocks'
    BY BlocksUnchanged DEF SafeInv
  <2>3. Deque'
    BY DEF SafeInv, Deque, YoungestIn, IsHelper
  <2>4. Ancestors' /\ Counts'
    BY DEF SafeInv, Ancestors, Counts, rep, Depth
  <2>5. QED
    BY <2>1, <2>2, <2>3, <2>4 DEF SafeInv
<1>6. QED
  BY <1>4, <1>5

\* The inductive invariant holds in every state.
LEMMA AlwaysSafe == Spec => [](IInv /\ SafeInv)
<1>1. Init => SafeInv
  BY InitSafe
<1>2. IInv /\ IInv' /\ SafeInv /\ [Next]_vars => SafeInv'
  BY StepSafe
<1>3. QED
  BY <1>1, <1>2, InductiveInvariant, PTL DEF Spec

-----------------------------------------------------------------------------
\* No cilksan_assert fails, in any order in which a program may call, spawn,
\* sync, return and switch checking off: the last event is the handler's own,
\* checking is off when enable_checking is called, the frame pushed is clean,
\* the bags merged are distinct sets of the kind the merge expects, a child
\* that returns has synced, and the deque model agrees with the entries.
THEOREM NoAssertionFailsInv == Spec => []NoAssertionFails
<1>1. SafeInv => NoAssertionFails
  BY DEF SafeInv, NoAssertionFails
<1>2. QED
  BY <1>1, AlwaysSafe, PTL

\* Every disable is matched by one enable, on every path through the handlers.
THEOREM CheckingMatchesPhaseInv == Spec => []CheckingMatchesPhase
<1>1. SafeInv => CheckingMatchesPhase
  BY DEF SafeInv
<1>2. QED
  BY <1>1, AlwaysSafe, PTL

\* The model of the runtime deque is the program's helpers: Case 1 and Case 2
\* of its declaration, and the youngest helper that has not been left.
THEOREM DequeModelMirrorsInv == Spec => []DequeModelMirrors
<1>1. ASSUME IInv, SafeInv PROVE DequeModelMirrors
  <2>1. DequeInv
    BY <1>1, TypeParts DEF IInv, EntriesInv, SafeInv, DequeInv
  <2>2. PICK helpers : helpers = {i \in 1 .. entry_head : prog[i] \in {"helper", "spawned"}}
    OBVIOUS
  <2>3. PICK y : y = youngest_active_helper
    OBVIOUS
  <2>4. (y = 0 \/ y \in helpers) /\ \A j \in helpers : j <= y /\ j \in Nat /\ j >= 1
    BY <2>1, <2>2, <2>3, EntryRanges DEF DequeInv, Deque, YoungestIn
  <2>5. CASE helpers = {}
    BY <2>1, <2>2, <2>3, <2>4, <2>5, DequeSpans DEF DequeModelMirrors
  <2>6. CASE helpers # {}
    <3>1. y \in helpers /\ y # 0
      BY <2>4, <2>6
    <3>2. ASSUME NEW i \in helpers, \A j \in helpers : j <= i PROVE i = y
      BY <2>4, <3>1, <3>2
    <3>3. (CHOOSE i \in helpers : \A j \in helpers : j <= i) = y
      BY <2>4, <3>1, <3>2
    <3>4. QED
      BY <2>1, <2>2, <2>3, <2>6, <3>1, <3>3, DequeSpans DEF DequeModelMirrors
  <2>7. QED
    BY <2>5, <2>6
<1>2. QED
  BY <1>1, AlwaysSafe, PTL

\* The function races_with names as the least common ancestor is the deepest
\* running instance in which the earlier strand is nested.
THEOREM DeepestCommonAncestorInv == Spec => []DeepestCommonAncestor
<1>1. ASSUME IInv, SafeInv PROVE DeepestCommonAncestor
  <2>1. BagTyped /\ BagInv /\ Ancestors
    BY <1>1, TypeParts DEF IInv, SafeInv
  <2>2. SUFFICES ASSUME NEW s \in 1 .. nstrands
                 PROVE  \E k \in Depth : /\ rep(s) \in {Sbag[k], Pbag[k]}
                                         /\ get_func_id(rep(s)) = func_id[Sbag[k]]
                                         /\ inst[k] \in lineage[s]
                                         /\ k < frame_head => inst[k + 1] \notin lineage[s]
    BY DEF DeepestCommonAncestor, BagOf, get_set_node, rep, Depth
  <2>3. PICK k \in Depth : SerialAt(s, k) \/ ParallelAt(s, k)
    BY <2>1 DEF BagInv, StrandsPlaced
  <2>4. rep(s) \in {Sbag[k], Pbag[k]} /\ rep(s) # NULL
    <3>1. rep(s) \in Nodes
      BY <2>1, Ranges DEF BagInv, NodesInUse, BagTyped, rep
    <3>2. QED
      BY <2>1, <2>3, <3>1, Ranges DEF SerialAt, ParallelAt
  <2>5. sib_sbag[rep(s)] = Sbag[k]
    BY <2>1, <2>4 DEF Ancestors
  <2>6. inst[k] \in lineage[s] /\ (k < frame_head => inst[k + 1] \notin lineage[s])
    <3>1. k \in Nat /\ k <= k /\ (k < frame_head => k + 1 \in Depth /\ ~(k + 1 <= k))
      BY <2>1, Ranges DEF Depth
    <3>2. QED
      BY <2>1, <2>4, <3>1 DEF Ancestors
  <2>7. QED
    BY <2>4, <2>5, <2>6 DEF get_func_id
<1>2. QED
  BY <1>1, AlwaysSafe, PTL

\* Once every spawn is synced, the maxima cilksan prints for the user to pick
\* steal points from are those of the whole execution so far.
THEOREM StatisticsCompleteInv == Spec => []StatisticsComplete
<1>1. ASSUME IInv, SafeInv, pending = 0
      PROVE  accounted_max_sync_block_size = largest /\ accounted_max_cont_depth = deepest
  <2>1. BagTyped /\ CountsTyped /\ Counts
    BY <1>1, TypeParts DEF IInv, SafeInv
  <2>2. /\ frame_head \in Depth /\ Depth \subseteq Levels
        /\ \A k \in Depth : k = frame_head \/ k < frame_head
    BY <2>1, Ranges DEF Depth
  <2>3. \A k \in Levels : spawned[k] \in Nat /\ init_cont_depth[k] \in Nat
    BY <2>1 DEF CountsTyped
  <2>4. init_cont_depth[frame_head] = 0 /\ spawned[frame_head] = 0
    BY <1>1, <2>1, <2>2, <2>3 DEF Counts
  <2>5. ASSUME NEW k \in Depth PROVE spawned[k] = 0
    <3>1. k < frame_head => init_cont_depth[k] + spawned[k] <= 0
      BY <2>1, <2>2, <2>4 DEF Counts
    <3>2. QED
      BY <2>2, <2>3, <2>4, <3>1
  <2>6. accounted_max_sync_block_size \in Nat /\ largest \in Nat
    BY <2>1 DEF CountsTyped
  <2>7. QED
    BY <2>1, <2>5, <2>6 DEF Counts
<1>2. IInv /\ SafeInv => StatisticsComplete
  BY <1>1 DEF StatisticsComplete
<1>3. QED
  BY <1>2, AlwaysSafe, PTL

=============================================================================
