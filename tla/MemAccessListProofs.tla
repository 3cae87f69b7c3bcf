------------------------ MODULE MemAccessListProofs -------------------------
(***************************************************************************)
(* The shadow entry of a word, for any number of accesses of any sizes and *)
(* alignments: its two lists of mixed granularity are one reader and one   *)
(* writer per byte, no assertion fails, and the reference counts are the   *)
(* numbers of slots.                                                       *)
(*                                                                         *)
(* The slot of byte b at granularity g is get_prev_aligned_index(b, g).    *)
(* All that the rest needs of it are the facts of the first section.       *)
(***************************************************************************)
EXTENDS MemAccessList, FiniteSetTheorems, TLAPS

\* A short name for the slot of a byte.
At(b, g) == get_prev_aligned_index(b, g)

\* The accesses cilksan makes: within one word.
Fits(o) ==
  /\ o.is_read \in BOOLEAN
  /\ o.start \in Bytes /\ o.size \in 1 .. MAX_GRAIN_SIZE - o.start
  /\ o.parallel \subseteq 1 .. nacc

Covered(o) == o.start .. (o.start + o.size - 1)

-----------------------------------------------------------------------------
\* The sizes of the four granularities.
LEMMA GrainSizes == GrainSize(0) = 1 /\ GrainSize(1) = 2 /\ GrainSize(2) = 4 /\ GrainSize(3) = 8
  BY DEF GrainSize, gtype_to_mem_size

\* The slot of a byte is a byte of its own slot.
LEMMA SlotOfByte ==
  ASSUME NEW g \in GrainTypes, NEW b \in Bytes
  PROVE  /\ At(b, g) \in Bytes
         /\ IS_ALIGNED_WITH_GTYPE(At(b, g), g)
         /\ IS_ALIGNED_WITH_GTYPE(b, g) => At(b, g) = b
<1>1. g = 0 \/ g = 1 \/ g = 2 \/ g = 3
  BY DEF GrainTypes
<1>2. QED
  BY <1>1, GrainSizes
  DEF At, get_prev_aligned_index, IS_ALIGNED_WITH_GTYPE, Bytes, MAX_GRAIN_SIZE

\* Slots nest: a coarser slot is found from any finer one within it.
LEMMA SlotsNest ==
  ASSUME NEW g \in GrainTypes, NEW h \in GrainTypes, g <= h, NEW b \in Bytes
  PROVE  /\ At(At(b, g), h) = At(b, h)
         /\ IS_ALIGNED_WITH_GTYPE(b, h) => IS_ALIGNED_WITH_GTYPE(b, g)
<1>1. (g = 0 \/ g = 1 \/ g = 2 \/ g = 3) /\ (h = 0 \/ h = 1 \/ h = 2 \/ h = 3)
  BY DEF GrainTypes
<1>2. QED
  BY <1>1, GrainSizes
  DEF At, get_prev_aligned_index, IS_ALIGNED_WITH_GTYPE, Bytes, MAX_GRAIN_SIZE

\* An access of a word has a granularity, and covers bytes of the word.
LEMMA AccessGrain ==
  ASSUME NEW o, Fits(o)
  PROVE  mem_gtype(o.start, o.size) \in GrainTypes /\ Covered(o) \subseteq Bytes
<1>1. o.start \in 0 .. 7 /\ o.size \in 1 .. 8 /\ o.start + o.size <= 8
  BY DEF Fits, Bytes, MAX_GRAIN_SIZE
<1>2. QED
  BY <1>1 DEF mem_gtype, unaligned_gtype, GrainTypes, Covered, Bytes, MAX_GRAIN_SIZE

\* An access starts and ends at slots of its granularity, and of any finer
\* one, so that a walk visits the slots of exactly the bytes it covers.
LEMMA WalkVisitsCovered ==
  ASSUME NEW o, Fits(o), NEW g \in GrainTypes, g <= mem_gtype(o.start, o.size)
  PROVE  /\ EndAligned(o, g)
         /\ \A i \in Walk(o, g) : i \in Covered(o) /\ IS_ALIGNED_WITH_GTYPE(i, g)
         /\ \A b \in Bytes : At(b, g) \in Walk(o, g) <=> b \in Covered(o)
<1>1. PICK start, size : start = o.start /\ size = o.size
  OBVIOUS
<1>2. /\ start \in 0 .. 7 /\ size \in 1 .. 8 /\ start + size <= 8
  BY <1>1 DEF Fits, Bytes, MAX_GRAIN_SIZE
<1>3. \/ mem_gtype(start, size) = 0
      \/ mem_gtype(start, size) = 1 /\ size = 2 /\ start % 2 = 0
      \/ mem_gtype(start, size) = 2 /\ size = 4 /\ start % 4 = 0
      \/ mem_gtype(start, size) = 3 /\ size = 8 /\ start = 0
  BY <1>2, GrainSizes DEF mem_gtype, unaligned_gtype, IS_ALIGNED_WITH_GTYPE
<1>4. g = 0 \/ g = 1 \/ g = 2 \/ g = 3
  BY DEF GrainTypes
<1>5. start % GrainSize(g) = 0 /\ size % GrainSize(g) = 0
  BY <1>1, <1>2, <1>3, <1>4, GrainSizes
<1>6. EndAligned(o, g)
  BY <1>1, <1>2, <1>4, <1>5, GrainSizes DEF EndAligned, IS_ALIGNED_WITH_GTYPE
<1>7. Covered(o) \subseteq Bytes
  BY AccessGrain
<1>8. ASSUME NEW i \in Covered(o)
      PROVE  i \in Walk(o, g) <=> IS_ALIGNED_WITH_GTYPE(i, g)
  BY <1>1, <1>2, <1>4, <1>5, GrainSizes DEF Covered, Walk, IS_ALIGNED_WITH_GTYPE
<1>9. ASSUME NEW b \in Bytes PROVE At(b, g) \in Covered(o) <=> b \in Covered(o)
  BY <1>1, <1>2, <1>4, <1>5, GrainSizes
  DEF Covered, At, get_prev_aligned_index, IS_ALIGNED_WITH_GTYPE, Bytes, MAX_GRAIN_SIZE
<1>10. Walk(o, g) \subseteq Covered(o)
  BY DEF Walk, Covered
<1>11. QED
  BY <1>6, <1>7, <1>8, <1>9, <1>10, SlotOfByte

-----------------------------------------------------------------------------
\* The two lists: slots hold accesses made so far, and only those that start
\* a slot of the list's granularity hold any.
ListsInv ==
  /\ gtype \in [Lists -> GrainTypes \cup {UNINIT}]
  /\ slot \in [Lists -> [Bytes -> Accesses \cup {NoAccess}]]
  /\ nacc \in 0 .. MaxAccesses
  /\ \A l \in Lists, i \in Bytes :
       /\ slot[l][i] \in 0 .. nacc
       /\ slot[l][i] # NoAccess => gtype[l] # UNINIT /\ IS_ALIGNED_WITH_GTYPE(i, gtype[l])

\* What Update makes of list l before it puts the access in: the granularity,
\* the slots, and the indices that will hold the access.
GrainFor(l, g)   == IF gtype[l] = UNINIT \/ gtype[l] > g THEN g ELSE gtype[l]
ListFor(l, g)    == IF gtype[l] > g THEN Broken(l, g) ELSE slot[l]
Replacing(l, o, g) == {i \in Walk(o, GrainFor(l, g)) : ListFor(l, g)[i] \notin o.parallel}

\* The access of a byte is that of its slot at the list's granularity.
LEMMA CoveringKnown ==
  ASSUME ListsInv, NEW l \in Lists, NEW b \in Bytes
  PROVE  /\ gtype[l] # UNINIT => /\ gtype[l] \in GrainTypes
                                 /\ Covering(l, b) = slot[l][At(b, gtype[l])]
         /\ gtype[l] = UNINIT => Covering(l, b) = NoAccess
         /\ Covering(l, b) \in 0 .. nacc
<1>1. gtype[l] \in GrainTypes \cup {UNINIT}
  BY DEF ListsInv
<1>2. gtype[l] # UNINIT => Covering(l, b) = slot[l][At(b, gtype[l])]
  BY DEF Covering, At
<1>3. gtype[l] = UNINIT => Covering(l, b) = NoAccess
  BY DEF Covering
<1>4. Covering(l, b) \in 0 .. nacc
  <2>1. CASE gtype[l] = UNINIT
    BY <1>3, <2>1 DEF NoAccess, ListsInv
  <2>2. CASE gtype[l] # UNINIT
    <3>1. At(b, gtype[l]) \in Bytes
      BY <1>1, <2>2, SlotOfByte
    <3>2. QED
      BY <1>2, <2>2, <3>1 DEF ListsInv
  <2>3. QED
    BY <2>1, <2>2
<1>5. QED
  BY <1>1, <1>2, <1>3, <1>4

\* Breaking a list into smaller slots keeps what covers each byte, and the
\* slots that break_list_into_smaller_gtype asserts to be empty are.
LEMMA BrokenKeepsBytes ==
  ASSUME ListsInv, NEW l \in Lists, NEW g \in GrainTypes
  PROVE  /\ GrainFor(l, g) \in GrainTypes /\ GrainFor(l, g) <= g
         /\ \A b \in Bytes : ListFor(l, g)[At(b, GrainFor(l, g))] = Covering(l, b)
         /\ \A i \in Bytes :
              /\ ListFor(l, g)[i] \in 0 .. nacc
              /\ ListFor(l, g)[i] # NoAccess =>
                   /\ IS_ALIGNED_WITH_GTYPE(i, GrainFor(l, g))
                   /\ \E j \in Bytes : slot[l][j] = ListFor(l, g)[i]
              /\ slot[l][i] # NoAccess => ListFor(l, g)[i] = slot[l][i]
         /\ gtype[l] > g => BreakAsserts(l, g)
         /\ ListFor(l, g) = [i \in Bytes |-> ListFor(l, g)[i]]
<1>1. gtype[l] \in GrainTypes \cup {UNINIT} /\ slot[l] \in [Bytes -> Accesses \cup {NoAccess}]
  BY DEF ListsInv
<1>2. \A i \in Bytes : /\ slot[l][i] \in 0 .. nacc
                       /\ slot[l][i] # NoAccess =>
                            gtype[l] # UNINIT /\ IS_ALIGNED_WITH_GTYPE(i, gtype[l])
  BY DEF ListsInv
<1>3. GrainTypes \subseteq Nat /\ UNINIT = -1
  BY DEF GrainTypes, UNINIT
<1>4. \A b \in Bytes : /\ gtype[l] # UNINIT => Covering(l, b) = slot[l][At(b, gtype[l])]
                       /\ gtype[l] = UNINIT => Covering(l, b) = NoAccess
                       /\ Covering(l, b) \in 0 .. nacc
  BY CoveringKnown
<1>5. CASE gtype[l] = UNINIT
  <2>1. GrainFor(l, g) = g /\ ListFor(l, g) = slot[l] /\ ~(gtype[l] > g)
    BY <1>3, <1>5 DEF GrainFor, ListFor
  <2>2. \A i \in Bytes : slot[l][i] = NoAccess
    BY <1>2, <1>5
  <2>3. QED
    BY <1>1, <1>2, <1>3, <1>4, <1>5, <2>1, <2>2, SlotOfByte
<1>6. CASE gtype[l] # UNINIT /\ ~(gtype[l] > g)
  <2>1. GrainFor(l, g) = gtype[l] /\ ListFor(l, g) = slot[l]
    BY <1>6 DEF GrainFor, ListFor
  <2>2. QED
    BY <1>1, <1>2, <1>3, <1>4, <1>6, <2>1
<1>7. CASE gtype[l] # UNINIT /\ gtype[l] > g
  <2>1. PICK h \in GrainTypes : h = gtype[l] /\ g <= h
    BY <1>1, <1>3, <1>7
  <2>2. GrainFor(l, g) = g /\ ListFor(l, g) = Broken(l, g)
    BY <1>7 DEF GrainFor, ListFor
  <2>3. \A i \in Bytes : Broken(l, g)[i] = IF IS_ALIGNED_WITH_GTYPE(i, g) /\ Covering(l, i) # NoAccess
                                          THEN Covering(l, i) ELSE slot[l][i]
    BY DEF Broken
  <2>4. \A b \in Bytes : Covering(l, b) = slot[l][At(b, h)] /\ At(b, h) \in Bytes
    BY <1>4, <1>7, <2>1, SlotOfByte
  <2>5. \A b \in Bytes : IS_ALIGNED_WITH_GTYPE(b, h) =>
                           IS_ALIGNED_WITH_GTYPE(b, g) /\ Covering(l, b) = slot[l][b]
    BY <2>1, <2>4, SlotOfByte, SlotsNest
  <2>6. ASSUME NEW b \in Bytes PROVE Broken(l, g)[At(b, g)] = Covering(l, b)
    <3>1. PICK i \in Bytes : i = At(b, g) /\ IS_ALIGNED_WITH_GTYPE(i, g)
      BY SlotOfByte
    <3>2. Covering(l, i) = Covering(l, b)
      BY <2>1, <2>4, <3>1, SlotsNest
    <3>3. Covering(l, i) = NoAccess => slot[l][i] = NoAccess
      BY <1>2, <2>1, <2>5
    <3>4. QED
      BY <2>3, <3>1, <3>2, <3>3
  <2>7. ASSUME NEW i \in Bytes
        PROVE  /\ Broken(l, g)[i] \in 0 .. nacc
               /\ Broken(l, g)[i] # NoAccess =>
                    /\ IS_ALIGNED_WITH_GTYPE(i, g)
                    /\ \E j \in Bytes : slot[l][j] = Broken(l, g)[i]
               /\ slot[l][i] # NoAccess => Broken(l, g)[i] = slot[l][i]
    BY <1>2, <1>4, <2>1, <2>3, <2>4, <2>5
  <2>8. BreakAsserts(l, g)
    BY <1>2 DEF BreakAsserts
  <2>9. Broken(l, g) = [i \in Bytes |-> Broken(l, g)[i]]
    BY DEF Broken
  <2>10. QED
    BY <1>3, <2>1, <2>2, <2>6, <2>7, <2>8, <2>9
<1>8. QED
  BY <1>5, <1>6, <1>7

\* The races a walk finds are those of the bytes the access covers.
LEMMA RacingBytes ==
  ASSUME ListsInv, NEW l \in Lists, NEW o, Fits(o)
  PROVE  Racing(l, o, mem_gtype(o.start, o.size))
           = {Covering(l, b) : b \in Covered(o)} \cap o.parallel
<1>1. PICK g : g = mem_gtype(o.start, o.size)
  OBVIOUS
<1>2. g \in GrainTypes /\ Covered(o) \subseteq Bytes
  BY <1>1, AccessGrain
<1>3. NoAccess \notin o.parallel
  BY DEF Fits, NoAccess
<1>4. CASE gtype[l] = UNINIT
  <2>1. Racing(l, o, g) = {}
    BY <1>4 DEF Racing
  <2>2. \A b \in Covered(o) : Covering(l, b) = NoAccess
    BY <1>2, <1>4, CoveringKnown
  <2>3. QED
    BY <1>1, <1>3, <2>1, <2>2
<1>5. CASE gtype[l] # UNINIT
  <2>1. PICK h \in GrainTypes : h = gtype[l]
    BY <1>5 DEF ListsInv
  <2>2. PICK f \in GrainTypes : f = Finer(g, h) /\ f <= g /\ f <= h
    BY <1>2, <2>1 DEF Finer, GrainTypes
  <2>3. Racing(l, o, g) = {Covering(l, i) : i \in Walk(o, f)} \cap o.parallel
    BY <1>5, <2>1, <2>2 DEF Racing
  <2>4. /\ \A i \in Walk(o, f) : i \in Covered(o)
        /\ \A b \in Bytes : At(b, f) \in Walk(o, f) <=> b \in Covered(o)
    BY <1>1, <2>2, WalkVisitsCovered
  <2>5. ASSUME NEW b \in Covered(o) PROVE \E i \in Walk(o, f) : Covering(l, i) = Covering(l, b)
    <3>1. b \in Bytes /\ At(b, f) \in Bytes /\ At(b, f) \in Walk(o, f)
      BY <1>2, <2>4, SlotOfByte
    <3>2. Covering(l, b) = slot[l][At(b, h)] /\ Covering(l, At(b, f)) = slot[l][At(At(b, f), h)]
      BY <1>5, <2>1, <3>1, CoveringKnown
    <3>3. At(At(b, f), h) = At(b, h)
      BY <2>2, <3>1, SlotsNest
    <3>4. QED
      BY <3>1, <3>2, <3>3
  <2>6. QED
    BY <1>1, <2>3, <2>4, <2>5
<1>6. QED
  BY <1>4, <1>5

-----------------------------------------------------------------------------
\* Update, with its local definitions by name.
LEMMA UpdateUnfolds ==
  ASSUME NEW l, NEW o, NEW g, NEW acc, Update(l, o, g, acc)
  PROVE  /\ gtype' = [gtype EXCEPT ![l] = GrainFor(l, g)]
         /\ slot' = [slot EXCEPT ![l] = [i \in Bytes |-> IF i \in Replacing(l, o, g) THEN acc
                                                        ELSE ListFor(l, g)[i]]]
         /\ ref_count' = RefCounts(l, ListFor(l, g), Replacing(l, o, g), acc)
         /\ freed' = freed \cup {a \in Accesses :
                                   /\ RefCounts(l, ListFor(l, g), Replacing(l, o, g), acc)[a] = 0
                                   /\ a = acc \/ Replaced(ListFor(l, g), Replacing(l, o, g), a) > 0}
         /\ died' = ~ /\ EndAligned(o, GrainFor(l, g))
                      /\ gtype[l] > g => BreakAsserts(l, g)
                      /\ \A m \in Lists \ {l} : WalkAsserts(m, o, g)
  BY DEF Update, GrainFor, ListFor, Replacing

\* An update puts the access into the bytes it covers whose access is in
\* series with it, and no other byte of the word notices.
LEMMA UpdateKeepsBytes ==
  ASSUME ListsInv, NEW l \in Lists, NEW o, Fits(o), nacc < MaxAccesses, nacc' = nacc + 1,
         Update(l, o, mem_gtype(o.start, o.size), nacc + 1)
  PROVE  /\ ListsInv' /\ ~died'
         /\ \A b \in Bytes :
              Covering(l, b)' = IF b \in Covered(o) /\ Covering(l, b) \notin o.parallel
                                THEN nacc + 1 ELSE Covering(l, b)
         /\ \A m \in Lists \ {l}, b \in Bytes : Covering(m, b)' = Covering(m, b)
<1>1. PICK g, G, list, repl, acc :
        /\ g = mem_gtype(o.start, o.size) /\ G = GrainFor(l, g)
        /\ list = ListFor(l, g) /\ repl = Replacing(l, o, g) /\ acc = nacc + 1
  OBVIOUS
<1>2. g \in GrainTypes /\ Covered(o) \subseteq Bytes
  BY <1>1, AccessGrain
<1>3. /\ G \in GrainTypes /\ G <= g
      /\ \A b \in Bytes : list[At(b, G)] = Covering(l, b)
      /\ \A i \in Bytes : /\ list[i] \in 0 .. nacc
                          /\ list[i] # NoAccess => IS_ALIGNED_WITH_GTYPE(i, G)
      /\ gtype[l] > g => BreakAsserts(l, g)
  BY <1>1, <1>2, BrokenKeepsBytes
<1>4. /\ EndAligned(o, G)
      /\ \A i \in Walk(o, G) : i \in Covered(o) /\ IS_ALIGNED_WITH_GTYPE(i, G)
      /\ \A b \in Bytes : At(b, G) \in Walk(o, G) <=> b \in Covered(o)
  BY <1>1, <1>3, WalkVisitsCovered
<1>5. /\ gtype' = [gtype EXCEPT ![l] = G]
      /\ slot' = [slot EXCEPT ![l] = [i \in Bytes |-> IF i \in repl THEN acc ELSE list[i]]]
      /\ died' = ~ /\ EndAligned(o, G)
                   /\ gtype[l] > g => BreakAsserts(l, g)
                   /\ \A m \in Lists \ {l} : WalkAsserts(m, o, g)
  BY <1>1, UpdateUnfolds
<1>6. repl = {i \in Walk(o, G) : list[i] \notin o.parallel}
  BY <1>1 DEF Replacing
<1>7. /\ gtype \in [Lists -> GrainTypes \cup {UNINIT}] /\ nacc \in 0 .. MaxAccesses
      /\ slot \in [Lists -> [Bytes -> Accesses \cup {NoAccess}]]
      /\ MaxAccesses \in Nat
  BY RangesAssumption DEF ListsInv
<1>8. G # UNINIT /\ acc \in Accesses /\ acc \in 0 .. nacc'
  BY <1>1, <1>3, <1>7 DEF GrainTypes, UNINIT, Accesses
<1>9. ListsInv'
  <2>1. \A i \in Bytes : list[i] \in Accesses \cup {NoAccess} /\ list[i] \in 0 .. nacc'
    BY <1>3, <1>7 DEF Accesses, NoAccess
  <2>2. gtype' \in [Lists -> GrainTypes \cup {UNINIT}] /\ nacc' \in 0 .. MaxAccesses
    BY <1>3, <1>5, <1>7
  <2>3. slot' \in [Lists -> [Bytes -> Accesses \cup {NoAccess}]]
    BY <1>5, <1>7, <1>8, <2>1
  <2>4. ASSUME NEW m \in Lists, NEW i \in Bytes
        PROVE  /\ slot'[m][i] \in 0 .. nacc'
               /\ slot'[m][i] # NoAccess =>
                    gtype'[m] # UNINIT /\ IS_ALIGNED_WITH_GTYPE(i, gtype'[m])
    <3>1. CASE m = l
      <4>1. slot'[m][i] = IF i \in repl THEN acc ELSE list[i]
        BY <1>5, <1>7, <3>1
      <4>2. gtype'[m] = G
        BY <1>5, <1>7, <3>1
      <4>3. QED
        BY <1>3, <1>4, <1>6, <1>8, <2>1, <4>1, <4>2
    <3>2. CASE m # l
      BY <1>5, <1>7, <3>2 DEF ListsInv
    <3>3. QED
      BY <3>1, <3>2
  <2>5. QED
    BY <2>2, <2>3, <2>4 DEF ListsInv
<1>10. ~died'
  <2>1. ASSUME NEW m \in Lists \ {l} PROVE WalkAsserts(m, o, g)
    <3>1. CASE gtype[m] = UNINIT
      BY <3>1 DEF WalkAsserts
    <3>2. CASE gtype[m] # UNINIT
      <4>1. Finer(g, gtype[m]) \in GrainTypes /\ Finer(g, gtype[m]) <= g
        BY <1>2, <1>7, <3>2 DEF Finer, GrainTypes
      <4>2. QED
        BY <1>1, <4>1, WalkVisitsCovered DEF WalkAsserts
    <3>3. QED
      BY <3>1, <3>2
  <2>2. QED
    BY <1>3, <1>4, <1>5, <2>1
<1>11. ASSUME NEW b \in Bytes
       PROVE  Covering(l, b)' = IF b \in Covered(o) /\ Covering(l, b) \notin o.parallel
                                THEN nacc + 1 ELSE Covering(l, b)
  <2>1. gtype'[l] = G /\ slot'[l] = [i \in Bytes |-> IF i \in repl THEN acc ELSE list[i]]
    BY <1>5, <1>7
  <2>2. Covering(l, b)' = slot'[l][At(b, G)]
    BY <1>8, <2>1 DEF Covering, At
  <2>3. At(b, G) \in Bytes /\ list[At(b, G)] = Covering(l, b)
    BY <1>3, SlotOfByte
  <2>4. At(b, G) \in repl <=> b \in Covered(o) /\ Covering(l, b) \notin o.parallel
    BY <1>4, <1>6, <2>3
  <2>5. QED
    BY <1>1, <2>1, <2>2, <2>3, <2>4
<1>12. ASSUME NEW m \in Lists \ {l}, NEW b \in Bytes PROVE Covering(m, b)' = Covering(m, b)
  BY <1>5, <1>7 DEF Covering
<1>13. QED
  BY <1>9, <1>10, <1>11, <1>12

-----------------------------------------------------------------------------
SlotsOf(l, a) == {i \in Bytes : slot[l][i] = a}

\* The count of an access object is the number of its slots in both lists,
\* and the objects whose count is zero are those deleted.
CountsInv ==
  /\ ref_count \in [Accesses -> Nat] /\ freed \subseteq 1 .. nacc
  /\ \A a \in Accesses :
       ref_count[a] = Cardinality(SlotsOf("readers", a)) + Cardinality(SlotsOf("writers", a))
  /\ \A a \in 1 .. nacc : a \in freed <=> ref_count[a] = 0

\* Sets of bytes are finite.
LEMMA BytesFinite ==
  ASSUME NEW S \in SUBSET Bytes
  PROVE  IsFiniteSet(S) /\ Cardinality(S) \in Nat
<1>1. IsFiniteSet(Bytes)
  <2>1. IsFiniteSet(0 .. 7)
    BY FS_Interval, 0 \in Int, 7 \in Int
  <2>2. QED
    BY <2>1 DEF Bytes, MAX_GRAIN_SIZE
<1>2. QED
  BY <1>1, FS_Subset, FS_CardinalityType

\* Counting the slots of two sets.
LEMMA CountTwo ==
  ASSUME NEW S \in SUBSET Bytes, NEW T \in SUBSET Bytes
  PROVE  /\ Cardinality(S \cup T) = Cardinality(S) + Cardinality(T) - Cardinality(S \cap T)
         /\ Cardinality(S \ T) = Cardinality(S) - Cardinality(S \cap T)
  BY BytesFinite, FS_Union, FS_Difference

\* A set of slots has no member exactly if it counts none.
LEMMA CountNone == Cardinality({}) = 0 /\ \A S \in SUBSET Bytes : Cardinality(S) = 0 <=> S = {}
  BY BytesFinite, FS_EmptySet

\* What Update does to the slots of one access object in its list: it gains
\* the copies made by breaking the list and loses those that are replaced.
LEMMA SlotsAfter ==
  ASSUME ListsInv, NEW l \in Lists, NEW o, Fits(o), nacc < MaxAccesses, nacc' = nacc + 1,
         Update(l, o, mem_gtype(o.start, o.size), nacc + 1),
         NEW a \in Accesses
  PROVE  LET list   == ListFor(l, mem_gtype(o.start, o.size))
             repl   == Replacing(l, o, mem_gtype(o.start, o.size))
             copies == Cardinality({i \in Bytes : list[i] = a /\ slot[l][i] # a})
             gained == IF a = nacc + 1 THEN Cardinality(repl) ELSE 0
         IN  /\ Cardinality(SlotsOf(l, a)') =
                  Cardinality(SlotsOf(l, a)) + copies - Replaced(list, repl, a) + gained
             /\ ref_count'[a] = ref_count[a] + copies - Replaced(list, repl, a) + gained
             /\ copies \in Nat /\ Replaced(list, repl, a) \in Nat
             /\ copies > 0 => Cardinality(SlotsOf(l, a)) > 0
             /\ \A m \in Lists \ {l} : SlotsOf(m, a)' = SlotsOf(m, a)
<1>1. PICK g, list, repl : /\ g = mem_gtype(o.start, o.size)
                           /\ list = ListFor(l, g) /\ repl = Replacing(l, o, g)
  OBVIOUS
<1>2. g \in GrainTypes /\ Covered(o) \subseteq Bytes
  BY <1>1, AccessGrain
<1>3. \A i \in Bytes : /\ list[i] \in 0 .. nacc
                       /\ list[i] # NoAccess => \E j \in Bytes : slot[l][j] = list[i]
                       /\ slot[l][i] # NoAccess => list[i] = slot[l][i]
  BY <1>1, <1>2, BrokenKeepsBytes
<1>4. repl \subseteq Bytes
  <2>1. Walk(o, GrainFor(l, g)) \subseteq Covered(o)
    BY DEF Walk, Covered
  <2>2. QED
    BY <1>1, <1>2, <2>1 DEF Replacing
<1>5. /\ slot' = [slot EXCEPT ![l] = [i \in Bytes |-> IF i \in repl THEN nacc + 1 ELSE list[i]]]
      /\ ref_count' = RefCounts(l, list, repl, nacc + 1)
  BY <1>1, UpdateUnfolds
<1>6. PICK P, C, R : /\ P = SlotsOf(l, a)
                     /\ C = {i \in Bytes : list[i] = a /\ slot[l][i] # a}
                     /\ R = {i \in repl : list[i] = a}
  OBVIOUS
<1>7. P \in SUBSET Bytes /\ C \in SUBSET Bytes /\ R \in SUBSET Bytes
  BY <1>4, <1>6 DEF SlotsOf
<1>8. a # NoAccess /\ slot \in [Lists -> [Bytes -> Accesses \cup {NoAccess}]] /\ nacc \in Nat
  BY RangesAssumption DEF Accesses, NoAccess, ListsInv
<1>9. P \cap C = {} /\ P \cup C = {i \in Bytes : list[i] = a}
  BY <1>3, <1>6, <1>8 DEF SlotsOf
<1>10. SlotsOf(l, a)' = IF a = nacc + 1 THEN repl ELSE (P \cup C) \ R
  <2>1. slot'[l] = [i \in Bytes |-> IF i \in repl THEN nacc + 1 ELSE list[i]]
    BY <1>5, <1>8
  <2>2. SlotsOf(l, a)' = {i \in Bytes : (IF i \in repl THEN nacc + 1 ELSE list[i]) = a}
    BY <2>1 DEF SlotsOf
  <2>3. CASE a = nacc + 1
    BY <1>3, <1>4, <1>8, <2>2, <2>3
  <2>4. CASE a # nacc + 1
    BY <1>6, <1>9, <2>2, <2>4
  <2>5. QED
    BY <2>3, <2>4
<1>11. a = nacc + 1 => P = {} /\ C = {} /\ R = {}
  BY <1>3, <1>4, <1>6, <1>8 DEF SlotsOf, ListsInv
<1>12. /\ Cardinality(P \cup C) = Cardinality(P) + Cardinality(C)
       /\ Cardinality((P \cup C) \ R) = Cardinality(P \cup C) - Cardinality(R)
       /\ Cardinality(P) \in Nat /\ Cardinality(C) \in Nat /\ Cardinality(R) \in Nat
       /\ Cardinality(repl) \in Nat
  <2>1. (P \cup C) \cap R = R
    BY <1>4, <1>6, <1>9
  <2>2. /\ Cardinality(P) \in Nat /\ Cardinality(C) \in Nat /\ Cardinality(R) \in Nat
        /\ Cardinality(repl) \in Nat
    BY <1>4, <1>7, BytesFinite
  <2>3. Cardinality(P \cup C) = Cardinality(P) + Cardinality(C) - Cardinality(P \cap C)
    BY <1>7, CountTwo
  <2>4. Cardinality((P \cup C) \ R) = Cardinality(P \cup C) - Cardinality((P \cup C) \cap R)
    BY <1>7, CountTwo
  <2>5. Cardinality(P \cap C) = 0 /\ Cardinality((P \cup C) \cap R) = Cardinality(R)
    BY <1>9, <2>1, CountNone
  <2>6. QED
    BY <2>2, <2>3, <2>4, <2>5
<1>13. ref_count'[a] = ref_count[a] + Cardinality(C) - Cardinality(R)
                       + IF a = nacc + 1 THEN Cardinality(repl) ELSE 0
  BY <1>5, <1>6 DEF RefCounts, Replaced
<1>14. Cardinality(SlotsOf(l, a)') = Cardinality(P) + Cardinality(C) - Cardinality(R)
                                     + IF a = nacc + 1 THEN Cardinality(repl) ELSE 0
  <2>1. CASE a = nacc + 1
    BY <1>10, <1>11, <1>12, <2>1, CountNone
  <2>2. CASE a # nacc + 1
    BY <1>10, <1>12, <2>2
  <2>3. QED
    BY <2>1, <2>2
<1>15. Cardinality(C) > 0 => Cardinality(P) > 0
  <2>1. C # {} => P # {}
    BY <1>3, <1>6, <1>8 DEF SlotsOf
  <2>2. QED
    BY <1>7, <1>12, <2>1, CountNone
<1>16. \A m \in Lists \ {l} : SlotsOf(m, a)' = SlotsOf(m, a)
  BY <1>5, <1>8 DEF SlotsOf
<1>17. QED
  BY <1>1, <1>6, <1>12, <1>13, <1>14, <1>15, <1>16 DEF Replaced

\* The counts stay exact: an object is deleted in the step that takes its last
\* slot, and never again named by one.
LEMMA UpdateKeepsCounts ==
  ASSUME ListsInv, CountsInv, NEW l \in Lists, NEW o, Fits(o), nacc < MaxAccesses,
         nacc' = nacc + 1, Update(l, o, mem_gtype(o.start, o.size), nacc + 1)
  PROVE  CountsInv'
<1>1. PICK g, list, repl, acc : /\ g = mem_gtype(o.start, o.size) /\ acc = nacc + 1
                                /\ list = ListFor(l, g) /\ repl = Replacing(l, o, g)
  OBVIOUS
<1>2. /\ ref_count' = RefCounts(l, list, repl, acc)
      /\ freed' = freed \cup {a \in Accesses : /\ ref_count'[a] = 0
                                               /\ a = acc \/ Replaced(list, repl, a) > 0}
  BY <1>1, UpdateUnfolds
<1>3. nacc \in Nat /\ acc \in Accesses /\ Accesses \subseteq Nat \ {0}
  BY <1>1, RangesAssumption DEF ListsInv, Accesses
<1>4. PICK m \in Lists : m # l /\ Lists = {l, m}
  BY DEF Lists
<1>5. \A a \in Accesses :
        /\ ref_count[a] = Cardinality(SlotsOf(l, a)) + Cardinality(SlotsOf(m, a))
        /\ Cardinality(SlotsOf(l, a)) \in Nat /\ Cardinality(SlotsOf(m, a)) \in Nat
  <2>1. \A a : SlotsOf(l, a) \in SUBSET Bytes /\ SlotsOf(m, a) \in SUBSET Bytes
    BY DEF SlotsOf
  <2>2. \A a : Cardinality(SlotsOf(l, a)) \in Nat /\ Cardinality(SlotsOf(m, a)) \in Nat
    BY <2>1, BytesFinite
  <2>3. (l = "readers" /\ m = "writers") \/ (l = "writers" /\ m = "readers")
    BY <1>4 DEF Lists
  <2>4. QED
    BY <2>2, <2>3 DEF CountsInv
<1>6. ASSUME NEW a \in Accesses
      PROVE  /\ ref_count'[a] = Cardinality(SlotsOf(l, a)') + Cardinality(SlotsOf(m, a)')
             /\ ref_count'[a] \in Nat
             /\ a \in freed' => a \in 1 .. acc
             /\ a \in 1 .. acc => (a \in freed' <=> ref_count'[a] = 0)
  <2>1. PICK copies, gained :
          /\ copies = Cardinality({i \in Bytes : list[i] = a /\ slot[l][i] # a})
          /\ gained = IF a = acc THEN Cardinality(repl) ELSE 0
    OBVIOUS
  <2>2. /\ Cardinality(SlotsOf(l, a)') =
             Cardinality(SlotsOf(l, a)) + copies - Replaced(list, repl, a) + gained
        /\ ref_count'[a] = ref_count[a] + copies - Replaced(list, repl, a) + gained
        /\ copies \in Nat /\ Replaced(list, repl, a) \in Nat
        /\ copies > 0 => Cardinality(SlotsOf(l, a)) > 0
        /\ SlotsOf(m, a)' = SlotsOf(m, a)
    BY <1>1, <1>4, <2>1, SlotsAfter
  <2>3. Cardinality(SlotsOf(l, a)') \in Nat /\ Cardinality(SlotsOf(m, a)') \in Nat
    <3>1. SlotsOf(l, a)' \in SUBSET Bytes /\ SlotsOf(m, a)' \in SUBSET Bytes
      BY DEF SlotsOf
    <3>2. QED
      BY <3>1, BytesFinite
  <2>4. PICK left, other, lost :
          /\ left = Cardinality(SlotsOf(l, a)) /\ other = Cardinality(SlotsOf(m, a))
          /\ lost = Replaced(list, repl, a)
    OBVIOUS
  <2>5. left \in Nat /\ other \in Nat /\ lost \in Nat /\ copies \in Nat
        /\ ref_count[a] = left + other /\ (copies > 0 => left > 0)
    BY <1>5, <2>2, <2>4
  <2>6. gained \in Nat /\ (a # acc => gained = 0)
    <3>1. CASE a # acc
      BY <2>1, <3>1
    <3>2. CASE a = acc
      <4>1. repl \in SUBSET Bytes
        <5>1. Walk(o, GrainFor(l, g)) \subseteq Covered(o) /\ Covered(o) \subseteq Bytes
          BY AccessGrain DEF Walk, Covered
        <5>2. QED
          BY <1>1, <5>1 DEF Replacing
      <4>2. QED
        BY <2>1, <3>2, <4>1, BytesFinite
    <3>3. QED
      BY <3>1, <3>2
  <2>7. ref_count'[a] = left + other + copies - lost + gained
    BY <2>2, <2>4, <2>5
  <2>8. /\ ref_count'[a] = Cardinality(SlotsOf(l, a)') + Cardinality(SlotsOf(m, a)')
        /\ ref_count'[a] \in Nat
    BY <2>2, <2>3, <2>4, <2>5, <2>6, <2>7
  <2>9. a \in freed' <=> a \in freed \/ (ref_count'[a] = 0 /\ (a = acc \/ lost > 0))
    BY <1>2, <2>4
  <2>10. a \in 1 .. acc <=> a = acc \/ a \in 1 .. nacc
    BY <1>1, <1>3
  <2>11. CASE a = acc
    <3>1. a \notin freed
      BY <1>1, <1>3, <2>11 DEF CountsInv
    <3>2. QED
      BY <1>1, <1>3, <2>8, <2>9, <2>10, <2>11, <3>1
  <2>12. CASE a \in 1 .. nacc /\ a # acc
    <3>1. a \in freed <=> ref_count[a] = 0
      BY <2>12 DEF CountsInv
    <3>2. a \in freed => ref_count'[a] = 0
      BY <2>5, <2>6, <2>7, <2>8, <2>12, <3>1
    <3>3. a \notin freed => (ref_count'[a] = 0 => lost > 0)
      BY <2>5, <2>6, <2>7, <2>8, <2>12, <3>1
    <3>4. QED
      BY <2>8, <2>9, <2>10, <2>12, <3>2, <3>3
  <2>13. CASE a \notin 1 .. nacc /\ a # acc
    <3>1. a \notin freed
      BY <2>13 DEF CountsInv
    <3>2. left = 0
      <4>1. SlotsOf(l, a) = {}
        BY <1>3, <2>13 DEF SlotsOf, ListsInv, Accesses
      <4>2. QED
        BY <2>4, <4>1, CountNone
    <3>3. lost = 0
      BY <2>2, <2>3, <2>4, <2>5, <2>6, <2>13, <3>2
    <3>4. QED
      BY <2>8, <2>9, <2>10, <2>13, <3>1, <3>3
  <2>14. QED
    BY <2>11, <2>12, <2>13
<1>7. ref_count' \in [Accesses -> Nat]
  <2>1. ref_count' = [a \in Accesses |-> ref_count'[a]]
    BY <1>2 DEF RefCounts
  <2>2. QED
    BY <1>6, <2>1
<1>8. freed' \subseteq 1 .. nacc'
  <2>1. \A a \in freed' : a \in Accesses
    BY <1>2, <1>3, RangesAssumption DEF CountsInv, ListsInv, Accesses
  <2>2. QED
    BY <1>1, <1>6, <2>1
<1>9. \A a \in 1 .. nacc' : a \in Accesses
  BY <1>3, RangesAssumption DEF Accesses, ListsInv
<1>10. \A a \in Accesses : ref_count'[a] = Cardinality(SlotsOf("readers", a)')
                                           + Cardinality(SlotsOf("writers", a)')
  <2>1. \A a : Cardinality(SlotsOf(l, a)') \in Nat /\ Cardinality(SlotsOf(m, a)') \in Nat
    <3>1. \A a : SlotsOf(l, a)' \in SUBSET Bytes /\ SlotsOf(m, a)' \in SUBSET Bytes
      BY DEF SlotsOf
    <3>2. QED
      BY <3>1, BytesFinite
  <2>2. (l = "readers" /\ m = "writers") \/ (l = "writers" /\ m = "readers")
    BY <1>4 DEF Lists
  <2>3. QED
    BY <1>6, <2>1, <2>2
<1>11. QED
  BY <1>1, <1>6, <1>7, <1>8, <1>9, <1>10 DEF CountsInv

-----------------------------------------------------------------------------
IInv == ListsInv /\ CountsInv /\ ~died /\ op.start \in Bytes

\* A word starts with the invariant.
LEMMA InitInv == Init => IInv
<1> SUFFICES ASSUME Init PROVE IInv
  OBVIOUS
<1>1. ListsInv
  BY RangesAssumption DEF Init, ListsInv, NoAccess
<1>2. \A l \in Lists, a \in Accesses : SlotsOf(l, a) = {}
  BY DEF Init, SlotsOf, Accesses, NoAccess
<1>3. \A a \in Accesses : Cardinality(SlotsOf("readers", a)) = 0
                          /\ Cardinality(SlotsOf("writers", a)) = 0
  BY <1>2, CountNone DEF Lists
<1>4. CountsInv
  BY <1>3 DEF Init, CountsInv
<1>5. QED
  BY <1>1, <1>4 DEF IInv, Init, Bytes, MAX_GRAIN_SIZE

\* An access: the operation it makes, and the list that it updates.
LEMMA AccessParts ==
  ASSUME ListsInv, NEW is_read \in BOOLEAN, Access(is_read)
  PROVE  /\ Fits(op') /\ op'.is_read = is_read
         /\ nacc < MaxAccesses /\ nacc' = nacc + 1
         /\ op' \in B!Ops /\ op'.start + op'.size <= 8
<1>1. PICK r \in Ranges, parallel \in SUBSET (1 .. nacc) :
        op' = [is_read |-> is_read, start |-> r[1], size |-> r[2], parallel |-> parallel]
  BY DEF Access
<1>2. r[1] \in Bytes /\ r[2] \in 1 .. MAX_GRAIN_SIZE - r[1]
  BY RangesAssumption
<1>3. Fits(op')
  BY <1>1, <1>2 DEF Fits
<1>4. /\ nacc < MaxAccesses /\ nacc' = nacc + 1
  BY DEF Access
<1>5. parallel \subseteq Accesses
  BY RangesAssumption DEF ListsInv, Accesses
<1>6. r[1] \in B!Bytes /\ r[2] \in 1 .. 8 /\ r[1] + r[2] <= 8
  BY <1>2 DEF Bytes, B!Bytes, MAX_GRAIN_SIZE
<1>7. op' \in B!Ops /\ op'.start + op'.size <= 8
  BY <1>1, <1>5, <1>6 DEF B!Ops, B!Accesses, Accesses
<1>8. QED
  BY <1>1, <1>3, <1>4, <1>7

\* Every step keeps the invariant and is an access of the bytes.
LEMMA NextStep ==
  ASSUME IInv, Next
  PROVE  IInv' /\ B!Access
<1>1. PICK reader, writer : /\ reader = [b \in Bytes |-> Covering("readers", b)]
                            /\ writer = [b \in Bytes |-> Covering("writers", b)]
  OBVIOUS
<1>2. B!Bytes = Bytes
  BY DEF B!Bytes, Bytes, MAX_GRAIN_SIZE
<1>3. "readers" \in Lists /\ "writers" \in Lists /\ "readers" # "writers"
  BY DEF Lists
<1>4. CASE check_races_and_update_with_read
  <2>1. /\ Fits(op') /\ op'.is_read = TRUE /\ nacc < MaxAccesses /\ nacc' = nacc + 1
        /\ op' \in B!Ops /\ op'.start + op'.size <= 8
    BY <1>4, AccessParts DEF check_races_and_update_with_read, IInv
  <2>2. PICK o : o = op'
    OBVIOUS
  <2>3. Fits(o) /\ Covered(o) \subseteq Bytes
    BY <2>1, <2>2, AccessGrain
  <2>4. /\ reported' = Racing("writers", o, mem_gtype(o.start, o.size))
        /\ Update("readers", o, mem_gtype(o.start, o.size), nacc + 1)
    BY <1>4, <2>2 DEF check_races_and_update_with_read, Read
  <2>5. IInv'
    BY <1>3, <2>1, <2>3, <2>4, UpdateKeepsBytes, UpdateKeepsCounts DEF IInv, Fits
  <2>6. /\ \A b \in Bytes :
              Covering("readers", b)' = IF b \in Covered(o) /\ Covering("readers", b) \notin o.parallel
                                        THEN nacc + 1 ELSE Covering("readers", b)
        /\ \A b \in Bytes : Covering("writers", b)' = Covering("writers", b)
    BY <1>3, <2>1, <2>3, <2>4, UpdateKeepsBytes DEF IInv
  <2>7. reported' = {Covering("writers", b) : b \in Covered(o)} \cap o.parallel
    BY <1>3, <2>3, <2>4, RacingBytes DEF IInv
  <2>8. B!Racing(writer, o) = {Covering("writers", b) : b \in Covered(o)} \cap o.parallel
    BY <1>1, <2>3 DEF B!Racing, B!Covered, Covered
  <2>9. [b \in Bytes |-> Covering("readers", b)]' = B!Kept(reader, o, nacc')
    BY <1>1, <1>2, <2>1, <2>6 DEF B!Kept, B!Covered, Covered
  <2>10. [b \in Bytes |-> Covering("writers", b)]' = writer
    BY <1>1, <2>6
  <2>11. B!Access
    BY <1>1, <2>1, <2>2, <2>3, <2>7, <2>8, <2>9, <2>10 DEF B!Access, Fits
  <2>12. QED
    BY <2>5, <2>11
<1>5. CASE check_races_and_update_with_write
  <2>1. /\ Fits(op') /\ op'.is_read = FALSE /\ nacc < MaxAccesses /\ nacc' = nacc + 1
        /\ op' \in B!Ops /\ op'.start + op'.size <= 8
    BY <1>5, AccessParts DEF check_races_and_update_with_write, IInv
  <2>2. PICK o : o = op'
    OBVIOUS
  <2>3. Fits(o) /\ Covered(o) \subseteq Bytes
    BY <2>1, <2>2, AccessGrain
  <2>4. /\ reported' = Racing("writers", o, mem_gtype(o.start, o.size))
                        \cup Racing("readers", o, mem_gtype(o.start, o.size))
        /\ Update("writers", o, mem_gtype(o.start, o.size), nacc + 1)
    BY <1>5, <2>2 DEF check_races_and_update_with_write, Write
  <2>5. IInv'
    BY <1>3, <2>1, <2>3, <2>4, UpdateKeepsBytes, UpdateKeepsCounts DEF IInv, Fits
  <2>6. /\ \A b \in Bytes :
              Covering("writers", b)' = IF b \in Covered(o) /\ Covering("writers", b) \notin o.parallel
                                        THEN nacc + 1 ELSE Covering("writers", b)
        /\ \A b \in Bytes : Covering("readers", b)' = Covering("readers", b)
    BY <1>3, <2>1, <2>3, <2>4, UpdateKeepsBytes DEF IInv
  <2>7. reported' = ({Covering("writers", b) : b \in Covered(o)} \cap o.parallel)
                     \cup ({Covering("readers", b) : b \in Covered(o)} \cap o.parallel)
    BY <1>3, <2>3, <2>4, RacingBytes DEF IInv
  <2>8. /\ B!Racing(writer, o) = {Covering("writers", b) : b \in Covered(o)} \cap o.parallel
        /\ B!Racing(reader, o) = {Covering("readers", b) : b \in Covered(o)} \cap o.parallel
    BY <1>1, <2>3 DEF B!Racing, B!Covered, Covered
  <2>9. [b \in Bytes |-> Covering("writers", b)]' = B!Kept(writer, o, nacc')
    BY <1>1, <1>2, <2>1, <2>6 DEF B!Kept, B!Covered, Covered
  <2>10. [b \in Bytes |-> Covering("readers", b)]' = reader
    BY <1>1, <2>6
  <2>11. B!Access
    BY <1>1, <2>1, <2>2, <2>3, <2>7, <2>8, <2>9, <2>10 DEF B!Access, Fits
  <2>12. QED
    BY <2>5, <2>11
<1>6. QED
  BY <1>4, <1>5 DEF Next

\* The inductive invariant holds in every state.
LEMMA InvariantHolds == Spec => []IInv
<1>1. IInv /\ [Next]_vars => IInv'
  <2> SUFFICES ASSUME IInv, [Next]_vars PROVE IInv'
    OBVIOUS
  <2>1. CASE Next
    BY <2>1, NextStep
  <2>2. CASE UNCHANGED vars
    BY <2>2 DEF vars, IInv, ListsInv, CountsInv, SlotsOf
  <2>3. QED
    BY <2>1, <2>2
<1>2. QED
  BY <1>1, InitInv, PTL DEF Spec

\* The lists, the counts and the deleted objects keep their types, however
\* many accesses share the word.
THEOREM TypeCorrect == Spec => []TypeOK
<1>1. IInv => TypeOK
  BY RangesAssumption DEF IInv, ListsInv, CountsInv, TypeOK, Accesses
<1>2. QED
  BY <1>1, InvariantHolds, PTL

\* No access, of whatever size and alignment, fails an assertion of the word's
\* operations: walks end at the end of a slot, and the slots a list is broken
\* into are empty.
THEOREM NoAssertionFailsInv == Spec => []NoAssertionFails
<1>1. IInv => NoAssertionFails
  BY DEF IInv, NoAssertionFails
<1>2. QED
  BY <1>1, InvariantHolds, PTL

\* The slots that point to an access object are counted in its ref_count, and
\* it is deleted when there are none: no slot points to a deleted object and
\* none is leaked.
THEOREM RefCountsExactInv == Spec => []RefCountsExact
<1>1. ASSUME IInv, NEW a \in 1 .. nacc
      PROVE  LET pointing == {p \in Lists \X Bytes : slot[p[1]][p[2]] = a}
             IN  IF a \in freed THEN pointing = {}
                 ELSE pointing # {} /\ ref_count[a] = Cardinality(pointing)
  <2>1. PICK pointing, R, W : /\ pointing = {p \in Lists \X Bytes : slot[p[1]][p[2]] = a}
                              /\ R = {"readers"} \X SlotsOf("readers", a)
                              /\ W = {"writers"} \X SlotsOf("writers", a)
    OBVIOUS
  <2>2. pointing = R \cup W /\ R \cap W = {}
    BY <2>1 DEF Lists, SlotsOf
  <2>3. /\ IsFiniteSet(R) /\ Cardinality(R) = Cardinality(SlotsOf("readers", a))
        /\ IsFiniteSet(W) /\ Cardinality(W) = Cardinality(SlotsOf("writers", a))
    <3>1. \A S \in SUBSET Bytes, l \in Lists :
            IsFiniteSet({l} \X S) /\ Cardinality({l} \X S) = Cardinality(S)
      <4>1. ASSUME NEW S \in SUBSET Bytes, NEW l \in Lists
            PROVE  IsFiniteSet({l} \X S) /\ Cardinality({l} \X S) = Cardinality(S)
        <5>1. IsFiniteSet({l}) /\ Cardinality({l}) = 1
          BY FS_Singleton
        <5>2. IsFiniteSet(S) /\ Cardinality(S) \in Nat
          BY BytesFinite
        <5>3. /\ IsFiniteSet({l} \X S)
              /\ Cardinality({l} \X S) = Cardinality({l}) * Cardinality(S)
          BY <5>1, <5>2, FS_Product
        <5>4. QED
          BY <5>1, <5>2, <5>3
      <4>2. QED
        BY <4>1
    <3>2. SlotsOf("readers", a) \in SUBSET Bytes /\ SlotsOf("writers", a) \in SUBSET Bytes
      BY DEF SlotsOf
    <3>3. QED
      BY <2>1, <3>1, <3>2 DEF Lists
  <2>4. Cardinality(pointing) = Cardinality(R) + Cardinality(W) - Cardinality({})
    BY <2>2, <2>3, FS_Union
  <2>5. /\ Cardinality(R) \in Nat /\ Cardinality(W) \in Nat /\ IsFiniteSet(pointing)
    BY <2>2, <2>3, FS_CardinalityType, FS_Union
  <2>6. Cardinality(pointing) = Cardinality(R) + Cardinality(W)
    BY <2>4, <2>5, CountNone
  <2>7. a \in Accesses
    <3>1. nacc \in 0 .. MaxAccesses /\ MaxAccesses \in Nat
      BY <1>1, RangesAssumption DEF IInv, ListsInv
    <3>2. QED
      BY <3>1 DEF Accesses
  <2>8. ref_count[a] = Cardinality(pointing) /\ (a \in freed <=> ref_count[a] = 0)
    BY <1>1, <2>3, <2>6, <2>7 DEF IInv, CountsInv
  <2>9. Cardinality(pointing) = 0 <=> pointing = {}
    BY <2>5, FS_EmptySet
  <2>10. QED
    BY <2>1, <2>8, <2>9
<1>2. IInv => RefCountsExact
  BY <1>1 DEF RefCountsExact
<1>3. QED
  BY <1>2, InvariantHolds, PTL

\* Whatever mix of sizes and alignments a program uses, the word's lists
\* behave as one reader and one writer per byte.
THEOREM ImplementsByteShadowProof == Spec => ImplementsByteShadow
<1>1. Init => B!Init
  BY DEF Init, B!Init, Covering, B!Bytes, Bytes, MAX_GRAIN_SIZE, B!NoAccess, NoAccess, Lists
<1>2. IInv /\ [Next]_vars =>
        [B!Access]_<<[b \in Bytes |-> Covering("readers", b)], [b \in Bytes |-> Covering("writers", b)],
                     nacc, op, reported>>
  <2> SUFFICES ASSUME IInv, [Next]_vars, ~Next
               PROVE  UNCHANGED <<[b \in Bytes |-> Covering("readers", b)],
                                  [b \in Bytes |-> Covering("writers", b)], nacc, op, reported>>
    BY NextStep
  <2>1. QED
    BY DEF vars, Covering
<1>3. QED
  BY <1>1, <1>2, InvariantHolds, PTL DEF Spec, ImplementsByteShadow, B!Spec

-----------------------------------------------------------------------------
(***************************************************************************)
(* The cutting of an access into pieces, for an access of any size: the    *)
(* loop over the words stops one word early, so that the last piece is     *)
(* never empty.                                                            *)
(***************************************************************************)
LEMMA WordsCounted ==
  ASSUME NEW rest \in Nat \ {0}
  PROVE  \E n \in Nat : /\ Cardinality(WordStarts(rest)) = n
                        /\ WordStarts(rest) = {8 * k : k \in 0 .. n - 1}
                        /\ 8 * n < rest /\ rest <= 8 * n + 8
<1>1. PICK n : n = (rest - 1) \div 8
  OBVIOUS
<1>2. n \in Nat /\ 8 * n <= rest - 1 /\ rest - 1 < 8 * n + 8
  BY <1>1
<1>3. WordStarts(rest) = {8 * k : k \in 0 .. n - 1}
  <2>1. ASSUME NEW i \in WordStarts(rest) PROVE \E k \in 0 .. n - 1 : i = 8 * k
    <3>1. i \in 0 .. rest /\ i % 8 = 0 /\ i + 8 < rest
      BY DEF WordStarts, MAX_GRAIN_SIZE
    <3>2. i = 8 * (i \div 8) /\ i \div 8 \in Nat
      BY <3>1
    <3>3. i \div 8 <= n - 1
      BY <1>2, <3>1, <3>2
    <3>4. i \div 8 \in 0 .. n - 1
      BY <1>2, <3>2, <3>3
    <3>5. QED
      BY <3>2, <3>4
  <2>2. ASSUME NEW k \in 0 .. n - 1 PROVE 8 * k \in WordStarts(rest)
    <3>1. 8 * k \in 0 .. rest /\ (8 * k) % 8 = 0 /\ 8 * k + 8 < rest
      BY <1>2
    <3>2. QED
      BY <3>1 DEF WordStarts, MAX_GRAIN_SIZE
  <2>3. QED
    BY <2>1, <2>2
<1>4. Cardinality(WordStarts(rest)) = n
  <2>1. PICK S, f : S = {8 * k : k \in 0 .. n - 1} /\ f = [j \in 1 .. n |-> 8 * (j - 1)]
    OBVIOUS
  <2>2. f \in [1 .. n -> S]
    <3>1. ASSUME NEW j \in 1 .. n PROVE 8 * (j - 1) \in S
      <4>1. j - 1 \in 0 .. n - 1
        BY <1>2
      <4>2. QED
        BY <2>1, <4>1
    <3>2. QED
      BY <2>1, <3>1
  <2>3. \A i, j \in 1 .. n : f[i] = f[j] => i = j
    BY <1>2, <2>1
  <2>4. ASSUME NEW s \in S PROVE \E j \in 1 .. n : f[j] = s
    <3>1. PICK k \in 0 .. n - 1 : s = 8 * k
      BY <2>1
    <3>2. k + 1 \in 1 .. n /\ 8 * ((k + 1) - 1) = s
      BY <1>2, <3>1
    <3>3. QED
      BY <2>1, <3>2
  <2>5. f \in Bijection(1 .. n, S)
    BY <2>2, <2>3, <2>4 DEF Bijection, Injection, Surjection, IsInjective
  <2>6. ExistsBijection(1 .. n, S)
    BY <2>5 DEF ExistsBijection
  <2>7. QED
    BY <1>2, <1>3, <2>1, <2>6, FS_CountingElements
<1>5. n \in Nat /\ 8 * n < rest /\ rest <= 8 * n + 8
  BY <1>2
<1>6. QED
  BY <1>3, <1>4, <1>5

BytesOf(p) == p[1] .. (p[1] + p[2] - 1)

\* The pieces of an access of any size from any address are disjoint, cover
\* it, and lie in one word each.
THEOREM PiecesCoverAnyAccess ==
  ASSUME NEW addr \in Nat, NEW mem_size \in Nat \ {0}
  PROVE  /\ UNION {BytesOf(p) : p \in Pieces(addr, mem_size)} = addr .. (addr + mem_size - 1)
         /\ \A p, q \in Pieces(addr, mem_size) : p # q => BytesOf(p) \cap BytesOf(q) = {}
         /\ \A p \in Pieces(addr, mem_size) :
              p[2] > 0 /\ (p[1] % MAX_GRAIN_SIZE) + p[2] <= MAX_GRAIN_SIZE
<1>1. PICK next, prefix : next = ALIGN_BY_NEXT_MAX_GRAIN_SIZE(addr) /\ prefix = next - addr
  OBVIOUS
<1>2. /\ next \in Nat /\ prefix \in 0 .. 7 /\ next = addr + prefix /\ next % 8 = 0
      /\ next = 8 * (next \div 8)
      /\ prefix > 0 => addr % 8 = 8 - prefix
      /\ prefix = 0 => addr % 8 = 0
  BY <1>1 DEF ALIGN_BY_NEXT_MAX_GRAIN_SIZE, MAX_GRAIN_SIZE
<1>3. CASE prefix >= mem_size
  <2>1. Pieces(addr, mem_size) = {<<addr, mem_size>>}
    BY <1>1, <1>3 DEF Pieces
  <2>2. BytesOf(<<addr, mem_size>>) = addr .. (addr + mem_size - 1)
    BY DEF BytesOf
  <2>3. (addr % 8) + mem_size <= 8
    BY <1>2, <1>3
  <2>4. QED
    BY <2>1, <2>2, <2>3 DEF MAX_GRAIN_SIZE
<1>4. CASE prefix < mem_size
  <2>1. PICK rest, pieces : rest = mem_size - prefix /\ pieces = Pieces(addr, mem_size)
    OBVIOUS
  <2>2. rest \in Nat \ {0}
    BY <1>2, <1>4, <2>1
  <2>3. PICK n \in Nat : /\ Cardinality(WordStarts(rest)) = n
                         /\ WordStarts(rest) = {8 * k : k \in 0 .. n - 1}
                         /\ 8 * n < rest /\ rest <= 8 * n + 8
    BY <2>2, WordsCounted
  <2>4. PICK first, last : first = <<addr, prefix>> /\ last = <<next + 8 * n, rest - 8 * n>>
    OBVIOUS
  <2>5. pieces = (IF prefix > 0 THEN {first} ELSE {})
                   \cup {<<next + 8 * k, 8>> : k \in 0 .. n - 1} \cup {last}
    <3>1. {<<next + i, 8>> : i \in WordStarts(rest)} = {<<next + 8 * k, 8>> : k \in 0 .. n - 1}
      BY <2>3
    <3>2. ~(prefix >= mem_size)
      BY <1>2, <1>4
    <3>3. QED
      BY <1>1, <2>1, <2>3, <2>4, <3>1, <3>2 DEF Pieces, MAX_GRAIN_SIZE
  <2>6. ASSUME NEW p \in pieces
        PROVE  \/ p = first /\ prefix > 0
               \/ \E k \in 0 .. n - 1 : p = <<next + 8 * k, 8>>
               \/ p = last
    BY <2>5
  <2>7. ASSUME NEW x PROVE (\E p \in pieces : x \in BytesOf(p)) <=> x \in addr .. (addr + mem_size - 1)
    <3>1. ASSUME NEW p \in pieces, x \in BytesOf(p) PROVE x \in addr .. (addr + mem_size - 1)
      <4>1. CASE p = first /\ prefix > 0
        BY <1>2, <1>4, <2>4, <3>1, <4>1 DEF BytesOf
      <4>2. ASSUME NEW k \in 0 .. n - 1, p = <<next + 8 * k, 8>> PROVE x \in addr .. (addr + mem_size - 1)
        BY <1>2, <2>1, <2>2, <2>3, <3>1, <4>2 DEF BytesOf
      <4>3. CASE p = last
        BY <1>2, <2>1, <2>2, <2>3, <2>4, <3>1, <4>3 DEF BytesOf
      <4>4. QED
        BY <2>6, <4>1, <4>2, <4>3
    <3>2. ASSUME x \in addr .. (addr + mem_size - 1) PROVE \E p \in pieces : x \in BytesOf(p)
      <4>1. CASE x < next
        <5>1. prefix > 0 /\ x \in BytesOf(first)
          BY <1>2, <2>4, <3>2, <4>1 DEF BytesOf
        <5>2. QED
          BY <2>5, <5>1
      <4>2. CASE x >= next + 8 * n
        <5>1. x \in BytesOf(last)
          BY <1>2, <2>1, <2>2, <2>3, <2>4, <3>2, <4>2 DEF BytesOf
        <5>2. QED
          BY <2>5, <5>1
      <4>3. CASE x >= next /\ x < next + 8 * n
        <5>1. PICK k : k = (x - next) \div 8
          OBVIOUS
        <5>2. k \in Int /\ 8 * k <= x - next /\ x - next < 8 * k + 8
          BY <1>2, <3>2, <5>1
        <5>3. k \in 0 .. n - 1
          BY <1>2, <2>3, <3>2, <4>3, <5>2
        <5>4. x \in BytesOf(<<next + 8 * k, 8>>)
          BY <1>2, <3>2, <5>2, <5>3 DEF BytesOf
        <5>5. QED
          BY <2>5, <5>3, <5>4
      <4>4. QED
        BY <1>2, <2>3, <3>2, <4>1, <4>2, <4>3
    <3>3. QED
      BY <3>1, <3>2
  <2>8. UNION {BytesOf(p) : p \in pieces} = addr .. (addr + mem_size - 1)
    BY <2>7
  <2>9. ASSUME NEW p \in pieces
        PROVE  p[2] > 0 /\ (p[1] % MAX_GRAIN_SIZE) + p[2] <= MAX_GRAIN_SIZE
    <3>1. CASE p = first /\ prefix > 0
      BY <1>2, <2>4, <3>1 DEF MAX_GRAIN_SIZE
    <3>2. ASSUME NEW k \in 0 .. n - 1, p = <<next + 8 * k, 8>>
          PROVE  p[2] > 0 /\ (p[1] % MAX_GRAIN_SIZE) + p[2] <= MAX_GRAIN_SIZE
      <4>1. (next + 8 * k) % 8 = 0
        BY <1>2
      <4>2. QED
        BY <3>2, <4>1 DEF MAX_GRAIN_SIZE
    <3>3. CASE p = last
      <4>1. (next + 8 * n) % 8 = 0
        BY <1>2
      <4>2. QED
        BY <2>2, <2>3, <2>4, <3>3, <4>1 DEF MAX_GRAIN_SIZE
    <3>4. QED
      BY <2>6, <3>1, <3>2, <3>3
  <2>10. ASSUME NEW p \in pieces, NEW q \in pieces, p # q PROVE BytesOf(p) \cap BytesOf(q) = {}
    <3> DEFINE Places(r) == \/ r = first /\ prefix > 0
                            \/ \E k \in 0 .. n - 1 : r = <<next + 8 * k, 8>>
                            \/ r = last
    <3>1. \A x \in BytesOf(first) : x \in Int /\ x < next
      BY <1>2, <2>4 DEF BytesOf
    <3>2. \A x \in BytesOf(last) : x \in Int /\ x >= next + 8 * n
      BY <1>2, <2>2, <2>3, <2>4 DEF BytesOf
    <3>3. \A k \in 0 .. n - 1 : \A x \in BytesOf(<<next + 8 * k, 8>>) :
            /\ x \in Int /\ x >= next + 8 * k /\ x < next + 8 * k + 8
            /\ x >= next /\ x < next + 8 * n
      BY <1>2, <2>3 DEF BytesOf
    <3>4. ASSUME NEW x \in BytesOf(p), x \in BytesOf(q) PROVE FALSE
      <4>1. Places(p) /\ Places(q)
        BY <2>6
      <4>2. ASSUME NEW j \in 0 .. n - 1, NEW k \in 0 .. n - 1,
                   p = <<next + 8 * j, 8>>, q = <<next + 8 * k, 8>>
            PROVE  FALSE
        <5>1. j # k
          BY <2>10, <4>2
        <5>2. /\ x \in Int /\ x >= next + 8 * j /\ x < next + 8 * j + 8
              /\ x >= next + 8 * k /\ x < next + 8 * k + 8
          BY <3>3, <3>4, <4>2
        <5>3. QED
          BY <1>2, <5>1, <5>2
      <4>3. ASSUME NEW r, Places(r), x \in BytesOf(r)
            PROVE  /\ r = first => x < next
                   /\ r = last => x >= next + 8 * n
                   /\ r # first /\ r # last =>
                        /\ x >= next /\ x < next + 8 * n
                        /\ \E k \in 0 .. n - 1 : r = <<next + 8 * k, 8>>
        BY <3>1, <3>2, <3>3, <4>3
      <4>4. x \in Int /\ 0 <= 8 * n /\ next \in Nat
        BY <1>2, <2>3, <3>1, <3>2, <3>3, <3>4, <4>1
      <4>5. PICK s \in Nat : s = 8 * n
        BY <2>3
      <4>6. /\ p = first => x < next
            /\ p = last => x >= next + s
            /\ p # first /\ p # last => x >= next /\ x < next + s
            /\ q = first => x < next
            /\ q = last => x >= next + s
            /\ q # first /\ q # last => x >= next /\ x < next + s
        BY <3>4, <4>1, <4>3, <4>5
      <4>7. CASE p \in {first, last} \/ q \in {first, last}
        BY <2>10, <4>4, <4>6, <4>7
      <4>8. CASE p \notin {first, last} /\ q \notin {first, last}
        BY <3>4, <4>1, <4>2, <4>8
      <4>9. QED
        BY <4>7, <4>8
    <3>5. QED
      BY <3>4
  <2>11. QED
    BY <2>1, <2>8, <2>9, <2>10
<1>5. QED
  BY <1>2, <1>3, <1>4

\* Every access from wherever the last one started is cut without loss.
THEOREM PiecesCoverAccessInv == Spec => []PiecesCoverAccess
<1>1. ASSUME IInv PROVE PiecesCoverAccess
  <2>1. op.start \in Nat
    BY <1>1 DEF IInv, Bytes, MAX_GRAIN_SIZE
  <2>2. \A mem_size \in 1 .. 24 : mem_size \in Nat \ {0}
    OBVIOUS
  <2>3. QED
    BY <2>1, <2>2, PiecesCoverAnyAccess DEF PiecesCoverAccess, BytesOf
<1>2. QED
  BY <1>1, InvariantHolds, PTL

=============================================================================
