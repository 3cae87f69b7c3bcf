---------------------------- MODULE MemAccessList ----------------------------
(***************************************************************************)
(* The shadow entry of one 8-byte word (cilksan/mem_access.h, .cpp): the   *)
(* readers and the writers at a granularity of 1, 2, 4 or 8 bytes that     *)
(* only ever gets finer, and the reference counts of the access objects    *)
(* the slots share.  Which earlier accesses are parallel to the current    *)
(* one is module RaceDetector's business: here any set of them may be,     *)
(* since a bag turns from S to P and back as functions return and sync.    *)
(***************************************************************************)
EXTENDS Integers, FiniteSets

CONSTANTS
  MaxAccesses,  \* bound on the accesses
  Ranges        \* the <<start, size>> of the accesses

MAX_GRAIN_SIZE == 8
Bytes == 0 .. MAX_GRAIN_SIZE - 1
Accesses == 1 .. MaxAccesses
NoAccess == 0
UNINIT == -1
GrainTypes == 0 .. 3
Lists == {"readers", "writers"}

ASSUME RangesAssumption ==
  /\ MaxAccesses \in Nat
  /\ \A r \in Ranges : r[1] \in Bytes /\ r[2] \in 1 .. MAX_GRAIN_SIZE - r[1]

VARIABLES
  gtype,        \* reader_gtype and writer_gtype
  slot,         \* the arrays readers and writers
  ref_count,
  freed,        \* access objects deleted
  died,         \* a cilksan_assert failed
  nacc, op, reported

vars == <<gtype, slot, ref_count, freed, died, nacc, op, reported>>

Init ==
  /\ gtype = [l \in Lists |-> UNINIT]
  /\ slot = [l \in Lists |-> [b \in Bytes |-> NoAccess]]
  /\ ref_count = [a \in Accesses |-> 0]
  /\ freed = {} /\ died = FALSE
  /\ nacc = 0 /\ reported = {}
  /\ op = [is_read |-> TRUE, start |-> 0, size |-> 1, parallel |-> {}]

-----------------------------------------------------------------------------
gtype_to_mem_size == <<1, 2, 4, 8>>
GrainSize(g) == gtype_to_mem_size[g + 1]
IS_ALIGNED_WITH_GTYPE(i, g) == i % GrainSize(g) = 0
get_prev_aligned_index(i, g) == (i \div GrainSize(g)) * GrainSize(g)
Finer(g, h) == IF g < h THEN g ELSE h

\* get_mem_index: the granularity of an access; an odd size or an unaligned
\* start gets one byte.
unaligned_gtype(start, size) ==
  CASE size = 8 -> 3 [] size = 4 -> 2 [] size = 2 -> 1 [] OTHER -> 0

mem_gtype(start, size) ==
  LET g == unaligned_gtype(start, size)
  IN  IF IS_ALIGNED_WITH_GTYPE(start, g) THEN g ELSE 0

\* The indices a walk from start to end visits with the stride of g.
Walk(o, g) == {i \in o.start .. (o.start + o.size - 1) : (i - o.start) % GrainSize(g) = 0}

\* The slot that covers byte i.
Covering(l, i) ==
  IF gtype[l] = UNINIT THEN NoAccess ELSE slot[l][get_prev_aligned_index(i, gtype[l])]

\* break_list_into_smaller_gtype: each access is copied to the new slots its
\* old slot covered.
Unbroken(l, g) == slot[l]

Broken(l, g) ==
  [i \in Bytes |-> IF IS_ALIGNED_WITH_GTYPE(i, g) /\ Covering(l, i) # NoAccess
                   THEN Covering(l, i) ELSE slot[l][i]]
BreakAsserts(l, g) ==
  \A i \in Bytes :
    IS_ALIGNED_WITH_GTYPE(i, g) /\ ~IS_ALIGNED_WITH_GTYPE(i, gtype[l]) /\ Covering(l, i) # NoAccess
      => slot[l][i] = NoAccess

\* The accesses of a list that race with the access o of granularity g.
Racing(l, o, g) ==
  IF gtype[l] = UNINIT THEN {}
  ELSE {Covering(l, i) : i \in Walk(o, Finer(g, gtype[l]))} \cap o.parallel

EndAligned(o, g) == IS_ALIGNED_WITH_GTYPE(o.start + o.size, g)

\* A walk asserts that the end of the access is aligned with its stride.
WalkAsserts(l, o, g) == gtype[l] # UNINIT => EndAligned(o, Finer(g, gtype[l]))

Replaced(list, repl, a) == Cardinality({i \in repl : list[i] = a})

\* Mutants: the copies are not counted; nor are the slots an access loses.
CountsOfReplacements(l, list, repl, acc) ==
  [a \in Accesses |-> ref_count[a] - Replaced(list, repl, a)
                      + IF a = acc THEN Cardinality(repl) ELSE 0]
CountsOfCopies(l, list, repl, acc) ==
  [a \in Accesses |-> ref_count[a] + Cardinality({i \in Bytes : list[i] = a /\ slot[l][i] # a})
                      + IF a = acc THEN Cardinality(repl) ELSE 0]

\* inc_ref_count and dec_ref_count as list replaces slot[l], and acc the
\* accesses at the indices repl.
RefCounts(l, list, repl, acc) ==
  LET copies(a) == Cardinality({i \in Bytes : list[i] = a /\ slot[l][i] # a})
  IN  [a \in Accesses |-> ref_count[a] + copies(a) - Replaced(list, repl, a)
                          + IF a = acc THEN Cardinality(repl) ELSE 0]

\* Brings list l to a granularity that fits the access, then puts the access
\* acc into the slots whose access is in series with it; an access object
\* whose count drops to zero is deleted.
Update(l, o, g, acc) ==
  LET coarse == gtype[l] > g
      g1     == IF gtype[l] = UNINIT \/ coarse THEN g ELSE gtype[l]
      list   == IF coarse THEN Broken(l, g) ELSE slot[l]
      repl   == {i \in Walk(o, g1) : list[i] \notin o.parallel}
      count  == RefCounts(l, list, repl, acc)
  IN  /\ gtype' = [gtype EXCEPT ![l] = g1]
      /\ slot' = [slot EXCEPT ![l] = [i \in Bytes |-> IF i \in repl THEN acc ELSE list[i]]]
      /\ ref_count' = count
      /\ freed' = freed \cup {a \in Accesses : count[a] = 0 /\ (a = acc \/ Replaced(list, repl, a) > 0)}
      /\ died' = ~ /\ EndAligned(o, g1)
                   /\ coarse => BreakAsserts(l, g)
                   /\ \A m \in Lists \ {l} : WalkAsserts(m, o, g)

\* check_races_and_update_with_read; the first access of a word is the
\* constructor's and finds both lists empty.
Read(o) ==
  LET g == mem_gtype(o.start, o.size) IN
  /\ reported' = Racing("writers", o, g)
  /\ Update("readers", o, g, nacc + 1)

\* check_races_and_update_with_write: the last writers are checked as they
\* are replaced, then the readers.
Write(o) ==
  LET g == mem_gtype(o.start, o.size) IN
  /\ reported' = Racing("writers", o, g) \cup Racing("readers", o, g)
  /\ Update("writers", o, g, nacc + 1)

Access(is_read) ==
  /\ ~died /\ nacc < MaxAccesses
  /\ \E r \in Ranges, parallel \in SUBSET (1 .. nacc) :
       op' = [is_read |-> is_read, start |-> r[1], size |-> r[2], parallel |-> parallel]
  /\ nacc' = nacc + 1

check_races_and_update_with_read == Access(TRUE) /\ Read(op')
check_races_and_update_with_write == Access(FALSE) /\ Write(op')

Next == check_races_and_update_with_read \/ check_races_and_update_with_write

Spec == Init /\ [][Next]_vars

-----------------------------------------------------------------------------
(***************************************************************************)
(* cilksan_do_read and cilksan_do_write cut an access into pieces, one     *)
(* call of record_mem_helper each: a prefix up to the next word, words,    *)
(* and the rest.                                                           *)
(***************************************************************************)
ALIGN_BY_NEXT_MAX_GRAIN_SIZE(addr) ==
  ((addr + MAX_GRAIN_SIZE - 1) \div MAX_GRAIN_SIZE) * MAX_GRAIN_SIZE

\* Mutant: the loop takes the word that is left for the last call.
WordStartsPastEnd(rest) ==
  {i \in 0 .. rest : i % MAX_GRAIN_SIZE = 0 /\ i + MAX_GRAIN_SIZE <= rest}

\* Where the loop over the words records one, after the prefix.
WordStarts(rest) ==
  {i \in 0 .. rest : i % MAX_GRAIN_SIZE = 0 /\ i + MAX_GRAIN_SIZE < rest}

Pieces(addr, mem_size) ==
  LET next   == ALIGN_BY_NEXT_MAX_GRAIN_SIZE(addr)
      prefix == next - addr
      rest   == mem_size - prefix
      words  == WordStarts(rest)
      last   == MAX_GRAIN_SIZE * Cardinality(words)
  IN  IF prefix >= mem_size THEN {<<addr, mem_size>>}
      ELSE (IF prefix > 0 THEN {<<addr, prefix>>} ELSE {})
             \cup {<<next + i, MAX_GRAIN_SIZE>> : i \in words}
             \cup {<<next + last, rest - last>>}

-----------------------------------------------------------------------------
\* Every slot and count has its type.
TypeOK ==
  /\ gtype \in [Lists -> GrainTypes \cup {UNINIT}]
  /\ slot \in [Lists -> [Bytes -> Accesses \cup {NoAccess}]]
  /\ ref_count \in [Accesses -> Nat]
  /\ freed \subseteq Accesses /\ nacc \in 0 .. MaxAccesses

\* No assertion of the word's operations fails.
NoAssertionFails == ~died

\* The lists behave as if every byte had its own reader and writer: no mix of
\* sizes and alignments loses an access, or reports one that is not there.
B == INSTANCE ByteShadow WITH
       reader <- [b \in Bytes |-> Covering("readers", b)],
       writer <- [b \in Bytes |-> Covering("writers", b)]
ImplementsByteShadow == B!Spec

\* The reference count of an access object is the number of slots that point
\* to it, and a slot never points to a deleted object.
RefCountsExact ==
  \A a \in 1 .. nacc :
    LET pointing == {p \in Lists \X Bytes : slot[p[1]][p[2]] = a}
    IN  IF a \in freed THEN pointing = {}
        ELSE pointing # {} /\ ref_count[a] = Cardinality(pointing)

\* The pieces of an access of any size, from wherever accesses start, are
\* disjoint, cover it, and lie in one word each.
PiecesCoverAccess ==
  \A mem_size \in 1 .. 24 :
    LET bytes(p) == p[1] .. (p[1] + p[2] - 1)
        pieces == Pieces(op.start, mem_size)
    IN  /\ UNION {bytes(p) : p \in pieces} = op.start .. (op.start + mem_size - 1)
        /\ \A p, q \in pieces : p # q => bytes(p) \cap bytes(q) = {}
        /\ \A p \in pieces : p[2] > 0 /\ (p[1] % MAX_GRAIN_SIZE) + p[2] <= MAX_GRAIN_SIZE
=============================================================================
