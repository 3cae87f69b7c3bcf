--------------------------- MODULE ViewReadProofs ----------------------------
(***************************************************************************)
(* viewread, for every program and every table of hashes: the table finds  *)
(* the last reader of every reducer, no function is lost from the bags, no *)
(* assertion fails, and every read reported is a race.                     *)
(*                                                                         *)
(* A read is reported when the function of the last reader is in a P-bag,  *)
(* or when the spawn counts of the two reads differ; neither says a word   *)
(* of peers.  The invariant relates both to peers, and for every strand    *)
(* that may read later, since a return makes one of them current.  A bag   *)
(* that reports gets a spawned child, whose reads have the continuation as *)
(* a peer; or at a spawn or sync it gets the SP-bag, whose reads counted   *)
(* more spawns than any older strand that can still be returned to.        *)
(***************************************************************************)
EXTENDS ViewRead, FiniteSetTheorems, TLAPS

-----------------------------------------------------------------------------
(***************************************************************************)
(* The table of last readers.                                              *)
(***************************************************************************)
\* A capacity is positive: 2^k counts the subsets of 1 .. k.
LEMMA PowerIsPositive ==
  ASSUME NEW k \in Nat
  PROVE  2 ^ k \in Nat \ {0}
<1>1. IsFiniteSet(1 .. k) /\ Cardinality(1 .. k) = k
  BY FS_Interval
<1>2. IsFiniteSet(SUBSET (1 .. k)) /\ Cardinality(SUBSET (1 .. k)) = 2 ^ k
  BY <1>1, FS_SUBSET
<1>3. 2 ^ k \in Nat
  BY <1>2, FS_CardinalityType
<1>4. 2 ^ k # 0
  BY <1>2, FS_EmptySet
<1>5. QED
  BY <1>3, <1>4

\* A set of naturals with a member has a least one, which is its Min.
LEMMA MinIsLeast ==
  ASSUME NEW T \in SUBSET Nat, T # {}
  PROVE  Min(T) \in T /\ \A y \in T : Min(T) <= y
<1>1. PICK R : R = OpToRel(<, Nat)
  OBVIOUS
<1>2. PICK x \in T : \A y \in T : ~(<<y, x>> \in R)
  BY <1>1, NatLessThanWellFounded, WFMin
<1>3. ASSUME NEW y \in Nat, y < x PROVE <<y, x>> \in R
  BY <1>1, <1>3 DEF OpToRel
<1>4. ASSUME NEW y \in T PROVE x <= y
  <2>1. x \in Nat /\ y \in Nat
    OBVIOUS
  <2>2. ~(y < x)
    BY <1>2, <1>3, <2>1
  <2>3. QED
    BY <2>1, <2>2
<1>5. QED
  BY <1>4 DEF Min

Used(tab) == {i \in Slots(tab) : ~ empty_reader_p(tab.entries[i])}

Readers == [reducer : Reducers \cup {0}, reader : Nat, spawns : Nat, node : Nat]

\* A table in which every entry is found: the search for its reducer ends at
\* its slot, so that no reducer has two.
IsTable(tab) ==
  /\ tab = [lg_capacity |-> tab.lg_capacity, size |-> tab.size, entries |-> tab.entries]
  /\ tab.lg_capacity \in Nat /\ tab.entries \in [Slots(tab) -> Readers]
  /\ \A i \in Used(tab) : get_reader_helper(tab.entries[i].reducer, tab) = i
  /\ tab.size = Cardinality(Used(tab))

EntriesIn(tab) == {tab.entries[i] : i \in Used(tab)}

\* The wrap-around keeps a probe inside the table.
LEMMA ProbesAreSlots ==
  ASSUME NEW tab, tab.lg_capacity \in Nat, NEW r \in Reducers, NEW d \in Nat
  PROVE  Probe(r, tab, d) \in Slots(tab)
<1>1. 2 ^ tab.lg_capacity \in Nat \ {0}
  BY PowerIsPositive
<1>2. HashOf[r] + d \in Nat
  BY ReducersAssumption
<1>3. PICK N, h : N = 2 ^ tab.lg_capacity /\ h = HashOf[r] + d
  OBVIOUS
<1>4. h % N \in 0 .. N - 1
  BY <1>1, <1>2, <1>3
<1>5. QED
  BY <1>3, <1>4 DEF Probe, Slots

\* The displacements at which the reducer could have its entry.
FitsAt(r, tab) ==
  {d \in Displacements(tab) :
     LET entry == tab.entries[Probe(r, tab, d)] IN empty_reader_p(entry) \/ entry.reducer = r}

\* The search ends at the first slot that fits, or at none.
LEMMA HelperFinds ==
  ASSUME NEW tab, NEW r \in Reducers, tab.lg_capacity \in Nat
  PROVE  /\ FitsAt(r, tab) \in SUBSET Nat
         /\ FitsAt(r, tab) = {} => get_reader_helper(r, tab) = NULL
         /\ FitsAt(r, tab) # {} =>
              /\ get_reader_helper(r, tab) = Probe(r, tab, Min(FitsAt(r, tab)))
              /\ get_reader_helper(r, tab) \in Slots(tab)
              /\ get_reader_helper(r, tab) # NULL
              /\ LET entry == tab.entries[get_reader_helper(r, tab)]
                 IN  empty_reader_p(entry) \/ entry.reducer = r
<1>1. get_reader_helper(r, tab) = IF FitsAt(r, tab) = {} THEN NULL
                                  ELSE Probe(r, tab, Min(FitsAt(r, tab)))
  BY DEF get_reader_helper, FitsAt
<1>2. 2 ^ tab.lg_capacity \in Nat \ {0}
  BY PowerIsPositive
<1>3. Slots(tab) \subseteq Nat
  BY <1>2 DEF Slots
<1>4. FitsAt(r, tab) \in SUBSET Nat
  BY <1>3 DEF FitsAt, Displacements
<1>5. ASSUME FitsAt(r, tab) # {}
      PROVE  /\ Probe(r, tab, Min(FitsAt(r, tab))) \in Slots(tab) \ {NULL}
             /\ LET entry == tab.entries[Probe(r, tab, Min(FitsAt(r, tab)))]
                IN  empty_reader_p(entry) \/ entry.reducer = r
  <2>1. Min(FitsAt(r, tab)) \in FitsAt(r, tab)
    BY <1>4, <1>5, MinIsLeast
  <2>2. Min(FitsAt(r, tab)) \in Nat
    BY <1>4, <2>1
  <2>3. Probe(r, tab, Min(FitsAt(r, tab))) \in Slots(tab)
    BY <2>2, ProbesAreSlots
  <2>4. NULL \notin Slots(tab)
    BY <1>3, ReducersAssumption
  <2>5. QED
    BY <2>1, <2>3, <2>4 DEF FitsAt
<1>6. QED
  BY <1>1, <1>4, <1>5

\* Every empty table is one.
LEMMA AllocIsTable ==
  ASSUME NEW lg \in Nat
  PROVE  IsTable(shadowmem_alloc(lg)) /\ Used(shadowmem_alloc(lg)) = {}
         /\ shadowmem_alloc(lg).lg_capacity = lg
<1>1. PICK tab : tab = shadowmem_alloc(lg)
  OBVIOUS
<1>2. /\ tab = [lg_capacity |-> lg, size |-> 0, entries |-> [i \in 0 .. 2 ^ lg - 1 |-> EmptyReader]]
      /\ tab.lg_capacity = lg /\ tab.size = 0
      /\ tab.entries = [i \in Slots(tab) |-> EmptyReader]
  BY <1>1 DEF shadowmem_alloc, Slots
<1>3. EmptyReader \in Readers /\ empty_reader_p(EmptyReader)
  BY DEF EmptyReader, Readers, empty_reader_p
<1>4. Used(tab) = {}
  BY <1>2, <1>3 DEF Used
<1>5. Cardinality(Used(tab)) = 0
  BY <1>4, FS_EmptySet
<1>6. QED
  BY <1>1, <1>2, <1>3, <1>4, <1>5 DEF IsTable

\* A table has finitely many entries.
LEMMA UsedFinite ==
  ASSUME NEW tab, tab.lg_capacity \in Nat
  PROVE  Slots(tab) \subseteq Nat /\ NULL \notin Slots(tab) /\ IsFiniteSet(Used(tab))
<1>1. 2 ^ tab.lg_capacity \in Nat \ {0}
  BY PowerIsPositive
<1>2. PICK N \in Nat \ {0} : N = 2 ^ tab.lg_capacity
  BY <1>1
<1>3. IsFiniteSet(0 .. N - 1) /\ 0 .. N - 1 \subseteq Nat
  <2>1. 0 \in Int /\ N - 1 \in Int
    OBVIOUS
  <2>2. QED
    BY <2>1, FS_Interval
<1>4. Used(tab) \in SUBSET (0 .. N - 1)
  BY <1>2 DEF Used, Slots
<1>5. IsFiniteSet(Used(tab))
  BY <1>3, <1>4, FS_Subset
<1>6. QED
  BY <1>2, <1>3, <1>5, ReducersAssumption DEF Slots

\* A table with an entry more, in the slot found for its reducer.
With(tab, slot, e) ==
  [lg_capacity |-> tab.lg_capacity, size |-> CountedSize(tab, slot),
   entries |-> [tab.entries EXCEPT ![slot] = e]]

\* An insertion moves no other search: the slot it fills was not passed by
\* the search for an entry that is there.
LEMMA InsertIsTable ==
  ASSUME NEW tab, IsTable(tab), NEW r \in Reducers, NEW slot, slot = get_reader_helper(r, tab),
         slot # NULL, NEW e \in Readers, e.reducer = r,
         NEW new, new = With(tab, slot, e)
  PROVE  /\ IsTable(new) /\ Used(new) = Used(tab) \cup {slot}
         /\ new.lg_capacity = tab.lg_capacity
         /\ get_reader_helper(r, new) = slot /\ new.entries[slot] = e
         /\ \A i \in Used(tab) : i # slot => new.entries[i] = tab.entries[i]
         /\ \A i \in Used(tab) : tab.entries[i].reducer = r => i = slot
<1>1. /\ new.lg_capacity = tab.lg_capacity /\ new.size = CountedSize(tab, slot)
      /\ new.entries = [tab.entries EXCEPT ![slot] = e]
      /\ new = [lg_capacity |-> new.lg_capacity, size |-> new.size, entries |-> new.entries]
  BY DEF With
<1>2. /\ tab.lg_capacity \in Nat /\ tab.entries \in [Slots(tab) -> Readers]
      /\ Slots(new) = Slots(tab) /\ Displacements(new) = Displacements(tab)
      /\ \A q, d : Probe(q, new, d) = Probe(q, tab, d)
  BY <1>1 DEF IsTable, Slots, Displacements, Probe
<1>3. FitsAt(r, tab) # {}
  BY <1>2, HelperFinds
<1>4. /\ slot \in Slots(tab) /\ slot = Probe(r, tab, Min(FitsAt(r, tab)))
      /\ empty_reader_p(tab.entries[slot]) \/ tab.entries[slot].reducer = r
  BY <1>2, <1>3, HelperFinds
<1>5. /\ new.entries \in [Slots(new) -> Readers] /\ new.entries[slot] = e
      /\ \A i \in Slots(tab) : i # slot => new.entries[i] = tab.entries[i]
  BY <1>1, <1>2, <1>4
<1>6. r # 0 /\ ~ empty_reader_p(e)
  BY ReducersAssumption DEF empty_reader_p
<1>7. Used(new) = Used(tab) \cup {slot}
  BY <1>2, <1>4, <1>5, <1>6 DEF Used
<1>8. get_reader_helper(r, new) = slot
  <2>1. FitsAt(r, new) = FitsAt(r, tab)
    <3>1. ASSUME NEW i \in Slots(tab)
          PROVE  (empty_reader_p(new.entries[i]) \/ new.entries[i].reducer = r)
                 <=> (empty_reader_p(tab.entries[i]) \/ tab.entries[i].reducer = r)
      BY <1>4, <1>5
    <3>2. \A d \in Displacements(tab) : d \in Nat
      BY <1>2, UsedFinite DEF Displacements
    <3>3. \A d \in Displacements(tab) : Probe(r, tab, d) \in Slots(tab)
      BY <1>2, <3>2, ProbesAreSlots
    <3>4. QED
      BY <1>2, <3>1, <3>3 DEF FitsAt
  <2>2. QED
    BY <1>1, <1>2, <1>3, <1>4, <2>1, HelperFinds
<1>9. ASSUME NEW i \in Used(tab), i # slot
      PROVE  get_reader_helper(tab.entries[i].reducer, new) = i
  <2>1. PICK q : q = tab.entries[i].reducer
    OBVIOUS
  <2>2. i \in Slots(tab) /\ q \in Reducers
    BY <1>2, <2>1 DEF Used, empty_reader_p, Readers
  <2>3. get_reader_helper(q, tab) = i
    BY <2>1 DEF IsTable
  <2>4. FitsAt(q, tab) # {} /\ FitsAt(q, tab) \in SUBSET Nat
    BY <1>2, <2>2, <2>3, HelperFinds, UsedFinite
  <2>5. PICK d : d = Min(FitsAt(q, tab))
    OBVIOUS
  <2>6. d \in FitsAt(q, tab) /\ (\A y \in FitsAt(q, tab) : d <= y) /\ Probe(q, tab, d) = i
    BY <1>2, <2>2, <2>3, <2>4, <2>5, MinIsLeast, HelperFinds
  <2>7. \A y \in Displacements(tab) : y \in Nat /\ Probe(q, tab, y) \in Slots(tab)
    <3>1. \A y \in Displacements(tab) : y \in Nat
      BY <1>2, UsedFinite DEF Displacements
    <3>2. QED
      BY <1>2, <2>2, <3>1, ProbesAreSlots
  <2>8. q # r
    BY <1>9, <2>3
  <2>9. FitsAt(q, new) \subseteq FitsAt(q, tab)
    <3>1. \A y \in Slots(tab) : empty_reader_p(new.entries[y]) \/ new.entries[y].reducer = q
                               => y # slot /\ new.entries[y] = tab.entries[y]
      BY <1>5, <1>6, <2>8
    <3>2. QED
      BY <1>2, <2>7, <3>1 DEF FitsAt
  <2>10. d \in FitsAt(q, new)
    <3>1. new.entries[i] = tab.entries[i]
      BY <1>5, <1>9, <2>2
    <3>2. QED
      BY <1>2, <2>1, <2>6, <3>1 DEF FitsAt
  <2>11. Min(FitsAt(q, new)) = d
    <3>1. FitsAt(q, new) \in SUBSET Nat /\ FitsAt(q, new) # {}
      BY <2>4, <2>9, <2>10
    <3>2. PICK m : m = Min(FitsAt(q, new))
      OBVIOUS
    <3>3. m \in FitsAt(q, new) /\ m <= d
      BY <2>10, <3>1, <3>2, MinIsLeast
    <3>4. m \in Nat /\ d \in Nat /\ d <= m
      BY <2>4, <2>6, <2>9, <3>3
    <3>5. QED
      BY <3>2, <3>3, <3>4
  <2>12. get_reader_helper(q, new) = Probe(q, new, d)
    BY <1>1, <1>2, <2>2, <2>10, <2>11, HelperFinds
  <2>13. QED
    BY <1>2, <2>1, <2>6, <2>12
<1>10. \A i \in Used(new) : get_reader_helper(new.entries[i].reducer, new) = i
  BY <1>2, <1>5, <1>7, <1>8, <1>9 DEF Used
<1>11. new.size = Cardinality(Used(new))
  <2>1. IsFiniteSet(Used(tab)) /\ tab.size = Cardinality(Used(tab))
    BY <1>2, UsedFinite DEF IsTable
  <2>2. slot \in Used(tab) <=> ~ empty_reader_p(tab.entries[slot])
    BY <1>4 DEF Used
  <2>3. CASE slot \in Used(tab)
    <3>1. Used(new) = Used(tab)
      BY <1>7, <2>3
    <3>2. QED
      BY <1>1, <2>1, <2>2, <2>3, <3>1 DEF CountedSize
  <2>4. CASE slot \notin Used(tab)
    <3>1. Cardinality(Used(tab) \cup {slot}) = Cardinality(Used(tab)) + 1
      BY <2>1, <2>4, FS_AddElement
    <3>2. QED
      BY <1>1, <1>7, <2>1, <2>2, <2>4, <3>1 DEF CountedSize
  <2>5. QED
    BY <2>3, <2>4
<1>12. \A i \in Used(tab) : tab.entries[i].reducer = r => i = slot
  BY DEF IsTable
<1>13. IsTable(new)
  BY <1>1, <1>2, <1>5, <1>10, <1>11 DEF IsTable
<1>14. QED
  BY <1>1, <1>2, <1>5, <1>7, <1>8, <1>12, <1>13 DEF Used

-----------------------------------------------------------------------------
(***************************************************************************)
(* The copy into a larger table.  Its recursive function exists: if not,   *)
(* there is a least number of steps without one.                           *)
(***************************************************************************)
CopyStep(tab, new, i) ==
  LET old  == tab.entries[i - 1]
      slot == NewSlot(old.reducer, tab, new)
  IN  IF new = NULL \/ empty_reader_p(old) THEN new
      ELSE IF slot = NULL THEN NULL
      ELSE [new EXCEPT !.entries[slot] = old, !.size = @ + 1]

Copies(tab, lg, n, f) ==
  f = [i \in 0 .. n |-> IF i = 0 THEN shadowmem_alloc(lg) ELSE CopyStep(tab, f[i - 1], i)]

\* The copy's recursive function exists up to any index.
LEMMA CopiesExist ==
  ASSUME NEW tab, NEW lg, NEW n \in Nat
  PROVE  \E f : Copies(tab, lg, n, f)
<1>1. PICK Bad : Bad = {k \in Nat : ~ \E f : Copies(tab, lg, k, f)}
  OBVIOUS
<1>2. ASSUME Bad # {} PROVE FALSE
  <2>1. Bad \in SUBSET Nat
    BY <1>1
  <2>2. PICK k : k = Min(Bad)
    OBVIOUS
  <2>3. k \in Bad /\ (\A y \in Bad : k <= y)
    BY <1>2, <2>1, <2>2, MinIsLeast
  <2>4. k \in Nat /\ ~ \E f : Copies(tab, lg, k, f)
    BY <1>1, <2>3
  <2>5. CASE k = 0
    <3>1. PICK f : f = [i \in 0 .. 0 |-> shadowmem_alloc(lg)]
      OBVIOUS
    <3>2. f = [i \in 0 .. 0 |-> IF i = 0 THEN shadowmem_alloc(lg) ELSE CopyStep(tab, f[i - 1], i)]
      BY <3>1
    <3>3. QED
      BY <2>4, <2>5, <3>2 DEF Copies
  <2>6. CASE k # 0
    <3>1. k - 1 \in Nat /\ ~ (k <= k - 1)
      BY <2>4, <2>6
    <3>2. k - 1 \notin Bad
      BY <2>3, <3>1
    <3>3. PICK g : Copies(tab, lg, k - 1, g)
      BY <1>1, <3>1, <3>2
    <3>4. PICK f : f = [i \in 0 .. k |-> IF i = k THEN CopyStep(tab, g[k - 1], k) ELSE g[i]]
      OBVIOUS
    <3>5. ASSUME NEW i \in 0 .. k
          PROVE  f[i] = IF i = 0 THEN shadowmem_alloc(lg) ELSE CopyStep(tab, f[i - 1], i)
      <4>1. CASE i = k
        <5>1. f[i] = CopyStep(tab, g[k - 1], k) /\ f[k - 1] = g[k - 1]
          BY <2>4, <3>1, <3>4, <4>1
        <5>2. QED
          BY <2>6, <4>1, <5>1
      <4>2. CASE i # k
        <5>1. i \in 0 .. k - 1 /\ f[i] = g[i]
          BY <2>4, <3>4, <4>2
        <5>2. g[i] = IF i = 0 THEN shadowmem_alloc(lg) ELSE CopyStep(tab, g[i - 1], i)
          BY <3>3, <5>1 DEF Copies
        <5>3. i # 0 => f[i - 1] = g[i - 1]
          BY <2>4, <3>4, <4>2, <5>1
        <5>4. QED
          BY <5>1, <5>2, <5>3
      <4>3. QED
        BY <4>1, <4>2
    <3>6. f = [i \in 0 .. k |-> IF i = 0 THEN shadowmem_alloc(lg) ELSE CopyStep(tab, f[i - 1], i)]
      BY <3>4, <3>5
    <3>7. QED
      BY <2>4, <3>6 DEF Copies
  <2>7. QED
    BY <2>5, <2>6
<1>3. QED
  BY <1>1, <1>2

\* Copied is that function, and CopyInto its last value.
LEMMA CopyUnfolds ==
  ASSUME NEW tab, NEW lg, tab.lg_capacity \in Nat
  PROVE  /\ Copies(tab, lg, 2 ^ tab.lg_capacity, Copied(tab, lg))
         /\ CopyInto(tab, lg) = Copied(tab, lg)[2 ^ tab.lg_capacity]
<1> DEFINE c == CHOOSE f : Copies(tab, lg, 2 ^ tab.lg_capacity, f)
<1>1. 2 ^ tab.lg_capacity \in Nat
  BY PowerIsPositive
<1>2. Copies(tab, lg, 2 ^ tab.lg_capacity, c)
  BY <1>1, CopiesExist
<1>3. Copied(tab, lg) = c
  BY DEF Copied, Copies, CopyStep
<1> HIDE DEF c
<1>4. QED
  BY <1>2, <1>3 DEF CopyInto

Before(tab, i) == {j \in Used(tab) : j < i}

\* The copy of the entries below index i.
CopyOf(tab, lg, new, i) ==
  new # NULL =>
    /\ IsTable(new) /\ new.lg_capacity = lg
    /\ EntriesIn(new) = {tab.entries[j] : j \in Before(tab, i)}
    /\ new.size = Cardinality(Before(tab, i))

\* An entry that is copied finds its slot empty: no entry of its reducer has
\* been copied before.
LEMMA SlotIsEmpty ==
  ASSUME NEW tab, IsTable(tab), NEW lg \in Nat, NEW i \in Slots(tab), NEW new,
         CopyOf(tab, lg, new, i), new # NULL,
         NEW r, r = tab.entries[i].reducer, ~ empty_reader_p(tab.entries[i]),
         NEW slot, slot = get_reader_helper(r, new), slot # NULL
  PROVE  /\ r \in Reducers /\ i \in Used(tab)
         /\ slot \in Slots(new) /\ empty_reader_p(new.entries[slot])
<1>1. /\ Slots(tab) \subseteq Nat /\ IsFiniteSet(Used(tab)) /\ Used(tab) \subseteq Slots(tab)
      /\ i \in Nat
  BY UsedFinite DEF IsTable, Used
<1>2. tab.entries[i] \in Readers
  BY DEF IsTable
<1>3. r \in Reducers /\ i \in Used(tab)
  BY <1>2 DEF empty_reader_p, Readers, Used
<1>4. IsTable(new) /\ EntriesIn(new) = {tab.entries[j] : j \in Before(tab, i)}
  BY DEF CopyOf
<1>5. slot \in Slots(new) /\ (empty_reader_p(new.entries[slot]) \/ new.entries[slot].reducer = r)
  <2>1. PICK s : s = slot /\ s = get_reader_helper(r, new) /\ s # NULL
    OBVIOUS
  <2>2. new.lg_capacity \in Nat /\ r \in Reducers
    BY <1>3, <1>4 DEF IsTable
  <2>3. FitsAt(r, new) # {}
    BY <2>1, <2>2, HelperFinds
  <2>4. s \in Slots(new) /\ (empty_reader_p(new.entries[s]) \/ new.entries[s].reducer = r)
    BY <2>1, <2>2, <2>3, HelperFinds
  <2>5. QED
    BY <2>1, <2>4
<1>6. slot \notin Used(new)
  <2>1. SUFFICES ASSUME slot \in Used(new), ~ empty_reader_p(new.entries[slot]) PROVE FALSE
    BY DEF Used
  <2>2. new.entries[slot] \in EntriesIn(new) /\ new.entries[slot].reducer = r
    BY <1>5, <2>1 DEF EntriesIn, Used
  <2>3. PICK j \in Before(tab, i) : tab.entries[j] = new.entries[slot]
    BY <1>4, <2>2
  <2>4. j \in Used(tab) /\ j < i /\ tab.entries[j].reducer = r
    BY <2>2, <2>3 DEF Before
  <2>5. get_reader_helper(r, tab) = j /\ get_reader_helper(r, tab) = i
    BY <1>3, <2>4 DEF IsTable
  <2>6. QED
    BY <1>1, <2>4, <2>5
<1>7. QED
  BY <1>3, <1>5, <1>6 DEF Used

\* A step of the copy adds the next entry.
LEMMA CopyStepKeeps ==
  ASSUME NEW tab, IsTable(tab), NEW lg \in Nat, NEW i \in Slots(tab), NEW new,
         CopyOf(tab, lg, new, i)
  PROVE  CopyOf(tab, lg, CopyStep(tab, new, i + 1), i + 1)
<1>1. PICK old : old = tab.entries[i]
  OBVIOUS
<1>2. /\ Slots(tab) \subseteq Nat /\ IsFiniteSet(Used(tab)) /\ Used(tab) \subseteq Slots(tab)
      /\ i \in Nat /\ (i + 1) - 1 = i
  BY UsedFinite DEF IsTable, Used
<1>3. old \in Readers
  BY <1>1 DEF IsTable
<1>4. CASE new = NULL
  BY <1>4 DEF CopyStep, CopyOf
<1>5. CASE new # NULL /\ empty_reader_p(old)
  <2>1. Before(tab, i + 1) = Before(tab, i)
    <3>1. i \notin Used(tab)
      BY <1>1, <1>5 DEF Used
    <3>2. \A j \in Used(tab) : j < i + 1 <=> j < i
      BY <1>2, <3>1
    <3>3. QED
      BY <3>2 DEF Before
  <2>2. CopyStep(tab, new, i + 1) = new
    BY <1>1, <1>2, <1>5 DEF CopyStep
  <2>3. QED
    BY <1>5, <2>1, <2>2 DEF CopyOf
<1>6. CASE new # NULL /\ ~ empty_reader_p(old)
  <2>1. PICK r : r = old.reducer
    OBVIOUS
  <2>2. r \in Reducers /\ i \in Used(tab)
    BY <1>1, <1>3, <1>6, <2>1 DEF empty_reader_p, Readers, Used
  <2>3. PICK slot : slot = get_reader_helper(r, new)
    OBVIOUS
  <2>4. CASE slot = NULL
    BY <1>1, <1>2, <1>6, <2>1, <2>3, <2>4 DEF CopyStep, CopyOf, NewSlot
  <2>5. CASE slot # NULL
    <3>1. IsTable(new) /\ new.lg_capacity = lg /\ EntriesIn(new) = {tab.entries[j] : j \in Before(tab, i)}
          /\ new.size = Cardinality(Before(tab, i))
      BY <1>6 DEF CopyOf
    <3>2. slot \in Slots(new) /\ empty_reader_p(new.entries[slot])
      BY <1>1, <1>6, <2>1, <2>3, <2>5, SlotIsEmpty
    <3>3. slot \notin Used(new)
      BY <3>2 DEF Used
    <3>4. PICK res : res = With(new, slot, old)
      OBVIOUS
    <3>5. CopyStep(tab, new, i + 1) = res
      <4>1. CopyStep(tab, new, i + 1) = [new EXCEPT !.entries[slot] = old, !.size = @ + 1]
        BY <1>1, <1>2, <1>6, <2>1, <2>3, <2>5 DEF CopyStep, NewSlot
      <4>2. new = [lg_capacity |-> new.lg_capacity, size |-> new.size, entries |-> new.entries]
        BY <3>1 DEF IsTable
      <4>3. CountedSize(new, slot) = new.size + 1
        BY <3>2, <3>3 DEF CountedSize, Used
      <4>4. PICK a, b, c : a = new.lg_capacity /\ b = new.size /\ c = new.entries
        OBVIOUS
      <4>5. new = [lg_capacity |-> a, size |-> b, entries |-> c]
        BY <4>2, <4>4
      <4>6. [new EXCEPT !.entries[slot] = old, !.size = @ + 1]
              = [lg_capacity |-> a, size |-> b + 1, entries |-> [c EXCEPT ![slot] = old]]
        <5>1. PICK e, m : e = [c EXCEPT ![slot] = old] /\ m = [new EXCEPT !.entries = e]
          OBVIOUS
        <5>2. m = [lg_capacity |-> a, size |-> b, entries |-> e]
          BY <4>5, <5>1
        <5>3. [new EXCEPT !.entries[slot] = old, !.size = @ + 1] = [new EXCEPT !.entries = e, !.size = b + 1]
          BY <4>4, <5>1
        <5>4. [new EXCEPT !.entries = e, !.size = b + 1] = [m EXCEPT !.size = b + 1]
          BY <5>1
        <5>5. [m EXCEPT !.size = b + 1] = [lg_capacity |-> a, size |-> b + 1, entries |-> e]
          BY <5>2
        <5>6. QED
          BY <5>1, <5>3, <5>4, <5>5
      <4>7. QED
        BY <3>4, <4>1, <4>3, <4>4, <4>6 DEF With
    <3>6. /\ IsTable(res) /\ Used(res) = Used(new) \cup {slot} /\ res.lg_capacity = lg
          /\ res.entries[slot] = old
          /\ \A j \in Used(new) : j # slot => res.entries[j] = new.entries[j]
      BY <1>3, <2>1, <2>2, <2>3, <2>5, <3>1, <3>4, InsertIsTable
    <3>7. EntriesIn(res) = EntriesIn(new) \cup {old}
      BY <3>3, <3>6 DEF EntriesIn
    <3>8. Before(tab, i + 1) = Before(tab, i) \cup {i}
      <4>1. \A j \in Used(tab) : j < i + 1 <=> j < i \/ j = i
        BY <1>2
      <4>2. QED
        BY <2>2, <4>1 DEF Before
    <3>9. EntriesIn(res) = {tab.entries[j] : j \in Before(tab, i + 1)}
      BY <1>1, <3>1, <3>7, <3>8
    <3>10. res.size = Cardinality(Before(tab, i + 1))
      <4>1. Before(tab, i) \in SUBSET Used(tab) /\ i \notin Before(tab, i)
        BY <1>2 DEF Before
      <4>2. IsFiniteSet(Before(tab, i))
        BY <1>2, <4>1, FS_Subset
      <4>3. Cardinality(Before(tab, i + 1)) = Cardinality(Before(tab, i)) + 1
        BY <3>8, <4>1, <4>2, FS_AddElement
      <4>4. res.size = new.size + 1
        BY <3>2, <3>3, <3>4 DEF With, CountedSize, Used
      <4>5. QED
        BY <3>1, <4>3, <4>4
    <3>11. QED
      BY <3>5, <3>6, <3>9, <3>10 DEF CopyOf
  <2>6. QED
    BY <2>4, <2>5
<1>7. QED
  BY <1>4, <1>5, <1>6

\* The copy below any index holds the entries below it.
LEMMA CopiesHold ==
  ASSUME NEW tab, IsTable(tab), NEW lg \in Nat
  PROVE  \A i \in 0 .. 2 ^ tab.lg_capacity : CopyOf(tab, lg, Copied(tab, lg)[i], i)
<1>1. tab.lg_capacity \in Nat
  BY DEF IsTable
<1>2. PICK N \in Nat \ {0} : N = 2 ^ tab.lg_capacity
  BY <1>1, PowerIsPositive
<1>3. Slots(tab) = 0 .. N - 1
  BY <1>2 DEF Slots
<1>4. PICK f : Copies(tab, lg, N, f) /\ f = Copied(tab, lg)
  BY <1>1, <1>2, CopyUnfolds
<1>5. \A i \in 0 .. N : f[i] = IF i = 0 THEN shadowmem_alloc(lg) ELSE CopyStep(tab, f[i - 1], i)
  BY <1>4 DEF Copies
<1>6. PICK Bad : Bad = {i \in 0 .. N : ~ CopyOf(tab, lg, f[i], i)}
  OBVIOUS
<1>7. ASSUME Bad # {} PROVE FALSE
  <2>1. Bad \in SUBSET Nat
    BY <1>6
  <2>2. PICK k : k = Min(Bad)
    OBVIOUS
  <2>3. k \in Bad /\ (\A y \in Bad : k <= y)
    BY <1>7, <2>1, <2>2, MinIsLeast
  <2>4. k \in 0 .. N /\ ~ CopyOf(tab, lg, f[k], k)
    BY <1>6, <2>3
  <2>5. CASE k = 0
    <3>1. f[k] = shadowmem_alloc(lg)
      BY <1>5, <2>4, <2>5
    <3>2. Before(tab, 0) = {}
      <4>1. Used(tab) \subseteq 0 .. N - 1
        BY <1>3 DEF Used
      <4>2. QED
        BY <4>1 DEF Before
    <3>3. Cardinality({}) = 0
      BY FS_EmptySet
    <3>4. EntriesIn(shadowmem_alloc(lg)) = {} /\ shadowmem_alloc(lg).size = 0
      BY AllocIsTable DEF EntriesIn, shadowmem_alloc
    <3>5. CopyOf(tab, lg, f[k], k)
      BY <2>5, <3>1, <3>2, <3>3, <3>4, AllocIsTable DEF CopyOf
    <3>6. QED
      BY <2>4, <3>5
  <2>6. CASE k # 0
    <3>1. PICK i \in 0 .. N - 1 : k = i + 1
      <4>1. k - 1 \in 0 .. N - 1 /\ k = (k - 1) + 1
        BY <2>4, <2>6
      <4>2. QED
        BY <4>1
    <3>2. i \in 0 .. N /\ ~ (k <= i) /\ k - 1 = i
      BY <3>1
    <3>3. CopyOf(tab, lg, f[i], i)
      BY <1>6, <2>3, <3>2
    <3>4. CopyOf(tab, lg, CopyStep(tab, f[i], i + 1), i + 1)
      BY <1>3, <3>1, <3>3, CopyStepKeeps
    <3>5. f[k] = CopyStep(tab, f[i], k)
      BY <1>5, <2>4, <2>6, <3>2
    <3>6. QED
      BY <2>4, <3>1, <3>4, <3>5
  <2>7. QED
    BY <2>5, <2>6
<1>8. QED
  BY <1>2, <1>4, <1>6, <1>7

\* A copy that fits holds every entry, and size counts them.
LEMMA CopyKeeps ==
  ASSUME NEW tab, IsTable(tab), NEW lg \in Nat, CopyInto(tab, lg) # NULL
  PROVE  /\ IsTable(CopyInto(tab, lg)) /\ CopyInto(tab, lg).size = tab.size
         /\ EntriesIn(CopyInto(tab, lg)) = EntriesIn(tab)
<1>1. tab.lg_capacity \in Nat
  BY DEF IsTable
<1>2. PICK N \in Nat \ {0} : N = 2 ^ tab.lg_capacity
  BY <1>1, PowerIsPositive
<1>3. Slots(tab) = 0 .. N - 1
  BY <1>2 DEF Slots
<1>4. CopyOf(tab, lg, CopyInto(tab, lg), N)
  BY <1>1, <1>2, CopiesHold, CopyUnfolds
<1>5. Before(tab, N) = Used(tab)
  BY <1>3 DEF Before, Used
<1>6. QED
  BY <1>4, <1>5 DEF CopyOf, IsTable, EntriesIn

\* No assertion fails while a table grows.
LEMMA GrowthNeverFails ==
  ASSUME NEW tab, IsTable(tab)
  PROVE  GrowthAsserts(tab)
<1>1. SUFFICES ASSUME NEW lg \in tab.lg_capacity + 1 .. MaxLgCapacity
               PROVE  CopyAsserts(tab, lg)
  BY DEF GrowthAsserts
<1>2. lg \in Nat /\ tab.lg_capacity \in Nat
  BY <1>1, ReducersAssumption DEF IsTable
<1>3. PICK N \in Nat \ {0} : N = 2 ^ tab.lg_capacity
  BY <1>2, PowerIsPositive
<1>4. SUFFICES ASSUME NEW i \in Slots(tab), NEW new, new = Copied(tab, lg)[i],
                      ~ empty_reader_p(tab.entries[i]), new # NULL,
                      NEW slot, slot = get_reader_helper(tab.entries[i].reducer, new), slot # NULL
               PROVE  empty_reader_p(new.entries[slot])
  BY DEF CopyAsserts, NewSlot
<1>5. i \in 0 .. N
  BY <1>3, <1>4 DEF Slots
<1>6. CopyOf(tab, lg, new, i)
  BY <1>2, <1>3, <1>4, <1>5, CopiesHold
<1>7. QED
  BY <1>2, <1>4, <1>6, SlotIsEmpty

SameEntries(new, tab) ==
  IsTable(new) /\ EntriesIn(new) = EntriesIn(tab) /\ new.size = tab.size

\* A larger table has the same entries.
LEMMA IncreaseKeeps ==
  ASSUME NEW tab, IsTable(tab)
  PROVE  SameEntries(increase_table_capacity(tab), tab)
<1>1. PICK fits : fits = {lg \in tab.lg_capacity + 1 .. MaxLgCapacity : CopyInto(tab, lg) # NULL}
  OBVIOUS
<1>2. fits \in SUBSET Nat
  BY <1>1, ReducersAssumption DEF IsTable
<1>3. CASE fits = {}
  BY <1>1, <1>3 DEF increase_table_capacity, SameEntries
<1>4. CASE fits # {}
  <2>1. PICK lg : lg = Min(fits)
    OBVIOUS
  <2>2. lg \in Nat /\ CopyInto(tab, lg) # NULL
    BY <1>1, <1>2, <1>4, <2>1, MinIsLeast
  <2>3. PICK new : new = CopyInto(tab, lg)
    OBVIOUS
  <2>4. IsTable(new) /\ new.size = tab.size /\ EntriesIn(new) = EntriesIn(tab)
    BY <2>2, <2>3, CopyKeeps
  <2>5. [new EXCEPT !.size = tab.size] = new
    BY <2>4 DEF IsTable
  <2>6. increase_table_capacity(tab) = new
    BY <1>1, <1>4, <2>1, <2>3, <2>5 DEF increase_table_capacity
  <2>7. QED
    BY <2>4, <2>6 DEF SameEntries
<1>5. QED
  BY <1>3, <1>4

GrowStep(reducer, tab) ==
  IF get_reader_helper(reducer, tab) # NULL THEN tab ELSE increase_table_capacity(tab)

Grows(reducer, tab, n, f) ==
  f = [k \in 0 .. n |-> IF k = 0 THEN tab ELSE GrowStep(reducer, f[k - 1])]

\* The growth's recursive function exists up to any step.
LEMMA GrowsExist ==
  ASSUME NEW r, NEW tab, NEW n \in Nat
  PROVE  \E f : Grows(r, tab, n, f)
<1>1. PICK Bad : Bad = {k \in Nat : ~ \E f : Grows(r, tab, k, f)}
  OBVIOUS
<1>2. ASSUME Bad # {} PROVE FALSE
  <2>1. Bad \in SUBSET Nat
    BY <1>1
  <2>2. PICK k : k = Min(Bad)
    OBVIOUS
  <2>3. k \in Bad /\ (\A y \in Bad : k <= y)
    BY <1>2, <2>1, <2>2, MinIsLeast
  <2>4. k \in Nat /\ ~ \E f : Grows(r, tab, k, f)
    BY <1>1, <2>3
  <2>5. CASE k = 0
    <3>1. PICK f : f = [i \in 0 .. 0 |-> tab]
      OBVIOUS
    <3>2. f = [i \in 0 .. 0 |-> IF i = 0 THEN tab ELSE GrowStep(r, f[i - 1])]
      BY <3>1
    <3>3. QED
      BY <2>4, <2>5, <3>2 DEF Grows
  <2>6. CASE k # 0
    <3>1. k - 1 \in Nat /\ ~ (k <= k - 1)
      BY <2>4, <2>6
    <3>2. k - 1 \notin Bad
      BY <2>3, <3>1
    <3>3. PICK g : Grows(r, tab, k - 1, g)
      BY <1>1, <3>1, <3>2
    <3>4. PICK f : f = [i \in 0 .. k |-> IF i = k THEN GrowStep(r, g[k - 1]) ELSE g[i]]
      OBVIOUS
    <3>5. ASSUME NEW i \in 0 .. k
          PROVE  f[i] = IF i = 0 THEN tab ELSE GrowStep(r, f[i - 1])
      <4>1. CASE i = k
        <5>1. f[i] = GrowStep(r, g[k - 1]) /\ f[k - 1] = g[k - 1]
          BY <2>4, <3>1, <3>4, <4>1
        <5>2. QED
          BY <2>6, <4>1, <5>1
      <4>2. CASE i # k
        <5>1. i \in 0 .. k - 1 /\ f[i] = g[i]
          BY <2>4, <3>4, <4>2
        <5>2. g[i] = IF i = 0 THEN tab ELSE GrowStep(r, g[i - 1])
          BY <3>3, <5>1 DEF Grows
        <5>3. i # 0 => f[i - 1] = g[i - 1]
          BY <2>4, <3>4, <4>2, <5>1
        <5>4. QED
          BY <5>1, <5>2, <5>3
      <4>3. QED
        BY <4>1, <4>2
    <3>6. f = [i \in 0 .. k |-> IF i = 0 THEN tab ELSE GrowStep(r, f[i - 1])]
      BY <3>4, <3>5
    <3>7. QED
      BY <2>4, <3>6 DEF Grows
  <2>7. QED
    BY <2>5, <2>6
<1>3. QED
  BY <1>1, <1>2

\* Growths is that function.
LEMMA GrownUnfolds ==
  ASSUME NEW r, NEW tab
  PROVE  Grows(r, tab, MaxLgCapacity, Growths(r, tab))
<1> DEFINE c == CHOOSE f : Grows(r, tab, MaxLgCapacity, f)
<1>1. Grows(r, tab, MaxLgCapacity, c)
  BY GrowsExist, ReducersAssumption
<1>2. Growths(r, tab) = c
  BY DEF Growths, Grows, GrowStep
<1> HIDE DEF c
<1>3. QED
  BY <1>1, <1>2

\* Growing loses no entry, and nothing grows for a reducer that has a slot.
LEMMA GrownKeeps ==
  ASSUME NEW tab, IsTable(tab), NEW r \in Reducers, NEW k \in 0 .. MaxLgCapacity
  PROVE  /\ SameEntries(Growths(r, tab)[k], tab)
         /\ get_reader_helper(r, tab) # NULL => Growths(r, tab)[k] = tab
<1>1. PICK f : Grows(r, tab, MaxLgCapacity, f) /\ f = Growths(r, tab)
  BY GrownUnfolds
<1>2. MaxLgCapacity \in Nat
  BY ReducersAssumption
<1>3. \A m \in 0 .. MaxLgCapacity : f[m] = IF m = 0 THEN tab ELSE GrowStep(r, f[m - 1])
  BY <1>1 DEF Grows
<1> DEFINE Fine(t) == SameEntries(t, tab) /\ (get_reader_helper(r, tab) # NULL => t = tab)
<1>4. Fine(tab)
  BY DEF SameEntries
<1>5. ASSUME NEW t, Fine(t) PROVE Fine(GrowStep(r, t))
  <2>1. CASE get_reader_helper(r, t) # NULL
    BY <1>5, <2>1 DEF GrowStep
  <2>2. CASE get_reader_helper(r, t) = NULL
    <3>1. SameEntries(increase_table_capacity(t), t)
      BY <1>5, IncreaseKeeps DEF SameEntries
    <3>2. QED
      BY <1>5, <2>2, <3>1 DEF GrowStep, SameEntries
  <2>3. QED
    BY <2>1, <2>2
<1>6. PICK Bad : Bad = {m \in 0 .. MaxLgCapacity : ~ Fine(f[m])}
  OBVIOUS
<1> HIDE DEF Fine
<1>7. ASSUME Bad # {} PROVE FALSE
  <2>1. Bad \in SUBSET Nat
    BY <1>2, <1>6
  <2>2. PICK m : m = Min(Bad)
    OBVIOUS
  <2>3. m \in Bad /\ (\A y \in Bad : m <= y)
    BY <1>7, <2>1, <2>2, MinIsLeast
  <2>4. m \in 0 .. MaxLgCapacity /\ ~ Fine(f[m])
    BY <1>6, <2>3
  <2>5. m # 0
    BY <1>3, <1>4, <2>4
  <2>6. m - 1 \in 0 .. MaxLgCapacity /\ ~ (m <= m - 1)
    BY <1>2, <2>4, <2>5
  <2>7. Fine(f[m - 1])
    BY <1>6, <2>3, <2>6
  <2>8. f[m] = GrowStep(r, f[m - 1])
    BY <1>3, <2>4, <2>5
  <2>9. QED
    BY <1>5, <2>4, <2>7, <2>8
<1>8. Fine(f[k])
  BY <1>6, <1>7
<1>9. QED
  BY <1>1, <1>8 DEF Fine

LEMMA GetReaderKeeps ==
  ASSUME NEW tab, IsTable(tab), NEW r \in Reducers
  PROVE  /\ SameEntries(get_reader(r, tab), tab)
         /\ get_reader_helper(r, tab) # NULL => get_reader(r, tab) = tab
  BY GrownKeeps, ReducersAssumption DEF get_reader

\* No assertion fails while a reducer's entry is looked for.
LEMMA ReaderNeverFails ==
  ASSUME NEW tab, IsTable(tab), NEW r \in Reducers
  PROVE  ReaderAsserts(r, tab)
<1>1. SUFFICES ASSUME NEW k \in 0 .. MaxLgCapacity - 1 PROVE GrowthAsserts(Growths(r, tab)[k])
  BY DEF ReaderAsserts
<1>2. k \in 0 .. MaxLgCapacity
  BY <1>1, ReducersAssumption
<1>3. IsTable(Growths(r, tab)[k])
  BY <1>2, GrownKeeps DEF SameEntries
<1>4. QED
  BY <1>3, GrowthNeverFails

\* The entry of a reducer is the one found for it.
LEMMA LastReaderFound ==
  ASSUME NEW tab, IsTable(tab), NEW e \in EntriesIn(tab)
  PROVE  LastReader(e.reducer, tab) = e /\ e.reducer \in Reducers /\ e \in Readers
<1>1. PICK i \in Used(tab) : e = tab.entries[i]
  BY DEF EntriesIn
<1>2. e \in Readers /\ e.reducer \in Reducers
  BY <1>1 DEF IsTable, Used, Readers, empty_reader_p
<1>3. get_reader_helper(e.reducer, tab) = i
  BY <1>1 DEF IsTable
<1>4. i # NULL
  BY UsedFinite DEF IsTable, Used
<1>5. get_reader(e.reducer, tab) = tab
  BY <1>2, <1>3, <1>4, GetReaderKeeps
<1>6. QED
  BY <1>1, <1>2, <1>3, <1>5 DEF LastReader

Has(tab, r) == \E x \in EntriesIn(tab) : x.reducer = r

\* An update replaces the reducer's entry, or adds one and counts it.
LEMMA UpdateKeeps ==
  ASSUME NEW tab, IsTable(tab), NEW e \in Readers, e.reducer \in Reducers,
         HasRoom(e.reducer, tab),
         NEW new, new = update_shadowmem(tab, e.reducer, e.reader, e.spawns, e.node)
  PROVE  /\ IsTable(new)
         /\ EntriesIn(new) = {x \in EntriesIn(tab) : x.reducer # e.reducer} \cup {e}
         /\ new.size = IF Has(tab, e.reducer) THEN tab.size ELSE tab.size + 1
<1>1. PICK r, room, slot : r = e.reducer /\ room = get_reader(r, tab) /\ slot = get_reader_helper(r, room)
  OBVIOUS
<1>2. slot # NULL /\ r \in Reducers
  BY <1>1 DEF HasRoom
<1>3. IsTable(room) /\ EntriesIn(room) = EntriesIn(tab) /\ room.size = tab.size
  BY <1>1, <1>2, GetReaderKeeps DEF SameEntries
<1>4. e = [reducer |-> r, reader |-> e.reader, spawns |-> e.spawns, node |-> e.node]
  BY <1>1 DEF Readers
<1>5. new = [room EXCEPT !.size = CountedSize(room, slot), !.entries[slot] = e]
  BY <1>1, <1>4 DEF update_shadowmem
<1>6. new = With(room, slot, e)
  <2>1. PICK a, b, c, n : a = room.lg_capacity /\ b = room.size /\ c = room.entries
                          /\ n = CountedSize(room, slot)
    OBVIOUS
  <2>2. room = [lg_capacity |-> a, size |-> b, entries |-> c]
    BY <1>3, <2>1 DEF IsTable
  <2>3. PICK s, m : s = [c EXCEPT ![slot] = e] /\ m = [room EXCEPT !.size = n]
    OBVIOUS
  <2>4. m = [lg_capacity |-> a, size |-> n, entries |-> c]
    BY <2>2, <2>3
  <2>5. new = [room EXCEPT !.size = n, !.entries = s]
    BY <1>5, <2>1, <2>3
  <2>6. [room EXCEPT !.size = n, !.entries = s] = [m EXCEPT !.entries = s]
    BY <2>3
  <2>7. [m EXCEPT !.entries = s] = [lg_capacity |-> a, size |-> n, entries |-> s]
    BY <2>4
  <2>8. QED
    BY <2>1, <2>3, <2>5, <2>6, <2>7 DEF With
<1>7. /\ IsTable(new) /\ Used(new) = Used(room) \cup {slot} /\ new.entries[slot] = e
      /\ \A i \in Used(room) : i # slot => new.entries[i] = room.entries[i]
      /\ \A i \in Used(room) : room.entries[i].reducer = r => i = slot
  BY <1>1, <1>2, <1>3, <1>6, InsertIsTable
<1>8. slot \in Slots(room) /\ (empty_reader_p(room.entries[slot]) \/ room.entries[slot].reducer = r)
  <2>1. FitsAt(r, room) # {} /\ room.lg_capacity \in Nat
    BY <1>1, <1>2, <1>3, HelperFinds DEF IsTable
  <2>2. QED
    BY <1>1, <1>2, <2>1, HelperFinds
<1>9. slot \in Used(room) <=> Has(room, r)
  <2>1. r # 0
    BY <1>2, ReducersAssumption
  <2>2. slot \in Used(room) => room.entries[slot].reducer = r /\ room.entries[slot] \in EntriesIn(room)
    BY <1>8 DEF Used, EntriesIn
  <2>3. Has(room, r) => slot \in Used(room)
    BY <1>7 DEF Has, EntriesIn
  <2>4. QED
    BY <2>2, <2>3 DEF Has
<1>10. EntriesIn(new) = {x \in EntriesIn(room) : x.reducer # r} \cup {e}
  <2>1. \A i \in Used(room) : i # slot <=> room.entries[i].reducer # r
    BY <1>7, <1>8 DEF Used
  <2>2. QED
    BY <1>7, <2>1 DEF EntriesIn
<1>11. new.size = IF Has(room, r) THEN room.size ELSE room.size + 1
  BY <1>6, <1>8, <1>9 DEF With, CountedSize, Used
<1>12. QED
  BY <1>1, <1>3, <1>7, <1>10, <1>11 DEF Has

-----------------------------------------------------------------------------
(***************************************************************************)
(* Bags.  A slot is a frame's level and one of its three bags; a move      *)
(* empties one slot into another.  All that the handlers do with bags are  *)
(* moves, and the new slot of a new function.                              *)
(***************************************************************************)
IsForest(f) ==
  /\ f = [root |-> f.root, rank |-> f.rank, type |-> f.type]
  /\ f.root \in [Nodes -> Nodes] /\ f.rank \in [Nodes -> Nat]
  /\ f.type \in [Nodes -> {"SS", "SP", "P"}]
  /\ \A n \in Nodes : f.root[f.root[n]] = f.root[n]

InSet(f, n, bag) == bag # NULL /\ f.root[bag] = f.root[n]

\* What the sets of two bags become when one takes in the other.
Unites(f, bag, other, new, f2) ==
  /\ IsForest(f2)
  /\ \A n \in Nodes : InSet(f2, n, new) <=> InSet(f, n, bag) \/ InSet(f, n, other)
  /\ \A n, m \in Nodes : ~InSet(f, m, bag) /\ ~InSet(f, m, other) =>
       (f2.root[n] = f2.root[m] <=> f.root[n] = f.root[m]) /\ f2.root[m] = f.root[m]
  /\ \A n \in Nodes : f2.type[n] = f.type[n] \/ InSet(f, n, bag) \/ InSet(f, n, other)
  /\ \A n \in Nodes : InSet(f, f2.root[n], bag) \/ InSet(f, f2.root[n], other)
                      \/ f2.root[n] = f.root[n]

NullIsNoNode == NULL \notin Nodes

\* NULL is no node.
LEMMA NullOutside == NullIsNoNode
  BY ReducersAssumption, BoundsAssumption DEF NullIsNoNode, Nodes

\* What DisjointSet_combine leaves: a forest with one root for both sets.
LEMMA CombinedFields ==
  ASSUME NEW f, IsForest(f), NEW s \in Nodes, NEW t \in Nodes
  PROVE  /\ IsForest(Combined(f, s, t)) /\ Combined(f, s, t).type = f.type
         /\ \E w \in {f.root[s], f.root[t]} :
              Combined(f, s, t).root =
                [n \in Nodes |-> IF f.root[n] \in {f.root[s], f.root[t]} THEN w ELSE f.root[n]]
<1>1. PICK r, q, w, a, b, c : /\ r = f.root[s] /\ q = f.root[t]
                              /\ w = (IF f.rank[r] > f.rank[q] THEN r ELSE q)
                              /\ a = f.root /\ b = f.rank /\ c = f.type
  OBVIOUS
<1>2. /\ f = [root |-> a, rank |-> b, type |-> c] /\ r \in Nodes /\ q \in Nodes /\ w \in {r, q}
      /\ a \in [Nodes -> Nodes] /\ b \in [Nodes -> Nat] /\ c \in [Nodes -> {"SS", "SP", "P"}]
      /\ \A n \in Nodes : a[a[n]] = a[n]
  BY <1>1 DEF IsForest
<1>3. PICK a2, b2 : /\ a2 = [n \in Nodes |-> IF a[n] \in {r, q} THEN w ELSE a[n]]
                    /\ b2 = [b EXCEPT ![q] = IF b[r] = b[q] THEN b[q] + 1 ELSE b[q]]
  OBVIOUS
<1>4. Combined(f, s, t) = [f EXCEPT !.root = a2, !.rank = b2]
  BY <1>1, <1>3 DEF Combined
<1>5. PICK g : g = [f EXCEPT !.root = a2]
  OBVIOUS
<1>6. g = [root |-> a2, rank |-> b, type |-> c]
  BY <1>2, <1>5
<1>7. [f EXCEPT !.root = a2, !.rank = b2] = [g EXCEPT !.rank = b2]
  BY <1>5
<1>8. [g EXCEPT !.rank = b2] = [root |-> a2, rank |-> b2, type |-> c]
  BY <1>6
<1>9. b2 \in [Nodes -> Nat]
  BY <1>2, <1>3
<1>10. a2 \in [Nodes -> Nodes] /\ \A n \in Nodes : a2[a2[n]] = a2[n]
  <2>1. \A n \in Nodes : a2[n] = IF a[n] \in {r, q} THEN w ELSE a[n]
    BY <1>3
  <2>2. a[r] = r /\ a[q] = q /\ w \in Nodes
    BY <1>1, <1>2
  <2>3. a2[w] = w
    BY <1>2, <2>1, <2>2
  <2>4. ASSUME NEW n \in Nodes PROVE a2[n] \in Nodes /\ a2[a2[n]] = a2[n]
    <3>1. CASE a[n] \in {r, q}
      BY <2>1, <2>2, <2>3, <3>1
    <3>2. CASE a[n] \notin {r, q}
      <4>1. a2[n] = a[n] /\ a[n] \in Nodes /\ a[a[n]] = a[n]
        BY <1>2, <2>1, <3>2
      <4>2. QED
        BY <2>1, <3>2, <4>1
    <3>3. QED
      BY <3>1, <3>2
  <2>5. QED
    BY <1>3, <2>4
<1>11. PICK h : h = Combined(f, s, t)
  OBVIOUS
<1>12. h = [root |-> a2, rank |-> b2, type |-> c]
  BY <1>4, <1>7, <1>8, <1>11
<1>13. h.root = a2 /\ h.rank = b2 /\ h.type = c
  BY <1>12
<1>14. IsForest(h)
  BY <1>2, <1>9, <1>10, <1>12, <1>13 DEF IsForest
<1>15. QED
  BY <1>1, <1>2, <1>3, <1>11, <1>13, <1>14

\* It unites the two sets and no others.
LEMMA CombinedUnites ==
  ASSUME NEW f, IsForest(f), NEW s \in Nodes, NEW t \in Nodes
  PROVE  Unites(f, s, t, s, Combined(f, s, t))
<1>1. PICK f2 : f2 = Combined(f, s, t)
  OBVIOUS
<1>2. PICK w \in {f.root[s], f.root[t]} :
        f2.root = [n \in Nodes |-> IF f.root[n] \in {f.root[s], f.root[t]} THEN w ELSE f.root[n]]
  BY <1>1, CombinedFields
<1>3. IsForest(f2) /\ f2.type = f.type
  BY <1>1, CombinedFields, ZenonT(30)
<1>4. \A n \in Nodes : f2.root[n] = IF f.root[n] \in {f.root[s], f.root[t]} THEN w ELSE f.root[n]
  BY <1>2
<1>5. s # NULL /\ t # NULL
  BY NullOutside DEF NullIsNoNode
<1>6. \A n \in Nodes : f.root[n] \in Nodes /\ f.root[f.root[n]] = f.root[n]
  BY DEF IsForest
<1>7. \A n \in Nodes : InSet(f2, n, s) <=> InSet(f, n, s) \/ InSet(f, n, t)
  BY <1>2, <1>4, <1>5 DEF InSet
<1>8. \A n, m \in Nodes : ~InSet(f, m, s) /\ ~InSet(f, m, t) =>
        (f2.root[n] = f2.root[m] <=> f.root[n] = f.root[m]) /\ f2.root[m] = f.root[m]
  BY <1>2, <1>4, <1>5 DEF InSet
<1>9. \A n \in Nodes : InSet(f, f2.root[n], s) \/ InSet(f, f2.root[n], t) \/ f2.root[n] = f.root[n]
  BY <1>2, <1>4, <1>5, <1>6 DEF InSet
<1>10. QED
  BY <1>1, <1>3, <1>7, <1>8, <1>9 DEF Unites

\* Writing the type of a node of the two sets changes nothing else.
LEMMA TypedUnites ==
  ASSUME NEW f, NEW bag, NEW other, NEW new, NEW f2, Unites(f, bag, other, new, f2),
         NEW x \in Nodes, InSet(f, x, bag) \/ InSet(f, x, other), NEW t \in {"SS", "SP", "P"},
         NEW g, g = [f2 EXCEPT !.type[x] = t]
  PROVE  Unites(f, bag, other, new, g)
<1>2. IsForest(f2)
  BY DEF Unites
<1>3. PICK a, b, c, d : a = f2.root /\ b = f2.rank /\ c = f2.type /\ d = [c EXCEPT ![x] = t]
  OBVIOUS
<1>4. f2 = [root |-> a, rank |-> b, type |-> c]
  BY <1>2, <1>3 DEF IsForest
<1>5. g = [root |-> a, rank |-> b, type |-> d]
  BY <1>3, <1>4
<1>6. g.root = f2.root /\ g.rank = f2.rank /\ g.type = d
  BY <1>3, <1>5
<1>7. IsForest(g)
  BY <1>2, <1>3, <1>5, <1>6 DEF IsForest
<1>8. \A n \in Nodes : n # x => g.type[n] = f2.type[n]
  BY <1>2, <1>3, <1>6 DEF IsForest
<1>9. \A n, y : InSet(g, n, y) <=> InSet(f2, n, y)
  BY <1>6 DEF InSet
<1>10. QED
  BY <1>6, <1>7, <1>8, <1>9 DEF Unites

\* So does the merge of a bag that may be empty.
LEMMA AbsorbedUnites ==
  ASSUME NEW f, IsForest(f), NEW bag \in Nodes \cup {NULL}, NEW other \in Nodes \cup {NULL},
         NEW t \in {"SS", "SP", "P"}
  PROVE  Unites(f, bag, other, AbsorbedBag(f, bag, other), Absorbed(f, bag, other, t))
<1>1. NULL \notin Nodes
  BY NullOutside DEF NullIsNoNode
<1>2. \A n \in Nodes : f.root[n] \in Nodes /\ f.root[f.root[n]] = f.root[n]
  BY DEF IsForest
<1>3. CASE other = NULL
  <2>1. Absorbed(f, bag, other, t) = f /\ AbsorbedBag(f, bag, other) = bag
    BY <1>3 DEF Absorbed, AbsorbedBag
  <2>2. QED
    BY <1>3, <2>1 DEF Unites, InSet
<1>4. CASE other # NULL /\ bag = NULL
  <2>1. /\ Absorbed(f, bag, other, t) = [f EXCEPT !.type[f.root[other]] = t]
        /\ AbsorbedBag(f, bag, other) = f.root[other]
    BY <1>4 DEF Absorbed, AbsorbedBag
  <2> PICK g, x : g = Absorbed(f, bag, other, t) /\ x = f.root[other]
    OBVIOUS
  <2>2. other \in Nodes /\ f.root[other] \in Nodes /\ InSet(f, f.root[other], other)
    BY <1>2, <1>4 DEF InSet
  <2>3. Unites(f, bag, other, f.root[other], f)
    BY <1>1, <1>2, <1>4, <2>2 DEF Unites, InSet
  <2>4. Unites(f, bag, other, x, g)
    BY <2>1, <2>2, <2>3, TypedUnites
  <2>5. QED
    BY <2>1, <2>4
<1>5. CASE other # NULL /\ bag # NULL
  <2>1. /\ Absorbed(f, bag, other, t) = [Combined(f, bag, other) EXCEPT !.type[bag] = t]
        /\ AbsorbedBag(f, bag, other) = bag
    BY <1>5 DEF Absorbed, AbsorbedBag
  <2> PICK g, f2 : g = Absorbed(f, bag, other, t) /\ f2 = Combined(f, bag, other)
    OBVIOUS
  <2>2. bag \in Nodes /\ other \in Nodes /\ InSet(f, bag, bag)
    BY <1>5 DEF InSet
  <2>3. Unites(f, bag, other, bag, Combined(f, bag, other))
    BY <2>2, CombinedUnites
  <2>4. Unites(f, bag, other, bag, g)
    BY <2>1, <2>2, <2>3, TypedUnites
  <2>5. QED
    BY <2>1, <2>4
<1>6. QED
  BY <1>3, <1>4, <1>5

\* The nodes in use and the nodes that are fresh.
LEMMA NodesUpTo ==
  ASSUME NEW nn \in Nodes
  PROVE  /\ nn \in Nat /\ 1 .. nn \subseteq Nodes /\ NULL \notin Nodes
         /\ \A n \in Nodes : n \in 1 .. nn \/ nn < n
<1>1. MaxNodes \in Nat /\ NULL \notin Nodes
  BY NullOutside, BoundsAssumption DEF NullIsNoNode
<1>2. nn \in Nat /\ nn <= MaxNodes
  BY <1>1 DEF Nodes
<1>3. 1 .. nn \subseteq Nodes
  BY <1>1, <1>2 DEF Nodes
<1>4. \A n \in Nodes : n \in 1 .. nn \/ nn < n
  BY <1>1, <1>2 DEF Nodes
<1>5. QED
  BY <1>1, <1>2, <1>3, <1>4

\* a gives the bag in each slot: the first nn nodes are in one slot each.
Held(a, f, n, x) == InSet(f, n, a[x])

Grouped(a, f, nn) ==
  /\ IsForest(f) /\ nn \in Nodes
  /\ \A n \in 1 .. nn : f.root[n] \in 1 .. nn
  /\ \A n \in Nodes : nn < n => f.root[n] = n /\ f.type[n] = "SS"
  /\ \A x \in DOMAIN a : a[x] \in (1 .. nn) \cup {NULL}
  /\ \A n \in 1 .. nn : \E x \in DOMAIN a : Held(a, f, n, x)
  /\ \A n \in 1 .. nn : \A x, y \in DOMAIN a : Held(a, f, n, x) /\ Held(a, f, n, y) => x = y

\* Slot y is emptied into slot x.
Moved(a, x, y, bag, a2) ==
  /\ DOMAIN a2 = DOMAIN a
  /\ \A z \in DOMAIN a : a2[z] = IF z = x THEN bag ELSE IF z = y THEN NULL ELSE a[z]

HeldAfter(a, f, n, x, y, z) ==
  IF z = x THEN Held(a, f, n, x) \/ Held(a, f, n, y) ELSE z # y /\ Held(a, f, n, z)

\* A bag moved into another leaves every function in one bag.
LEMMA MoveKeeps ==
  ASSUME NEW a, NEW f, NEW nn, Grouped(a, f, nn), NEW x \in DOMAIN a, NEW y \in DOMAIN a, x # y,
         NEW bag, bag \in (1 .. nn) \cup {NULL}, NEW f2, Unites(f, a[x], a[y], bag, f2),
         NEW a2, Moved(a, x, y, bag, a2)
  PROVE  /\ Grouped(a2, f2, nn)
         /\ \A n \in 1 .. nn, z \in DOMAIN a : Held(a2, f2, n, z) <=> HeldAfter(a, f, n, x, y, z)
         /\ \A n \in 1 .. nn : f2.type[n] = f.type[n] \/ Held(a, f, n, x) \/ Held(a, f, n, y)
         /\ \A z \in DOMAIN a : z \notin {x, y} /\ a[z] # NULL => f2.root[a[z]] = f.root[a[z]]
<1>1. nn \in Nat /\ 1 .. nn \subseteq Nodes /\ (\A n \in Nodes : n \in 1 .. nn \/ nn < n)
      /\ NULL \notin Nodes
  BY NodesUpTo DEF Grouped
<1>2. \A n \in Nodes : f.root[n] \in Nodes /\ f2.root[n] \in Nodes
  BY DEF Grouped, Unites, IsForest
<1>3. \A n \in 1 .. nn : Held(a2, f2, n, x) <=> Held(a, f, n, x) \/ Held(a, f, n, y)
  BY <1>1 DEF Moved, Unites, Held
<1>4. \A n \in 1 .. nn : ~ Held(a2, f2, n, y)
  BY DEF Moved, Held, InSet
<1>5. ASSUME NEW z \in DOMAIN a, z \notin {x, y}, a[z] # NULL
      PROVE  /\ a[z] \in 1 .. nn /\ ~ InSet(f, a[z], a[x]) /\ ~ InSet(f, a[z], a[y])
             /\ f2.root[a[z]] = f.root[a[z]]
  <2>1. a[z] \in 1 .. nn
    BY <1>5 DEF Grouped
  <2>2. Held(a, f, a[z], z)
    BY <1>5 DEF Held, InSet
  <2>3. ~ Held(a, f, a[z], x) /\ ~ Held(a, f, a[z], y)
    BY <1>5, <2>1, <2>2 DEF Grouped
  <2>4. QED
    BY <1>1, <2>1, <2>3 DEF Held, Unites
<1>6. ASSUME NEW z \in DOMAIN a, z \notin {x, y}, NEW n \in 1 .. nn
      PROVE  Held(a2, f2, n, z) <=> Held(a, f, n, z)
  <2>1. a2[z] = a[z]
    BY <1>6 DEF Moved
  <2>2. CASE a[z] = NULL
    BY <2>1, <2>2 DEF Held, InSet
  <2>3. CASE a[z] # NULL
    <3>1. f2.root[n] = f2.root[a[z]] <=> f.root[n] = f.root[a[z]]
      BY <1>1, <1>5, <1>6, <2>3 DEF Unites
    <3>2. QED
      BY <2>1, <2>3, <3>1 DEF Held, InSet
  <2>4. QED
    BY <2>2, <2>3
<1>7. \A n \in 1 .. nn, z \in DOMAIN a : Held(a2, f2, n, z) <=> HeldAfter(a, f, n, x, y, z)
  BY <1>3, <1>4, <1>6 DEF HeldAfter
<1>8. \A n \in Nodes : InSet(f, n, a[x]) \/ InSet(f, n, a[y]) => f.root[n] \in 1 .. nn
  BY DEF Grouped, InSet
<1>9. ASSUME NEW n \in Nodes, nn < n PROVE f2.root[n] = n /\ f2.type[n] = "SS"
  <2>1. f.root[n] = n /\ f.type[n] = "SS"
    BY <1>9 DEF Grouped
  <2> n \notin 1 .. nn
    BY <1>1, <1>9
  <2>2. ~ InSet(f, n, a[x]) /\ ~ InSet(f, n, a[y])
    BY <1>8, <2>1
  <2>3. f2.root[n] = f.root[n] /\ f2.type[n] = f.type[n]
    BY <2>2 DEF Unites
  <2>4. QED
    BY <2>1, <2>3
<1>10. ASSUME NEW n \in 1 .. nn PROVE f2.root[n] \in 1 .. nn
  <2>1. n \in Nodes /\ f2.root[n] \in Nodes /\ f.root[n] \in 1 .. nn
    BY <1>1, <1>2 DEF Grouped
  <2>2. f2.root[n] = f.root[n] \/ f.root[f2.root[n]] \in 1 .. nn
    BY <1>8, <2>1 DEF Unites
  <2>3. f2.root[n] \notin 1 .. nn => f.root[f2.root[n]] = f2.root[n]
    BY <1>1, <2>1 DEF Grouped
  <2>4. QED
    BY <2>1, <2>2, <2>3
<1>11. \A z \in DOMAIN a2 : a2[z] \in (1 .. nn) \cup {NULL}
  BY DEF Moved, Grouped
<1>12. ASSUME NEW n \in 1 .. nn PROVE \E z \in DOMAIN a2 : Held(a2, f2, n, z)
  <2>1. PICK z \in DOMAIN a : Held(a, f, n, z)
    BY DEF Grouped
  <2>2. HeldAfter(a, f, n, x, y, z) \/ HeldAfter(a, f, n, x, y, x)
    BY <2>1 DEF HeldAfter
  <2>3. QED
    BY <1>7, <2>2 DEF Moved
<1>13. ASSUME NEW n \in 1 .. nn, NEW z \in DOMAIN a2, NEW v \in DOMAIN a2,
              Held(a2, f2, n, z), Held(a2, f2, n, v)
       PROVE  z = v
  <2>1. z \in DOMAIN a /\ v \in DOMAIN a /\ HeldAfter(a, f, n, x, y, z) /\ HeldAfter(a, f, n, x, y, v)
    BY <1>7, <1>13 DEF Moved
  <2>2. \A p, q \in DOMAIN a : Held(a, f, n, p) /\ Held(a, f, n, q) => p = q
    BY DEF Grouped
  <2>3. QED
    BY <2>1, <2>2 DEF HeldAfter
<1>14. Grouped(a2, f2, nn)
  <2>1. IsForest(f2) /\ nn \in Nodes
    BY DEF Unites, Grouped
  <2>2. QED
    BY <1>9, <1>10, <1>11, <1>12, <1>13, <2>1 DEF Grouped
<1>15. \A n \in 1 .. nn : f2.type[n] = f.type[n] \/ Held(a, f, n, x) \/ Held(a, f, n, y)
  BY <1>1 DEF Unites, Held
<1>16. QED
  BY <1>5, <1>7, <1>14, <1>15

\* Slots that hold nothing come and go.
LEMMA DropKeeps ==
  ASSUME NEW a, NEW f, NEW nn, Grouped(a, f, nn), NEW b, DOMAIN b \subseteq DOMAIN a,
         \A z \in DOMAIN b : b[z] = a[z], \A z \in DOMAIN a : z \notin DOMAIN b => a[z] = NULL
  PROVE  Grouped(b, f, nn) /\ \A n, z : z \in DOMAIN b => (Held(b, f, n, z) <=> Held(a, f, n, z))
<1>1. \A n, z : z \in DOMAIN b => (Held(b, f, n, z) <=> Held(a, f, n, z))
  BY DEF Held, InSet
<1>2. \A n, z : z \in DOMAIN a /\ Held(a, f, n, z) => z \in DOMAIN b
  BY DEF Held, InSet
<1>3. \A n \in 1 .. nn : \E z \in DOMAIN b : Held(b, f, n, z)
  BY <1>1, <1>2 DEF Grouped
<1>4. \A n \in 1 .. nn : \A z, v \in DOMAIN b : Held(b, f, n, z) /\ Held(b, f, n, v) => z = v
  BY <1>1 DEF Grouped
<1>5. QED
  BY <1>1, <1>3, <1>4 DEF Grouped

\* So does a new bag with a new function.
LEMMA NewSlotKeeps ==
  ASSUME NEW a, NEW f, NEW nn, Grouped(a, f, nn), nn + 1 \in Nodes,
         NEW b, DOMAIN a \subseteq DOMAIN b, \A z \in DOMAIN a : b[z] = a[z],
         NEW s \in DOMAIN b, s \notin DOMAIN a, b[s] = nn + 1,
         \A z \in DOMAIN b : z \notin DOMAIN a /\ z # s => b[z] = NULL
  PROVE  /\ Grouped(b, f, nn + 1)
         /\ \A n \in 1 .. nn, z \in DOMAIN b : Held(b, f, n, z) <=> z \in DOMAIN a /\ Held(a, f, n, z)
         /\ \A z \in DOMAIN b : Held(b, f, nn + 1, z) <=> z = s
<1>1. nn \in Nodes /\ nn \in Nat /\ NULL \notin Nodes /\ 1 .. nn \subseteq Nodes
      /\ 1 .. nn + 1 \subseteq Nodes
  BY NodesUpTo DEF Grouped
<1>2. f.root[nn + 1] = nn + 1 /\ nn + 1 # NULL /\ \A n \in 1 .. nn : f.root[n] \in 1 .. nn
  BY <1>1 DEF Grouped
<1>3. \A n \in 1 .. nn : f.root[n] # nn + 1 /\ n # nn + 1
  BY <1>1, <1>2
<1>4. ASSUME NEW n \in 1 .. nn, NEW z \in DOMAIN b
      PROVE  Held(b, f, n, z) <=> z \in DOMAIN a /\ Held(a, f, n, z)
  <2>1. CASE z \in DOMAIN a
    BY <2>1 DEF Held, InSet
  <2>2. CASE z \notin DOMAIN a
    BY <1>2, <1>3, <2>2 DEF Held, InSet
  <2>3. QED
    BY <2>1, <2>2
<1>5. ASSUME NEW z \in DOMAIN b PROVE Held(b, f, nn + 1, z) <=> z = s
  <2>1. CASE z = s
    BY <1>2, <2>1 DEF Held, InSet
  <2>2. CASE z \in DOMAIN a
    <3>1. b[z] \in (1 .. nn) \cup {NULL} /\ z # s
      BY <2>2 DEF Grouped
    <3>2. QED
      BY <1>2, <1>3, <3>1 DEF Held, InSet
  <2>3. CASE z # s /\ z \notin DOMAIN a
    BY <2>3 DEF Held, InSet
  <2>4. QED
    BY <2>1, <2>2, <2>3
<1>6. \A n \in 1 .. nn + 1 : n \in 1 .. nn \/ n = nn + 1
  BY <1>1
<1>7. nn + 1 \in 1 .. nn + 1 /\ 1 .. nn \subseteq 1 .. nn + 1 /\ \A n \in Nodes : nn + 1 < n => nn < n
  BY <1>1 DEF Nodes
<1>8. ASSUME NEW n \in 1 .. nn + 1
      PROVE  /\ f.root[n] \in 1 .. nn + 1
             /\ \E z \in DOMAIN b : Held(b, f, n, z)
             /\ \A z, v \in DOMAIN b : Held(b, f, n, z) /\ Held(b, f, n, v) => z = v
  <2>1. CASE n \in 1 .. nn
    BY <1>2, <1>4, <1>7, <2>1 DEF Grouped
  <2>2. CASE n = nn + 1
    BY <1>2, <1>5, <1>7, <2>2
  <2>3. QED
    BY <1>6, <2>1, <2>2
<1>9. \A z \in DOMAIN b : b[z] \in (1 .. nn + 1) \cup {NULL}
  BY <1>7 DEF Grouped
<1>10. \A n \in Nodes : nn + 1 < n => f.root[n] = n /\ f.type[n] = "SS"
  BY <1>7 DEF Grouped
<1>11. Grouped(b, f, nn + 1)
  BY <1>8, <1>9, <1>10 DEF Grouped
<1>12. QED
  BY <1>4, <1>5, <1>11

\* The slots of a stack of frames.
Bags == {"ss_bag", "sp_bag", "p_bag"}

Frame == [func_type : {"MAIN", "CILK", "HELPER"}, ancestor_spawns : Nat, local_spawns : Nat,
          ss_bag : Nodes, sp_bag : Nodes \cup {NULL}, p_bag : Nodes \cup {NULL}]

BagAt(st) == [x \in (1 .. Len(st)) \X Bags |-> st[x[1]][x[2]]]

\* The slots of a stack are the bags of its frames.
LEMMA BagAtFields ==
  ASSUME NEW st \in Seq(Frame)
  PROVE  /\ DOMAIN BagAt(st) = (1 .. Len(st)) \X Bags
         /\ \A k \in 1 .. Len(st) :
              /\ BagAt(st)[<<k, "ss_bag">>] = st[k].ss_bag
              /\ BagAt(st)[<<k, "sp_bag">>] = st[k].sp_bag
              /\ BagAt(st)[<<k, "p_bag">>] = st[k].p_bag
  BY DEF BagAt, Bags

\* What a move of slot y into slot x comes to.
SetType(a, f, z) == f.type[f.root[a[z]]]

Merges(a, f, nn, x, y, a2, f2) ==
  /\ Grouped(a2, f2, nn)
  /\ \A n \in 1 .. nn, z \in DOMAIN a : Held(a2, f2, n, z) <=> HeldAfter(a, f, n, x, y, z)
  /\ \A n \in 1 .. nn : f2.type[n] = f.type[n] \/ Held(a, f, n, x) \/ Held(a, f, n, y)
  /\ \A z \in DOMAIN a : z \notin {x, y} /\ a[z] # NULL =>
       f2.root[a[z]] = f.root[a[z]] /\ SetType(a2, f2, z) = SetType(a, f, z)

\* A move does not change the type of any other bag either.
LEMMA MoveMerges ==
  ASSUME NEW a, NEW f, NEW nn, Grouped(a, f, nn), NEW x \in DOMAIN a, NEW y \in DOMAIN a, x # y,
         NEW bag, bag \in (1 .. nn) \cup {NULL}, NEW f2, Unites(f, a[x], a[y], bag, f2),
         NEW a2, Moved(a, x, y, bag, a2)
  PROVE  Merges(a, f, nn, x, y, a2, f2)
<1>1. /\ Grouped(a2, f2, nn)
      /\ \A n \in 1 .. nn, z \in DOMAIN a : Held(a2, f2, n, z) <=> HeldAfter(a, f, n, x, y, z)
      /\ \A n \in 1 .. nn : f2.type[n] = f.type[n] \/ Held(a, f, n, x) \/ Held(a, f, n, y)
      /\ \A z \in DOMAIN a : z \notin {x, y} /\ a[z] # NULL => f2.root[a[z]] = f.root[a[z]]
  BY MoveKeeps
<1>2. ASSUME NEW z \in DOMAIN a, z \notin {x, y}, a[z] # NULL
      PROVE  SetType(a2, f2, z) = SetType(a, f, z)
  <2>1. PICK q : q = f.root[a[z]]
    OBVIOUS
  <2>2. a[z] \in 1 .. nn /\ q \in 1 .. nn /\ 1 .. nn \subseteq Nodes
    BY <1>2, <2>1, NodesUpTo DEF Grouped
  <2>3. f.root[q] = q
    BY <2>1, <2>2 DEF Grouped, IsForest
  <2>4. Held(a, f, q, z)
    BY <1>2, <2>1, <2>3 DEF Held, InSet
  <2>5. ~ Held(a, f, q, x) /\ ~ Held(a, f, q, y)
    BY <1>2, <2>2, <2>4 DEF Grouped
  <2>6. f2.type[q] = f.type[q] /\ a2[z] = a[z] /\ f2.root[a[z]] = q
    BY <1>1, <1>2, <2>1, <2>2, <2>5 DEF Moved
  <2>7. QED
    BY <2>1, <2>6 DEF SetType
<1>3. QED
  BY <1>1, <1>2 DEF Merges

\* Nor of the node that its pointer names.
LEMMA OtherTypes ==
  ASSUME NEW a, NEW f, NEW nn, Grouped(a, f, nn), NEW x \in DOMAIN a, NEW y \in DOMAIN a,
         NEW a2, NEW f2, Merges(a, f, nn, x, y, a2, f2),
         NEW z \in DOMAIN a, z \notin {x, y}, a[z] # NULL
  PROVE  f2.type[a[z]] = f.type[a[z]]
<1>1. PICK n : n = a[z]
  OBVIOUS
<1>2. n \in 1 .. nn /\ Held(a, f, n, z)
  BY <1>1 DEF Grouped, Held, InSet
<1>3. ~ Held(a, f, n, x) /\ ~ Held(a, f, n, y)
  BY <1>2 DEF Grouped
<1>4. QED
  BY <1>1, <1>2, <1>3 DEF Merges

\* A bag that takes in another one names a node of the type given to it, if
\* it did before.
LEMMA AbsorbedHasType ==
  ASSUME NEW f, IsForest(f), NEW bag \in Nodes \cup {NULL}, NEW other \in Nodes \cup {NULL},
         NEW t, bag # NULL => f.type[bag] = t, AbsorbedBag(f, bag, other) # NULL
  PROVE  Absorbed(f, bag, other, t).type[AbsorbedBag(f, bag, other)] = t
<1>1. CASE other = NULL
  BY <1>1 DEF Absorbed, AbsorbedBag
<1>2. CASE other # NULL /\ bag = NULL
  <2>1. PICK q, ty : q = f.root[other] /\ ty = [f.type EXCEPT ![q] = t]
    OBVIOUS
  <2>2. q \in Nodes /\ AbsorbedBag(f, bag, other) = q
        /\ Absorbed(f, bag, other, t) = [f EXCEPT !.type = ty]
    BY <1>2, <2>1 DEF Absorbed, AbsorbedBag, IsForest
  <2>3. [f EXCEPT !.type = ty].type = ty /\ ty[q] = t
    BY <2>1, <2>2 DEF IsForest
  <2>4. QED
    BY <2>2, <2>3
<1>3. CASE other # NULL /\ bag # NULL
  <2>1. PICK g, ty : g = Combined(f, bag, other) /\ ty = [g.type EXCEPT ![bag] = t]
    OBVIOUS
  <2>2. IsForest(g) /\ bag \in Nodes
    BY <1>3, <2>1, CombinedFields
  <2>3. AbsorbedBag(f, bag, other) = bag /\ Absorbed(f, bag, other, t) = [g EXCEPT !.type = ty]
    BY <1>3, <2>1 DEF Absorbed, AbsorbedBag
  <2>4. [g EXCEPT !.type = ty].type = ty /\ ty[bag] = t
    BY <2>1, <2>2 DEF IsForest
  <2>5. QED
    BY <2>3, <2>4
<1>4. QED
  BY <1>1, <1>2, <1>3

\* Two bags are never one set, so that DisjointSet_combine's assertion holds.
LEMMA SlotsDiffer ==
  ASSUME NEW a, NEW f, NEW nn, Grouped(a, f, nn), NEW x \in DOMAIN a, NEW y \in DOMAIN a, x # y
  PROVE  MayAbsorb(f, a[x], a[y])
<1>1. SUFFICES ASSUME a[x] # NULL, a[y] # NULL, f.root[a[x]] = f.root[a[y]] PROVE FALSE
  BY DEF MayAbsorb
<1>2. a[x] \in 1 .. nn /\ Held(a, f, a[x], x) /\ Held(a, f, a[x], y)
  BY <1>1 DEF Grouped, Held, InSet
<1>3. QED
  BY <1>2 DEF Grouped

\* The merge of a bag that may be empty, as a move.
LEMMA AbsorbMerges ==
  ASSUME NEW a, NEW f, NEW nn, Grouped(a, f, nn), NEW x \in DOMAIN a, NEW y \in DOMAIN a, x # y,
         NEW t \in {"SS", "SP", "P"},
         NEW bag, bag = AbsorbedBag(f, a[x], a[y]), NEW f2, f2 = Absorbed(f, a[x], a[y], t),
         NEW a2, Moved(a, x, y, bag, a2)
  PROVE  Merges(a, f, nn, x, y, a2, f2)
<1>1. IsForest(f) /\ 1 .. nn \subseteq Nodes
  BY NodesUpTo DEF Grouped
<1>2. a[x] \in (1 .. nn) \cup {NULL} /\ a[y] \in (1 .. nn) \cup {NULL}
  BY DEF Grouped
<1>3. a[x] \in Nodes \cup {NULL} /\ a[y] \in Nodes \cup {NULL}
  BY <1>1, <1>2
<1>4. Unites(f, a[x], a[y], bag, f2)
  BY <1>1, <1>3, AbsorbedUnites
<1>5. bag \in (1 .. nn) \cup {NULL}
  BY <1>2 DEF AbsorbedBag, Grouped
<1>6. QED
  BY <1>4, <1>5, MoveMerges

\* The merge of two bags that are not empty, as a move.
LEMMA CombineMerges ==
  ASSUME NEW a, NEW f, NEW nn, Grouped(a, f, nn), NEW x \in DOMAIN a, NEW y \in DOMAIN a, x # y,
         a[x] # NULL, a[y] # NULL, NEW f2, f2 = Combined(f, a[x], a[y]),
         NEW a2, Moved(a, x, y, a[x], a2)
  PROVE  Merges(a, f, nn, x, y, a2, f2) /\ f2.type = f.type
<1>1. IsForest(f) /\ 1 .. nn \subseteq Nodes
  BY NodesUpTo DEF Grouped
<1>2. a[x] \in 1 .. nn /\ a[y] \in 1 .. nn /\ a[x] \in Nodes /\ a[y] \in Nodes
  BY <1>1 DEF Grouped
<1>3. Unites(f, a[x], a[y], a[x], f2) /\ f2.type = f.type
  BY <1>1, <1>2, CombinedUnites, CombinedFields, ZenonT(30)
<1>4. QED
  BY <1>2, <1>3, MoveMerges

\* A called function's SS-bag turns its parent's SP-bag into one that is not
\* of type P.
LEMMA AbsorbedIsNotP ==
  ASSUME NEW f, IsForest(f), NEW bag \in Nodes \cup {NULL}, NEW other \in Nodes,
         f.type[f.root[other]] = "SS",
         bag # NULL /\ f.type[f.root[bag]] = "P" => f.root[bag] = bag,
         NEW f2, f2 = Absorbed(f, bag, other, "SP")
  PROVE  f2.type[f2.root[AbsorbedBag(f, bag, other)]] # "P"
<1>1. other # NULL /\ \A n \in Nodes : f.root[n] \in Nodes /\ f.root[f.root[n]] = f.root[n]
  BY NullOutside DEF NullIsNoNode, IsForest
<1>2. CASE bag = NULL
  <2>1. f2 = [f EXCEPT !.type[f.root[other]] = "SP"] /\ AbsorbedBag(f, bag, other) = f.root[other]
    BY <1>1, <1>2 DEF Absorbed, AbsorbedBag
  <2>2. PICK q, ty : q = f.root[other] /\ ty = [f.type EXCEPT ![q] = "SP"]
    OBVIOUS
  <2>3. f2 = [f EXCEPT !.type = ty]
    BY <2>1, <2>2
  <2>4. f2.root = f.root /\ f2.type = ty
    BY <2>3 DEF IsForest
  <2>5. q \in Nodes /\ f.root[q] = q /\ ty[q] = "SP"
    BY <1>1, <2>2 DEF IsForest
  <2>6. QED
    BY <2>1, <2>2, <2>4, <2>5
<1>3. CASE bag # NULL
  <2>1. f2 = [Combined(f, bag, other) EXCEPT !.type[bag] = "SP"] /\ AbsorbedBag(f, bag, other) = bag
    BY <1>1, <1>3 DEF Absorbed, AbsorbedBag
  <2>2. PICK g : g = Combined(f, bag, other)
    OBVIOUS
  <2>3. IsForest(g) /\ g.type = f.type
    BY <1>3, <2>2, CombinedFields
  <2>4. PICK w \in {f.root[bag], f.root[other]} :
          g.root = [n \in Nodes |-> IF f.root[n] \in {f.root[bag], f.root[other]} THEN w ELSE f.root[n]]
    BY <1>3, <2>2, CombinedFields
  <2>5. PICK ty : ty = [g.type EXCEPT ![bag] = "SP"]
    OBVIOUS
  <2>6. f2 = [g EXCEPT !.type = ty]
    BY <2>1, <2>2, <2>5
  <2>7. f2.root = g.root /\ f2.type = ty
    BY <2>3, <2>6 DEF IsForest
  <2>8. g.root[bag] = w /\ w \in Nodes /\ ty[w] = IF w = bag THEN "SP" ELSE f.type[w]
    BY <1>1, <1>3, <2>3, <2>4, <2>5 DEF IsForest
  <2>9. f.type[w] = "P" => w = bag
    BY <1>3, <2>4
  <2>10. QED
    BY <2>1, <2>7, <2>8, <2>9
<1>4. QED
  BY <1>2, <1>3

\* A slot is a frame and one of its three bags.
LEMMA SlotPairs ==
  ASSUME NEW st, NEW z \in (1 .. Len(st)) \X Bags
  PROVE  \E k \in 1 .. Len(st) : \/ z = <<k, "ss_bag">> \/ z = <<k, "sp_bag">> \/ z = <<k, "p_bag">>
  BY DEF Bags

\* A frame's SP-bag is emptied into its P-bag.
LEMMA FlushStack ==
  ASSUME NEW st \in Seq(Frame), NEW f, NEW nn, Grouped(BagAt(st), f, nn), NEW k \in 1 .. Len(st),
         NEW st2 \in Seq(Frame), Len(st2) = Len(st),
         \A j \in 1 .. Len(st) : j # k => st2[j] = st[j],
         st2[k].ss_bag = st[k].ss_bag, st2[k].sp_bag = NULL,
         st2[k].p_bag = AbsorbedBag(f, st[k].p_bag, st[k].sp_bag),
         NEW f2, f2 = Absorbed(f, st[k].p_bag, st[k].sp_bag, "P")
  PROVE  /\ MayAbsorb(f, st[k].p_bag, st[k].sp_bag)
         /\ Merges(BagAt(st), f, nn, <<k, "p_bag">>, <<k, "sp_bag">>, BagAt(st2), f2)
<1>1. PICK a, a2, x, y, bag : /\ a = BagAt(st) /\ a2 = BagAt(st2)
                              /\ x = <<k, "p_bag">> /\ y = <<k, "sp_bag">>
                              /\ bag = AbsorbedBag(f, st[k].p_bag, st[k].sp_bag)
  OBVIOUS
<1>2. x \in DOMAIN a /\ y \in DOMAIN a /\ x # y
  BY <1>1, BagAtFields DEF Bags
<1>3. a[x] = st[k].p_bag /\ a[y] = st[k].sp_bag
  BY <1>1, BagAtFields
<1>4. DOMAIN a2 = DOMAIN a
  BY <1>1, BagAtFields
<1>5. ASSUME NEW z \in DOMAIN a
      PROVE  a2[z] = IF z = x THEN bag ELSE IF z = y THEN NULL ELSE a[z]
  <2>1. PICK j \in 1 .. Len(st) : \/ z = <<j, "ss_bag">> \/ z = <<j, "sp_bag">> \/ z = <<j, "p_bag">>
    <3>1. z \in (1 .. Len(st)) \X Bags
      BY <1>1, <1>5, BagAtFields
    <3>2. QED
      BY <3>1, SlotPairs
  <2>2. j \in 1 .. Len(st2)
    OBVIOUS
  <2>3. CASE z = <<j, "ss_bag">>
    <3>1. z # x /\ z # y /\ a2[z] = st2[j].ss_bag /\ a[z] = st[j].ss_bag
      BY <1>1, <2>2, <2>3, BagAtFields
    <3>2. QED
      BY <3>1
  <2>4. CASE z = <<j, "sp_bag">>
    <3>1. z # x /\ (z = y <=> j = k) /\ a2[z] = st2[j].sp_bag /\ a[z] = st[j].sp_bag
      BY <1>1, <2>2, <2>4, BagAtFields
    <3>2. QED
      BY <3>1
  <2>5. CASE z = <<j, "p_bag">>
    <3>1. (z = x <=> j = k) /\ z # y /\ a2[z] = st2[j].p_bag /\ a[z] = st[j].p_bag
      BY <1>1, <2>2, <2>5, BagAtFields
    <3>2. QED
      BY <1>1, <3>1
  <2>6. QED
    BY <2>1, <2>3, <2>4, <2>5
<1>6. Moved(a, x, y, bag, a2)
  BY <1>4, <1>5 DEF Moved
<1>7. Merges(a, f, nn, x, y, a2, f2)
  BY <1>1, <1>2, <1>3, <1>6, AbsorbMerges
<1>8. QED
  BY <1>1, <1>2, <1>3, <1>7, SlotsDiffer

\* A new function has an SS-bag of its own.
LEMMA PushStack ==
  ASSUME NEW st \in Seq(Frame), NEW f, NEW nn, Grouped(BagAt(st), f, nn), nn + 1 \in Nodes,
         NEW st2 \in Seq(Frame), Len(st2) = Len(st) + 1,
         \A j \in 1 .. Len(st) : st2[j] = st[j],
         st2[Len(st) + 1].ss_bag = nn + 1, st2[Len(st) + 1].sp_bag = NULL,
         st2[Len(st) + 1].p_bag = NULL
  PROVE  /\ Grouped(BagAt(st2), f, nn + 1)
         /\ \A n \in 1 .. nn, k \in 1 .. Len(st) + 1, b \in Bags :
              Held(BagAt(st2), f, n, <<k, b>>) <=> k \in 1 .. Len(st) /\ Held(BagAt(st), f, n, <<k, b>>)
         /\ \A k \in 1 .. Len(st) + 1, b \in Bags :
              Held(BagAt(st2), f, nn + 1, <<k, b>>) <=> k = Len(st) + 1 /\ b = "ss_bag"
<1>1. PICK a, b, L, s : a = BagAt(st) /\ b = BagAt(st2) /\ L = Len(st) /\ s = <<L + 1, "ss_bag">>
  OBVIOUS
<1>2. L \in Nat /\ DOMAIN a = (1 .. L) \X Bags /\ DOMAIN b = (1 .. L + 1) \X Bags
  <2>1. L \in Nat /\ Len(st2) = L + 1
    BY <1>1
  <2>2. DOMAIN a = (1 .. L) \X Bags /\ DOMAIN b = (1 .. Len(st2)) \X Bags
    BY <1>1, BagAtFields
  <2>3. QED
    BY <2>1, <2>2
<1>3. DOMAIN a \subseteq DOMAIN b /\ s \in DOMAIN b /\ s \notin DOMAIN a
  BY <1>1, <1>2 DEF Bags
<1>4. b[s] = nn + 1
  <2>1. L + 1 \in 1 .. Len(st2) /\ st2[L + 1].ss_bag = nn + 1
    BY <1>1, <1>2
  <2>2. BagAt(st2)[<<L + 1, "ss_bag">>] = st2[L + 1].ss_bag
    BY <2>1, BagAtFields
  <2>3. QED
    BY <1>1, <2>1, <2>2
<1>5. \A z \in DOMAIN a : b[z] = a[z]
  BY <1>1, <1>2, <1>3 DEF BagAt
<1>6. ASSUME NEW z \in DOMAIN b, z \notin DOMAIN a, z # s PROVE b[z] = NULL
  <2>1. PICK j \in 1 .. Len(st2) : \/ z = <<j, "ss_bag">> \/ z = <<j, "sp_bag">> \/ z = <<j, "p_bag">>
    <3>1. z \in (1 .. Len(st2)) \X Bags
      BY <1>1, <1>6, BagAtFields
    <3>2. QED
      BY <3>1, SlotPairs
  <2>2. j = L + 1
    BY <1>1, <1>2, <1>6, <2>1 DEF Bags
  <2>3. z = <<j, "sp_bag">> \/ z = <<j, "p_bag">>
    BY <1>1, <1>6, <2>1, <2>2
  <2>4. QED
    BY <1>1, <2>2, <2>3, BagAtFields
<1>7. /\ Grouped(b, f, nn + 1)
      /\ \A n \in 1 .. nn, z \in DOMAIN b : Held(b, f, n, z) <=> z \in DOMAIN a /\ Held(a, f, n, z)
      /\ \A z \in DOMAIN b : Held(b, f, nn + 1, z) <=> z = s
  BY <1>1, <1>3, <1>4, <1>5, <1>6, NewSlotKeeps
<1>8. ASSUME NEW n \in 1 .. nn, NEW k \in 1 .. L + 1, NEW c \in Bags
      PROVE  Held(b, f, n, <<k, c>>) <=> k \in 1 .. L /\ Held(a, f, n, <<k, c>>)
  <2>1. <<k, c>> \in DOMAIN b /\ (<<k, c>> \in DOMAIN a <=> k \in 1 .. L)
    BY <1>2
  <2>2. QED
    BY <1>7, <2>1
<1>9. ASSUME NEW k \in 1 .. L + 1, NEW c \in Bags
      PROVE  Held(b, f, nn + 1, <<k, c>>) <=> k = L + 1 /\ c = "ss_bag"
  <2>1. <<k, c>> \in DOMAIN b
    BY <1>2
  <2>2. <<k, c>> = s <=> k = L + 1 /\ c = "ss_bag"
    BY <1>1
  <2>3. QED
    BY <1>7, <2>1, <2>2
<1>10. QED
  BY <1>1, <1>7, <1>8, <1>9

\* The slots once a returning frame's P-bag has gone to its parent's.
Returned(st, f) ==
  LET L == Len(st)
  IN  [z \in DOMAIN BagAt(st) |->
         IF z = <<L - 1, "p_bag">> THEN AbsorbedBag(f, st[L - 1].p_bag, st[L].p_bag)
         ELSE IF z = <<L, "p_bag">> THEN NULL ELSE BagAt(st)[z]]

\* The P-bag of a returning frame goes to its parent's P-bag.
LEMMA ReturnedMerges ==
  ASSUME NEW st \in Seq(Frame), NEW L, L = Len(st), L >= 2,
         NEW f, NEW nn, Grouped(BagAt(st), f, nn),
         NEW f1, f1 = Absorbed(f, st[L - 1].p_bag, st[L].p_bag, "P")
  PROVE  /\ MayAbsorb(f, st[L - 1].p_bag, st[L].p_bag)
         /\ Merges(BagAt(st), f, nn, <<L - 1, "p_bag">>, <<L, "p_bag">>, Returned(st, f), f1)
<1>1. PICK a, a2, x, y, bag : /\ a = BagAt(st) /\ a2 = Returned(st, f)
                              /\ x = <<L - 1, "p_bag">> /\ y = <<L, "p_bag">>
                              /\ bag = AbsorbedBag(f, st[L - 1].p_bag, st[L].p_bag)
  OBVIOUS
<1>2. L \in 1 .. Len(st) /\ L - 1 \in 1 .. Len(st) /\ L - 1 # L
  OBVIOUS
<1>3. x \in DOMAIN a /\ y \in DOMAIN a /\ x # y
  BY <1>1, <1>2, BagAtFields DEF Bags
<1>4. a[x] = st[L - 1].p_bag /\ a[y] = st[L].p_bag
  BY <1>1, <1>2, BagAtFields
<1>5. Moved(a, x, y, bag, a2)
  BY <1>1 DEF Moved, Returned
<1>6. Merges(a, f, nn, x, y, a2, f1)
  BY <1>1, <1>3, <1>4, <1>5, AbsorbMerges
<1>7. QED
  BY <1>1, <1>3, <1>4, <1>6, SlotsDiffer

\* The frame returns: its P-bag goes to its parent's, and then its SS-bag to
\* bag b0 of its parent.
Leaves(st, L, f, nn, b0, bag, a2, f2, st2) ==
  /\ st \in Seq(Frame) /\ L = Len(st) /\ L >= 2 /\ st[L].sp_bag = NULL
  /\ Grouped(BagAt(st), f, nn) /\ b0 \in Bags
  /\ Moved(Returned(st, f), <<L - 1, b0>>, <<L, "ss_bag">>, bag, a2)
  /\ Merges(Returned(st, f), Absorbed(f, st[L - 1].p_bag, st[L].p_bag, "P"), nn,
            <<L - 1, b0>>, <<L, "ss_bag">>, a2, f2)
  /\ st2 \in Seq(Frame) /\ Len(st2) = L - 1
  /\ \A k \in 1 .. L - 1, b \in Bags :
       BagAt(st2)[<<k, b>>] = IF <<k, b>> = <<L - 1, b0>> THEN bag ELSE Returned(st, f)[<<k, b>>]

\* What that comes to.
Left(st, L, f, nn, b0, f2, st2) ==
  /\ Grouped(BagAt(st2), f2, nn)
  /\ \A n \in 1 .. nn, k \in 1 .. L - 1, b \in Bags :
       Held(BagAt(st2), f2, n, <<k, b>>) <=>
         \/ Held(BagAt(st), f, n, <<k, b>>)
         \/ k = L - 1 /\ b = "p_bag" /\ Held(BagAt(st), f, n, <<L, "p_bag">>)
         \/ k = L - 1 /\ b = b0 /\ Held(BagAt(st), f, n, <<L, "ss_bag">>)
  /\ \A n \in 1 .. nn :
       \/ f2.type[n] = f.type[n]
       \/ \E b \in Bags : Held(BagAt(st), f, n, <<L, b>>)
       \/ \E b \in {"p_bag", b0} : Held(BagAt(st), f, n, <<L - 1, b>>)
  /\ \A k \in 1 .. L - 1, b \in Bags :
       <<k, b>> \notin {<<L - 1, "p_bag">>, <<L - 1, b0>>} /\ BagAt(st)[<<k, b>>] # NULL =>
         /\ f2.root[BagAt(st)[<<k, b>>]] = f.root[BagAt(st)[<<k, b>>]]
         /\ SetType(BagAt(st2), f2, <<k, b>>) = SetType(BagAt(st), f, <<k, b>>)

\* A return as two moves, of the P-bag and of the SS-bag.
LEMMA LeaveStack ==
  ASSUME NEW st, NEW L, NEW f, NEW nn, NEW b0, NEW bag, NEW a2, NEW f2, NEW st2,
         Leaves(st, L, f, nn, b0, bag, a2, f2, st2)
  PROVE  Left(st, L, f, nn, b0, f2, st2)
<1>0. PICK f1 : f1 = Absorbed(f, st[L - 1].p_bag, st[L].p_bag, "P")
  OBVIOUS
<1> st \in Seq(Frame) /\ L = Len(st) /\ L >= 2 /\ st[L].sp_bag = NULL
    /\ Grouped(BagAt(st), f, nn) /\ b0 \in Bags /\ st2 \in Seq(Frame) /\ Len(st2) = L - 1
    /\ Moved(Returned(st, f), <<L - 1, b0>>, <<L, "ss_bag">>, bag, a2)
    /\ Merges(Returned(st, f), f1, nn, <<L - 1, b0>>, <<L, "ss_bag">>, a2, f2)
    /\ \A k \in 1 .. L - 1, b \in Bags :
         BagAt(st2)[<<k, b>>] = IF <<k, b>> = <<L - 1, b0>> THEN bag ELSE Returned(st, f)[<<k, b>>]
  BY <1>0 DEF Leaves
<1>1. PICK a, a1, a3, x, y, x2, y2 :
        /\ a = BagAt(st) /\ a1 = Returned(st, f) /\ a3 = BagAt(st2)
        /\ x = <<L - 1, "p_bag">> /\ y = <<L, "p_bag">>
        /\ x2 = <<L - 1, b0>> /\ y2 = <<L, "ss_bag">>
  OBVIOUS
<1>2. L \in Nat /\ L \in 1 .. Len(st) /\ L - 1 # L
  OBVIOUS
<1>3. DOMAIN a = (1 .. L) \X Bags /\ DOMAIN a1 = DOMAIN a /\ DOMAIN a3 = (1 .. L - 1) \X Bags
      /\ DOMAIN a2 = DOMAIN a
  <2>1. DOMAIN a = (1 .. Len(st)) \X Bags /\ DOMAIN a3 = (1 .. Len(st2)) \X Bags
    BY <1>1, BagAtFields
  <2>2. DOMAIN a1 = DOMAIN a
    BY <1>1 DEF Returned
  <2>3. QED
    BY <1>1, <2>1, <2>2 DEF Moved
<1>4. Merges(a, f, nn, x, y, a1, f1)
  BY <1>0, <1>1, ReturnedMerges
<1>5. Merges(a1, f1, nn, x2, y2, a2, f2)
  BY <1>1
<1>6. ASSUME NEW z \in DOMAIN a
      PROVE  /\ a1[z] = IF z = x THEN AbsorbedBag(f, st[L - 1].p_bag, st[L].p_bag)
                        ELSE IF z = y THEN NULL ELSE a[z]
             /\ a2[z] = IF z = x2 THEN bag ELSE IF z = y2 THEN NULL ELSE a1[z]
  BY <1>1, <1>3 DEF Returned, Moved
<1>7. ASSUME NEW z \in DOMAIN a3 PROVE a3[z] = a2[z] /\ z \in DOMAIN a
  <2>1. PICK k \in 1 .. L - 1, b \in Bags : z = <<k, b>>
    BY <1>3
  <2>2. k \in 1 .. L /\ k # L
    BY <1>2
  <2>3. z \in DOMAIN a /\ z # y2
    BY <1>1, <1>3, <2>1, <2>2
  <2>4. QED
    BY <1>1, <1>6, <2>1, <2>3
<1>8. ASSUME NEW z \in DOMAIN a, z \notin DOMAIN a3 PROVE a2[z] = NULL
  <2>1. PICK k \in 1 .. L, b \in Bags : z = <<k, b>>
    BY <1>3
  <2>2. k = L
    BY <1>2, <1>3, <1>8, <2>1
  <2>3. z # x /\ z # x2 /\ a[<<L, "sp_bag">>] = NULL
    BY <1>1, <1>2, <2>1, <2>2, BagAtFields
  <2>4. QED
    BY <1>1, <1>6, <2>1, <2>2, <2>3, ZenonT(30) DEF Bags
<1>9. Grouped(a3, f2, nn) /\ \A n, z : z \in DOMAIN a3 => (Held(a3, f2, n, z) <=> Held(a2, f2, n, z))
  <2>1. Grouped(a2, f2, nn)
    BY <1>5 DEF Merges
  <2>2. DOMAIN a3 \subseteq DOMAIN a2
    BY <1>3, <1>7
  <2>3. QED
    BY <1>3, <1>7, <1>8, <2>1, <2>2, DropKeeps
<1>10. ASSUME NEW n \in 1 .. nn, NEW k \in 1 .. L - 1, NEW b \in Bags
       PROVE  Held(a3, f2, n, <<k, b>>) <=>
                \/ Held(a, f, n, <<k, b>>)
                \/ k = L - 1 /\ b = "p_bag" /\ Held(a, f, n, y)
                \/ k = L - 1 /\ b = b0 /\ Held(a, f, n, y2)
  <2>1. PICK z : z = <<k, b>>
    OBVIOUS
  <2>2. z \in DOMAIN a3 /\ z \in DOMAIN a /\ z # y /\ z # y2 /\ y2 \in DOMAIN a
    BY <1>1, <1>2, <1>3, <1>7, <2>1 DEF Bags
  <2>3. (z = x <=> k = L - 1 /\ b = "p_bag") /\ (z = x2 <=> k = L - 1 /\ b = b0)
    BY <1>1, <2>1
  <2>4. Held(a3, f2, n, z) <=> IF z = x2 THEN Held(a1, f1, n, z) \/ Held(a1, f1, n, y2) ELSE Held(a1, f1, n, z)
    BY <1>3, <1>5, <1>9, <2>2 DEF Merges, HeldAfter
  <2>5. Held(a1, f1, n, z) <=> IF z = x THEN Held(a, f, n, z) \/ Held(a, f, n, y) ELSE Held(a, f, n, z)
    BY <1>4, <2>2 DEF Merges, HeldAfter
  <2>6. y2 # x /\ y2 # y
    BY <1>1, <1>2
  <2>7. Held(a1, f1, n, y2) <=> Held(a, f, n, y2)
    BY <1>4, <2>2, <2>6 DEF Merges, HeldAfter
  <2>8. QED
    BY <2>1, <2>3, <2>4, <2>5, <2>7
<1>11. ASSUME NEW n \in 1 .. nn
       PROVE  \/ f2.type[n] = f.type[n]
              \/ \E b \in Bags : Held(a, f, n, <<L, b>>)
              \/ \E b \in {"p_bag", b0} : Held(a, f, n, <<L - 1, b>>)
  <2>1. f1.type[n] = f.type[n] \/ Held(a, f, n, x) \/ Held(a, f, n, y)
    BY <1>4 DEF Merges
  <2>2. f2.type[n] = f1.type[n] \/ Held(a1, f1, n, x2) \/ Held(a1, f1, n, y2)
    BY <1>5 DEF Merges
  <2>3. x2 \in DOMAIN a /\ y2 \in DOMAIN a
    BY <1>1, <1>2, <1>3 DEF Bags
  <2>4. \A z \in DOMAIN a : Held(a1, f1, n, z) => Held(a, f, n, z) \/ Held(a, f, n, y)
    BY <1>4 DEF Merges, HeldAfter
  <2>5. \/ f2.type[n] = f.type[n] \/ Held(a, f, n, x) \/ Held(a, f, n, y)
        \/ Held(a, f, n, x2) \/ Held(a, f, n, y2)
    BY <2>1, <2>2, <2>3, <2>4
  <2>6. QED
    BY <1>1, <2>5 DEF Bags
<1>12. ASSUME NEW k \in 1 .. L - 1, NEW b \in Bags, <<k, b>> \notin {x, x2}, a[<<k, b>>] # NULL
       PROVE  /\ f2.root[a[<<k, b>>]] = f.root[a[<<k, b>>]]
              /\ SetType(a3, f2, <<k, b>>) = SetType(a, f, <<k, b>>)
  <2>1. PICK z : z = <<k, b>>
    OBVIOUS
  <2>2. z \in DOMAIN a3 /\ z \in DOMAIN a /\ z # y /\ z # y2 /\ z # x /\ z # x2
    BY <1>1, <1>2, <1>3, <1>7, <1>12, <2>1 DEF Bags
  <2>3. a1[z] = a[z] /\ a2[z] = a[z] /\ a3[z] = a2[z] /\ a[z] # NULL
    BY <1>6, <1>7, <1>12, <2>1, <2>2
  <2>4. f1.root[a[z]] = f.root[a[z]] /\ SetType(a1, f1, z) = SetType(a, f, z)
    BY <1>4, <2>2, <2>3 DEF Merges
  <2>5. f2.root[a1[z]] = f1.root[a1[z]] /\ SetType(a2, f2, z) = SetType(a1, f1, z)
    BY <1>3, <1>5, <2>2, <2>3 DEF Merges
  <2>6. SetType(a3, f2, z) = SetType(a2, f2, z)
    BY <2>3 DEF SetType
  <2>7. QED
    BY <2>1, <2>3, <2>4, <2>5, <2>6
<1>13. QED
  BY <1>1, <1>9, <1>10, <1>11, <1>12, ZenonT(30) DEF Left

-----------------------------------------------------------------------------
(***************************************************************************)
(* The invariant: frames and bags.                                         *)
(***************************************************************************)
Levels == 1 .. Len(stack)

IsHelper(k) == stack[k].func_type = "HELPER"

\* Node n is in bag b of the frame at level k.
In(n, k, b) == Held(BagAt(stack), forest, n, <<k, b>>)

IsP(k) == SetType(BagAt(stack), forest, <<k, "sp_bag">>) = "P"

Progress == [entry : Strands, cont : Strands, unsynced : Nat]

FramesTyped ==
  /\ stack \in Seq(Frame) /\ Len(stack) \in 1 .. MaxDepth
  /\ prog \in Seq(Progress) /\ Len(prog) = Len(stack)
  /\ \A k \in Levels : stack[k].func_type = "MAIN" <=> k = 1
  /\ nstrands \in Strands /\ cur \in 1 .. nstrands
  /\ \A k \in Levels : prog[k].entry \in 1 .. nstrands /\ prog[k].cont \in 1 .. nstrands

\* A frame counts the children it must sync, the one that runs included; its
\* SP-bag is empty while a spawned child of it runs.
SpawnsCounted ==
  /\ \A k \in Levels :
       /\ stack[k].local_spawns = prog[k].unsynced
            + (IF k < Len(stack) /\ IsHelper(k + 1) THEN 1 ELSE 0)
       /\ stack[k].sp_bag # NULL => stack[k].local_spawns > 0
       /\ k < Len(stack) =>
            /\ stack[k + 1].ancestor_spawns = stack[k].ancestor_spawns + stack[k].local_spawns
            /\ IsHelper(k + 1) => stack[k].sp_bag = NULL
  /\ \A j, k \in Levels : j <= k => stack[j].ancestor_spawns <= stack[k].ancestor_spawns

Phases ==
  /\ in_user_code \in BOOLEAN
  /\ pc \in {"user", "attached", "entering", "prepared", "syncing", "leaving"}
  /\ in_user_code <=> pc \in {"user", "attached"}
  /\ pc \in {"prepared", "syncing"} => bot.func_type = "CILK"

\* The nodes of an SS-bag keep their type; an SP-bag of type P has its root
\* for a pointer; the type of the node a P-bag's pointer names is P, though
\* it need not be the root.
BagsTyped(st, f, nn) ==
  /\ \A n \in 1 .. nn, k \in 1 .. Len(st) :
       Held(BagAt(st), f, n, <<k, "ss_bag">>) => f.type[n] = "SS"
  /\ \A k \in 1 .. Len(st) :
       st[k].sp_bag # NULL /\ SetType(BagAt(st), f, <<k, "sp_bag">>) = "P" =>
         f.root[st[k].sp_bag] = st[k].sp_bag
  /\ \A k \in 1 .. Len(st) : st[k].p_bag # NULL => f.type[st[k].p_bag] = "P"

Bagged(st, f, nn) == Grouped(BagAt(st), f, nn) /\ BagsTyped(st, f, nn)

FramesInv == FramesTyped /\ SpawnsCounted /\ Phases
BagsInv   == Bagged(stack, forest, nnodes)

\* The types of the top frame and of the current strand.
LEMMA BotTyped ==
  ASSUME FramesTyped
  PROVE  /\ Len(stack) \in Nat /\ Len(stack) \in Levels /\ bot \in Frame /\ spawn_count \in Nat
         /\ cur \in Strands /\ nstrands \in Nat /\ 1 .. nstrands \subseteq Strands
         /\ \A k \in Levels : stack[k] \in Frame /\ prog[k] \in Progress
<1>1. MaxStrands \in Nat /\ MaxDepth \in Nat
  BY BoundsAssumption
<1>2. Len(stack) \in Nat /\ Len(stack) \in Levels
  BY <1>1 DEF FramesTyped, Levels
<1>3. \A k \in Levels : stack[k] \in Frame /\ prog[k] \in Progress
  BY DEF FramesTyped, Levels
<1>4. bot \in Frame
  BY <1>2, <1>3 DEF bot
<1>5. spawn_count \in Nat
  BY <1>4 DEF spawn_count, Frame
<1>6. nstrands \in Nat /\ 1 .. nstrands \subseteq Strands
  BY <1>1 DEF FramesTyped, Strands
<1>7. QED
  BY <1>2, <1>3, <1>4, <1>5, <1>6 DEF FramesTyped

\* The stack after a push.
LEMMA PushShape ==
  ASSUME FramesTyped, nnodes \in Nodes, NEW fr \in Frame, NEW t \in {"CILK", "HELPER"}, Push(fr, t)
  PROVE  /\ stack' \in Seq(Frame) /\ Len(stack') = Len(stack) + 1 /\ Len(stack') \in 1 .. MaxDepth
         /\ nnodes' = nnodes + 1 /\ nnodes + 1 \in Nodes
         /\ \A k \in Levels : stack'[k] = IF k = Len(stack) THEN fr ELSE stack[k]
         /\ stack'[Len(stack) + 1] = NewFrame(t, fr.ancestor_spawns + fr.local_spawns, nnodes + 1)
<1>1. PICK L, st, top : /\ L = Len(stack) /\ st = Replaced(fr)
                        /\ top = NewFrame(t, fr.ancestor_spawns + fr.local_spawns, nnodes + 1)
  OBVIOUS
<1>2. L \in Nat /\ L \in 1 .. L /\ MaxDepth \in Nat /\ L < MaxDepth /\ stack \in Seq(Frame) /\ Levels = 1 .. L
  BY <1>1, BotTyped, BoundsAssumption DEF Push, FramesTyped, Levels
<1>3. nnodes + 1 \in Nodes
  BY BoundsAssumption DEF Push, Nodes
<1>4. top \in Frame
  BY <1>1, <1>3 DEF NewFrame, Frame
<1>5. st \in Seq(Frame) /\ Len(st) = L /\ \A k \in 1 .. L : st[k] = IF k = L THEN fr ELSE stack[k]
  BY <1>1, <1>2 DEF Replaced
<1>6. stack' = Append(st, top)
  BY <1>1 DEF Push
<1>7. stack' \in Seq(Frame) /\ Len(stack') = L + 1 /\ stack'[L + 1] = top
      /\ \A k \in 1 .. L : stack'[k] = st[k]
  BY <1>2, <1>4, <1>5, <1>6
<1>8. L + 1 \in 1 .. MaxDepth
  BY <1>2
<1>9. QED
  BY <1>1, <1>2, <1>3, <1>5, <1>7, <1>8 DEF Push

\* The stack after a pop.
LEMMA PopShape ==
  ASSUME FramesTyped, Len(stack) >= 2, NEW fr \in Frame, PopTo(fr)
  PROVE  /\ stack' \in Seq(Frame) /\ Len(stack') = Len(stack) - 1 /\ Len(stack') \in 1 .. MaxDepth
         /\ \A k \in 1 .. Len(stack) - 1 : stack'[k] = IF k = Len(stack) - 1 THEN fr ELSE stack[k]
<1>1. PICK L, st : L = Len(stack) /\ st = SubSeq(stack, 1, Len(stack) - 2)
  OBVIOUS
<1>2. L \in Nat /\ L >= 2 /\ L <= MaxDepth /\ MaxDepth \in Nat /\ stack \in Seq(Frame)
  BY <1>1, BotTyped, BoundsAssumption DEF FramesTyped
<1>3. st \in Seq(Frame) /\ Len(st) = L - 2 /\ \A k \in 1 .. L - 2 : st[k] = stack[k]
  BY <1>1, <1>2
<1>4. stack' = Append(st, fr)
  BY <1>1 DEF PopTo
<1>5. stack' \in Seq(Frame) /\ Len(stack') = L - 1 /\ stack'[L - 1] = fr
      /\ \A k \in 1 .. L - 2 : stack'[k] = st[k]
  BY <1>2, <1>3, <1>4
<1>6. L - 1 \in 1 .. MaxDepth /\ \A k \in 1 .. L - 1 : k = L - 1 \/ k \in 1 .. L - 2
  BY <1>2
<1>7. QED
  BY <1>1, <1>3, <1>5, <1>6

\* The fields of a frame whose SP-bag has been emptied.
LEMMA FlushedTyped ==
  ASSUME NEW fr \in Frame, IsForest(forest)
  PROVE  /\ Flushed(fr) \in Frame
         /\ Flushed(fr).p_bag = AbsorbedBag(forest, fr.p_bag, fr.sp_bag) /\ Flushed(fr).sp_bag = NULL
         /\ Flushed(fr).func_type = fr.func_type /\ Flushed(fr).ancestor_spawns = fr.ancestor_spawns
         /\ Flushed(fr).local_spawns = fr.local_spawns /\ Flushed(fr).ss_bag = fr.ss_bag
<1>1. PICK bag, g : bag = AbsorbedBag(forest, fr.p_bag, fr.sp_bag) /\ g = Flushed(fr)
  OBVIOUS
<1>2. bag \in Nodes \cup {NULL}
  BY <1>1 DEF AbsorbedBag, Frame, IsForest
<1>3. g = [fr EXCEPT !.p_bag = bag, !.sp_bag = NULL]
  BY <1>1 DEF Flushed
<1>4. g \in Frame
  BY <1>2, <1>3 DEF Frame
<1>5. /\ g.p_bag = bag /\ g.sp_bag = NULL /\ g.func_type = fr.func_type
      /\ g.ancestor_spawns = fr.ancestor_spawns /\ g.local_spawns = fr.local_spawns
      /\ g.ss_bag = fr.ss_bag
  BY <1>3 DEF Frame
<1>6. QED
  BY <1>1, <1>4, <1>5

\* A push keeps the types and the spawn counts of frames.
LEMMA PushFrames ==
  ASSUME FramesTyped, SpawnsCounted, nnodes \in Nodes,
         NEW fr \in Frame, NEW t \in {"CILK", "HELPER"}, Push(fr, t),
         fr.func_type = bot.func_type, fr.ancestor_spawns = bot.ancestor_spawns,
         fr.local_spawns = bot.local_spawns + (IF t = "HELPER" THEN 1 ELSE 0),
         fr.sp_bag # NULL => fr.local_spawns > 0, t = "HELPER" => fr.sp_bag = NULL,
         NEW p \in Progress, p.unsynced = 0, prog' = Append(prog, p),
         nstrands' \in Strands, nstrands <= nstrands',
         p.entry \in 1 .. nstrands', p.cont \in 1 .. nstrands', cur' \in 1 .. nstrands'
  PROVE  FramesTyped' /\ SpawnsCounted'
<1>1. PICK L : L = Len(stack)
  OBVIOUS
<1>2. /\ stack' \in Seq(Frame) /\ Len(stack') = L + 1 /\ Len(stack') \in 1 .. MaxDepth
      /\ \A k \in 1 .. L : stack'[k] = IF k = L THEN fr ELSE stack[k]
      /\ stack'[L + 1] = NewFrame(t, fr.ancestor_spawns + fr.local_spawns, nnodes + 1)
  BY <1>1, PushShape DEF Levels
<1>3. /\ L \in Nat /\ L \in 1 .. L /\ Levels = 1 .. L /\ Len(prog) = L /\ prog \in Seq(Progress)
      /\ \A k \in 1 .. L : stack[k] \in Frame /\ prog[k] \in Progress
      /\ bot = stack[L] /\ nstrands \in Nat /\ MaxStrands \in Nat
  BY <1>1, BotTyped, BoundsAssumption DEF FramesTyped, Levels, bot
<1>4. prog' \in Seq(Progress) /\ Len(prog') = L + 1 /\ prog'[L + 1] = p
      /\ \A k \in 1 .. L : prog'[k] = prog[k]
  BY <1>3
<1>5. stack'[L + 1].func_type = t /\ stack'[L + 1].local_spawns = 0 /\ stack'[L + 1].sp_bag = NULL
      /\ stack'[L + 1].ancestor_spawns = fr.ancestor_spawns + fr.local_spawns
  BY <1>2 DEF NewFrame
<1>6. \A k \in 1 .. L + 1 : k \in 1 .. L \/ k = L + 1
  BY <1>3
<1>7. \A k \in 1 .. L : stack'[k].func_type = stack[k].func_type
                         /\ stack'[k].ancestor_spawns = stack[k].ancestor_spawns
  BY <1>2, <1>3
<1>8. FramesTyped'
  <2>0. \A k \in 1 .. L : stack[k].func_type = "MAIN" <=> k = 1
    BY <1>3 DEF FramesTyped
  <2>1. ASSUME NEW k \in 1 .. L + 1 PROVE stack'[k].func_type = "MAIN" <=> k = 1
    <3>1. CASE k \in 1 .. L
      BY <1>7, <2>0, <3>1
    <3>2. CASE k = L + 1
      BY <1>3, <1>5, <3>2
    <3>3. QED
      BY <1>6, <3>1, <3>2
  <2>2. \A k \in 1 .. L + 1 : prog'[k].entry \in 1 .. nstrands' /\ prog'[k].cont \in 1 .. nstrands'
    <3>1. nstrands' \in Nat /\ 1 .. nstrands \subseteq 1 .. nstrands'
      BY <1>3 DEF Strands
    <3>2. QED
      BY <1>3, <1>4, <1>6, <3>1 DEF FramesTyped
  <2>3. QED
    BY <1>2, <1>4, <2>1, <2>2 DEF FramesTyped, Levels
<1>9. \A j, k \in 1 .. L + 1 : j <= k => stack'[j].ancestor_spawns <= stack'[k].ancestor_spawns
  <2>1. \A j, k \in 1 .. L : j <= k => stack[j].ancestor_spawns <= stack[k].ancestor_spawns
    BY <1>3 DEF SpawnsCounted
  <2>2. \A k \in 1 .. L : stack[k].ancestor_spawns <= stack[L].ancestor_spawns
    BY <1>3, <2>1
  <2>3. \A k \in 1 .. L : stack[k].ancestor_spawns \in Nat
    BY <1>3 DEF Frame
  <2>4. fr.local_spawns \in Nat /\ fr.ancestor_spawns = stack[L].ancestor_spawns
    BY <1>3 DEF Frame
  <2>5. stack'[L + 1].ancestor_spawns \in Nat
        /\ \A k \in 1 .. L : stack'[k].ancestor_spawns <= stack'[L + 1].ancestor_spawns
    <3>1. PICK c, d : c = stack[L].ancestor_spawns /\ d = fr.local_spawns
      OBVIOUS
    <3>2. c \in Nat /\ d \in Nat /\ stack'[L + 1].ancestor_spawns = c + d
      BY <1>3, <1>5, <2>3, <2>4, <3>1
    <3>3. \A k \in 1 .. L : stack[k].ancestor_spawns <= c + d
      BY <2>2, <2>3, <3>1, <3>2
    <3>4. QED
      BY <1>7, <3>2, <3>3
  <2>6. ASSUME NEW j \in 1 .. L + 1, NEW k \in 1 .. L + 1, j <= k
        PROVE  stack'[j].ancestor_spawns <= stack'[k].ancestor_spawns
    <3>1. CASE k = L + 1
      BY <1>6, <2>5, <3>1
    <3>2. CASE k \in 1 .. L
      <4>1. j \in 1 .. L
        BY <1>3, <2>6, <3>2
      <4>2. QED
        BY <1>7, <2>1, <2>6, <3>2, <4>1
    <3>3. QED
      BY <1>6, <3>1, <3>2
  <2>7. QED
    BY <2>6
<1>10. ASSUME NEW k \in 1 .. L + 1
       PROVE  /\ stack'[k].local_spawns = prog'[k].unsynced
                   + (IF k < L + 1 /\ stack'[k + 1].func_type = "HELPER" THEN 1 ELSE 0)
              /\ stack'[k].sp_bag # NULL => stack'[k].local_spawns > 0
              /\ k < L + 1 =>
                   /\ stack'[k + 1].ancestor_spawns = stack'[k].ancestor_spawns + stack'[k].local_spawns
                   /\ stack'[k + 1].func_type = "HELPER" => stack'[k].sp_bag = NULL
  <2>1. CASE k = L + 1
    BY <1>3, <1>4, <1>5, <2>1
  <2>2. CASE k = L
    <3>1. stack'[k] = fr /\ prog'[k] = prog[k] /\ prog[k].unsynced \in Nat
      BY <1>2, <1>3, <1>4, <2>2 DEF Progress
    <3>2. bot.local_spawns = prog[k].unsynced
      <4>1. ~ (L < L)
        BY <1>3
      <4>2. stack[L].local_spawns = prog[L].unsynced + 0
        BY <1>1, <1>3, <4>1 DEF SpawnsCounted
      <4>3. QED
        BY <1>3, <2>2, <3>1, <4>2
    <3>3. fr.local_spawns = prog'[k].unsynced + (IF t = "HELPER" THEN 1 ELSE 0)
      BY <3>1, <3>2
    <3>4. QED
      BY <1>3, <1>5, <2>2, <3>1, <3>3
  <2>3. CASE k \in 1 .. L /\ k # L
    <3>1. k < L /\ k < L + 1 /\ k + 1 \in 1 .. L
      BY <1>3, <2>3
    <3>2. stack'[k] = stack[k] /\ prog'[k] = prog[k]
      BY <1>2, <1>4, <2>3
    <3>3. stack'[k + 1].func_type = stack[k + 1].func_type
          /\ stack'[k + 1].ancestor_spawns = stack[k + 1].ancestor_spawns
      BY <1>7, <3>1
    <3>4. QED
      BY <1>1, <1>3, <2>3, <3>1, <3>2, <3>3 DEF SpawnsCounted, IsHelper
  <2>4. QED
    BY <1>6, <2>1, <2>2, <2>3
<1>11. SpawnsCounted'
  BY <1>2, <1>9, <1>10 DEF SpawnsCounted, Levels, IsHelper
<1>12. QED
  BY <1>8, <1>11

\* So does a pop.
LEMMA PopFrames ==
  ASSUME FramesTyped, SpawnsCounted, Len(stack) >= 2, NEW fr \in Frame, PopTo(fr),
         fr.func_type = above.func_type, fr.ancestor_spawns = above.ancestor_spawns,
         fr.local_spawns = above.local_spawns, fr.sp_bag # NULL => fr.local_spawns > 0,
         prog' \in Seq(Progress), Len(prog') = Len(stack) - 1,
         \A k \in 1 .. Len(stack) - 1 : prog'[k].entry = prog[k].entry /\ prog'[k].cont = prog[k].cont,
         \A k \in 1 .. Len(stack) - 1 : prog'[k].unsynced =
           prog[k].unsynced + (IF k = Len(stack) - 1 /\ bot.func_type = "HELPER" THEN 1 ELSE 0),
         nstrands' = nstrands, cur' \in 1 .. nstrands
  PROVE  FramesTyped' /\ SpawnsCounted'
<1>1. PICK L : L = Len(stack)
  OBVIOUS
<1>2. /\ stack' \in Seq(Frame) /\ Len(stack') = L - 1 /\ Len(stack') \in 1 .. MaxDepth
      /\ \A k \in 1 .. L - 1 : stack'[k] = IF k = L - 1 THEN fr ELSE stack[k]
  BY <1>1, PopShape
<1>3. /\ L \in Nat /\ L >= 2 /\ Levels = 1 .. L /\ 1 .. L - 1 \subseteq 1 .. L /\ L - 1 \in 1 .. L - 1
      /\ \A k \in 1 .. L : stack[k] \in Frame /\ prog[k] \in Progress
      /\ bot = stack[L] /\ above = stack[L - 1]
  BY <1>1, BotTyped DEF Levels, bot, above
<1>4. \A k \in 1 .. L - 1 : /\ stack'[k].func_type = stack[k].func_type
                            /\ stack'[k].ancestor_spawns = stack[k].ancestor_spawns
                            /\ stack'[k].local_spawns = stack[k].local_spawns
                            /\ stack'[k].sp_bag # NULL => stack'[k].local_spawns > 0
  <2>1. ASSUME NEW k \in 1 .. L - 1, k # L - 1
        PROVE  stack'[k] = stack[k] /\ (stack[k].sp_bag # NULL => stack[k].local_spawns > 0)
    BY <1>2, <1>3, <2>1 DEF SpawnsCounted
  <2>2. stack'[L - 1] = fr
    BY <1>2, <1>3
  <2>3. QED
    BY <1>3, <2>1, <2>2
<1>5. FramesTyped'
  <2>0. \A k \in 1 .. L : stack[k].func_type = "MAIN" <=> k = 1
    BY <1>3 DEF FramesTyped
  <2>1. \A k \in 1 .. L - 1 : stack'[k].func_type = "MAIN" <=> k = 1
    BY <1>3, <1>4, <2>0
  <2>2. \A k \in 1 .. L - 1 : prog'[k].entry \in 1 .. nstrands' /\ prog'[k].cont \in 1 .. nstrands'
    BY <1>1, <1>3 DEF FramesTyped
  <2>3. QED
    BY <1>1, <1>2, <2>1, <2>2 DEF FramesTyped, Levels
<1>6. \A j, k \in 1 .. L - 1 : j <= k => stack'[j].ancestor_spawns <= stack'[k].ancestor_spawns
  <2>1. \A j, k \in 1 .. L - 1 : j <= k => stack[j].ancestor_spawns <= stack[k].ancestor_spawns
    BY <1>3 DEF SpawnsCounted
  <2>2. QED
    BY <1>4, <2>1
<1>7. ASSUME NEW k \in 1 .. L - 1
      PROVE  /\ stack'[k].local_spawns = prog'[k].unsynced
                  + (IF k < L - 1 /\ stack'[k + 1].func_type = "HELPER" THEN 1 ELSE 0)
             /\ k < L - 1 =>
                  /\ stack'[k + 1].ancestor_spawns = stack'[k].ancestor_spawns + stack'[k].local_spawns
                  /\ stack'[k + 1].func_type = "HELPER" => stack'[k].sp_bag = NULL
  <2>0. k \in Levels /\ k < L /\ k \in Nat /\ prog[k].unsynced \in Nat
    BY <1>3 DEF Progress
  <2>1. CASE k = L - 1
    <3>1. k + 1 = L /\ ~ (k < L - 1)
      <4>1. L \in Nat
        BY <1>3
      <4>2. QED
        BY <2>1, <4>1
    <3>2. stack[k].local_spawns = prog[k].unsynced + (IF bot.func_type = "HELPER" THEN 1 ELSE 0)
      BY <1>1, <1>3, <2>0, <3>1 DEF SpawnsCounted, IsHelper
    <3>3. prog'[k].unsynced = prog[k].unsynced + (IF bot.func_type = "HELPER" THEN 1 ELSE 0)
      BY <1>1, <2>1
    <3>4. prog'[k].unsynced \in Nat
      BY <2>0, <3>3
    <3>5. stack'[k].local_spawns = prog'[k].unsynced
      BY <1>4, <3>2, <3>3
    <3>6. QED
      BY <3>1, <3>4, <3>5
  <2>2. CASE k # L - 1
    <3>1. k < L - 1 /\ k + 1 \in 1 .. L - 1
      BY <1>3, <2>2
    <3>2. prog'[k].unsynced = prog[k].unsynced
      BY <1>1, <2>0, <2>2
    <3>3. stack'[k] = stack[k]
      BY <1>2, <2>2
    <3>4. /\ stack[k].local_spawns = prog[k].unsynced
               + (IF stack[k + 1].func_type = "HELPER" THEN 1 ELSE 0)
          /\ stack[k + 1].ancestor_spawns = stack[k].ancestor_spawns + stack[k].local_spawns
          /\ stack[k + 1].func_type = "HELPER" => stack[k].sp_bag = NULL
      BY <1>1, <2>0 DEF SpawnsCounted, IsHelper
    <3>5. stack'[k + 1].func_type = stack[k + 1].func_type
          /\ stack'[k + 1].ancestor_spawns = stack[k + 1].ancestor_spawns
      BY <1>4, <3>1
    <3>6. QED
      BY <3>1, <3>2, <3>3, <3>4, <3>5
  <2>3. QED
    BY <2>1, <2>2
<1>8. \A k \in 1 .. L - 1 : stack'[k].sp_bag # NULL => stack'[k].local_spawns > 0
  BY <1>4
<1>9. SpawnsCounted'
  BY <1>2, <1>6, <1>7, <1>8 DEF SpawnsCounted, Levels, IsHelper
<1>10. QED
  BY <1>5, <1>9

\* The frame at level k is flushed.
Flushes(st, f, nn, k, st2, f2) ==
  /\ st \in Seq(Frame) /\ Bagged(st, f, nn) /\ k \in 1 .. Len(st)
  /\ st2 \in Seq(Frame) /\ Len(st2) = Len(st)
  /\ \A j \in 1 .. Len(st) : j # k => st2[j] = st[j]
  /\ st2[k].ss_bag = st[k].ss_bag /\ st2[k].sp_bag = NULL
  /\ st2[k].p_bag = AbsorbedBag(f, st[k].p_bag, st[k].sp_bag)
  /\ f2 = Absorbed(f, st[k].p_bag, st[k].sp_bag, "P")

\* What that comes to.
FlushedTo(st, f, nn, k, st2, f2) ==
  /\ MayAbsorb(f, st[k].p_bag, st[k].sp_bag)
  /\ Bagged(st2, f2, nn)
  /\ \A n \in 1 .. nn, j \in 1 .. Len(st), b \in Bags :
       Held(BagAt(st2), f2, n, <<j, b>>) =>
         IF j = k /\ b = "p_bag"
         THEN Held(BagAt(st), f, n, <<k, "p_bag">>) \/ Held(BagAt(st), f, n, <<k, "sp_bag">>)
         ELSE Held(BagAt(st), f, n, <<j, b>>)
  /\ \A j \in 1 .. Len(st) : st2[j].sp_bag # NULL =>
       SetType(BagAt(st2), f2, <<j, "sp_bag">>) = SetType(BagAt(st), f, <<j, "sp_bag">>)

\* Emptying an SP-bag keeps the bags' invariant.
LEMMA FlushBagged ==
  ASSUME NEW st, NEW f, NEW nn, NEW k, NEW st2, NEW f2, Flushes(st, f, nn, k, st2, f2)
  PROVE  FlushedTo(st, f, nn, k, st2, f2)
<1> /\ st \in Seq(Frame) /\ Bagged(st, f, nn) /\ k \in 1 .. Len(st)
    /\ st2 \in Seq(Frame) /\ Len(st2) = Len(st)
    /\ \A j \in 1 .. Len(st) : j # k => st2[j] = st[j]
    /\ st2[k].ss_bag = st[k].ss_bag /\ st2[k].sp_bag = NULL
    /\ st2[k].p_bag = AbsorbedBag(f, st[k].p_bag, st[k].sp_bag)
    /\ f2 = Absorbed(f, st[k].p_bag, st[k].sp_bag, "P")
  BY DEF Flushes
<1>1. PICK a, a2, x, y : /\ a = BagAt(st) /\ a2 = BagAt(st2)
                         /\ x = <<k, "p_bag">> /\ y = <<k, "sp_bag">>
  OBVIOUS
<1>2. MayAbsorb(f, st[k].p_bag, st[k].sp_bag) /\ Merges(a, f, nn, x, y, a2, f2)
  BY <1>1, FlushStack DEF Bagged
<1>3. DOMAIN a = (1 .. Len(st)) \X Bags
  BY <1>1, BagAtFields
<1>4. \A j \in 1 .. Len(st) :
        a[<<j, "sp_bag">>] = st[j].sp_bag /\ a2[<<j, "sp_bag">>] = st2[j].sp_bag
  BY <1>1, BagAtFields
<1>5. ASSUME NEW n \in 1 .. nn, NEW j \in 1 .. Len(st), NEW b \in Bags, Held(a2, f2, n, <<j, b>>)
      PROVE  IF j = k /\ b = "p_bag" THEN Held(a, f, n, x) \/ Held(a, f, n, y)
             ELSE Held(a, f, n, <<j, b>>)
  <2>1. <<j, b>> \in DOMAIN a /\ (<<j, b>> = x <=> j = k /\ b = "p_bag")
    BY <1>1, <1>3
  <2>2. HeldAfter(a, f, n, x, y, <<j, b>>)
    BY <1>2, <1>5, <2>1 DEF Merges
  <2>3. QED
    BY <2>1, <2>2 DEF HeldAfter
<1>6. ASSUME NEW j \in 1 .. Len(st), st2[j].sp_bag # NULL
      PROVE  /\ j # k /\ st2[j] = st[j] /\ st[j].sp_bag # NULL
             /\ SetType(a2, f2, <<j, "sp_bag">>) = SetType(a, f, <<j, "sp_bag">>)
             /\ f2.root[st[j].sp_bag] = f.root[st[j].sp_bag]
  <2>1. j # k /\ st2[j] = st[j]
    BY <1>6
  <2>2. <<j, "sp_bag">> \in DOMAIN a /\ <<j, "sp_bag">> \notin {x, y}
    BY <1>1, <1>3, <2>1 DEF Bags
  <2>3. a[<<j, "sp_bag">>] = st[j].sp_bag
    BY <1>4
  <2>4. QED
    BY <1>2, <1>6, <2>1, <2>2, <2>3 DEF Merges
<1>7. ASSUME NEW n \in 1 .. nn, NEW j \in 1 .. Len(st), Held(a2, f2, n, <<j, "ss_bag">>)
      PROVE  f2.type[n] = "SS"
  <2>1. Held(a, f, n, <<j, "ss_bag">>)
    BY <1>5, <1>7 DEF Bags
  <2>2. f.type[n] = "SS"
    BY <1>1, <2>1 DEF Bagged, BagsTyped
  <2>3. <<j, "ss_bag">> \in DOMAIN a /\ x \in DOMAIN a /\ y \in DOMAIN a
        /\ <<j, "ss_bag">> # x /\ <<j, "ss_bag">> # y
    BY <1>1, <1>3 DEF Bags
  <2>4. ~ Held(a, f, n, x) /\ ~ Held(a, f, n, y)
    BY <1>1, <2>1, <2>3 DEF Bagged, Grouped
  <2>5. QED
    BY <1>2, <2>2, <2>4 DEF Merges
<1>8. \A j \in 1 .. Len(st) : st2[j].sp_bag # NULL /\ SetType(a2, f2, <<j, "sp_bag">>) = "P" =>
        f2.root[st2[j].sp_bag] = st2[j].sp_bag
  BY <1>1, <1>6 DEF Bagged, BagsTyped
<1>9. \A j \in 1 .. Len(st) : st2[j].p_bag # NULL => f2.type[st2[j].p_bag] = "P"
  <2>1. IsForest(f) /\ \A j \in 1 .. Len(st) : st[j].p_bag # NULL => f.type[st[j].p_bag] = "P"
    BY DEF Bagged, BagsTyped, Grouped
  <2>2. st[k] \in Frame
    OBVIOUS
  <2>3. {st[k].p_bag, st[k].sp_bag} \subseteq Nodes \cup {NULL}
    BY <2>2 DEF Frame
  <2>4. st2[k].p_bag # NULL => f2.type[st2[k].p_bag] = "P"
    <3>1. PICK p, s : p = st[k].p_bag /\ s = st[k].sp_bag
      OBVIOUS
    <3>2. IsForest(f) /\ p \in Nodes \cup {NULL} /\ s \in Nodes \cup {NULL}
          /\ (p # NULL => f.type[p] = "P")
      BY <2>1, <2>3, <3>1
    <3>3. AbsorbedBag(f, p, s) # NULL => Absorbed(f, p, s, "P").type[AbsorbedBag(f, p, s)] = "P"
      BY ONLY <3>2, AbsorbedHasType
    <3>4. QED
      BY <3>1, <3>3
  <2>5. ASSUME NEW j \in 1 .. Len(st), j # k, st2[j].p_bag # NULL PROVE f2.type[st2[j].p_bag] = "P"
    <3>1. PICK z : z = <<j, "p_bag">>
      OBVIOUS
    <3>2. z \in DOMAIN a /\ x \in DOMAIN a /\ y \in DOMAIN a /\ z \notin {x, y}
      BY <1>1, <1>3, <2>5, <3>1 DEF Bags
    <3>3. st2[j].p_bag = st[j].p_bag /\ a[z] = st[j].p_bag
      BY <1>1, <2>5, <3>1, BagAtFields
    <3>4. f2.type[a[z]] = f.type[a[z]]
      BY <1>1, <1>2, <2>5, <3>2, <3>3, OtherTypes DEF Bagged
    <3>5. QED
      BY <2>1, <2>5, <3>3, <3>4
  <2>6. QED
    BY <2>4, <2>5
<1>10. Bagged(st2, f2, nn)
  BY <1>1, <1>2, <1>7, <1>8, <1>9 DEF Merges, Bagged, BagsTyped
<1>11. QED
  BY <1>1, <1>2, <1>5, <1>6, <1>10 DEF FlushedTo

\* What a new function leaves of the bags.
Pushed(st, f, nn, st2) ==
  /\ Bagged(st2, f, nn + 1)
  /\ \A n \in 1 .. nn, k \in 1 .. Len(st) + 1, b \in Bags :
       Held(BagAt(st2), f, n, <<k, b>>) => k \in 1 .. Len(st) /\ Held(BagAt(st), f, n, <<k, b>>)
  /\ \A j \in 1 .. Len(st) :
       SetType(BagAt(st2), f, <<j, "sp_bag">>) = SetType(BagAt(st), f, <<j, "sp_bag">>)

\* So does the push of a frame with an SS-bag of its own.
LEMMA PushBagged ==
  ASSUME NEW st \in Seq(Frame), NEW f, NEW nn, Bagged(st, f, nn), nn + 1 \in Nodes,
         NEW st2 \in Seq(Frame), Len(st2) = Len(st) + 1,
         \A j \in 1 .. Len(st) : st2[j] = st[j],
         st2[Len(st) + 1].ss_bag = nn + 1, st2[Len(st) + 1].sp_bag = NULL,
         st2[Len(st) + 1].p_bag = NULL
  PROVE  Pushed(st, f, nn, st2)
<1>1. PICK a, b, L : a = BagAt(st) /\ b = BagAt(st2) /\ L = Len(st)
  OBVIOUS
<1>2. L \in Nat /\ Len(st2) = L + 1
  BY <1>1
<1>3. /\ Grouped(b, f, nn + 1)
      /\ \A n \in 1 .. nn, k \in 1 .. L + 1, c \in Bags :
           Held(b, f, n, <<k, c>>) <=> k \in 1 .. L /\ Held(a, f, n, <<k, c>>)
      /\ \A k \in 1 .. L + 1, c \in Bags : Held(b, f, nn + 1, <<k, c>>) <=> k = L + 1 /\ c = "ss_bag"
  BY <1>1, PushStack DEF Bagged
<1>4. \A j \in 1 .. L : SetType(b, f, <<j, "sp_bag">>) = SetType(a, f, <<j, "sp_bag">>)
  <2>1. ASSUME NEW j \in 1 .. L PROVE b[<<j, "sp_bag">>] = a[<<j, "sp_bag">>]
    <3>1. j \in 1 .. Len(st) /\ j \in 1 .. Len(st2) /\ st2[j] = st[j]
      BY <1>1, <1>2
    <3>2. b[<<j, "sp_bag">>] = st2[j].sp_bag /\ a[<<j, "sp_bag">>] = st[j].sp_bag
      BY <1>1, <3>1, BagAtFields
    <3>3. QED
      BY <3>1, <3>2
  <2>2. QED
    BY <2>1 DEF SetType
<1>5. nn \in Nat /\ nn \in Nodes /\ nn < nn + 1
  BY NodesUpTo DEF Bagged, Grouped
<1>6. ASSUME NEW n \in 1 .. nn + 1, NEW k \in 1 .. L + 1, Held(b, f, n, <<k, "ss_bag">>)
      PROVE  f.type[n] = "SS"
  <2>1. CASE n = nn + 1
    BY <1>5, <2>1 DEF Bagged, Grouped
  <2>2. CASE n # nn + 1
    <3>1. n \in 1 .. nn
      BY <1>5, <2>2
    <3>2. k \in 1 .. L /\ Held(a, f, n, <<k, "ss_bag">>)
      BY <1>3, <1>6, <3>1 DEF Bags
    <3>3. QED
      BY <1>1, <3>1, <3>2 DEF Bagged, BagsTyped
  <2>3. QED
    BY <2>1, <2>2
<1>7. ASSUME NEW k \in 1 .. L + 1, st2[k].sp_bag # NULL, SetType(b, f, <<k, "sp_bag">>) = "P"
      PROVE  f.root[st2[k].sp_bag] = st2[k].sp_bag
  <2>1. k \in 1 .. L
    BY <1>1, <1>2, <1>7
  <2>2. st2[k] = st[k]
    BY <1>1, <2>1
  <2>3. QED
    BY <1>1, <1>4, <1>7, <2>1, <2>2 DEF Bagged, BagsTyped
<1>8. BagsTyped(st2, f, nn + 1)
  <2>1. ASSUME NEW k \in 1 .. L + 1, st2[k].p_bag # NULL PROVE f.type[st2[k].p_bag] = "P"
    <3>1. k \in 1 .. L /\ st2[k] = st[k]
      BY <1>1, <1>2, <2>1
    <3>2. QED
      BY <1>1, <2>1, <3>1 DEF Bagged, BagsTyped
  <2>2. QED
    BY <1>1, <1>2, <1>6, <1>7, <2>1 DEF BagsTyped
<1>9. Bagged(st2, f, nn + 1)
  BY <1>1, <1>3, <1>8 DEF Bagged
<1>10. QED
  BY <1>1, <1>3, <1>4, <1>9 DEF Pushed

\* What a return leaves.
LeftBagged(st, L, f, nn, b0, f2, st2) ==
  /\ Bagged(st2, f2, nn)
  /\ \A n \in 1 .. nn, k \in 1 .. L - 1, b \in Bags :
       Held(BagAt(st2), f2, n, <<k, b>>) =>
         \/ Held(BagAt(st), f, n, <<k, b>>)
         \/ k = L - 1 /\ b = "p_bag" /\ Held(BagAt(st), f, n, <<L, "p_bag">>)
         \/ k = L - 1 /\ b = b0 /\ Held(BagAt(st), f, n, <<L, "ss_bag">>)
  /\ \A k \in 1 .. L - 1 : st2[k].sp_bag # NULL /\ (k = L - 1 => b0 # "sp_bag") =>
       SetType(BagAt(st2), f2, <<k, "sp_bag">>) = SetType(BagAt(st), f, <<k, "sp_bag">>)

\* So does a return.
LEMMA LeaveBagged ==
  ASSUME NEW st, NEW L, NEW f, NEW nn, NEW b0, NEW bag, NEW a2, NEW f2, NEW st2,
         Leaves(st, L, f, nn, b0, bag, a2, f2, st2), BagsTyped(st, f, nn),
         b0 = "ss_bag" => f2.type = Absorbed(f, st[L - 1].p_bag, st[L].p_bag, "P").type,
         b0 = "sp_bag" /\ bag # NULL /\ f2.type[f2.root[bag]] = "P" => f2.root[bag] = bag,
         b0 = "p_bag" /\ bag # NULL => f2.type[bag] = "P"
  PROVE  LeftBagged(st, L, f, nn, b0, f2, st2)
<1>0. PICK f1 : f1 = Absorbed(f, st[L - 1].p_bag, st[L].p_bag, "P")
  OBVIOUS
<1> st \in Seq(Frame) /\ L = Len(st) /\ L >= 2 /\ Grouped(BagAt(st), f, nn) /\ b0 \in Bags
    /\ st2 \in Seq(Frame) /\ Len(st2) = L - 1
    /\ \A k \in 1 .. L - 1, b \in Bags :
         BagAt(st2)[<<k, b>>] = IF <<k, b>> = <<L - 1, b0>> THEN bag ELSE Returned(st, f)[<<k, b>>]
  BY DEF Leaves
<1>1. PICK a, a3 : a = BagAt(st) /\ a3 = BagAt(st2)
  OBVIOUS
<1>2. L \in Nat /\ Grouped(a, f, nn) /\ L - 1 \in 1 .. L - 1 /\ \A k \in 1 .. L - 1 : k \in 1 .. L /\ k # L
  BY <1>1
<1>3. DOMAIN a = (1 .. L) \X Bags
  BY <1>1, BagAtFields
<1>4. /\ Grouped(a3, f2, nn)
      /\ \A n \in 1 .. nn, k \in 1 .. L - 1, b \in Bags :
           Held(a3, f2, n, <<k, b>>) <=>
             \/ Held(a, f, n, <<k, b>>)
             \/ k = L - 1 /\ b = "p_bag" /\ Held(a, f, n, <<L, "p_bag">>)
             \/ k = L - 1 /\ b = b0 /\ Held(a, f, n, <<L, "ss_bag">>)
      /\ \A n \in 1 .. nn :
           \/ f2.type[n] = f.type[n]
           \/ \E b \in Bags : Held(a, f, n, <<L, b>>)
           \/ \E b \in {"p_bag", b0} : Held(a, f, n, <<L - 1, b>>)
      /\ \A k \in 1 .. L - 1, b \in Bags :
           <<k, b>> \notin {<<L - 1, "p_bag">>, <<L - 1, b0>>} /\ a[<<k, b>>] # NULL =>
             /\ f2.root[a[<<k, b>>]] = f.root[a[<<k, b>>]]
             /\ SetType(a3, f2, <<k, b>>) = SetType(a, f, <<k, b>>)
  <2>1. Left(st, L, f, nn, b0, f2, st2)
    BY LeaveStack
  <2>2. QED
    BY <1>1, <2>1, ZenonT(30) DEF Left
<1>5. Merges(a, f, nn, <<L - 1, "p_bag">>, <<L, "p_bag">>, Returned(st, f), f1)
  BY <1>0, <1>1, ReturnedMerges
<1>6. ASSUME NEW n \in 1 .. nn, NEW k \in 1 .. L, NEW b \in Bags, Held(a, f, n, <<k, b>>),
             NEW j \in 1 .. L, NEW c \in Bags, Held(a, f, n, <<j, c>>)
      PROVE  j = k /\ b = c
  <2>1. <<k, b>> \in DOMAIN a /\ <<j, c>> \in DOMAIN a
    BY <1>3
  <2>2. <<k, b>> = <<j, c>>
    BY <1>2, <1>6, <2>1 DEF Grouped
  <2>3. QED
    BY <2>2
<1>7. \A n \in 1 .. nn, k \in 1 .. L : Held(a, f, n, <<k, "ss_bag">>) => f.type[n] = "SS"
  BY <1>1 DEF BagsTyped
<1>8. ASSUME NEW n \in 1 .. nn, NEW k \in 1 .. L - 1, Held(a3, f2, n, <<k, "ss_bag">>)
      PROVE  f2.type[n] = "SS"
  <2>1. L \in 1 .. L /\ L - 1 \in 1 .. L /\ "ss_bag" \in Bags /\ "p_bag" \in Bags
    BY <1>2 DEF Bags
  <2>2. CASE k = L - 1 /\ b0 = "ss_bag"
    <3>1. Held(a, f, n, <<L - 1, "ss_bag">>) \/ Held(a, f, n, <<L, "ss_bag">>)
      BY <1>4, <1>8, <2>1, <2>2
    <3>2. ASSUME NEW j \in 1 .. L, Held(a, f, n, <<j, "p_bag">>) PROVE FALSE
      <4>1. PICK i \in 1 .. L : Held(a, f, n, <<i, "ss_bag">>)
        BY <2>1, <3>1
      <4>2. <<i, "ss_bag">> \in DOMAIN a /\ <<j, "p_bag">> \in DOMAIN a
        BY <1>3, <2>1
      <4>3. <<i, "ss_bag">> = <<j, "p_bag">>
        BY <1>2, <3>2, <4>1, <4>2 DEF Grouped
      <4>4. QED
        BY <4>3
    <3>3. f1.type[n] = f.type[n]
      BY <1>5, <2>1, <3>2 DEF Merges
    <3>4. QED
      BY <1>0, <1>7, <2>1, <2>2, <3>1, <3>3
  <2>3. CASE ~ (k = L - 1 /\ b0 = "ss_bag")
    <3>1. Held(a, f, n, <<k, "ss_bag">>)
      BY <1>4, <1>8, <2>1, <2>3
    <3>2. ASSUME NEW b \in Bags, Held(a, f, n, <<L, b>>) PROVE FALSE
      <4>1. k \in 1 .. L /\ L # k
        BY <1>2
      <4>2. <<k, "ss_bag">> \in DOMAIN a /\ <<L, b>> \in DOMAIN a
        BY <1>3, <2>1, <4>1
      <4>3. <<k, "ss_bag">> = <<L, b>>
        BY <1>2, <3>1, <3>2, <4>2 DEF Grouped
      <4>4. QED
        BY <4>1, <4>3
    <3>3. ASSUME NEW b \in {"p_bag", b0}, Held(a, f, n, <<L - 1, b>>) PROVE FALSE
      <4>1. b \in Bags /\ k \in 1 .. L
        BY <1>2, <2>1
      <4>2. <<k, "ss_bag">> \in DOMAIN a /\ <<L - 1, b>> \in DOMAIN a
        BY <1>3, <2>1, <4>1
      <4>3. <<k, "ss_bag">> = <<L - 1, b>>
        BY <1>2, <3>1, <3>3, <4>2 DEF Grouped
      <4>4. QED
        BY <2>3, <3>3, <4>3
    <3>4. f2.type[n] = f.type[n]
      BY <1>4, <3>2, <3>3
    <3>5. QED
      BY <1>2, <1>7, <3>1, <3>4
  <2>4. QED
    BY <2>2, <2>3
<1>9. \A k \in 1 .. L - 1 : a[<<k, "sp_bag">>] = st[k].sp_bag /\ a3[<<k, "sp_bag">>] = st2[k].sp_bag
  BY <1>1, <1>2, BagAtFields, ZenonT(30)
<1>10. ASSUME NEW k \in 1 .. L - 1, st2[k].sp_bag # NULL, ~ (k = L - 1 /\ b0 = "sp_bag")
       PROVE  /\ st2[k].sp_bag = st[k].sp_bag
              /\ SetType(a3, f2, <<k, "sp_bag">>) = SetType(a, f, <<k, "sp_bag">>)
              /\ f2.root[st[k].sp_bag] = f.root[st[k].sp_bag]
  <2>1. <<k, "sp_bag">> \in DOMAIN a /\ "sp_bag" \in Bags
    BY <1>2, <1>3 DEF Bags
  <2>2. /\ <<k, "sp_bag">> # <<L - 1, b0>> /\ <<k, "sp_bag">> # <<L - 1, "p_bag">>
        /\ <<k, "sp_bag">> # <<L, "p_bag">>
    BY <1>10
  <2>3. a3[<<k, "sp_bag">>] = Returned(st, f)[<<k, "sp_bag">>]
    BY <1>1, <2>1, <2>2
  <2>4. Returned(st, f)[<<k, "sp_bag">>] = a[<<k, "sp_bag">>]
    BY <1>1, <2>1, <2>2 DEF Returned
  <2>5. a[<<k, "sp_bag">>] # NULL /\ st2[k].sp_bag = st[k].sp_bag
    BY <1>9, <1>10, <2>3, <2>4
  <2>6. f2.root[a[<<k, "sp_bag">>]] = f.root[a[<<k, "sp_bag">>]]
        /\ SetType(a3, f2, <<k, "sp_bag">>) = SetType(a, f, <<k, "sp_bag">>)
    BY <1>4, <2>1, <2>2, <2>5
  <2>7. QED
    BY <1>9, <2>5, <2>6
<1>11. ASSUME NEW k \in 1 .. L - 1, st2[k].sp_bag # NULL, SetType(a3, f2, <<k, "sp_bag">>) = "P"
       PROVE  f2.root[st2[k].sp_bag] = st2[k].sp_bag
  <2>1. CASE k = L - 1 /\ b0 = "sp_bag"
    <3>1. a3[<<k, "sp_bag">>] = bag
      BY <1>1, <2>1
    <3>2. st2[k].sp_bag = bag
      BY <1>9, <3>1
    <3>3. f2.type[f2.root[bag]] = "P"
      BY <1>11, <3>1 DEF SetType
    <3>4. QED
      BY <1>11, <2>1, <3>2, <3>3
  <2>2. CASE ~ (k = L - 1 /\ b0 = "sp_bag")
    <3>1. k \in 1 .. Len(st)
      BY <1>2
    <3>2. QED
      BY <1>1, <1>10, <1>11, <2>2, <3>1 DEF BagsTyped
  <2>3. QED
    BY <2>1, <2>2
<1>12. ASSUME NEW k \in 1 .. L - 1, st2[k].p_bag # NULL
       PROVE  f2.type[st2[k].p_bag] = "P"
  <2>1. PICK r, z, x, y, n : /\ r = Returned(st, f) /\ z = <<k, "p_bag">> /\ n = st2[k].p_bag
                             /\ x = <<L - 1, b0>> /\ y = <<L, "ss_bag">>
    OBVIOUS
  <2>2. k \in 1 .. L /\ k # L /\ L - 1 \in 1 .. L /\ L \in 1 .. L /\ {"p_bag", "ss_bag", b0} \subseteq Bags
    BY <1>2 DEF Bags
  <2>3. z \in DOMAIN a /\ z \in DOMAIN r /\ x \in DOMAIN r /\ y \in DOMAIN r /\ DOMAIN r = DOMAIN a
    BY <1>1, <1>3, <2>1, <2>2 DEF Returned
  <2>4. a3[z] = n /\ a[z] = st[k].p_bag
    BY <1>1, <1>2, <2>1, <2>2, BagAtFields
  <2>5. CASE z = x
    <3>1. n = bag /\ b0 = "p_bag"
      BY <1>1, <2>1, <2>2, <2>4, <2>5
    <3>2. QED
      BY <1>12, <2>1, <3>1
  <2>6. CASE z # x
    <3>1. r[z] = n /\ z # y
      BY <1>1, <2>1, <2>2, <2>4, <2>6
    <3>2. f1.type[n] = "P"
      <4>1. IsForest(f) /\ \A j \in 1 .. L : st[j].p_bag # NULL => f.type[st[j].p_bag] = "P"
        BY <1>2 DEF BagsTyped, Grouped
      <4>2. CASE k = L - 1
        <5>1. st[L - 1] \in Frame /\ st[L] \in Frame
          BY <2>2
        <5>2. {st[L - 1].p_bag, st[L].p_bag} \subseteq Nodes \cup {NULL}
          BY <5>1 DEF Frame
        <5>3. n = AbsorbedBag(f, st[L - 1].p_bag, st[L].p_bag)
          BY <1>1, <2>1, <2>3, <3>1, <4>2 DEF Returned
        <5>4. n # NULL /\ (st[L - 1].p_bag # NULL => f.type[st[L - 1].p_bag] = "P")
          BY <1>12, <2>1, <2>2, <4>1
        <5>5. PICK p, s : p = st[L - 1].p_bag /\ s = st[L].p_bag
          OBVIOUS
        <5>6. /\ IsForest(f) /\ p \in Nodes \cup {NULL} /\ s \in Nodes \cup {NULL}
              /\ (p # NULL => f.type[p] = "P") /\ AbsorbedBag(f, p, s) # NULL
          BY <4>1, <5>2, <5>3, <5>4, <5>5
        <5>7. Absorbed(f, p, s, "P").type[AbsorbedBag(f, p, s)] = "P"
          BY ONLY <5>6, AbsorbedHasType
        <5>8. QED
          BY <1>0, <5>3, <5>5, <5>7
      <4>3. CASE k # L - 1
        <5>1. z \notin {<<L - 1, "p_bag">>, <<L, "p_bag">>}
              /\ <<L - 1, "p_bag">> \in DOMAIN a /\ <<L, "p_bag">> \in DOMAIN a
          BY <1>3, <2>1, <2>2, <4>3
        <5>2. n = a[z] /\ n # NULL
          BY <1>1, <1>12, <2>1, <2>3, <3>1, <5>1 DEF Returned
        <5>3. PICK u, v, r1 : u = <<L - 1, "p_bag">> /\ v = <<L, "p_bag">> /\ r1 = Returned(st, f)
          OBVIOUS
        <5>4. /\ Grouped(a, f, nn) /\ u \in DOMAIN a /\ v \in DOMAIN a /\ Merges(a, f, nn, u, v, r1, f1)
              /\ z \in DOMAIN a /\ z \notin {u, v} /\ a[z] # NULL
          BY <1>2, <1>5, <2>3, <5>1, <5>2, <5>3
        <5>5. f1.type[a[z]] = f.type[a[z]]
          BY ONLY <5>4, OtherTypes
        <5>6. QED
          BY <2>2, <2>4, <4>1, <5>2, <5>5
      <4>4. QED
        BY <4>2, <4>3
    <3>3. Grouped(r, f1, nn) /\ Merges(r, f1, nn, x, y, a2, f2)
      BY <1>0, <1>5, <2>1 DEF Merges, Leaves
    <3>4. f2.type[r[z]] = f1.type[r[z]]
      BY <1>12, <2>1, <2>3, <2>6, <3>1, <3>3, OtherTypes
    <3>5. QED
      BY <2>1, <3>1, <3>2, <3>4
  <2>7. QED
    BY <2>5, <2>6
<1>13. BagsTyped(st2, f2, nn)
  <2>1. 1 .. Len(st2) = 1 .. L - 1 /\ BagAt(st2) = a3
    BY <1>1
  <2>2. \A n \in 1 .. nn, k \in 1 .. Len(st2) :
          Held(BagAt(st2), f2, n, <<k, "ss_bag">>) => f2.type[n] = "SS"
    BY <1>8, <2>1
  <2>3. \A k \in 1 .. Len(st2) :
          st2[k].sp_bag # NULL /\ SetType(BagAt(st2), f2, <<k, "sp_bag">>) = "P" =>
            f2.root[st2[k].sp_bag] = st2[k].sp_bag
    BY <1>11, <2>1
  <2>4. \A k \in 1 .. Len(st2) : st2[k].p_bag # NULL => f2.type[st2[k].p_bag] = "P"
    BY <1>12, <2>1
  <2>5. QED
    BY ONLY <2>2, <2>3, <2>4, Zenon DEF BagsTyped
<1>14. Bagged(st2, f2, nn)
  BY <1>1, <1>4, <1>13 DEF Bagged
<1>15. \A k \in 1 .. L - 1 : st2[k].sp_bag # NULL /\ (k = L - 1 => b0 # "sp_bag") =>
         SetType(BagAt(st2), f2, <<k, "sp_bag">>) = SetType(BagAt(st), f, <<k, "sp_bag">>)
  BY <1>1, <1>10
<1>16. \A n \in 1 .. nn, k \in 1 .. L - 1, b \in Bags :
         Held(BagAt(st2), f2, n, <<k, b>>) =>
           \/ Held(BagAt(st), f, n, <<k, b>>)
           \/ k = L - 1 /\ b = "p_bag" /\ Held(BagAt(st), f, n, <<L, "p_bag">>)
           \/ k = L - 1 /\ b = b0 /\ Held(BagAt(st), f, n, <<L, "ss_bag">>)
  BY <1>1, <1>4
<1>17. QED
  BY ONLY <1>14, <1>15, <1>16, ZenonT(30) DEF LeftBagged

-----------------------------------------------------------------------------
(***************************************************************************)
(* What the handlers do to frames and bags.                                *)
(***************************************************************************)
\* The forest after a handler that sets it.
LEMMA ForestSet ==
  ASSUME NEW f, IsForest(f), SetForest(f)
  PROVE  forest' = f
  BY DEF IsForest, SetForest, forest

\* The forest and its three variables.
LEMMA ForestIs ==
  ASSUME BagsInv
  PROVE  /\ IsForest(forest) /\ nnodes \in Nodes /\ nnodes \in Nat
         /\ forest.root = root /\ forest.rank = rank /\ forest.type = type
  BY NodesUpTo DEF BagsInv, Bagged, Grouped, forest

\* The top frame counts the children it has not synced.
LEMMA TopCounts ==
  ASSUME FramesTyped, SpawnsCounted
  PROVE  /\ bot.local_spawns = prog[Len(prog)].unsynced
         /\ bot.sp_bag # NULL => bot.local_spawns > 0
<1>1. PICK L : L = Len(stack)
  OBVIOUS
<1>2. L \in Nat /\ L \in Levels /\ ~ (L < L) /\ Len(prog) = L /\ prog[L].unsynced \in Nat
  BY <1>1, BotTyped DEF FramesTyped, Progress
<1>3. stack[L].local_spawns = prog[L].unsynced + 0
      /\ (stack[L].sp_bag # NULL => stack[L].local_spawns > 0)
  BY <1>1, <1>2 DEF SpawnsCounted
<1>4. QED
  BY <1>1, <1>2, <1>3 DEF bot

\* What a call does to frames, bags and points.
LEMMA CallStep ==
  ASSUME FramesInv, BagsInv, cilk_enter_begin
  PROVE  /\ FramesInv' /\ BagsInv'
         /\ Levels' = Levels \cup {Len(stack) + 1}
         /\ \A k \in Levels : stack'[k] = stack[k] /\ prog'[k] = prog[k]
         /\ stack'[Len(stack) + 1].func_type = "CILK"
         /\ stack'[Len(stack) + 1].ancestor_spawns = spawn_count /\ spawn_count' = spawn_count
         /\ prog'[Len(stack) + 1].entry = cur
         /\ \A n \in 1 .. nnodes, k \in Levels', b \in Bags : In(n, k, b)' => k \in Levels /\ In(n, k, b)
         /\ \A k \in Levels' : stack'[k].sp_bag # NULL => k \in Levels /\ (IsP(k)' <=> IsP(k))
<1>1. PICK L : L = Len(stack)
  OBVIOUS
<1>2. /\ L \in Nat /\ L \in Levels /\ Levels = 1 .. L /\ bot \in Frame /\ bot = stack[L]
      /\ stack \in Seq(Frame) /\ prog \in Seq(Progress) /\ Len(prog) = L
      /\ cur \in 1 .. nstrands /\ nstrands \in Nat /\ nstrands \in Strands /\ cur \in Strands
  BY <1>1, BotTyped DEF FramesInv, FramesTyped, bot, Levels
<1>3. Push(bot, "CILK") /\ nnodes \in Nodes
  BY ForestIs DEF cilk_enter_begin
<1>4. /\ stack' \in Seq(Frame) /\ Len(stack') = L + 1 /\ Len(stack') \in 1 .. MaxDepth
      /\ nnodes' = nnodes + 1 /\ nnodes + 1 \in Nodes
      /\ \A k \in Levels : stack'[k] = stack[k]
      /\ stack'[L + 1] = NewFrame("CILK", bot.ancestor_spawns + bot.local_spawns, nnodes + 1)
  BY <1>1, <1>2, <1>3, PushShape DEF FramesInv
<1>5. PICK p : p = [entry |-> cur, cont |-> cur, unsynced |-> 0]
  OBVIOUS
<1>6. p \in Progress /\ prog' = Append(prog, p) /\ cur' = cur /\ nstrands' = nstrands
      /\ p.unsynced = 0 /\ p.entry = cur /\ p.cont = cur
  BY <1>2, <1>5 DEF cilk_enter_begin, Called, Progress
<1>7. FramesTyped' /\ SpawnsCounted'
  <2>1. bot.sp_bag # NULL => bot.local_spawns > 0
    BY TopCounts DEF FramesInv
  <2>2. bot.local_spawns = bot.local_spawns + (IF "CILK" = "HELPER" THEN 1 ELSE 0)
    BY <1>2 DEF Frame
  <2>3. QED
    BY <1>2, <1>3, <1>6, <2>1, <2>2, PushFrames, SMTT(30) DEF FramesInv
<1>8. Phases'
  BY DEF cilk_enter_begin, Phases
<1>9. /\ stack'[L + 1].ss_bag = nnodes + 1 /\ stack'[L + 1].sp_bag = NULL
      /\ stack'[L + 1].p_bag = NULL /\ stack'[L + 1].func_type = "CILK"
      /\ stack'[L + 1].ancestor_spawns = spawn_count /\ stack'[L + 1].local_spawns = 0
  BY <1>4 DEF NewFrame, spawn_count
<1>10. forest' = forest
  BY DEF cilk_enter_begin, forestVars, forest
<1>11. /\ Bagged(stack', forest, nnodes + 1)
       /\ \A n \in 1 .. nnodes, k \in 1 .. L + 1, b \in Bags :
            Held(BagAt(stack'), forest, n, <<k, b>>) =>
              k \in 1 .. L /\ Held(BagAt(stack), forest, n, <<k, b>>)
       /\ \A j \in 1 .. L : SetType(BagAt(stack'), forest, <<j, "sp_bag">>)
                            = SetType(BagAt(stack), forest, <<j, "sp_bag">>)
  <2>1. PICK st, nn : st = stack' /\ nn = nnodes
    OBVIOUS
  <2>2. /\ st \in Seq(Frame) /\ Len(st) = Len(stack) + 1 /\ nn + 1 \in Nodes
        /\ \A j \in 1 .. Len(stack) : st[j] = stack[j]
        /\ st[Len(stack) + 1].ss_bag = nn + 1 /\ st[Len(stack) + 1].sp_bag = NULL
        /\ st[Len(stack) + 1].p_bag = NULL
    BY <1>1, <1>2, <1>4, <1>9, <2>1
  <2>3. Bagged(stack, forest, nn)
    BY <2>1 DEF BagsInv
  <2>4. Pushed(stack, forest, nn, st)
    BY <1>2, <2>2, <2>3, PushBagged
  <2>5. QED
    BY <1>1, <2>1, <2>4 DEF Pushed
<1>12. BagsInv'
  BY <1>4, <1>10, <1>11 DEF BagsInv
<1>13. Levels' = 1 .. L + 1 /\ Levels' = Levels \cup {L + 1}
  BY <1>2, <1>4 DEF Levels
<1>14. spawn_count' = spawn_count
  <2>1. spawn_count' = stack'[L + 1].ancestor_spawns + stack'[L + 1].local_spawns
    BY <1>4 DEF spawn_count, bot
  <2>2. QED
    BY <1>9, <2>1, BotTyped DEF FramesInv
<1>15. \A k \in Levels' : stack'[k].sp_bag # NULL => k \in Levels
  BY <1>9, <1>13
<1>16. \A k \in Levels : IsP(k)' <=> IsP(k)
  BY <1>2, <1>10, <1>11 DEF IsP
<1>17. \A n \in 1 .. nnodes, k \in Levels', b \in Bags : In(n, k, b)' => k \in Levels /\ In(n, k, b)
  BY <1>2, <1>10, <1>11, <1>13 DEF In
<1>18. (\A k \in Levels : prog'[k] = prog[k]) /\ prog'[L + 1].entry = cur
  BY <1>2, <1>6
<1>19. QED
  BY <1>1, <1>4, <1>7, <1>8, <1>9, <1>12, <1>13, <1>14, <1>15, <1>16, <1>17, <1>18 DEF FramesInv

\* The top frame is flushed.
LEMMA TopFlushed ==
  ASSUME FramesTyped, BagsInv, NEW fr \in Frame,
         fr.ss_bag = bot.ss_bag, fr.sp_bag = bot.sp_bag, fr.p_bag = bot.p_bag,
         NEW st, st = Replaced(Flushed(fr)), NEW f, f = FlushedForest(bot)
  PROVE  /\ MayAbsorb(forest, bot.p_bag, bot.sp_bag) /\ IsForest(f)
         /\ st \in Seq(Frame) /\ Len(st) = Len(stack) /\ Bagged(st, f, nnodes)
         /\ \A k \in Levels : st[k] = IF k = Len(stack) THEN Flushed(fr) ELSE stack[k]
         /\ \A n \in 1 .. nnodes, k \in Levels, b \in Bags :
              Held(BagAt(st), f, n, <<k, b>>) =>
                IF k = Len(stack) /\ b = "p_bag" THEN In(n, k, "p_bag") \/ In(n, k, "sp_bag")
                ELSE In(n, k, b)
         /\ \A k \in Levels : st[k].sp_bag # NULL =>
              k # Len(stack) /\ (SetType(BagAt(st), f, <<k, "sp_bag">>) = "P" <=> IsP(k))
<1>1. PICK L, g : L = Len(stack) /\ g = Flushed(fr)
  OBVIOUS
<1>2. /\ L \in Nat /\ L \in 1 .. Len(stack) /\ Levels = 1 .. Len(stack) /\ bot = stack[L]
      /\ stack \in Seq(Frame)
  BY <1>1, BotTyped DEF FramesTyped, bot, Levels
<1>3. g \in Frame /\ g.p_bag = AbsorbedBag(forest, stack[L].p_bag, stack[L].sp_bag)
      /\ g.sp_bag = NULL /\ g.ss_bag = stack[L].ss_bag
  BY <1>1, <1>2, ForestIs, FlushedTyped
<1>4. st \in Seq(Frame) /\ Len(st) = Len(stack)
      /\ \A k \in 1 .. Len(stack) : st[k] = IF k = L THEN g ELSE stack[k]
  BY <1>1, <1>2, <1>3 DEF Replaced
<1>5. f = Absorbed(forest, stack[L].p_bag, stack[L].sp_bag, "P")
  BY <1>2 DEF FlushedForest
<1>6. /\ (\A j \in 1 .. Len(stack) : j # L => st[j] = stack[j])
      /\ st[L].ss_bag = stack[L].ss_bag /\ st[L].sp_bag = NULL
      /\ st[L].p_bag = AbsorbedBag(forest, stack[L].p_bag, stack[L].sp_bag)
  BY <1>2, <1>3, <1>4
<1>7. Bagged(stack, forest, nnodes)
  BY DEF BagsInv
<1>8. /\ MayAbsorb(forest, stack[L].p_bag, stack[L].sp_bag)
      /\ Bagged(st, f, nnodes)
      /\ \A n \in 1 .. nnodes, j \in 1 .. Len(stack), b \in Bags :
           Held(BagAt(st), f, n, <<j, b>>) =>
             IF j = L /\ b = "p_bag"
             THEN Held(BagAt(stack), forest, n, <<L, "p_bag">>) \/ Held(BagAt(stack), forest, n, <<L, "sp_bag">>)
             ELSE Held(BagAt(stack), forest, n, <<j, b>>)
      /\ \A j \in 1 .. Len(stack) : st[j].sp_bag # NULL =>
           SetType(BagAt(st), f, <<j, "sp_bag">>) = SetType(BagAt(stack), forest, <<j, "sp_bag">>)
  <2>1. Flushes(stack, forest, nnodes, L, st, f)
    BY <1>2, <1>4, <1>5, <1>6, <1>7 DEF Flushes
  <2>2. FlushedTo(stack, forest, nnodes, L, st, f)
    BY <2>1, FlushBagged
  <2>3. QED
    BY <2>2 DEF FlushedTo
<1>9. IsForest(f)
  BY <1>8 DEF Bagged, Grouped
<1>10. \A k \in Levels : st[k].sp_bag # NULL =>
         k # L /\ (SetType(BagAt(st), f, <<k, "sp_bag">>) = "P" <=> IsP(k))
  BY <1>2, <1>6, <1>8 DEF IsP
<1>11. QED
  BY <1>1, <1>2, <1>4, <1>8, <1>9, <1>10 DEF In

\* How the nodes move when the top frame is flushed.
Flushing ==
  /\ \A n \in 1 .. nnodes, k \in Levels', b \in Bags : In(n, k, b)' =>
       /\ k \in Levels
       /\ IF k = Len(stack) /\ b = "p_bag" THEN In(n, k, "p_bag") \/ In(n, k, "sp_bag") ELSE In(n, k, b)
  /\ \A k \in Levels' : stack'[k].sp_bag # NULL => k \in Levels /\ (IsP(k)' <=> IsP(k))

\* What a spawn does to them.
LEMMA SpawnStep ==
  ASSUME FramesInv, BagsInv, cilk_enter_helper_begin, outcome = "running"
  PROVE  /\ FramesInv' /\ BagsInv' /\ outcome' = "running" /\ Flushing
         /\ Levels' = Levels \cup {Len(stack) + 1}
         /\ \A k \in Levels : /\ stack'[k].func_type = stack[k].func_type
                              /\ stack'[k].ancestor_spawns = stack[k].ancestor_spawns
                              /\ prog'[k] = prog[k]
         /\ stack'[Len(stack) + 1].func_type = "HELPER"
         /\ stack'[Len(stack) + 1].ancestor_spawns = spawn_count + 1 /\ spawn_count' = spawn_count + 1
         /\ prog'[Len(stack) + 1].entry = nstrands + 1 /\ prog'[Len(stack) + 1].cont = nstrands + 2
<1>1. PICK L, fr, g, f, st : /\ L = Len(stack) /\ fr = Counted(bot) /\ g = Flushed(fr)
                             /\ f = FlushedForest(bot) /\ st = Replaced(g)
  OBVIOUS
<1>2. /\ L \in Nat /\ L \in Levels /\ Levels = 1 .. L /\ bot \in Frame /\ bot = stack[L]
      /\ stack \in Seq(Frame) /\ prog \in Seq(Progress) /\ Len(prog) = L
      /\ cur \in 1 .. nstrands /\ nstrands \in Nat /\ nstrands \in Strands /\ cur \in Strands
      /\ spawn_count \in Nat /\ spawn_count = bot.ancestor_spawns + bot.local_spawns
      /\ bot.ancestor_spawns \in Nat /\ bot.local_spawns \in Nat
  BY <1>1, BotTyped DEF FramesInv, FramesTyped, bot, Levels, spawn_count, Frame
<1>3. /\ fr \in Frame /\ fr.ss_bag = bot.ss_bag /\ fr.sp_bag = bot.sp_bag /\ fr.p_bag = bot.p_bag
      /\ fr.func_type = bot.func_type /\ fr.ancestor_spawns = bot.ancestor_spawns
      /\ fr.local_spawns = bot.local_spawns + 1
  BY <1>1, <1>2, SMTT(30) DEF Counted, Frame
<1>4. /\ g \in Frame /\ g.sp_bag = NULL /\ g.func_type = bot.func_type
      /\ g.ancestor_spawns = bot.ancestor_spawns /\ g.local_spawns = bot.local_spawns + 1
  BY <1>1, <1>3, ForestIs, FlushedTyped
<1>5. Push(g, "HELPER") /\ nnodes \in Nodes /\ SetForest(f)
  BY <1>1, ForestIs DEF cilk_enter_helper_begin
<1>6. /\ stack' \in Seq(Frame) /\ Len(stack') = L + 1 /\ Len(stack') \in 1 .. MaxDepth
      /\ nnodes' = nnodes + 1 /\ nnodes + 1 \in Nodes
      /\ \A k \in Levels : stack'[k] = IF k = L THEN g ELSE stack[k]
      /\ stack'[L + 1] = NewFrame("HELPER", g.ancestor_spawns + g.local_spawns, nnodes + 1)
  BY <1>1, <1>4, <1>5, PushShape DEF FramesInv
<1>7. PICK p : p = [entry |-> nstrands + 1, cont |-> nstrands + 2, unsynced |-> 0]
  OBVIOUS
<1>8. /\ nstrands' = nstrands + 2 /\ nstrands' \in Strands /\ nstrands + 1 \in 1 .. nstrands'
      /\ nstrands + 2 \in 1 .. nstrands' /\ prog' = Append(prog, p) /\ cur' = nstrands + 1
      /\ p \in Progress /\ p.unsynced = 0 /\ p.entry = nstrands + 1 /\ p.cont = nstrands + 2
  <2>1. MaxStrands \in Nat /\ nstrands + 2 <= MaxStrands
    BY BoundsAssumption DEF cilk_enter_helper_begin, Spawned
  <2>2. nstrands + 1 \in Strands /\ nstrands + 2 \in Strands
    BY <1>2, <2>1 DEF Strands
  <2>3. nstrands' = nstrands + 2 /\ prog' = Append(prog, p) /\ cur' = nstrands + 1
    BY <1>7 DEF cilk_enter_helper_begin, Spawned
  <2>4. p \in Progress /\ p.unsynced = 0 /\ p.entry = nstrands + 1 /\ p.cont = nstrands + 2
    BY <1>7, <2>2 DEF Progress
  <2>5. QED
    BY <1>2, <2>2, <2>3, <2>4
<1>9. FramesTyped' /\ SpawnsCounted'
  <2>1. g.local_spawns = bot.local_spawns + (IF "HELPER" = "HELPER" THEN 1 ELSE 0)
    BY <1>4
  <2>2. nstrands <= nstrands'
    BY <1>2, <1>8
  <2>3. QED
    BY <1>4, <1>5, <1>8, <2>1, <2>2, PushFrames DEF FramesInv
<1>10. Phases'
  <2>1. ~ in_user_code
    BY DEF FramesInv, Phases, cilk_enter_helper_begin
  <2>2. pc' = "entering" /\ in_user_code' = in_user_code
    BY DEF cilk_enter_helper_begin
  <2>3. in_user_code' = FALSE
    BY <2>1, <2>2 DEF FramesInv, Phases
  <2>4. QED
    BY <2>2, <2>3 DEF Phases
<1>11. /\ MayAbsorb(forest, bot.p_bag, bot.sp_bag) /\ IsForest(f)
       /\ st \in Seq(Frame) /\ Len(st) = L /\ Bagged(st, f, nnodes)
       /\ \A k \in Levels : st[k] = IF k = L THEN g ELSE stack[k]
       /\ \A n \in 1 .. nnodes, k \in Levels, b \in Bags :
            Held(BagAt(st), f, n, <<k, b>>) =>
              IF k = L /\ b = "p_bag" THEN In(n, k, "p_bag") \/ In(n, k, "sp_bag") ELSE In(n, k, b)
       /\ \A k \in Levels : st[k].sp_bag # NULL =>
            k # L /\ (SetType(BagAt(st), f, <<k, "sp_bag">>) = "P" <=> IsP(k))
  BY <1>1, <1>3, TopFlushed DEF FramesInv
<1>12. forest' = f
  BY <1>5, <1>11, ForestSet
<1>13. outcome' = "running"
  BY <1>11 DEF cilk_enter_helper_begin, Asserting
<1>14. /\ stack'[L + 1].ss_bag = nnodes + 1 /\ stack'[L + 1].sp_bag = NULL
       /\ stack'[L + 1].p_bag = NULL /\ stack'[L + 1].func_type = "HELPER"
       /\ stack'[L + 1].ancestor_spawns = spawn_count + 1 /\ stack'[L + 1].local_spawns = 0
  <2>1. g.ancestor_spawns + g.local_spawns = spawn_count + 1
    BY <1>2, <1>4, SMTT(30)
  <2>2. QED
    BY <1>6, <2>1 DEF NewFrame
<1>15. /\ Bagged(stack', f, nnodes + 1)
       /\ \A n \in 1 .. nnodes, k \in 1 .. L + 1, b \in Bags :
            Held(BagAt(stack'), f, n, <<k, b>>) => k \in 1 .. L /\ Held(BagAt(st), f, n, <<k, b>>)
       /\ \A j \in 1 .. L : SetType(BagAt(stack'), f, <<j, "sp_bag">>)
                            = SetType(BagAt(st), f, <<j, "sp_bag">>)
  <2>1. PICK st2, nn : st2 = stack' /\ nn = nnodes
    OBVIOUS
  <2>2. /\ st2 \in Seq(Frame) /\ Len(st2) = Len(st) + 1 /\ nn + 1 \in Nodes
        /\ \A j \in 1 .. Len(st) : st2[j] = st[j]
        /\ st2[Len(st) + 1].ss_bag = nn + 1 /\ st2[Len(st) + 1].sp_bag = NULL
        /\ st2[Len(st) + 1].p_bag = NULL
    BY <1>2, <1>6, <1>11, <1>14, <2>1
  <2>3. Bagged(st, f, nn) /\ st \in Seq(Frame)
    BY <1>11, <2>1
  <2>4. Pushed(st, f, nn, st2)
    BY <2>2, <2>3, PushBagged
  <2>5. QED
    BY <1>11, <2>1, <2>4 DEF Pushed
<1>16. BagsInv'
  BY <1>6, <1>12, <1>15 DEF BagsInv
<1>17. Levels' = 1 .. L + 1 /\ Levels' = Levels \cup {L + 1}
  BY <1>2, <1>6 DEF Levels
<1>18. spawn_count' = spawn_count + 1
  <2>1. spawn_count' = stack'[L + 1].ancestor_spawns + stack'[L + 1].local_spawns
    BY <1>6 DEF spawn_count, bot
  <2>2. QED
    BY <1>2, <1>14, <2>1
<1>19. Flushing
  <2>1. ASSUME NEW n \in 1 .. nnodes, NEW k \in Levels', NEW b \in Bags, In(n, k, b)'
        PROVE  /\ k \in Levels
               /\ IF k = L /\ b = "p_bag" THEN In(n, k, "p_bag") \/ In(n, k, "sp_bag") ELSE In(n, k, b)
    <3>1. Held(BagAt(stack'), f, n, <<k, b>>)
      BY <1>12, <2>1 DEF In
    <3>2. QED
      BY <1>2, <1>11, <1>15, <1>17, <3>1
  <2>2. ASSUME NEW k \in Levels', stack'[k].sp_bag # NULL PROVE k \in Levels /\ (IsP(k)' <=> IsP(k))
    <3>1. k \in Levels /\ st[k].sp_bag # NULL
      BY <1>6, <1>11, <1>14, <1>17, <2>2
    <3>2. IsP(k)' <=> SetType(BagAt(st), f, <<k, "sp_bag">>) = "P"
      BY <1>2, <1>12, <1>15, <3>1 DEF IsP
    <3>3. QED
      BY <1>11, <3>1, <3>2
  <2>3. QED
    BY <1>1, <2>1, <2>2 DEF Flushing
<1>20. \A k \in Levels : /\ stack'[k].func_type = stack[k].func_type
                         /\ stack'[k].ancestor_spawns = stack[k].ancestor_spawns
                         /\ prog'[k] = prog[k]
  <2>1. \A k \in Levels : prog'[k] = prog[k]
    BY <1>2, <1>8
  <2>2. ASSUME NEW k \in Levels
        PROVE  /\ stack'[k].func_type = stack[k].func_type
               /\ stack'[k].ancestor_spawns = stack[k].ancestor_spawns
    <3>1. CASE k = L
      BY <1>2, <1>4, <1>6, <3>1
    <3>2. CASE k # L
      BY <1>6, <3>2
    <3>3. QED
      BY <3>1, <3>2
  <2>3. QED
    BY <2>1, <2>2
<1>21. prog'[L + 1] = p
  BY <1>2, <1>8
<1>22. QED
  BY <1>1, <1>8, <1>9, <1>10, <1>13, <1>14, <1>16, <1>17, <1>18, <1>19, <1>20, <1>21 DEF FramesInv

\* What a sync does to them.
LEMMA SyncStep ==
  ASSUME FramesInv, BagsInv, cilk_sync_end, outcome = "running"
  PROVE  /\ FramesInv' /\ BagsInv' /\ outcome' = "running" /\ Flushing /\ Levels' = Levels
         /\ \A k \in Levels : /\ stack'[k].func_type = stack[k].func_type
                              /\ stack'[k].ancestor_spawns = stack[k].ancestor_spawns
                              /\ prog'[k].entry = prog[k].entry /\ prog'[k].cont = prog[k].cont
         /\ spawn_count' = bot.ancestor_spawns
         /\ prog[Len(prog)].unsynced = 0 => spawn_count' = spawn_count
<1>1. PICK L, fr, g, f : /\ L = Len(stack) /\ fr = ResetSpawns(bot) /\ g = Flushed(fr)
                         /\ f = FlushedForest(bot)
  OBVIOUS
<1>2. /\ L \in Nat /\ L \in Levels /\ Levels = 1 .. L /\ bot \in Frame /\ bot = stack[L]
      /\ stack \in Seq(Frame) /\ prog \in Seq(Progress) /\ Len(prog) = L
      /\ cur \in 1 .. nstrands /\ nstrands \in Nat /\ nstrands \in Strands
      /\ \A k \in Levels : stack[k] \in Frame /\ prog[k] \in Progress
      /\ spawn_count = bot.ancestor_spawns + bot.local_spawns /\ bot.ancestor_spawns \in Nat
  BY <1>1, BotTyped DEF FramesInv, FramesTyped, bot, Levels, spawn_count, Frame
<1>3. /\ fr \in Frame /\ fr.ss_bag = bot.ss_bag /\ fr.sp_bag = bot.sp_bag /\ fr.p_bag = bot.p_bag
      /\ fr.func_type = bot.func_type /\ fr.ancestor_spawns = bot.ancestor_spawns /\ fr.local_spawns = 0
  BY <1>1, <1>2 DEF ResetSpawns, Frame
<1>4. /\ g \in Frame /\ g.sp_bag = NULL /\ g.func_type = bot.func_type
      /\ g.ancestor_spawns = bot.ancestor_spawns /\ g.local_spawns = 0
  BY <1>1, <1>3, ForestIs, FlushedTyped
<1>5. stack' = Replaced(g) /\ SetForest(f) /\ nnodes' = nnodes
  BY <1>1 DEF cilk_sync_end
<1>6. /\ MayAbsorb(forest, bot.p_bag, bot.sp_bag) /\ IsForest(f)
      /\ stack' \in Seq(Frame) /\ Len(stack') = L /\ Bagged(stack', f, nnodes)
      /\ \A k \in Levels : stack'[k] = IF k = L THEN g ELSE stack[k]
      /\ \A n \in 1 .. nnodes, k \in Levels, b \in Bags :
           Held(BagAt(stack'), f, n, <<k, b>>) =>
             IF k = L /\ b = "p_bag" THEN In(n, k, "p_bag") \/ In(n, k, "sp_bag") ELSE In(n, k, b)
      /\ \A k \in Levels : stack'[k].sp_bag # NULL =>
           k # L /\ (SetType(BagAt(stack'), f, <<k, "sp_bag">>) = "P" <=> IsP(k))
  <2>1. PICK st : st = stack'
    OBVIOUS
  <2>2. st = Replaced(Flushed(fr))
    BY <1>1, <1>5, <2>1
  <2>3. QED
    BY <1>1, <1>3, <2>1, <2>2, TopFlushed DEF FramesInv
<1>7. forest' = f
  BY <1>5, <1>6, ForestSet
<1>8. BagsInv'
  BY <1>5, <1>6, <1>7 DEF BagsInv
<1>9. Levels' = Levels
  BY <1>2, <1>6 DEF Levels
<1>10. Flushing
  <2>1. ASSUME NEW n \in 1 .. nnodes, NEW k \in Levels', NEW b \in Bags, In(n, k, b)'
        PROVE  /\ k \in Levels
               /\ IF k = L /\ b = "p_bag" THEN In(n, k, "p_bag") \/ In(n, k, "sp_bag") ELSE In(n, k, b)
    BY <1>6, <1>7, <1>9, <2>1 DEF In
  <2>2. \A k \in Levels' : stack'[k].sp_bag # NULL => k \in Levels /\ (IsP(k)' <=> IsP(k))
    BY <1>6, <1>7, <1>9 DEF IsP
  <2>3. QED
    BY <1>1, <2>1, <2>2 DEF Flushing
<1>11. in_user_code = FALSE
  BY DEF FramesInv, Phases, cilk_sync_end
<1>12. outcome' = "running"
  BY <1>6, <1>11 DEF cilk_sync_end, Asserting
<1>13. Phases'
  BY DEF cilk_sync_end, Phases
<1>14. /\ prog' \in Seq(Progress) /\ Len(prog') = L /\ prog'[L].unsynced = 0
       /\ \A k \in Levels : prog'[k].entry = prog[k].entry /\ prog'[k].cont = prog[k].cont
       /\ \A k \in Levels : k # L => prog'[k].unsynced = prog[k].unsynced
       /\ nstrands' \in Strands /\ nstrands <= nstrands' /\ cur' \in 1 .. nstrands'
  <2>1. CASE prog[L].unsynced = 0
    BY <1>1, <1>2, <2>1 DEF cilk_sync_end, Synced
  <2>2. CASE prog[L].unsynced # 0
    <3>1. PICK p, q : p = [prog[L] EXCEPT !.unsynced = 0] /\ q = [prog EXCEPT ![L] = p]
      OBVIOUS
    <3>2. p \in Progress /\ p.unsynced = 0 /\ p.entry = prog[L].entry /\ p.cont = prog[L].cont
      BY <1>2, <3>1 DEF Progress
    <3>3. prog' = q /\ nstrands' = nstrands + 1 /\ cur' = nstrands + 1 /\ nstrands < MaxStrands
      BY <1>2, <2>2, <3>1 DEF cilk_sync_end, Synced
    <3>4. q \in Seq(Progress) /\ Len(q) = L /\ q[L] = p /\ \A k \in Levels : k # L => q[k] = prog[k]
      BY <1>2, <3>1, <3>2
    <3>5. nstrands + 1 \in Strands
      BY <1>2, <3>3, BoundsAssumption DEF Strands
    <3>6. nstrands <= nstrands + 1 /\ nstrands + 1 \in 1 .. nstrands + 1
      BY <1>2
    <3>7. QED
      BY <1>2, <3>2, <3>3, <3>4, <3>5, <3>6
  <2>3. QED
    BY <2>1, <2>2
<1>15. \A k \in Levels : /\ stack'[k].func_type = stack[k].func_type
                         /\ stack'[k].ancestor_spawns = stack[k].ancestor_spawns
  <2>1. ASSUME NEW k \in Levels
        PROVE  /\ stack'[k].func_type = stack[k].func_type
               /\ stack'[k].ancestor_spawns = stack[k].ancestor_spawns
    <3>1. CASE k = L
      BY <1>2, <1>4, <1>6, <3>1
    <3>2. CASE k # L
      BY <1>6, <3>2
    <3>3. QED
      BY <3>1, <3>2
  <2>2. QED
    BY <2>1
<1>16. FramesTyped'
  <2>1. \A k \in Levels : stack'[k].func_type = "MAIN" <=> k = 1
    <3>1. \A k \in Levels : stack[k].func_type = "MAIN" <=> k = 1
      BY DEF FramesInv, FramesTyped
    <3>2. QED
      BY <1>15, <3>1
  <2>2. \A k \in Levels : prog'[k].entry \in 1 .. nstrands' /\ prog'[k].cont \in 1 .. nstrands'
    <3>1. nstrands' \in Nat /\ 1 .. nstrands \subseteq 1 .. nstrands'
      BY <1>2, <1>14, BoundsAssumption DEF Strands
    <3>2. QED
      BY <1>14, <3>1 DEF FramesInv, FramesTyped
  <2>3. Len(stack') \in 1 .. MaxDepth
    BY <1>1, <1>6 DEF FramesInv, FramesTyped
  <2>4. QED
    BY <1>6, <1>9, <1>14, <2>1, <2>2, <2>3 DEF FramesTyped
<1>17. SpawnsCounted'
  <2>1. ASSUME NEW k \in Levels
        PROVE  /\ stack'[k].local_spawns = prog'[k].unsynced
                    + (IF k < L /\ stack'[k + 1].func_type = "HELPER" THEN 1 ELSE 0)
               /\ stack'[k].sp_bag # NULL => stack'[k].local_spawns > 0
               /\ k < L =>
                    /\ stack'[k + 1].ancestor_spawns = stack'[k].ancestor_spawns + stack'[k].local_spawns
                    /\ stack'[k + 1].func_type = "HELPER" => stack'[k].sp_bag = NULL
    <3>1. CASE k = L
      BY <1>2, <1>4, <1>6, <1>14, <3>1
    <3>2. CASE k # L
      <4>1. k < L /\ k + 1 \in Levels
        BY <1>2, <3>2
      <4>2. stack'[k] = stack[k] /\ prog'[k].unsynced = prog[k].unsynced
        BY <1>6, <1>14, <3>2
      <4>3. stack'[k + 1].func_type = stack[k + 1].func_type
            /\ stack'[k + 1].ancestor_spawns = stack[k + 1].ancestor_spawns
        BY <1>15, <4>1
      <4>4. QED
        BY <1>1, <4>1, <4>2, <4>3 DEF FramesInv, SpawnsCounted, IsHelper
    <3>3. QED
      BY <3>1, <3>2
  <2>2. \A j, k \in Levels : j <= k => stack'[j].ancestor_spawns <= stack'[k].ancestor_spawns
    BY <1>15 DEF FramesInv, SpawnsCounted
  <2>3. QED
    BY <1>6, <1>9, <2>1, <2>2 DEF SpawnsCounted, IsHelper
<1>18. spawn_count' = bot.ancestor_spawns
  <2>1. spawn_count' = stack'[L].ancestor_spawns + stack'[L].local_spawns
    BY <1>6 DEF spawn_count, bot
  <2>2. QED
    BY <1>2, <1>4, <1>6, <2>1
<1>19. prog[Len(prog)].unsynced = 0 => spawn_count' = spawn_count
  BY <1>2, <1>18, TopCounts DEF FramesInv
<1>20. QED
  BY <1>8, <1>9, <1>10, <1>12, <1>13, <1>14, <1>15, <1>16, <1>17, <1>18, <1>19 DEF FramesInv

\* What is known of a frame that returns.
LeaveKnown(t, L, f, a) ==
  /\ L \in Nat /\ L >= 2 /\ L \in Levels /\ L - 1 \in Levels /\ Levels = 1 .. L
  /\ bot = stack[L] /\ above = stack[L - 1] /\ bot \in Frame /\ above \in Frame
  /\ bot.sp_bag = NULL /\ bot.local_spawns = 0 /\ LeaveAsserts
  /\ Merges(BagAt(stack), forest, nnodes, <<L - 1, "p_bag">>, <<L, "p_bag">>, a, f)
  /\ Grouped(a, f, nnodes) /\ IsForest(f) /\ DOMAIN a = (1 .. L) \X Bags
  /\ a[<<L - 1, "ss_bag">>] = above.ss_bag /\ a[<<L - 1, "sp_bag">>] = above.sp_bag
  /\ a[<<L - 1, "p_bag">>] = ReturnedPBag /\ a[<<L, "ss_bag">>] = bot.ss_bag
  /\ ReturnedPBag \in Nodes \cup {NULL}
  /\ f.type[f.root[bot.ss_bag]] = "SS" /\ f.type[above.ss_bag] = "SS"
  /\ above.sp_bag # NULL /\ f.type[f.root[above.sp_bag]] = "P" =>
       f.root[above.sp_bag] = above.sp_bag
  /\ t = "HELPER" => above.sp_bag = NULL /\ above.local_spawns # 0
  /\ IsHelper(L) <=> t = "HELPER"

\* What is known of the two top frames when a function returns.
LEMMA LeaveFacts ==
  ASSUME FramesInv, BagsInv, NEW t \in {"CILK", "HELPER"}, Leaving(t),
         NEW L, L = Len(stack), NEW f, f = ReturnedForest, NEW a, a = Returned(stack, forest)
  PROVE  LeaveKnown(t, L, f, a)
<1>1. /\ L \in Nat /\ L \in Levels /\ Levels = 1 .. L /\ bot = stack[L] /\ above = stack[L - 1]
      /\ bot \in Frame /\ stack \in Seq(Frame) /\ bot.func_type = t
      /\ \A k \in Levels : stack[k] \in Frame /\ prog[k] \in Progress
  BY BotTyped DEF FramesInv, FramesTyped, bot, above, Levels, Leaving
<1>2. L >= 2 /\ L - 1 \in Levels /\ above \in Frame
  <2>1. stack[L].func_type # "MAIN"
    BY <1>1
  <2>2. L # 1
    BY <1>1, <2>1 DEF FramesInv, FramesTyped
  <2>3. QED
    BY <1>1, <2>2
<1>3. bot.local_spawns = 0 /\ bot.sp_bag = NULL
  <2>1. bot.local_spawns = 0
    BY TopCounts DEF FramesInv, Leaving
  <2>2. QED
    BY <2>1, TopCounts DEF FramesInv
<1>4. f = Absorbed(forest, stack[L - 1].p_bag, stack[L].p_bag, "P")
      /\ ReturnedPBag = AbsorbedBag(forest, stack[L - 1].p_bag, stack[L].p_bag)
  BY <1>1 DEF ReturnedForest, ReturnedPBag
<1>5. Bagged(stack, forest, nnodes) /\ Grouped(BagAt(stack), forest, nnodes)
  BY DEF BagsInv, Bagged
<1>6. /\ MayAbsorb(forest, stack[L - 1].p_bag, stack[L].p_bag)
      /\ Merges(BagAt(stack), forest, nnodes, <<L - 1, "p_bag">>, <<L, "p_bag">>, a, f)
  BY <1>1, <1>2, <1>4, <1>5, ReturnedMerges
<1>7. LeaveAsserts
  <2>1. in_user_code
    BY DEF FramesInv, Phases, Leaving
  <2>2. ASSUME ReturnedPBag # NULL PROVE ReturnedForest.type[ReturnedPBag] = "P"
    <3>1. IsForest(forest) /\ (stack[L - 1].p_bag # NULL => forest.type[stack[L - 1].p_bag] = "P")
      BY <1>1, <1>2, <1>5 DEF Bagged, BagsTyped, Grouped
    <3>2. {stack[L - 1].p_bag, stack[L].p_bag} \subseteq Nodes \cup {NULL}
      BY <1>1, <1>2 DEF Frame
    <3>3. QED
      BY <1>4, <2>2, <3>1, <3>2, AbsorbedHasType
  <2>3. QED
    BY <1>1, <1>3, <1>6, <2>1, <2>2 DEF LeaveAsserts
<1>8. Grouped(a, f, nnodes) /\ IsForest(f)
  BY <1>6 DEF Merges, Grouped
<1>9. /\ DOMAIN BagAt(stack) = (1 .. L) \X Bags /\ DOMAIN a = (1 .. L) \X Bags
      /\ \A z \in (1 .. L) \X Bags : z # <<L - 1, "p_bag">> /\ z # <<L, "p_bag">> => a[z] = BagAt(stack)[z]
      /\ a[<<L - 1, "p_bag">>] = ReturnedPBag
  <2>1. DOMAIN BagAt(stack) = (1 .. L) \X Bags
    BY <1>1, BagAtFields
  <2>2. a = [z \in (1 .. L) \X Bags |->
               IF z = <<L - 1, "p_bag">> THEN ReturnedPBag
               ELSE IF z = <<L, "p_bag">> THEN NULL ELSE BagAt(stack)[z]]
    BY <1>4, <2>1 DEF Returned
  <2>3. <<L - 1, "p_bag">> \in (1 .. L) \X Bags
    BY <1>1, <1>2 DEF Bags
  <2>4. QED
    BY <2>1, <2>2, <2>3
<1>10. \A k \in {L - 1, L} : /\ <<k, "ss_bag">> \in (1 .. L) \X Bags /\ <<k, "sp_bag">> \in (1 .. L) \X Bags
                             /\ BagAt(stack)[<<k, "ss_bag">>] = stack[k].ss_bag
                             /\ BagAt(stack)[<<k, "sp_bag">>] = stack[k].sp_bag
                             /\ a[<<k, "ss_bag">>] = stack[k].ss_bag
                             /\ a[<<k, "sp_bag">>] = stack[k].sp_bag
  <2>1. ASSUME NEW k \in {L - 1, L}
        PROVE  /\ <<k, "ss_bag">> \in (1 .. L) \X Bags /\ <<k, "sp_bag">> \in (1 .. L) \X Bags
               /\ BagAt(stack)[<<k, "ss_bag">>] = stack[k].ss_bag
               /\ BagAt(stack)[<<k, "sp_bag">>] = stack[k].sp_bag
    BY <1>1, <1>2, BagAtFields DEF Bags
  <2>2. ASSUME NEW k \in {L - 1, L}
        PROVE  /\ <<k, "ss_bag">> # <<L - 1, "p_bag">> /\ <<k, "ss_bag">> # <<L, "p_bag">>
               /\ <<k, "sp_bag">> # <<L - 1, "p_bag">> /\ <<k, "sp_bag">> # <<L, "p_bag">>
    OBVIOUS
  <2>3. QED
    BY <1>9, <2>1, <2>2
<1>11. ReturnedPBag \in Nodes \cup {NULL}
  BY <1>1, <1>2, <1>4, ForestIs DEF AbsorbedBag, Frame, IsForest
<1>12. NULL \notin Nodes /\ 1 .. nnodes \subseteq Nodes
  BY NodesUpTo, ForestIs
<1>13. ASSUME NEW k \in {L - 1, L}
       PROVE  f.type[f.root[stack[k].ss_bag]] = "SS" /\ f.type[stack[k].ss_bag] = "SS"
  <2>1. PICK n, q : n = stack[k].ss_bag /\ q = forest.root[n]
    OBVIOUS
  <2>2. k \in 1 .. Len(stack) /\ stack[k] \in Frame
    BY <1>1, <1>2
  <2>3. n \in Nodes /\ n # NULL /\ q \in Nodes /\ forest.root[q] = q
    BY <1>12, <2>1, <2>2, ForestIs DEF Frame, IsForest
  <2>4. BagAt(stack)[<<k, "ss_bag">>] = n /\ a[<<k, "ss_bag">>] = n
        /\ <<k, "ss_bag">> \in DOMAIN BagAt(stack)
    BY <1>9, <1>10, <2>1
  <2>5. n \in 1 .. nnodes /\ q \in 1 .. nnodes
    BY <1>5, <2>1, <2>3, <2>4 DEF Grouped
  <2>6. Held(BagAt(stack), forest, n, <<k, "ss_bag">>) /\ Held(BagAt(stack), forest, q, <<k, "ss_bag">>)
    BY <2>1, <2>3, <2>4 DEF Held, InSet
  <2>7. forest.type[n] = "SS" /\ forest.type[q] = "SS"
    BY <1>5, <2>2, <2>5, <2>6 DEF Bagged, BagsTyped
  <2>8. /\ <<L - 1, "p_bag">> \in DOMAIN BagAt(stack) /\ <<L, "p_bag">> \in DOMAIN BagAt(stack)
        /\ <<k, "ss_bag">> # <<L - 1, "p_bag">> /\ <<k, "ss_bag">> # <<L, "p_bag">>
    BY <1>1, <1>2, <1>9 DEF Bags
  <2>9. /\ ~ Held(BagAt(stack), forest, n, <<L - 1, "p_bag">>) /\ ~ Held(BagAt(stack), forest, n, <<L, "p_bag">>)
        /\ ~ Held(BagAt(stack), forest, q, <<L - 1, "p_bag">>) /\ ~ Held(BagAt(stack), forest, q, <<L, "p_bag">>)
    BY <1>5, <2>4, <2>5, <2>6, <2>8 DEF Grouped
  <2>10. f.type[n] = "SS" /\ f.type[q] = "SS"
    BY <1>6, <2>5, <2>7, <2>9 DEF Merges
  <2>11. f.root[n] = q
    BY <1>6, <2>1, <2>3, <2>4, <2>8 DEF Merges
  <2>12. QED
    BY <2>1, <2>10, <2>11
<1>14. ASSUME above.sp_bag # NULL, f.type[f.root[above.sp_bag]] = "P"
       PROVE  f.root[above.sp_bag] = above.sp_bag
  <2>1. PICK z : z = <<L - 1, "sp_bag">>
    OBVIOUS
  <2>2. z \in DOMAIN BagAt(stack) /\ BagAt(stack)[z] = above.sp_bag /\ a[z] = above.sp_bag
        /\ z # <<L - 1, "p_bag">> /\ z # <<L, "p_bag">>
    BY <1>1, <1>9, <1>10, <2>1
  <2>3. f.root[above.sp_bag] = forest.root[above.sp_bag]
        /\ SetType(a, f, z) = SetType(BagAt(stack), forest, z)
    BY <1>6, <1>14, <2>2 DEF Merges
  <2>4. SetType(a, f, z) = "P"
    BY <1>14, <2>2 DEF SetType
  <2>5. L - 1 \in 1 .. Len(stack) /\ stack[L - 1].sp_bag # NULL
        /\ SetType(BagAt(stack), forest, <<L - 1, "sp_bag">>) = "P"
    BY <1>1, <1>2, <1>14, <2>1, <2>3, <2>4
  <2>6. forest.root[stack[L - 1].sp_bag] = stack[L - 1].sp_bag
    BY <1>5, <2>5 DEF Bagged, BagsTyped
  <2>7. QED
    BY <1>1, <2>3, <2>6
<1>15. t = "HELPER" => above.sp_bag = NULL /\ above.local_spawns # 0
  <2>1. SUFFICES ASSUME t = "HELPER" PROVE above.sp_bag = NULL /\ above.local_spawns # 0
    OBVIOUS
  <2>2. L - 1 < L /\ (L - 1) + 1 = L /\ IsHelper(L) /\ prog[L - 1].unsynced \in Nat
    BY <1>1, <1>2, <2>1 DEF IsHelper, Progress
  <2>3. stack[L - 1].local_spawns = prog[L - 1].unsynced + 1 /\ stack[L - 1].sp_bag = NULL
    BY <1>2, <2>2 DEF FramesInv, SpawnsCounted
  <2>4. QED
    BY <1>1, <2>2, <2>3
<1>16. IsHelper(L) <=> t = "HELPER"
  BY <1>1 DEF IsHelper
<1>17. QED
  BY <1>1, <1>2, <1>3, <1>6, <1>7, <1>8, <1>9, <1>10, <1>11, <1>13, <1>14, <1>15, <1>16 DEF LeaveKnown

\* What the program's side of a return does.
Popped(t) ==
  /\ prog' \in Seq(Progress) /\ Len(prog') = Len(stack) - 1
  /\ \A k \in 1 .. Len(stack) - 1 : prog'[k].entry = prog[k].entry /\ prog'[k].cont = prog[k].cont
  /\ \A k \in 1 .. Len(stack) - 1 : prog'[k].unsynced =
       prog[k].unsynced + (IF k = Len(stack) - 1 /\ t = "HELPER" THEN 1 ELSE 0)

\* A sequence with one element replaced.
LEMMA SeqReplaced ==
  ASSUME NEW S, NEW s \in Seq(S), NEW m \in 1 .. Len(s), NEW p \in S, NEW t, t = [s EXCEPT ![m] = p]
  PROVE  t \in Seq(S) /\ Len(t) = Len(s) /\ t[m] = p /\ \A k \in 1 .. Len(s) : k # m => t[k] = s[k]
  OBVIOUS

PopsProg(t) ==
  LET s == SubSeq(prog, 1, Len(prog) - 1)
  IN  prog' = IF t = "CILK" THEN s ELSE [s EXCEPT ![Len(prog) - 1].unsynced = @ + 1]

\* The history after a return.
LEMMA ProgPops ==
  ASSUME FramesTyped, Len(stack) >= 2, NEW t \in {"CILK", "HELPER"}, PopsProg(t)
  PROVE  Popped(t)
<1>1. PICK L, s : L = Len(stack) /\ s = SubSeq(prog, 1, Len(prog) - 1)
  OBVIOUS
<1>2. L \in Nat /\ L >= 2 /\ Len(prog) = L /\ prog \in Seq(Progress)
      /\ \A k \in 1 .. L : prog[k] \in Progress
  BY <1>1, BotTyped DEF FramesTyped, Levels
<1>3. s \in Seq(Progress) /\ Len(s) = L - 1 /\ \A k \in 1 .. L - 1 : s[k] = prog[k] /\ s[k] \in Progress
  BY <1>1, <1>2
<1>4. CASE t = "CILK"
  <2>1. prog' = s /\ \A k \in 1 .. L - 1 : prog[k].unsynced + 0 = prog[k].unsynced
    <3>1. prog' = s
      BY <1>1, <1>4 DEF PopsProg
    <3>2. ASSUME NEW k \in 1 .. L - 1 PROVE prog[k].unsynced + 0 = prog[k].unsynced
      <4>1. prog[k].unsynced \in Nat
        BY <1>2 DEF Progress
      <4>2. QED
        BY <4>1
    <3>3. QED
      BY <3>1, <3>2
  <2>2. QED
    BY <1>1, <1>3, <1>4, <2>1 DEF Popped
<1>5. CASE t = "HELPER"
  <2>1. PICK m, q, u, p, s2 : /\ m = L - 1 /\ q = s[m] /\ u = q.unsynced + 1
                              /\ p = [q EXCEPT !.unsynced = u] /\ s2 = [s EXCEPT ![m] = p]
    OBVIOUS
  <2>2. L - 1 \in 1 .. L - 1 /\ m \in 1 .. Len(s) /\ q = prog[L - 1] /\ q \in Progress
    BY <1>2, <1>3, <2>1
  <2>3. p \in Progress /\ p.entry = prog[L - 1].entry /\ p.cont = prog[L - 1].cont
        /\ p.unsynced = prog[L - 1].unsynced + 1
    <3>1. u \in Nat
      BY <2>1, <2>2 DEF Progress
    <3>2. p \in Progress /\ p.entry = q.entry /\ p.cont = q.cont /\ p.unsynced = u
      BY <2>1, <2>2, <3>1 DEF Progress
    <3>3. QED
      BY <2>1, <2>2, <3>2
  <2>4. prog' = s2
    BY <1>1, <1>2, <1>5, <2>1 DEF PopsProg
  <2>5. prog' \in Seq(Progress) /\ Len(prog') = L - 1 /\ prog'[L - 1] = p
        /\ \A k \in 1 .. L - 1 : k # L - 1 => prog'[k] = prog[k]
    <3>1. prog' \in Seq(Progress) /\ Len(prog') = Len(s) /\ prog'[m] = p
          /\ \A k \in 1 .. Len(s) : k # m => prog'[k] = s[k]
      <4>1. s \in Seq(Progress) /\ m \in 1 .. Len(s) /\ p \in Progress
        BY <1>3, <2>2, <2>3
      <4>2. s2 \in Seq(Progress) /\ Len(s2) = Len(s) /\ s2[m] = p
            /\ \A k \in 1 .. Len(s) : k # m => s2[k] = s[k]
        <5>1. s2 = [s EXCEPT ![m] = p]
          BY <2>1
        <5>2. QED
          BY <4>1, <5>1, SeqReplaced
      <4>3. QED
        BY <2>4, <4>2
    <3>2. QED
      BY <1>3, <2>1, <3>1
  <2>6. ASSUME NEW k \in 1 .. L - 1
        PROVE  /\ prog'[k].entry = prog[k].entry /\ prog'[k].cont = prog[k].cont
               /\ prog'[k].unsynced = prog[k].unsynced + (IF k = L - 1 /\ t = "HELPER" THEN 1 ELSE 0)
    <3>1. prog[k].unsynced + 0 = prog[k].unsynced
      BY <1>3 DEF Progress
    <3>2. CASE k = L - 1
      BY <1>5, <2>3, <2>5, <3>2
    <3>3. CASE k # L - 1
      BY <2>5, <3>1, <3>3
    <3>4. QED
      BY <3>2, <3>3
  <2>7. QED
    BY <1>1, <2>5, <2>6 DEF Popped
<1>6. QED
  BY <1>4, <1>5

\* How the nodes move when the top frame returns, its SS-bag going to bag b0
\* of its parent.
LeavesTo(b0) ==
  LET L == Len(stack)
  IN  /\ \A n \in 1 .. nnodes, k \in Levels', b \in Bags : In(n, k, b)' =>
           \/ In(n, k, b)
           \/ k = L - 1 /\ b = "p_bag" /\ In(n, L, "p_bag")
           \/ k = L - 1 /\ b = b0 /\ In(n, L, "ss_bag")
      /\ \A k \in Levels' : stack'[k].sp_bag # NULL /\ (k = L - 1 => b0 # "sp_bag") =>
           (IsP(k)' <=> IsP(k))

\* A return, given what becomes of the two bags.
LeavesStep(t, fr, b0, bag, a2, f2) ==
  LET L == Len(stack)
      a == Returned(stack, forest)
  IN  /\ Leaving(t) /\ PopTo(fr) /\ SetForest(f2) /\ Popped(t)
      /\ fr \in Frame /\ fr.func_type = above.func_type
      /\ fr.ancestor_spawns = above.ancestor_spawns /\ fr.local_spawns = above.local_spawns
      /\ fr.sp_bag # NULL => fr.local_spawns > 0
      /\ b0 \in Bags
      /\ fr.ss_bag = (IF b0 = "ss_bag" THEN bag ELSE above.ss_bag)
      /\ fr.sp_bag = (IF b0 = "sp_bag" THEN bag ELSE above.sp_bag)
      /\ fr.p_bag = (IF b0 = "p_bag" THEN bag ELSE ReturnedPBag)
      /\ Moved(a, <<L - 1, b0>>, <<L, "ss_bag">>, bag, a2)
      /\ Merges(a, ReturnedForest, nnodes, <<L - 1, b0>>, <<L, "ss_bag">>, a2, f2)
      /\ b0 = "ss_bag" => f2.type = ReturnedForest.type
      /\ b0 = "sp_bag" /\ bag # NULL /\ f2.type[f2.root[bag]] = "P" => f2.root[bag] = bag
      /\ b0 = "p_bag" /\ bag # NULL => f2.type[bag] = "P"

\* What a return does to frames, bags and points.
LEMMA LeaveStep ==
  ASSUME FramesInv, BagsInv, NEW t \in {"CILK", "HELPER"}, NEW fr, NEW b0, NEW bag, NEW a2, NEW f2,
         LeavesStep(t, fr, b0, bag, a2, f2), cur' \in 1 .. nstrands
  PROVE  /\ FramesInv' /\ BagsInv' /\ LeavesTo(b0) /\ Levels' = 1 .. Len(stack) - 1
         /\ \A k \in Levels' : /\ stack'[k].func_type = stack[k].func_type
                               /\ stack'[k].ancestor_spawns = stack[k].ancestor_spawns
                               /\ prog'[k].entry = prog[k].entry /\ prog'[k].cont = prog[k].cont
         /\ spawn_count' = bot.ancestor_spawns /\ spawn_count' = spawn_count
         /\ forest' = f2
<1>1. PICK L, f, a : L = Len(stack) /\ f = ReturnedForest /\ a = Returned(stack, forest)
  OBVIOUS
<1>2. Leaving(t)
  BY DEF LeavesStep
<1>3. /\ L \in Nat /\ L >= 2 /\ L \in Levels /\ L - 1 \in Levels /\ Levels = 1 .. L
      /\ bot = stack[L] /\ above = stack[L - 1] /\ bot \in Frame /\ above \in Frame
      /\ bot.sp_bag = NULL /\ bot.local_spawns = 0
      /\ Grouped(a, f, nnodes) /\ DOMAIN a = (1 .. L) \X Bags
      /\ a[<<L - 1, "ss_bag">>] = above.ss_bag /\ a[<<L - 1, "sp_bag">>] = above.sp_bag
      /\ a[<<L - 1, "p_bag">>] = ReturnedPBag
  <2>1. LeaveKnown(t, L, f, a)
    BY <1>1, <1>2, LeaveFacts
  <2>2. QED
    BY <2>1 DEF LeaveKnown
<1>4. /\ stack' \in Seq(Frame) /\ Len(stack') = L - 1 /\ Len(stack') \in 1 .. MaxDepth
      /\ \A k \in 1 .. L - 1 : stack'[k] = IF k = L - 1 THEN fr ELSE stack[k]
  BY <1>1, <1>3, PopShape DEF FramesInv, LeavesStep
<1>5. FramesTyped' /\ SpawnsCounted'
  <2>1. bot.func_type = t /\ nstrands' = nstrands
    BY <1>2 DEF Leaving
  <2>2. /\ prog' \in Seq(Progress) /\ Len(prog') = Len(stack) - 1
        /\ \A k \in 1 .. Len(stack) - 1 : prog'[k].entry = prog[k].entry /\ prog'[k].cont = prog[k].cont
        /\ \A k \in 1 .. Len(stack) - 1 : prog'[k].unsynced =
             prog[k].unsynced + (IF k = Len(stack) - 1 /\ bot.func_type = "HELPER" THEN 1 ELSE 0)
    BY <2>1 DEF LeavesStep, Popped
  <2>3. /\ fr \in Frame /\ PopTo(fr) /\ fr.func_type = above.func_type
        /\ fr.ancestor_spawns = above.ancestor_spawns /\ fr.local_spawns = above.local_spawns
        /\ fr.sp_bag # NULL => fr.local_spawns > 0
    BY DEF LeavesStep
  <2>4. Len(stack) >= 2
    BY <1>1, <1>3
  <2>5. QED
    BY <2>1, <2>2, <2>3, <2>4, PopFrames DEF FramesInv
<1>6. Phases'
  BY <1>2 DEF Leaving, Phases
<1>7. ASSUME NEW k \in 1 .. L - 1, NEW b \in Bags
      PROVE  BagAt(stack')[<<k, b>>] = IF <<k, b>> = <<L - 1, b0>> THEN bag ELSE a[<<k, b>>]
  <2>1. /\ BagAt(stack')[<<k, "ss_bag">>] = stack'[k].ss_bag
        /\ BagAt(stack')[<<k, "sp_bag">>] = stack'[k].sp_bag
        /\ BagAt(stack')[<<k, "p_bag">>] = stack'[k].p_bag
    BY <1>4, BagAtFields
  <2>2. CASE k = L - 1
    <3>1. stack'[k] = fr
      BY <1>4, <2>2
    <3>2. /\ fr.ss_bag = (IF b0 = "ss_bag" THEN bag ELSE above.ss_bag)
          /\ fr.sp_bag = (IF b0 = "sp_bag" THEN bag ELSE above.sp_bag)
          /\ fr.p_bag = (IF b0 = "p_bag" THEN bag ELSE ReturnedPBag)
      BY DEF LeavesStep
    <3>3. <<k, b>> = <<L - 1, b0>> <=> b = b0
      BY <2>2
    <3>4. QED
      BY <1>3, <2>1, <2>2, <3>1, <3>2, <3>3 DEF Bags
  <2>3. CASE k # L - 1
    <3>1. stack'[k] = stack[k] /\ k \in 1 .. Len(stack) /\ stack \in Seq(Frame) /\ k # L
      BY <1>1, <1>3, <1>4, <2>3 DEF FramesInv, FramesTyped
    <3>2. BagAt(stack)[<<k, b>>] = BagAt(stack')[<<k, b>>]
      BY <2>1, <3>1, BagAtFields DEF Bags
    <3>3. <<k, b>> # <<L - 1, "p_bag">> /\ <<k, b>> # <<L, "p_bag">> /\ <<k, b>> # <<L - 1, b0>>
          /\ <<k, b>> \in DOMAIN BagAt(stack)
      BY <2>3, <3>1, BagAtFields
    <3>4. a[<<k, b>>] = BagAt(stack)[<<k, b>>]
      BY <1>1, <3>3 DEF Returned
    <3>5. QED
      BY <3>2, <3>3, <3>4
  <2>4. QED
    BY <2>2, <2>3
<1>8. PICK st2 : st2 = stack'
  OBVIOUS
<1>9. Leaves(stack, L, forest, nnodes, b0, bag, a2, f2, st2) /\ BagsTyped(stack, forest, nnodes)
  <2>1. Grouped(BagAt(stack), forest, nnodes) /\ BagsTyped(stack, forest, nnodes)
    BY DEF BagsInv, Bagged
  <2>2. stack \in Seq(Frame) /\ stack[L].sp_bag = NULL
    BY <1>3 DEF FramesInv, FramesTyped
  <2>3. /\ b0 \in Bags
        /\ Moved(Returned(stack, forest), <<L - 1, b0>>, <<L, "ss_bag">>, bag, a2)
        /\ Merges(Returned(stack, forest), Absorbed(forest, stack[L - 1].p_bag, stack[L].p_bag, "P"), nnodes,
                  <<L - 1, b0>>, <<L, "ss_bag">>, a2, f2)
    BY <1>1, <1>3 DEF LeavesStep, ReturnedForest
  <2>4. QED
    BY <1>1, <1>3, <1>4, <1>7, <1>8, <2>1, <2>2, <2>3 DEF Leaves
<1>10. /\ b0 = "ss_bag" => f2.type = Absorbed(forest, stack[L - 1].p_bag, stack[L].p_bag, "P").type
       /\ b0 = "sp_bag" /\ bag # NULL /\ f2.type[f2.root[bag]] = "P" => f2.root[bag] = bag
       /\ b0 = "p_bag" /\ bag # NULL => f2.type[bag] = "P"
  BY <1>3 DEF LeavesStep, ReturnedForest
<1>11. /\ Bagged(st2, f2, nnodes)
       /\ \A n \in 1 .. nnodes, k \in 1 .. L - 1, b \in Bags :
            Held(BagAt(st2), f2, n, <<k, b>>) =>
              \/ Held(BagAt(stack), forest, n, <<k, b>>)
              \/ k = L - 1 /\ b = "p_bag" /\ Held(BagAt(stack), forest, n, <<L, "p_bag">>)
              \/ k = L - 1 /\ b = b0 /\ Held(BagAt(stack), forest, n, <<L, "ss_bag">>)
       /\ \A k \in 1 .. L - 1 : st2[k].sp_bag # NULL /\ (k = L - 1 => b0 # "sp_bag") =>
            SetType(BagAt(st2), f2, <<k, "sp_bag">>) = SetType(BagAt(stack), forest, <<k, "sp_bag">>)
  <2>1. LeftBagged(stack, L, forest, nnodes, b0, f2, st2)
    BY <1>9, <1>10, LeaveBagged
  <2>2. QED
    BY <2>1 DEF LeftBagged
<1>12. forest' = f2 /\ nnodes' = nnodes
  <2>1. IsForest(f2) /\ SetForest(f2)
    BY <1>11 DEF Bagged, Grouped, LeavesStep
  <2>2. QED
    BY <1>2, <2>1, ForestSet DEF Leaving
<1>13. BagsInv'
  BY <1>8, <1>11, <1>12 DEF BagsInv
<1>14. Levels' = 1 .. L - 1
  BY <1>4 DEF Levels
<1>15. LeavesTo(b0)
  BY <1>1, <1>8, <1>11, <1>12, <1>14 DEF LeavesTo, In, IsP
<1>16. ASSUME NEW k \in 1 .. L - 1
       PROVE  /\ stack'[k].func_type = stack[k].func_type
              /\ stack'[k].ancestor_spawns = stack[k].ancestor_spawns
              /\ prog'[k].entry = prog[k].entry /\ prog'[k].cont = prog[k].cont
  <2>1. prog'[k].entry = prog[k].entry /\ prog'[k].cont = prog[k].cont
    BY <1>1 DEF LeavesStep, Popped
  <2>2. CASE k = L - 1
    BY <1>3, <1>4, <2>1, <2>2 DEF LeavesStep
  <2>3. CASE k # L - 1
    BY <1>4, <2>1, <2>3
  <2>4. QED
    BY <2>2, <2>3
<1>17. spawn_count' = bot.ancestor_spawns /\ spawn_count' = spawn_count
  <2>1. L - 1 \in 1 .. L - 1 /\ L - 1 < L /\ (L - 1) + 1 = L
    BY <1>3
  <2>2. spawn_count' = stack'[L - 1].ancestor_spawns + stack'[L - 1].local_spawns
    BY <1>4 DEF spawn_count, bot
  <2>3. stack'[L - 1] = fr
    BY <1>4, <2>1
  <2>4. spawn_count' = stack[L - 1].ancestor_spawns + stack[L - 1].local_spawns
    BY <1>3, <2>2, <2>3 DEF LeavesStep
  <2>5. stack[(L - 1) + 1].ancestor_spawns = stack[L - 1].ancestor_spawns + stack[L - 1].local_spawns
    BY <1>1, <1>3, <2>1 DEF FramesInv, SpawnsCounted
  <2>6. spawn_count = bot.ancestor_spawns
    BY <1>3 DEF spawn_count, Frame
  <2>7. QED
    BY <1>3, <2>1, <2>4, <2>5, <2>6
<1>18. QED
  BY <1>1, <1>5, <1>6, <1>12, <1>13, <1>14, <1>15, <1>16, <1>17 DEF FramesInv

\* The end of a return: what is known of the state after it.
LeftTo(b0) ==
  /\ FramesInv' /\ BagsInv' /\ LeavesTo(b0) /\ Levels' = 1 .. Len(stack) - 1
  /\ \A k \in Levels' : /\ stack'[k].func_type = stack[k].func_type
                        /\ stack'[k].ancestor_spawns = stack[k].ancestor_spawns
                        /\ prog'[k].entry = prog[k].entry /\ prog'[k].cont = prog[k].cont
  /\ spawn_count' = bot.ancestor_spawns /\ spawn_count' = spawn_count

\* The slots after the top frame's SS-bag has gone to slot x.
MovedSlots(a, x, y, bag) ==
  [z \in DOMAIN a |-> IF z = x THEN bag ELSE IF z = y THEN NULL ELSE a[z]]

\* A called function returns: no assertion fails, and its SP-bag is not P.
LEMMA ReturnStep ==
  ASSUME FramesInv, BagsInv, cilk_leave_begin_function
  PROVE  /\ outcome' = "running"
         /\ above.local_spawns = 0 => LeftTo("ss_bag")
         /\ above.local_spawns # 0 => LeftTo("sp_bag") /\ \A k \in Levels : k = Len(stack) - 1 => ~ IsP(k)'
<1>1. PICK L, f, a, fr, y : /\ L = Len(stack) /\ f = ReturnedForest /\ a = Returned(stack, forest)
                            /\ fr = [above EXCEPT !.p_bag = ReturnedPBag] /\ y = <<L, "ss_bag">>
  OBVIOUS
<1>2. Leaving("CILK") /\ prog' = SubSeq(prog, 1, Len(prog) - 1) /\ cur' = cur
  BY DEF cilk_leave_begin_function
<1>3. LeaveKnown("CILK", L, f, a)
  BY <1>1, <1>2, LeaveFacts
<1>4. /\ L \in Nat /\ L >= 2 /\ L \in Levels /\ L - 1 \in Levels /\ Levels = 1 .. L
      /\ bot = stack[L] /\ above = stack[L - 1] /\ bot \in Frame /\ above \in Frame
      /\ bot.sp_bag = NULL /\ bot.local_spawns = 0 /\ LeaveAsserts
      /\ Grouped(a, f, nnodes) /\ IsForest(f) /\ DOMAIN a = (1 .. L) \X Bags
      /\ a[<<L - 1, "ss_bag">>] = above.ss_bag /\ a[<<L - 1, "sp_bag">>] = above.sp_bag
      /\ a[<<L - 1, "p_bag">>] = ReturnedPBag /\ a[<<L, "ss_bag">>] = bot.ss_bag
      /\ ReturnedPBag \in Nodes \cup {NULL}
      /\ f.type[f.root[bot.ss_bag]] = "SS" /\ f.type[above.ss_bag] = "SS"
      /\ above.sp_bag # NULL /\ f.type[f.root[above.sp_bag]] = "P" =>
           f.root[above.sp_bag] = above.sp_bag
  BY <1>3 DEF LeaveKnown
<1>5. Popped("CILK")
  <2>1. PopsProg("CILK") /\ Len(stack) >= 2 /\ FramesTyped
    BY <1>1, <1>2, <1>4 DEF PopsProg, FramesInv
  <2>2. QED
    BY <2>1, ProgPops
<1>6. /\ fr \in Frame /\ fr.func_type = above.func_type /\ fr.ss_bag = above.ss_bag
      /\ fr.ancestor_spawns = above.ancestor_spawns /\ fr.local_spawns = above.local_spawns
      /\ fr.sp_bag = above.sp_bag /\ fr.p_bag = ReturnedPBag
  BY <1>1, <1>4 DEF Frame
<1>7. above.sp_bag # NULL => above.local_spawns > 0
  BY <1>4 DEF FramesInv, SpawnsCounted
<1>8. cur' \in 1 .. nstrands
  BY <1>2 DEF FramesInv, FramesTyped
<1>9. y \in DOMAIN a /\ <<L - 1, "ss_bag">> \in DOMAIN a /\ <<L - 1, "sp_bag">> \in DOMAIN a
      /\ <<L - 1, "ss_bag">> # y /\ <<L - 1, "sp_bag">> # y
  BY <1>1, <1>4 DEF Bags
<1>10. bot.ss_bag \in Nodes /\ above.ss_bag \in Nodes /\ bot.ss_bag # NULL /\ above.ss_bag # NULL
  BY <1>4, NullOutside DEF NullIsNoNode, Frame
<1>11. CASE above.local_spawns = 0
  <2>1. PICK x, bag, a2, f2 : /\ x = <<L - 1, "ss_bag">> /\ bag = above.ss_bag
                              /\ a2 = MovedSlots(a, x, y, bag) /\ f2 = Combined(f, above.ss_bag, bot.ss_bag)
    OBVIOUS
  <2>2. PopTo(fr) /\ SetForest(f2)
        /\ Asserting(LeaveAsserts /\ MayAbsorb(f, above.ss_bag, bot.ss_bag) /\ f.type[above.ss_bag] = "SS")
    BY <1>1, <1>11, <2>1 DEF cilk_leave_begin_function
  <2>3. Moved(a, x, y, bag, a2)
    BY <2>1 DEF Moved, MovedSlots
  <2>4. x \in DOMAIN a /\ x # y /\ a[x] = above.ss_bag /\ a[y] = bot.ss_bag
    BY <1>1, <1>4, <1>9, <2>1
  <2>5. Merges(a, f, nnodes, x, y, a2, f2) /\ f2.type = f.type
    BY <1>4, <1>9, <1>10, <2>1, <2>3, <2>4, CombineMerges
  <2>6. MayAbsorb(f, above.ss_bag, bot.ss_bag)
    BY <1>4, <1>9, <2>4, SlotsDiffer
  <2>7. outcome' = "running"
    BY <1>4, <2>2, <2>6 DEF Asserting
  <2>8. LeavesStep("CILK", fr, "ss_bag", bag, a2, f2)
    BY <1>1, <1>2, <1>5, <1>6, <1>7, <2>1, <2>2, <2>3, <2>5 DEF LeavesStep, Bags
  <2>9. LeftTo("ss_bag")
    BY <1>8, <2>8, LeaveStep DEF LeftTo
  <2>10. QED
    BY <1>11, <2>7, <2>9
<1>12. CASE above.local_spawns # 0
  <2>1. PICK x, bag, a2, f2, fr2 :
          /\ x = <<L - 1, "sp_bag">> /\ bag = AbsorbedBag(f, above.sp_bag, bot.ss_bag)
          /\ a2 = MovedSlots(a, x, y, bag) /\ f2 = Absorbed(f, above.sp_bag, bot.ss_bag, "SP")
          /\ fr2 = [fr EXCEPT !.sp_bag = bag]
    OBVIOUS
  <2>2. PopTo(fr2) /\ SetForest(f2)
        /\ Asserting(LeaveAsserts /\ MayAbsorb(f, above.sp_bag, bot.ss_bag))
    BY <1>1, <1>12, <2>1 DEF cilk_leave_begin_function
  <2>3. Moved(a, x, y, bag, a2)
    BY <2>1 DEF Moved, MovedSlots
  <2>4. x \in DOMAIN a /\ x # y /\ a[x] = above.sp_bag /\ a[y] = bot.ss_bag
    BY <1>1, <1>4, <1>9, <2>1
  <2>5. Merges(a, f, nnodes, x, y, a2, f2)
    BY <1>4, <1>9, <2>1, <2>3, <2>4, AbsorbMerges
  <2>6. MayAbsorb(f, above.sp_bag, bot.ss_bag)
    BY <1>4, <1>9, <2>4, SlotsDiffer
  <2>7. outcome' = "running"
    BY <1>4, <2>2, <2>6 DEF Asserting
  <2>8. bag \in Nodes \cup {NULL}
    <3>1. a2[x] = bag /\ a2[x] \in (1 .. nnodes) \cup {NULL} /\ nnodes \in Nodes
      BY <2>3, <2>4, <2>5 DEF Moved, Merges, Grouped
    <3>2. QED
      BY <3>1, NodesUpTo
  <2>9. /\ fr2 \in Frame /\ fr2.func_type = above.func_type /\ fr2.ss_bag = above.ss_bag
        /\ fr2.ancestor_spawns = above.ancestor_spawns /\ fr2.local_spawns = above.local_spawns
        /\ fr2.sp_bag = bag /\ fr2.p_bag = ReturnedPBag
    BY <1>6, <2>1, <2>8 DEF Frame
  <2>10. above.local_spawns > 0
    BY <1>4, <1>12 DEF Frame
  <2>11. f2.type[f2.root[bag]] # "P"
    <3>1. above.sp_bag \in Nodes \cup {NULL}
      BY <1>4 DEF Frame
    <3>2. IsForest(f) /\ bot.ss_bag \in Nodes /\ f.type[f.root[bot.ss_bag]] = "SS"
      BY <1>4, <1>10
    <3>3. above.sp_bag # NULL /\ f.type[f.root[above.sp_bag]] = "P" => f.root[above.sp_bag] = above.sp_bag
      BY <1>4
    <3>4. bag = AbsorbedBag(f, above.sp_bag, bot.ss_bag) /\ f2 = Absorbed(f, above.sp_bag, bot.ss_bag, "SP")
      BY <2>1
    <3>5. QED
      BY <3>1, <3>2, <3>3, <3>4, AbsorbedIsNotP
  <2>12. LeavesStep("CILK", fr2, "sp_bag", bag, a2, f2)
    BY <1>1, <1>2, <1>5, <2>1, <2>2, <2>3, <2>5, <2>9, <2>10, <2>11 DEF LeavesStep, Bags
  <2>13. LeftTo("sp_bag") /\ forest' = f2
    BY <1>8, <2>12, LeaveStep DEF LeftTo
  <2>14. ~ IsP(L - 1)'
    <3>1. L - 1 \in Levels' /\ stack' \in Seq(Frame) /\ Levels' = 1 .. Len(stack')
      BY <1>1, <1>4, <2>13 DEF LeftTo, FramesInv, FramesTyped, Levels
    <3>2. BagAt(stack')[<<L - 1, "sp_bag">>] = stack'[L - 1].sp_bag
      BY <3>1, BagAtFields
    <3>3. stack'[L - 1] = fr2
      BY <1>1, <1>4, <2>2, PopShape, <2>9, SMTT(30) DEF FramesInv
    <3>4. QED
      BY <2>9, <2>11, <2>13, <3>2, <3>3 DEF IsP, SetType
  <2>15. QED
    BY <1>1, <1>12, <2>7, <2>13, <2>14
<1>13. QED
  BY <1>11, <1>12

\* A spawned child returns.
LEMMA HelperReturnStep ==
  ASSUME FramesInv, BagsInv, cilk_leave_begin_helper
  PROVE  /\ outcome' # "assertion failed"
         /\ LeftTo("sp_bag") \/ LeftTo("p_bag")
<1>1. PICK L, f, a, fr, y : /\ L = Len(stack) /\ f = ReturnedForest /\ a = Returned(stack, forest)
                            /\ fr = [above EXCEPT !.p_bag = ReturnedPBag] /\ y = <<L, "ss_bag">>
  OBVIOUS
<1>2. Leaving("HELPER") /\ cur' = prog[Len(prog)].cont
  BY DEF cilk_leave_begin_helper
<1>3. LeaveKnown("HELPER", L, f, a)
  BY <1>1, <1>2, LeaveFacts
<1>4. /\ L \in Nat /\ L >= 2 /\ L \in Levels /\ L - 1 \in Levels /\ Levels = 1 .. L
      /\ bot = stack[L] /\ above = stack[L - 1] /\ bot \in Frame /\ above \in Frame
      /\ bot.sp_bag = NULL /\ bot.local_spawns = 0 /\ LeaveAsserts
      /\ Grouped(a, f, nnodes) /\ IsForest(f) /\ DOMAIN a = (1 .. L) \X Bags
      /\ a[<<L - 1, "sp_bag">>] = above.sp_bag
      /\ a[<<L - 1, "p_bag">>] = ReturnedPBag /\ a[<<L, "ss_bag">>] = bot.ss_bag
      /\ ReturnedPBag \in Nodes \cup {NULL}
      /\ above.sp_bag = NULL /\ above.local_spawns # 0
  BY <1>3 DEF LeaveKnown
<1>5. Popped("HELPER")
  <2>1. PopsProg("HELPER") /\ Len(stack) >= 2 /\ FramesTyped
    BY <1>1, <1>4 DEF PopsProg, FramesInv, cilk_leave_begin_helper
  <2>2. QED
    BY <2>1, ProgPops
<1>6. /\ fr \in Frame /\ fr.func_type = above.func_type /\ fr.ss_bag = above.ss_bag
      /\ fr.ancestor_spawns = above.ancestor_spawns /\ fr.local_spawns = above.local_spawns
      /\ fr.sp_bag = NULL /\ fr.p_bag = ReturnedPBag
  BY <1>1, <1>4 DEF Frame
<1>7. cur' \in 1 .. nstrands
  BY <1>1, <1>2, <1>4 DEF FramesInv, FramesTyped
<1>8. y \in DOMAIN a /\ <<L - 1, "p_bag">> \in DOMAIN a /\ <<L - 1, "sp_bag">> \in DOMAIN a
      /\ <<L - 1, "p_bag">> # y /\ <<L - 1, "sp_bag">> # y
  BY <1>1, <1>4 DEF Bags
<1>9. bot.ss_bag \in Nodes /\ bot.ss_bag # NULL
  BY <1>4, NullOutside DEF NullIsNoNode, Frame
<1>10. above.local_spawns > 0
  BY <1>4 DEF Frame
<1>11. CASE ReturnedPBag = NULL
  <2>1. PICK x, bag, a2, f2, fr2 :
          /\ x = <<L - 1, "sp_bag">> /\ bag = f.root[bot.ss_bag]
          /\ a2 = MovedSlots(a, x, y, bag) /\ f2 = [f EXCEPT !.type[f.root[bot.ss_bag]] = "P"]
          /\ fr2 = [fr EXCEPT !.sp_bag = bag]
    OBVIOUS
  <2>2. PopTo(fr2) /\ SetForest(f2) /\ Asserting(LeaveAsserts /\ above.local_spawns # 0)
    BY <1>1, <1>11, <2>1 DEF cilk_leave_begin_helper
  <2>3. bag = AbsorbedBag(f, NULL, bot.ss_bag) /\ f2 = Absorbed(f, NULL, bot.ss_bag, "P")
    BY <1>9, <2>1 DEF Absorbed, AbsorbedBag
  <2>4. Moved(a, x, y, bag, a2)
    BY <2>1 DEF Moved, MovedSlots
  <2>5. x \in DOMAIN a /\ x # y /\ a[x] = NULL /\ a[y] = bot.ss_bag
    BY <1>1, <1>4, <1>8, <2>1
  <2>6. Merges(a, f, nnodes, x, y, a2, f2)
    BY <1>4, <1>8, <2>3, <2>4, <2>5, AbsorbMerges
  <2>7. outcome' = "running"
    BY <1>4, <2>2 DEF Asserting
  <2>8. bag \in Nodes \cup {NULL} /\ f.root[bag] = bag
    BY <1>4, <1>9, <2>1 DEF IsForest
  <2>9. /\ fr2 \in Frame /\ fr2.func_type = above.func_type /\ fr2.ss_bag = above.ss_bag
        /\ fr2.ancestor_spawns = above.ancestor_spawns /\ fr2.local_spawns = above.local_spawns
        /\ fr2.sp_bag = bag /\ fr2.p_bag = ReturnedPBag
    BY <1>6, <2>1, <2>8 DEF Frame
  <2>10. f2.root[bag] = bag
    <3>1. PICK q, ty : q = f.root[bot.ss_bag] /\ ty = [f.type EXCEPT ![q] = "P"]
      OBVIOUS
    <3>2. f2 = [f EXCEPT !.type = ty]
      BY <2>1, <3>1
    <3>3. f2.root = f.root
      BY <1>4, <3>2 DEF IsForest
    <3>4. QED
      BY <2>8, <3>3
  <2>11. LeavesStep("HELPER", fr2, "sp_bag", bag, a2, f2)
    BY <1>1, <1>2, <1>5, <1>10, <2>1, <2>2, <2>4, <2>6, <2>9, <2>10 DEF LeavesStep, Bags
  <2>12. LeftTo("sp_bag")
    BY <1>7, <2>11, LeaveStep DEF LeftTo
  <2>13. QED
    BY <2>7, <2>12
<1>12. CASE ReturnedPBag # NULL
  <2>1. PICK x, bag, a2, f2 : /\ x = <<L - 1, "p_bag">> /\ bag = ReturnedPBag
                              /\ a2 = MovedSlots(a, x, y, bag) /\ f2 = Combined(f, ReturnedPBag, bot.ss_bag)
    OBVIOUS
  <2>2. PopTo(fr) /\ SetForest(f2)
        /\ outcome' = IF /\ LeaveAsserts /\ above.local_spawns # 0
                         /\ MayAbsorb(f, ReturnedPBag, bot.ss_bag)
                      THEN "killed" ELSE "assertion failed"
    BY <1>1, <1>12, <2>1 DEF cilk_leave_begin_helper
  <2>3. Moved(a, x, y, bag, a2)
    BY <2>1 DEF Moved, MovedSlots
  <2>4. x \in DOMAIN a /\ x # y /\ a[x] = bag /\ a[y] = bot.ss_bag
    BY <1>1, <1>4, <1>8, <2>1
  <2>5. Merges(a, f, nnodes, x, y, a2, f2) /\ f2.type = f.type
    BY <1>4, <1>8, <1>9, <1>12, <2>1, <2>3, <2>4, CombineMerges
  <2>6. MayAbsorb(f, ReturnedPBag, bot.ss_bag)
    BY <1>4, <1>8, <2>1, <2>4, SlotsDiffer
  <2>7. outcome' = "killed"
    BY <1>4, <2>2, <2>6
  <2>8. LeavesStep("HELPER", fr, "p_bag", bag, a2, f2)
    <3>1. f2.type[bag] = "P"
      BY <1>1, <1>4, <1>12, <2>1, <2>5 DEF LeaveAsserts
    <3>2. QED
      BY <1>1, <1>2, <1>4, <1>5, <1>6, <2>1, <2>2, <2>3, <2>5, <3>1 DEF LeavesStep, Bags
  <2>9. LeftTo("p_bag")
    BY <1>7, <2>8, LeaveStep DEF LeftTo
  <2>10. QED
    BY <2>7, <2>9
<1>13. QED
  BY <1>11, <1>12

-----------------------------------------------------------------------------
(***************************************************************************)
(* The invariant: peers and reads.                                         *)
(***************************************************************************)
\* The strands a later read may be compared with, each with the spawn count
\* there: the current one, and those that the frames on the stack go back to.
Point(x, c) ==
  \/ x = cur /\ c = spawn_count
  \/ \E k \in Levels : /\ c = stack[k].ancestor_spawns
                       /\ x = prog[k].entry \/ (IsHelper(k) /\ x = prog[k].cont)

DagTyped ==
  /\ peers \in [Strands -> SUBSET (1 .. nstrands)]
  /\ \A k \in Levels : IsHelper(k) => prog[k].cont \notin peers[prog[k].cont]

\* Different counts mean different peers.
PointsDiffer == \A x, y, c, d : Point(x, c) /\ Point(y, d) /\ c # d => peers[x] # peers[y]

ReadsDiffer ==
  \A e \in EntriesIn(memory) : \A x, c : Point(x, c) /\ e.spawns # c => peers[e.reader] # peers[x]

\* The continuation of a spawn is parallel to all that its child does.
Parallel ==
  \A j \in Levels : IsHelper(j) =>
    /\ prog[j].cont \in peers[cur]
    /\ \A i \in Levels : j <= i => prog[j].cont \in peers[prog[i].entry]
    /\ \A i \in Levels : j < i /\ IsHelper(i) => prog[j].cont \in peers[prog[i].cont]
    /\ \A e \in EntriesIn(memory), k \in Levels, b \in Bags :
         j <= k /\ In(e.node, k, b) => prog[j].cont \in peers[e.reader]

\* The functions of bag b of frame k have other peers than any strand a later
\* read may be in.
Parted(k, b) == b = "p_bag" \/ (b = "sp_bag" /\ IsP(k))

\* What the bag of a read's function says of the read.
ReadsPlaced ==
  \A e \in EntriesIn(memory), k \in Levels, b \in Bags : In(e.node, k, b) =>
    /\ e.spawns >= stack[k].ancestor_spawns
    /\ b # "ss_bag" => e.spawns > stack[k].ancestor_spawns
    /\ Parted(k, b) => \A x, c : Point(x, c) => peers[e.reader] # peers[x]

ReadsKept ==
  /\ IsTable(memory)
  /\ \A e \in EntriesIn(memory) : /\ e.reader \in 1 .. nstrands /\ e.node \in 1 .. nnodes
                                  /\ e.reader = last[e.reducer] /\ e.spawns \in Nat
                                  /\ e.reducer \in Reducers
  /\ last \in [Reducers -> Nat]
  /\ \A r \in Reducers : last[r] # 0 <=> Has(memory, r)
  /\ IsFiniteSet({r \in Reducers : last[r] # 0})
  /\ memory.size = Cardinality({r \in Reducers : last[r] # 0})

DagInv == DagTyped /\ PointsDiffer /\ ReadsDiffer /\ Parallel /\ ReadsPlaced /\ ReadsKept

\* The types of a point.
LEMMA PointTyped ==
  ASSUME FramesTyped, NEW x, NEW c, Point(x, c)
  PROVE  x \in 1 .. nstrands /\ c \in Nat
<1>1. CASE x = cur /\ c = spawn_count
  BY <1>1, BotTyped DEF FramesTyped
<1>2. ASSUME NEW k \in Levels, c = stack[k].ancestor_spawns,
             x = prog[k].entry \/ (IsHelper(k) /\ x = prog[k].cont)
      PROVE  x \in 1 .. nstrands /\ c \in Nat
  <2>1. stack[k] \in Frame
    BY BotTyped
  <2>2. QED
    BY <1>2, <2>1 DEF FramesTyped, Frame
<1>3. QED
  BY <1>1, <1>2 DEF Point

\* A step that starts no strand.
Serial ==
  /\ peers' = peers /\ nstrands' = nstrands /\ memory' = memory
  /\ \A x, c : Point(x, c)' => Point(x, c)
  /\ \A k \in Levels' : IsHelper(k)' => k \in Levels /\ IsHelper(k) /\ prog'[k].cont = prog[k].cont
  /\ \A k \in Levels' : prog'[k].entry = cur \/ (k \in Levels /\ prog'[k].entry = prog[k].entry)
  /\ cur' = cur \/ \E i \in Levels : IsHelper(i) /\ cur' = prog[i].cont /\ \A k \in Levels' : k < i
  /\ \A n \in 1 .. nnodes, k \in Levels', b \in Bags : In(n, k, b)' =>
       \E i \in Levels, c \in Bags : k <= i /\ In(n, i, c)

\* A step that starts no strand and makes no new point keeps what is said of points.
LEMMA SerialKeeps ==
  ASSUME DagInv, Serial, Levels \in SUBSET Nat, Levels' \in SUBSET Nat
  PROVE  DagTyped' /\ PointsDiffer' /\ ReadsDiffer' /\ Parallel'
<1>1. DagTyped'
  BY DEF DagInv, DagTyped, Serial
<1>2. PointsDiffer'
  BY DEF DagInv, PointsDiffer, Serial
<1>3. ReadsDiffer'
  BY DEF DagInv, ReadsDiffer, Serial
<1>4. ASSUME NEW j \in Levels', IsHelper(j)'
      PROVE  /\ prog'[j].cont \in peers'[cur']
             /\ \A i \in Levels' : j <= i => prog'[j].cont \in peers'[prog'[i].entry]
             /\ \A i \in Levels' : j < i /\ IsHelper(i)' => prog'[j].cont \in peers'[prog'[i].cont]
             /\ \A e \in EntriesIn(memory'), k \in Levels', b \in Bags :
                  j <= k /\ In(e.node, k, b)' => prog'[j].cont \in peers'[e.reader]
  <2>1. j \in Levels /\ IsHelper(j) /\ prog'[j].cont = prog[j].cont /\ peers' = peers /\ memory' = memory
    BY <1>4 DEF Serial
  <2>2. /\ prog[j].cont \in peers[cur]
        /\ \A i \in Levels : j <= i => prog[j].cont \in peers[prog[i].entry]
        /\ \A i \in Levels : j < i /\ IsHelper(i) => prog[j].cont \in peers[prog[i].cont]
        /\ \A e \in EntriesIn(memory), k \in Levels, b \in Bags :
             j <= k /\ In(e.node, k, b) => prog[j].cont \in peers[e.reader]
    BY <2>1 DEF DagInv, Parallel
  <2>3. prog'[j].cont \in peers'[cur']
    BY <2>1, <2>2 DEF Serial
  <2>4. \A i \in Levels' : j <= i => prog'[j].cont \in peers'[prog'[i].entry]
    BY <2>1, <2>2 DEF Serial
  <2>5. \A i \in Levels' : j < i /\ IsHelper(i)' => prog'[j].cont \in peers'[prog'[i].cont]
    BY <2>1, <2>2 DEF Serial
  <2>6. ASSUME NEW e \in EntriesIn(memory), NEW k \in Levels', NEW b \in Bags, j <= k, In(e.node, k, b)'
        PROVE  prog[j].cont \in peers[e.reader]
    <3>1. e.node \in 1 .. nnodes
      BY DEF DagInv, ReadsKept
    <3>2. PICK i \in Levels, c \in Bags : k <= i /\ In(e.node, i, c)
      BY <2>6, <3>1 DEF Serial
    <3>3. j <= i
      BY <2>6, <3>2
    <3>4. QED
      BY <2>2, <3>2, <3>3
  <2>7. QED
    BY <2>1, <2>3, <2>4, <2>5, <2>6
<1>5. Parallel'
  BY <1>4 DEF Parallel
<1>6. QED
  BY <1>1, <1>2, <1>3, <1>5

\* A step that reads nothing keeps the table tied to the history.
LEMMA ReadsStay ==
  ASSUME DagInv, memory' = memory, last' = last, nstrands \in Nat, nstrands' \in Nat, nstrands <= nstrands',
         nnodes \in Nat, nnodes' \in Nat, nnodes <= nnodes'
  PROVE  ReadsKept'
  BY DEF DagInv, ReadsKept

\* Nothing the invariants are about changes.
LEMMA SameState ==
  ASSUME FramesInv, BagsInv, UNCHANGED <<stack, nnodes, forestVars, memory, historyVars>>
  PROVE  FramesTyped' /\ SpawnsCounted' /\ BagsInv' /\ (DagInv => DagInv') /\ bot' = bot
<1>1. /\ stack' = stack /\ nnodes' = nnodes /\ root' = root /\ rank' = rank /\ type' = type
      /\ memory' = memory /\ prog' = prog /\ cur' = cur /\ nstrands' = nstrands /\ peers' = peers
      /\ last' = last
  BY DEF forestVars, historyVars
<1>2. forest' = forest /\ Levels' = Levels /\ bot' = bot /\ spawn_count' = spawn_count
  BY <1>1 DEF forest, Levels, bot, spawn_count
<1>3. \A k : IsHelper(k)' <=> IsHelper(k)
  BY <1>1 DEF IsHelper
<1>4. \A k, b : Parted(k, b)' <=> Parted(k, b)
  BY <1>1, <1>2 DEF Parted, IsP
<1>5. \A n, k, b : In(n, k, b)' <=> In(n, k, b)
  BY <1>1, <1>2 DEF In
<1>6. \A x, c : Point(x, c)' <=> Point(x, c)
  BY <1>1, <1>2, <1>3 DEF Point
<1>7. FramesTyped'
  BY <1>1, <1>2 DEF FramesInv, FramesTyped, Progress
<1>8. SpawnsCounted'
  BY <1>1, <1>2, <1>3 DEF FramesInv, SpawnsCounted
<1>9. BagsInv'
  BY <1>1, <1>2 DEF BagsInv
<1>10. ASSUME DagInv PROVE DagInv'
  <2>1. DagTyped' /\ PointsDiffer' /\ ReadsDiffer'
    BY <1>1, <1>2, <1>3, <1>6, <1>10 DEF DagInv, DagTyped, PointsDiffer, ReadsDiffer
  <2>2. Parallel'
    BY <1>1, <1>2, <1>3, <1>5, <1>10 DEF DagInv, Parallel
  <2>3. ReadsPlaced'
    BY <1>1, <1>2, <1>4, <1>5, <1>6, <1>10 DEF DagInv, ReadsPlaced
  <2>4. ReadsKept'
    BY <1>1, <1>10 DEF DagInv, ReadsKept
  <2>5. QED
    BY <2>1, <2>2, <2>3, <2>4 DEF DagInv
<1>11. QED
  BY <1>2, <1>7, <1>8, <1>9, <1>10

\* The bags of the frames that stay hold no function they did not hold.
LEMMA PlacedStay ==
  ASSUME DagInv, Serial,
         \A n \in 1 .. nnodes, k \in Levels', b \in Bags : In(n, k, b)' =>
           /\ k \in Levels /\ In(n, k, b) /\ stack'[k].ancestor_spawns = stack[k].ancestor_spawns
           /\ Parted(k, b)' => Parted(k, b)
  PROVE  ReadsPlaced'
<1>1. ASSUME NEW e \in EntriesIn(memory), NEW k \in Levels', NEW b \in Bags, In(e.node, k, b)'
      PROVE  /\ e.spawns >= stack'[k].ancestor_spawns
             /\ b # "ss_bag" => e.spawns > stack'[k].ancestor_spawns
             /\ Parted(k, b)' => \A x, c : Point(x, c)' => peers'[e.reader] # peers'[x]
  <2>1. e.node \in 1 .. nnodes
    BY DEF DagInv, ReadsKept
  <2>2. /\ k \in Levels /\ In(e.node, k, b) /\ stack'[k].ancestor_spawns = stack[k].ancestor_spawns
        /\ Parted(k, b)' => Parted(k, b)
    BY <1>1, <2>1
  <2>3. /\ e.spawns >= stack[k].ancestor_spawns
        /\ b # "ss_bag" => e.spawns > stack[k].ancestor_spawns
        /\ Parted(k, b) => \A x, c : Point(x, c) => peers[e.reader] # peers[x]
    BY <2>2 DEF DagInv, ReadsPlaced
  <2>4. QED
    BY <2>2, <2>3 DEF Serial
<1>2. memory' = memory
  BY DEF Serial
<1>3. QED
  BY <1>1, <1>2 DEF ReadsPlaced

\* An SP-bag with a function in it is one.
LEMMA SpBagHeld ==
  ASSUME FramesTyped, NEW n, NEW k \in Levels, In(n, k, "sp_bag")
  PROVE  stack[k].sp_bag # NULL
  BY BagAtFields DEF In, Held, InSet, FramesTyped, Levels

\* Levels are numbers.
LEMMA LevelsNat ==
  ASSUME FramesTyped PROVE Levels \in SUBSET Nat
  BY BotTyped DEF Levels

\* A call keeps the dag's invariant.
LEMMA CallDag ==
  ASSUME FramesInv, BagsInv, DagInv, cilk_enter_begin
  PROVE  DagInv'
<1>1. /\ FramesInv' /\ BagsInv' /\ Levels' = Levels \cup {Len(stack) + 1}
      /\ \A k \in Levels : stack'[k] = stack[k] /\ prog'[k] = prog[k]
      /\ stack'[Len(stack) + 1].func_type = "CILK"
      /\ stack'[Len(stack) + 1].ancestor_spawns = spawn_count /\ spawn_count' = spawn_count
      /\ prog'[Len(stack) + 1].entry = cur
      /\ \A n \in 1 .. nnodes, k \in Levels', b \in Bags : In(n, k, b)' => k \in Levels /\ In(n, k, b)
      /\ \A k \in Levels' : stack'[k].sp_bag # NULL => k \in Levels /\ (IsP(k)' <=> IsP(k))
  BY CallStep
<1>2. /\ cur' = cur /\ nstrands' = nstrands /\ peers' = peers /\ memory' = memory /\ last' = last
      /\ nnodes' = nnodes + 1
  BY DEF cilk_enter_begin, Called, readVars, Push
<1>3. Levels \in SUBSET Nat /\ Levels' \in SUBSET Nat
  BY <1>1, LevelsNat DEF FramesInv, Levels, FramesTyped
<1>4. Serial
  <2>1. \A x, c : Point(x, c)' => Point(x, c)
    BY <1>1, <1>2 DEF Point, IsHelper
  <2>2. \A k \in Levels' : IsHelper(k)' => k \in Levels /\ IsHelper(k) /\ prog'[k].cont = prog[k].cont
    BY <1>1 DEF IsHelper
  <2>3. \A k \in Levels' : prog'[k].entry = cur \/ (k \in Levels /\ prog'[k].entry = prog[k].entry)
    BY <1>1
  <2>4. \A n \in 1 .. nnodes, k \in Levels', b \in Bags : In(n, k, b)' =>
          \E i \in Levels, c \in Bags : k <= i /\ In(n, i, c)
    BY <1>1, <1>3
  <2>5. QED
    BY <1>2, <2>1, <2>2, <2>3, <2>4 DEF Serial
<1>5. DagTyped' /\ PointsDiffer' /\ ReadsDiffer' /\ Parallel'
  BY <1>3, <1>4, SerialKeeps
<1>6. ReadsPlaced'
  <2>1. ASSUME NEW n \in 1 .. nnodes, NEW k \in Levels', NEW b \in Bags, In(n, k, b)'
        PROVE  /\ k \in Levels /\ In(n, k, b) /\ stack'[k].ancestor_spawns = stack[k].ancestor_spawns
               /\ Parted(k, b)' => Parted(k, b)
    <3>1. k \in Levels /\ In(n, k, b) /\ stack'[k] = stack[k]
      BY <1>1, <2>1
    <3>2. b = "sp_bag" => stack[k].sp_bag # NULL
      BY <3>1, SpBagHeld DEF FramesInv
    <3>3. QED
      BY <1>1, <3>1, <3>2 DEF Parted
  <2>2. QED
    BY <1>4, <2>1, PlacedStay
<1>7. ReadsKept'
  <2>1. nstrands \in Nat /\ nnodes \in Nat
    BY BotTyped, ForestIs DEF FramesInv
  <2>2. QED
    BY <1>2, <2>1, ReadsStay
<1>8. QED
  BY <1>5, <1>6, <1>7 DEF DagInv

\* What a return does with the strand, for a frame of type t.
Resumes(t) == cur' = IF t = "HELPER" THEN prog[Len(prog)].cont ELSE cur

\* A return starts no strand; it goes back to a point.
LEMMA LeaveSerial ==
  ASSUME FramesInv, NEW t \in {"CILK", "HELPER"}, NEW b0 \in Bags, Leaving(t), LeftTo(b0), Resumes(t),
         Len(stack) >= 2
  PROVE  Serial
<1>1. PICK L : L = Len(stack)
  OBVIOUS
<1>2. L \in Nat /\ L >= 2 /\ L \in Levels /\ Levels = 1 .. L /\ bot = stack[L] /\ Len(prog) = L
  BY <1>1, BotTyped DEF FramesInv, FramesTyped, Levels, bot
<1>3. /\ Levels' = 1 .. L - 1
      /\ \A k \in Levels' : /\ stack'[k].func_type = stack[k].func_type
                            /\ stack'[k].ancestor_spawns = stack[k].ancestor_spawns
                            /\ prog'[k].entry = prog[k].entry /\ prog'[k].cont = prog[k].cont
      /\ spawn_count' = bot.ancestor_spawns /\ spawn_count' = spawn_count
      /\ \A n \in 1 .. nnodes, k \in Levels', b \in Bags : In(n, k, b)' =>
           \/ In(n, k, b)
           \/ k = L - 1 /\ b = "p_bag" /\ In(n, L, "p_bag")
           \/ k = L - 1 /\ b = b0 /\ In(n, L, "ss_bag")
  BY <1>1 DEF LeftTo, LeavesTo
<1>4. peers' = peers /\ nstrands' = nstrands /\ memory' = memory
  BY DEF Leaving
<1>5. cur' = cur \/ (IsHelper(L) /\ cur' = prog[L].cont)
  BY <1>2 DEF Resumes, Leaving, IsHelper
<1>6. \A k \in Levels' : k \in Levels /\ k < L /\ k <= L /\ k <= k
  BY <1>2, <1>3
<1>7. \A k \in Levels' : IsHelper(k)' <=> IsHelper(k)
  BY <1>3 DEF IsHelper
<1>8. \A x, c : Point(x, c)' => Point(x, c)
  BY <1>2, <1>3, <1>5, <1>6, <1>7, ZenonT(30) DEF Point
<1>9. \A n \in 1 .. nnodes, k \in Levels', b \in Bags : In(n, k, b)' =>
        \E i \in Levels, c \in Bags : k <= i /\ In(n, i, c)
  BY <1>2, <1>3, <1>6 DEF Bags
<1>10. QED
  BY <1>2, <1>3, <1>4, <1>5, <1>6, <1>7, <1>8, <1>9 DEF Serial

\* The reads of a spawned child have other peers than any later strand.
LEMMA ChildReads ==
  ASSUME FramesInv, DagInv, Leaving("HELPER"), NEW b0 \in Bags, LeftTo(b0), Resumes("HELPER"),
         Len(stack) >= 2, above.local_spawns # 0,
         NEW e \in EntriesIn(memory), In(e.node, Len(stack), "ss_bag"), NEW x, NEW c, Point(x, c)'
  PROVE  peers[e.reader] # peers[x]
<1>1. PICK L : L = Len(stack)
  OBVIOUS
<1>2. L \in Nat /\ L >= 2 /\ L \in Levels /\ Levels = 1 .. L /\ bot = stack[L] /\ Len(prog) = L
      /\ L - 1 \in Levels /\ above = stack[L - 1] /\ L - 1 < L /\ (L - 1) + 1 = L
      /\ stack[L - 1] \in Frame /\ \A k \in Levels : stack[k] \in Frame
  <2>1. L \in Nat /\ L >= 2 /\ L \in Levels /\ Levels = 1 .. L /\ bot = stack[L] /\ Len(prog) = L
        /\ \A k \in Levels : stack[k] \in Frame
    BY <1>1, BotTyped DEF FramesInv, FramesTyped, Levels, bot
  <2>2. above = stack[L - 1] /\ L - 1 \in Levels
    BY <1>1, <2>1 DEF above
  <2>3. QED
    BY <2>1, <2>2
<1>3. IsHelper(L) /\ cur' = prog[L].cont
  BY <1>2 DEF Leaving, Resumes, IsHelper
<1>4. prog[L].cont \notin peers[prog[L].cont]
  BY <1>2, <1>3 DEF DagInv, DagTyped
<1>5. prog[L].cont \in peers[e.reader]
  <2>1. L <= L
    BY <1>2
  <2>2. QED
    BY <1>1, <1>2, <1>3, <2>1 DEF DagInv, Parallel, Bags
<1>6. CASE x = cur' /\ c = spawn_count'
  BY <1>3, <1>4, <1>5, <1>6
<1>7. ASSUME NEW k \in Levels', c = stack'[k].ancestor_spawns,
             x = prog'[k].entry \/ (IsHelper(k)' /\ x = prog'[k].cont)
      PROVE  peers[e.reader] # peers[x]
  <2>1. k \in Levels /\ k <= L - 1 /\ k \in Nat
    BY <1>1, <1>2 DEF LeftTo
  <2>2. /\ stack'[k].func_type = stack[k].func_type
        /\ stack'[k].ancestor_spawns = stack[k].ancestor_spawns
        /\ prog'[k].entry = prog[k].entry /\ prog'[k].cont = prog[k].cont
    BY DEF LeftTo
  <2>3. Point(x, c)
    BY <1>7, <2>1, <2>2 DEF Point, IsHelper
  <2>4. e.spawns >= stack[L].ancestor_spawns /\ e.spawns \in Nat
    BY <1>1, <1>2 DEF DagInv, ReadsPlaced, ReadsKept, Bags
  <2>5. stack[L].ancestor_spawns = stack[L - 1].ancestor_spawns + stack[L - 1].local_spawns
    <3>1. L - 1 < Len(stack)
      BY <1>1, <1>2
    <3>2. stack[(L - 1) + 1].ancestor_spawns = stack[L - 1].ancestor_spawns + stack[L - 1].local_spawns
      BY <1>2, <3>1 DEF FramesInv, SpawnsCounted
    <3>3. QED
      BY <1>2, <3>2
  <2>6. stack[k].ancestor_spawns <= stack[L - 1].ancestor_spawns
    BY <1>2, <2>1 DEF FramesInv, SpawnsCounted
  <2>7. /\ stack[L - 1].local_spawns \in Nat /\ stack[L - 1].local_spawns # 0
        /\ stack[L - 1].ancestor_spawns \in Nat /\ stack[k].ancestor_spawns \in Nat
    BY <1>2, <2>1 DEF Frame
  <2>8. e.spawns # c
    BY <1>7, <2>2, <2>4, <2>5, <2>6, <2>7
  <2>9. QED
    BY <2>3, <2>8 DEF DagInv, ReadsDiffer
<1>8. QED
  BY <1>6, <1>7 DEF Point

\* The bag of its parent that a frame's SS-bag goes to.
GoesTo(t, b0) ==
  /\ t = "CILK" => \/ above.local_spawns = 0 /\ b0 = "ss_bag"
                   \/ above.local_spawns # 0 /\ b0 = "sp_bag"
                      /\ \A k \in Levels : k = Len(stack) - 1 => ~ IsP(k)'
  /\ t = "HELPER" => above.local_spawns # 0 /\ above.sp_bag = NULL /\ b0 \in {"sp_bag", "p_bag"}

\* A return moves reads only to a bag that says of them what is true.
LEMMA LeavePlaced ==
  ASSUME FramesInv, DagInv, NEW t \in {"CILK", "HELPER"}, NEW b0 \in Bags, Leaving(t), LeftTo(b0),
         Resumes(t), Len(stack) >= 2, GoesTo(t, b0), Serial
  PROVE  ReadsPlaced'
<1>1. PICK L : L = Len(stack)
  OBVIOUS
<1>2. /\ L \in Nat /\ L >= 2 /\ L \in Levels /\ Levels = 1 .. L
      /\ L - 1 \in Levels /\ above = stack[L - 1] /\ L - 1 <= L /\ L \notin 1 .. L - 1
      /\ \A k \in Levels : stack[k] \in Frame
  <2>1. L \in Nat /\ L >= 2 /\ L \in Levels /\ Levels = 1 .. L /\ \A k \in Levels : stack[k] \in Frame
    BY <1>1, BotTyped DEF FramesInv, FramesTyped, Levels
  <2>2. above = stack[L - 1] /\ L - 1 \in Levels
    BY <1>1, <2>1 DEF above
  <2>3. QED
    BY <2>1, <2>2
<1>3. /\ Levels' = 1 .. L - 1 /\ FramesTyped' /\ memory' = memory /\ peers' = peers
      /\ \A k \in Levels' : stack'[k].ancestor_spawns = stack[k].ancestor_spawns
      /\ \A n \in 1 .. nnodes, k \in Levels', b \in Bags : In(n, k, b)' =>
           \/ In(n, k, b)
           \/ k = L - 1 /\ b = "p_bag" /\ In(n, L, "p_bag")
           \/ k = L - 1 /\ b = b0 /\ In(n, L, "ss_bag")
      /\ \A k \in Levels' : stack'[k].sp_bag # NULL /\ (k = L - 1 => b0 # "sp_bag") =>
           (IsP(k)' <=> IsP(k))
      /\ \A x, c : Point(x, c)' => Point(x, c)
  BY <1>1 DEF LeftTo, LeavesTo, FramesInv, Serial
<1>4. stack[L].ancestor_spawns = stack[L - 1].ancestor_spawns + stack[L - 1].local_spawns
  <2>1. L - 1 < Len(stack) /\ (L - 1) + 1 = L
    BY <1>1, <1>2
  <2>2. stack[(L - 1) + 1].ancestor_spawns = stack[L - 1].ancestor_spawns + stack[L - 1].local_spawns
    BY <1>2, <2>1 DEF FramesInv, SpawnsCounted
  <2>3. QED
    BY <2>1, <2>2
<1>5. stack[L - 1].ancestor_spawns \in Nat /\ stack[L - 1].local_spawns \in Nat
      /\ stack[L].ancestor_spawns \in Nat
  BY <1>2 DEF Frame
<1>6. ASSUME NEW e \in EntriesIn(memory), NEW k \in Levels', NEW b \in Bags, In(e.node, k, b)'
      PROVE  /\ e.spawns >= stack[k].ancestor_spawns
             /\ b # "ss_bag" => e.spawns > stack[k].ancestor_spawns
             /\ Parted(k, b)' => \A x, c : Point(x, c)' => peers[e.reader] # peers[x]
  <2>1. e.node \in 1 .. nnodes /\ e.spawns \in Nat
    BY DEF DagInv, ReadsKept
  <2>2. \/ In(e.node, k, b)
        \/ k = L - 1 /\ b = "p_bag" /\ In(e.node, L, "p_bag")
        \/ k = L - 1 /\ b = b0 /\ In(e.node, L, "ss_bag")
    BY <1>3, <1>6, <2>1
  <2>3. k \in Levels
    BY <1>2, <1>3
  <2>4. CASE In(e.node, k, b)
    <3>1. /\ e.spawns >= stack[k].ancestor_spawns
          /\ b # "ss_bag" => e.spawns > stack[k].ancestor_spawns
          /\ Parted(k, b) => \A x, c : Point(x, c) => peers[e.reader] # peers[x]
      BY <2>3, <2>4 DEF DagInv, ReadsPlaced
    <3>2. Parted(k, b)' => Parted(k, b)
      <4>1. CASE b # "sp_bag"
        BY <4>1 DEF Parted
      <4>2. CASE b = "sp_bag"
        <5>1. stack'[k].sp_bag # NULL
          BY <1>3, <1>6, <4>2, BagAtFields DEF In, Held, InSet, FramesTyped, Levels
        <5>2. stack[k].sp_bag # NULL
          BY <2>3, <2>4, <4>2, SpBagHeld DEF FramesInv
        <5>3. CASE k = L - 1 /\ b0 = "sp_bag"
          BY <1>1, <1>2, <4>2, <5>2, <5>3 DEF Parted, GoesTo
        <5>4. CASE ~ (k = L - 1 /\ b0 = "sp_bag")
          BY <1>3, <4>2, <5>1, <5>4 DEF Parted
        <5>5. QED
          BY <5>3, <5>4
      <4>3. QED
        BY <4>1, <4>2
    <3>3. QED
      BY <1>3, <3>1, <3>2
  <2>5. CASE k = L - 1 /\ b = "p_bag" /\ In(e.node, L, "p_bag")
    <3>1. /\ e.spawns > stack[L].ancestor_spawns
          /\ \A x, c : Point(x, c) => peers[e.reader] # peers[x]
      BY <1>2, <2>5 DEF DagInv, ReadsPlaced, Bags, Parted
    <3>2. QED
      BY <1>3, <1>4, <1>5, <2>1, <2>5, <3>1, SMTT(30)
  <2>6. CASE k = L - 1 /\ b = b0 /\ In(e.node, L, "ss_bag")
    <3>1. e.spawns >= stack[L].ancestor_spawns
      BY <1>2, <2>6 DEF DagInv, ReadsPlaced, Bags
    <3>2. b0 # "ss_bag" => stack[L - 1].local_spawns # 0
      BY <1>2 DEF GoesTo
    <3>3. e.spawns >= stack[k].ancestor_spawns /\ (b # "ss_bag" => e.spawns > stack[k].ancestor_spawns)
      BY <1>4, <1>5, <2>1, <2>6, <3>1, <3>2
    <3>4. ASSUME Parted(k, b)', NEW x, NEW c, Point(x, c)' PROVE peers[e.reader] # peers[x]
      <4>1. CASE t = "CILK"
        <5>1. b # "p_bag" /\ (b = "sp_bag" => ~ IsP(k)')
          BY <1>1, <2>3, <2>6, <4>1 DEF GoesTo
        <5>2. QED
          BY <3>4, <5>1 DEF Parted
      <4>2. CASE t = "HELPER"
        BY <1>1, <2>6, <3>4, <4>2, ChildReads DEF GoesTo
      <4>3. QED
        BY <4>1, <4>2
    <3>5. QED
      BY <3>3, <3>4
  <2>7. QED
    BY <2>2, <2>4, <2>5, <2>6
<1>7. QED
  BY <1>3, <1>6 DEF ReadsPlaced

\* A return keeps the dag's invariant.
LEMMA LeaveDag ==
  ASSUME FramesInv, BagsInv, DagInv, NEW t \in {"CILK", "HELPER"}, NEW b0 \in Bags, Leaving(t), LeftTo(b0),
         Resumes(t), Len(stack) >= 2, GoesTo(t, b0)
  PROVE  DagInv'
<1>1. Serial
  BY LeaveSerial
<1>2. ReadsPlaced'
  BY <1>1, LeavePlaced
<1>3. Levels \in SUBSET Nat /\ Levels' \in SUBSET Nat
  BY LevelsNat DEF FramesInv, LeftTo, Levels, FramesTyped
<1>4. DagTyped' /\ PointsDiffer' /\ ReadsDiffer' /\ Parallel'
  BY <1>1, <1>3, SerialKeeps
<1>5. ReadsKept'
  <2>1. nstrands \in Nat /\ nnodes \in Nat
    BY BotTyped, ForestIs DEF FramesInv
  <2>2. memory' = memory /\ last' = last /\ nstrands' = nstrands /\ nnodes' = nnodes
    BY DEF Leaving, readVars
  <2>3. QED
    BY <2>1, <2>2, ReadsStay
<1>6. QED
  BY <1>2, <1>4, <1>5 DEF DagInv

\* A called function returns: all parts of the invariant.
LEMMA ReturnDag ==
  ASSUME FramesInv, BagsInv, DagInv, cilk_leave_begin_function
  PROVE  FramesInv' /\ BagsInv' /\ DagInv' /\ outcome' = "running"
<1>1. Leaving("CILK") /\ Resumes("CILK")
  BY DEF cilk_leave_begin_function, Resumes
<1>2. Len(stack) >= 2
  <2>1. LeaveKnown("CILK", Len(stack), ReturnedForest, Returned(stack, forest))
    BY <1>1, LeaveFacts
  <2>2. QED
    BY <2>1 DEF LeaveKnown
<1>3. /\ outcome' = "running"
      /\ above.local_spawns = 0 => LeftTo("ss_bag")
      /\ above.local_spawns # 0 => LeftTo("sp_bag") /\ \A k \in Levels : k = Len(stack) - 1 => ~ IsP(k)'
  BY ReturnStep
<1>4. PICK b0 \in Bags : GoesTo("CILK", b0) /\ LeftTo(b0)
  BY <1>3 DEF GoesTo, Bags
<1>5. DagInv'
  BY <1>1, <1>2, <1>4, LeaveDag
<1>6. QED
  BY <1>3, <1>4, <1>5 DEF LeftTo

\* A spawned child returns: all parts of the invariant.
LEMMA HelperReturnDag ==
  ASSUME FramesInv, BagsInv, DagInv, cilk_leave_begin_helper
  PROVE  FramesInv' /\ BagsInv' /\ DagInv' /\ outcome' # "assertion failed"
<1>1. Leaving("HELPER") /\ Resumes("HELPER")
  BY DEF cilk_leave_begin_helper, Resumes
<1>2. Len(stack) >= 2 /\ above.sp_bag = NULL /\ above.local_spawns # 0
  <2>1. LeaveKnown("HELPER", Len(stack), ReturnedForest, Returned(stack, forest))
    BY <1>1, LeaveFacts
  <2>2. QED
    BY <2>1 DEF LeaveKnown
<1>3. outcome' # "assertion failed" /\ (LeftTo("sp_bag") \/ LeftTo("p_bag"))
  BY HelperReturnStep
<1>4. PICK b0 \in Bags : GoesTo("HELPER", b0) /\ LeftTo(b0)
  BY <1>2, <1>3 DEF GoesTo, Bags
<1>5. DagInv'
  BY <1>1, <1>2, <1>4, LeaveDag
<1>6. QED
  BY <1>3, <1>4, <1>5 DEF LeftTo

\* New strands change no peers among the old ones.
Grown ==
  /\ nstrands \in Nat /\ nstrands' \in Nat /\ nstrands <= nstrands'
  /\ peers' \in [Strands -> SUBSET (1 .. nstrands')]
  /\ \A x, s \in 1 .. nstrands : s \in peers'[x] <=> s \in peers[x]

\* Peers that were different stay different.
LEMMA GrownDiffer ==
  ASSUME FramesTyped, DagTyped, Grown, NEW x \in 1 .. nstrands, NEW y \in 1 .. nstrands, peers[x] # peers[y]
  PROVE  peers'[x] # peers'[y]
<1>1. peers[x] \subseteq 1 .. nstrands /\ peers[y] \subseteq 1 .. nstrands
  BY BotTyped DEF DagTyped
<1>2. PICK s \in 1 .. nstrands : ~ (s \in peers[x] <=> s \in peers[y])
  BY <1>1
<1>3. QED
  BY <1>2 DEF Grown

\* Each of the two strands of a spawn is a peer of the other and not of
\* itself; an older strand has both for peers, or neither.
SpawnedPeers ==
  LET n == nstrands
  IN  /\ nstrands' = n + 2 /\ cur' = n + 1 /\ n + 1 \in Strands /\ n + 2 \in Strands
      /\ peers'[n + 1] = peers[cur] \cup {n + 2} /\ peers'[n + 2] = peers[cur] \cup {n + 1}
      /\ \A x \in 1 .. n : n + 1 \in peers'[x] <=> n + 2 \in peers'[x]

\* The peers after a spawn.
LEMMA SpawnPeers ==
  ASSUME FramesTyped, DagTyped, Spawned
  PROVE  Grown /\ SpawnedPeers
<1>1. PICK n, P, pe, q : n = nstrands /\ P = peers[cur] /\ pe = peers /\ q = WithStrand(peers, n + 1, P)
  OBVIOUS
<1>2. /\ n \in Nat /\ nstrands' = n + 2 /\ cur' = n + 1 /\ n + 2 <= MaxStrands
      /\ peers' = WithStrand(q, n + 2, P \cup {n + 1})
  <2>1. n \in Nat
    BY <1>1, BotTyped
  <2>2. nstrands' = n + 2 /\ cur' = n + 1 /\ n + 2 <= MaxStrands
        /\ peers' = WithStrand(q, n + 2, P \cup {n + 1})
    BY <1>1 DEF Spawned
  <2>3. QED
    BY <2>1, <2>2
<1>3. n + 1 \in Strands /\ n + 2 \in Strands /\ 1 .. n \subseteq Strands /\ MaxStrands \in Nat
  BY <1>2, BoundsAssumption DEF Strands
<1>4. pe \in [Strands -> SUBSET (1 .. n)] /\ P \subseteq 1 .. n
  BY <1>1, BotTyped DEF DagTyped
<1>5. \A x \in Strands : q[x] = IF x = n + 1 THEN P ELSE IF x \in P THEN pe[x] \cup {n + 1} ELSE pe[x]
  BY <1>1 DEF WithStrand
<1>6. peers' = [x \in Strands |-> IF x = n + 2 THEN P \cup {n + 1}
                                  ELSE IF x \in P \cup {n + 1} THEN q[x] \cup {n + 2} ELSE q[x]]
  BY <1>2 DEF WithStrand
<1>7. \A x \in Strands : peers'[x] = IF x = n + 2 THEN P \cup {n + 1}
                                     ELSE IF x \in P \cup {n + 1} THEN q[x] \cup {n + 2} ELSE q[x]
  BY <1>6
<1>8. n + 1 # n + 2 /\ n + 1 \notin 1 .. n /\ n + 2 \notin 1 .. n /\ 1 .. n \subseteq 1 .. n + 2
      /\ n + 1 \in 1 .. n + 2 /\ n + 2 \in 1 .. n + 2 /\ n <= n + 2 /\ n + 2 \in Nat
  BY <1>2
<1>9. \A x \in Strands : q[x] \subseteq 1 .. n + 2
  BY <1>4, <1>5, <1>8, ZenonT(30)
<1>10. \A x \in Strands : peers'[x] \subseteq 1 .. n + 2
  BY <1>4, <1>7, <1>8, <1>9, ZenonT(30)
<1>11. peers' \in [Strands -> SUBSET (1 .. n + 2)]
  <2>1. peers' = [x \in Strands |-> peers'[x]]
    BY <1>6
  <2>2. QED
    BY <1>10, <2>1
<1>12. peers'[n + 1] = P \cup {n + 2} /\ peers'[n + 2] = P \cup {n + 1}
  BY <1>3, <1>5, <1>7, <1>8
<1>13. ASSUME NEW x \in 1 .. n
       PROVE  /\ n + 1 \in peers'[x] <=> n + 2 \in peers'[x]
              /\ \A s \in 1 .. n : s \in peers'[x] <=> s \in pe[x]
  <2>1. x \in Strands /\ x # n + 1 /\ x # n + 2 /\ pe[x] \subseteq 1 .. n
    BY <1>3, <1>4, <1>8
  <2>2. peers'[x] = IF x \in P THEN (pe[x] \cup {n + 1}) \cup {n + 2} ELSE pe[x]
    BY <1>5, <1>7, <2>1
  <2>3. QED
    BY <1>8, <2>1, <2>2
<1>14. QED
  BY <1>1, <1>2, <1>3, <1>8, <1>11, <1>12, <1>13 DEF Grown, SpawnedPeers

\* The peers after a sync that joined something.
LEMMA SyncPeers ==
  ASSUME FramesTyped, DagTyped, Synced, prog[Len(prog)].unsynced # 0
  PROVE  /\ Grown /\ nstrands' = nstrands + 1 /\ cur' = nstrands + 1
         /\ peers'[nstrands + 1] = peers[prog[Len(prog)].entry]
<1>1. PICK n, P, pe : n = nstrands /\ P = peers[prog[Len(prog)].entry] /\ pe = peers
  OBVIOUS
<1>2. n \in Nat /\ nstrands' = n + 1 /\ cur' = n + 1 /\ n < MaxStrands /\ peers' = WithStrand(pe, n + 1, P)
  BY <1>1, BotTyped DEF Synced
<1>3. n + 1 \in Strands /\ 1 .. n \subseteq Strands /\ MaxStrands \in Nat
  BY <1>2, BoundsAssumption DEF Strands
<1>4. pe \in [Strands -> SUBSET (1 .. n)] /\ P \subseteq 1 .. n
  <2>1. prog[Len(prog)].entry \in Strands
    BY BotTyped DEF FramesTyped, Progress
  <2>2. QED
    BY <1>1, <2>1 DEF DagTyped
<1>5. peers' = [x \in Strands |-> IF x = n + 1 THEN P ELSE IF x \in P THEN pe[x] \cup {n + 1} ELSE pe[x]]
  BY <1>2 DEF WithStrand
<1>6. \A x \in Strands : peers'[x] = IF x = n + 1 THEN P ELSE IF x \in P THEN pe[x] \cup {n + 1} ELSE pe[x]
  BY <1>5
<1>7. n + 1 \notin 1 .. n /\ 1 .. n \subseteq 1 .. n + 1 /\ n + 1 \in 1 .. n + 1 /\ n <= n + 1 /\ n + 1 \in Nat
  BY <1>2
<1>8. \A x \in Strands : peers'[x] \subseteq 1 .. n + 1
  BY <1>4, <1>6, <1>7
<1>9. peers' \in [Strands -> SUBSET (1 .. n + 1)]
  <2>1. peers' = [x \in Strands |-> peers'[x]]
    BY <1>5
  <2>2. QED
    BY <1>8, <2>1
<1>10. ASSUME NEW x \in 1 .. n PROVE \A s \in 1 .. n : s \in peers'[x] <=> s \in pe[x]
  <2>1. x \in Strands /\ x # n + 1
    BY <1>3, <1>7
  <2>2. peers'[x] = IF x \in P THEN pe[x] \cup {n + 1} ELSE pe[x]
    BY <1>6, <2>1
  <2>3. QED
    BY <1>7, <2>2
<1>11. QED
  BY <1>1, <1>2, <1>3, <1>6, <1>7, <1>9, <1>10 DEF Grown

\* What a flush of the top frame leaves of what is known of the reads.
LEMMA FlushPlaced ==
  ASSUME FramesInv, BagsInv, DagInv, Flushing, NEW e \in EntriesIn(memory), NEW k \in Levels', NEW b \in Bags,
         FramesTyped', In(e.node, k, b)'
  PROVE  /\ k \in Levels /\ \E c \in Bags : In(e.node, k, c)
         /\ e.spawns >= stack[k].ancestor_spawns /\ (b # "ss_bag" => e.spawns > stack[k].ancestor_spawns)
         /\ Parted(k, b)' => \A x, c : Point(x, c) /\ c <= bot.ancestor_spawns => peers[e.reader] # peers[x]
<1>1. e.node \in 1 .. nnodes /\ e.spawns \in Nat
  BY DEF DagInv, ReadsKept
<1>2. /\ k \in Levels
      /\ IF k = Len(stack) /\ b = "p_bag" THEN In(e.node, k, "p_bag") \/ In(e.node, k, "sp_bag")
         ELSE In(e.node, k, b)
  BY <1>1 DEF Flushing
<1>3. stack[k] \in Frame /\ stack[k].ancestor_spawns \in Nat
  BY <1>2, BotTyped DEF FramesInv, Frame
<1>4. CASE In(e.node, k, b)
  <2>1. /\ e.spawns >= stack[k].ancestor_spawns
        /\ b # "ss_bag" => e.spawns > stack[k].ancestor_spawns
        /\ Parted(k, b) => \A x, c : Point(x, c) => peers[e.reader] # peers[x]
    BY <1>2, <1>4 DEF DagInv, ReadsPlaced
  <2>2. b = "sp_bag" => stack'[k].sp_bag # NULL
    BY BagAtFields DEF In, Held, InSet, FramesTyped, Levels
  <2>3. Parted(k, b)' => Parted(k, b)
    BY <2>2 DEF Parted, Flushing
  <2>4. QED
    BY <1>2, <1>4, <2>1, <2>3
<1>5. CASE k = Len(stack) /\ b = "p_bag" /\ In(e.node, k, "sp_bag")
  <2>1. e.spawns > stack[k].ancestor_spawns /\ stack[k] = bot
    BY <1>2, <1>5 DEF DagInv, ReadsPlaced, Bags, bot
  <2>2. ASSUME NEW x, NEW c, Point(x, c), c <= bot.ancestor_spawns
        PROVE  peers[e.reader] # peers[x]
    <3>1. c \in Nat
      BY <2>2, PointTyped DEF FramesInv
    <3>2. e.spawns # c
      BY <1>1, <1>3, <2>1, <2>2, <3>1
    <3>3. QED
      BY <2>2, <3>2 DEF DagInv, ReadsDiffer
  <2>3. QED
    BY <1>1, <1>2, <1>3, <1>5, <2>1, <2>2 DEF Bags
<1>6. QED
  BY <1>2, <1>4, <1>5

\* Parallel, for a step that starts strands and keeps the frames below the top.
LEMMA GrownParallel ==
  ASSUME FramesInv, BagsInv, DagInv, Grown, Flushing, FramesTyped', memory' = memory, NEW j \in Levels, IsHelper(j),
         cur \in 1 .. nstrands
  PROVE  /\ prog[j].cont \in 1 .. nstrands /\ prog[j].cont \in peers'[cur]
         /\ \A i \in Levels : j <= i => prog[j].cont \in peers'[prog[i].entry]
         /\ \A i \in Levels : j < i /\ IsHelper(i) => prog[j].cont \in peers'[prog[i].cont]
         /\ \A e \in EntriesIn(memory), k \in Levels', b \in Bags :
              j <= k /\ In(e.node, k, b)' => prog[j].cont \in peers'[e.reader]
<1>1. /\ prog[j].cont \in peers[cur]
      /\ \A i \in Levels : j <= i => prog[j].cont \in peers[prog[i].entry]
      /\ \A i \in Levels : j < i /\ IsHelper(i) => prog[j].cont \in peers[prog[i].cont]
      /\ \A e \in EntriesIn(memory), k \in Levels, b \in Bags :
           j <= k /\ In(e.node, k, b) => prog[j].cont \in peers[e.reader]
  BY DEF DagInv, Parallel
<1>2. \A i \in Levels : prog[i].cont \in 1 .. nstrands /\ prog[i].entry \in 1 .. nstrands
  BY DEF FramesInv, FramesTyped
<1>3. \A x, s \in 1 .. nstrands : s \in peers'[x] <=> s \in peers[x]
  BY DEF Grown
<1>4. ASSUME NEW e \in EntriesIn(memory), NEW k \in Levels', NEW b \in Bags, j <= k, In(e.node, k, b)'
      PROVE  prog[j].cont \in peers'[e.reader]
  <2>1. k \in Levels /\ \E c \in Bags : In(e.node, k, c)
    BY <1>4, FlushPlaced
  <2>2. prog[j].cont \in peers[e.reader]
    BY <1>1, <1>4, <2>1
  <2>3. e.reader \in 1 .. nstrands
    BY DEF DagInv, ReadsKept
  <2>4. QED
    BY <1>2, <1>3, <2>2, <2>3
<1>5. QED
  BY <1>1, <1>2, <1>3, <1>4

\* A spawn keeps all parts of the invariant.
LEMMA SpawnDag ==
  ASSUME FramesInv, BagsInv, DagInv, cilk_enter_helper_begin, outcome = "running"
  PROVE  FramesInv' /\ BagsInv' /\ DagInv' /\ outcome' = "running"
<1>1. PICK n, L : n = nstrands /\ L = Len(stack)
  OBVIOUS
<1>2. /\ FramesInv' /\ BagsInv' /\ outcome' = "running" /\ Flushing
      /\ Levels' = Levels \cup {L + 1}
      /\ \A k \in Levels : /\ stack'[k].func_type = stack[k].func_type
                           /\ stack'[k].ancestor_spawns = stack[k].ancestor_spawns
                           /\ prog'[k] = prog[k]
      /\ stack'[L + 1].func_type = "HELPER"
      /\ stack'[L + 1].ancestor_spawns = spawn_count + 1 /\ spawn_count' = spawn_count + 1
      /\ prog'[L + 1].entry = n + 1 /\ prog'[L + 1].cont = n + 2
  BY <1>1, SpawnStep
<1>3. Spawned /\ memory' = memory /\ last' = last
  BY DEF cilk_enter_helper_begin, readVars
<1>4. Grown /\ SpawnedPeers /\ FramesTyped /\ FramesTyped' /\ DagTyped
  BY <1>2, <1>3, SpawnPeers DEF FramesInv, DagInv
<1>5. /\ L \in Nat /\ L \in Levels /\ Levels = 1 .. L /\ bot = stack[L] /\ cur \in 1 .. n /\ n \in Nat
      /\ spawn_count \in Nat /\ bot.ancestor_spawns \in Nat /\ bot.ancestor_spawns <= spawn_count
  BY <1>1, <1>4, BotTyped, SMTT(30) DEF Levels, bot, Frame, spawn_count, FramesTyped
<1>6. /\ nstrands' = n + 2 /\ cur' = n + 1 /\ n + 1 \in Strands /\ n + 2 \in Strands
      /\ peers'[n + 1] = peers[cur] \cup {n + 2} /\ peers'[n + 2] = peers[cur] \cup {n + 1}
      /\ \A x \in 1 .. n : n + 1 \in peers'[x] <=> n + 2 \in peers'[x]
      /\ \A x, s \in 1 .. n : s \in peers'[x] <=> s \in peers[x]
      /\ peers' \in [Strands -> SUBSET (1 .. n + 2)]
  BY <1>1, <1>4 DEF SpawnedPeers, Grown
<1>7. peers[cur] \subseteq 1 .. n /\ n + 1 \notin 1 .. n /\ n + 2 \notin 1 .. n /\ n + 1 # n + 2
  BY <1>1, <1>4, <1>5, BotTyped DEF DagTyped
<1>8. ASSUME NEW x \in {n + 1, n + 2}, NEW y \in 1 .. n PROVE peers'[x] # peers'[y]
  BY <1>6, <1>7
<1>9. ASSUME NEW x, NEW c, Point(x, c)'
      PROVE  \/ x \in {n + 1, n + 2} /\ c = spawn_count + 1
             \/ Point(x, c) /\ x \in 1 .. n /\ c <= bot.ancestor_spawns
  <2>1. CASE x = cur' /\ c = spawn_count'
    BY <1>2, <1>6, <2>1
  <2>2. ASSUME NEW k \in Levels', c = stack'[k].ancestor_spawns,
               x = prog'[k].entry \/ (IsHelper(k)' /\ x = prog'[k].cont)
        PROVE  \/ x \in {n + 1, n + 2} /\ c = spawn_count + 1
               \/ Point(x, c) /\ x \in 1 .. n /\ c <= bot.ancestor_spawns
    <3>1. CASE k = L + 1
      BY <1>2, <2>2, <3>1
    <3>2. CASE k \in Levels
      <4>1. Point(x, c)
        BY <1>2, <2>2, <3>2 DEF Point, IsHelper
      <4>2. x \in 1 .. n
        BY <1>1, <1>4, <4>1, PointTyped
      <4>3. k <= L
        BY <1>5, <3>2
      <4>4. stack[k].ancestor_spawns <= stack[L].ancestor_spawns
        BY <1>5, <3>2, <4>3 DEF FramesInv, SpawnsCounted
      <4>5. QED
        BY <1>2, <1>5, <2>2, <3>2, <4>1, <4>2, <4>4
    <3>3. QED
      BY <1>2, <3>1, <3>2
  <2>3. QED
    BY <1>9, <2>1, <2>2 DEF Point
<1>10. \A e \in EntriesIn(memory) : e.reader \in 1 .. n
  BY <1>1 DEF DagInv, ReadsKept
<1>11. DagTyped'
  <2>1. ASSUME NEW k \in Levels', IsHelper(k)' PROVE prog'[k].cont \notin peers'[prog'[k].cont]
    <3>1. CASE k = L + 1
      BY <1>2, <1>6, <1>7, <3>1
    <3>2. CASE k \in Levels
      <4>1. prog[k].cont \notin peers[prog[k].cont] /\ prog[k].cont \in 1 .. n /\ prog'[k] = prog[k]
        BY <1>1, <1>2, <1>4, <2>1, <3>2 DEF DagTyped, FramesTyped, IsHelper
      <4>2. QED
        BY <1>6, <4>1
    <3>3. QED
      BY <1>2, <3>1, <3>2
  <2>2. QED
    BY <1>6, <2>1 DEF DagTyped
<1>12. ASSUME NEW x, NEW y, NEW c, NEW d, Point(x, c)', Point(y, d)', c # d PROVE peers'[x] # peers'[y]
  <2>1. CASE x \in {n + 1, n + 2} /\ y \in {n + 1, n + 2}
    <3>1. c = spawn_count + 1 /\ d = spawn_count + 1
      BY <1>7, <1>9, <1>12, <2>1
    <3>2. QED
      BY <1>12, <3>1
  <2>2. CASE (x \in {n + 1, n + 2} /\ y \in 1 .. n) \/ (y \in {n + 1, n + 2} /\ x \in 1 .. n)
    BY <1>8, <2>2
  <2>3. CASE x \in 1 .. n /\ y \in 1 .. n
    <3>1. Point(x, c) /\ Point(y, d)
      BY <1>7, <1>9, <1>12, <2>3
    <3>2. peers[x] # peers[y]
      BY <1>12, <3>1 DEF DagInv, PointsDiffer
    <3>3. QED
      BY <1>1, <1>4, <2>3, <3>2, GrownDiffer
  <2>4. QED
    BY <1>9, <1>12, <2>1, <2>2, <2>3
<1>13. ASSUME NEW e \in EntriesIn(memory), NEW x, NEW c, Point(x, c)', e.spawns # c
       PROVE  peers'[e.reader] # peers'[x]
  <2>1. CASE x \in {n + 1, n + 2}
    BY <1>8, <1>10, <2>1
  <2>2. CASE Point(x, c) /\ x \in 1 .. n
    <3>1. peers[e.reader] # peers[x]
      BY <1>13, <2>2 DEF DagInv, ReadsDiffer
    <3>2. QED
      BY <1>1, <1>4, <1>10, <2>2, <3>1, GrownDiffer
  <2>3. QED
    BY <1>9, <1>13, <2>1, <2>2
<1>14. Parallel'
  <2>1. ASSUME NEW j \in Levels', IsHelper(j)'
        PROVE  /\ prog'[j].cont \in peers'[cur']
               /\ \A i \in Levels' : j <= i => prog'[j].cont \in peers'[prog'[i].entry]
               /\ \A i \in Levels' : j < i /\ IsHelper(i)' => prog'[j].cont \in peers'[prog'[i].cont]
               /\ \A e \in EntriesIn(memory'), k \in Levels', b \in Bags :
                    j <= k /\ In(e.node, k, b)' => prog'[j].cont \in peers'[e.reader]
    <3>1. CASE j = L + 1
      <4>1. prog'[j].cont = n + 2 /\ prog'[j].entry = n + 1 /\ n + 2 \in peers'[n + 1]
        BY <1>2, <1>6, <3>1
      <4>2. \A i \in Levels' : (j <= i => i = j) /\ ~ (j < i)
        BY <1>2, <1>5, <3>1
      <4>3. ASSUME NEW e \in EntriesIn(memory'), NEW k \in Levels', NEW b \in Bags, j <= k, In(e.node, k, b)'
            PROVE  FALSE
        <5>1. k \in Levels
          BY <1>3, <1>4, <4>3, FlushPlaced, <1>2
        <5>2. QED
          BY <1>5, <3>1, <4>3, <5>1
      <4>4. QED
        BY <1>6, <4>1, <4>2, <4>3
    <3>2. CASE j \in Levels
      <4>1. IsHelper(j) /\ prog'[j] = prog[j]
        BY <1>2, <2>1, <3>2 DEF IsHelper
      <4>2. /\ prog[j].cont \in 1 .. n /\ prog[j].cont \in peers'[cur]
            /\ \A i \in Levels : j <= i => prog[j].cont \in peers'[prog[i].entry]
            /\ \A i \in Levels : j < i /\ IsHelper(i) => prog[j].cont \in peers'[prog[i].cont]
            /\ \A e \in EntriesIn(memory), k \in Levels', b \in Bags :
                 j <= k /\ In(e.node, k, b)' => prog[j].cont \in peers'[e.reader]
        BY <1>1, <1>2, <1>3, <1>4, <1>5, <3>2, <4>1, GrownParallel
      <4>3. prog[j].cont \in peers'[n + 1] /\ prog[j].cont \in peers'[n + 2]
        BY <1>5, <1>6, <4>2
      <4>4. ASSUME NEW i \in Levels'
            PROVE  /\ j <= i => prog'[j].cont \in peers'[prog'[i].entry]
                   /\ j < i /\ IsHelper(i)' => prog'[j].cont \in peers'[prog'[i].cont]
        <5>1. CASE i = L + 1
          BY <1>2, <4>1, <4>3, <5>1
        <5>2. CASE i \in Levels
          BY <1>2, <4>1, <4>2, <5>2 DEF IsHelper
        <5>3. QED
          BY <1>2, <5>1, <5>2
      <4>5. QED
        BY <1>3, <1>6, <4>1, <4>2, <4>3, <4>4
    <3>3. QED
      BY <1>2, <3>1, <3>2
  <2>2. QED
    BY <2>1 DEF Parallel
<1>15. ReadsPlaced'
  <2>1. ASSUME NEW e \in EntriesIn(memory), NEW k \in Levels', NEW b \in Bags, In(e.node, k, b)'
        PROVE  /\ e.spawns >= stack'[k].ancestor_spawns
               /\ b # "ss_bag" => e.spawns > stack'[k].ancestor_spawns
               /\ Parted(k, b)' => \A x, c : Point(x, c)' => peers'[e.reader] # peers'[x]
    <3>1. /\ k \in Levels
          /\ e.spawns >= stack[k].ancestor_spawns /\ (b # "ss_bag" => e.spawns > stack[k].ancestor_spawns)
          /\ Parted(k, b)' => \A x, c : Point(x, c) /\ c <= bot.ancestor_spawns => peers[e.reader] # peers[x]
      BY <1>2, <1>4, <2>1, FlushPlaced
    <3>2. ASSUME Parted(k, b)', NEW x, NEW c, Point(x, c)' PROVE peers'[e.reader] # peers'[x]
      <4>1. CASE x \in {n + 1, n + 2}
        BY <1>8, <1>10, <4>1
      <4>2. CASE Point(x, c) /\ x \in 1 .. n /\ c <= bot.ancestor_spawns
        <5>1. peers[e.reader] # peers[x]
          BY <3>1, <3>2, <4>2
        <5>2. QED
          BY <1>1, <1>4, <1>10, <4>2, <5>1, GrownDiffer
      <4>3. QED
        BY <1>9, <3>2, <4>1, <4>2
    <3>3. QED
      BY <1>2, <3>1, <3>2
  <2>2. QED
    BY <1>3, <2>1 DEF ReadsPlaced
<1>16. ReadsKept'
  <2>1. nnodes \in Nat /\ nnodes' \in Nat /\ nnodes <= nnodes'
    <3>1. nnodes \in Nat /\ nnodes' = nnodes + 1
      BY ForestIs DEF cilk_enter_helper_begin, Push
    <3>2. QED
      BY <3>1
  <2>2. QED
    BY <1>3, <1>4, <2>1, ReadsStay DEF Grown
<1>17. PointsDiffer' /\ ReadsDiffer'
  BY <1>3, <1>12, <1>13 DEF PointsDiffer, ReadsDiffer
<1>18. QED
  BY <1>2, <1>11, <1>14, <1>15, <1>16, <1>17 DEF DagInv

\* So does a sync that joins something.
LEMMA JoinDag ==
  ASSUME FramesInv, BagsInv, DagInv, cilk_sync_end, outcome = "running", prog[Len(prog)].unsynced # 0
  PROVE  FramesInv' /\ BagsInv' /\ DagInv' /\ outcome' = "running"
<1>1. PICK n, L, m, s : n = nstrands /\ L = Len(stack) /\ m = prog[L].entry /\ s = n + 1
  OBVIOUS
<1>2. /\ FramesInv' /\ BagsInv' /\ outcome' = "running" /\ Flushing /\ Levels' = Levels
      /\ \A k \in Levels : /\ stack'[k].func_type = stack[k].func_type
                           /\ stack'[k].ancestor_spawns = stack[k].ancestor_spawns
                           /\ prog'[k].entry = prog[k].entry /\ prog'[k].cont = prog[k].cont
      /\ spawn_count' = bot.ancestor_spawns
  BY SyncStep
<1>3. Synced /\ memory' = memory /\ last' = last /\ nnodes' = nnodes
  BY DEF cilk_sync_end, readVars
<1>4. FramesTyped /\ FramesTyped' /\ DagTyped /\ Len(prog) = L
  BY <1>1, <1>2 DEF FramesInv, FramesTyped, DagInv
<1>5. Grown /\ nstrands' = n + 1 /\ cur' = s /\ peers'[s] = peers[m]
  BY <1>1, <1>3, <1>4, SyncPeers
<1>6. /\ L \in Nat /\ L \in Levels /\ Levels = 1 .. L /\ bot = stack[L] /\ cur \in 1 .. n /\ n \in Nat
      /\ bot.ancestor_spawns \in Nat /\ m \in 1 .. n /\ s \notin 1 .. n
      /\ \A x, t \in 1 .. n : t \in peers'[x] <=> t \in peers[x]
      /\ peers' \in [Strands -> SUBSET (1 .. n + 1)] /\ 1 .. n \subseteq Strands
  <2>1. /\ L \in Nat /\ L \in Levels /\ Levels = 1 .. L /\ bot = stack[L] /\ cur \in 1 .. n /\ n \in Nat
        /\ bot.ancestor_spawns \in Nat /\ m \in 1 .. n /\ 1 .. n \subseteq Strands
    BY <1>1, <1>4, BotTyped DEF Levels, bot, Frame, FramesTyped
  <2>2. s \notin 1 .. n
    BY <1>1, <2>1
  <2>3. (\A x, t \in 1 .. n : t \in peers'[x] <=> t \in peers[x])
        /\ peers' \in [Strands -> SUBSET (1 .. n + 1)]
    BY <1>1, <1>5 DEF Grown
  <2>4. QED
    BY <2>1, <2>2, <2>3
<1>7. Point(m, bot.ancestor_spawns)
  BY <1>1, <1>6 DEF Point
<1>8. ASSUME NEW y \in 1 .. n, peers[m] # peers[y] PROVE peers'[s] # peers'[y]
  <2>1. peers[m] \subseteq 1 .. n /\ peers[y] \subseteq 1 .. n
    BY <1>1, <1>4, <1>6 DEF DagTyped
  <2>2. PICK t \in 1 .. n : ~ (t \in peers[m] <=> t \in peers[y])
    BY <1>8, <2>1
  <2>3. QED
    BY <1>5, <1>6, <2>2
<1>9. ASSUME NEW x, NEW c, Point(x, c)'
      PROVE  \/ x = s /\ c = bot.ancestor_spawns
             \/ Point(x, c) /\ x \in 1 .. n /\ c <= bot.ancestor_spawns
  <2>1. CASE x = cur' /\ c = spawn_count'
    BY <1>2, <1>5, <2>1
  <2>2. ASSUME NEW k \in Levels', c = stack'[k].ancestor_spawns,
               x = prog'[k].entry \/ (IsHelper(k)' /\ x = prog'[k].cont)
        PROVE  Point(x, c) /\ x \in 1 .. n /\ c <= bot.ancestor_spawns
    <3>1. Point(x, c)
      BY <1>2, <2>2 DEF Point, IsHelper
    <3>2. x \in 1 .. n
      BY <1>1, <1>4, <3>1, PointTyped
    <3>3. k <= L
      BY <1>2, <1>6
    <3>4. stack[k].ancestor_spawns <= stack[L].ancestor_spawns
      BY <1>2, <1>6, <3>3 DEF FramesInv, SpawnsCounted
    <3>5. QED
      BY <1>2, <1>6, <2>2, <3>1, <3>2, <3>4
  <2>3. QED
    BY <1>9, <2>1, <2>2 DEF Point
<1>10. \A e \in EntriesIn(memory) : e.reader \in 1 .. n
  BY <1>1 DEF DagInv, ReadsKept
\* The new strand has the peers of the strand the function started with.
<1>11. ASSUME NEW z \in 1 .. n, NEW x, NEW c, Point(x, c)',
              \A y, d : Point(y, d) /\ d = c => peers[z] # peers[y]
       PROVE  peers'[z] # peers'[x]
  <2>1. CASE x = s /\ c = bot.ancestor_spawns
    <3>1. peers[z] # peers[m]
      BY <1>7, <1>11, <2>1
    <3>2. QED
      BY <1>8, <2>1, <3>1
  <2>2. CASE Point(x, c) /\ x \in 1 .. n
    <3>1. peers[z] # peers[x]
      BY <1>11, <2>2
    <3>2. QED
      BY <1>1, <1>4, <1>5, <2>2, <3>1, GrownDiffer
  <2>3. QED
    BY <1>9, <1>11, <2>1, <2>2
<1>12. DagTyped'
  <2>1. ASSUME NEW k \in Levels', IsHelper(k)' PROVE prog'[k].cont \notin peers'[prog'[k].cont]
    <3>1. /\ prog[k].cont \notin peers[prog[k].cont] /\ prog[k].cont \in 1 .. n
          /\ prog'[k].cont = prog[k].cont
      BY <1>1, <1>2, <1>4, <2>1 DEF DagTyped, FramesTyped, IsHelper
    <3>2. QED
      BY <1>6, <3>1
  <2>2. QED
    BY <1>5, <1>6, <2>1 DEF DagTyped
<1>13. ASSUME NEW x, NEW y, NEW c, NEW d, Point(x, c)', Point(y, d)', c # d PROVE peers'[x] # peers'[y]
  <2>1. CASE x = s /\ y = s
    BY <1>6, <1>9, <1>13, <2>1
  <2>2. CASE Point(x, c) /\ x \in 1 .. n
    <3>1. \A z, b : Point(z, b) /\ b = d => peers[x] # peers[z]
      BY <1>13, <2>2 DEF DagInv, PointsDiffer
    <3>2. QED
      BY <1>11, <1>13, <2>2, <3>1
  <2>3. CASE Point(y, d) /\ y \in 1 .. n
    <3>1. \A z, b : Point(z, b) /\ b = c => peers[y] # peers[z]
      BY <1>13, <2>3 DEF DagInv, PointsDiffer
    <3>2. QED
      BY <1>11, <1>13, <2>3, <3>1
  <2>4. QED
    BY <1>9, <1>13, <2>1, <2>2, <2>3
<1>14. ASSUME NEW e \in EntriesIn(memory), NEW x, NEW c, Point(x, c)', e.spawns # c
       PROVE  peers'[e.reader] # peers'[x]
  <2>1. \A y, d : Point(y, d) /\ d = c => peers[e.reader] # peers[y]
    BY <1>14 DEF DagInv, ReadsDiffer
  <2>2. QED
    BY <1>10, <1>11, <1>14, <2>1
<1>15. Parallel'
  <2>1. ASSUME NEW j \in Levels', IsHelper(j)'
        PROVE  /\ prog'[j].cont \in peers'[cur']
               /\ \A i \in Levels' : j <= i => prog'[j].cont \in peers'[prog'[i].entry]
               /\ \A i \in Levels' : j < i /\ IsHelper(i)' => prog'[j].cont \in peers'[prog'[i].cont]
               /\ \A e \in EntriesIn(memory'), k \in Levels', b \in Bags :
                    j <= k /\ In(e.node, k, b)' => prog'[j].cont \in peers'[e.reader]
    <3>1. j \in Levels /\ IsHelper(j) /\ prog'[j].cont = prog[j].cont /\ j <= L
      BY <1>2, <1>6, <2>1 DEF IsHelper
    <3>2. /\ prog[j].cont \in 1 .. n
          /\ \A i \in Levels : j <= i => prog[j].cont \in peers'[prog[i].entry]
          /\ \A i \in Levels : j < i /\ IsHelper(i) => prog[j].cont \in peers'[prog[i].cont]
          /\ \A e \in EntriesIn(memory), k \in Levels', b \in Bags :
               j <= k /\ In(e.node, k, b)' => prog[j].cont \in peers'[e.reader]
      BY <1>1, <1>2, <1>3, <1>4, <1>5, <1>6, <3>1, GrownParallel
    <3>3. prog[j].cont \in peers[m]
      BY <1>1, <1>6, <3>1 DEF DagInv, Parallel
    <3>4. ASSUME NEW i \in Levels'
          PROVE  /\ j <= i => prog'[j].cont \in peers'[prog'[i].entry]
                 /\ j < i /\ IsHelper(i)' => prog'[j].cont \in peers'[prog'[i].cont]
      BY <1>2, <3>1, <3>2 DEF IsHelper
    <3>5. QED
      BY <1>3, <1>5, <3>1, <3>2, <3>3, <3>4
  <2>2. QED
    BY <2>1 DEF Parallel
<1>16. ReadsPlaced'
  <2>1. ASSUME NEW e \in EntriesIn(memory), NEW k \in Levels', NEW b \in Bags, In(e.node, k, b)'
        PROVE  /\ e.spawns >= stack'[k].ancestor_spawns
               /\ b # "ss_bag" => e.spawns > stack'[k].ancestor_spawns
               /\ Parted(k, b)' => \A x, c : Point(x, c)' => peers'[e.reader] # peers'[x]
    <3>1. /\ k \in Levels
          /\ e.spawns >= stack[k].ancestor_spawns /\ (b # "ss_bag" => e.spawns > stack[k].ancestor_spawns)
          /\ Parted(k, b)' => \A x, c : Point(x, c) /\ c <= bot.ancestor_spawns => peers[e.reader] # peers[x]
      BY <1>2, <1>4, <2>1, FlushPlaced
    <3>2. ASSUME Parted(k, b)', NEW x, NEW c, Point(x, c)' PROVE peers'[e.reader] # peers'[x]
      <4>1. c <= bot.ancestor_spawns
        BY <1>6, <1>9, <3>2
      <4>2. \A y, d : Point(y, d) /\ d = c => peers[e.reader] # peers[y]
        BY <3>1, <3>2, <4>1
      <4>3. QED
        BY <1>10, <1>11, <3>2, <4>2
    <3>3. QED
      BY <1>2, <3>1, <3>2
  <2>2. QED
    BY <1>3, <2>1 DEF ReadsPlaced
<1>17. ReadsKept'
  <2>1. nnodes \in Nat /\ nnodes <= nnodes
    BY ForestIs
  <2>2. QED
    BY <1>3, <1>5, <2>1, ReadsStay DEF Grown
<1>18. PointsDiffer' /\ ReadsDiffer'
  BY <1>3, <1>13, <1>14 DEF PointsDiffer, ReadsDiffer
<1>19. QED
  BY <1>2, <1>12, <1>15, <1>16, <1>17, <1>18 DEF DagInv

\* A sync with no child to join.
LEMMA IdleSyncDag ==
  ASSUME FramesInv, BagsInv, DagInv, cilk_sync_end, outcome = "running", prog[Len(prog)].unsynced = 0
  PROVE  FramesInv' /\ BagsInv' /\ DagInv' /\ outcome' = "running"
<1>1. PICK L : L = Len(stack)
  OBVIOUS
<1>2. /\ FramesInv' /\ BagsInv' /\ outcome' = "running" /\ Flushing /\ Levels' = Levels
      /\ \A k \in Levels : /\ stack'[k].func_type = stack[k].func_type
                           /\ stack'[k].ancestor_spawns = stack[k].ancestor_spawns
                           /\ prog'[k].entry = prog[k].entry /\ prog'[k].cont = prog[k].cont
      /\ spawn_count' = spawn_count
  BY SyncStep
<1>3. /\ memory' = memory /\ last' = last /\ nnodes' = nnodes
      /\ cur' = cur /\ nstrands' = nstrands /\ peers' = peers
  BY DEF cilk_sync_end, readVars, Synced
<1>4. bot.sp_bag = NULL
  <2>1. ~ (bot.local_spawns > 0)
    BY TopCounts DEF FramesInv
  <2>2. QED
    BY <2>1, TopCounts DEF FramesInv
<1>5. Levels \in SUBSET Nat /\ Levels' \in SUBSET Nat /\ FramesTyped'
  BY <1>2, LevelsNat DEF FramesInv
<1>6. ASSUME NEW n \in 1 .. nnodes, NEW k \in Levels', NEW b \in Bags, In(n, k, b)'
      PROVE  /\ k \in Levels /\ In(n, k, b) /\ stack'[k].ancestor_spawns = stack[k].ancestor_spawns
             /\ Parted(k, b)' => Parted(k, b)
  <2>1. /\ k \in Levels
        /\ IF k = Len(stack) /\ b = "p_bag" THEN In(n, k, "p_bag") \/ In(n, k, "sp_bag") ELSE In(n, k, b)
    BY <1>2, <1>6 DEF Flushing
  <2>2. In(n, k, "sp_bag") => k # Len(stack)
    BY <1>4, <2>1, SpBagHeld DEF FramesInv, bot
  <2>3. b = "sp_bag" => stack'[k].sp_bag # NULL
    BY <1>5, <1>6, BagAtFields DEF In, Held, InSet, FramesTyped, Levels
  <2>4. Parted(k, b)' => Parted(k, b)
    BY <1>2, <2>3 DEF Parted, Flushing
  <2>5. QED
    BY <1>2, <2>1, <2>2, <2>4
<1>7. Serial
  <2>1. \A k : k \in Levels' => (IsHelper(k)' <=> IsHelper(k))
    BY <1>2 DEF IsHelper
  <2>2. \A x, c : Point(x, c)' => Point(x, c)
    BY <1>2, <1>3, <2>1 DEF Point
  <2>3. \A n \in 1 .. nnodes, k \in Levels', b \in Bags : In(n, k, b)' =>
          \E i \in Levels, c \in Bags : k <= i /\ In(n, i, c)
    <3>1. \A k \in Levels' : k <= k
      BY <1>5
    <3>2. QED
      BY <1>6, <3>1
  <2>4. QED
    BY <1>2, <1>3, <2>1, <2>2, <2>3 DEF Serial
<1>8. DagTyped' /\ PointsDiffer' /\ ReadsDiffer' /\ Parallel'
  BY <1>5, <1>7, SerialKeeps
<1>9. ReadsPlaced'
  BY <1>6, <1>7, PlacedStay
<1>10. ReadsKept'
  <2>1. nstrands \in Nat /\ nnodes \in Nat
    BY BotTyped, ForestIs DEF FramesInv
  <2>2. QED
    BY <1>3, <2>1, ReadsStay
<1>11. QED
  BY <1>2, <1>8, <1>9, <1>10 DEF DagInv

-----------------------------------------------------------------------------
(***************************************************************************)
(* Reads.                                                                  *)
(***************************************************************************)
ThisRead(r) == [reducer |-> r, reader |-> cur, spawns |-> spawn_count, node |-> bot.ss_bag]

\* The entry of a read is typed and is in the SS-bag of the top frame.
LEMMA ThisReadTyped ==
  ASSUME FramesInv, BagsInv, NEW r \in Reducers
  PROVE  /\ ThisRead(r) \in Readers /\ bot.ss_bag \in 1 .. nnodes
         /\ \A k \in Levels, b \in Bags : In(bot.ss_bag, k, b) => k = Len(stack) /\ b = "ss_bag"
<1>1. PICK L, x : L = Len(stack) /\ x = <<L, "ss_bag">>
  OBVIOUS
<1>2. /\ L \in Levels /\ bot = stack[L] /\ stack \in Seq(Frame) /\ Levels = 1 .. L
      /\ spawn_count \in Nat /\ cur \in Nat
  BY <1>1, BotTyped DEF FramesInv, FramesTyped, bot, Levels
<1>3. Grouped(BagAt(stack), forest, nnodes) /\ DOMAIN BagAt(stack) = (1 .. L) \X Bags
      /\ BagAt(stack)[x] = bot.ss_bag
  BY <1>1, <1>2, BagAtFields DEF BagsInv, Bagged
<1>4. x \in DOMAIN BagAt(stack)
  BY <1>1, <1>2, <1>3 DEF Bags
<1>5. bot.ss_bag \in (1 .. nnodes) \cup {NULL} /\ bot.ss_bag \in Nodes /\ nnodes \in Nat
  BY <1>2, <1>3, <1>4, BotTyped, ForestIs DEF Grouped, FramesInv, Frame
<1>6. bot.ss_bag \in 1 .. nnodes /\ bot.ss_bag # NULL
  BY <1>5, NullOutside DEF NullIsNoNode
<1>7. ThisRead(r) \in Readers
  BY <1>2, <1>5, <1>6 DEF ThisRead, Readers
<1>8. Held(BagAt(stack), forest, bot.ss_bag, x)
  BY <1>3, <1>6 DEF Held, InSet
<1>9. ASSUME NEW k \in Levels, NEW b \in Bags, In(bot.ss_bag, k, b)
      PROVE  k = L /\ b = "ss_bag"
  <2>1. <<k, b>> \in DOMAIN BagAt(stack)
    BY <1>2, <1>3
  <2>2. <<k, b>> = x
    BY <1>3, <1>4, <1>6, <1>8, <1>9, <2>1 DEF Grouped, In
  <2>3. QED
    BY <1>1, <2>2
<1>10. QED
  BY <1>1, <1>6, <1>7, <1>9

\* A read replaces its reducer's entry and no other.
LEMMA RecordedKept ==
  ASSUME FramesInv, BagsInv, DagInv, NEW r \in Reducers, Recorded(r)
  PROVE  /\ ReadsKept'
         /\ EntriesIn(memory') = {x \in EntriesIn(memory) : x.reducer # r} \cup {ThisRead(r)}
<1>1. PICK e : e = ThisRead(r)
  OBVIOUS
<1>2. e \in Readers /\ e.reducer = r /\ e.reader = cur /\ e.spawns = spawn_count /\ e.node = bot.ss_bag
      /\ e.node \in 1 .. nnodes
  BY <1>1, ThisReadTyped DEF ThisRead
<1>3. memory' = update_shadowmem(memory, e.reducer, e.reader, e.spawns, e.node) /\ HasRoom(e.reducer, memory)
  BY <1>2 DEF Recorded
<1>4. PICK new : new = memory'
  OBVIOUS
<1>5. /\ IsTable(new)
      /\ EntriesIn(new) = {x \in EntriesIn(memory) : x.reducer # r} \cup {e}
      /\ new.size = IF Has(memory, r) THEN memory.size ELSE memory.size + 1
  <2>1. IsTable(memory)
    BY DEF DagInv, ReadsKept
  <2>2. QED
    BY <1>2, <1>3, <1>4, <2>1, UpdateKeeps
<1>6. /\ last' = [last EXCEPT ![r] = cur] /\ last \in [Reducers -> Nat] /\ cur \in Nat /\ cur # 0
      /\ cur \in 1 .. nstrands /\ nstrands' = nstrands /\ nnodes' = nnodes /\ spawn_count \in Nat
  <2>1. cur \in 1 .. nstrands /\ nstrands \in Nat /\ spawn_count \in Nat
    BY BotTyped DEF FramesInv, FramesTyped
  <2>2. QED
    BY <2>1 DEF Recorded, DagInv, ReadsKept
<1>7. last' \in [Reducers -> Nat] /\ last'[r] = cur /\ \A q \in Reducers : q # r => last'[q] = last[q]
  BY <1>6
<1>8. \A x \in EntriesIn(new) : /\ x.reader \in 1 .. nstrands /\ x.node \in 1 .. nnodes
                                /\ x.reader = last'[x.reducer] /\ x.spawns \in Nat
                                /\ x.reducer \in Reducers
  BY <1>2, <1>5, <1>6, <1>7 DEF DagInv, ReadsKept
<1>9. \A q \in Reducers : last'[q] # 0 <=> Has(new, q)
  BY <1>2, <1>5, <1>6, <1>7 DEF DagInv, ReadsKept, Has
<1>10. PICK S, S2 : S = {q \in Reducers : last[q] # 0} /\ S2 = {q \in Reducers : last'[q] # 0}
  OBVIOUS
<1>11. S2 = S \cup {r} /\ (r \in S <=> Has(memory, r)) /\ IsFiniteSet(S) /\ memory.size = Cardinality(S)
  BY <1>6, <1>7, <1>10 DEF DagInv, ReadsKept
<1>12. IsFiniteSet(S2) /\ Cardinality(S2) = IF r \in S THEN Cardinality(S) ELSE Cardinality(S) + 1
  BY <1>11, FS_AddElement
<1>13. new.size = Cardinality(S2)
  BY <1>5, <1>11, <1>12
<1>14. ReadsKept'
  BY <1>4, <1>5, <1>6, <1>7, <1>8, <1>9, <1>10, <1>12, <1>13 DEF ReadsKept
<1>15. QED
  BY <1>1, <1>4, <1>5, <1>14

\* A read keeps all parts of the invariant.
LEMMA RecordedDag ==
  ASSUME FramesInv, BagsInv, DagInv, NEW r \in Reducers, Recorded(r)
  PROVE  FramesInv' /\ BagsInv' /\ DagInv' /\ outcome' = "running"
<1>1. /\ stack' = stack /\ nnodes' = nnodes /\ root' = root /\ rank' = rank /\ type' = type
      /\ prog' = prog /\ cur' = cur /\ nstrands' = nstrands /\ peers' = peers
      /\ in_user_code' = in_user_code /\ pc' = pc /\ outcome' = "running"
  <2>1. ReaderAsserts(r, memory)
    BY ReaderNeverFails DEF DagInv, ReadsKept
  <2>2. QED
    BY <2>1 DEF Recorded, Asserting, forestVars
<1>2. forest' = forest /\ Levels' = Levels /\ bot' = bot /\ spawn_count' = spawn_count
  BY <1>1 DEF forest, Levels, bot, spawn_count
<1>3. \A k : IsHelper(k)' <=> IsHelper(k)
  BY <1>1 DEF IsHelper
<1>4. \A k, b : Parted(k, b)' <=> Parted(k, b)
  BY <1>1, <1>2 DEF Parted, IsP
<1>5. \A n, k, b : In(n, k, b)' <=> In(n, k, b)
  BY <1>1, <1>2 DEF In
<1>6. \A x, c : Point(x, c)' <=> Point(x, c)
  BY <1>1, <1>2, <1>3 DEF Point
<1>7. FramesInv'
  BY <1>1, <1>2, <1>3 DEF FramesInv, FramesTyped, SpawnsCounted, Phases, Progress
<1>8. BagsInv'
  BY <1>1, <1>2 DEF BagsInv
<1>9. ReadsKept' /\ \A e \in EntriesIn(memory') : e \in EntriesIn(memory) \/ e = ThisRead(r)
  BY RecordedKept
<1>10. DagTyped' /\ PointsDiffer'
  BY <1>1, <1>2, <1>3, <1>6 DEF DagInv, DagTyped, PointsDiffer
<1>11. PICK q : q = ThisRead(r)
  OBVIOUS
<1>12. /\ q.reader = cur /\ q.spawns = spawn_count /\ q.node = bot.ss_bag
       /\ \A k \in Levels, b \in Bags : In(bot.ss_bag, k, b) => k = Len(stack) /\ b = "ss_bag"
       /\ Point(cur, spawn_count)
  BY <1>11, ThisReadTyped DEF ThisRead, Point
<1>13. ReadsDiffer'
  <2>1. ASSUME NEW e \in EntriesIn(memory'), NEW x, NEW c, Point(x, c), e.spawns # c
        PROVE  peers[e.reader] # peers[x]
    <3>1. CASE e \in EntriesIn(memory)
      BY <2>1, <3>1 DEF DagInv, ReadsDiffer
    <3>2. CASE e = q
      BY <1>12, <2>1, <3>2 DEF DagInv, PointsDiffer
    <3>3. QED
      BY <1>9, <1>11, <3>1, <3>2
  <2>2. QED
    BY <1>1, <1>6, <2>1 DEF ReadsDiffer
<1>14. Parallel'
  <2>1. ASSUME NEW j \in Levels, IsHelper(j), NEW e \in EntriesIn(memory'), NEW k \in Levels, NEW b \in Bags,
               j <= k, In(e.node, k, b)
        PROVE  prog[j].cont \in peers[e.reader]
    <3>1. CASE e \in EntriesIn(memory)
      BY <2>1, <3>1 DEF DagInv, Parallel
    <3>2. CASE e = q
      BY <1>12, <2>1, <3>2 DEF DagInv, Parallel
    <3>3. QED
      BY <1>9, <1>11, <3>1, <3>2
  <2>2. \A j \in Levels : IsHelper(j) =>
          /\ prog[j].cont \in peers[cur]
          /\ \A i \in Levels : j <= i => prog[j].cont \in peers[prog[i].entry]
          /\ \A i \in Levels : j < i /\ IsHelper(i) => prog[j].cont \in peers[prog[i].cont]
    BY DEF DagInv, Parallel
  <2>3. QED
    BY <1>1, <1>2, <1>3, <1>5, <2>1, <2>2 DEF Parallel
<1>15. ReadsPlaced'
  <2>1. ASSUME NEW e \in EntriesIn(memory'), NEW k \in Levels, NEW b \in Bags, In(e.node, k, b)
        PROVE  /\ e.spawns >= stack[k].ancestor_spawns
               /\ b # "ss_bag" => e.spawns > stack[k].ancestor_spawns
               /\ Parted(k, b) => \A x, c : Point(x, c) => peers[e.reader] # peers[x]
    <3>1. CASE e \in EntriesIn(memory)
      BY <2>1, <3>1 DEF DagInv, ReadsPlaced
    <3>2. CASE e = q
      <4>1. k = Len(stack) /\ b = "ss_bag"
        BY <1>12, <2>1, <3>2
      <4>2. e.spawns >= stack[k].ancestor_spawns
        <5>1. stack[k] = bot /\ bot \in Frame
          BY <4>1, BotTyped DEF bot, FramesInv
        <5>2. bot.ancestor_spawns \in Nat /\ bot.local_spawns \in Nat
          BY <5>1 DEF Frame
        <5>3. QED
          BY <1>12, <3>2, <5>1, <5>2 DEF spawn_count
      <4>3. QED
        BY <4>1, <4>2 DEF Parted
    <3>3. QED
      BY <1>9, <1>11, <3>1, <3>2
  <2>2. QED
    BY <1>1, <1>2, <1>4, <1>5, <1>6, <2>1 DEF ReadsPlaced
<1>16. QED
  BY <1>1, <1>7, <1>8, <1>9, <1>10, <1>13, <1>14, <1>15 DEF DagInv

-----------------------------------------------------------------------------
(***************************************************************************)
(* The theorems.                                                           *)
(***************************************************************************)
Inv == FramesInv /\ BagsInv /\ DagInv /\ NoAssertionFails /\ OnlyRacesReported

\* A read of another view is reported by its function's bag, or by the count.
LEMMA ReadVerdict ==
  ASSUME FramesInv, BagsInv, DagInv, NEW r \in Reducers, cilk_read_reducer(r)
  PROVE  OnlyRacesReported'
<1>1. PICK last_reader : last_reader = LastReader(r, memory)
  OBVIOUS
<1>2. PICK e \in EntriesIn(memory) : e.reducer = r
  BY DEF cilk_read_reducer, DagInv, ReadsKept, Has
<1>3. e = last_reader /\ e.reader = last[r] /\ e.node \in 1 .. nnodes
  BY <1>1, <1>2, LastReaderFound DEF DagInv, ReadsKept
<1>4. verdict' = [reported |-> type[root[e.node]] = "P" \/ e.spawns # spawn_count,
                  raced    |-> peers[e.reader] # peers[cur]]
  BY <1>1, <1>3 DEF cilk_read_reducer
<1>5. Point(cur, spawn_count)
  BY DEF Point
<1>6. CASE e.spawns # spawn_count
  BY <1>4, <1>5, <1>6 DEF DagInv, ReadsDiffer, OnlyRacesReported
<1>7. CASE type[root[e.node]] = "P"
  <2>1. PICK q, a : q = root[e.node] /\ a = BagAt(stack)
    OBVIOUS
  <2>2. /\ Grouped(a, forest, nnodes) /\ forest.root = root /\ forest.type = type /\ stack \in Seq(Frame)
        /\ DOMAIN a = (1 .. Len(stack)) \X Bags /\ nnodes \in Nodes /\ IsForest(forest)
        /\ BagsTyped(stack, forest, nnodes)
    BY <2>1, ForestIs, BagAtFields DEF BagsInv, Bagged, FramesInv, FramesTyped
  <2>3. q \in 1 .. nnodes /\ e.node \in Nodes /\ root[q] = q
    BY <1>3, <2>1, <2>2, NodesUpTo DEF Grouped, IsForest
  <2>4. PICK z \in DOMAIN a : Held(a, forest, e.node, z)
    BY <1>3, <2>2 DEF Grouped
  <2>5. PICK k \in Levels, b \in Bags : z = <<k, b>>
    BY <2>2, <2>4 DEF Levels
  <2>6. In(e.node, k, b) /\ Held(a, forest, q, z) /\ root[a[z]] = q
    BY <2>1, <2>2, <2>3, <2>4, <2>5 DEF In, Held, InSet
  <2>7. b # "ss_bag"
    <3>1. SUFFICES ASSUME b = "ss_bag" PROVE FALSE
      OBVIOUS
    <3>2. type[q] = "SS"
      BY <2>1, <2>2, <2>3, <2>5, <2>6, <3>1 DEF BagsTyped, Levels
    <3>3. QED
      BY <1>7, <2>1, <3>2
  <2>8. b = "sp_bag" => IsP(k)
    BY <1>7, <2>1, <2>2, <2>5, <2>6 DEF IsP, SetType
  <2>9. Parted(k, b)
    BY <2>7, <2>8 DEF Parted, Bags
  <2>10. peers[e.reader] # peers[cur]
    BY <1>5, <2>6, <2>9 DEF DagInv, ReadsPlaced
  <2>11. QED
    BY <1>4, <2>10 DEF OnlyRacesReported
<1>8. CASE e.spawns = spawn_count /\ type[root[e.node]] # "P"
  BY <1>4, <1>8 DEF OnlyRacesReported
<1>9. QED
  BY <1>6, <1>7, <1>8

\* viewread starts with the frames' and the bags' invariant.
LEMMA InitFrames ==
  ASSUME Init PROVE FramesInv /\ BagsInv
<1>1. PICK fr, p, st : /\ fr = NewFrame("MAIN", 0, 1) /\ p = [entry |-> 1, cont |-> 1, unsynced |-> 0]
                       /\ st = stack
  OBVIOUS
<1>2. /\ st = <<fr>> /\ prog = <<p>> /\ cur = 1 /\ nstrands = 1 /\ nnodes = 1
      /\ pc = "user" /\ in_user_code = TRUE
      /\ root = [n \in Nodes |-> n] /\ rank = [n \in Nodes |-> 0] /\ type = [n \in Nodes |-> "SS"]
  BY <1>1 DEF Init
<1>3. 1 \in Nodes /\ 1 \in Strands /\ 1 \in 1 .. MaxDepth /\ NULL \notin Nodes
  BY BoundsAssumption, NullOutside DEF NullIsNoNode, Nodes, Strands
<1>4. fr \in Frame /\ fr.func_type = "MAIN" /\ fr.ancestor_spawns = 0 /\ fr.local_spawns = 0
      /\ fr.ss_bag = 1 /\ fr.sp_bag = NULL /\ fr.p_bag = NULL
  BY <1>1, <1>3 DEF NewFrame, Frame
<1>5. p \in Progress /\ p.entry = 1 /\ p.cont = 1 /\ p.unsynced = 0
  BY <1>1, <1>3 DEF Progress
<1>6. st \in Seq(Frame) /\ Len(st) = 1 /\ st[1] = fr /\ prog \in Seq(Progress) /\ Len(prog) = 1 /\ prog[1] = p
  BY <1>2, <1>4, <1>5
<1>7. Levels = {1} /\ bot = fr
  BY <1>1, <1>6 DEF Levels, bot
<1>8. FramesTyped
  BY <1>1, <1>2, <1>3, <1>4, <1>5, <1>6, <1>7 DEF FramesTyped
<1>9. SpawnsCounted
  BY <1>1, <1>4, <1>5, <1>6, <1>7 DEF SpawnsCounted
<1>10. Phases
  BY <1>2 DEF Phases
<1>11. PICK f : f = forest
  OBVIOUS
<1>12. f.root = root /\ f.rank = rank /\ f.type = type /\ IsForest(f)
  BY <1>2, <1>11 DEF forest, IsForest
<1>13. PICK a : a = BagAt(st)
  OBVIOUS
<1>14. /\ DOMAIN a = {1} \X Bags /\ a[<<1, "ss_bag">>] = 1 /\ a[<<1, "sp_bag">>] = NULL
       /\ a[<<1, "p_bag">>] = NULL
  <2>1. 1 .. Len(st) = {1} /\ 1 \in 1 .. Len(st)
    BY <1>6
  <2>2. QED
    BY <1>4, <1>6, <1>13, <2>1, BagAtFields
<1>15. \A z \in DOMAIN a : z = <<1, "ss_bag">> \/ z = <<1, "sp_bag">> \/ z = <<1, "p_bag">>
  BY <1>14 DEF Bags
<1>16. <<1, "ss_bag">> \in DOMAIN a
  BY <1>14 DEF Bags
<1>17. \A n \in Nodes, z \in DOMAIN a : Held(a, f, n, z) <=> z = <<1, "ss_bag">> /\ n = 1
  <2>1. ASSUME NEW n \in Nodes, NEW z \in DOMAIN a
        PROVE  Held(a, f, n, z) <=> z = <<1, "ss_bag">> /\ n = 1
    <3>1. f.root[n] = n /\ f.root[1] = 1 /\ 1 # NULL
      BY <1>2, <1>3, <1>12
    <3>2. CASE z = <<1, "ss_bag">>
      BY <1>14, <3>1, <3>2 DEF Held, InSet
    <3>3. CASE z # <<1, "ss_bag">>
      <4>1. a[z] = NULL
        BY <1>14, <1>15, <3>3
      <4>2. QED
        BY <3>3, <4>1 DEF Held, InSet
    <3>4. QED
      BY <3>2, <3>3
  <2>2. QED
    BY <2>1
<1>18. Grouped(a, f, 1)
  <2>1. 1 .. 1 = {1} /\ \A n \in Nodes : f.root[n] = n /\ f.type[n] = "SS"
    BY <1>2, <1>12
  <2>2. \A z \in DOMAIN a : a[z] \in {1, NULL}
    BY <1>14, <1>15
  <2>3. QED
    BY <1>3, <1>12, <1>16, <1>17, <2>1, <2>2 DEF Grouped
<1>19. BagsTyped(st, f, 1)
  <2>1. \A n \in Nodes : f.root[n] = n /\ f.type[n] = "SS"
    BY <1>2, <1>12
  <2>2. 1 .. 1 = {1} /\ 1 .. Len(st) = {1}
    BY <1>6
  <2>3. ~(\E k \in 1 .. Len(st) : st[k].p_bag # NULL)
    BY <1>4, <1>6, <2>2
  <2>4. QED
    BY <1>3, <1>4, <1>6, <2>1, <2>2, <2>3 DEF BagsTyped
<1>20. BagsInv
  BY <1>1, <1>2, <1>11, <1>13, <1>18, <1>19 DEF BagsInv, Bagged
<1>21. QED
  BY <1>8, <1>9, <1>10, <1>20 DEF FramesInv

\* It starts with the dag's.
LEMMA InitDag ==
  ASSUME Init PROVE DagInv
<1>1. PICK tab : tab = memory
  OBVIOUS
<1>2. tab = shadowmem_alloc(START_LG_CAPACITY) /\ START_LG_CAPACITY \in Nat
  BY <1>1 DEF Init, START_LG_CAPACITY
<1>3. IsTable(tab) /\ Used(tab) = {} /\ EntriesIn(tab) = {}
  BY <1>2, AllocIsTable DEF EntriesIn
<1>4. FramesInv
  BY InitFrames
<1>5. tab.size = 0
  BY <1>3, FS_EmptySet DEF IsTable
<1>6. last = [r \in Reducers |-> 0] /\ {r \in Reducers : last[r] # 0} = {}
  BY DEF Init
<1>7. ReadsKept
  BY <1>1, <1>3, <1>5, <1>6, FS_EmptySet DEF ReadsKept, Has
<1>8. /\ Levels = {1} /\ stack[1].func_type = "MAIN" /\ stack[1].ancestor_spawns = 0
      /\ spawn_count = 0 /\ cur = 1 /\ prog[1].entry = 1
  BY DEF Init, Levels, NewFrame, spawn_count, bot
<1>9. peers = [s \in Strands |-> {}]
  BY DEF Init
<1>10. DagTyped /\ Parallel
  BY <1>8, <1>9 DEF DagTyped, Parallel, IsHelper
<1>11. PointsDiffer
  BY <1>8 DEF PointsDiffer, Point, IsHelper
<1>12. QED
  BY <1>1, <1>3, <1>7, <1>10, <1>11 DEF DagInv, ReadsDiffer, ReadsPlaced

\* One step of the tool, or of the program, keeps the invariant.
LEMMA StepKeeps ==
  ASSUME Inv, Next PROVE Inv'
<1>1. /\ FramesInv /\ BagsInv /\ DagInv /\ outcome = "running" /\ OnlyRacesReported
      /\ FramesTyped /\ SpawnsCounted /\ Phases
  BY DEF Inv, Next, FramesInv
<1>2. ASSUME verdict' = verdict PROVE OnlyRacesReported'
  BY <1>1, <1>2 DEF OnlyRacesReported
<1>3. ASSUME UNCHANGED <<stack, nnodes, forestVars, memory, historyVars>>, Phases',
             outcome' # "assertion failed"
      PROVE  Inv'
  <2>1. FramesTyped' /\ SpawnsCounted' /\ BagsInv' /\ DagInv' /\ bot' = bot
    BY <1>1, <1>3, SameState
  <2>2. verdict' = verdict
    BY <1>3 DEF historyVars
  <2>3. QED
    BY <1>2, <1>3, <2>1, <2>2 DEF Inv, FramesInv, NoAssertionFails
<1>4. CASE cilk_enter_begin
  <2>1. FramesInv' /\ BagsInv' /\ DagInv'
    BY <1>1, <1>4, CallStep, CallDag
  <2>2. outcome' = outcome /\ verdict' = verdict
    BY <1>4 DEF cilk_enter_begin, readVars
  <2>3. QED
    BY <1>1, <1>2, <2>1, <2>2 DEF Inv, NoAssertionFails
<1>5. CASE cilk_enter_helper_begin
  <2>1. FramesInv' /\ BagsInv' /\ DagInv' /\ outcome' = "running"
    BY <1>1, <1>5, SpawnDag
  <2>2. verdict' = verdict
    BY <1>5 DEF cilk_enter_helper_begin, readVars
  <2>3. QED
    BY <1>2, <2>1, <2>2 DEF Inv, NoAssertionFails
<1>6. CASE cilk_enter_end
  <2>1. outcome' = "running" /\ stack' = stack
    BY <1>1, <1>6 DEF cilk_enter_end, Asserting, Phases
  <2>2. Phases'
    BY <1>6 DEF cilk_enter_end, Phases
  <2>3. QED
    BY <1>3, <1>6, <2>1, <2>2 DEF cilk_enter_end
<1>7. CASE cilk_detach
  <2>1. Phases'
    BY <1>7 DEF cilk_detach, Phases
  <2>2. QED
    BY <1>1, <1>3, <1>7, <2>1 DEF cilk_detach
<1>8. CASE cilk_spawn_prepare
  <2>1. outcome' = "running"
    BY <1>1, <1>8 DEF cilk_spawn_prepare, Asserting, Phases
  <2>2. Phases'
    BY <1>8 DEF cilk_spawn_prepare, Phases, bot
  <2>3. QED
    BY <1>3, <1>8, <2>1, <2>2 DEF cilk_spawn_prepare
<1>9. CASE cilk_sync_begin
  <2>1. outcome' = "running"
    BY <1>1, <1>9 DEF cilk_sync_begin, Asserting, Phases
  <2>2. Phases'
    BY <1>9 DEF cilk_sync_begin, Phases, bot
  <2>3. QED
    BY <1>3, <1>9, <2>1, <2>2 DEF cilk_sync_begin
<1>10. CASE cilk_sync_end
  <2>1. FramesInv' /\ BagsInv' /\ DagInv' /\ outcome' = "running"
    BY <1>1, <1>10, JoinDag, IdleSyncDag
  <2>2. verdict' = verdict
    BY <1>10 DEF cilk_sync_end, readVars
  <2>3. QED
    BY <1>2, <2>1, <2>2 DEF Inv, NoAssertionFails
<1>11. CASE cilk_leave_begin_function
  <2>1. FramesInv' /\ BagsInv' /\ DagInv' /\ outcome' = "running"
    BY <1>1, <1>11, ReturnDag
  <2>2. verdict' = verdict
    BY <1>11 DEF cilk_leave_begin_function, Leaving, readVars
  <2>3. QED
    BY <1>2, <2>1, <2>2 DEF Inv, NoAssertionFails
<1>12. CASE cilk_leave_begin_helper
  <2>1. FramesInv' /\ BagsInv' /\ DagInv' /\ outcome' # "assertion failed"
    BY <1>1, <1>12, HelperReturnDag
  <2>2. verdict' = verdict
    BY <1>12 DEF cilk_leave_begin_helper, Leaving, readVars
  <2>3. QED
    BY <1>2, <2>1, <2>2 DEF Inv, NoAssertionFails
<1>13. CASE cilk_leave_end
  <2>1. outcome' = "running"
    BY <1>1, <1>13 DEF cilk_leave_end, Asserting, Phases
  <2>2. Phases'
    BY <1>13 DEF cilk_leave_end, Phases
  <2>3. QED
    BY <1>3, <1>13, <2>1, <2>2 DEF cilk_leave_end
<1>14. ASSUME NEW r \in Reducers, cilk_set_reducer(r) \/ cilk_read_reducer(r) PROVE Inv'
  <2>1. Recorded(r)
    BY <1>14 DEF cilk_set_reducer, cilk_read_reducer
  <2>2. FramesInv' /\ BagsInv' /\ DagInv' /\ outcome' = "running"
    BY <1>1, <2>1, RecordedDag
  <2>3. OnlyRacesReported'
    <3>1. CASE cilk_set_reducer(r)
      BY <3>1 DEF cilk_set_reducer, OnlyRacesReported, Quiet
    <3>2. CASE cilk_read_reducer(r)
      BY <1>1, <3>2, ReadVerdict
    <3>3. QED
      BY <1>14, <3>1, <3>2
  <2>4. QED
    BY <2>2, <2>3 DEF Inv, NoAssertionFails
<1>15. QED
  BY <1>4, <1>5, <1>6, <1>7, <1>8, <1>9, <1>10, <1>11, <1>12, <1>13, <1>14 DEF Next

\* A step that changes nothing.
LEMMA StutterKeeps ==
  ASSUME Inv, UNCHANGED vars PROVE Inv'
<1>1. /\ UNCHANGED <<stack, nnodes, forestVars, memory, historyVars>> /\ pc' = pc
      /\ in_user_code' = in_user_code /\ outcome' = outcome /\ verdict' = verdict
  BY DEF vars, toolVars, historyVars
<1>2. FramesTyped' /\ SpawnsCounted' /\ BagsInv' /\ DagInv' /\ bot' = bot
  BY <1>1, SameState DEF Inv
<1>3. Phases'
  BY <1>1, <1>2 DEF Inv, FramesInv, Phases
<1>4. QED
  BY <1>1, <1>2, <1>3 DEF Inv, FramesInv, NoAssertionFails, OnlyRacesReported

\* The inductive invariant.
THEOREM AlwaysInv == Spec => []Inv
<1>1. Init => Inv
  <2>1. Init => NoAssertionFails /\ OnlyRacesReported
    BY DEF Init, NoAssertionFails, OnlyRacesReported, Quiet
  <2>2. QED
    BY <2>1, InitFrames, InitDag DEF Inv
<1>2. Inv /\ [Next]_vars => Inv'
  BY StepKeeps, StutterKeeps
<1>3. QED
  BY <1>1, <1>2, PTL DEF Spec

\* No assertion of viewread fails: not the ones on the phases of its pairs
\* of handlers, nor those on the bags a returning frame must have and on the
\* types their pointers lead to, nor those on the spawns a parent counts, nor
\* the one of DisjointSet_combine that its two sets are different, nor the one
\* of a growing table that each copy goes to an empty slot.
THEOREM NoAssertionFailsInv == Spec => []NoAssertionFails
<1>1. Inv => NoAssertionFails
  BY DEF Inv
<1>2. QED
  BY <1>1, AlwaysInv, PTL

\* cilk_read_reducer reports a read only if its strand and that of the last
\* read of the reducer have different peers.
THEOREM OnlyRacesReportedInv == Spec => []OnlyRacesReported
<1>1. Inv => OnlyRacesReported
  BY DEF Inv
<1>2. QED
  BY <1>1, AlwaysInv, PTL

\* Whatever the moves of bags between frames, every function entered is in
\* one bag of one frame.
THEOREM EveryFunctionInOneBagInv == Spec => []EveryFunctionInOneBag
<1>1. ASSUME Inv PROVE EveryFunctionInOneBag
  <2>1. PICK a : a = BagAt(stack)
    OBVIOUS
  <2>2. /\ Grouped(a, forest, nnodes) /\ forest.root = root /\ stack \in Seq(Frame)
        /\ DOMAIN a = (1 .. Len(stack)) \X Bags /\ DOMAIN stack = 1 .. Len(stack)
    <3>1. BagsInv /\ FramesTyped /\ stack \in Seq(Frame)
      BY <1>1 DEF Inv, FramesInv, FramesTyped
    <3>2. Grouped(a, forest, nnodes) /\ forest.root = root
      BY <2>1, <3>1, ForestIs DEF BagsInv, Bagged
    <3>3. DOMAIN stack = 1 .. Len(stack)
      BY <3>1
    <3>4. DOMAIN a = (1 .. Len(stack)) \X Bags
      BY <2>1, <3>1, BagAtFields
    <3>5. QED
      BY <3>1, <3>2, <3>3, <3>4
  <2>3. ASSUME NEW n \in 1 .. nnodes
        PROVE  Cardinality({kb \in (DOMAIN stack) \X {"ss_bag", "sp_bag", "p_bag"} :
                              LET bag == stack[kb[1]][kb[2]]
                              IN  bag # NULL /\ root[bag] = root[n]}) = 1
    <3>1. PICK S : S = {kb \in (DOMAIN stack) \X {"ss_bag", "sp_bag", "p_bag"} :
                          LET bag == stack[kb[1]][kb[2]] IN bag # NULL /\ root[bag] = root[n]}
      OBVIOUS
    <3>2. \A z \in DOMAIN a : a[z] = stack[z[1]][z[2]]
      BY <2>1 DEF BagAt
    <3>3. S = {z \in DOMAIN a : Held(a, forest, n, z)}
      BY <2>2, <3>1, <3>2 DEF Held, InSet, Bags
    <3>4. PICK z \in DOMAIN a : Held(a, forest, n, z)
      BY <2>2 DEF Grouped
    <3>5. S = {z}
      BY <2>2, <3>3, <3>4 DEF Grouped
    <3>6. QED
      BY <3>1, <3>5, FS_Singleton
  <2>4. QED
    BY <2>3 DEF EveryFunctionInOneBag
<1>2. QED
  BY <1>1, AlwaysInv, PTL

\* However the hashes collide and however often the table has grown, a
\* reducer's entry is that of its last read, and size counts the entries.
THEOREM TableFindsLastReaderInv == Spec => []TableFindsLastReader
<1>1. ASSUME Inv PROVE TableFindsLastReader
  <2>1. ReadsKept
    BY <1>1 DEF Inv, DagInv
  <2>2. ASSUME NEW r \in Reducers, last[r] # 0 PROVE LastReader(r, memory).reader = last[r]
    <3>1. PICK e \in EntriesIn(memory) : e.reducer = r
      BY <2>1, <2>2 DEF ReadsKept, Has
    <3>2. QED
      BY <2>1, <3>1, LastReaderFound DEF ReadsKept
  <2>3. memory.size = Cardinality(Used(memory))
    BY <2>1 DEF ReadsKept, IsTable
  <2>4. QED
    BY <2>1, <2>2, <2>3 DEF TableFindsLastReader, ReadsKept, Used
<1>2. QED
  BY <1>1, AlwaysInv, PTL

\* The types of the variables.
THEOREM TypeCorrect == Spec => []TypeOK
<1>1. ASSUME Inv PROVE TypeOK
  <2>1. FramesTyped /\ Phases /\ ReadsKept /\ IsForest(forest)
        /\ forest.root = root /\ forest.rank = rank /\ forest.type = type
    BY <1>1, ForestIs DEF Inv, FramesInv, DagInv
  <2>2. DOMAIN stack = Levels /\ \A k \in Levels : stack[k] \in Frame
    BY <2>1, BotTyped DEF FramesTyped, Levels
  <2>3. \A k \in DOMAIN stack :
          /\ stack[k].func_type \in {"MAIN", "CILK", "HELPER"}
          /\ stack[k].ancestor_spawns \in Nat /\ stack[k].local_spawns \in Nat
          /\ stack[k].ss_bag \in Nodes
          /\ {stack[k].sp_bag, stack[k].p_bag} \subseteq Nodes \cup {NULL}
    BY <2>2 DEF Frame
  <2>4. memory.lg_capacity \in Nat /\ DOMAIN memory.entries = Slots(memory)
    BY <2>1 DEF ReadsKept, IsTable
  <2>5. QED
    BY <2>1, <2>3, <2>4 DEF TypeOK, FramesTyped, Phases, IsForest
<1>2. QED
  BY <1>1, AlwaysInv, PTL
=============================================================================
