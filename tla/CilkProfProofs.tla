--------------------------- MODULE CilkProfProofs ---------------------------
(***************************************************************************)
(* Theorems about cilkprof for every program: the types of its state, that *)
(* the status vectors are true to the C stack whatever recursion does, and *)
(* that every table in use has one owner.                                  *)
(*                                                                         *)
(* The handlers look call sites up in a chained hash table and index       *)
(* vectors by the numbers it gives them; both grow while frames are on the *)
(* stack.  So the first part is about the table: a lookup, an insertion    *)
(* and a rehash keep every record, each in the chain its address hashes    *)
(* to, and the numbers are 0 .. table_size - 1 (IsIaddrTable).  From that  *)
(* come the vectors (SitesTyped), and their meaning (StatusMatches).  The  *)
(* second part is the stacks: the C stack with its frames (Piled), and the *)
(* tables in memory as far as their identities go (IsHeap).  The third is  *)
(* who owns those: the frames, the lists of tables kept for the next       *)
(* frames, and the tool share them out without overlap (Apart, OwnersInv). *)
(***************************************************************************)
EXTENDS CilkProf, FiniteSetTheorems, SequenceTheorems, TLAPS

-----------------------------------------------------------------------------
(***************************************************************************)
(* Induction, recursion and folds.                                         *)
(***************************************************************************)
\* A set of naturals with a member has a least one, which is its Min.
LEMMA MinIsLeast ==
  ASSUME NEW T \in SUBSET Nat, T # {}
  PROVE  Min(T) \in T /\ \A y \in T : Min(T) <= y
<1>1. PICK R : R = OpToRel(<, Nat)
  OBVIOUS
<1>2. PICK x \in T : \A y \in T : ~(<<y, x>> \in R)
  BY <1>1, NatLessThanWellFounded, WFMin
<1>3. ASSUME NEW y \in Nat, y < x PROVE <<y, x>> \in R
  BY <1>1, <1>3 DEF OpToRel
<1>4. ASSUME NEW y \in T PROVE x <= y
  <2>1. x \in Nat /\ y \in Nat
    OBVIOUS
  <2>2. ~(y < x)
    BY <1>2, <1>3, <2>1
  <2>3. QED
    BY <2>1, <2>2
<1>5. QED
  BY <1>4 DEF Min

\* Induction on the naturals, for the members of a set.
LEMMA UpTo ==
  ASSUME NEW T, 0 \in T, \A k \in Nat : k \in T => k + 1 \in T
  PROVE  \A k \in Nat : k \in T
<1> SUFFICES ASSUME NEW z \in Nat, z \notin T PROVE FALSE
  OBVIOUS
<1>1. PICK F : F = Nat \ T
  OBVIOUS
<1>2. PICK m : m = Min(F)
  OBVIOUS
<1>3. m \in F /\ \A y \in F : m <= y
  BY <1>1, <1>2, MinIsLeast
<1>4. m # 0 /\ m - 1 \in Nat
  BY <1>1, <1>3
<1>5. m - 1 \in T
  BY <1>1, <1>3, <1>4
<1>6. (m - 1) + 1 \in T
  BY <1>4, <1>5
<1>7. QED
  BY <1>1, <1>3, <1>6

\* A finite set of naturals with a member has a greatest one, its Max.
LEMMA MaxIsGreatest ==
  ASSUME NEW n \in Nat, NEW T \in SUBSET (1 .. n), T # {}
  PROVE  Max(T) \in T /\ \A y \in T : Max(T) >= y
<1>1. PICK D : D = {d \in Nat : n - d \in T}
  OBVIOUS
<1>2. PICK x \in T : TRUE
  OBVIOUS
<1>3. n - x \in D
  BY <1>1, <1>2
<1>4. Min(D) \in D /\ \A e \in D : Min(D) <= e
  BY <1>1, <1>3, MinIsLeast
<1>5. n - Min(D) \in T
  BY <1>1, <1>4
<1>6. ASSUME NEW y \in T PROVE n - Min(D) >= y
  <2>1. n - y \in D
    BY <1>1
  <2>2. Min(D) <= n - y /\ Min(D) \in Nat /\ y \in Nat
    BY <1>1, <1>4, <2>1
  <2>3. QED
    BY <2>2
<1>7. QED
  BY <1>5, <1>6 DEF Max

\* The function g recurses along the elements choice takes from the sets in T.
Recurses(g, T, choice, base, step) ==
  \A s \in T : /\ s = {} => g[s] = base
               /\ s # {} => g[s] = step[<<choice[s], g[s \ {choice[s]}]>>]

\* Such a function exists, in every domain that step does not leave.
LEMMA RecursionOnSubsets ==
  ASSUME NEW S, IsFiniteSet(S), NEW D, NEW base \in D, NEW step \in [S \X D -> D],
         NEW choice \in [(SUBSET S) \ {{}} -> S],
         \A s \in (SUBSET S) \ {{}} : choice[s] \in s
  PROVE  \E g \in [SUBSET S -> D] : Recurses(g, SUBSET S, choice, base, step)
<1>1. PICK Small : Small = [k \in Nat |-> {s \in SUBSET S : Cardinality(s) <= k}]
  OBVIOUS
<1>2. PICK K : K = {k \in Nat : \E g \in [Small[k] -> D] :
                                  Recurses(g, Small[k], choice, base, step)}
  OBVIOUS
<1>3. \A s \in SUBSET S : IsFiniteSet(s) /\ Cardinality(s) \in Nat /\ Cardinality(s) <= Cardinality(S)
  BY FS_Subset, FS_CardinalityType
<1>4. \A s \in (SUBSET S) \ {{}} :
         /\ s \ {choice[s]} \in SUBSET S
         /\ Cardinality(s \ {choice[s]}) = Cardinality(s) - 1
  BY <1>3, FS_RemoveElement
<1>5. 0 \in K
  <2>1. \A s \in Small[0] : s = {}
    BY <1>1, <1>3, FS_EmptySet
  <2>2. PICK g : g = [s \in Small[0] |-> base]
    OBVIOUS
  <2>3. g \in [Small[0] -> D] /\ Recurses(g, Small[0], choice, base, step)
    BY <2>1, <2>2 DEF Recurses
  <2>4. QED
    BY <1>2, <2>3
<1>6. ASSUME NEW k \in Nat, k \in K PROVE k + 1 \in K
  <2>1. PICK g \in [Small[k] -> D] : Recurses(g, Small[k], choice, base, step)
    BY <1>2, <1>6
  <2>2. PICK h : h = [s \in Small[k + 1] |->
                        IF s = {} THEN base ELSE step[<<choice[s], g[s \ {choice[s]}]>>]]
    OBVIOUS
  <2>3. ASSUME NEW s \in Small[k + 1], s # {}
        PROVE  choice[s] \in S /\ s \ {choice[s]} \in Small[k]
    <3>1. s \in (SUBSET S) \ {{}} /\ Cardinality(s) <= k + 1
      BY <1>1, <2>3
    <3>2. Cardinality(s) \in Nat /\ Cardinality(s \ {choice[s]}) <= k
      BY <1>3, <1>4, <3>1
    <3>3. QED
      BY <1>1, <1>4, <3>1, <3>2
  <2>4. h \in [Small[k + 1] -> D]
    BY <2>2, <2>3
  <2>5. \A s \in Small[k] : s \in Small[k + 1] /\ h[s] = g[s]
    <3>1. Small[k] \subseteq Small[k + 1]
      BY <1>1, <1>3
    <3>2. QED
      BY <2>1, <2>2, <3>1 DEF Recurses
  <2>6. ASSUME NEW s \in Small[k + 1], s # {}
        PROVE  h[s] = step[<<choice[s], h[s \ {choice[s]}]>>]
    <3>1. h[s \ {choice[s]}] = g[s \ {choice[s]}]
      BY <2>3, <2>5, <2>6
    <3>2. h[s] = step[<<choice[s], g[s \ {choice[s]}]>>]
      BY <2>2, <2>6
    <3>3. QED
      BY <3>1, <3>2
  <2>7. Recurses(h, Small[k + 1], choice, base, step)
    BY <2>2, <2>6 DEF Recurses
  <2>8. QED
    BY <1>2, <2>4, <2>7
<1>7. Cardinality(S) \in K
  BY <1>3, <1>5, <1>6, UpTo
<1>8. Small[Cardinality(S)] = SUBSET S
  BY <1>1, <1>3
<1>9. PICK n \in Nat : n = Cardinality(S)
  BY <1>3
<1>10. PICK g \in [Small[n] -> D] : Recurses(g, Small[n], choice, base, step)
  BY <1>2, <1>7, <1>9
<1>11. Small[n] = SUBSET S
  BY <1>8, <1>9
<1>12. QED
  BY <1>10, <1>11

\* The sets 1 .. k in turn: a fold from the left takes the greatest element.
LEMMA UpToSets ==
  ASSUME NEW n \in Nat
  PROVE  /\ \A k \in 1 .. n : /\ 1 .. k \in SUBSET (1 .. n) /\ 1 .. k # {}
                              /\ Max(1 .. k) = k /\ (1 .. k) \ {k} = 1 .. (k - 1)
         /\ \A s \in SUBSET (1 .. n) : s # {} => Max(s) \in s /\ Max(s) \in 1 .. n
<1>1. ASSUME NEW s \in SUBSET (1 .. n), s # {} PROVE Max(s) \in s /\ \A y \in s : Max(s) >= y
  BY <1>1, MaxIsGreatest
<1>2. ASSUME NEW k \in 1 .. n
      PROVE  1 .. k \in SUBSET (1 .. n) /\ 1 .. k # {} /\ Max(1 .. k) = k
  <2>1. 1 .. k \in SUBSET (1 .. n) /\ k \in 1 .. k
    OBVIOUS
  <2>2. PICK m : m = Max(1 .. k)
    OBVIOUS
  <2>3. m \in 1 .. k /\ m >= k
    BY <1>1, <2>1, <2>2
  <2>4. m = k
    BY <2>3
  <2>5. QED
    BY <2>1, <2>2, <2>4
<1>3. \A k \in 1 .. n : (1 .. k) \ {k} = 1 .. (k - 1)
  OBVIOUS
<1>4. QED
  BY <1>1, <1>2, <1>3

\* The results, one element at a time, of a fold of n elements from the left.
Steps(g, n, D, base, step) ==
  /\ g \in [0 .. n -> D] /\ g[0] = base
  /\ \A k \in 1 .. n : g[k] = step[<<k, g[k - 1]>>]

LEMMA StepsExist ==
  ASSUME NEW n \in Nat, NEW D, NEW base \in D, NEW step \in [(1 .. n) \X D -> D]
  PROVE  \E g : Steps(g, n, D, base, step)
<1>1. PICK K : K = {k \in Nat : k <= n => \E g : Steps(g, k, D, base, step)}
  OBVIOUS
<1>2. 0 \in K
  <2>1. PICK g : g = [k \in 0 .. 0 |-> base]
    OBVIOUS
  <2>2. Steps(g, 0, D, base, step)
    BY <2>1 DEF Steps
  <2>3. QED
    BY <1>1, <2>2
<1>3. ASSUME NEW k \in Nat, k \in K, k + 1 <= n PROVE k + 1 \in K
  <2>1. PICK g : Steps(g, k, D, base, step)
    BY <1>1, <1>3
  <2>2. PICK h : h = [i \in 0 .. k + 1 |-> IF i = k + 1 THEN step[<<k + 1, g[k]>>] ELSE g[i]]
    OBVIOUS
  <2>3. step[<<k + 1, g[k]>>] \in D
    BY <1>3, <2>1 DEF Steps
  <2>4. h \in [0 .. k + 1 -> D] /\ h[0] = base
    BY <2>1, <2>2, <2>3 DEF Steps
  <2>5. ASSUME NEW i \in 1 .. k + 1 PROVE h[i] = step[<<i, h[i - 1]>>]
    <3>1. h[i - 1] = g[i - 1]
      BY <2>2
    <3>2. CASE i = k + 1
      <4>1. k + 1 \in 0 .. k + 1 /\ (k + 1) - 1 = k
        OBVIOUS
      <4>2. h[k + 1] = step[<<k + 1, g[k]>>]
        BY <2>2, <4>1
      <4>3. QED
        BY <3>1, <3>2, <4>1, <4>2
    <3>3. CASE i \in 1 .. k
      BY <2>1, <2>2, <3>1, <3>3 DEF Steps
    <3>4. QED
      BY <3>2, <3>3
  <2>6. Steps(h, k + 1, D, base, step)
    BY <2>4, <2>5 DEF Steps
  <2>7. QED
    BY <1>1, <2>6
<1>4. \A k \in Nat : k \in K => k + 1 \in K
  BY <1>1, <1>3
<1>5. n \in K
  BY <1>2, <1>4, UpTo
<1>6. QED
  BY <1>1, <1>5

-----------------------------------------------------------------------------
(***************************************************************************)
(* The tables of addresses.                                                *)
(***************************************************************************)
Types == {"MAIN", "SPAWNER", "HELPER", "C_FUNCTION"}
Records == [iaddr : Nat, func_type : Types, index : Nat]
Buckets(lg) == 0 .. 2 ^ lg - 1

SameKey(r, s) == r.iaddr = s.iaddr /\ r.func_type = s.func_type

ElementsOf(q) == {q[i] : i \in 1 .. Len(q)}
KeysDiffer(q) == \A i, j \in 1 .. Len(q) : SameKey(q[i], q[j]) => i = j

\* Every record is in its bucket, and no key has two.
Filed(records, lg) ==
  \A b \in Buckets(lg) :
    KeysDiffer(records[b]) /\ \A x \in ElementsOf(records[b]) : hash(x.iaddr, lg) = b

Shaped(tab) == tab \in [lg_capacity : Nat, table_size : Nat,
                        records : [Buckets(tab.lg_capacity) -> Seq(Records)]]

\* The numbers given out are the first ones, each to one record.
Dense(rs, n) ==
  /\ \A r, s \in rs : r.index = s.index => r = s
  /\ {r.index : r \in rs} = 0 .. n - 1

IsIaddrTable(tab) ==
  /\ Shaped(tab) /\ Filed(tab.records, tab.lg_capacity)
  /\ Dense(AllRecords(tab), tab.table_size)

LEMMA PowerIsPositive ==
  ASSUME NEW k \in Nat
  PROVE  2 ^ k \in Nat \ {0}
<1>1. IsFiniteSet(1 .. k) /\ Cardinality(1 .. k) = k
  BY FS_Interval
<1>2. IsFiniteSet(SUBSET (1 .. k)) /\ Cardinality(SUBSET (1 .. k)) = 2 ^ k
  BY <1>1, FS_SUBSET
<1>3. 2 ^ k \in Nat
  BY <1>2, FS_CardinalityType
<1>4. 2 ^ k # 0
  BY <1>2, FS_EmptySet
<1>5. QED
  BY <1>3, <1>4

LEMMA HashIsBucket ==
  ASSUME NEW a \in Nat, NEW lg \in Nat
  PROVE  hash(a, lg) \in Buckets(lg)
<1>1. PICK p \in Nat \ {0} : p = 2 ^ TAG_OFFSET
  BY PowerIsPositive DEF TAG_OFFSET
<1>2. PICK q \in Nat \ {0} : q = 2 ^ lg
  BY PowerIsPositive
<1>3. a \div p \in Int
  OBVIOUS
<1>4. (a \div p) % q \in 0 .. q - 1
  BY <1>3
<1>5. QED
  BY <1>1, <1>2, <1>4 DEF hash, Buckets

\* FlattenSeq, one chain at a time.
Flattens(g, seqs, n, S) ==
  /\ g \in [0 .. n -> Seq(S)] /\ g[0] = <<>> /\ FlattenSeq(seqs) = g[n]
  /\ \A k \in 1 .. n : g[k] = g[k - 1] \o seqs[k]

LEMMA FlattenSteps ==
  ASSUME NEW S, NEW n \in Nat \ {0}, NEW seqs \in [1 .. n -> Seq(S)]
  PROVE  \E g : Flattens(g, seqs, n, S)
<1> DEFINE G(f) == f = [i \in 1 .. Len(seqs) |-> IF i = 1 THEN seqs[i] ELSE f[i - 1] \o seqs[i]]
           c == CHOOSE f : G(f)
<1>1. PICK step : step = [x \in (1 .. n) \X Seq(S) |-> x[2] \o seqs[x[1]]]
  OBVIOUS
<1>2. step \in [(1 .. n) \X Seq(S) -> Seq(S)]
  <2>1. ASSUME NEW x \in (1 .. n) \X Seq(S) PROVE x[2] \o seqs[x[1]] \in Seq(S)
    <3>1. x[2] \in Seq(S) /\ seqs[x[1]] \in Seq(S)
      OBVIOUS
    <3>2. QED
      BY <3>1, ConcatProperties
  <2>2. QED
    BY <1>1, <2>1
<1>3. PICK g : Steps(g, n, Seq(S), <<>>, step)
  <2>1. <<>> \in Seq(S) /\ n \in Nat
    OBVIOUS
  <2>2. QED
    BY <1>2, <2>1, StepsExist
<1>4. ASSUME NEW k \in 1 .. n PROVE g[k - 1] \in Seq(S) /\ g[k] = g[k - 1] \o seqs[k]
  <2>1. g[k] = step[<<k, g[k - 1]>>]
    BY <1>3 DEF Steps
  <2>2. k - 1 \in 0 .. n
    OBVIOUS
  <2>3. g[k - 1] \in Seq(S)
    BY <1>3, <2>2 DEF Steps
  <2>4. step[<<k, g[k - 1]>>] = g[k - 1] \o seqs[k]
    BY <1>1, <2>3
  <2>5. QED
    BY <2>1, <2>3, <2>4
<1>5. g[1] = seqs[1]
  <2>1. 1 \in 1 .. n /\ 1 - 1 = 0 /\ g[0] = <<>>
    BY <1>3 DEF Steps
  <2>2. g[1] = <<>> \o seqs[1]
    BY <1>4, <2>1
  <2>3. QED
    BY <2>1, <2>2
<1>8. Len(seqs) = n
  BY LenProperties
<1>6. G([i \in 1 .. n |-> g[i]])
  <2>1. ASSUME NEW i \in 1 .. n, i # 1 PROVE i - 1 \in 1 .. n /\ g[i] = g[i - 1] \o seqs[i]
    <3>1. i - 1 \in 1 .. n
      BY ONLY <2>1
    <3>2. g[i] = g[i - 1] \o seqs[i]
      BY <1>4
    <3>3. QED
      BY <3>1, <3>2
  <2>2. QED
    BY <1>5, <1>8, <2>1
<1>7. G(c)
  BY <1>6
<1>9. FlattenSeq(seqs) = IF Len(seqs) = 0 THEN seqs ELSE c[Len(seqs)]
  BY DEF FlattenSeq
<1>17. c = [i \in 1 .. Len(seqs) |-> IF i = 1 THEN seqs[i] ELSE c[i - 1] \o seqs[i]]
  BY <1>7
<1> HIDE DEF c
<1>10. c[1] = seqs[1] /\ \A i \in 1 .. n : i # 1 => c[i] = c[i - 1] \o seqs[i]
  <2>1. ASSUME NEW f, f = [i \in 1 .. Len(seqs) |-> IF i = 1 THEN seqs[i] ELSE c[i - 1] \o seqs[i]]
        PROVE  f[1] = seqs[1] /\ \A i \in 1 .. n : i # 1 => f[i] = c[i - 1] \o seqs[i]
    BY <1>8, <2>1
  <2>2. QED
    BY <1>17, <2>1
<1>11. PICK Same : Same = {k \in Nat : k + 1 \in 1 .. n => c[k + 1] = g[k + 1]}
  OBVIOUS
<1>12. 0 \in Same
  BY <1>5, <1>10, <1>11
<1>13. ASSUME NEW k \in Nat, k \in Same, (k + 1) + 1 \in 1 .. n PROVE k + 1 \in Same
  <2>1. k + 1 \in 1 .. n /\ c[k + 1] = g[k + 1]
    BY <1>11, <1>13
  <2>2. PICK i \in 1 .. n : i = (k + 1) + 1 /\ i # 1 /\ i - 1 = k + 1
    BY <1>13
  <2>3. c[i] = c[i - 1] \o seqs[i] /\ g[i] = g[i - 1] \o seqs[i]
    BY <1>4, <1>10, <2>2
  <2>4. c[(k + 1) + 1] = g[(k + 1) + 1]
    BY <2>1, <2>2, <2>3
  <2>5. QED
    BY <1>11, <2>4
<1>14. n - 1 \in Same
  <2>1. \A k \in Nat : k \in Same => k + 1 \in Same
    BY <1>11, <1>13
  <2>2. n - 1 \in Nat
    OBVIOUS
  <2>3. QED
    BY <1>12, <2>1, <2>2, UpTo
<1>15. c[n] = g[n]
  BY <1>11, <1>14
<1>16. Flattens(g, seqs, n, S)
  BY <1>3, <1>4, <1>8, <1>9, <1>15 DEF Steps, Flattens
<1>18. QED
  BY <1>16

\* Every record of a table, chain after chain.
Chains(tab) == FlattenSeq([b \in 1 .. 2 ^ tab.lg_capacity |-> tab.records[b - 1]])

TablesOf(lg) == [lg_capacity : {lg}, table_size : Nat, records : [Buckets(lg) -> Seq(Records)]]

Pushed(tab, rec, lg) == [tab EXCEPT !.records[hash(rec.iaddr, lg)] = <<rec>> \o @]

\* increase_table_capacity, one record at a time.
LEMMA RehashSteps ==
  ASSUME NEW tab, tab.lg_capacity \in Nat, NEW lg \in Nat, lg = tab.lg_capacity + 1,
         NEW all \in Seq(Records), all = Chains(tab)
  PROVE  \E g \in [0 .. Len(all) -> TablesOf(lg)] :
           /\ g[0] = iaddr_table_alloc(lg)
           /\ \A k \in 1 .. Len(all) : g[k] = Pushed(g[k - 1], all[k], lg)
           /\ increase_table_capacity(tab) = [g[Len(all)] EXCEPT !.table_size = tab.table_size]
<1> DEFINE G(f) == f = [s \in SUBSET (DOMAIN all) |->
                          IF s = {} THEN iaddr_table_alloc(lg)
                          ELSE Pushed(f[s \ {Max(s)}], all[Max(s)], lg)]
           c == CHOOSE f : G(f)
<1>1. PICK n \in Nat : n = Len(all) /\ DOMAIN all = 1 .. n /\ \A k \in 1 .. n : all[k] \in Records
  OBVIOUS
<1>2. PICK choice : choice = [s \in (SUBSET (1 .. n)) \ {{}} |-> Max(s)]
  OBVIOUS
<1>3. PICK step : step = [x \in (1 .. n) \X TablesOf(lg) |-> Pushed(x[2], all[x[1]], lg)]
  OBVIOUS
<1>4. \A rec \in Records, t \in TablesOf(lg) : Pushed(t, rec, lg) \in TablesOf(lg)
  <2>1. ASSUME NEW rec \in Records, NEW t \in TablesOf(lg)
        PROVE  Pushed(t, rec, lg) \in TablesOf(lg)
    <3>1. hash(rec.iaddr, lg) \in Buckets(lg)
      BY HashIsBucket DEF Records
    <3>2. <<rec>> \o t.records[hash(rec.iaddr, lg)] \in Seq(Records)
      BY <3>1 DEF TablesOf
    <3>3. QED
      BY <3>1, <3>2 DEF TablesOf, Pushed
  <2>2. QED
    BY <2>1
<1>5. iaddr_table_alloc(lg) \in TablesOf(lg)
  BY DEF iaddr_table_alloc, TablesOf, Buckets
<1>6. step \in [(1 .. n) \X TablesOf(lg) -> TablesOf(lg)]
  BY <1>1, <1>3, <1>4
<1>7. /\ choice \in [(SUBSET (1 .. n)) \ {{}} -> 1 .. n]
      /\ \A s \in (SUBSET (1 .. n)) \ {{}} : choice[s] \in s
  BY <1>2, UpToSets
<1>8. IsFiniteSet(1 .. n)
  BY FS_Interval
<1>9. PICK r \in [SUBSET (1 .. n) -> TablesOf(lg)] :
        Recurses(r, SUBSET (1 .. n), choice, iaddr_table_alloc(lg), step)
  BY <1>5, <1>6, <1>7, <1>8, RecursionOnSubsets
<1>10. ASSUME NEW s \in SUBSET (1 .. n), s # {}
       PROVE  r[s] = Pushed(r[s \ {Max(s)}], all[Max(s)], lg)
  <2>1. r[s] = step[<<choice[s], r[s \ {choice[s]}]>>]
    BY <1>9, <1>10 DEF Recurses
  <2>2. choice[s] = Max(s) /\ Max(s) \in 1 .. n
    BY <1>2, <1>10, UpToSets
  <2>3. s \ {Max(s)} \in SUBSET (1 .. n)
    OBVIOUS
  <2>4. r[s \ {Max(s)}] \in TablesOf(lg)
    BY <1>9, <2>3
  <2>5. QED
    BY <1>3, <2>1, <2>2, <2>4
<1>11. r[{}] = iaddr_table_alloc(lg)
  BY <1>9 DEF Recurses
<1>12. G(r)
  BY <1>1, <1>9, <1>10, <1>11
<1>13. G(c)
  BY <1>12
<1>14. increase_table_capacity(tab) = [c[DOMAIN all] EXCEPT !.table_size = tab.table_size]
  BY DEF increase_table_capacity, FoldLeft, MapThenFoldSet, Chains, Pushed
<1>15. c = [s \in SUBSET (DOMAIN all) |->
                          IF s = {} THEN iaddr_table_alloc(lg)
                          ELSE Pushed(c[s \ {Max(s)}], all[Max(s)], lg)]
  BY <1>13
<1> HIDE DEF c
<1>16. c[{}] = iaddr_table_alloc(lg)
  BY <1>15
<1>17. ASSUME NEW k \in 1 .. n
       PROVE  /\ c[1 .. k] = Pushed(c[1 .. (k - 1)], all[k], lg)
              /\ r[1 .. k] = Pushed(r[1 .. (k - 1)], all[k], lg)
  <2>1. PICK s \in SUBSET (1 .. n) : s = 1 .. k /\ s # {} /\ Max(s) = k /\ s \ {Max(s)} = 1 .. (k - 1)
    BY UpToSets
  <2>2. c[s] = Pushed(c[s \ {Max(s)}], all[Max(s)], lg)
    BY <1>1, <1>15, <2>1
  <2>3. r[s] = Pushed(r[s \ {Max(s)}], all[Max(s)], lg)
    BY <1>10, <2>1
  <2>4. QED
    BY <2>1, <2>2, <2>3
<1>18. PICK Same : Same = {k \in Nat : k \in 0 .. n => c[1 .. k] = r[1 .. k]}
  OBVIOUS
<1>19. 1 .. 0 = {}
  OBVIOUS
<1>20. 0 \in Same
  BY <1>11, <1>16, <1>18, <1>19
<1>21. ASSUME NEW k \in Nat, k \in Same PROVE k + 1 \in Same
  <2>1. CASE k + 1 \in 1 .. n
    <3>1. PICK j \in 1 .. n : j = k + 1 /\ j - 1 = k /\ k \in 0 .. n
      BY <2>1
    <3>2. c[1 .. (j - 1)] = r[1 .. (j - 1)]
      BY <1>18, <1>21, <3>1
    <3>3. c[1 .. j] = r[1 .. j]
      BY <1>17, <3>2
    <3>4. QED
      BY <1>18, <3>1, <3>3
  <2>2. CASE k + 1 \notin 1 .. n
    BY <1>18, <2>2
  <2>3. QED
    BY <2>1, <2>2
<1>22. n \in Same
  BY <1>20, <1>21, UpTo
<1>23. PICK g : g = [k \in 0 .. n |-> r[1 .. k]]
  OBVIOUS
<1>24. g \in [0 .. n -> TablesOf(lg)]
  <2>1. \A k \in 0 .. n : 1 .. k \in SUBSET (1 .. n)
    OBVIOUS
  <2>2. QED
    BY <1>9, <1>23, <2>1
<1>25. g[0] = iaddr_table_alloc(lg)
  BY <1>11, <1>19, <1>23
<1>26. ASSUME NEW k \in 1 .. n PROVE g[k] = Pushed(g[k - 1], all[k], lg)
  <2>1. k \in 0 .. n /\ k - 1 \in 0 .. n
    OBVIOUS
  <2>2. QED
    BY <1>17, <1>23, <2>1
<1>27. c[DOMAIN all] = g[n]
  BY <1>1, <1>18, <1>22, <1>23
<1>28. QED
  BY <1>1, <1>14, <1>24, <1>25, <1>26, <1>27

\* What is in two sequences, one after the other.
LEMMA ConcatFacts ==
  ASSUME NEW S, NEW q \in Seq(S), NEW r \in Seq(S)
  PROVE  /\ q \o r \in Seq(S) /\ ElementsOf(q \o r) = ElementsOf(q) \cup ElementsOf(r)
         /\ KeysDiffer(q) /\ KeysDiffer(r)
            /\ (\A x \in ElementsOf(q), y \in ElementsOf(r) : ~SameKey(x, y))
            => KeysDiffer(q \o r)
<1>1. PICK m \in Nat, n \in Nat : m = Len(q) /\ n = Len(r)
  OBVIOUS
<1>2. q \o r \in Seq(S) /\ Len(q \o r) = m + n
  BY <1>1
<1>3. /\ \A i \in 1 .. m : (q \o r)[i] = q[i]
      /\ \A i \in 1 .. m + n : i > m => (q \o r)[i] = r[i - m] /\ i - m \in 1 .. n
      /\ \A i \in 1 .. n : (q \o r)[i + m] = r[i]
  BY <1>1
<1>4. ASSUME NEW x \in ElementsOf(q \o r) PROVE x \in ElementsOf(q) \cup ElementsOf(r)
  <2>1. PICK i \in 1 .. m + n : x = (q \o r)[i]
    BY <1>2 DEF ElementsOf
  <2>2. CASE i <= m
    BY <1>1, <1>3, <2>1, <2>2 DEF ElementsOf
  <2>3. CASE i > m
    BY <1>1, <1>3, <2>1, <2>3 DEF ElementsOf
  <2>4. QED
    BY <2>2, <2>3
<1>5. ASSUME NEW x \in ElementsOf(q) \cup ElementsOf(r) PROVE x \in ElementsOf(q \o r)
  <2>1. CASE x \in ElementsOf(q)
    <3>1. PICK i \in 1 .. m : x = q[i]
      BY <1>1, <2>1 DEF ElementsOf
    <3>2. i \in 1 .. m + n
      OBVIOUS
    <3>3. QED
      BY <1>2, <1>3, <3>1, <3>2 DEF ElementsOf
  <2>2. CASE x \in ElementsOf(r)
    <3>1. PICK i \in 1 .. n : x = r[i]
      BY <1>1, <2>2 DEF ElementsOf
    <3>2. i + m \in 1 .. m + n
      OBVIOUS
    <3>3. QED
      BY <1>2, <1>3, <3>1, <3>2 DEF ElementsOf
  <2>3. QED
    BY <1>5, <2>1, <2>2
<1>6. ASSUME KeysDiffer(q), KeysDiffer(r),
             \A x \in ElementsOf(q), y \in ElementsOf(r) : ~SameKey(x, y),
             NEW i \in 1 .. m + n, NEW j \in 1 .. m + n, SameKey((q \o r)[i], (q \o r)[j])
      PROVE  i = j
  <2>1. CASE i <= m /\ j <= m
    BY <1>1, <1>3, <1>6, <2>1 DEF KeysDiffer
  <2>2. CASE i > m /\ j > m
    <3>1. i - m \in 1 .. n /\ j - m \in 1 .. n /\ SameKey(r[i - m], r[j - m])
      BY <1>3, <1>6, <2>2
    <3>2. i - m = j - m
      BY <1>1, <1>6, <3>1 DEF KeysDiffer
    <3>3. QED
      BY <3>2
  <2>3. CASE i <= m /\ j > m
    <3>1. (q \o r)[i] \in ElementsOf(q) /\ (q \o r)[j] \in ElementsOf(r)
      BY <1>1, <1>3, <2>3 DEF ElementsOf
    <3>2. QED
      BY <1>6, <3>1
  <2>4. CASE i > m /\ j <= m
    <3>1. (q \o r)[j] \in ElementsOf(q) /\ (q \o r)[i] \in ElementsOf(r)
      BY <1>1, <1>3, <2>4 DEF ElementsOf
    <3>2. SameKey((q \o r)[j], (q \o r)[i])
      BY <1>6 DEF SameKey
    <3>3. QED
      BY <1>6, <3>1, <3>2
  <2>5. QED
    BY <2>1, <2>2, <2>3, <2>4
<1>7. QED
  BY <1>2, <1>4, <1>5, <1>6 DEF KeysDiffer

\* The chains one after the other hold every record, once.
LEMMA ChainsFacts ==
  ASSUME NEW tab, Shaped(tab), Filed(tab.records, tab.lg_capacity)
  PROVE  /\ Chains(tab) \in Seq(Records) /\ ElementsOf(Chains(tab)) = AllRecords(tab)
         /\ KeysDiffer(Chains(tab))
<1>1. PICK n \in Nat \ {0} : n = 2 ^ tab.lg_capacity /\ Buckets(tab.lg_capacity) = 0 .. n - 1
  BY PowerIsPositive DEF Shaped, Buckets
<1>2. tab.records \in [0 .. n - 1 -> Seq(Records)]
  BY <1>1 DEF Shaped
<1>3. PICK seqs : seqs = [b \in 1 .. n |-> tab.records[b - 1]]
  OBVIOUS
<1>4. seqs \in [1 .. n -> Seq(Records)]
  BY <1>2, <1>3
<1>16. PICK g : Flattens(g, seqs, n, Records)
  BY <1>4, FlattenSteps
<1>5. /\ g \in [0 .. n -> Seq(Records)]
      /\ g[0] = <<>> /\ FlattenSeq(seqs) = g[n]
      /\ \A k \in 1 .. n : g[k] = g[k - 1] \o seqs[k]
  BY <1>16 DEF Flattens
<1>6. Chains(tab) = g[n]
  BY <1>1, <1>3, <1>5 DEF Chains
<1>7. ASSUME NEW k \in 1 .. n
      PROVE  /\ KeysDiffer(seqs[k])
             /\ \A x \in ElementsOf(seqs[k]) : hash(x.iaddr, tab.lg_capacity) = k - 1
  <2>4. k - 1 \in 0 .. n - 1
    OBVIOUS
  <2>5. seqs[k] = tab.records[k - 1]
    BY <1>3
  <2>1. PICK b \in Buckets(tab.lg_capacity) : b = k - 1 /\ seqs[k] = tab.records[b]
    BY <1>1, <2>4, <2>5
  <2>2. QED
    BY <2>1 DEF Filed
<1>8. PICK K : K = {k \in Nat : k \in 0 .. n =>
                      /\ KeysDiffer(g[k])
                      /\ ElementsOf(g[k]) = UNION {ElementsOf(seqs[j]) : j \in 1 .. k}
                      /\ \A x \in ElementsOf(g[k]) : hash(x.iaddr, tab.lg_capacity) \in 0 .. k - 1}
  OBVIOUS
<1>9. 0 \in K
  BY <1>5, <1>8 DEF KeysDiffer, ElementsOf
<1>10. ASSUME NEW k \in Nat, k \in K, k + 1 \in 1 .. n PROVE k + 1 \in K
  <2>1. PICK j \in 1 .. n : j = k + 1 /\ j - 1 = k /\ k \in 0 .. n
    BY <1>10
  <2>2. /\ KeysDiffer(g[k])
        /\ ElementsOf(g[k]) = UNION {ElementsOf(seqs[i]) : i \in 1 .. k}
        /\ \A x \in ElementsOf(g[k]) : hash(x.iaddr, tab.lg_capacity) \in 0 .. k - 1
    BY <1>8, <1>10, <2>1
  <2>3. g[j] = g[k] \o seqs[j] /\ g[k] \in Seq(Records) /\ seqs[j] \in Seq(Records)
    BY <1>4, <1>5, <2>1
  <2>4. KeysDiffer(seqs[j]) /\ \A x \in ElementsOf(seqs[j]) : hash(x.iaddr, tab.lg_capacity) = k
    BY <1>7, <2>1
  <2>5. \A x \in ElementsOf(g[k]), y \in ElementsOf(seqs[j]) : ~SameKey(x, y)
    BY <2>2, <2>4 DEF SameKey
  <2>6. KeysDiffer(g[j]) /\ ElementsOf(g[j]) = ElementsOf(g[k]) \cup ElementsOf(seqs[j])
    BY <2>2, <2>3, <2>4, <2>5, ConcatFacts
  <2>7. ElementsOf(g[j]) = UNION {ElementsOf(seqs[i]) : i \in 1 .. j}
    BY <2>1, <2>2, <2>6
  <2>8. \A x \in ElementsOf(g[j]) : hash(x.iaddr, tab.lg_capacity) \in 0 .. j - 1
    BY <2>1, <2>2, <2>4, <2>6
  <2>9. QED
    BY <1>8, <2>1, <2>6, <2>7, <2>8
<1>11. ASSUME NEW k \in Nat, k \in K PROVE k + 1 \in K
  <2>1. CASE k + 1 \in 1 .. n
    BY <1>10, <1>11, <2>1
  <2>2. CASE k + 1 \notin 0 .. n
    BY <1>8, <2>2
  <2>3. QED
    BY <2>1, <2>2
<1>12. n \in K
  BY <1>9, <1>11, UpTo
<1>13. KeysDiffer(g[n]) /\ ElementsOf(g[n]) = UNION {ElementsOf(seqs[j]) : j \in 1 .. n}
  BY <1>8, <1>12
<1>14. UNION {ElementsOf(seqs[j]) : j \in 1 .. n} = AllRecords(tab)
  <2>1. ASSUME NEW b \in 0 .. n - 1
        PROVE  b + 1 \in 1 .. n /\ ToSet(tab.records[b]) = ElementsOf(seqs[b + 1])
    <3>1. PICK j \in 1 .. n : j = b + 1 /\ j - 1 = b
      OBVIOUS
    <3>2. seqs[j] = tab.records[b] /\ seqs[j] \in Seq(Records)
      BY <1>3, <1>4, <3>1
    <3>3. QED
      BY <3>1, <3>2 DEF ToSet, ElementsOf
  <2>2. ASSUME NEW j \in 1 .. n
        PROVE  j - 1 \in 0 .. n - 1 /\ ToSet(tab.records[j - 1]) = ElementsOf(seqs[j])
    BY <1>2, <1>3 DEF ToSet, ElementsOf
  <2>3. DOMAIN tab.records = 0 .. n - 1
    BY <1>2
  <2>4. QED
    BY <2>1, <2>2, <2>3 DEF AllRecords
<1>15. QED
  BY <1>5, <1>6, <1>13, <1>14

RecordsIn(records) == UNION {ElementsOf(records[b]) : b \in DOMAIN records}

LEMMA AllRecordsIn ==
  ASSUME NEW tab, Shaped(tab)
  PROVE  AllRecords(tab) = RecordsIn(tab.records)
<1>1. ASSUME NEW b \in DOMAIN tab.records
      PROVE  ToSet(tab.records[b]) = ElementsOf(tab.records[b])
  BY DEF Shaped, ToSet, ElementsOf
<1>2. QED
  BY <1>1 DEF AllRecords, RecordsIn

PushedOn(records, rec, lg) == [records EXCEPT ![hash(rec.iaddr, lg)] = <<rec>> \o @]

\* A record with a new key is pushed on its chain.
LEMMA PushFacts ==
  ASSUME NEW lg \in Nat, NEW records \in [Buckets(lg) -> Seq(Records)], Filed(records, lg),
         NEW rec \in Records, \A x \in RecordsIn(records) : ~SameKey(x, rec),
         NEW new, new = PushedOn(records, rec, lg)
  PROVE  /\ new \in [Buckets(lg) -> Seq(Records)] /\ Filed(new, lg)
         /\ RecordsIn(new) = RecordsIn(records) \cup {rec}
         /\ hash(rec.iaddr, lg) \in Buckets(lg) /\ Head(new[hash(rec.iaddr, lg)]) = rec
<1>1. PICK h \in Buckets(lg) : h = hash(rec.iaddr, lg)
  BY HashIsBucket DEF Records
<1>2. PICK q \in Seq(Records) : q = records[h]
  OBVIOUS
<1>3. <<rec>> \in Seq(Records) /\ ElementsOf(<<rec>>) = {rec} /\ KeysDiffer(<<rec>>)
  BY DEF ElementsOf, KeysDiffer
<1>4. ASSUME NEW x \in ElementsOf(<<rec>>), NEW y \in ElementsOf(q) PROVE ~SameKey(x, y)
  <2>1. y \in RecordsIn(records)
    BY <1>2 DEF RecordsIn
  <2>2. QED
    BY <1>3, <2>1 DEF SameKey
<1>5. KeysDiffer(q) /\ \A x \in ElementsOf(q) : hash(x.iaddr, lg) = h
  BY <1>2 DEF Filed
<1>6. PICK p \in Seq(Records) : p = <<rec>> \o q
  <2>1. <<rec>> \o q \in Seq(Records)
    BY <1>3, ConcatProperties
  <2>2. QED
    BY <2>1
<1>7. KeysDiffer(p) /\ ElementsOf(p) = {rec} \cup ElementsOf(q)
  <2>1. PICK s \in Seq(Records) : s = <<rec>>
    BY <1>3
  <2>2. KeysDiffer(s) /\ \A x \in ElementsOf(s), y \in ElementsOf(q) : ~SameKey(x, y)
    BY <1>3, <1>4, <2>1
  <2>3. KeysDiffer(s \o q) /\ ElementsOf(s \o q) = ElementsOf(s) \cup ElementsOf(q)
    BY <1>5, <2>2, ConcatFacts
  <2>4. QED
    BY <1>3, <1>6, <2>1, <2>3
<1>8. /\ new \in [Buckets(lg) -> Seq(Records)] /\ new[h] = p
      /\ \A b \in Buckets(lg) : b # h => new[b] = records[b]
  BY <1>1, <1>2, <1>6 DEF PushedOn
<1>9. Filed(new, lg)
  BY <1>1, <1>5, <1>7, <1>8 DEF Filed
<1>10. RecordsIn(new) = RecordsIn(records) \cup {rec}
  BY <1>2, <1>7, <1>8 DEF RecordsIn
<1>11. Head(p) = rec
  BY <1>6
<1>12. QED
  BY <1>1, <1>8, <1>9, <1>10, <1>11

\* increase_table_capacity keeps every record, in the bucket it belongs to now.
LEMMA IncreaseFacts ==
  ASSUME NEW tab, IsIaddrTable(tab), NEW new, new = increase_table_capacity(tab)
  PROVE  /\ IsIaddrTable(new) /\ AllRecords(new) = AllRecords(tab)
         /\ new.table_size = tab.table_size
<1>1. Shaped(tab) /\ Filed(tab.records, tab.lg_capacity)
  BY DEF IsIaddrTable
<1>2. PICK all \in Seq(Records) :
         all = Chains(tab) /\ ElementsOf(all) = AllRecords(tab) /\ KeysDiffer(all)
  BY <1>1, ChainsFacts
<1>3. PICK lg \in Nat : lg = tab.lg_capacity + 1
  BY <1>1 DEF Shaped
<1>4. PICK g \in [0 .. Len(all) -> TablesOf(lg)] :
           /\ g[0] = iaddr_table_alloc(lg)
           /\ \A k \in 1 .. Len(all) : g[k] = Pushed(g[k - 1], all[k], lg)
           /\ increase_table_capacity(tab) = [g[Len(all)] EXCEPT !.table_size = tab.table_size]
  <2>1. tab.lg_capacity \in Nat
    BY <1>1 DEF Shaped
  <2>2. QED
    BY <1>2, <1>3, <2>1, RehashSteps
<1>5. PICK n \in Nat : n = Len(all)
  OBVIOUS
<1>6. PICK K : K = {k \in Nat : k \in 0 .. n =>
                      /\ Filed(g[k].records, lg)
                      /\ RecordsIn(g[k].records) = {all[i] : i \in 1 .. k}}
  OBVIOUS
<1>7. 0 \in K
  <2>1. PICK none : none = g[0].records
    OBVIOUS
  <2>2. none = [b \in Buckets(lg) |-> <<>>]
    BY <1>4, <2>1 DEF iaddr_table_alloc, Buckets
  <2>3. Filed(none, lg) /\ RecordsIn(none) = {}
    BY <2>2 DEF Filed, KeysDiffer, ElementsOf, RecordsIn
  <2>4. {all[i] : i \in 1 .. 0} = {}
    OBVIOUS
  <2>5. QED
    BY <1>6, <2>1, <2>3, <2>4
<1>8. ASSUME NEW k \in Nat, k \in K, k + 1 \in 1 .. n PROVE k + 1 \in K
  <2>1. PICK j \in 1 .. n : j = k + 1 /\ j - 1 = k /\ k \in 0 .. n
    BY <1>8
  <2>2. Filed(g[k].records, lg) /\ RecordsIn(g[k].records) = {all[i] : i \in 1 .. k}
    BY <1>6, <1>8, <2>1
  <2>3. g[j] = Pushed(g[k], all[j], lg) /\ g[k] \in TablesOf(lg) /\ all[j] \in Records
    BY <1>4, <1>5, <2>1
  <2>4. /\ g[k].records \in [Buckets(lg) -> Seq(Records)]
        /\ g[j].records = PushedOn(g[k].records, all[j], lg)
    BY <2>3 DEF Pushed, PushedOn, TablesOf
  <2>5. ASSUME NEW x \in RecordsIn(g[k].records) PROVE ~SameKey(x, all[j])
    <3>1. PICK i \in 1 .. k : x = all[i]
      BY <2>2
    <3>2. i \in 1 .. Len(all) /\ j \in 1 .. Len(all) /\ i # j
      BY <1>5, <2>1
    <3>3. QED
      BY <1>2, <3>1, <3>2 DEF KeysDiffer
  <2>6. Filed(g[j].records, lg) /\ RecordsIn(g[j].records) = {all[i] : i \in 1 .. k} \cup {all[j]}
    <3>1. PICK rec \in Records : rec = all[j]
      BY <2>3
    <3>2. PICK old, pushed : old = g[k].records /\ pushed = g[j].records
      OBVIOUS
    <3>3. /\ old \in [Buckets(lg) -> Seq(Records)] /\ Filed(old, lg)
          /\ \A x \in RecordsIn(old) : ~SameKey(x, rec)
          /\ pushed = PushedOn(old, rec, lg)
      BY <2>2, <2>4, <2>5, <3>1, <3>2
    <3>4. Filed(pushed, lg) /\ RecordsIn(pushed) = RecordsIn(old) \cup {rec}
      BY <3>3, PushFacts
    <3>5. QED
      BY <2>2, <3>1, <3>2, <3>4
  <2>7. RecordsIn(g[j].records) = {all[i] : i \in 1 .. j}
    BY <2>1, <2>6
  <2>8. QED
    BY <1>6, <2>1, <2>6, <2>7
<1>9. ASSUME NEW k \in Nat, k \in K PROVE k + 1 \in K
  <2>1. CASE k + 1 \in 1 .. n
    BY <1>8, <1>9, <2>1
  <2>2. CASE k + 1 \notin 0 .. n
    BY <1>6, <2>2
  <2>3. QED
    BY <2>1, <2>2
<1>10. n \in K
  BY <1>7, <1>9, UpTo
<1>11. Filed(g[n].records, lg) /\ RecordsIn(g[n].records) = AllRecords(tab)
  BY <1>2, <1>5, <1>6, <1>10 DEF ElementsOf
<1>12. /\ Shaped(new) /\ new.records = g[n].records /\ new.lg_capacity = lg
       /\ new.table_size = tab.table_size
  <2>1. g[n] \in TablesOf(lg) /\ tab.table_size \in Nat
    BY <1>1, <1>5 DEF Shaped
  <2>2. new = [g[n] EXCEPT !.table_size = tab.table_size]
    BY <1>4, <1>5
  <2>3. QED
    BY <2>1, <2>2 DEF Shaped, TablesOf
<1>13. AllRecords(new) = AllRecords(tab)
  BY <1>11, <1>12, AllRecordsIn
<1>14. QED
  BY <1>11, <1>12, <1>13 DEF IsIaddrTable

\* The record of a key is found where it is.
LEMMA PositionFacts ==
  ASSUME NEW q \in Seq(Records), NEW a, NEW ft
  PROVE  \/ /\ PositionIn(q, a, ft) \in 1 .. Len(q)
            /\ q[PositionIn(q, a, ft)].iaddr = a /\ q[PositionIn(q, a, ft)].func_type = ft
         \/ /\ PositionIn(q, a, ft) = 0
            /\ \A x \in ElementsOf(q) : ~(x.iaddr = a /\ x.func_type = ft)
<1>1. PICK I : I = {i \in 1 .. Len(q) : q[i].iaddr = a /\ q[i].func_type = ft}
  OBVIOUS
<1>2. PositionIn(q, a, ft) = IF I # {} THEN Min(I) ELSE 0
  BY <1>1 DEF PositionIn, SelectInSeq
<1>3. CASE I # {}
  <2>1. I \in SUBSET Nat
    BY <1>1
  <2>2. Min(I) \in I
    BY <1>3, <2>1, MinIsLeast
  <2>3. QED
    BY <1>1, <1>2, <1>3, <2>2
<1>4. CASE I = {}
  <2>1. \A x \in ElementsOf(q) : ~(x.iaddr = a /\ x.func_type = ft)
    BY <1>1, <1>4 DEF ElementsOf
  <2>2. QED
    BY <1>2, <1>4, <2>1
<1>5. QED
  BY <1>3, <1>4

\* A record that is found moves to the front of its chain.
LEMMA MoveFacts ==
  ASSUME NEW q \in Seq(Records), KeysDiffer(q), NEW i \in 1 .. Len(q), NEW new,
         new = MovedToFront(q, i)
  PROVE  /\ new \in Seq(Records) /\ KeysDiffer(new) /\ ElementsOf(new) = ElementsOf(q)
         /\ Head(new) = q[i]
<1>1. PICK n \in Nat : n = Len(q)
  OBVIOUS
<1>2. PICK l \in Seq(Records) : l = SubSeq(q, 1, i - 1)
  <2>1. SubSeq(q, 1, i - 1) \in Seq(Records)
    OBVIOUS
  <2>2. QED
    BY <2>1
<1>3. PICK r \in Seq(Records) : r = SubSeq(q, i + 1, Len(q))
  <2>1. SubSeq(q, i + 1, Len(q)) \in Seq(Records)
    OBVIOUS
  <2>2. QED
    BY <2>1
<1>4. Len(l) = i - 1 /\ \A j \in 1 .. i - 1 : l[j] = q[j]
  BY <1>2
<1>5. Len(r) = n - i /\ \A j \in 1 .. n - i : r[j] = q[j + i]
  <2>1. Len(r) = n - i
    BY <1>1, <1>3
  <2>2. ASSUME NEW j \in 1 .. n - i PROVE r[j] = q[j + i]
    BY <1>1, <1>3
  <2>3. QED
    BY <2>1, <2>2
<1>6. PICK s \in Seq(Records) : s = <<q[i]>>
  <2>1. <<q[i]>> \in Seq(Records)
    OBVIOUS
  <2>2. QED
    BY <2>1
<1>7. ElementsOf(s) = {q[i]} /\ KeysDiffer(s) /\ Head(s) = q[i] /\ Len(s) = 1 /\ s[1] = q[i]
  BY <1>6 DEF ElementsOf, KeysDiffer
<1>8. KeysDiffer(l)
  BY <1>1, <1>4 DEF KeysDiffer
<1>9. KeysDiffer(r)
  <2>1. ASSUME NEW j \in 1 .. n - i, NEW k \in 1 .. n - i, SameKey(r[j], r[k]) PROVE j = k
    <3>1. j + i \in 1 .. Len(q) /\ k + i \in 1 .. Len(q) /\ SameKey(q[j + i], q[k + i])
      BY <1>1, <1>5, <2>1
    <3>2. j + i = k + i
      BY <3>1 DEF KeysDiffer
    <3>3. QED
      BY <3>2
  <2>2. QED
    BY <1>5, <2>1 DEF KeysDiffer
<1>10. \A x \in ElementsOf(l) : \E j \in 1 .. Len(q) : j < i /\ x = q[j]
  BY <1>1, <1>4 DEF ElementsOf
<1>11. ASSUME NEW y \in ElementsOf(r) PROVE \E k \in 1 .. Len(q) : k > i /\ y = q[k]
  <2>1. PICK j \in 1 .. n - i : y = r[j]
    BY <1>5 DEF ElementsOf
  <2>2. j + i \in 1 .. Len(q) /\ j + i > i /\ y = q[j + i]
    BY <1>1, <1>5, <2>1
  <2>3. QED
    BY <2>2
<1>12. PICK t \in Seq(Records) : t = l \o r
  <2>1. l \o r \in Seq(Records)
    BY ConcatProperties
  <2>2. QED
    BY <2>1
<1>13. ASSUME NEW x \in ElementsOf(l), NEW y \in ElementsOf(r) PROVE ~SameKey(x, y)
  <2>1. PICK j \in 1 .. Len(q) : j < i /\ x = q[j]
    BY <1>10
  <2>2. PICK k \in 1 .. Len(q) : k > i /\ y = q[k]
    BY <1>11
  <2>3. j # k
    BY <2>1, <2>2
  <2>4. QED
    BY <2>1, <2>2, <2>3 DEF KeysDiffer
<1>14. KeysDiffer(t) /\ ElementsOf(t) = ElementsOf(l) \cup ElementsOf(r)
  BY <1>8, <1>9, <1>12, <1>13, ConcatFacts
<1>15. ASSUME NEW x \in ElementsOf(s), NEW y \in ElementsOf(t) PROVE ~SameKey(x, y)
  <2>1. PICK k \in 1 .. Len(q) : k # i /\ y = q[k]
    BY <1>10, <1>11, <1>14
  <2>2. QED
    BY <1>7, <2>1 DEF KeysDiffer
<1>16. new = s \o t
  BY <1>2, <1>3, <1>6, <1>12 DEF MovedToFront, RemoveAt
<1>17. KeysDiffer(new) /\ ElementsOf(new) = {q[i]} \cup ElementsOf(l) \cup ElementsOf(r)
  BY <1>7, <1>14, <1>15, <1>16, ConcatFacts
<1>18. new \in Seq(Records)
  BY <1>16, ConcatProperties
<1>19. Head(new) = q[i]
  <2>3. Len(t) \in Nat
    OBVIOUS
  <2>4. 1 \in 1 .. Len(s) + Len(t)
    BY <1>7, <2>3
  <2>6. /\ Len(s \o t) = Len(s) + Len(t)
        /\ \A j \in 1 .. Len(s) + Len(t) : (s \o t)[j] = IF j <= Len(s) THEN s[j] ELSE t[j - Len(s)]
    BY ConcatProperties
  <2>1. Len(t) \in Nat /\ Len(s \o t) = 1 + Len(t) /\ (s \o t)[1] = s[1]
    BY <1>7, <2>3, <2>4, <2>6
  <2>2. Head(new) = new[1]
    BY <1>16, <1>18, <2>1
  <2>5. QED
    BY <1>7, <1>16, <2>1, <2>2
<1>20. ASSUME NEW x \in ElementsOf(q) PROVE x \in ElementsOf(new)
  <2>1. PICK j \in 1 .. n : x = q[j]
    BY <1>1 DEF ElementsOf
  <2>2. CASE j < i
    <3>1. x \in ElementsOf(l)
      BY <1>4, <2>1, <2>2 DEF ElementsOf
    <3>2. QED
      BY <1>17, <3>1
  <2>3. CASE j = i
    BY <1>17, <2>1, <2>3
  <2>4. CASE j > i
    <3>1. j - i \in 1 .. n - i /\ r[j - i] = q[j]
      BY <1>1, <1>5, <2>4
    <3>2. x \in ElementsOf(r)
      BY <1>5, <2>1, <3>1 DEF ElementsOf
    <3>3. QED
      BY <1>17, <3>2
  <2>5. QED
    BY <2>2, <2>3, <2>4
<1>21. ASSUME NEW x \in ElementsOf(new) PROVE x \in ElementsOf(q)
  BY <1>10, <1>11, <1>17 DEF ElementsOf
<1>22. QED
  BY <1>17, <1>18, <1>19, <1>20, <1>21

\* The numbers a record set uses stay dense when the next one is given out.
LEMMA DenseGrows ==
  ASSUME NEW rs, NEW n \in Nat, Dense(rs, n), NEW rec, rec.index = n
  PROVE  Dense(rs \cup {rec}, n + 1)
<1>1. \A r \in rs : r.index \in 0 .. n - 1
  BY DEF Dense
<1>2. \A r, s \in rs \cup {rec} : r.index = s.index => r = s
  BY <1>1 DEF Dense
<1>3. {r.index : r \in rs \cup {rec}} = {r.index : r \in rs} \cup {n}
  OBVIOUS
<1>4. {r.index : r \in rs \cup {rec}} = 0 .. n
  BY <1>3 DEF Dense
<1>5. (n + 1) - 1 = n
  OBVIOUS
<1>6. QED
  BY <1>2, <1>4, <1>5 DEF Dense

RecordOf(a, ft, index) == [iaddr |-> a, func_type |-> ft, index |-> index]

\* A key that is there keeps its record, and the table all of its records.
LEMMA LookedUpFacts ==
  ASSUME NEW tab, IsIaddrTable(tab), NEW a \in Nat, NEW ft \in Types, Found(tab, a, ft),
         NEW new, new = LookedUp(tab, a, ft)
  PROVE  /\ IsIaddrTable(new) /\ AllRecords(new) = AllRecords(tab)
         /\ new.table_size = tab.table_size
         /\ RecordOf(a, ft, IndexOf(new, a)) \in AllRecords(tab)
<1>1. PICK lg \in Nat : lg = tab.lg_capacity
  BY DEF IsIaddrTable, Shaped
<1>2. PICK h \in Buckets(lg) : h = hash(a, lg)
  BY HashIsBucket
<1>3. /\ tab.records \in [Buckets(lg) -> Seq(Records)] /\ Filed(tab.records, lg) /\ Shaped(tab)
      /\ Dense(AllRecords(tab), tab.table_size)
  BY <1>1 DEF IsIaddrTable, Shaped
<1>4. PICK q \in Seq(Records) : q = tab.records[h]
  BY <1>3
<1>5. PICK i : i = PositionIn(q, a, ft)
  OBVIOUS
<1>6. i \in 1 .. Len(q) /\ q[i].iaddr = a /\ q[i].func_type = ft
  BY <1>1, <1>2, <1>4, <1>5, PositionFacts DEF Found
<1>7. KeysDiffer(q) /\ \A x \in ElementsOf(q) : hash(x.iaddr, lg) = h
  BY <1>3, <1>4 DEF Filed
<1>8. PICK p : p = MovedToFront(q, i)
  OBVIOUS
<1>9. p \in Seq(Records) /\ KeysDiffer(p) /\ ElementsOf(p) = ElementsOf(q) /\ Head(p) = q[i]
  BY <1>6, <1>7, <1>8, MoveFacts
<1>10. new = [tab EXCEPT !.records = [tab.records EXCEPT ![h] = p]]
  BY <1>1, <1>2, <1>3, <1>4, <1>5, <1>8 DEF LookedUp, Shaped
<1>11. /\ Shaped(new) /\ new.lg_capacity = lg /\ new.table_size = tab.table_size
       /\ new.records = [tab.records EXCEPT ![h] = p]
  BY <1>1, <1>3, <1>9, <1>10 DEF Shaped
<1>12. \A b \in Buckets(lg) : ElementsOf(new.records[b]) = ElementsOf(tab.records[b])
  BY <1>3, <1>4, <1>9, <1>11
<1>13. Filed(new.records, lg)
  BY <1>3, <1>7, <1>9, <1>11, <1>12 DEF Filed
<1>14. DOMAIN new.records = Buckets(lg) /\ DOMAIN tab.records = Buckets(lg)
  BY <1>3, <1>11
<1>15. AllRecords(new) = AllRecords(tab)
  <2>1. RecordsIn(new.records) = RecordsIn(tab.records)
    BY <1>12, <1>14 DEF RecordsIn
  <2>2. QED
    BY <1>3, <1>11, <2>1, AllRecordsIn
<1>16. IsIaddrTable(new)
  BY <1>3, <1>11, <1>13, <1>15 DEF IsIaddrTable
<1>17. IndexOf(new, a) = q[i].index
  BY <1>2, <1>3, <1>9, <1>11 DEF IndexOf
<1>18. q[i] \in Records /\ q[i] \in ElementsOf(q)
  BY <1>6 DEF ElementsOf
<1>19. RecordOf(a, ft, IndexOf(new, a)) = q[i]
  BY <1>6, <1>17, <1>18 DEF RecordOf, Records
<1>20. q[i] \in AllRecords(tab)
  BY <1>3, <1>4, <1>14, <1>18, AllRecordsIn DEF RecordsIn
<1>21. QED
  BY <1>11, <1>15, <1>16, <1>19, <1>20

\* A new key gets the next number.
LEMMA InsertedFacts ==
  ASSUME NEW tab, IsIaddrTable(tab), NEW a \in Nat, NEW ft \in Types, ~Found(tab, a, ft),
         NEW new, new = Inserted(tab, a, ft)
  PROVE  /\ IsIaddrTable(new) /\ new.table_size = tab.table_size + 1
         /\ IndexOf(new, a) = tab.table_size
         /\ AllRecords(new) = AllRecords(tab) \cup {RecordOf(a, ft, tab.table_size)}
         /\ \A x \in AllRecords(tab) : ~(x.iaddr = a /\ x.func_type = ft)
<1>1. Shaped(tab) /\ Filed(tab.records, tab.lg_capacity)
  BY DEF IsIaddrTable
<1>2. ASSUME NEW x \in AllRecords(tab), x.iaddr = a, x.func_type = ft PROVE FALSE
  <2>1. PICK b \in Buckets(tab.lg_capacity) : x \in ElementsOf(tab.records[b])
    BY <1>1, AllRecordsIn DEF RecordsIn, Shaped
  <2>2. b = hash(a, tab.lg_capacity)
    BY <1>1, <1>2, <2>1 DEF Filed
  <2>3. PICK q \in Seq(Records) : q = tab.records[b]
    BY <1>1, <2>1 DEF Shaped
  <2>4. PositionIn(q, a, ft) = 0
    BY <2>2, <2>3 DEF Found
  <2>5. \A y \in ElementsOf(q) : ~(y.iaddr = a /\ y.func_type = ft)
    BY <2>4, PositionFacts
  <2>6. QED
    BY <1>2, <2>1, <2>3, <2>5
<1>3. PICK room : room = IF tab.table_size + 1 > 2 ^ (tab.lg_capacity - 1)
                         THEN increase_table_capacity(tab) ELSE tab
  OBVIOUS
<1>4. /\ IsIaddrTable(room) /\ AllRecords(room) = AllRecords(tab)
      /\ room.table_size = tab.table_size
  BY <1>3, IncreaseFacts
<1>5. PICK lg \in Nat : lg = room.lg_capacity
  BY <1>4 DEF IsIaddrTable, Shaped
<1>6. /\ Shaped(room) /\ room.records \in [Buckets(lg) -> Seq(Records)] /\ Filed(room.records, lg)
      /\ Dense(AllRecords(room), room.table_size) /\ room.table_size \in Nat
  BY <1>4, <1>5 DEF IsIaddrTable, Shaped
<1>7. PICK rec \in Records : rec = RecordOf(a, ft, room.table_size)
  BY <1>6 DEF Records, RecordOf
<1>8. PICK chains : chains = PushedOn(room.records, rec, lg)
  OBVIOUS
<1>9. \A x \in RecordsIn(room.records) : ~SameKey(x, rec)
  BY <1>2, <1>4, <1>6, <1>7, AllRecordsIn DEF SameKey, RecordOf
<1>10. /\ chains \in [Buckets(lg) -> Seq(Records)] /\ Filed(chains, lg)
       /\ RecordsIn(chains) = RecordsIn(room.records) \cup {rec}
       /\ Head(chains[hash(rec.iaddr, lg)]) = rec
  BY <1>6, <1>8, <1>9, PushFacts
<1>11. new = [room EXCEPT !.table_size = room.table_size + 1, !.records = chains]
  BY <1>3, <1>5, <1>7, <1>8 DEF Inserted, PushedOn, RecordOf
<1>12. /\ Shaped(new) /\ new.lg_capacity = lg /\ new.table_size = room.table_size + 1
       /\ new.records = chains
  <2>1. room \in [lg_capacity : Nat, table_size : Nat,
                  records : [Buckets(room.lg_capacity) -> Seq(Records)]]
    BY <1>6 DEF Shaped
  <2>2. /\ new.lg_capacity = lg /\ new.table_size = room.table_size + 1 /\ new.records = chains
        /\ new = [lg_capacity |-> lg, table_size |-> room.table_size + 1, records |-> chains]
    BY <1>5, <1>11, <2>1
  <2>3. QED
    BY <1>6, <1>10, <2>2 DEF Shaped
<1>13. AllRecords(new) = AllRecords(room) \cup {rec}
  BY <1>6, <1>10, <1>12, AllRecordsIn
<1>14. Dense(AllRecords(new), new.table_size)
  BY <1>6, <1>7, <1>12, <1>13, DenseGrows DEF RecordOf
<1>15. IsIaddrTable(new)
  BY <1>10, <1>12, <1>14 DEF IsIaddrTable
<1>16. IndexOf(new, a) = room.table_size
  BY <1>7, <1>10, <1>12 DEF IndexOf, RecordOf
<1>17. QED
  BY <1>2, <1>4, <1>7, <1>12, <1>13, <1>15, <1>16

\* In the table new the key has number i; all others have kept theirs.
HasNumber(tab, new, a, ft, i) ==
  /\ IsIaddrTable(new) /\ i \in 0 .. new.table_size - 1
  /\ RecordOf(a, ft, i) \in AllRecords(new)
  /\ \/ AllRecords(new) = AllRecords(tab) /\ new.table_size = tab.table_size
     \/ /\ AllRecords(new) = AllRecords(tab) \cup {RecordOf(a, ft, tab.table_size)}
        /\ new.table_size = tab.table_size + 1 /\ i = tab.table_size
        /\ \A x \in AllRecords(tab) : ~(x.iaddr = a /\ x.func_type = ft)

\* add_to_iaddr_table: the key has a record, and every other key keeps its own.
LEMMA AddFacts ==
  ASSUME NEW tab, IsIaddrTable(tab), NEW a \in Nat, NEW ft \in Types,
         NEW new, new = add_to_iaddr_table(tab, a, ft)
  PROVE  HasNumber(tab, new, a, ft, IndexOf(new, a))
<1>1. tab.table_size \in Nat /\ Dense(AllRecords(tab), tab.table_size)
  BY DEF IsIaddrTable, Shaped
<1>2. CASE Found(tab, a, ft)
  <2>1. /\ IsIaddrTable(new) /\ AllRecords(new) = AllRecords(tab)
        /\ new.table_size = tab.table_size
        /\ RecordOf(a, ft, IndexOf(new, a)) \in AllRecords(tab)
    BY <1>2, LookedUpFacts DEF add_to_iaddr_table
  <2>2. RecordOf(a, ft, IndexOf(new, a)).index \in 0 .. tab.table_size - 1
    BY <1>1, <2>1 DEF Dense
  <2>3. QED
    BY <2>1, <2>2 DEF RecordOf, HasNumber
<1>3. CASE ~Found(tab, a, ft)
  <2>1. /\ IsIaddrTable(new) /\ new.table_size = tab.table_size + 1
        /\ IndexOf(new, a) = tab.table_size
        /\ AllRecords(new) = AllRecords(tab) \cup {RecordOf(a, ft, tab.table_size)}
        /\ \A x \in AllRecords(tab) : ~(x.iaddr = a /\ x.func_type = ft)
    BY <1>3, InsertedFacts DEF add_to_iaddr_table
  <2>2. QED
    BY <1>1, <2>1 DEF HasNumber
<1>4. QED
  BY <1>2, <1>3

\* A new table holds nothing.
LEMMA EmptyTable ==
  IsIaddrTable(iaddr_table_create) /\ AllRecords(iaddr_table_create) = {}
    /\ iaddr_table_create.table_size = 0
<1>1. PICK t : t = iaddr_table_create
  OBVIOUS
<1>2. /\ t = [lg_capacity |-> START_LG_CAPACITY, table_size |-> 0,
              records |-> [b \in Buckets(START_LG_CAPACITY) |-> <<>>]]
      /\ START_LG_CAPACITY \in Nat
  BY <1>1, StartLgAssumption DEF iaddr_table_create, iaddr_table_alloc, Buckets
<1>3. Shaped(t) /\ t.lg_capacity = START_LG_CAPACITY
  BY <1>2 DEF Shaped
<1>4. Filed(t.records, t.lg_capacity) /\ RecordsIn(t.records) = {}
  BY <1>2 DEF Filed, RecordsIn, KeysDiffer, ElementsOf
<1>5. AllRecords(t) = {} /\ t.table_size = 0
  BY <1>2, <1>3, <1>4, AllRecordsIn
<1>6. Dense({}, 0)
  BY DEF Dense
<1>7. QED
  BY <1>1, <1>3, <1>4, <1>5, <1>6 DEF IsIaddrTable

-----------------------------------------------------------------------------
(***************************************************************************)
(* The numbers of call sites and functions, and the status vectors.        *)
(***************************************************************************)
Status == [c_tail : Nat \cup {OFF_STACK}, fn_index : Nat \cup {UNINITIALIZED}, recursive : BOOLEAN]

IsVector(v, S, n) == \E m \in Nat \ {0} : v \in [0 .. m - 1 -> S] /\ n <= m

\* Every number given out has its place in the vectors; a call site has its
\* function's number, and what is past the numbers is empty.
SitesTyped(sites, fns, cs, fn) ==
  /\ IsIaddrTable(sites) /\ IsIaddrTable(fns)
  /\ IsVector(cs, Status, sites.table_size)
  /\ IsVector(fn, Nat \cup {OFF_STACK}, fns.table_size)
  /\ \A i \in DOMAIN cs : /\ i < sites.table_size => cs[i].fn_index \in 0 .. fns.table_size - 1
                          /\ i >= sites.table_size => cs[i] = Off

\* A vector that is resized has room for the next number, and keeps the rest.
LEMMA ResizedFacts ==
  ASSUME NEW v, NEW S, NEW n \in Nat, IsVector(v, S, n), NEW i \in 0 .. n, NEW empty \in S,
         NEW new, new = Resized(v, i, empty)
  PROVE  /\ IsVector(new, S, n) /\ IsVector(new, S, i + 1) /\ i \in DOMAIN new
         /\ DOMAIN v \subseteq DOMAIN new /\ \A k \in DOMAIN v : new[k] = v[k]
         /\ \A k \in DOMAIN new : k \notin DOMAIN v => new[k] = empty
<1>1. PICK m \in Nat \ {0} : v \in [0 .. m - 1 -> S] /\ n <= m
  BY DEF IsVector
<1>2. DOMAIN v = 0 .. m - 1 /\ Cardinality(DOMAIN v) = m
  BY <1>1, FS_Interval
<1>3. CASE i < m
  BY <1>1, <1>2, <1>3 DEF Resized, IsVector
<1>4. CASE i >= m
  <2>1. i = m
    BY <1>1, <1>4
  <2>2. PICK d \in Nat \ {0} : d = 2 * m
    OBVIOUS
  <2>3. new = [k \in 0 .. d - 1 |-> IF k \in 0 .. m - 1 THEN v[k] ELSE empty]
    BY <1>2, <1>4, <2>2 DEF Resized
  <2>4. new \in [0 .. d - 1 -> S] /\ i + 1 <= d /\ n <= d /\ i \in 0 .. d - 1
    BY <1>1, <2>1, <2>2, <2>3
  <2>5. IsVector(new, S, n) /\ IsVector(new, S, i + 1)
    BY <2>4 DEF IsVector
  <2>6. DOMAIN new = 0 .. d - 1 /\ 0 .. m - 1 \subseteq 0 .. d - 1
    BY <2>2, <2>3
  <2>7. \A k \in 0 .. d - 1 : new[k] = IF k \in 0 .. m - 1 THEN v[k] ELSE empty
    BY <2>3
  <2>8. QED
    BY <1>2, <2>4, <2>5, <2>6, <2>7
<1>5. QED
  BY <1>1, <1>3, <1>4

Outermost(js) == IF js = {} THEN OFF_STACK ELSE Min(js) - 1

\* The C frames that are instances of a call site; main's may be none.
Real(stack) == {j \in 1 .. Len(stack) : stack[j].rip # 0}
InstancesOf(stack, i) == {j \in Real(stack) : stack[j].cs_index = i}
FnInstancesOf(stack, cs, f) == {j \in Real(stack) : cs[stack[j].cs_index].fn_index = f}

StatusMatches(cs, fn, stack) ==
  /\ \A i \in DOMAIN cs : cs[i].c_tail = Outermost(InstancesOf(stack, i))
  /\ \A f \in DOMAIN fn : fn[f] = Outermost(FnInstancesOf(stack, cs, f))

\* A later C frame is outermost only if there is none before it.
LEMMA OutermostGrows ==
  ASSUME NEW n \in Nat, NEW js \in SUBSET (1 .. n)
  PROVE  /\ Outermost(js) = OFF_STACK <=> js = {}
         /\ Outermost(js) # OFF_STACK => Outermost(js) \in 0 .. n - 1 /\ Outermost(js) + 1 \in js
         /\ Outermost(js \cup {n + 1}) = IF js = {} THEN n ELSE Outermost(js)
<1>1. PICK more : more = js \cup {n + 1}
  OBVIOUS
<1>2. PICK b : b = Min(more)
  OBVIOUS
<1>3. more \in SUBSET Nat /\ more # {}
  BY <1>1
<1>4. b \in more /\ \A k \in more : b <= k
  BY <1>2, <1>3, MinIsLeast
<1>5. CASE js = {}
  <2>1. b = n + 1
    BY <1>1, <1>4, <1>5
  <2>4. Outermost(more) = b - 1
    BY <1>2, <1>3 DEF Outermost
  <2>2. Outermost(more) = n
    BY <2>1, <2>4
  <2>3. QED
    BY <1>1, <1>5, <2>2 DEF Outermost
<1>6. CASE js # {}
  <2>1. PICK a : a = Min(js)
    OBVIOUS
  <2>2. js \in SUBSET Nat
    OBVIOUS
  <2>3. a \in js /\ \A k \in js : a <= k
    BY <1>6, <2>1, <2>2, MinIsLeast
  <2>4. a \in more /\ a \in 1 .. n
    BY <1>1, <2>3
  <2>5. b \in js
    BY <1>1, <1>4, <2>4
  <2>6. a = b
    BY <1>4, <2>3, <2>4, <2>5
  <2>7. Outermost(js) = a - 1 /\ Outermost(more) = b - 1
    BY <1>2, <1>3, <1>6, <2>1 DEF Outermost
  <2>8. QED
    BY <1>1, <1>6, <2>3, <2>4, <2>6, <2>7 DEF OFF_STACK
<1>7. QED
  BY <1>5, <1>6

CFrame == [cs_index : Nat, rip : Nat, local_wrk : Nat, running_wrk : Nat, running_spn : Nat]

\* The stack new is stack with one more C frame, of a call site.
EntersOn(stack, new, frame) ==
  /\ Len(stack) \in Nat /\ Len(new) = Len(stack) + 1
  /\ \A j \in 1 .. Len(stack) : new[j] = stack[j]
  /\ new[Len(stack) + 1] = frame
  /\ Real(stack) \subseteq 1 .. Len(stack) /\ Real(new) = Real(stack) \cup {Len(stack) + 1}
  /\ \A i : InstancesOf(new, i) = IF i = frame.cs_index
                                  THEN InstancesOf(stack, i) \cup {Len(stack) + 1}
                                  ELSE InstancesOf(stack, i)
  /\ \A cs, f : FnInstancesOf(new, cs, f) = IF cs[frame.cs_index].fn_index = f
                                            THEN FnInstancesOf(stack, cs, f) \cup {Len(stack) + 1}
                                            ELSE FnInstancesOf(stack, cs, f)

\* A C frame is entered at the end of the stack.
LEMMA InstancesGrow ==
  ASSUME NEW stack \in Seq(CFrame), NEW frame \in CFrame, frame.rip # 0, NEW new,
         new = Append(stack, frame)
  PROVE  EntersOn(stack, new, frame)
<1>1. PICK n \in Nat : n = Len(stack)
  OBVIOUS
<1>2. Len(new) = n + 1 /\ new[n + 1] = frame /\ \A j \in 1 .. n : new[j] = stack[j]
  BY <1>1
<1>3. Real(new) = Real(stack) \cup {n + 1}
  BY <1>1, <1>2 DEF Real
<1>4. Real(stack) \subseteq 1 .. n /\ n + 1 \notin 1 .. n
  BY <1>1 DEF Real
<1>5. ASSUME NEW i
      PROVE  InstancesOf(new, i) = IF i = frame.cs_index THEN InstancesOf(stack, i) \cup {n + 1}
                                                         ELSE InstancesOf(stack, i)
  BY <1>2, <1>3, <1>4 DEF InstancesOf
<1>6. ASSUME NEW cs, NEW f
      PROVE  FnInstancesOf(new, cs, f) = IF cs[frame.cs_index].fn_index = f
                                         THEN FnInstancesOf(stack, cs, f) \cup {n + 1}
                                         ELSE FnInstancesOf(stack, cs, f)
  BY <1>2, <1>3, <1>4 DEF FnInstancesOf
<1>7. QED
  BY <1>1, <1>2, <1>3, <1>4, <1>5, <1>6 DEF EntersOn

\* The vectors of new are true to the stack with one more C frame, and those
\* of other call sites unchanged.
PutOnStack(cs, m, k, stack, frame, fi, new) ==
  /\ new.cs \in [0 .. m - 1 -> Status] /\ new.fn \in [0 .. k - 1 -> Nat \cup {OFF_STACK}]
  /\ StatusMatches(new.cs, new.fn, Append(stack, frame))
  /\ new.cs[frame.cs_index].fn_index = fi
  /\ \A i \in 0 .. m - 1 : i # frame.cs_index => new.cs[i] = cs[i]

\* OnStack keeps the vectors true to the stack when a frame is entered.
LEMMA OnStackFacts ==
  ASSUME NEW m \in Nat, NEW cs \in [0 .. m - 1 -> Status],
         NEW k \in Nat, NEW fn \in [0 .. k - 1 -> Nat \cup {OFF_STACK}],
         NEW stack \in Seq(CFrame), StatusMatches(cs, fn, stack),
         NEW frame \in CFrame, frame.rip # 0, frame.cs_index \in 0 .. m - 1,
         NEW fi \in 0 .. k - 1,
         cs[frame.cs_index].fn_index = fi \/ IsNewSite(cs[frame.cs_index]),
         NEW new, new = OnStack(cs, fn, frame.cs_index, fi, Len(stack))
  PROVE  PutOnStack(cs, m, k, stack, frame, fi, new)
<1>1. PICK index \in 0 .. m - 1 : index = frame.cs_index
  OBVIOUS
<1>2. PICK n \in Nat : n = Len(stack)
  OBVIOUS
<1>3. PICK after : after = Append(stack, frame)
  OBVIOUS
<1>20. EntersOn(stack, after, frame)
  BY <1>3, InstancesGrow
<1>4. /\ Real(stack) \subseteq 1 .. n
      /\ InstancesOf(after, index) = InstancesOf(stack, index) \cup {n + 1}
      /\ \A i : i # index => InstancesOf(after, i) = InstancesOf(stack, i)
  BY <1>1, <1>2, <1>20 DEF EntersOn
<1>5. ASSUME NEW c, NEW f
      PROVE  FnInstancesOf(after, c, f) = IF c[index].fn_index = f
                                          THEN FnInstancesOf(stack, c, f) \cup {n + 1}
                                          ELSE FnInstancesOf(stack, c, f)
  BY <1>1, <1>2, <1>20 DEF EntersOn
<1>6. ASSUME NEW i PROVE InstancesOf(stack, i) \in SUBSET (1 .. n)
  BY <1>4 DEF InstancesOf
<1>7. ASSUME NEW c, NEW f PROVE FnInstancesOf(stack, c, f) \in SUBSET (1 .. n)
  BY <1>4 DEF FnInstancesOf
<1>8. /\ \A i \in 0 .. m - 1 : cs[i].c_tail = Outermost(InstancesOf(stack, i))
      /\ \A f \in 0 .. k - 1 : fn[f] = Outermost(FnInstancesOf(stack, cs, f))
  BY DEF StatusMatches
<1>9. ASSUME NEW c \in [0 .. m - 1 -> Status],
             \A j \in Real(stack) : c[stack[j].cs_index].fn_index = cs[stack[j].cs_index].fn_index
      PROVE  \A f : FnInstancesOf(stack, c, f) = FnInstancesOf(stack, cs, f)
  BY <1>9 DEF FnInstancesOf
<1>10. PICK is \in SUBSET (1 .. n) : is = InstancesOf(stack, index)
  BY <1>6
<1>11. PICK fs \in SUBSET (1 .. n) : fs = FnInstancesOf(stack, cs, fi)
  BY <1>7
<1>12. /\ Outermost(is) = OFF_STACK <=> is = {}
       /\ Outermost(is \cup {n + 1}) = IF is = {} THEN n ELSE Outermost(is)
  BY OutermostGrows
<1>13. /\ Outermost(fs) = OFF_STACK <=> fs = {}
       /\ Outermost(fs \cup {n + 1}) = IF fs = {} THEN n ELSE Outermost(fs)
  BY OutermostGrows
<1>14. CASE cs[index].c_tail # OFF_STACK
  <2>1. new.cs = [cs EXCEPT ![index].recursive = TRUE] /\ new.fn = fn
    BY <1>1, <1>14 DEF OnStack
  <2>2. cs[index].fn_index = fi
    BY <1>1, <1>14 DEF IsNewSite
  <2>3. PICK r \in Status : r = cs[index]
    OBVIOUS
  <2>4. PICK s \in Status : s = [r EXCEPT !.recursive = TRUE]
    BY DEF Status
  <2>5. s.c_tail = r.c_tail /\ s.fn_index = r.fn_index
    BY <2>4 DEF Status
  <2>6. new.cs = [cs EXCEPT ![index] = s]
    BY <2>1, <2>3, <2>4
  <2>7. new.cs \in [0 .. m - 1 -> Status]
    BY <2>6
  <2>8. \A i \in 0 .. m - 1 : new.cs[i].c_tail = cs[i].c_tail /\ new.cs[i].fn_index = cs[i].fn_index
    BY <2>3, <2>5, <2>6
  <2>9. is # {}
    BY <1>8, <1>10, <1>12, <1>14
  <2>10. ASSUME NEW i \in 0 .. m - 1 PROVE new.cs[i].c_tail = Outermost(InstancesOf(after, i))
    <3>1. CASE i = index
      BY <1>4, <1>8, <1>10, <1>12, <2>8, <2>9, <3>1
    <3>2. CASE i # index
      BY <1>4, <1>8, <2>8, <3>2
    <3>3. QED
      BY <3>1, <3>2
  <2>11. \A j \in Real(stack) : new.cs[stack[j].cs_index].fn_index = cs[stack[j].cs_index].fn_index
    BY <2>3, <2>5, <2>6
  <2>12. \A f : FnInstancesOf(stack, new.cs, f) = FnInstancesOf(stack, cs, f)
    BY <1>9, <2>7, <2>11
  <2>13. fs # {}
    BY <1>10, <1>11, <2>2, <2>9 DEF FnInstancesOf, InstancesOf
  <2>14. ASSUME NEW f \in 0 .. k - 1 PROVE new.fn[f] = Outermost(FnInstancesOf(after, new.cs, f))
    <3>1. new.cs[index].fn_index = fi
      BY <2>2, <2>8
    <3>2. CASE f = fi
      <4>1. FnInstancesOf(after, new.cs, f) = fs \cup {n + 1}
        BY <1>5, <1>11, <2>12, <3>1, <3>2
      <4>2. QED
        BY <1>8, <1>11, <1>13, <2>1, <2>13, <3>2, <4>1
    <3>3. CASE f # fi
      <4>1. FnInstancesOf(after, new.cs, f) = FnInstancesOf(stack, cs, f)
        BY <1>5, <2>12, <3>1, <3>3
      <4>2. QED
        BY <1>8, <2>1, <4>1
    <3>4. QED
      BY <3>2, <3>3
  <2>15. new.fn \in [0 .. k - 1 -> Nat \cup {OFF_STACK}]
    BY <2>1
  <2>16. StatusMatches(new.cs, new.fn, after)
    BY <2>7, <2>10, <2>14, <2>15 DEF StatusMatches
  <2>17. \A i \in 0 .. m - 1 : i # index => new.cs[i] = cs[i]
    BY <2>6
  <2>18. QED
    BY <1>1, <1>3, <2>2, <2>7, <2>8, <2>15, <2>16, <2>17 DEF PutOnStack
<1>15. CASE cs[index].c_tail = OFF_STACK
  <2>1. new.cs = [cs EXCEPT ![index].c_tail = n, ![index].fn_index = fi]
    BY <1>1, <1>2, <1>15 DEF OnStack
  <2>2. new.fn = IF fn[fi] = OFF_STACK THEN [fn EXCEPT ![fi] = n] ELSE fn
    BY <1>1, <1>2, <1>15 DEF OnStack
  <2>3. PICK r \in Status : r = cs[index]
    OBVIOUS
  <2>4. fi \in Nat
    OBVIOUS
  <2>5. PICK s \in Status : s = [r EXCEPT !.c_tail = n, !.fn_index = fi]
    BY <2>4 DEF Status
  <2>6. s.c_tail = n /\ s.fn_index = fi
    BY <2>5 DEF Status
  <2>7. new.cs = [cs EXCEPT ![index] = s]
    BY <2>1, <2>3, <2>5
  <2>8. /\ new.cs \in [0 .. m - 1 -> Status] /\ new.cs[index] = s
        /\ \A i \in 0 .. m - 1 : i # index => new.cs[i] = cs[i]
    BY <2>7
  <2>9. new.fn \in [0 .. k - 1 -> Nat \cup {OFF_STACK}]
    BY <2>2
  <2>10. is = {}
    BY <1>8, <1>10, <1>12, <1>15
  <2>11. ASSUME NEW i \in 0 .. m - 1 PROVE new.cs[i].c_tail = Outermost(InstancesOf(after, i))
    <3>1. CASE i = index
      BY <1>4, <1>10, <1>12, <2>6, <2>8, <2>10, <3>1
    <3>2. CASE i # index
      BY <1>4, <1>8, <2>8, <3>2
    <3>3. QED
      BY <3>1, <3>2
  <2>12. \A j \in Real(stack) : stack[j].cs_index # index
    BY <1>10, <2>10 DEF InstancesOf
  <2>13. \A j \in Real(stack) : new.cs[stack[j].cs_index].fn_index = cs[stack[j].cs_index].fn_index
    BY <2>7, <2>12
  <2>14. \A f : FnInstancesOf(stack, new.cs, f) = FnInstancesOf(stack, cs, f)
    BY <1>9, <2>8, <2>13
  <2>15. ASSUME NEW f \in 0 .. k - 1 PROVE new.fn[f] = Outermost(FnInstancesOf(after, new.cs, f))
    <3>1. new.cs[index].fn_index = fi
      BY <2>6, <2>8
    <3>2. CASE f = fi
      <4>1. FnInstancesOf(after, new.cs, f) = fs \cup {n + 1}
        BY <1>5, <1>11, <2>14, <3>1, <3>2
      <4>2. fn[fi] = Outermost(fs)
        BY <1>8, <1>11
      <4>3. new.fn[fi] = IF fs = {} THEN n ELSE fn[fi]
        BY <1>13, <2>2, <4>2
      <4>4. QED
        BY <1>13, <3>2, <4>1, <4>2, <4>3
    <3>3. CASE f # fi
      <4>1. FnInstancesOf(after, new.cs, f) = FnInstancesOf(stack, cs, f)
        BY <1>5, <2>14, <3>1, <3>3
      <4>2. new.fn[f] = fn[f]
        BY <2>2, <3>3
      <4>3. QED
        BY <1>8, <4>1, <4>2
    <3>4. QED
      BY <3>2, <3>3
  <2>16. StatusMatches(new.cs, new.fn, after)
    BY <2>8, <2>9, <2>11, <2>15 DEF StatusMatches
  <2>17. QED
    BY <1>1, <1>3, <2>6, <2>8, <2>9, <2>16 DEF PutOnStack
<1>16. QED
  BY <1>14, <1>15

\* Every call site on the stack has been numbered.
OnSites(stack, n) == \A j \in Real(stack) : stack[j].cs_index \in 0 .. n - 1

\* The vector w is v with room for more.
Widens(v, w, empty) ==
  /\ DOMAIN v \subseteq DOMAIN w /\ \A i \in DOMAIN v : w[i] = v[i]
  /\ \A i \in DOMAIN w : i \notin DOMAIN v => w[i] = empty

\* Widened vectors are as true to the stack.
LEMMA WidenedMatches ==
  ASSUME NEW stack \in Seq(CFrame), NEW n \in Nat, OnSites(stack, n),
         NEW cs, IsVector(cs, Status, n), NEW k \in Nat,
         NEW fn, IsVector(fn, Nat \cup {OFF_STACK}, k),
         \A i \in DOMAIN cs : i < n => cs[i].fn_index \in 0 .. k - 1,
         StatusMatches(cs, fn, stack),
         NEW cs2, Widens(cs, cs2, Off), NEW fn2, Widens(fn, fn2, OFF_STACK)
  PROVE  StatusMatches(cs2, fn2, stack)
<1>1. 0 .. n - 1 \subseteq DOMAIN cs /\ 0 .. k - 1 \subseteq DOMAIN fn
  BY DEF IsVector
<1>2. ASSUME NEW j \in Real(stack)
      PROVE  /\ stack[j].cs_index \in DOMAIN cs
             /\ cs2[stack[j].cs_index].fn_index = cs[stack[j].cs_index].fn_index
             /\ cs[stack[j].cs_index].fn_index \in DOMAIN fn
  <2>1. PICK i \in 0 .. n - 1 : i = stack[j].cs_index
    BY DEF OnSites
  <2>2. cs[i].fn_index \in 0 .. k - 1 /\ cs2[i] = cs[i]
    BY <1>1 DEF Widens
  <2>3. QED
    BY <1>1, <2>1, <2>2
<1>3. ASSUME NEW i \in DOMAIN cs2 PROVE cs2[i].c_tail = Outermost(InstancesOf(stack, i))
  <2>1. CASE i \in DOMAIN cs
    BY <2>1 DEF StatusMatches, Widens
  <2>2. CASE i \notin DOMAIN cs
    <3>1. InstancesOf(stack, i) = {}
      BY <1>2, <2>2 DEF InstancesOf
    <3>2. cs2[i].c_tail = OFF_STACK
      BY <2>2 DEF Widens, Off
    <3>3. QED
      BY <3>1, <3>2 DEF Outermost
  <2>3. QED
    BY <2>1, <2>2
<1>4. ASSUME NEW f \in DOMAIN fn2 PROVE fn2[f] = Outermost(FnInstancesOf(stack, cs2, f))
  <2>1. FnInstancesOf(stack, cs2, f) = FnInstancesOf(stack, cs, f)
    BY <1>2 DEF FnInstancesOf
  <2>2. CASE f \in DOMAIN fn
    BY <2>1, <2>2 DEF StatusMatches, Widens
  <2>3. CASE f \notin DOMAIN fn
    <3>1. FnInstancesOf(stack, cs, f) = {}
      BY <1>2, <2>3 DEF FnInstancesOf
    <3>2. fn2[f] = OFF_STACK
      BY <2>3 DEF Widens
    <3>3. QED
      BY <2>1, <3>1, <3>2 DEF Outermost
  <2>4. QED
    BY <2>2, <2>3
<1>5. QED
  BY <1>3, <1>4 DEF StatusMatches

TypedState(st) == SitesTyped(st.sites, st.fns, st.cs, st.fn)

IsSite(site) == site.rip \in Nat \ {0} /\ site.fn \in Nat /\ site.type \in Types

\* The call site has its number, and the tables and vectors count its C frame.
CountsFrame(st, e, site, stack, frame) ==
  /\ SitesTyped(e.sites, e.rest.fns, e.rest.status.cs, e.rest.status.fn)
  /\ StatusMatches(e.rest.status.cs, e.rest.status.fn, Append(stack, frame))
  /\ e.index \in 0 .. e.sites.table_size - 1
  /\ st.sites.table_size <= e.sites.table_size
  /\ e.rest.ok
  /\ \/ e.rest.min = e.sites.table_size
     \/ e.rest.min = MIN_CAPACITY /\ e.sites.table_size = st.sites.table_size
  /\ RecordOf(site.rip, site.type, e.index) \in AllRecords(e.sites)
  /\ AllRecords(st.sites) \subseteq AllRecords(e.sites)

\* The middle part of the handlers that enter a function keeps the tables and
\* the vectors as they should be.
LEMMA EnteredFacts ==
  ASSUME NEW st, TypedState(st), NEW site, IsSite(site),
         NEW stack \in Seq(CFrame), OnSites(stack, st.sites.table_size),
         StatusMatches(st.cs, st.fn, stack),
         NEW e, e = Entered(st, site, Len(stack)),
         NEW frame \in CFrame, frame.rip # 0, frame.cs_index = e.index
  PROVE  CountsFrame(st, e, site, stack, frame)
<1>1. PICK s0 : s0 = st.sites
  OBVIOUS
<1>2. PICK n \in Nat : n = s0.table_size
  BY <1>1 DEF TypedState, SitesTyped, IsIaddrTable, Shaped
<1>3. PICK k \in Nat : k = st.fns.table_size
  BY DEF TypedState, SitesTyped, IsIaddrTable, Shaped
<1>4. /\ IsIaddrTable(s0) /\ IsIaddrTable(st.fns) /\ IsVector(st.cs, Status, n)
      /\ IsVector(st.fn, Nat \cup {OFF_STACK}, k)
      /\ \A i \in DOMAIN st.cs : /\ i < n => st.cs[i].fn_index \in 0 .. k - 1
                                 /\ i >= n => st.cs[i] = Off
  BY <1>1, <1>2, <1>3 DEF TypedState, SitesTyped
<1>5. PICK s : s = add_to_iaddr_table(s0, site.rip, site.type)
  OBVIOUS
<1>6. PICK index : index = IndexOf(s, site.rip)
  OBVIOUS
<1>7. /\ IsIaddrTable(s) /\ index \in 0 .. s.table_size - 1
      /\ RecordOf(site.rip, site.type, index) \in AllRecords(s)
      /\ \/ AllRecords(s) = AllRecords(s0) /\ s.table_size = n
         \/ /\ AllRecords(s) = AllRecords(s0) \cup {RecordOf(site.rip, site.type, n)}
            /\ s.table_size = n + 1 /\ index = n
  <2>1. site.rip \in Nat /\ site.type \in Types
    BY DEF IsSite
  <2>2. HasNumber(s0, s, site.rip, site.type, index)
    BY <1>4, <1>5, <1>6, <2>1, AddFacts
  <2>3. QED
    BY <1>2, <2>2 DEF HasNumber
<1>8. index \in 0 .. n /\ s.table_size \in {n, n + 1} /\ (s.table_size = n + 1 => index = n)
        /\ AllRecords(s0) \subseteq AllRecords(s)
  BY <1>7
<1>9. PICK cs : cs = Resized(st.cs, index, Off)
  OBVIOUS
<1>10. Off \in Status
  BY DEF Off, Status
<1>11. /\ IsVector(cs, Status, n) /\ IsVector(cs, Status, index + 1) /\ index \in DOMAIN cs
       /\ Widens(st.cs, cs, Off)
  BY <1>4, <1>8, <1>9, <1>10, ResizedFacts, SMTT(40) DEF Widens
<1>12. PICK m \in Nat \ {0} : cs \in [0 .. m - 1 -> Status] /\ n <= m
  BY <1>11 DEF IsVector
<1>13. index \in 0 .. m - 1 /\ s.table_size <= m
  BY <1>7, <1>8, <1>11, <1>12
<1>14. \A i \in 0 .. m - 1 : /\ i < n => cs[i].fn_index \in 0 .. k - 1
                             /\ i >= n => cs[i] = Off
  <2>1. 0 .. n - 1 \subseteq DOMAIN st.cs
    BY <1>4 DEF IsVector
  <2>2. QED
    BY <1>4, <1>11, <1>12, <2>1 DEF Widens
<1>15. IsNewSite(cs[index]) <=> index = n
  <2>1. CASE index = n
    BY <1>13, <1>14, <2>1 DEF IsNewSite, Off
  <2>2. CASE index # n
    <3>1. index < n /\ cs[index].fn_index \in 0 .. k - 1
      BY <1>8, <1>13, <1>14, <2>2
    <3>2. cs[index].fn_index # UNINITIALIZED
      BY <3>1 DEF UNINITIALIZED
    <3>3. QED
      BY <2>2, <3>2 DEF IsNewSite
  <2>3. QED
    BY <2>1, <2>2
<1>16. PICK f0 : f0 = add_to_iaddr_table(st.fns, site.fn, FunctionType(site.type))
  OBVIOUS
<1>17. /\ e.sites = s /\ e.index = index
       /\ e.rest = IF IsNewSite(cs[index])
                   THEN EnteredNew(cs, st.fn, f0, IndexOf(f0, site.fn), index, Len(stack),
                                   s.table_size = index + 1)
                   ELSE EnteredAgain(st, cs, index, Len(stack))
  BY <1>1, <1>5, <1>6, <1>9, <1>16 DEF Entered, Numbered, EnteredAt, EnteredFrom
<1>18. OnSites(stack, n) /\ StatusMatches(st.cs, st.fn, stack)
  BY <1>1, <1>2
<1>19. frame.cs_index \in 0 .. m - 1 /\ frame.cs_index = index
  BY <1>13, <1>17
<1>20. CASE index = n
  <2>1. PICK fi : fi = IndexOf(f0, site.fn)
    OBVIOUS
  <2>2. FunctionType(site.type) \in Types /\ site.fn \in Nat
    BY DEF FunctionType, IsSite, Types
  <2>20. HasNumber(st.fns, f0, site.fn, FunctionType(site.type), fi)
    BY <1>4, <1>16, <2>1, <2>2, AddFacts
  <2>3. /\ IsIaddrTable(f0) /\ fi \in 0 .. f0.table_size - 1
        /\ f0.table_size = k \/ (f0.table_size = k + 1 /\ fi = k)
    BY <1>3, <2>20 DEF HasNumber
  <2>4. fi \in 0 .. k /\ f0.table_size \in Nat /\ (f0.table_size <= k \/ f0.table_size <= fi + 1)
    BY <2>3
  <2>5. PICK fn : fn = Resized(st.fn, fi, OFF_STACK)
    OBVIOUS
  <2>6. /\ IsVector(fn, Nat \cup {OFF_STACK}, k) /\ IsVector(fn, Nat \cup {OFF_STACK}, fi + 1)
        /\ fi \in DOMAIN fn /\ Widens(st.fn, fn, OFF_STACK)
    BY <1>4, <2>4, <2>5, ResizedFacts DEF Widens
  <2>7. PICK l \in Nat \ {0} : fn \in [0 .. l - 1 -> Nat \cup {OFF_STACK}] /\ k <= l
    BY <2>6 DEF IsVector
  <2>8. fi \in 0 .. l - 1 /\ f0.table_size <= l
    BY <2>3, <2>4, <2>6, <2>7
  <2>9. StatusMatches(cs, fn, stack)
    BY <1>4, <1>11, <1>18, <2>6, WidenedMatches
  <2>10. PICK new : new = OnStack(cs, fn, frame.cs_index, fi, Len(stack))
    OBVIOUS
  <2>11. IsNewSite(cs[frame.cs_index]) /\ m \in Nat /\ l \in Nat
    BY <1>15, <1>19, <1>20
  <2>12. /\ new.cs \in [0 .. m - 1 -> Status] /\ new.fn \in [0 .. l - 1 -> Nat \cup {OFF_STACK}]
         /\ StatusMatches(new.cs, new.fn, Append(stack, frame))
         /\ new.cs[frame.cs_index].fn_index = fi
         /\ \A i \in 0 .. m - 1 : i # frame.cs_index => new.cs[i] = cs[i]
    <3>1. PutOnStack(cs, m, l, stack, frame, fi, new)
      BY <1>12, <1>19, <2>7, <2>8, <2>9, <2>10, <2>11, OnStackFacts
    <3>2. QED
      BY <3>1 DEF PutOnStack
  <2>13. /\ e.rest.fns = f0 /\ e.rest.status = new /\ e.rest.min = index + 1
         /\ e.rest.ok = (s.table_size = index + 1)
    BY <1>15, <1>17, <1>19, <1>20, <2>1, <2>5, <2>10 DEF EnteredNew
  <2>14. s.table_size = n + 1
    BY <1>7, <1>8, <1>20
  <2>15. IsVector(new.cs, Status, s.table_size) /\ IsVector(new.fn, Nat \cup {OFF_STACK}, f0.table_size)
    BY <1>13, <2>8, <2>12 DEF IsVector
  <2>16. ASSUME NEW i \in 0 .. m - 1
         PROVE  /\ i < s.table_size => new.cs[i].fn_index \in 0 .. f0.table_size - 1
                /\ i >= s.table_size => new.cs[i] = Off
    <3>1. CASE i = index
      BY <1>19, <1>20, <2>3, <2>12, <2>14, <3>1
    <3>2. CASE i # index
      <4>1. new.cs[i] = cs[i] /\ i # n
        BY <1>19, <1>20, <2>12, <3>2
      <4>2. CASE i < n
        BY <1>14, <2>3, <2>14, <4>1, <4>2
      <4>3. CASE i > n
        BY <1>14, <2>14, <4>1, <4>3
      <4>4. QED
        BY <4>1, <4>2, <4>3
    <3>3. QED
      BY <3>1, <3>2
  <2>17. DOMAIN new.cs = 0 .. m - 1
    BY <2>12
  <2>18. SitesTyped(s, f0, new.cs, new.fn)
    BY <1>7, <2>3, <2>15, <2>16, <2>17 DEF SitesTyped
  <2>19. SitesTyped(e.sites, e.rest.fns, e.rest.status.cs, e.rest.status.fn)
    BY <1>17, <2>13, <2>18
  <2>21. e.rest.min = e.sites.table_size /\ e.rest.ok
    BY <1>17, <1>20, <2>13, <2>14
  <2>22. st.sites.table_size <= e.sites.table_size
    BY <1>1, <1>2, <1>17, <2>14
  <2>23. QED
    BY <1>1, <1>7, <1>8, <1>17, <2>12, <2>13, <2>19, <2>21, <2>22 DEF CountsFrame
<1>21. CASE index # n
  <2>1. index < n /\ s.table_size = n
    BY <1>8, <1>21
  <2>2. PICK fi \in 0 .. k - 1 : fi = cs[index].fn_index
    BY <1>13, <1>14, <2>1
  <2>3. PICK l \in Nat \ {0} : st.fn \in [0 .. l - 1 -> Nat \cup {OFF_STACK}] /\ k <= l
    BY <1>4 DEF IsVector
  <2>4. fi \in 0 .. l - 1 /\ m \in Nat /\ l \in Nat
    BY <2>3
  <2>5. Widens(st.fn, st.fn, OFF_STACK)
    BY DEF Widens
  <2>6. StatusMatches(cs, st.fn, stack)
    BY <1>4, <1>11, <1>18, <2>5, WidenedMatches
  <2>7. PICK new : new = OnStack(cs, st.fn, frame.cs_index, fi, Len(stack))
    OBVIOUS
  <2>8. /\ new.cs \in [0 .. m - 1 -> Status] /\ new.fn \in [0 .. l - 1 -> Nat \cup {OFF_STACK}]
        /\ StatusMatches(new.cs, new.fn, Append(stack, frame))
        /\ new.cs[frame.cs_index].fn_index = fi
        /\ \A i \in 0 .. m - 1 : i # frame.cs_index => new.cs[i] = cs[i]
    <3>1. cs[frame.cs_index].fn_index = fi /\ cs \in [0 .. m - 1 -> Status]
      BY <1>12, <1>19, <2>2
    <3>2. PutOnStack(cs, m, l, stack, frame, fi, new)
      BY <1>19, <2>3, <2>4, <2>6, <2>7, <3>1, OnStackFacts
    <3>3. QED
      BY <3>2 DEF PutOnStack
  <2>9. /\ e.rest.fns = st.fns /\ e.rest.status = new /\ e.rest.min = MIN_CAPACITY
        /\ e.rest.ok
    BY <1>15, <1>17, <1>19, <1>21, <2>2, <2>7 DEF EnteredAgain
  <2>10. IsVector(new.cs, Status, s.table_size) /\ IsVector(new.fn, Nat \cup {OFF_STACK}, k)
    BY <1>13, <2>3, <2>8 DEF IsVector
  <2>11. ASSUME NEW i \in 0 .. m - 1
         PROVE  /\ i < s.table_size => new.cs[i].fn_index \in 0 .. k - 1
                /\ i >= s.table_size => new.cs[i] = Off
    <3>1. CASE i = index
      BY <1>19, <2>1, <2>2, <2>8, <3>1
    <3>2. CASE i # index
      BY <1>14, <1>19, <2>1, <2>8, <3>2
    <3>3. QED
      BY <3>1, <3>2
  <2>12. DOMAIN new.cs = 0 .. m - 1
    BY <2>8
  <2>13. SitesTyped(s, st.fns, new.cs, new.fn)
    BY <1>3, <1>4, <1>7, <2>10, <2>11, <2>12 DEF SitesTyped
  <2>14. QED
    BY <1>1, <1>2, <1>7, <1>8, <1>17, <2>1, <2>8, <2>9, <2>13 DEF CountsFrame
<1>22. QED
  BY <1>20, <1>21

\* The C frame on top returns: the vectors are true to what is left.
LEMMA LeftFacts ==
  ASSUME NEW stack \in Seq(CFrame), Len(stack) > 0, stack[Len(stack)].rip # 0,
         SitesTyped(call_site_table, function_table, cs_status, fn_status),
         OnSites(stack, call_site_table.table_size),
         StatusMatches(cs_status, fn_status, stack),
         NEW left, left = Left(stack[Len(stack)].cs_index, Len(stack) - 1)
  PROVE  /\ SitesTyped(call_site_table, function_table, left.cs, left.fn)
         /\ StatusMatches(left.cs, left.fn, Front(stack))
<1>1. PICK n \in Nat : n + 1 = Len(stack)
  <2>1. Len(stack) \in Nat \ {0} /\ Len(stack) - 1 \in Nat
    OBVIOUS
  <2>2. QED
    BY <2>1
<1>2. PICK before : before = Front(stack)
  OBVIOUS
<1>3. PICK frame \in CFrame : frame = stack[n + 1]
  BY <1>1
<1>4. before = SubSeq(stack, 1, n)
  BY <1>1, <1>2 DEF Front
<1>5. before \in Seq(CFrame) /\ Len(before) = n /\ \A j \in 1 .. n : before[j] = stack[j]
  BY <1>1, <1>4
<1>6. stack = Append(before, frame)
  BY <1>1, <1>3, <1>5, SeqEqual, AppendProperties
<1>7. EntersOn(before, stack, frame)
  BY <1>1, <1>3, <1>5, <1>6, InstancesGrow
<1>8. PICK index : index = frame.cs_index
  OBVIOUS
<1>9. /\ Real(before) \subseteq 1 .. n /\ n + 1 \in Real(stack)
      /\ InstancesOf(stack, index) = InstancesOf(before, index) \cup {n + 1}
      /\ \A i : i # index => InstancesOf(stack, i) = InstancesOf(before, i)
  BY <1>5, <1>7, <1>8 DEF EntersOn
<1>10. ASSUME NEW c, NEW f
       PROVE  FnInstancesOf(stack, c, f) = IF c[index].fn_index = f
                                           THEN FnInstancesOf(before, c, f) \cup {n + 1}
                                           ELSE FnInstancesOf(before, c, f)
  BY <1>5, <1>7, <1>8 DEF EntersOn
<1>11. PICK m \in Nat \ {0} : cs_status \in [0 .. m - 1 -> Status]
                                /\ call_site_table.table_size <= m
  BY DEF SitesTyped, IsVector
<1>12. PICK l \in Nat \ {0} : fn_status \in [0 .. l - 1 -> Nat \cup {OFF_STACK}]
                                /\ function_table.table_size <= l
  BY DEF SitesTyped, IsVector
<1>13. call_site_table.table_size \in Nat /\ function_table.table_size \in Nat
  BY DEF SitesTyped, IsIaddrTable, Shaped
<1>14. index \in 0 .. call_site_table.table_size - 1 /\ index \in 0 .. m - 1
  BY <1>3, <1>8, <1>9, <1>11, <1>13 DEF OnSites
<1>15. PICK fi \in 0 .. l - 1 : fi = cs_status[index].fn_index
                                  /\ fi \in 0 .. function_table.table_size - 1
  <2>1. \A i \in DOMAIN cs_status : i < call_site_table.table_size
          => cs_status[i].fn_index \in 0 .. function_table.table_size - 1
    BY DEF SitesTyped
  <2>2. index \in DOMAIN cs_status /\ index < call_site_table.table_size
    BY <1>11, <1>13, <1>14
  <2>3. cs_status[index].fn_index \in 0 .. function_table.table_size - 1
    BY <2>1, <2>2
  <2>4. QED
    BY <1>12, <1>13, <2>3
<1>16. PICK is \in SUBSET (1 .. n) : is = InstancesOf(before, index)
  BY <1>9 DEF InstancesOf
<1>17. PICK fs \in SUBSET (1 .. n) : fs = FnInstancesOf(before, cs_status, fi)
  BY <1>9 DEF FnInstancesOf
<1>18. /\ Outermost(is) = OFF_STACK <=> is = {}
       /\ Outermost(is) # OFF_STACK => Outermost(is) \in 0 .. n - 1
       /\ Outermost(is \cup {n + 1}) = IF is = {} THEN n ELSE Outermost(is)
  BY OutermostGrows
<1>19. /\ Outermost(fs) = OFF_STACK <=> fs = {}
       /\ Outermost(fs) # OFF_STACK => Outermost(fs) \in 0 .. n - 1
       /\ Outermost(fs \cup {n + 1}) = IF fs = {} THEN n ELSE Outermost(fs)
  BY OutermostGrows
<1>20. /\ \A i \in 0 .. m - 1 : cs_status[i].c_tail = Outermost(InstancesOf(stack, i))
       /\ \A f \in 0 .. l - 1 : fn_status[f] = Outermost(FnInstancesOf(stack, cs_status, f))
  BY <1>11, <1>12 DEF StatusMatches
<1>21. cs_status[index].c_tail = Outermost(is \cup {n + 1})
         /\ fn_status[fi] = Outermost(fs \cup {n + 1})
  BY <1>9, <1>10, <1>14, <1>15, <1>16, <1>17, <1>20
<1>22. left = Left(index, n)
  <2>1. Len(stack) - 1 = n
    BY <1>1
  <2>2. QED
    BY <1>1, <1>3, <1>8, <2>1
<1>23. IsTop(index, n) <=> is = {}
  BY <1>18, <1>21 DEF IsTop
<1>24. ASSUME NEW i \in 0 .. m - 1, i # index
       PROVE  cs_status[i].c_tail = Outermost(InstancesOf(before, i))
  BY <1>9, <1>20, <1>24
<1>25. ASSUME NEW f \in 0 .. l - 1, f # fi
       PROVE  fn_status[f] = Outermost(FnInstancesOf(before, cs_status, f))
  BY <1>10, <1>15, <1>20, <1>25
<1>26. CASE is # {}
  <2>1. left.cs = cs_status /\ left.fn = fn_status
    BY <1>22, <1>23, <1>26 DEF Left
  <2>2. cs_status[index].c_tail = Outermost(InstancesOf(before, index))
    BY <1>16, <1>18, <1>21, <1>26
  <2>3. fs # {}
    BY <1>15, <1>16, <1>17, <1>26 DEF FnInstancesOf, InstancesOf
  <2>4. fn_status[fi] = Outermost(FnInstancesOf(before, cs_status, fi))
    BY <1>17, <1>19, <1>21, <2>3
  <2>5. StatusMatches(cs_status, fn_status, before)
    BY <1>11, <1>12, <1>24, <1>25, <2>2, <2>4 DEF StatusMatches
  <2>6. QED
    BY <1>2, <2>1, <2>5
<1>27. CASE is = {}
  <2>1. PICK r \in Status : r = cs_status[index]
    BY <1>11, <1>14
  <2>2. PICK s \in Status : s = [r EXCEPT !.c_tail = OFF_STACK]
    BY DEF Status
  <2>3. s.c_tail = OFF_STACK /\ s.fn_index = r.fn_index
    BY <2>2 DEF Status
  <2>4. PICK cs : cs = [cs_status EXCEPT ![index] = s]
    OBVIOUS
  <2>5. PICK fn : fn = IF fn_status[fi] = n THEN [fn_status EXCEPT ![fi] = OFF_STACK] ELSE fn_status
    OBVIOUS
  <2>21. PICK off : off = [cs_status EXCEPT ![index].c_tail = OFF_STACK]
    OBVIOUS
  <2>22. left = [cs |-> off, fn |-> fn]
    BY <1>15, <1>22, <1>23, <1>27, <2>5, <2>21 DEF Left
  <2>23. off = cs
    BY <2>1, <2>2, <2>4, <2>21
  <2>6. left.cs = cs /\ left.fn = fn
    BY <2>22, <2>23
  <2>7. /\ cs \in [0 .. m - 1 -> Status] /\ cs[index] = s
        /\ \A i \in 0 .. m - 1 : i # index => cs[i] = cs_status[i]
    BY <1>11, <1>14, <2>4
  <2>8. fn \in [0 .. l - 1 -> Nat \cup {OFF_STACK}]
    BY <1>12, <2>5
  <2>9. \A j \in Real(before) : cs[before[j].cs_index].fn_index = cs_status[before[j].cs_index].fn_index
    BY <1>11, <1>14, <2>1, <2>3, <2>4
  <2>10. \A f : FnInstancesOf(before, cs, f) = FnInstancesOf(before, cs_status, f)
    BY <2>9 DEF FnInstancesOf
  <2>11. cs[index].c_tail = Outermost(InstancesOf(before, index))
    BY <1>16, <1>27, <2>3, <2>7 DEF Outermost
  <2>12. fn[fi] = Outermost(FnInstancesOf(before, cs, fi))
    <3>1. fn_status[fi] = n <=> fs = {}
      BY <1>19, <1>21
    <3>2. CASE fs = {}
      <4>1. fn[fi] = OFF_STACK
        BY <1>12, <2>5, <3>1, <3>2
      <4>2. QED
        BY <1>17, <1>19, <2>10, <3>2, <4>1
    <3>3. CASE fs # {}
      <4>1. fn[fi] = fn_status[fi]
        BY <2>5, <3>1, <3>3
      <4>2. QED
        BY <1>17, <1>19, <1>21, <2>10, <3>3, <4>1
    <3>4. QED
      BY <3>2, <3>3
  <2>13. ASSUME NEW f \in 0 .. l - 1, f # fi PROVE fn[f] = Outermost(FnInstancesOf(before, cs, f))
    <3>1. fn[f] = fn_status[f]
      BY <1>12, <2>5, <2>13
    <3>2. QED
      BY <1>25, <2>10, <2>13, <3>1
  <2>14. ASSUME NEW i \in 0 .. m - 1, i # index PROVE cs[i].c_tail = Outermost(InstancesOf(before, i))
    BY <1>24, <2>7, <2>14
  <2>15. StatusMatches(cs, fn, before)
    BY <2>7, <2>8, <2>11, <2>12, <2>13, <2>14 DEF StatusMatches
  <2>16. IsVector(cs, Status, call_site_table.table_size)
           /\ IsVector(fn, Nat \cup {OFF_STACK}, function_table.table_size)
    BY <1>11, <1>12, <2>7, <2>8 DEF IsVector
  <2>17. ASSUME NEW i \in 0 .. m - 1
         PROVE  /\ i < call_site_table.table_size
                     => cs[i].fn_index \in 0 .. function_table.table_size - 1
                /\ i >= call_site_table.table_size => cs[i] = Off
    <3>1. /\ i < call_site_table.table_size
                     => cs_status[i].fn_index \in 0 .. function_table.table_size - 1
          /\ i >= call_site_table.table_size => cs_status[i] = Off
      BY <1>11 DEF SitesTyped
    <3>2. CASE i = index
      BY <1>13, <1>14, <2>1, <2>3, <2>7, <3>1, <3>2
    <3>3. CASE i # index
      BY <2>7, <3>1, <3>3
    <3>4. QED
      BY <3>2, <3>3
  <2>18. DOMAIN cs = 0 .. m - 1
    BY <2>7
  <2>19. SitesTyped(call_site_table, function_table, cs, fn)
    BY <2>16, <2>17, <2>18 DEF SitesTyped
  <2>20. QED
    BY <1>2, <2>6, <2>15, <2>19
<1>28. QED
  BY <1>26, <1>27

\* Two C stacks with the same instances of the same call sites.
SameCalls(s, r) ==
  /\ Len(r) = Len(s)
  /\ \A j \in 1 .. Len(s) : r[j].cs_index = s[j].cs_index /\ r[j].rip = s[j].rip

LEMMA SameCallsMatch ==
  ASSUME NEW s \in Seq(CFrame), NEW r \in Seq(CFrame), SameCalls(s, r)
  PROVE  /\ \A n : OnSites(r, n) <=> OnSites(s, n)
         /\ \A cs, fn : StatusMatches(cs, fn, r) <=> StatusMatches(cs, fn, s)
<1>1. Real(r) = Real(s) /\ \A j \in Real(s) : r[j].cs_index = s[j].cs_index
  BY DEF SameCalls, Real
<1>2. \A i : InstancesOf(r, i) = InstancesOf(s, i)
  BY <1>1 DEF InstancesOf
<1>3. \A c, f : FnInstancesOf(r, c, f) = FnInstancesOf(s, c, f)
  BY <1>1 DEF FnInstancesOf
<1>4. QED
  BY <1>1, <1>2, <1>3 DEF OnSites, StatusMatches

\* A C frame's measurements are changed.
LEMMA UpdatedFrame ==
  ASSUME NEW s \in Seq(CFrame), NEW i \in 1 .. Len(s), NEW f \in CFrame,
         f.cs_index = s[i].cs_index, f.rip = s[i].rip,
         NEW r, r = [s EXCEPT ![i] = f]
  PROVE  r \in Seq(CFrame) /\ SameCalls(s, r)
<1>1. r \in Seq(CFrame) /\ Len(r) = Len(s)
  BY ExceptSeq
<1>2. \A j \in 1 .. Len(s) : r[j] = IF j = i THEN f ELSE s[j]
  BY ExceptSeq
<1>3. QED
  BY <1>1, <1>2 DEF SameCalls

LEMMA MeasuredFacts ==
  ASSUME c_stack \in Seq(CFrame), Len(c_stack) > 0, NEW t \in Nat
  PROVE  Measured(t) \in Seq(CFrame) /\ SameCalls(c_stack, Measured(t))
<1>1. PICK n \in 1 .. Len(c_stack) : n = Len(c_stack)
  OBVIOUS
<1>2. PICK c \in CFrame : c = c_stack[n]
  OBVIOUS
<1>3. PICK f \in CFrame : f = [c EXCEPT !.local_wrk = @ + t]
  <2>4. c.local_wrk \in Nat
    BY Zenon DEF CFrame
  <2>1. c.local_wrk + t \in Nat
    BY <2>4
  <2>2. [c EXCEPT !.local_wrk = c.local_wrk + t] \in CFrame
    BY <2>1 DEF CFrame
  <2>3. QED
    BY <2>2
<1>4. f.cs_index = c.cs_index /\ f.rip = c.rip
  BY <1>3 DEF CFrame
<1>5. PICK m : m = Measured(t)
  OBVIOUS
<1>6. m = [c_stack EXCEPT ![n] = f]
  BY <1>1, <1>2, <1>3, <1>5 DEF Measured
<1>7. m \in Seq(CFrame) /\ SameCalls(c_stack, m)
  BY <1>2, <1>4, <1>6, UpdatedFrame
<1>8. QED
  BY <1>5, <1>7

LEMMA CFrameFacts ==
  ASSUME NEW c \in CFrame
  PROVE  c.cs_index \in Nat /\ c.rip \in Nat /\ c.local_wrk \in Nat /\ c.running_wrk \in Nat
           /\ c.running_spn \in Nat
BY Zenon DEF CFrame

-----------------------------------------------------------------------------
(***************************************************************************)
(* Types of the state.                                                     *)
(***************************************************************************)
FrameKinds == {"MAIN", "SPAWNER", "HELPER"}

Frame == [func_type : FrameKinds, c_head : Nat, local_contin : Nat, local_spn : Nat,
          prefix_spn : Nat, lchild_spn : Nat,
          prefix_table : Ids, lchild_table : Ids, contin_table : Ids]

LEMMA FrameFacts ==
  ASSUME NEW f \in Frame
  PROVE  /\ f.func_type \in FrameKinds /\ f.c_head \in Nat /\ f.local_contin \in Nat
         /\ f.local_spn \in Nat /\ f.prefix_spn \in Nat /\ f.lchild_spn \in Nat
         /\ f.prefix_table \in Ids /\ f.lchild_table \in Ids /\ f.contin_table \in Ids
BY Zenon DEF Frame

\* The frames' heads are places in a C stack of n frames, one above the other.
Piled(frs, n) ==
  /\ frs \in Seq(Frame) /\ Len(frs) > 0
  /\ \A i \in 1 .. Len(frs) : frs[i].c_head \in 0 .. n - 1
  /\ \A i, j \in 1 .. Len(frs) : i < j => frs[i].c_head < frs[j].c_head

LEMMA PiledReplace ==
  ASSUME NEW n \in Nat, NEW frs, Piled(frs, n), NEW f \in Frame, f.c_head = Last(frs).c_head,
         NEW new, new = Front(frs) \o <<f>>
  PROVE  /\ Piled(new, n) /\ Len(new) = Len(frs) /\ Last(new) = f
         /\ \A i \in 1 .. Len(frs) - 1 : new[i] = frs[i]
<1>1. frs \in Seq(Frame)
  BY DEF Piled
<1>2. PICK k \in Nat : k + 1 = Len(frs)
  <2>1. Len(frs) \in Nat /\ Len(frs) - 1 \in Nat
    BY <1>1 DEF Piled
  <2>2. QED
    BY <2>1
<1>3. PICK front \in Seq(Frame) : front = Front(frs) /\ Len(front) = k
                                    /\ \A i \in 1 .. k : front[i] = frs[i]
  <2>1. SubSeq(frs, 1, k) \in Seq(Frame) /\ Len(SubSeq(frs, 1, k)) = k
          /\ \A i \in 1 .. k : SubSeq(frs, 1, k)[i] = frs[i]
    BY <1>1, <1>2
  <2>2. Front(frs) = SubSeq(frs, 1, k)
    BY <1>2 DEF Front
  <2>3. QED
    BY <2>1, <2>2
<1>4. <<f>> \in Seq(Frame) /\ Len(<<f>>) = 1 /\ <<f>>[1] = f
  OBVIOUS
<1>5. /\ new \in Seq(Frame) /\ Len(new) = k + 1 /\ new[k + 1] = f
      /\ \A i \in 1 .. k : new[i] = frs[i]
  BY <1>3, <1>4
<1>6. Last(frs) = frs[k + 1] /\ Last(new) = new[k + 1]
  BY <1>2, <1>5 DEF Last
<1>7. \A i \in 1 .. k + 1 : new[i].c_head = frs[i].c_head
  BY <1>5, <1>6
<1>9. /\ \A i \in 1 .. k + 1 : frs[i].c_head \in 0 .. n - 1
      /\ \A i, j \in 1 .. k + 1 : i < j => frs[i].c_head < frs[j].c_head
  BY <1>2 DEF Piled
<1>13. 1 .. Len(new) = 1 .. k + 1 /\ Len(new) > 0
  BY <1>5
<1>11. \A i \in 1 .. Len(new) : new[i].c_head \in 0 .. n - 1
  BY <1>7, <1>9, <1>13
<1>12. \A i, j \in 1 .. Len(new) : i < j => new[i].c_head < new[j].c_head
  BY <1>7, <1>9, <1>13
<1>10. Piled(new, n)
  BY <1>5, <1>11, <1>12, <1>13, Zenon DEF Piled
<1>8. QED
  BY <1>2, <1>5, <1>6, <1>10, SMTT(40)

LEMMA PiledPush ==
  ASSUME NEW n \in Nat, NEW frs, Piled(frs, n), NEW f \in Frame, f.c_head = n,
         NEW new, new = Append(frs, f)
  PROVE  Piled(new, n + 1) /\ Len(new) = Len(frs) + 1
<1>1. frs \in Seq(Frame) /\ Len(frs) \in Nat
  BY DEF Piled
<1>2. PICK k \in Nat : k = Len(frs)
  BY <1>1
<1>3. new \in Seq(Frame) /\ Len(new) = k + 1 /\ new[k + 1] = f
        /\ \A i \in 1 .. k : new[i] = frs[i]
  BY <1>1, <1>2
<1>4. \A i \in 1 .. k + 1 : i \in 1 .. k \/ i = k + 1
  OBVIOUS
<1>5. \A i \in 1 .. k : new[i].c_head \in 0 .. n - 1
  BY <1>2, <1>3 DEF Piled
<1>6. \A i \in 1 .. k + 1 : new[i].c_head \in 0 .. n
  BY <1>3, <1>4, <1>5
<1>7. \A i, j \in 1 .. k : i < j => new[i].c_head < new[j].c_head
  BY <1>2, <1>3 DEF Piled
<1>8. \A i, j \in 1 .. k + 1 : i < j => new[i].c_head < new[j].c_head
  BY <1>3, <1>4, <1>5, <1>7
<1>9. QED
  BY <1>2, <1>3, <1>6, <1>8 DEF Piled

\* The C frame on top is popped: it is not a frame's, or its frame goes, too.
LEMMA PiledPop ==
  ASSUME NEW n \in Nat, NEW frs, Piled(frs, n)
  PROVE  /\ Piled(frs, n + 1) /\ n > 0
         /\ Last(frs).c_head # n - 1 => n > 1 /\ Piled(frs, n - 1)
         /\ Last(frs).c_head = n - 1 /\ Len(frs) > 1
              => n > 1 /\ Piled(Front(frs), n - 1) /\ Len(Front(frs)) = Len(frs) - 1
                   /\ Last(Front(frs)) = frs[Len(frs) - 1]
<1>1. frs \in Seq(Frame) /\ Len(frs) \in Nat \ {0}
  BY DEF Piled
<1>2. PICK k \in Nat \ {0} : k = Len(frs)
  BY <1>1
<1>3. /\ \A i \in 1 .. k : frs[i].c_head \in 0 .. n - 1
      /\ \A i, j \in 1 .. k : i < j => frs[i].c_head < frs[j].c_head
  BY <1>2 DEF Piled
<1>4. n > 0
  BY <1>3
<1>5. Piled(frs, n + 1)
  BY <1>1, <1>2, <1>3 DEF Piled
<1>6. Last(frs) = frs[k]
  BY <1>2 DEF Last
<1>7. ASSUME Last(frs).c_head # n - 1 PROVE n > 1 /\ Piled(frs, n - 1)
  <2>1. frs[k].c_head \in 0 .. n - 2
    BY <1>3, <1>6, <1>7
  <2>2. \A i \in 1 .. k : frs[i].c_head \in 0 .. n - 2
    <3>1. ASSUME NEW i \in 1 .. k PROVE frs[i].c_head \in 0 .. n - 2
      <4>1. CASE i = k
        BY <2>1, <4>1
      <4>2. CASE i < k
        BY <1>3, <2>1, <4>2
      <4>3. QED
        BY <4>1, <4>2
    <3>2. QED
      BY <3>1
  <2>3. n > 1 /\ n - 1 \in Nat
    BY <2>1
  <2>4. QED
    BY <1>1, <1>2, <1>3, <2>2, <2>3 DEF Piled
<1>8. ASSUME Last(frs).c_head = n - 1, k > 1
      PROVE  n > 1 /\ Piled(Front(frs), n - 1) /\ Len(Front(frs)) = k - 1
               /\ Last(Front(frs)) = frs[k - 1]
  <2>1. PICK front \in Seq(Frame) : front = Front(frs) /\ Len(front) = k - 1
                                      /\ \A i \in 1 .. k - 1 : front[i] = frs[i]
    <3>1. SubSeq(frs, 1, k - 1) \in Seq(Frame) /\ Len(SubSeq(frs, 1, k - 1)) = k - 1
            /\ \A i \in 1 .. k - 1 : SubSeq(frs, 1, k - 1)[i] = frs[i]
      BY <1>1, <1>2
    <3>2. Front(frs) = SubSeq(frs, 1, k - 1)
      BY <1>2 DEF Front
    <3>3. QED
      BY <3>1, <3>2
  <2>2. \A i \in 1 .. k - 1 : front[i].c_head \in 0 .. n - 2
    <3>1. ASSUME NEW i \in 1 .. k - 1 PROVE front[i].c_head \in 0 .. n - 2
      <4>1. frs[i].c_head < frs[k].c_head
        BY <1>3
      <4>2. QED
        BY <1>3, <1>6, <1>8, <2>1, <4>1
    <3>2. QED
      BY <3>1
  <2>3. n > 1
    BY <1>8, <2>2
  <2>4. \A i, j \in 1 .. k - 1 : i < j => front[i].c_head < front[j].c_head
    BY <1>3, <2>1
  <2>5. Piled(front, n - 1)
    BY <1>8, <2>1, <2>2, <2>3, <2>4 DEF Piled
  <2>6. Last(front) = frs[k - 1]
    BY <1>8, <2>1 DEF Last
  <2>7. QED
    BY <2>1, <2>3, <2>5, <2>6
<1>9. QED
  BY <1>2, <1>4, <1>5, <1>7, <1>8

-----------------------------------------------------------------------------
(***************************************************************************)
(* Tables in memory.                                                       *)
(***************************************************************************)
IsHeap(h) == IsFiniteSet(DOMAIN h) /\ DOMAIN h \subseteq Nat

\* There is always an identity left.
LEMMA FreshFacts ==
  ASSUME NEW h, IsHeap(h)
  PROVE  Fresh(h) \in Nat /\ Fresh(h) \notin DOMAIN h
<1>1. PICK n \in Nat : n = Cardinality(DOMAIN h)
  BY FS_CardinalityType DEF IsHeap
<1>2. IsFiniteSet(0 .. n) /\ Cardinality(0 .. n) = n + 1
  BY FS_Interval
<1>3. ~(0 .. n \subseteq DOMAIN h)
  <2>1. SUFFICES ASSUME 0 .. n \subseteq DOMAIN h PROVE FALSE
    OBVIOUS
  <2>2. Cardinality(0 .. n) <= Cardinality(DOMAIN h)
    BY <2>1, FS_Subset DEF IsHeap
  <2>3. QED
    BY <1>1, <1>2, <2>2
<1>4. \E i \in 0 .. n : i \notin DOMAIN h
  BY <1>3
<1>5. Fresh(h) \in 0 .. n /\ Fresh(h) \notin DOMAIN h
  BY <1>1, <1>4 DEF Fresh
<1>6. QED
  BY <1>5

LEMMA CreatedFacts ==
  ASSUME NEW h, IsHeap(h), NEW new, new = Created(h)
  PROVE  /\ IsHeap(new) /\ DOMAIN new = DOMAIN h \cup {Fresh(h)}
         /\ new[Fresh(h)] = cc_hashtable_create
         /\ \A i \in DOMAIN h : new[i] = h[i]
<1>1. PICK i \in Nat : i = Fresh(h) /\ i \notin DOMAIN h
  BY FreshFacts
<1>2. new = [j \in DOMAIN h \cup {i} |-> IF j = i THEN cc_hashtable_create ELSE h[j]]
  BY <1>1 DEF Created, Allocated
<1>3. DOMAIN new = DOMAIN h \cup {i} /\ new[i] = cc_hashtable_create
        /\ \A j \in DOMAIN h : new[j] = h[j]
  BY <1>1, <1>2
<1>4. IsHeap(new)
  BY <1>3, FS_AddElement DEF IsHeap
<1>5. QED
  BY <1>1, <1>3, <1>4

\* Table id of heap h is table new_id of heap new, where it is tab; no other
\* table is touched.
Moves(h, id, tab, new, new_id) ==
  /\ IsHeap(new)
  /\ \/ new_id = id /\ new = [h EXCEPT ![id] = tab]
     \/ /\ new_id \in Nat /\ new_id \notin DOMAIN h
        /\ DOMAIN new = (DOMAIN h \ {id}) \cup {new_id} /\ new[new_id] = tab
        /\ \A i \in DOMAIN h \ {id} : new[i] = h[i]

\* A table is stored where it was, or in a place of its own instead.
LEMMA StoredFacts ==
  ASSUME NEW h, IsHeap(h), NEW id, NEW tab, NEW s, s = Stored(h, id, tab)
  PROVE  Moves(h, id, tab, s.heap, s.id)
<1>1. CASE tab.lg_capacity = h[id].lg_capacity
  <2>1. PICK same : same = [h EXCEPT ![id] = tab]
    OBVIOUS
  <2>2. s = [heap |-> same, id |-> id]
    BY <1>1, <2>1 DEF Stored
  <2>3. DOMAIN same = DOMAIN h
    BY <2>1
  <2>4. s.heap = same /\ s.id = id
    BY <2>2
  <2>5. QED
    BY <2>1, <2>3, <2>4 DEF IsHeap, Moves
<1>2. CASE tab.lg_capacity # h[id].lg_capacity
  <2>1. PICK n \in Nat : n = Fresh(h) /\ n \notin DOMAIN h
    BY FreshFacts
  <2>2. PICK rest : rest = Restrict(h, DOMAIN h \ {id})
    OBVIOUS
  <2>3. rest = [i \in DOMAIN h \ {id} |-> h[i]]
    BY <2>2 DEF Restrict
  <2>4. PICK moved : moved = Allocated(rest, n, tab)
    OBVIOUS
  <2>5. moved = [j \in DOMAIN rest \cup {n} |-> IF j = n THEN tab ELSE rest[j]]
    BY <2>4 DEF Allocated
  <2>6. /\ DOMAIN moved = (DOMAIN h \ {id}) \cup {n} /\ moved[n] = tab
        /\ \A i \in DOMAIN h \ {id} : moved[i] = h[i]
    BY <2>1, <2>3, <2>5
  <2>7. s = [heap |-> moved, id |-> n]
    BY <1>2, <2>1, <2>2, <2>4 DEF Stored
  <2>8. s.heap = moved /\ s.id = n
    BY <2>7
  <2>9. IsFiniteSet(DOMAIN h \ {id})
    BY FS_Subset DEF IsHeap
  <2>10. IsHeap(moved)
    BY <2>6, <2>9, FS_AddElement DEF IsHeap
  <2>11. QED
    BY <2>1, <2>6, <2>8, <2>10 DEF Moves
<1>3. QED
  BY <1>1, <1>2

\* A table that has moved is in the heap still, and apart from the others.
LEMMA MovesFacts ==
  ASSUME NEW h, IsHeap(h), NEW id, NEW tab, NEW new, NEW new_id, Moves(h, id, tab, new, new_id)
  PROVE  /\ IsHeap(new)
         /\ id \in Ids => new_id \in Ids
         /\ id \in DOMAIN h => /\ DOMAIN new = (DOMAIN h \ {id}) \cup {new_id}
                               /\ new_id \notin DOMAIN h \ {id} /\ new[new_id] = tab
                               /\ \A i \in DOMAIN h \ {id} : new[i] = h[i]
<1>1. CASE new_id = id /\ new = [h EXCEPT ![id] = tab]
  BY <1>1 DEF Moves
<1>2. CASE ~(new_id = id /\ new = [h EXCEPT ![id] = tab])
  BY <1>2 DEF Moves, Ids
<1>3. QED
  BY <1>1, <1>2

LEMMA ClearFacts ==
  ASSUME NEW h, NEW id
  PROVE  /\ DOMAIN Clear(h, id) = DOMAIN h
         /\ IsHeap(h) => IsHeap(Clear(h, id))
         /\ \A i \in DOMAIN h : i # id => Clear(h, id)[i] = h[i]
         /\ id \in DOMAIN h => Clear(h, id)[id] = clear_cc_hashtable(h[id])
BY DEF Clear, IsHeap

\* The sum of two tables takes the place of one of them; the other is empty.
AddedTogether(h, left, right, h2, l2, r2) ==
  \E big, tab, h1 :
    /\ big \in {left, right} /\ r2 \in {left, right} /\ {big, r2} = {left, right} /\ (left # right => big # r2)
    /\ h1 = [h EXCEPT ![r2].list = <<>>]
    /\ tab = Added(h[big], h[r2], MIN_CAPACITY) /\ Moves(h1, big, tab, h2, l2)

LEMMA AddTablesFacts ==
  ASSUME NEW h, IsHeap(h), NEW left, NEW right, NEW a, a = AddTables(h, left, right)
  PROVE  AddedTogether(h, left, right, a.heap, a.left, a.right)
<1>1. PICK big, small : /\ big = IF h[right].lg_capacity > h[left].lg_capacity THEN right ELSE left
                        /\ small = IF h[right].lg_capacity > h[left].lg_capacity THEN left ELSE right
  OBVIOUS
<1>2. PICK h1 : h1 = [h EXCEPT ![small].list = <<>>]
  OBVIOUS
<1>3. PICK tab : tab = Added(h[big], h[small], MIN_CAPACITY)
  OBVIOUS
<1>4. PICK s : s = Stored(h1, big, tab)
  OBVIOUS
<1>5. a = [heap |-> s.heap, left |-> s.id, right |-> small]
  BY <1>1, <1>2, <1>3, <1>4 DEF AddTables
<1>6. DOMAIN h1 = DOMAIN h
  BY <1>2
<1>7. Moves(h1, big, tab, s.heap, s.id)
  BY <1>4, <1>6, StoredFacts DEF IsHeap
<1>8. a.heap = s.heap /\ a.left = s.id /\ a.right = small
  BY <1>5
<1>9. /\ big \in {left, right} /\ small \in {left, right} /\ {big, small} = {left, right}
      /\ left # right => big # small
  BY <1>1
<1>10. QED
  BY <1>2, <1>3, <1>7, <1>8, <1>9 DEF AddedTogether

LEMMA AddTablesTyped ==
  ASSUME NEW h, IsHeap(h), NEW left \in Ids, NEW right \in Ids,
         NEW a, a = AddTables(h, left, right)
  PROVE  IsHeap(a.heap) /\ a.left \in Ids /\ a.right \in Ids
<1>1. AddedTogether(h, left, right, a.heap, a.left, a.right)
  BY AddTablesFacts
<1>2. PICK big, tab, h1 :
        /\ big \in {left, right} /\ a.right \in {left, right} /\ h1 = [h EXCEPT ![a.right].list = <<>>]
        /\ Moves(h1, big, tab, a.heap, a.left)
  BY <1>1 DEF AddedTogether
<1>3. DOMAIN h1 = DOMAIN h
  BY <1>2
<1>4. IsHeap(h1)
  BY <1>3 DEF IsHeap
<1>7. Moves(h1, big, tab, a.heap, a.left) /\ big \in Ids
  BY <1>2
<1>5. IsHeap(a.heap) /\ a.left \in Ids
  BY <1>4, <1>7, MovesFacts
<1>6. QED
  BY <1>2, <1>5

\* The tables updates are added to, and those that are flushed.
LEMMA AddToTyped ==
  ASSUME NEW h, IsHeap(h), NEW id \in Ids, NEW update, NEW s,
         s = AddTo(h, id, update) \/ s = Flush(h, id)
  PROVE  IsHeap(s.heap) /\ s.id \in Ids
<1>1. PICK tab : s = Stored(h, id, tab)
  BY DEF AddTo, Flush
<1>2. Moves(h, id, tab, s.heap, s.id)
  BY <1>1, StoredFacts
<1>3. QED
  BY <1>2, MovesFacts

\* The stack of C frames, the call sites they were entered from, and the
\* tables and vectors that number them.
CStackInv ==
  /\ c_stack \in Seq(CFrame) /\ Len(c_stack) > 0
  /\ keys \in Seq(Keys) /\ Len(keys) = Len(c_stack)
  /\ c_stack_capacity \in Nat \ {0} /\ Len(c_stack) <= c_stack_capacity
  /\ MIN_CAPACITY \in Nat \ {0}
  /\ SitesTyped(call_site_table, function_table, cs_status, fn_status)
  /\ StatusMatches(cs_status, fn_status, c_stack)
  /\ \A j \in 1 .. Len(c_stack) : c_stack[j].cs_index \in 0 .. call_site_table.table_size - 1
  /\ \A j \in 2 .. Len(c_stack) : c_stack[j].rip # 0

LEMMA SitesAreSites ==
  /\ \A site \in Sites \cup {MainSite} : IsSite(site) /\ KeyOf(site) \in Keys
  /\ StrandLengths \cup LeavingLengths \subseteq Nat
<1>1. \A site \in Sites : IsSite(site)
  BY CilkProfAssumption, Zenon DEF IsSite, Types
<1>2. IsSite(MainSite)
  BY CilkProfAssumption, Zenon DEF IsSite, Types
<1>3. QED
  BY <1>1, <1>2, CilkProfAssumption DEF Keys, MainKey

\* Nothing is called and nothing returns.
LEMMA KeepC ==
  ASSUME CStackInv, c_stack' \in Seq(CFrame), SameCalls(c_stack, c_stack'),
         UNCHANGED <<siteVars, keys, c_stack_capacity>>
  PROVE  CStackInv' /\ Len(c_stack') = Len(c_stack)
<1>1. /\ Len(c_stack') = Len(c_stack)
      /\ \A j \in 1 .. Len(c_stack) : c_stack'[j].cs_index = c_stack[j].cs_index
                                        /\ c_stack'[j].rip = c_stack[j].rip
  BY DEF SameCalls
<1>2. StatusMatches(cs_status, fn_status, c_stack')
  BY SameCallsMatch DEF CStackInv
<1>3. UNCHANGED <<call_site_table, function_table, cs_status, fn_status, MIN_CAPACITY, keys, c_stack_capacity>>
  BY DEF siteVars
<1>4. StatusMatches(cs_status, fn_status, c_stack)'
  BY <1>2, <1>3
<1>5. SitesTyped(call_site_table, function_table, cs_status, fn_status)'
  BY <1>3 DEF CStackInv
<1>6. Len(c_stack) \in Nat
  BY DEF CStackInv
<1>7. /\ \A j \in 1 .. Len(c_stack') : c_stack'[j].cs_index \in 0 .. call_site_table'.table_size - 1
      /\ \A j \in 2 .. Len(c_stack') : c_stack'[j].rip # 0
  <2>1. 2 .. Len(c_stack) \subseteq 1 .. Len(c_stack)
    BY <1>6
  <2>2. QED
    BY <1>1, <1>3, <2>1 DEF CStackInv
<1>8. QED
  BY <1>1, <1>3, <1>4, <1>5, <1>7 DEF CStackInv

\* A function is entered.
LEMMA PushC ==
  ASSUME CStackInv, NEW site \in Sites, NEW t \in Nat,
         NEW e, e = Entered(CurrentSites, site, Len(c_stack)),
         PushCFrame(Measured(t), e.index, site), SitesBecome(e)
  PROVE  /\ CStackInv' /\ Len(c_stack') = Len(c_stack) + 1
         /\ Len(Measured(t)) = Len(c_stack) /\ Len(Measured(t)) \in Nat
         /\ c_stack'[Len(c_stack) + 1].cs_index = e.index
         /\ RecordOf(site.rip, site.type, e.index) \in AllRecords(call_site_table')
<1>1. PICK m : m = Measured(t)
  OBVIOUS
<1>2. m \in Seq(CFrame) /\ SameCalls(c_stack, m) /\ Len(m) = Len(c_stack) /\ Len(m) \in Nat
        /\ c_stack \in Seq(CFrame) /\ Len(c_stack) > 0
  <2>1. c_stack \in Seq(CFrame) /\ Len(c_stack) > 0
    BY DEF CStackInv
  <2>2. m \in Seq(CFrame) /\ SameCalls(c_stack, m)
    BY <1>1, <2>1, MeasuredFacts
  <2>3. QED
    BY <2>1, <2>2 DEF SameCalls
<1>3. PICK st : st = CurrentSites
  OBVIOUS
<1>4. /\ st.sites = call_site_table /\ st.fns = function_table
      /\ st.cs = cs_status /\ st.fn = fn_status
  BY <1>3 DEF CurrentSites
<1>5. TypedState(st)
  BY <1>4 DEF TypedState, CStackInv
<1>6. call_site_table.table_size \in Nat
  BY DEF CStackInv, SitesTyped, IsIaddrTable, Shaped
<1>7. StatusMatches(st.cs, st.fn, m)
  BY <1>2, <1>4, SameCallsMatch DEF CStackInv
<1>8. OnSites(m, st.sites.table_size)
  <2>1. OnSites(c_stack, st.sites.table_size)
    BY <1>4 DEF CStackInv, OnSites, Real
  <2>2. QED
    BY <1>2, <2>1, SameCallsMatch
<1>9. IsSite(site) /\ KeyOf(site) \in Keys
  BY SitesAreSites
<1>10. e = Entered(st, site, Len(m))
  BY <1>2, <1>3
<1>11. e.index \in Nat
  <2>1. PICK s : s = add_to_iaddr_table(st.sites, site.rip, site.type)
    OBVIOUS
  <2>2. site.rip \in Nat /\ site.type \in Types /\ IsIaddrTable(st.sites)
    BY <1>5, <1>9 DEF IsSite, TypedState, SitesTyped
  <2>3. HasNumber(st.sites, s, site.rip, site.type, IndexOf(s, site.rip))
    BY <2>1, <2>2, AddFacts
  <2>4. e.index = IndexOf(s, site.rip)
    BY <1>10, <2>1 DEF Entered, Numbered, EnteredAt
  <2>5. IndexOf(s, site.rip) \in 0 .. s.table_size - 1
    BY <2>3 DEF HasNumber
  <2>6. QED
    BY <2>4, <2>5
<1>12. PICK frame : frame = NewCFrame(e.index, site.rip)
  OBVIOUS
<1>13. frame \in CFrame /\ frame.rip = site.rip /\ frame.rip # 0 /\ frame.cs_index = e.index
  BY <1>9, <1>11, <1>12 DEF NewCFrame, CFrame, IsSite
<1>14. CountsFrame(st, e, site, m, frame)
  BY <1>2, <1>5, <1>7, <1>8, <1>9, <1>10, <1>13, EnteredFacts
<1>15. /\ call_site_table' = e.sites /\ function_table' = e.rest.fns
       /\ cs_status' = e.rest.status.cs /\ fn_status' = e.rest.status.fn /\ MIN_CAPACITY' = e.rest.min
  BY DEF SitesBecome
<1>16. /\ c_stack' = Append(m, frame)
       /\ c_stack_capacity' = IF Len(m) >= c_stack_capacity THEN 2 * c_stack_capacity
                                                            ELSE c_stack_capacity
       /\ keys' = Append(keys, KeyOf(site))
  BY <1>1, <1>12 DEF PushCFrame
<1>17. /\ c_stack' \in Seq(CFrame) /\ Len(c_stack') = Len(m) + 1 /\ c_stack'[Len(m) + 1] = frame
       /\ \A j \in 1 .. Len(m) : c_stack'[j] = m[j]
  BY <1>2, <1>13, <1>16
<1>18. keys' \in Seq(Keys) /\ Len(keys') = Len(keys) + 1
  BY <1>9, <1>16 DEF CStackInv
<1>19. PICK cap \in Nat \ {0} : cap = c_stack_capacity /\ Len(m) <= cap
  BY <1>2 DEF CStackInv
<1>20. c_stack_capacity' \in Nat \ {0} /\ Len(c_stack') <= c_stack_capacity'
  BY <1>2, <1>16, <1>17, <1>19

<1>22. SitesTyped(call_site_table', function_table', cs_status', fn_status')
         /\ StatusMatches(cs_status', fn_status', c_stack')
  BY <1>14, <1>15, <1>16 DEF CountsFrame
<1>23. PICK size \in Nat : size = call_site_table'.table_size
  BY <1>22 DEF SitesTyped, IsIaddrTable, Shaped
<1>24. call_site_table.table_size <= size /\ e.index \in 0 .. size - 1
  BY <1>4, <1>14, <1>15, <1>23 DEF CountsFrame
<1>21. MIN_CAPACITY' \in Nat \ {0}
  <2>1. MIN_CAPACITY' = size \/ MIN_CAPACITY' = MIN_CAPACITY
    BY <1>14, <1>15, <1>23 DEF CountsFrame
  <2>2. QED
    BY <1>23, <1>24, <2>1 DEF CStackInv
<1>25. \A j \in 1 .. Len(c_stack') : c_stack'[j].cs_index \in 0 .. size - 1
  <2>1. ASSUME NEW j \in 1 .. Len(m) PROVE c_stack'[j].cs_index \in 0 .. size - 1
    <3>1. c_stack'[j].cs_index = c_stack[j].cs_index
      BY <1>2, <1>17 DEF SameCalls
    <3>2. c_stack[j].cs_index \in 0 .. call_site_table.table_size - 1
      BY <1>2 DEF CStackInv
    <3>3. QED
      BY <1>6, <1>24, <3>1, <3>2
  <2>2. QED
    BY <1>2, <1>13, <1>17, <1>24, <2>1
<1>26. \A j \in 2 .. Len(c_stack') : c_stack'[j].rip # 0
  <2>1. ASSUME NEW j \in 2 .. Len(m) PROVE c_stack'[j].rip # 0
    <3>1. c_stack'[j].rip = c_stack[j].rip
      BY <1>2, <1>17 DEF SameCalls
    <3>2. QED
      BY <1>2, <3>1 DEF CStackInv
  <2>2. QED
    BY <1>2, <1>13, <1>17, <2>1
<1>27. Len(keys') = Len(c_stack')
  BY <1>2, <1>17, <1>18 DEF CStackInv
<1>28. CStackInv'
  BY <1>2, <1>17, <1>18, <1>20, <1>21, <1>22, <1>23, <1>25, <1>26, <1>27 DEF CStackInv
<1>29. RecordOf(site.rip, site.type, e.index) \in AllRecords(call_site_table')
  BY <1>14, <1>15 DEF CountsFrame
<1>30. QED
  BY <1>1, <1>2, <1>13, <1>17, <1>28, <1>29

\* A function returns.
LEMMA PopC ==
  ASSUME CStackInv, Len(c_stack) > 1, NEW t \in Nat, ReturnedSites(Last(Measured(t))),
         c_stack' \in Seq(CFrame), SameCalls(Front(c_stack), c_stack'), keys' = Front(keys),
         UNCHANGED c_stack_capacity
  PROVE  CStackInv' /\ Len(c_stack') = Len(c_stack) - 1
<1>1. PICK n \in Nat \ {0} : n + 1 = Len(c_stack)
  <2>1. Len(c_stack) \in Nat /\ Len(c_stack) - 1 \in Nat \ {0}
    BY DEF CStackInv
  <2>2. QED
    BY <2>1
<1>2. c_stack \in Seq(CFrame) /\ \A j \in 2 .. n + 1 : c_stack[j].rip # 0
  BY <1>1 DEF CStackInv
<1>3. Measured(t) \in Seq(CFrame) /\ SameCalls(c_stack, Measured(t))
  BY <1>1, <1>2, MeasuredFacts
<1>4. PICK index : index = c_stack[n + 1].cs_index
  OBVIOUS
<1>5. Last(Measured(t)).cs_index = index
  BY <1>1, <1>3, <1>4 DEF Last, SameCalls
<1>6. PICK left : left = Left(index, n)
  OBVIOUS
<1>7. /\ cs_status' = left.cs /\ fn_status' = left.fn
      /\ UNCHANGED <<call_site_table, function_table, MIN_CAPACITY>>
  <2>1. c_tail = n
    BY <1>1 DEF c_tail
  <2>2. QED
    BY <1>5, <1>6, <2>1 DEF ReturnedSites
<1>8. OnSites(c_stack, call_site_table.table_size)
  BY DEF CStackInv, OnSites, Real
<1>9. SitesTyped(call_site_table, function_table, cs_status, fn_status)
        /\ StatusMatches(cs_status, fn_status, c_stack)
  BY DEF CStackInv
<1>10. /\ SitesTyped(call_site_table, function_table, left.cs, left.fn)
       /\ StatusMatches(left.cs, left.fn, Front(c_stack))
  <2>1. c_stack[Len(c_stack)].rip # 0 /\ Len(c_stack) - 1 = n /\ Len(c_stack) > 0
    BY <1>1, <1>2
  <2>2. left = Left(c_stack[Len(c_stack)].cs_index, Len(c_stack) - 1)
    BY <1>1, <1>4, <1>6, <2>1
  <2>3. QED
    BY <1>2, <1>8, <1>9, <2>1, <2>2, LeftFacts
<1>11. PICK front \in Seq(CFrame) : front = Front(c_stack) /\ Len(front) = n
                                      /\ \A j \in 1 .. n : front[j] = c_stack[j]
  <2>1. SubSeq(c_stack, 1, n) \in Seq(CFrame) /\ Len(SubSeq(c_stack, 1, n)) = n
          /\ \A j \in 1 .. n : SubSeq(c_stack, 1, n)[j] = c_stack[j]
    BY <1>1, <1>2
  <2>2. Front(c_stack) = SubSeq(c_stack, 1, n)
    BY <1>1 DEF Front
  <2>3. QED
    BY <2>1, <2>2
<1>12. StatusMatches(left.cs, left.fn, c_stack')
  BY <1>10, <1>11, SameCallsMatch
<1>13. /\ Len(c_stack') = n
       /\ \A j \in 1 .. n : c_stack'[j].cs_index = c_stack[j].cs_index
                              /\ c_stack'[j].rip = c_stack[j].rip
  BY <1>11 DEF SameCalls
<1>14. keys' \in Seq(Keys) /\ Len(keys') = n
  <2>1. keys \in Seq(Keys) /\ Len(keys) = n + 1
    BY <1>1 DEF CStackInv
  <2>2. keys' = SubSeq(keys, 1, n)
    BY <1>1, <2>1 DEF Front
  <2>3. QED
    BY <2>1, <2>2
<1>15. c_stack_capacity' \in Nat \ {0} /\ Len(c_stack') <= c_stack_capacity'
         /\ MIN_CAPACITY' \in Nat \ {0}
  BY <1>1, <1>7, <1>13 DEF CStackInv
<1>16. SitesTyped(call_site_table', function_table', cs_status', fn_status')
         /\ StatusMatches(cs_status', fn_status', c_stack')
  BY <1>7, <1>10, <1>12
<1>17. \A j \in 1 .. n : c_stack'[j].cs_index \in 0 .. call_site_table'.table_size - 1
  <2>1. \A j \in 1 .. n + 1 : c_stack[j].cs_index \in 0 .. call_site_table.table_size - 1
    BY <1>1 DEF CStackInv
  <2>2. QED
    BY <1>7, <1>13, <2>1
<1>18. \A j \in 2 .. n : c_stack'[j].rip # 0
  BY <1>2, <1>13
<1>19. 1 .. Len(c_stack') = 1 .. n /\ 2 .. Len(c_stack') = 2 .. n /\ Len(c_stack') > 0
  BY <1>13
<1>20. CStackInv'
  BY <1>13, <1>14, <1>15, <1>16, <1>17, <1>18, <1>19 DEF CStackInv
<1>21. QED
  BY <1>1, <1>13, <1>20

-----------------------------------------------------------------------------
(***************************************************************************)
(* The invariant of the types and of the three stacks.                     *)
(***************************************************************************)
Stages == {"body", "spawning", "args", "detached"}
Paths == [Keys -> Nat]
HistRec == [stage : Stages, unsynced : BOOLEAN, resume : Paths, join : Paths]
SpawnerTables == [lchild : Ids, contin : Ids]

HeapInv ==
  /\ IsHeap(heap) /\ wrk_table \in Ids
  /\ helper_sf_free_list \in Seq(Ids) /\ spawner_sf_free_list \in Seq(SpawnerTables)

FramesInv ==
  /\ Piled(frames, Len(c_stack))
  /\ hist \in Seq(HistRec) /\ Len(hist) = Len(frames)

FlagsInv ==
  /\ {TOOL_INITIALIZED, TOOL_PRINTED, in_user_code, died} \subseteq BOOLEAN
  /\ pc \in {"user", "entering", "prepared", "detaching", "syncing", "leaving"}
  /\ path \in Paths
  /\ c_stack_capacity \in Nat /\ MIN_CAPACITY \in Nat \ {0}
  /\ SitesTyped(call_site_table, function_table, cs_status, fn_status)

Inv ==
  /\ FlagsInv /\ HeapInv
  /\ TOOL_INITIALIZED => CStackInv /\ FramesInv
  /\ ~TOOL_INITIALIZED => /\ pc = "user" /\ frames = <<>> /\ c_stack = <<>>
                          /\ hist = <<>> /\ keys = <<>>

LEMMA NewFrameFacts ==
  ASSUME NEW type \in FrameKinds, NEW n \in Nat, NEW p \in Ids, NEW l \in Ids, NEW c \in Ids,
         NEW f, f = NewFrame(type, n, p, l, c)
  PROVE  /\ f \in Frame /\ f.func_type = type /\ f.c_head = n
         /\ f.prefix_table = p /\ f.lchild_table = l /\ f.contin_table = c /\ f.lchild_spn = 0
BY DEF NewFrame, Frame

LEMMA HistoryFacts ==
  ASSUME NEW s \in Stages, NEW p \in Paths, NEW q \in Paths, NEW r, r = History(s, p, q)
  PROVE  r \in HistRec /\ r.stage = s /\ r.unsynced = FALSE
BY DEF History, HistRec

LEMMA PathFacts ==
  /\ NoPath \in Paths
  /\ \A p, q \in Paths : Longer(p, q) \in Paths
BY DEF NoPath, Paths, Longer

LEMMA PathAfterFacts ==
  ASSUME path \in Paths, CStackInv, NEW t \in Nat
  PROVE  PathAfter(t) \in Paths
<1>1. PICK n \in Nat \ {0} : n = Len(keys) /\ keys \in Seq(Keys)
  BY DEF CStackInv
<1>2. PICK k \in Keys : k = Last(keys)
  BY <1>1 DEF Last
<1>3. path[k] + t \in Nat
  BY DEF Paths
<1>4. [path EXCEPT ![k] = path[k] + t] \in Paths
  BY <1>3 DEF Paths
<1>5. QED
  BY <1>2, <1>4 DEF PathAfter

\* The bottom frame with the strand added.
LEMMA WithContinFacts ==
  ASSUME NEW n, Piled(frames, n), NEW t \in Nat
  PROVE  /\ bot \in Frame /\ bot = frames[Len(frames)] /\ bot.c_head \in Nat
         /\ WithContin(t) \in Frame /\ WithContin(t).c_head = bot.c_head
         /\ [bot EXCEPT !.local_contin = @ + t] \in Frame
         /\ [bot EXCEPT !.local_contin = @ + t].c_head = bot.c_head
<1>1. frames \in Seq(Frame) /\ Len(frames) \in Nat \ {0}
  BY DEF Piled
<1>2. PICK b \in Frame : b = bot
  BY <1>1 DEF bot, Last
<1>3. bot = frames[Len(frames)]
  BY <1>1 DEF bot, Last
<1>4. b.local_contin \in Nat /\ b.c_head \in Nat
  BY FrameFacts
<1>5. b.local_contin + t \in Nat
  BY <1>4
<1>6. PICK f : f = [b EXCEPT !.local_contin = b.local_contin + t]
  OBVIOUS
<1>7. f \in Frame /\ f.c_head = b.c_head
  BY <1>5, <1>6 DEF Frame
<1>8. [bot EXCEPT !.local_contin = @ + t] = f
  BY <1>2, <1>6
<1>9. WithContin(t) = f \/ WithContin(t) = b
  BY <1>2, <1>6 DEF WithContin
<1>10. QED
  BY <1>2, <1>3, <1>4, <1>7, <1>8, <1>9

LEMMA CreatedTyped ==
  ASSUME NEW h, IsHeap(h)
  PROVE  IsHeap(Created(h)) /\ Fresh(h) \in Ids
BY CreatedFacts, FreshFacts DEF Ids

\* The bottom frame is replaced by one with the same head.
LEMMA BottomFacts ==
  ASSUME NEW n \in Nat, Piled(frames, n), NEW f \in Frame, f.c_head = bot.c_head
  PROVE  /\ Piled(Bottom(f), n) /\ Len(Bottom(f)) = Len(frames) /\ Last(Bottom(f)) = f
         /\ \A i \in 1 .. Len(frames) - 1 : Bottom(f)[i] = frames[i]
<1>1. PICK new : new = Bottom(f)
  OBVIOUS
<1>2. new = Front(frames) \o <<f>> /\ f.c_head = Last(frames).c_head
  BY <1>1 DEF Bottom, bot
<1>3. /\ Piled(new, n) /\ Len(new) = Len(frames) /\ Last(new) = f
      /\ \A i \in 1 .. Len(frames) - 1 : new[i] = frames[i]
  BY <1>2, PiledReplace, ZenonT(40)
<1>4. QED
  BY <1>1, <1>3

LEMMA KeepFlags ==
  ASSUME Inv, TOOL_INITIALIZED, UNCHANGED toolVars, CStackInv', FramesInv', HeapInv',
         path' \in Paths, {in_user_code', died'} \subseteq BOOLEAN,
         pc' \in {"user", "entering", "prepared", "detaching", "syncing", "leaving"}
  PROVE  Inv'
<1>1. TOOL_INITIALIZED' = TOOL_INITIALIZED /\ TOOL_PRINTED' = TOOL_PRINTED
  BY DEF toolVars
<1>2. /\ c_stack_capacity' \in Nat /\ MIN_CAPACITY' \in Nat \ {0}
      /\ SitesTyped(call_site_table', function_table', cs_status', fn_status')
  BY DEF CStackInv
<1>3. FlagsInv'
  BY <1>1, <1>2 DEF Inv, FlagsInv
<1>4. QED
  BY <1>1, <1>3 DEF Inv

LEMMA EnterSpawner ==
  ASSUME Inv, NEW site \in Sites, NEW t \in StrandLengths, cilk_enter_begin(site, t)
  PROVE  Inv'
<1>1. TOOL_INITIALIZED /\ t \in Nat
  BY SitesAreSites DEF cilk_enter_begin, MayPush, Running
<1>2. CStackInv /\ FramesInv /\ HeapInv /\ path \in Paths
  BY <1>1 DEF Inv, FlagsInv
<1>3. PICK e : e = Entered(CurrentSites, site, Len(c_stack))
  OBVIOUS
<1>4. /\ in_user_code' = FALSE /\ PushCFrame(Measured(t), e.index, site)
      /\ PushSpawner(Measured(t), Bottom(WithContin(t)), e.rest.ok)
      /\ SitesBecome(e) /\ pc' = "entering" /\ path' = PathAfter(t)
      /\ hist' = Append(hist, History("body", NoPath, PathAfter(t)))
      /\ UNCHANGED <<wrk_table, toolVars>>
  BY <1>3 DEF cilk_enter_begin
<1>5. PICK n \in Nat : n = Len(c_stack) /\ Piled(frames, n)
  BY <1>2 DEF CStackInv, FramesInv
<1>6. CStackInv' /\ Len(c_stack') = n + 1 /\ Len(Measured(t)) = n
  BY <1>1, <1>2, <1>3, <1>4, <1>5, PushC
<1>7. PICK under : under = Bottom(WithContin(t))
  OBVIOUS
<1>8. Piled(under, n) /\ Len(under) = Len(frames) /\ Last(under) = WithContin(t)
        /\ WithContin(t) \in Frame
  BY <1>1, <1>5, <1>7, WithContinFacts, BottomFacts
<1>9. PICK lent \in Ids : lent = LentTable(Last(under))
  BY <1>8, FrameFacts DEF LentTable
<1>10. PICK new : new = (spawner_sf_free_list = <<>>)
  OBVIOUS
<1>11. PICK h1 : h1 = IF new THEN Created(heap) ELSE heap
  OBVIOUS
<1>12. PICK h2 : h2 = IF new THEN Created(h1) ELSE h1
  OBVIOUS
<1>13. PICK lchild : lchild = IF new THEN Fresh(heap) ELSE Head(spawner_sf_free_list).lchild
  OBVIOUS
<1>14. PICK contin : contin = IF new THEN Fresh(h1) ELSE Head(spawner_sf_free_list).contin
  OBVIOUS
<1>15. PICK ok : ok = (/\ cc_hashtable_is_empty(h2[lchild]) /\ cc_hashtable_is_empty(h2[contin])
                       /\ e.rest.ok)
  OBVIOUS
<1>16. /\ heap' = h2
       /\ spawner_sf_free_list' = IF new THEN <<>> ELSE Tail(spawner_sf_free_list)
       /\ frames' = Append(under, NewFrame("SPAWNER", n, lent, lchild, contin))
       /\ died' = ~ok
       /\ UNCHANGED helper_sf_free_list
  BY <1>4, <1>6, <1>7, <1>9, <1>10, <1>11, <1>12, <1>13, <1>14, <1>15 DEF PushSpawner, Asserting
<1>17. IsHeap(heap) /\ spawner_sf_free_list \in Seq(SpawnerTables)
  BY <1>2 DEF HeapInv
<1>18. IsHeap(h1) /\ IsHeap(h2)
  BY <1>11, <1>12, <1>17, CreatedTyped
<1>19. lchild \in Ids /\ contin \in Ids /\ spawner_sf_free_list' \in Seq(SpawnerTables)
  <2>1. CASE new
    BY <1>13, <1>14, <1>16, <1>17, <1>18, <2>1, CreatedTyped
  <2>2. CASE ~new
    <3>1. spawner_sf_free_list # <<>>
      BY <1>10, <2>2
    <3>2. Head(spawner_sf_free_list) \in SpawnerTables /\ Tail(spawner_sf_free_list) \in Seq(SpawnerTables)
      BY <1>17, <3>1
    <3>3. QED
      BY <1>13, <1>14, <1>16, <2>2, <3>2 DEF SpawnerTables
  <2>3. QED
    BY <2>1, <2>2
<1>20. PICK f : f = NewFrame("SPAWNER", n, lent, lchild, contin)
  OBVIOUS
<1>30. "SPAWNER" \in FrameKinds
  BY DEF FrameKinds
<1>21. f \in Frame /\ f.c_head = n
  BY <1>19, <1>20, <1>30, NewFrameFacts
<1>31. PICK after : after = Append(under, f)
  OBVIOUS
<1>32. Piled(after, n + 1) /\ Len(after) = Len(under) + 1
  BY <1>5, <1>8, <1>21, <1>31, PiledPush, ZenonT(40)
<1>22. Piled(frames', n + 1) /\ Len(frames') = Len(frames) + 1
  BY <1>8, <1>16, <1>20, <1>31, <1>32
<1>23. PathAfter(t) \in Paths /\ NoPath \in Paths
  BY <1>1, <1>2, PathAfterFacts, PathFacts
<1>24. PICK r \in HistRec : r = History("body", NoPath, PathAfter(t))
  BY <1>23, HistoryFacts DEF Stages
<1>25. hist' \in Seq(HistRec) /\ Len(hist') = Len(frames')
  BY <1>2, <1>4, <1>22, <1>24 DEF FramesInv
<1>26. FramesInv'
  BY <1>6, <1>22, <1>25 DEF FramesInv
<1>27. HeapInv'
  BY <1>2, <1>4, <1>16, <1>18, <1>19 DEF HeapInv
<1>28. died' \in BOOLEAN
  BY <1>16
<1>29. QED
  BY <1>1, <1>4, <1>6, <1>23, <1>26, <1>27, <1>28, KeepFlags

LEMMA EnterHelper ==
  ASSUME Inv, NEW site \in Sites, NEW t \in StrandLengths, cilk_enter_helper_begin(site, t)
  PROVE  Inv'
<1>1. TOOL_INITIALIZED /\ t \in Nat
  BY SitesAreSites DEF cilk_enter_helper_begin, MayPush, Running
<1>2. CStackInv /\ FramesInv /\ HeapInv /\ path \in Paths
  BY <1>1 DEF Inv, FlagsInv
<1>3. PICK e : e = Entered(CurrentSites, site, Len(c_stack))
  OBVIOUS
<1>4. /\ in_user_code' = FALSE /\ PushCFrame(Measured(t), e.index, site)
      /\ PushHelper(Measured(t), Bottom(WithContin(t)), e.rest.ok)
      /\ SitesBecome(e) /\ pc' = "entering" /\ path' = PathAfter(t)
      /\ hist' = Append(hist, History("args", PathAfter(t), PathAfter(t)))
      /\ UNCHANGED <<wrk_table, toolVars>>
  BY <1>3 DEF cilk_enter_helper_begin
<1>5. PICK n \in Nat : n = Len(c_stack) /\ Piled(frames, n)
  BY <1>2 DEF CStackInv, FramesInv
<1>6. CStackInv' /\ Len(c_stack') = n + 1 /\ Len(Measured(t)) = n
  BY <1>1, <1>2, <1>3, <1>4, <1>5, PushC
<1>7. PICK under : under = Bottom(WithContin(t))
  OBVIOUS
<1>8. Piled(under, n) /\ Len(under) = Len(frames)
  BY <1>1, <1>5, <1>7, WithContinFacts, BottomFacts
<1>9. PICK new : new = (helper_sf_free_list = <<>>)
  OBVIOUS
<1>10. PICK h : h = IF new THEN Created(heap) ELSE heap
  OBVIOUS
<1>11. PICK id : id = IF new THEN Fresh(heap) ELSE Head(helper_sf_free_list)
  OBVIOUS
<1>12. PICK ok : ok = (cc_hashtable_is_empty(h[id]) /\ in_user_code /\ AtHead /\ e.rest.ok)
  OBVIOUS
<1>13. /\ heap' = h
       /\ helper_sf_free_list' = IF new THEN <<>> ELSE Tail(helper_sf_free_list)
       /\ frames' = Append(under, NewFrame("HELPER", n, id, NULL, NULL))
       /\ died' = ~ok
       /\ UNCHANGED spawner_sf_free_list
  BY <1>4, <1>6, <1>7, <1>9, <1>10, <1>11, <1>12 DEF PushHelper, Asserting
<1>14. IsHeap(heap) /\ helper_sf_free_list \in Seq(Ids)
  BY <1>2 DEF HeapInv
<1>15. IsHeap(h)
  BY <1>10, <1>14, CreatedTyped
<1>16. id \in Ids /\ helper_sf_free_list' \in Seq(Ids)
  <2>1. CASE new
    BY <1>11, <1>13, <1>14, <2>1, CreatedTyped
  <2>2. CASE ~new
    <3>1. helper_sf_free_list # <<>>
      BY <1>9, <2>2
    <3>2. Head(helper_sf_free_list) \in Ids /\ Tail(helper_sf_free_list) \in Seq(Ids)
      BY <1>14, <3>1
    <3>3. QED
      BY <1>11, <1>13, <2>2, <3>2
  <2>3. QED
    BY <2>1, <2>2
<1>17. PICK f : f = NewFrame("HELPER", n, id, NULL, NULL)
  OBVIOUS
<1>18. "HELPER" \in FrameKinds /\ NULL \in Ids
  BY DEF FrameKinds, Ids
<1>19. f \in Frame /\ f.c_head = n
  BY <1>16, <1>17, <1>18, NewFrameFacts
<1>20. PICK after : after = Append(under, f)
  OBVIOUS
<1>21. Piled(after, n + 1) /\ Len(after) = Len(under) + 1
  BY <1>5, <1>8, <1>19, <1>20, PiledPush
<1>22. Piled(frames', n + 1) /\ Len(frames') = Len(frames) + 1
  BY <1>8, <1>13, <1>17, <1>20, <1>21
<1>23. PICK p \in Paths : p = PathAfter(t)
  BY <1>1, <1>2, PathAfterFacts
<1>24. PICK r \in HistRec : r = History("args", p, p)
  BY <1>23, HistoryFacts DEF Stages
<1>25. hist' \in Seq(HistRec) /\ Len(hist') = Len(frames')
  BY <1>2, <1>4, <1>22, <1>23, <1>24 DEF FramesInv
<1>26. FramesInv'
  BY <1>6, <1>22, <1>25 DEF FramesInv
<1>27. HeapInv'
  BY <1>2, <1>4, <1>13, <1>15, <1>16 DEF HeapInv
<1>28. died' \in BOOLEAN /\ path' \in Paths
  BY <1>4, <1>13, <1>23
<1>29. QED
  BY <1>1, <1>4, <1>6, <1>26, <1>27, <1>28, KeepFlags

LEMMA EnterC ==
  ASSUME Inv, NEW site \in Sites, NEW t \in StrandLengths, cilk_tool_c_function_enter(site, t)
  PROVE  Inv'
<1>1. TOOL_INITIALIZED /\ t \in Nat
  BY SitesAreSites DEF cilk_tool_c_function_enter, MayPush, Running
<1>2. CStackInv /\ FramesInv /\ HeapInv /\ path \in Paths /\ pc = "user" /\ in_user_code \in BOOLEAN
  BY <1>1 DEF Inv, FlagsInv, cilk_tool_c_function_enter, MayPush, Running
<1>3. PICK e : e = Entered(CurrentSites, site, Len(c_stack))
  OBVIOUS
<1>4. PICK ok : ok = (in_user_code /\ e.rest.ok)
  OBVIOUS
<1>5. /\ PushCFrame(Measured(t), e.index, site)
      /\ frames' = Bottom(WithContin(t)) /\ SitesBecome(e) /\ died' = ~ok
      /\ path' = PathAfter(t)
      /\ UNCHANGED <<helper_sf_free_list, spawner_sf_free_list, tableVars, in_user_code, pc,
                     hist, toolVars>>
  BY <1>3, <1>4 DEF cilk_tool_c_function_enter, Asserting
<1>6. PICK n \in Nat : n = Len(c_stack) /\ Piled(frames, n)
  BY <1>2 DEF CStackInv, FramesInv
<1>7. CStackInv' /\ Len(c_stack') = n + 1
  BY <1>1, <1>2, <1>3, <1>5, <1>6, PushC
<1>8. PICK under : under = Bottom(WithContin(t))
  OBVIOUS
<1>9. Piled(under, n) /\ Len(under) = Len(frames)
  BY <1>1, <1>6, <1>8, WithContinFacts, BottomFacts
<1>10. Piled(under, n + 1)
  BY <1>6, <1>9, PiledPop
<1>11. FramesInv'
  BY <1>2, <1>5, <1>7, <1>8, <1>9, <1>10 DEF FramesInv
<1>12. HeapInv'
  BY <1>2, <1>5 DEF HeapInv, tableVars
<1>13. died' \in BOOLEAN /\ path' \in Paths /\ in_user_code' \in BOOLEAN /\ pc' = "user"
  BY <1>1, <1>2, <1>5, PathAfterFacts
<1>14. QED
  BY <1>1, <1>5, <1>7, <1>11, <1>12, <1>13, KeepFlags

LEMMA SameC ==
  ASSUME CStackInv, UNCHANGED <<c_stack, siteVars, keys, c_stack_capacity>>
  PROVE  CStackInv'
<1>1. SameCalls(c_stack, c_stack') /\ c_stack' \in Seq(CFrame)
  BY DEF SameCalls, CStackInv
<1>2. QED
  BY <1>1, KeepC

\* The history of the bottom frame is changed.
LEMMA HistChanged ==
  ASSUME hist \in Seq(HistRec), Len(hist) > 0, NEW s \in Stages
  PROVE  LET new == [hist EXCEPT ![Len(hist)].stage = s]
         IN  new \in Seq(HistRec) /\ Len(new) = Len(hist)
<1>1. PICK n \in 1 .. Len(hist) : n = Len(hist)
  OBVIOUS
<1>2. PICK r \in HistRec : r = hist[n]
  OBVIOUS
<1>3. PICK q : q = [r EXCEPT !.stage = s]
  OBVIOUS
<1>4. q \in HistRec
  BY <1>3 DEF HistRec
<1>5. [hist EXCEPT ![n] = q] \in Seq(HistRec) /\ Len([hist EXCEPT ![n] = q]) = Len(hist)
  BY <1>4, ExceptSeq
<1>6. [hist EXCEPT ![Len(hist)].stage = s] = [hist EXCEPT ![n] = q]
  BY <1>1, <1>2, <1>3
<1>7. QED
  BY <1>5, <1>6

\* A strand begins.
LEMMA BackKeepsInv ==
  ASSUME Inv, TOOL_INITIALIZED, BackInUserCode, NEW ok, Asserting(ok),
         UNCHANGED hist \/ Stage("detached")
  PROVE  Inv'
<1>1. CStackInv /\ FramesInv /\ HeapInv /\ path \in Paths
  BY DEF Inv, FlagsInv
<1>2. /\ pc' = "user" /\ in_user_code' = TRUE /\ died' = ~ok
      /\ UNCHANGED <<stackVars, tableVars, siteVars, keys, path, truth, toolVars, nevents>>
  BY DEF BackInUserCode, Asserting
<1>3. CStackInv'
  <2>1. UNCHANGED <<c_stack, siteVars, keys, c_stack_capacity>>
    BY <1>2 DEF stackVars
  <2>2. QED
    BY <1>1, <2>1, SameC
<1>4. hist' \in Seq(HistRec) /\ Len(hist') = Len(hist)
  <2>1. hist \in Seq(HistRec) /\ Len(hist) > 0 /\ "detached" \in Stages
    BY <1>1 DEF FramesInv, Piled, Stages
  <2>2. QED
    BY <2>1, HistChanged DEF Stage
<1>5. FramesInv'
  BY <1>1, <1>2, <1>4 DEF FramesInv, stackVars
<1>6. HeapInv'
  BY <1>1, <1>2 DEF HeapInv, stackVars, tableVars
<1>7. died' \in BOOLEAN /\ in_user_code' \in BOOLEAN
  BY <1>2
<1>8. QED
  BY <1>1, <1>2, <1>3, <1>5, <1>6, <1>7, KeepFlags

\* A strand ends.
LEMMA EndStrandKeepsInv ==
  ASSUME Inv, TOOL_INITIALIZED, NEW t \in Nat, NEW next \in {"prepared", "detaching", "syncing"},
         EndStrand(t, next), UNCHANGED hist \/ Stage("spawning")
  PROVE  Inv'
<1>1. CStackInv /\ FramesInv /\ HeapInv /\ path \in Paths
  BY DEF Inv, FlagsInv
<1>2. PICK ok : ok = (AtHead /\ in_user_code)
  OBVIOUS
<1>3. /\ c_stack' = Measured(t) /\ frames' = Bottom([bot EXCEPT !.local_contin = @ + t])
      /\ died' = ~ok /\ in_user_code' = FALSE /\ pc' = next /\ path' = PathAfter(t)
      /\ UNCHANGED <<c_stack_capacity, helper_sf_free_list, spawner_sf_free_list, tableVars,
                     siteVars, keys, toolVars>>
  BY <1>2 DEF EndStrand, Asserting, Passed
<1>4. c_stack \in Seq(CFrame) /\ Len(c_stack) > 0
  BY <1>1 DEF CStackInv
<1>5. CStackInv' /\ Len(c_stack') = Len(c_stack)
  BY <1>1, <1>3, <1>4, MeasuredFacts, KeepC
<1>6. PICK n \in Nat : n = Len(c_stack) /\ Piled(frames, n)
  BY <1>1, <1>4 DEF FramesInv
<1>7. PICK f \in Frame : f = [bot EXCEPT !.local_contin = @ + t] /\ f.c_head = bot.c_head
  BY <1>6, WithContinFacts
<1>8. Piled(frames', n) /\ Len(frames') = Len(frames)
  BY <1>3, <1>6, <1>7, BottomFacts
<1>9. hist' \in Seq(HistRec) /\ Len(hist') = Len(hist)
  <2>1. hist \in Seq(HistRec) /\ Len(hist) > 0 /\ "spawning" \in Stages
    BY <1>1 DEF FramesInv, Piled, Stages
  <2>2. QED
    BY <2>1, HistChanged DEF Stage
<1>10. FramesInv'
  BY <1>1, <1>5, <1>6, <1>8, <1>9 DEF FramesInv
<1>11. HeapInv'
  BY <1>1, <1>3 DEF HeapInv, tableVars
<1>12. died' \in BOOLEAN /\ in_user_code' \in BOOLEAN /\ path' \in Paths
  BY <1>1, <1>3, PathAfterFacts
<1>13. QED
  BY <1>3, <1>5, <1>10, <1>11, <1>12, KeepFlags

\* A field of a frame is set.
LEMMA FrameSet ==
  ASSUME NEW b \in Frame, NEW x \in Nat, NEW i \in Ids
  PROVE  /\ [b EXCEPT !.prefix_spn = x] \in Frame /\ [b EXCEPT !.lchild_spn = x] \in Frame
         /\ [b EXCEPT !.local_contin = x] \in Frame /\ [b EXCEPT !.local_spn = x] \in Frame
         /\ [b EXCEPT !.prefix_table = i] \in Frame /\ [b EXCEPT !.lchild_table = i] \in Frame
         /\ [b EXCEPT !.contin_table = i] \in Frame
<1>1. [b EXCEPT !.prefix_spn = x] \in Frame /\ [b EXCEPT !.lchild_spn = x] \in Frame
  BY DEF Frame
<1>2. [b EXCEPT !.local_contin = x] \in Frame /\ [b EXCEPT !.local_spn = x] \in Frame
  BY DEF Frame
<1>3. [b EXCEPT !.prefix_table = i] \in Frame /\ [b EXCEPT !.lchild_table = i] \in Frame
  BY DEF Frame
<1>4. [b EXCEPT !.contin_table = i] \in Frame
  BY DEF Frame
<1>5. QED
  BY <1>1, <1>2, <1>3, <1>4

\* A synced frame is a frame with the same head.
LEMMA SyncedFacts ==
  ASSUME bot \in Frame, NEW child \in BOOLEAN, NEW running \in Nat,
         NEW a, a.left \in Ids, a.right \in Ids, NEW f, f = Synced(child, running, a)
  PROVE  f \in Frame /\ f.c_head = bot.c_head
<1>1. PICK b \in Frame : b = bot
  OBVIOUS
<1>2. /\ b.prefix_spn \in Nat /\ b.lchild_spn \in Nat /\ b.local_spn \in Nat /\ b.local_contin \in Nat
  BY FrameFacts
<1>3. PICK p \in Nat : p = b.prefix_spn + b.lchild_spn
  BY <1>2
<1>4. PICK q \in Nat : q = b.prefix_spn + running
  BY <1>2
<1>5. PICK s \in Nat : s = b.local_spn + b.local_contin
  BY <1>2
<1>6. PICK l \in Ids, r \in Ids : l = a.left /\ r = a.right
  OBVIOUS
<1>7. CASE child
  <2>1. f = [b EXCEPT !.prefix_spn = p, !.lchild_spn = 0, !.local_contin = 0,
                      !.prefix_table = l, !.lchild_table = r]
    BY <1>1, <1>3, <1>6, <1>7 DEF Synced
  <2>2. PICK f1 \in Frame : f1 = [b EXCEPT !.prefix_spn = p]
    BY FrameSet
  <2>3. PICK f2 \in Frame : f2 = [f1 EXCEPT !.lchild_spn = 0]
    BY FrameSet
  <2>4. PICK f3 \in Frame : f3 = [f2 EXCEPT !.local_contin = 0]
    BY FrameSet
  <2>5. PICK f4 \in Frame : f4 = [f3 EXCEPT !.prefix_table = l]
    BY FrameSet
  <2>6. PICK f5 \in Frame : f5 = [f4 EXCEPT !.lchild_table = r]
    BY FrameSet
  <2>7. f = f5
    BY <2>1, <2>2, <2>3, <2>4, <2>5, <2>6
  <2>8. f.c_head = b.c_head
    BY <2>1 DEF Frame
  <2>9. QED
    BY <1>1, <2>7, <2>8
<1>8. CASE ~child
  <2>1. f = [b EXCEPT !.prefix_spn = q, !.lchild_spn = 0, !.local_spn = s, !.local_contin = 0,
                      !.prefix_table = l, !.contin_table = r]
    BY <1>1, <1>4, <1>5, <1>6, <1>8 DEF Synced
  <2>2. PICK f1 \in Frame : f1 = [b EXCEPT !.prefix_spn = q]
    BY FrameSet
  <2>3. PICK f2 \in Frame : f2 = [f1 EXCEPT !.lchild_spn = 0]
    BY FrameSet
  <2>4. PICK f3 \in Frame : f3 = [f2 EXCEPT !.local_spn = s]
    BY FrameSet
  <2>5. PICK f4 \in Frame : f4 = [f3 EXCEPT !.local_contin = 0]
    BY FrameSet
  <2>6. PICK f5 \in Frame : f5 = [f4 EXCEPT !.prefix_table = l]
    BY FrameSet
  <2>7. PICK f6 \in Frame : f6 = [f5 EXCEPT !.contin_table = r]
    BY FrameSet
  <2>8. f = f6
    BY <2>1, <2>2, <2>3, <2>4, <2>5, <2>6, <2>7
  <2>9. f.c_head = b.c_head
    BY <2>1 DEF Frame
  <2>10. QED
    BY <1>1, <2>8, <2>9
<1>9. QED
  BY <1>7, <1>8

\* The running span of the C frame on top is set.
LEMMA SpanSet ==
  ASSUME NEW s \in Seq(CFrame), Len(s) > 0, NEW n, n = Len(s), NEW x \in Nat,
         NEW r, r = [s EXCEPT ![n].running_spn = x]
  PROVE  r \in Seq(CFrame) /\ SameCalls(s, r)
<1>1. n \in 1 .. Len(s)
  OBVIOUS
<1>2. PICK c \in CFrame : c = s[n]
  BY <1>1
<1>3. PICK f : f = [c EXCEPT !.running_spn = x]
  OBVIOUS
<1>4. f \in CFrame /\ f.cs_index = c.cs_index /\ f.rip = c.rip
  BY <1>3 DEF CFrame
<1>5. r = [s EXCEPT ![n] = f]
  BY <1>2, <1>3
<1>6. QED
  BY <1>1, <1>2, <1>4, <1>5, UpdatedFrame

LEMMA SyncKeepsInv ==
  ASSUME Inv, cilk_sync_end
  PROVE  Inv'
<1>1. TOOL_INITIALIZED
  BY DEF Inv, FlagsInv, cilk_sync_end
<1>2. CStackInv /\ FramesInv /\ HeapInv /\ path \in Paths
  BY <1>1 DEF Inv, FlagsInv
<1>3. PICK n \in Nat \ {0} : n = Len(c_stack) /\ Piled(frames, n) /\ c_stack \in Seq(CFrame)
  BY <1>2 DEF FramesInv, CStackInv
<1>4. PICK running : running = Last(c_stack).running_spn
  OBVIOUS
<1>5. running \in Nat
  <2>1. Last(c_stack) = c_stack[n] /\ c_stack[n] \in CFrame
    BY <1>3 DEF Last
  <2>2. QED
    BY <1>4, <2>1, CFrameFacts
<1>6. PICK child : child = ChildIsLonger(bot.lchild_spn, running + bot.local_contin)
  OBVIOUS
<1>7. child \in BOOLEAN
  BY <1>6 DEF ChildIsLonger
<1>8. PICK joined : joined = Longer(path, Last(hist).join)
  OBVIOUS
<1>9. PICK a : a = AddTables(heap, bot.prefix_table,
                             IF child THEN bot.lchild_table ELSE bot.contin_table)
  OBVIOUS
<1>10. PICK b1 : b1 = Synced(child, running, a)
  OBVIOUS
<1>11. PICK ok : ok = (/\ AtHead /\ bot.func_type = "SPAWNER" /\ ~in_user_code
                       /\ MayAddTables(heap, bot.prefix_table,
                                       IF child THEN bot.lchild_table ELSE bot.contin_table))
  OBVIOUS
<1>12. /\ frames' = Bottom(b1) /\ heap' = Clear(Clear(a.heap, b1.lchild_table), b1.contin_table)
       /\ c_stack' = [c_stack EXCEPT ![n].running_spn = 0]
       /\ died' = ~ok /\ in_user_code' = TRUE /\ pc' = "user" /\ path' = joined
       /\ hist' = [hist EXCEPT ![Len(hist)].unsynced = FALSE, ![Len(hist)].join = joined]
       /\ UNCHANGED <<c_stack_capacity, helper_sf_free_list, spawner_sf_free_list, wrk_table,
                      siteVars, keys, truth, toolVars, nevents>>
  BY <1>3, <1>4, <1>6, <1>8, <1>9, <1>10, <1>11 DEF cilk_sync_end, Asserting
<1>13. bot \in Frame
  BY <1>3 DEF Piled, bot, Last
<1>14. IsHeap(a.heap) /\ a.left \in Ids /\ a.right \in Ids
  <2>1. PICK other \in Ids : other = IF child THEN bot.lchild_table ELSE bot.contin_table
    BY <1>13, FrameFacts
  <2>2. bot.prefix_table \in Ids /\ IsHeap(heap)
    BY <1>2, <1>13, FrameFacts DEF HeapInv
  <2>3. a = AddTables(heap, bot.prefix_table, other)
    BY <1>9, <2>1
  <2>4. QED
    BY <2>1, <2>2, <2>3, AddTablesTyped
<1>15. b1 \in Frame /\ b1.c_head = bot.c_head
  BY <1>5, <1>7, <1>10, <1>13, <1>14, SyncedFacts
<1>16. Piled(frames', n) /\ Len(frames') = Len(frames)
  BY <1>3, <1>12, <1>15, BottomFacts
<1>17. IsHeap(heap')
  BY <1>12, <1>14, ClearFacts
<1>18. c_stack' \in Seq(CFrame) /\ SameCalls(c_stack, c_stack')
  <2>1. PICK s : s = [c_stack EXCEPT ![n].running_spn = 0]
    OBVIOUS
  <2>2. 0 \in Nat /\ Len(c_stack) > 0
    BY <1>3
  <2>3. s \in Seq(CFrame) /\ SameCalls(c_stack, s)
    BY <1>3, <2>1, <2>2, SpanSet
  <2>4. QED
    BY <1>12, <2>1, <2>3
<1>19. CStackInv' /\ Len(c_stack') = n
  BY <1>2, <1>3, <1>12, <1>18, KeepC
<1>20. hist \in Seq(HistRec) /\ Len(hist) = Len(frames) /\ Len(hist) > 0
  BY <1>2 DEF FramesInv, Piled
<1>21. PICK k \in 1 .. Len(hist) : k = Len(hist)
  BY <1>20
<1>22. PICK r \in HistRec : r = hist[k] /\ r = Last(hist)
  BY <1>20, <1>21 DEF Last
<1>23. joined \in Paths
  <2>1. r.join \in Paths
    BY Zenon DEF HistRec
  <2>2. QED
    BY <1>2, <1>8, <1>22, <2>1, PathFacts
<1>24. PICK q : q = [r EXCEPT !.unsynced = FALSE, !.join = joined]
  OBVIOUS
<1>25. q \in HistRec
  BY <1>23, <1>24 DEF HistRec
<1>26. hist' = [hist EXCEPT ![k] = q]
  BY <1>12, <1>20, <1>21, <1>22, <1>24
<1>27. hist' \in Seq(HistRec) /\ Len(hist') = Len(hist)
  BY <1>20, <1>25, <1>26, ExceptSeq
<1>28. FramesInv'
  BY <1>16, <1>19, <1>20, <1>27 DEF FramesInv
<1>29. HeapInv'
  BY <1>2, <1>12, <1>17 DEF HeapInv
<1>30. died' \in BOOLEAN /\ in_user_code' \in BOOLEAN
  BY <1>12
<1>31. UNCHANGED toolVars
  BY <1>12
<1>32. QED
  BY <1>1, <1>12, <1>19, <1>23, <1>28, <1>29, <1>30, <1>31, KeepFlags

\* The work of what returns is the caller's, and so is the span.
WorkAdded(w) == [Front(c_stack) EXCEPT ![c_tail].running_wrk = @ + w]
SpanAdded(r, x) == [r EXCEPT ![c_tail].running_spn = @ + x]
SpanCleared(r) == [r EXCEPT ![c_tail].running_spn = 0]

LEMMA WorkReturned ==
  ASSUME CStackInv, Len(c_stack) > 1, NEW w \in Nat, NEW x \in Nat,
         NEW r, r = WorkAdded(w), NEW q, q = SpanAdded(r, x), NEW z, z = SpanCleared(r)
  PROVE  /\ r \in Seq(CFrame) /\ SameCalls(Front(c_stack), r)
         /\ q \in Seq(CFrame) /\ SameCalls(Front(c_stack), q)
         /\ z \in Seq(CFrame) /\ SameCalls(Front(c_stack), z)
         /\ r[c_tail].running_spn \in Nat
<1>21. /\ r = [Front(c_stack) EXCEPT ![c_tail].running_wrk = @ + w]
       /\ q = [r EXCEPT ![c_tail].running_spn = @ + x]
       /\ z = [r EXCEPT ![c_tail].running_spn = 0]
  BY DEF WorkAdded, SpanAdded, SpanCleared
<1>1. PICK n \in Nat \ {0} : n = c_tail /\ n + 1 = Len(c_stack) /\ c_stack \in Seq(CFrame)
  <2>1. c_stack \in Seq(CFrame) /\ Len(c_stack) - 1 \in Nat \ {0}
    BY DEF CStackInv
  <2>2. QED
    BY <2>1 DEF c_tail
<1>2. PICK front \in Seq(CFrame) : front = Front(c_stack) /\ Len(front) = n
  <2>1. SubSeq(c_stack, 1, n) \in Seq(CFrame) /\ Len(SubSeq(c_stack, 1, n)) = n
    BY <1>1
  <2>2. Front(c_stack) = SubSeq(c_stack, 1, n)
    BY <1>1 DEF Front
  <2>3. QED
    BY <2>1, <2>2
<1>3. n \in 1 .. Len(front)
  BY <1>2
<1>4. PICK c \in CFrame : c = front[n]
  BY <1>2, <1>3
<1>5. c.running_wrk \in Nat /\ c.running_spn \in Nat
  BY CFrameFacts
<1>6. PICK y \in Nat : y = c.running_wrk + w
  BY <1>5
<1>7. PICK f : f = [c EXCEPT !.running_wrk = y]
  OBVIOUS
<1>8. f \in CFrame /\ f.cs_index = c.cs_index /\ f.rip = c.rip
  BY <1>7 DEF CFrame
<1>9. r = [front EXCEPT ![n] = f]
  BY <1>1, <1>2, <1>4, <1>6, <1>7, <1>21
<1>10. r \in Seq(CFrame) /\ SameCalls(front, r)
  BY <1>3, <1>4, <1>8, <1>9, UpdatedFrame
<1>11. Len(r) = n /\ Len(r) > 0 /\ n \in 1 .. Len(r)
  BY <1>2, <1>10 DEF SameCalls
<1>12. r[n].running_spn \in Nat
  <2>1. r[n] \in CFrame
    BY <1>10, <1>11
  <2>2. QED
    BY <2>1, CFrameFacts
<1>13. PICK v \in Nat : v = r[n].running_spn + x
  BY <1>12
<1>14. q = [r EXCEPT ![n].running_spn = v] /\ z = [r EXCEPT ![n].running_spn = 0] /\ 0 \in Nat
  BY <1>1, <1>13, <1>21
<1>19. PICK s \in Seq(CFrame) : s = r /\ n = Len(s) /\ Len(s) > 0
  BY <1>10, <1>11
<1>20. /\ q = [s EXCEPT ![n].running_spn = v]
       /\ z = [s EXCEPT ![n].running_spn = 0]
  BY <1>14, <1>19
<1>15. q \in Seq(CFrame) /\ SameCalls(r, q)
  <2>1. q \in Seq(CFrame) /\ SameCalls(s, q)
    BY ONLY <1>13, <1>19, <1>20, SpanSet
  <2>2. QED
    BY <1>19, <2>1
<1>16. z \in Seq(CFrame) /\ SameCalls(r, z)
  <2>1. 0 \in Nat
    OBVIOUS
  <2>2. z \in Seq(CFrame) /\ SameCalls(s, z)
    BY ONLY <1>19, <1>20, <2>1, SpanSet
  <2>3. QED
    BY <1>19, <2>2
<1>17. SameCalls(front, q) /\ SameCalls(front, z)
  BY <1>10, <1>15, <1>16, SMTT(40) DEF SameCalls
<1>18. QED
  BY <1>1, <1>2, <1>10, <1>12, <1>15, <1>16, <1>17

\* What the C frame on top has measured, with the strand that ends.
LEMMA TopMeasured ==
  ASSUME CStackInv, NEW t \in Nat, NEW c, c = Last(Measured(t))
  PROVE  c \in CFrame /\ c.running_wrk + c.local_wrk \in Nat /\ c.running_spn \in Nat
           /\ c.running_spn + c.local_wrk \in Nat
<1>1. c_stack \in Seq(CFrame) /\ Len(c_stack) > 0
  BY DEF CStackInv
<1>2. PICK m \in Seq(CFrame) : m = Measured(t) /\ Len(m) = Len(c_stack)
  BY <1>1, MeasuredFacts DEF SameCalls
<1>3. c \in CFrame
  BY <1>1, <1>2 DEF Last
<1>4. QED
  BY <1>3, CFrameFacts

LEMMA LeaveCKeepsInv ==
  ASSUME Inv, NEW t \in StrandLengths, cilk_tool_c_function_leave(t)
  PROVE  Inv'
<1>1. TOOL_INITIALIZED /\ t \in Nat /\ ~AtHead /\ pc = "user"
  BY SitesAreSites DEF cilk_tool_c_function_leave, Running
<1>2. CStackInv /\ FramesInv /\ HeapInv /\ path \in Paths /\ in_user_code \in BOOLEAN
  BY <1>1 DEF Inv, FlagsInv
<1>3. PICK n \in Nat \ {0} : n = Len(c_stack) /\ Piled(frames, n)
  BY <1>2 DEF FramesInv, CStackInv
<1>4. PICK c : c = Last(Measured(t))
  OBVIOUS
<1>5. PICK wrk \in Nat, spn \in Nat : wrk = c.running_wrk + c.local_wrk
                                        /\ spn = c.running_spn + c.local_wrk
  BY <1>1, <1>2, <1>4, TopMeasured
<1>6. PICK update : update = Charge(c, c_tail, wrk, spn, c.local_wrk)
  OBVIOUS
<1>7. PICK w : w = AddTo(heap, wrk_table, update)
  OBVIOUS
<1>8. PICK dst : dst = LentTable(bot)
  OBVIOUS
<1>9. PICK s : s = AddTo(w.heap, dst, update)
  OBVIOUS
<1>10. PICK ok : ok = (/\ in_user_code /\ dst # NULL
                       /\ MayAdd(heap, wrk_table, update) /\ MayAdd(w.heap, dst, update))
  OBVIOUS
<1>11. /\ c_stack' = [Front(c_stack) EXCEPT ![c_tail].running_wrk = @ + wrk,
                                            ![c_tail].running_spn = @ + spn]
       /\ heap' = s.heap /\ wrk_table' = w.id
       /\ frames' = Bottom(IF bot.lchild_spn = 0 THEN [bot EXCEPT !.prefix_table = s.id]
                                                 ELSE [bot EXCEPT !.contin_table = s.id])
       /\ ReturnedSites(c) /\ died' = ~ok
       /\ keys' = Front(keys) /\ path' = PathAfter(t)
       /\ UNCHANGED <<c_stack_capacity, helper_sf_free_list, spawner_sf_free_list,
                      in_user_code, pc, hist, toolVars>>
  BY <1>4, <1>5, <1>6, <1>7, <1>8, <1>9, <1>10 DEF cilk_tool_c_function_leave, Asserting, Passed
<1>12. bot \in Frame /\ Last(frames) = bot
  BY <1>3 DEF Piled, bot, Last
<1>13. IsHeap(s.heap) /\ w.id \in Ids /\ s.id \in Ids
  <2>1. IsHeap(w.heap) /\ w.id \in Ids
    BY <1>2, <1>7, AddToTyped DEF HeapInv
  <2>2. dst \in Ids
    BY <1>8, <1>12, FrameFacts DEF LentTable
  <2>3. QED
    BY <1>9, <2>1, <2>2, AddToTyped
<1>14. PICK f : f = IF bot.lchild_spn = 0 THEN [bot EXCEPT !.prefix_table = s.id]
                                          ELSE [bot EXCEPT !.contin_table = s.id]
  OBVIOUS
<1>15. f \in Frame /\ f.c_head = bot.c_head
  <2>1. PICK b \in Frame, i \in Ids : b = bot /\ i = s.id
    BY <1>12, <1>13
  <2>2. f = [b EXCEPT !.prefix_table = i] \/ f = [b EXCEPT !.contin_table = i]
    BY <1>14, <2>1
  <2>3. f \in Frame
    BY <2>2, FrameSet
  <2>4. f.c_head = b.c_head
    BY <2>2 DEF Frame
  <2>5. QED
    BY <2>1, <2>3, <2>4
<1>16. Piled(frames', n) /\ Len(frames') = Len(frames) /\ Last(frames') = f
  BY <1>3, <1>11, <1>14, <1>15, BottomFacts
<1>17. f.c_head # n - 1
  BY <1>1, <1>3, <1>12, <1>15 DEF AtHead, c_tail
<1>18. n > 1 /\ Piled(frames', n - 1)
  BY <1>3, <1>16, <1>17, PiledPop
<1>19. PICK r : r = WorkAdded(wrk)
  OBVIOUS
<1>20. PICK q : q = SpanAdded(r, spn)
  OBVIOUS
<1>21. c_stack' = q
  BY <1>11, <1>19, <1>20 DEF WorkAdded, SpanAdded
<1>22. q \in Seq(CFrame) /\ SameCalls(Front(c_stack), q)
  <2>1. Len(c_stack) > 1
    BY <1>3, <1>18
  <2>2. QED
    BY <1>2, <1>19, <1>20, <2>1, WorkReturned
<1>23. CStackInv' /\ Len(c_stack') = n - 1
  <2>1. Len(c_stack) > 1 /\ UNCHANGED c_stack_capacity
    BY <1>3, <1>11, <1>18
  <2>2. QED
    BY <1>1, <1>2, <1>3, <1>4, <1>11, <1>21, <1>22, <2>1, PopC
<1>24. FramesInv'
  BY <1>2, <1>11, <1>16, <1>18, <1>23 DEF FramesInv
<1>25. HeapInv'
  BY <1>2, <1>11, <1>13 DEF HeapInv
<1>26. died' \in BOOLEAN /\ in_user_code' \in BOOLEAN /\ path' \in Paths /\ pc' = "user"
  BY <1>1, <1>2, <1>11, PathAfterFacts
<1>27. UNCHANGED toolVars
  BY <1>11
<1>28. QED
  BY <1>1, <1>23, <1>24, <1>25, <1>26, <1>27, KeepFlags

\* A frame returns to the one below it, which is changed.
ReturnedTo(frs, g) == Append(SubSeq(frs, 1, Len(frs) - 2), g)

LEMMA ReturnedToFacts ==
  ASSUME NEW S, NEW frs \in Seq(S), Len(frs) > 1, NEW g \in S
  PROVE  ReturnedTo(frs, g) = Front(Front(frs)) \o <<g>>
<1>1. PICK k \in Nat \ {0} : k + 1 = Len(frs) /\ k - 1 \in Nat
  <2>1. PICK m \in Nat : m = Len(frs) /\ m > 1
    <3>1. Len(frs) \in Nat
      BY LenProperties
    <3>2. QED
      BY <3>1
  <2>2. m - 1 \in Nat \ {0} /\ (m - 1) + 1 = m /\ (m - 1) - 1 \in Nat
    BY ONLY <2>1
  <2>3. QED
    BY <2>1, <2>2
<1>2. PICK front \in Seq(S) : front = Front(frs) /\ Len(front) = k
                                /\ \A i \in 1 .. k : front[i] = frs[i]
  <2>1. SubSeq(frs, 1, k) \in Seq(S) /\ Len(SubSeq(frs, 1, k)) = k
          /\ \A i \in 1 .. k : SubSeq(frs, 1, k)[i] = frs[i]
    BY <1>1
  <2>2. Front(frs) = SubSeq(frs, 1, k)
    BY <1>1 DEF Front
  <2>3. QED
    BY <2>1, <2>2
<1>3. PICK a \in Seq(S) : a = SubSeq(frs, 1, Len(frs) - 2) /\ Len(a) = k - 1
                            /\ \A i \in 1 .. k - 1 : a[i] = frs[i]
  <2>1. SubSeq(frs, 1, k - 1) \in Seq(S) /\ Len(SubSeq(frs, 1, k - 1)) = k - 1
          /\ \A i \in 1 .. k - 1 : SubSeq(frs, 1, k - 1)[i] = frs[i]
    BY <1>1
  <2>2. Len(frs) - 2 = k - 1
    BY <1>1
  <2>3. QED
    BY <2>1, <2>2
<1>4. PICK b \in Seq(S) : b = Front(front) /\ Len(b) = k - 1
                            /\ \A i \in 1 .. k - 1 : b[i] = front[i]
  <2>1. SubSeq(front, 1, k - 1) \in Seq(S) /\ Len(SubSeq(front, 1, k - 1)) = k - 1
          /\ \A i \in 1 .. k - 1 : SubSeq(front, 1, k - 1)[i] = front[i]
    BY <1>1, <1>2
  <2>2. Front(front) = SubSeq(front, 1, k - 1)
    BY <1>2 DEF Front
  <2>3. QED
    BY <2>1, <2>2
<1>5. \A i \in 1 .. Len(a) : a[i] = b[i]
  BY <1>2, <1>3, <1>4
<1>6. a = b
  BY <1>3, <1>4, <1>5, SeqEqual
<1>7. Append(a, g) = a \o <<g>>
  BY AppendIsConcat
<1>8. QED
  BY <1>2, <1>3, <1>4, <1>6, <1>7 DEF ReturnedTo

\* What a returning frame leaves behind.
LeavingInv(r) ==
  /\ r.span \in Nat /\ IsHeap(r.heap) /\ r.wrk_table \in Ids /\ r.prefix_table \in Ids
  /\ r.c_stack \in Seq(CFrame) /\ SameCalls(Front(c_stack), r.c_stack)
  /\ r.c_stack[c_tail].running_spn \in Nat
  /\ SpanAdded(r.c_stack, r.span) \in Seq(CFrame)
  /\ SameCalls(Front(c_stack), SpanAdded(r.c_stack, r.span))
  /\ SpanCleared(r.c_stack) \in Seq(CFrame)
  /\ SameCalls(Front(c_stack), SpanCleared(r.c_stack))

LEMMA LeavingFacts ==
  ASSUME CStackInv, HeapInv, bot \in Frame, Len(c_stack) > 1, NEW t \in Nat,
         NEW r, r = Leaving(t)
  PROVE  LeavingInv(r) /\ r.c = Last(Measured(t))
<1>1. PICK c : c = Last(Measured(t))
  OBVIOUS
<1>2. PICK wrk \in Nat : wrk = c.running_wrk + c.local_wrk
  BY <1>1, TopMeasured
<1>3. PICK b \in Frame : b = bot
  OBVIOUS
<1>4. b.local_spn \in Nat /\ b.local_contin \in Nat /\ b.prefix_spn \in Nat /\ b.prefix_table \in Ids
  BY FrameFacts
<1>5. PICK local \in Nat : local = bot.local_spn + bot.local_contin + t
  BY <1>3, <1>4
<1>6. c.running_spn \in Nat
  BY <1>1, TopMeasured
<1>7. PICK span \in Nat : span = bot.prefix_spn + c.running_spn + local
  BY <1>3, <1>4, <1>6
<1>8. PICK update : update = Charge(c, c_tail, wrk, span, local)
  OBVIOUS
<1>9. PICK w : w = AddTo(heap, wrk_table, update)
  OBVIOUS
<1>10. PICK s : s = AddTo(w.heap, bot.prefix_table, update)
  OBVIOUS
<1>11. PICK u : u = WorkAdded(wrk)
  OBVIOUS
<1>12. PICK ok : ok = (MayAdd(heap, wrk_table, update) /\ MayAdd(w.heap, bot.prefix_table, update))
  OBVIOUS
<1>13. r = [c |-> c, span |-> span, heap |-> s.heap, wrk_table |-> w.id, prefix_table |-> s.id,
            c_stack |-> u, ok |-> ok]
  BY <1>1, <1>2, <1>5, <1>7, <1>8, <1>9, <1>10, <1>11, <1>12 DEF Leaving, WorkAdded
<1>14. /\ r.c = c /\ r.span = span /\ r.heap = s.heap /\ r.wrk_table = w.id
       /\ r.prefix_table = s.id /\ r.c_stack = u
  BY <1>13
<1>15. IsHeap(s.heap) /\ w.id \in Ids /\ s.id \in Ids
  <2>1. IsHeap(w.heap) /\ w.id \in Ids
    BY <1>9, AddToTyped DEF HeapInv
  <2>2. bot.prefix_table \in Ids
    BY <1>3, <1>4
  <2>3. QED
    BY <1>10, <2>1, <2>2, AddToTyped
<1>16. PICK q : q = SpanAdded(u, span)
  OBVIOUS
<1>17. PICK z : z = SpanCleared(u)
  OBVIOUS
<1>18. /\ u \in Seq(CFrame) /\ SameCalls(Front(c_stack), u)
       /\ q \in Seq(CFrame) /\ SameCalls(Front(c_stack), q)
       /\ z \in Seq(CFrame) /\ SameCalls(Front(c_stack), z)
       /\ u[c_tail].running_spn \in Nat
  <2>1. CStackInv /\ Len(c_stack) > 1 /\ wrk \in Nat /\ span \in Nat
    OBVIOUS
  <2>2. QED
    BY ONLY <1>11, <1>16, <1>17, <2>1, WorkReturned
<1>19. LeavingInv(r)
  BY <1>14, <1>15, <1>16, <1>17, <1>18 DEF LeavingInv
<1>20. QED
  BY <1>1, <1>14, <1>19

\* The frame on top may leave: the frame below it, and where it is.
LEMMA MayLeaveFacts ==
  ASSUME CStackInv, FramesInv, MayLeave
  PROVE  /\ Len(c_stack) > 1 /\ Len(frames) > 1 /\ bot \in Frame /\ parent \in Frame
         /\ Len(c_stack) - 1 \in Nat
         /\ Piled(Front(frames), Len(c_stack) - 1) /\ Len(Front(frames)) = Len(frames) - 1
         /\ \A g \in Frame : g.c_head = parent.c_head
              => Piled(ReturnedTo(frames, g), Len(c_stack) - 1)
                   /\ Len(ReturnedTo(frames, g)) = Len(frames) - 1
<1>1. PICK n \in Nat \ {0} : n = Len(c_stack) /\ Piled(frames, n)
  BY DEF FramesInv, CStackInv
<1>2. frames \in Seq(Frame) /\ Len(frames) \in Nat /\ Len(frames) > 1
  BY <1>1 DEF Piled, MayLeave
<1>3. bot \in Frame /\ Last(frames) = bot /\ bot.c_head = n - 1
  BY <1>1, <1>2 DEF bot, Last, MayLeave, AtHead, c_tail
<1>4. n > 1 /\ Piled(Front(frames), n - 1) /\ Len(Front(frames)) = Len(frames) - 1
        /\ Last(Front(frames)) = frames[Len(frames) - 1]
  BY <1>1, <1>2, <1>3, PiledPop
<1>5. Last(Front(frames)) = parent /\ parent \in Frame
  BY <1>2, <1>4 DEF parent
<1>6. ASSUME NEW g \in Frame, g.c_head = parent.c_head
      PROVE  Piled(ReturnedTo(frames, g), n - 1) /\ Len(ReturnedTo(frames, g)) = Len(frames) - 1
  <2>1. PICK new : new = ReturnedTo(frames, g)
    OBVIOUS
  <2>2. PICK front : front = Front(frames)
    OBVIOUS
  <2>3. new = Front(front) \o <<g>>
    BY <1>2, <2>1, <2>2, ReturnedToFacts
  <2>4. PICK m \in Nat : m = n - 1
    OBVIOUS
  <2>5. Piled(front, m) /\ g \in Frame /\ g.c_head = Last(front).c_head
    BY <1>4, <1>5, <1>6, <2>2, <2>4
  <2>7. Piled(new, m) /\ Len(new) = Len(front)
    BY ONLY <2>3, <2>4, <2>5, PiledReplace
  <2>6. QED
    BY <1>4, <2>1, <2>2, <2>4, <2>7
<1>7. QED
  BY <1>1, <1>2, <1>3, <1>4, <1>5, <1>6

\* A frame returns, if what is left is as it should be.
LEMMA LeaveKeepsInv ==
  ASSUME Inv, MayLeave, NEW t \in Nat, NEW r, r = Leaving(t), Leave(t, r),
         \/ c_stack' = r.c_stack
         \/ c_stack' = SpanAdded(r.c_stack, r.span)
         \/ c_stack' = SpanCleared(r.c_stack),
         IsHeap(heap'), helper_sf_free_list' \in Seq(Ids),
         spawner_sf_free_list' \in Seq(SpawnerTables),
         Piled(frames', Len(c_stack) - 1), Len(frames') = Len(frames) - 1,
         hist' \in Seq(HistRec), Len(hist') = Len(hist) - 1, path' \in Paths, died' \in BOOLEAN
  PROVE  Inv'
<1>1. TOOL_INITIALIZED
  BY DEF MayLeave, Running
<1>2. CStackInv /\ FramesInv /\ HeapInv
  BY <1>1 DEF Inv
<1>3. Len(c_stack) > 1 /\ bot \in Frame
  BY <1>2, MayLeaveFacts
<1>4. LeavingInv(r) /\ r.c = Last(Measured(t))
  BY <1>2, <1>3, LeavingFacts
<1>5. /\ wrk_table' = r.wrk_table /\ ReturnedSites(r.c) /\ in_user_code' = FALSE
      /\ pc' = "leaving" /\ keys' = Front(keys) /\ UNCHANGED <<c_stack_capacity, toolVars>>
  BY DEF Leave
<1>6. c_stack' \in Seq(CFrame) /\ SameCalls(Front(c_stack), c_stack')
  BY <1>4 DEF LeavingInv
<1>7. ReturnedSites(Last(Measured(t))) /\ UNCHANGED c_stack_capacity
  BY <1>4, <1>5
<1>8. CStackInv' /\ Len(c_stack') = Len(c_stack) - 1
  BY <1>2, <1>3, <1>5, <1>6, <1>7, PopC
<1>9. FramesInv'
  BY <1>2, <1>8 DEF FramesInv
<1>10. HeapInv'
  BY <1>4, <1>5 DEF HeapInv, LeavingInv
<1>11. UNCHANGED toolVars /\ in_user_code' \in BOOLEAN
  BY <1>5
<1>12. QED
  BY <1>1, <1>5, <1>8, <1>9, <1>10, <1>11, KeepFlags

\* The history of the frame that returns is forgotten.
LEMMA HistPopped ==
  ASSUME FramesInv, Len(frames) > 1
  PROVE  /\ Front(hist) \in Seq(HistRec) /\ Len(Front(hist)) = Len(hist) - 1
         /\ Len(hist) - 1 \in 1 .. Len(Front(hist)) /\ Last(hist) \in HistRec
<1>1. hist \in Seq(HistRec) /\ Len(hist) = Len(frames) /\ Len(hist) \in Nat
  BY DEF FramesInv
<1>2. PICK n \in Nat \ {0} : n + 1 = Len(hist)
  <2>1. Len(hist) - 1 \in Nat \ {0} /\ (Len(hist) - 1) + 1 = Len(hist)
    BY <1>1
  <2>2. QED
    BY <2>1
<1>3. SubSeq(hist, 1, n) \in Seq(HistRec) /\ Len(SubSeq(hist, 1, n)) = n
  BY <1>1, <1>2
<1>4. Front(hist) = SubSeq(hist, 1, n) /\ Len(hist) - 1 = n
  BY <1>2 DEF Front
<1>5. Last(hist) \in HistRec
  BY <1>1, <1>2 DEF Last
<1>6. QED
  BY <1>3, <1>4, <1>5

LEMMA LeaveCallKeepsInv ==
  ASSUME Inv, NEW t \in StrandLengths, cilk_leave_begin_call(t)
  PROVE  Inv'
<1>1. t \in Nat /\ MayLeave /\ TOOL_INITIALIZED
  BY SitesAreSites DEF cilk_leave_begin_call, MayLeave, Running
<1>2. CStackInv /\ FramesInv /\ HeapInv /\ path \in Paths
  BY <1>1 DEF Inv, FlagsInv
<1>3. PICK r : r = Leaving(t)
  OBVIOUS
<1>4. PICK back : back = CallerGetsBack(parent, r.prefix_table)
  OBVIOUS
<1>5. PICK pair : pair = [lchild |-> bot.lchild_table, contin |-> bot.contin_table]
  OBVIOUS
<1>6. PICK ok : ok = (/\ in_user_code /\ bot.lchild_spn = 0 /\ r.ok
                      /\ cc_hashtable_is_empty(heap[bot.lchild_table])
                      /\ cc_hashtable_is_empty(heap[bot.contin_table]))
  OBVIOUS
<1>7. /\ Leave(t, r) /\ heap' = r.heap
      /\ c_stack' = SpanAdded(r.c_stack, r.span)
      /\ frames' = ReturnedTo(frames, back) /\ died' = ~ok
      /\ spawner_sf_free_list' = <<pair>> \o spawner_sf_free_list
      /\ path' = PathAfter(t) /\ hist' = Front(hist) /\ UNCHANGED helper_sf_free_list
  BY <1>3, <1>4, <1>5, <1>6 DEF cilk_leave_begin_call, Asserting, SpanAdded, ReturnedTo
<1>8. /\ Len(c_stack) > 1 /\ Len(frames) > 1 /\ bot \in Frame /\ parent \in Frame
      /\ \A g \in Frame : g.c_head = parent.c_head
           => Piled(ReturnedTo(frames, g), Len(c_stack) - 1)
                /\ Len(ReturnedTo(frames, g)) = Len(frames) - 1
  BY <1>1, <1>2, MayLeaveFacts
<1>9. LeavingInv(r)
  BY <1>1, <1>2, <1>3, <1>8, LeavingFacts
<1>10. back \in Frame /\ back.c_head = parent.c_head
  <2>1. PICK b \in Frame, i \in Ids : b = parent /\ i = r.prefix_table
    BY <1>8, <1>9 DEF LeavingInv
  <2>2. back = [b EXCEPT !.prefix_table = i] \/ back = [b EXCEPT !.contin_table = i]
    BY <1>4, <2>1 DEF CallerGetsBack
  <2>3. back \in Frame
    BY <2>2, FrameSet
  <2>4. back.c_head = b.c_head
    BY <2>2 DEF Frame
  <2>5. QED
    BY <2>1, <2>3, <2>4
<1>11. Piled(frames', Len(c_stack) - 1) /\ Len(frames') = Len(frames) - 1
  BY <1>7, <1>8, <1>10
<1>12. pair \in SpawnerTables
  <2>1. bot.lchild_table \in Ids /\ bot.contin_table \in Ids
    BY <1>8, FrameFacts
  <2>2. QED
    BY <1>5, <2>1 DEF SpawnerTables
<1>13. spawner_sf_free_list' \in Seq(SpawnerTables) /\ helper_sf_free_list' \in Seq(Ids)
  <2>1. <<pair>> \in Seq(SpawnerTables) /\ spawner_sf_free_list \in Seq(SpawnerTables)
    BY <1>2, <1>12 DEF HeapInv
  <2>2. <<pair>> \o spawner_sf_free_list \in Seq(SpawnerTables)
    BY <2>1, ConcatProperties
  <2>3. QED
    BY <1>2, <1>7, <2>2 DEF HeapInv
<1>14. hist' \in Seq(HistRec) /\ Len(hist') = Len(hist) - 1
  BY <1>2, <1>7, <1>8, HistPopped
<1>15. path' \in Paths /\ died' \in BOOLEAN /\ IsHeap(heap')
  BY <1>1, <1>2, <1>7, <1>9, PathAfterFacts DEF LeavingInv
<1>16. QED
  BY <1>1, <1>3, <1>7, <1>11, <1>13, <1>14, <1>15, LeaveKeepsInv

\* The frame below a spawned child that has the longest path.
LongestReturned(running, a, span, table) ==
  [parent EXCEPT !.prefix_spn = @ + running, !.local_spn = @ + parent.local_contin,
                 !.lchild_spn = span, !.local_contin = 0,
                 !.prefix_table = a.left, !.contin_table = a.right, !.lchild_table = table]

LEMMA LongestFacts ==
  ASSUME parent \in Frame, NEW running \in Nat, NEW span \in Nat, NEW table \in Ids,
         NEW a, a.left \in Ids, a.right \in Ids,
         NEW f, f = LongestReturned(running, a, span, table)
  PROVE  f \in Frame /\ f.c_head = parent.c_head
<1>1. PICK b \in Frame : b = parent
  OBVIOUS
<1>2. b.prefix_spn \in Nat /\ b.local_spn \in Nat /\ b.local_contin \in Nat
  BY FrameFacts
<1>3. PICK p \in Nat : p = b.prefix_spn + running
  BY <1>2
<1>4. PICK s \in Nat : s = b.local_spn + b.local_contin
  BY <1>2
<1>5. PICK l \in Ids, r \in Ids : l = a.left /\ r = a.right
  OBVIOUS
<1>6. f = [b EXCEPT !.prefix_spn = p, !.local_spn = s, !.lchild_spn = span, !.local_contin = 0,
                    !.prefix_table = l, !.contin_table = r, !.lchild_table = table]
  BY <1>1, <1>3, <1>4, <1>5 DEF LongestReturned
<1>7. PICK f1 \in Frame : f1 = [b EXCEPT !.prefix_spn = p]
  BY FrameSet
<1>8. PICK f2 \in Frame : f2 = [f1 EXCEPT !.local_spn = s]
  BY FrameSet
<1>9. PICK f3 \in Frame : f3 = [f2 EXCEPT !.lchild_spn = span]
  BY FrameSet
<1>10. PICK f4 \in Frame : f4 = [f3 EXCEPT !.local_contin = 0]
  BY FrameSet
<1>11. PICK f5 \in Frame : f5 = [f4 EXCEPT !.prefix_table = l]
  BY FrameSet
<1>12. PICK f6 \in Frame : f6 = [f5 EXCEPT !.contin_table = r]
  BY FrameSet
<1>13. PICK f7 \in Frame : f7 = [f6 EXCEPT !.lchild_table = table]
  BY FrameSet
<1>14. f = f7
  BY <1>6, <1>7, <1>8, <1>9, <1>10, <1>11, <1>12, <1>13
<1>15. f.c_head = b.c_head
  BY <1>6 DEF Frame
<1>16. QED
  BY <1>1, <1>14, <1>15

LEMMA LongestChildFacts ==
  ASSUME CStackInv, FramesInv, HeapInv, MayLeave, NEW r, LeavingInv(r),
         NEW running, running = r.c_stack[c_tail].running_spn,
         LongestChild(r, running, AddTables(r.heap, parent.prefix_table, parent.contin_table))
  PROVE  /\ c_stack' = SpanCleared(r.c_stack) /\ IsHeap(heap')
         /\ helper_sf_free_list' \in Seq(Ids)
         /\ Piled(frames', Len(c_stack) - 1) /\ Len(frames') = Len(frames) - 1
<1>1. PICK a : a = AddTables(r.heap, parent.prefix_table, parent.contin_table)
  OBVIOUS
<1>2. PICK f : f = LongestReturned(running, a, r.span, r.prefix_table)
  OBVIOUS
<1>3. /\ heap' = Clear(Clear(a.heap, parent.lchild_table), a.right)
      /\ frames' = ReturnedTo(frames, f) /\ c_stack' = SpanCleared(r.c_stack)
      /\ helper_sf_free_list' = <<parent.lchild_table>> \o helper_sf_free_list
  BY <1>1, <1>2 DEF LongestChild, LongestReturned, ReturnedTo, SpanCleared
<1>4. /\ parent \in Frame
      /\ \A g \in Frame : g.c_head = parent.c_head
           => Piled(ReturnedTo(frames, g), Len(c_stack) - 1)
                /\ Len(ReturnedTo(frames, g)) = Len(frames) - 1
  BY MayLeaveFacts
<1>5. parent.prefix_table \in Ids /\ parent.contin_table \in Ids /\ parent.lchild_table \in Ids
  BY <1>4, FrameFacts
<1>6. IsHeap(r.heap) /\ r.span \in Nat /\ r.prefix_table \in Ids /\ running \in Nat
  BY DEF LeavingInv
<1>7. IsHeap(a.heap) /\ a.left \in Ids /\ a.right \in Ids
  BY <1>1, <1>5, <1>6, AddTablesTyped
<1>8. f \in Frame /\ f.c_head = parent.c_head
  <2>1. PICK x \in Nat, y \in Nat, i \in Ids : x = running /\ y = r.span /\ i = r.prefix_table
    BY <1>6
  <2>2. f = LongestReturned(x, a, y, i)
    BY <1>2, <2>1
  <2>3. QED
    <3>1. parent \in Frame /\ a.left \in Ids /\ a.right \in Ids
      BY <1>4, <1>7
    <3>2. x \in Nat /\ y \in Nat /\ i \in Ids
      OBVIOUS
    <3>3. QED
      BY ONLY <2>2, <3>1, <3>2, LongestFacts
<1>9. Piled(frames', Len(c_stack) - 1) /\ Len(frames') = Len(frames) - 1
  BY <1>3, <1>4, <1>8
<1>10. IsHeap(heap')
  BY <1>3, <1>7, ClearFacts
<1>11. helper_sf_free_list' \in Seq(Ids)
  <2>1. <<parent.lchild_table>> \in Seq(Ids) /\ helper_sf_free_list \in Seq(Ids)
    BY <1>5 DEF HeapInv
  <2>2. QED
    BY <1>3, <2>1, ConcatProperties
<1>12. QED
  BY <1>3, <1>9, <1>10, <1>11

LEMMA ShorterChildFacts ==
  ASSUME CStackInv, FramesInv, HeapInv, MayLeave, NEW r, LeavingInv(r), ShorterChild(r)
  PROVE  /\ c_stack' = r.c_stack /\ IsHeap(heap')
         /\ helper_sf_free_list' \in Seq(Ids)
         /\ Piled(frames', Len(c_stack) - 1) /\ Len(frames') = Len(frames) - 1
<1>1. /\ heap' = Clear(r.heap, r.prefix_table) /\ frames' = Front(frames)
      /\ c_stack' = r.c_stack
      /\ helper_sf_free_list' = <<r.prefix_table>> \o helper_sf_free_list
  BY DEF ShorterChild
<1>2. IsHeap(r.heap) /\ r.prefix_table \in Ids
  BY DEF LeavingInv
<1>3. helper_sf_free_list' \in Seq(Ids)
  <2>1. <<r.prefix_table>> \in Seq(Ids) /\ helper_sf_free_list \in Seq(Ids)
    BY <1>2 DEF HeapInv
  <2>2. QED
    BY <1>1, <2>1, ConcatProperties
<1>4. Piled(Front(frames), Len(c_stack) - 1) /\ Len(Front(frames)) = Len(frames) - 1
  BY MayLeaveFacts
<1>5. QED
  BY <1>1, <1>2, <1>3, <1>4, ClearFacts

LEMMA LeaveSpawnKeepsInv ==
  ASSUME Inv, NEW t \in LeavingLengths, cilk_leave_begin_spawn(t)
  PROVE  Inv'
<1>1. t \in Nat /\ MayLeave /\ TOOL_INITIALIZED
  BY SitesAreSites DEF cilk_leave_begin_spawn, MayLeave, Running
<1>2. CStackInv /\ FramesInv /\ HeapInv /\ path \in Paths
  BY <1>1 DEF Inv, FlagsInv
<1>3. PICK r : r = Leaving(t)
  OBVIOUS
<1>4. PICK running : running = r.c_stack[c_tail].running_spn
  OBVIOUS
<1>5. PICK ok : ok = (/\ in_user_code /\ bot.lchild_spn = 0 /\ parent.func_type # "HELPER"
                      /\ r.ok /\ bot.lchild_table = NULL /\ bot.contin_table = NULL
                      /\ ChildIsLonger(running + parent.local_contin + r.span, parent.lchild_spn)
                         => MayAddTables(r.heap, parent.prefix_table, parent.contin_table))
  OBVIOUS
<1>6. /\ Leave(t, r) /\ died' = ~ok
      /\ \/ LongestChild(r, running,
                         AddTables(r.heap, parent.prefix_table, parent.contin_table))
         \/ ShorterChild(r)
      /\ path' = Last(hist).resume /\ UNCHANGED spawner_sf_free_list
      /\ hist' = [Front(hist) EXCEPT ![Len(hist) - 1].join = Longer(@, PathAfter(t)),
                                     ![Len(hist) - 1].unsynced = TRUE,
                                     ![Len(hist) - 1].stage = "body"]
  BY <1>3, <1>4, <1>5 DEF cilk_leave_begin_spawn, Asserting
<1>7. Len(c_stack) > 1 /\ Len(frames) > 1 /\ bot \in Frame
  BY <1>1, <1>2, MayLeaveFacts
<1>8. LeavingInv(r)
  BY <1>1, <1>2, <1>3, <1>7, LeavingFacts
<1>9. /\ \/ c_stack' = r.c_stack
         \/ c_stack' = SpanCleared(r.c_stack)
      /\ IsHeap(heap') /\ helper_sf_free_list' \in Seq(Ids)
      /\ Piled(frames', Len(c_stack) - 1) /\ Len(frames') = Len(frames) - 1
  <2>1. CASE ShorterChild(r)
    BY <1>1, <1>2, <1>8, <2>1, ShorterChildFacts
  <2>2. CASE LongestChild(r, running,
                          AddTables(r.heap, parent.prefix_table, parent.contin_table))
    BY <1>1, <1>2, <1>4, <1>8, <2>2, LongestChildFacts
  <2>3. QED
    BY <1>6, <2>1, <2>2
<1>10. spawner_sf_free_list' \in Seq(SpawnerTables)
  BY <1>2, <1>6 DEF HeapInv
<1>20. PICK front \in Seq(HistRec) :
         front = Front(hist) /\ Len(front) = Len(hist) - 1 /\ Len(hist) - 1 \in 1 .. Len(front)
  BY <1>2, <1>7, HistPopped
<1>11. PICK k \in 1 .. Len(front) :
         front = Front(hist) /\ Len(front) = Len(hist) - 1 /\ k = Len(hist) - 1
  BY <1>20
<1>12. PICK h \in HistRec : h = front[k]
  BY <1>11
<1>13. PICK join \in Paths : join = Longer(h.join, PathAfter(t))
  <2>1. h.join \in Paths
    BY Zenon DEF HistRec
  <2>2. PathAfter(t) \in Paths
    BY <1>1, <1>2, PathAfterFacts
  <2>3. QED
    BY <2>1, <2>2, PathFacts
<1>14. PICK q : q = [h EXCEPT !.join = join, !.unsynced = TRUE, !.stage = "body"]
  OBVIOUS
<1>15. q \in HistRec
  BY <1>13, <1>14 DEF HistRec, Stages
<1>16. hist' = [front EXCEPT ![k] = q]
  <2>1. hist' = [front EXCEPT ![k].join = Longer(@, PathAfter(t)),
                              ![k].unsynced = TRUE, ![k].stage = "body"]
    BY <1>6, <1>11
  <2>2. QED
    BY <1>11, <1>12, <1>13, <1>14, <2>1
<1>17. hist' \in Seq(HistRec) /\ Len(hist') = Len(hist) - 1
  <2>1. Len([front EXCEPT ![k] = q]) = Len(front) /\ [front EXCEPT ![k] = q] \in Seq(HistRec)
    BY <1>15, ExceptSeq
  <2>2. QED
    BY <1>11, <1>16, <2>1
<1>18. path' \in Paths /\ died' \in BOOLEAN
  <2>1. Last(hist) \in HistRec
    BY <1>2, <1>7, HistPopped
  <2>2. Last(hist).resume \in Paths
    BY <2>1, Zenon DEF HistRec
  <2>3. QED
    BY <1>6, <2>2
<1>19. QED
  BY <1>1, <1>3, <1>6, <1>9, <1>10, <1>17, <1>18, LeaveKeepsInv

-----------------------------------------------------------------------------
(***************************************************************************)
(* The tool is initialized, prints and is destroyed.                       *)
(***************************************************************************)
LEMMA NoSitesFacts ==
  /\ TypedState(NoSites) /\ NoSites.sites.table_size = 0
  /\ \A stack : Real(stack) = {} => /\ StatusMatches(NoSites.cs, NoSites.fn, stack)
                                    /\ OnSites(stack, 0)
<1>1. PICK m \in Nat \ {0} : m = START_STATUS_VECTOR_SIZE
  BY CilkProfAssumption
<1>2. PICK cs : cs = [i \in 0 .. m - 1 |-> Off]
  OBVIOUS
<1>3. PICK fn : fn = [i \in 0 .. m - 1 |-> OFF_STACK]
  OBVIOUS
<1>4. PICK tab : tab = iaddr_table_create
  OBVIOUS
<1>5. NoSites = [sites |-> tab, fns |-> tab, cs |-> cs, fn |-> fn]
  BY <1>1, <1>2, <1>3, <1>4 DEF NoSites
<1>6. NoSites.sites = tab /\ NoSites.fns = tab /\ NoSites.cs = cs /\ NoSites.fn = fn
  BY <1>5
<1>7. IsIaddrTable(tab) /\ tab.table_size = 0
  BY <1>4, EmptyTable
<1>8. Off \in Status /\ OFF_STACK \in Nat \cup {OFF_STACK} /\ Off.c_tail = OFF_STACK
  BY DEF Off, Status
<1>9. IsVector(cs, Status, 0)
  <2>1. cs \in [0 .. m - 1 -> Status] /\ 0 <= m
    BY <1>2, <1>8
  <2>2. QED
    BY <2>1 DEF IsVector
<1>10. IsVector(fn, Nat \cup {OFF_STACK}, 0)
  <2>1. fn \in [0 .. m - 1 -> Nat \cup {OFF_STACK}] /\ 0 <= m
    BY <1>3, <1>8
  <2>2. QED
    BY <2>1 DEF IsVector
<1>11. \A i \in DOMAIN cs : cs[i] = Off /\ ~(i < 0)
  BY <1>2
<1>12. SitesTyped(tab, tab, cs, fn)
  BY <1>7, <1>9, <1>10, <1>11 DEF SitesTyped
<1>13. ASSUME NEW stack, Real(stack) = {}
       PROVE  StatusMatches(cs, fn, stack) /\ OnSites(stack, 0)
  <2>1. \A i : InstancesOf(stack, i) = {}
    BY <1>13 DEF InstancesOf
  <2>2. \A f : FnInstancesOf(stack, cs, f) = {}
    BY <1>13 DEF FnInstancesOf
  <2>3. \A i \in DOMAIN cs : cs[i].c_tail = OFF_STACK
    BY <1>8, <1>11
  <2>4. \A f \in DOMAIN fn : fn[f] = OFF_STACK
    BY <1>3
  <2>5. StatusMatches(cs, fn, stack)
    BY <2>1, <2>2, <2>3, <2>4 DEF StatusMatches, Outermost
  <2>6. QED
    BY <1>13, <2>5 DEF OnSites
<1>14. QED
  BY <1>6, <1>7, <1>12, <1>13 DEF TypedState

\* The first call site is entered, above main's C frame or as main's.
LEMMA FirstC ==
  ASSUME NEW site, IsSite(site), NEW stack \in Seq(CFrame), Real(stack) = {},
         Len(stack) \in 0 .. 1, \A j \in 1 .. Len(stack) : stack[j].cs_index = 0,
         NEW e, e = Entered(NoSites, site, Len(stack)), SitesBecome(e),
         c_stack' = Append(stack, NewCFrame(e.index, site.rip)),
         c_stack_capacity' \in Nat \ {0}, Len(stack) + 1 <= c_stack_capacity',
         keys' \in Seq(Keys), Len(keys') = Len(stack) + 1
  PROVE  CStackInv' /\ Len(c_stack') = Len(stack) + 1
<1>1. PICK st : st = NoSites
  OBVIOUS
<1>2. /\ TypedState(st) /\ OnSites(stack, st.sites.table_size) /\ StatusMatches(st.cs, st.fn, stack)
      /\ st.sites.table_size = 0
  BY <1>1, NoSitesFacts
<1>3. e = Entered(st, site, Len(stack))
  BY <1>1
<1>4. e.index \in Nat
  <2>1. PICK s : s = add_to_iaddr_table(st.sites, site.rip, site.type)
    OBVIOUS
  <2>2. site.rip \in Nat /\ site.type \in Types /\ IsIaddrTable(st.sites)
    BY <1>2 DEF IsSite, TypedState, SitesTyped
  <2>3. HasNumber(st.sites, s, site.rip, site.type, IndexOf(s, site.rip))
    BY <2>1, <2>2, AddFacts
  <2>4. e.index = IndexOf(s, site.rip)
    BY <1>3, <2>1 DEF Entered, Numbered, EnteredAt
  <2>5. IndexOf(s, site.rip) \in 0 .. s.table_size - 1
    BY <2>3 DEF HasNumber
  <2>6. QED
    BY <2>4, <2>5
<1>5. PICK frame : frame = NewCFrame(e.index, site.rip)
  OBVIOUS
<1>6. frame \in CFrame /\ frame.rip # 0 /\ frame.cs_index = e.index
  BY <1>4, <1>5 DEF NewCFrame, CFrame, IsSite
<1>7. CountsFrame(st, e, site, stack, frame)
  BY <1>2, <1>3, <1>6, EnteredFacts
<1>8. /\ call_site_table' = e.sites /\ function_table' = e.rest.fns
      /\ cs_status' = e.rest.status.cs /\ fn_status' = e.rest.status.fn /\ MIN_CAPACITY' = e.rest.min
  BY DEF SitesBecome
<1>9. /\ c_stack' \in Seq(CFrame) /\ Len(c_stack') = Len(stack) + 1
      /\ c_stack'[Len(stack) + 1] = frame /\ \A j \in 1 .. Len(stack) : c_stack'[j] = stack[j]
  BY <1>5, <1>6
<1>10. SitesTyped(call_site_table', function_table', cs_status', fn_status')
         /\ StatusMatches(cs_status', fn_status', c_stack')
  BY <1>5, <1>7, <1>8 DEF CountsFrame
<1>11. PICK size \in Nat : size = call_site_table'.table_size
  BY <1>10 DEF SitesTyped, IsIaddrTable, Shaped
<1>12. e.index \in 0 .. size - 1
  BY <1>7, <1>8, <1>11 DEF CountsFrame
<1>13. MIN_CAPACITY' \in Nat \ {0}
  <2>1. MIN_CAPACITY' = size \/ size = 0
    BY <1>2, <1>7, <1>8, <1>11 DEF CountsFrame
  <2>2. QED
    BY <1>11, <1>12, <2>1
<1>14. \A j \in 1 .. Len(c_stack') : c_stack'[j].cs_index \in 0 .. size - 1
  BY <1>6, <1>9, <1>11, <1>12
<1>15. \A j \in 2 .. Len(c_stack') : c_stack'[j].rip # 0
  <2>1. \A j \in 2 .. Len(c_stack') : j = Len(stack) + 1
    BY <1>9
  <2>2. QED
    BY <1>6, <1>9, <2>1
<1>16. QED
  BY <1>9, <1>10, <1>11, <1>13, <1>14, <1>15 DEF CStackInv

\* The tables of the frame of MAIN, and that of the work.
LEMMA InitializedFacts ==
  ASSUME IsHeap(heap)
  PROVE  /\ IsHeap(Initialized.heap) /\ Initialized.wrk \in Ids
         /\ Initialized.main \in Frame /\ Initialized.main.c_head = 0
<1>1. PICK h1 : h1 = Created(heap)
  OBVIOUS
<1>2. PICK h2 : h2 = Created(h1)
  OBVIOUS
<1>3. PICK h3 : h3 = Created(h2)
  OBVIOUS
<1>4. PICK h4 : h4 = Created(h3)
  OBVIOUS
<1>5. IsHeap(h1) /\ Fresh(heap) \in Ids
  BY <1>1, CreatedTyped
<1>6. IsHeap(h2) /\ Fresh(h1) \in Ids
  BY <1>2, <1>5, CreatedTyped
<1>7. IsHeap(h3) /\ Fresh(h2) \in Ids
  BY <1>3, <1>6, CreatedTyped
<1>8. IsHeap(h4) /\ Fresh(h3) \in Ids
  BY <1>4, <1>7, CreatedTyped
<1>9. PICK p \in Ids, l \in Ids, c \in Ids : p = Fresh(heap) /\ l = Fresh(h1) /\ c = Fresh(h2)
  BY <1>5, <1>6, <1>7
<1>10. PICK f : f = NewFrame("MAIN", 0, p, l, c)
  OBVIOUS
<1>11. "MAIN" \in FrameKinds /\ 0 \in Nat
  BY DEF FrameKinds
<1>12. f \in Frame /\ f.c_head = 0
  BY <1>10, <1>11, NewFrameFacts
<1>13. Initialized = [heap |-> h4, wrk |-> Fresh(h3), main |-> f]
  BY <1>1, <1>2, <1>3, <1>4, <1>9, <1>10 DEF Initialized
<1>14. QED
  BY <1>8, <1>12, <1>13

\* The tool is initialized, and the frame of MAIN is put in place.
LEMMA InitToolKeepsInv ==
  ASSUME Inv, InitTool, CStackInv', FramesInv', IsHeap(heap'),
         helper_sf_free_list' = <<>>, spawner_sf_free_list' = <<>>,
         {in_user_code', died'} \subseteq BOOLEAN,
         pc' \in {"user", "entering", "prepared", "detaching", "syncing", "leaving"}
  PROVE  Inv'
<1>1. /\ TOOL_INITIALIZED' = TRUE /\ TOOL_PRINTED' = FALSE
      /\ wrk_table' = Initialized.wrk /\ path' = NoPath
  BY DEF InitTool
<1>2. /\ c_stack_capacity' \in Nat /\ MIN_CAPACITY' \in Nat \ {0}
      /\ SitesTyped(call_site_table', function_table', cs_status', fn_status')
  BY DEF CStackInv
<1>3. path' \in Paths
  BY <1>1, PathFacts
<1>4. FlagsInv'
  BY <1>1, <1>2, <1>3 DEF FlagsInv
<1>5. wrk_table' \in Ids
  BY <1>1, InitializedFacts DEF Inv, HeapInv
<1>6. HeapInv'
  <2>1. <<>> \in Seq(Ids) /\ <<>> \in Seq(SpawnerTables)
    BY EmptySeq
  <2>2. QED
    BY <1>5, <2>1 DEF HeapInv
<1>7. QED
  BY <1>1, <1>4, <1>6 DEF Inv

LEMMA EnterMainKeepsInv ==
  ASSUME Inv, cilk_tool_c_function_enter_main
  PROVE  Inv'
<1>1. PICK e : e = Entered(NoSites, MainSite, 0)
  OBVIOUS
<1>2. PICK main : main = Initialized.main
  OBVIOUS
<1>3. PICK r : r = History("body", NoPath, NoPath)
  OBVIOUS
<1>4. PICK ok : ok = (e.rest.ok /\ IsOffStack(NoSites.fn, IndexOf(e.rest.fns, MainSite.fn)))
  OBVIOUS
<1>5. /\ InitTool /\ SitesBecome(e)
      /\ c_stack' = <<NewCFrame(e.index, MainSite.rip)>>
      /\ c_stack_capacity' = START_C_STACK_SIZE /\ frames' = <<main>>
      /\ heap' = Initialized.heap
      /\ helper_sf_free_list' = <<>> /\ spawner_sf_free_list' = <<>>
      /\ in_user_code' = TRUE /\ died' = ~ok /\ keys' = <<MainKey>> /\ hist' = <<r>>
      /\ UNCHANGED <<pc, nevents>>
  BY <1>1, <1>2, <1>3, <1>4 DEF cilk_tool_c_function_enter_main, Asserting
<1>6. IsSite(MainSite) /\ MainKey \in Keys
  BY SitesAreSites DEF MainKey
<1>7. CStackInv' /\ Len(c_stack') = 1
  <2>1. PICK stack \in Seq(CFrame) : stack = <<>>
    BY EmptySeq
  <2>2. Len(stack) = 0 /\ Real(stack) = {} /\ Len(stack) \in 0 .. 1
          /\ \A j \in 1 .. Len(stack) : stack[j].cs_index = 0
    BY <2>1 DEF Real
  <2>3. PICK frame : frame = NewCFrame(e.index, MainSite.rip)
    OBVIOUS
  <2>4. c_stack' = Append(stack, NewCFrame(e.index, MainSite.rip))
    BY <1>5, <2>1
  <2>5. keys' \in Seq(Keys) /\ Len(keys') = Len(stack) + 1
    BY <1>5, <1>6, <2>2
  <2>6. c_stack_capacity' \in Nat \ {0} /\ Len(stack) + 1 <= c_stack_capacity'
    BY <1>5, <2>2, CilkProfAssumption
  <2>7. e = Entered(NoSites, MainSite, Len(stack))
    BY <1>1, <2>2
  <2>8. CStackInv' /\ Len(c_stack') = Len(stack) + 1
    BY ONLY <1>5, <1>6, <2>2, <2>4, <2>5, <2>6, <2>7, FirstC
  <2>9. QED
    BY <2>2, <2>8
<1>8. IsHeap(Initialized.heap) /\ main \in Frame /\ main.c_head = 0
  BY <1>2, InitializedFacts DEF Inv, HeapInv
<1>9. Piled(frames', 1)
  BY <1>5, <1>8 DEF Piled
<1>10. r \in HistRec
  <2>1. PICK p \in Paths : p = NoPath
    BY PathFacts
  <2>2. "body" \in Stages /\ r = History("body", p, p)
    BY <1>3, <2>1 DEF Stages
  <2>3. QED
    BY <2>2, HistoryFacts
<1>11. FramesInv'
  BY <1>5, <1>7, <1>9, <1>10 DEF FramesInv
<1>12. /\ {in_user_code', died'} \subseteq BOOLEAN
       /\ pc' \in {"user", "entering", "prepared", "detaching", "syncing", "leaving"}
  BY <1>5 DEF Inv, FlagsInv
<1>13. QED
  BY <1>5, <1>7, <1>8, <1>11, <1>12, InitToolKeepsInv

LEMMA EnterFirstKeepsInv ==
  ASSUME Inv, NEW site \in Sites, cilk_enter_begin_first(site)
  PROVE  Inv'
<1>1. PICK e : e = Entered(NoSites, site, 1)
  OBVIOUS
<1>2. PICK main : main = Initialized.main
  OBVIOUS
<1>3. PICK h0 : h0 = Initialized.heap
  OBVIOUS
<1>4. PICK h1 : h1 = Created(h0)
  OBVIOUS
<1>5. PICK f : f = NewFrame("SPAWNER", 1, main.prefix_table, Fresh(h0), Fresh(h1))
  OBVIOUS
<1>6. PICK r : r = History("body", NoPath, NoPath)
  OBVIOUS
<1>7. PICK ok : ok = e.rest.ok
  OBVIOUS
<1>8. PICK c : c = NewCFrame(0, 0)
  OBVIOUS
<1>9. /\ InitTool /\ SitesBecome(e)
      /\ c_stack' = <<c, NewCFrame(e.index, site.rip)>>
      /\ c_stack_capacity' = IF START_C_STACK_SIZE = 1 THEN 2 ELSE START_C_STACK_SIZE
      /\ frames' = <<main, f>> /\ heap' = Created(h1)
      /\ helper_sf_free_list' = <<>> /\ spawner_sf_free_list' = <<>>
      /\ in_user_code' = FALSE /\ died' = ~ok /\ keys' = <<MainKey, KeyOf(site)>>
      /\ hist' = <<r, r>> /\ pc' = "entering"
  BY <1>1, <1>2, <1>3, <1>4, <1>5, <1>6, <1>7, <1>8 DEF cilk_enter_begin_first, Asserting
<1>10. IsSite(site) /\ KeyOf(site) \in Keys /\ MainKey \in Keys
  BY SitesAreSites DEF MainKey
<1>11. c \in CFrame /\ c.rip = 0 /\ c.cs_index = 0
  BY <1>8 DEF NewCFrame, CFrame
<1>12. CStackInv' /\ Len(c_stack') = 2
  <2>3. <<c>> \in Seq(CFrame)
    BY <1>11
  <2>1. PICK stack \in Seq(CFrame) : stack = <<c>>
    BY <2>3, Zenon
  <2>2. Len(stack) = 1 /\ Real(stack) = {} /\ Len(stack) \in 0 .. 1
          /\ \A j \in 1 .. Len(stack) : stack[j].cs_index = 0
    BY <1>11, <2>1 DEF Real
  <2>4. c_stack' = Append(stack, NewCFrame(e.index, site.rip))
    BY <1>9, <2>1
  <2>5. keys' \in Seq(Keys) /\ Len(keys') = Len(stack) + 1
    BY <1>9, <1>10, <2>2
  <2>6. c_stack_capacity' \in Nat \ {0} /\ Len(stack) + 1 <= c_stack_capacity'
    <3>1. START_C_STACK_SIZE \in Nat \ {0}
      BY CilkProfAssumption
    <3>2. QED
      BY <1>9, <2>2, <3>1
  <2>7. e = Entered(NoSites, site, Len(stack))
    BY <1>1, <2>2
  <2>8. CStackInv' /\ Len(c_stack') = Len(stack) + 1
    BY ONLY <1>9, <1>10, <2>2, <2>4, <2>5, <2>6, <2>7, FirstC
  <2>9. QED
    BY <2>2, <2>8
<1>13. IsHeap(h0) /\ main \in Frame /\ main.c_head = 0
  BY <1>2, <1>3, InitializedFacts DEF Inv, HeapInv
<1>14. IsHeap(h1) /\ Fresh(h0) \in Ids
  BY <1>4, <1>13, CreatedTyped
<1>15. IsHeap(heap') /\ Fresh(h1) \in Ids
  BY <1>9, <1>14, CreatedTyped
<1>16. f \in Frame /\ f.c_head = 1
  <2>1. main.prefix_table \in Ids
    BY <1>13, FrameFacts
  <2>2. PICK i \in Ids, l \in Ids, k \in Ids :
          i = main.prefix_table /\ l = Fresh(h0) /\ k = Fresh(h1)
    BY <1>14, <1>15, <2>1
  <2>3. f = NewFrame("SPAWNER", 1, i, l, k) /\ "SPAWNER" \in FrameKinds /\ 1 \in Nat
    BY <1>5, <2>2 DEF FrameKinds
  <2>4. QED
    BY <2>3, NewFrameFacts
<1>17. Piled(frames', 2)
  <2>1. PICK frs : frs = <<main, f>>
    OBVIOUS
  <2>2. frs \in Seq(Frame) /\ Len(frs) = 2 /\ frs[1] = main /\ frs[2] = f
    BY <1>13, <1>16, <2>1
  <2>3. \A i \in 1 .. 2 : frs[i].c_head = i - 1
    BY <1>13, <1>16, <2>2
  <2>4. Piled(frs, 2)
    BY <2>2, <2>3 DEF Piled
  <2>5. QED
    BY <1>9, <2>1, <2>4
<1>18. r \in HistRec
  <2>1. PICK p \in Paths : p = NoPath
    BY PathFacts
  <2>2. "body" \in Stages /\ r = History("body", p, p)
    BY <1>6, <2>1 DEF Stages
  <2>3. QED
    BY <2>2, HistoryFacts
<1>19. FramesInv'
  BY <1>9, <1>12, <1>17, <1>18 DEF FramesInv
<1>20. {in_user_code', died'} \subseteq BOOLEAN
  BY <1>9
<1>21. QED
  BY <1>9, <1>12, <1>15, <1>19, <1>20, InitToolKeepsInv

\* What is printed, and the frame of MAIN after it.
LEMMA PrintedFacts ==
  ASSUME HeapInv, bot \in Frame
  PROVE  /\ IsHeap(Printed.heap) /\ Printed.wrk_table \in Ids
         /\ Printed.main \in Frame /\ Printed.main.c_head = bot.c_head
<1>1. PICK b \in Frame : b = bot
  OBVIOUS
<1>2. b.prefix_table \in Ids /\ b.contin_table \in Ids
  BY FrameFacts
<1>3. PICK a : a = AddTables(heap, bot.prefix_table, bot.contin_table)
  OBVIOUS
<1>4. IsHeap(a.heap) /\ a.left \in Ids /\ a.right \in Ids
  BY <1>1, <1>2, <1>3, AddTablesTyped DEF HeapInv
<1>5. PICK h : h = Clear(a.heap, a.right)
  OBVIOUS
<1>6. PICK s : s = Flush(h, a.left)
  OBVIOUS
<1>7. IsHeap(h)
  BY <1>4, <1>5, ClearFacts
<1>8. IsHeap(s.heap) /\ s.id \in Ids
  BY <1>4, <1>6, <1>7, AddToTyped
<1>9. PICK w : w = Flush(s.heap, wrk_table)
  OBVIOUS
<1>10. IsHeap(w.heap) /\ w.id \in Ids
  BY <1>8, <1>9, AddToTyped DEF HeapInv
<1>11. PICK i \in Ids, j \in Ids : i = s.id /\ j = a.right
  BY <1>4, <1>8
<1>12. PICK m : m = [b EXCEPT !.prefix_table = i, !.contin_table = j]
  OBVIOUS
<1>13. PICK m1 \in Frame : m1 = [b EXCEPT !.prefix_table = i]
  BY FrameSet
<1>14. PICK m2 \in Frame : m2 = [m1 EXCEPT !.contin_table = j]
  BY FrameSet
<1>15. m = m2 /\ m.c_head = b.c_head
  BY <1>12, <1>13, <1>14 DEF Frame
<1>16. Printed = [heap |-> w.heap, wrk_table |-> w.id, main |-> m]
  BY <1>1, <1>3, <1>5, <1>6, <1>9, <1>11, <1>12 DEF Printed
<1>17. QED
  BY <1>1, <1>10, <1>14, <1>15, <1>16

LEMMA PrintKeepsInv ==
  ASSUME Inv, cilk_tool_print
  PROVE  Inv'
<1>1. TOOL_INITIALIZED /\ Len(frames) = 1
  BY DEF cilk_tool_print, InMain, Running
<1>2. CStackInv /\ FramesInv /\ HeapInv /\ FlagsInv
  BY <1>1 DEF Inv
<1>3. PICK p : p = Printed
  OBVIOUS
<1>4. PICK main : main = p.main
  OBVIOUS
<1>5. PICK ok : ok = PrintAsserts(p)
  OBVIOUS
<1>6. /\ heap' = p.heap /\ wrk_table' = p.wrk_table /\ frames' = <<main>> /\ died' = ~ok
      /\ TOOL_PRINTED' = TRUE
      /\ UNCHANGED <<c_stack, c_stack_capacity, helper_sf_free_list, spawner_sf_free_list,
                     siteVars, histVars, TOOL_INITIALIZED, leaked, ninits, in_user_code, pc, nevents>>
  BY <1>3, <1>4, <1>5 DEF cilk_tool_print, Asserting
<1>7. PICK n \in Nat \ {0} : n = Len(c_stack) /\ Piled(frames, n)
  BY <1>2 DEF FramesInv, CStackInv
<1>8. bot \in Frame /\ bot.c_head \in 0 .. n - 1
  <2>1. frames \in Seq(Frame) /\ bot = frames[1] /\ 1 \in 1 .. Len(frames)
    BY <1>1, <1>7 DEF Piled, bot, Last
  <2>2. QED
    BY <1>7, <2>1 DEF Piled
<1>9. /\ IsHeap(p.heap) /\ p.wrk_table \in Ids /\ main \in Frame /\ main.c_head = bot.c_head
  BY <1>2, <1>3, <1>4, <1>8, PrintedFacts
<1>10. Piled(frames', n) /\ Len(frames') = 1
  <2>1. PICK frs : frs = <<main>>
    OBVIOUS
  <2>2. frs \in Seq(Frame) /\ Len(frs) = 1 /\ frs[1] = main
    BY <1>9, <2>1
  <2>3. Piled(frs, n)
    BY <1>8, <1>9, <2>2 DEF Piled
  <2>4. QED
    BY <1>6, <2>1, <2>2, <2>3
<1>11. CStackInv'
  <2>1. UNCHANGED <<c_stack, siteVars, keys, c_stack_capacity>>
    BY <1>6 DEF histVars
  <2>2. QED
    BY <1>2, <2>1, SameC
<1>12. FramesInv'
  BY <1>1, <1>2, <1>6, <1>7, <1>10 DEF FramesInv, histVars
<1>13. HeapInv'
  BY <1>2, <1>6, <1>9 DEF HeapInv
<1>14. FlagsInv'
  BY <1>2, <1>6 DEF FlagsInv, histVars, siteVars
<1>15. QED
  BY <1>1, <1>6, <1>11, <1>12, <1>13, <1>14 DEF Inv

LEMMA DestroyKeepsInv ==
  ASSUME Inv, cilk_tool_destroy
  PROVE  Inv'
<1>1. TOOL_INITIALIZED /\ Len(frames) = 1 /\ pc = "user"
  BY DEF cilk_tool_destroy, InMain, Running
<1>2. CStackInv /\ FramesInv /\ HeapInv /\ FlagsInv
  BY <1>1 DEF Inv
<1>3. PICK p : /\ p = IF TOOL_PRINTED
                      THEN [heap |-> heap, wrk_table |-> wrk_table, main |-> bot] ELSE Printed
               /\ heap' = Restrict(p.heap, DOMAIN p.heap \ Freed(p))
               /\ died' = ~(TOOL_PRINTED \/ PrintAsserts(p))
  BY DEF cilk_tool_destroy, Asserting
<1>4. /\ TOOL_INITIALIZED' = FALSE /\ TOOL_PRINTED' = TRUE /\ wrk_table' = NULL
      /\ frames' = <<>> /\ c_stack' = <<>> /\ keys' = <<>> /\ hist' = <<>>
      /\ helper_sf_free_list' = <<>> /\ spawner_sf_free_list' = <<>>
      /\ UNCHANGED <<c_stack_capacity, siteVars, path, truth, ninits, in_user_code, pc, nevents>>
  BY DEF cilk_tool_destroy
<1>5. bot \in Frame
  BY <1>1, <1>2, SMTT(40) DEF FramesInv, Piled, bot, Last
<1>6. IsHeap(p.heap)
  <2>1. CASE TOOL_PRINTED
    BY <1>2, <1>3, <2>1 DEF HeapInv
  <2>2. CASE ~TOOL_PRINTED
    BY <1>2, <1>3, <1>5, <2>2, PrintedFacts
  <2>3. QED
    BY <2>1, <2>2
<1>7. IsHeap(heap')
  <2>1. PICK freed : freed = Freed(p)
    OBVIOUS
  <2>2. PICK h : h = p.heap
    OBVIOUS
  <2>3. heap' = [i \in DOMAIN h \ freed |-> h[i]]
    BY <1>3, <2>1, <2>2 DEF Restrict
  <2>4. DOMAIN heap' = DOMAIN h \ freed
    BY <2>3
  <2>5. IsFiniteSet(DOMAIN h \ freed) /\ DOMAIN h \ freed \subseteq Nat
    BY <1>6, <2>2, FS_Subset DEF IsHeap
  <2>6. QED
    BY <2>4, <2>5 DEF IsHeap
<1>8. HeapInv'
  <2>1. <<>> \in Seq(Ids) /\ <<>> \in Seq(SpawnerTables) /\ NULL \in Ids
    BY EmptySeq DEF Ids
  <2>2. QED
    BY <1>4, <1>7, <2>1 DEF HeapInv
<1>9. died' \in BOOLEAN
  BY <1>3
<1>10. FlagsInv'
  BY <1>2, <1>4, <1>9 DEF FlagsInv, siteVars
<1>11. QED
  BY <1>1, <1>4, <1>8, <1>10 DEF Inv

-----------------------------------------------------------------------------
(***************************************************************************)
(* The invariant, and what follows from it.                                *)
(***************************************************************************)
LEMMA InitInv ==
  Init => Inv
<1>1. SUFFICES ASSUME Init PROVE Inv
  OBVIOUS
<1>2. /\ TOOL_INITIALIZED = FALSE /\ TOOL_PRINTED = FALSE /\ in_user_code = FALSE
      /\ frames = <<>> /\ c_stack = <<>> /\ c_stack_capacity = START_C_STACK_SIZE
      /\ helper_sf_free_list = <<>> /\ spawner_sf_free_list = <<>>
      /\ heap = <<>> /\ wrk_table = NULL
      /\ call_site_table = NoSites.sites /\ function_table = NoSites.fns
      /\ cs_status = NoSites.cs /\ fn_status = NoSites.fn
      /\ MIN_CAPACITY = 1 /\ died = FALSE /\ pc = "user"
      /\ hist = <<>> /\ keys = <<>> /\ path = NoPath
  BY <1>1 DEF Init
<1>3. SitesTyped(call_site_table, function_table, cs_status, fn_status)
  BY <1>2, NoSitesFacts DEF TypedState
<1>4. c_stack_capacity \in Nat
  BY <1>2, CilkProfAssumption
<1>5. FlagsInv
  <2>1. {TOOL_INITIALIZED, TOOL_PRINTED, in_user_code, died} \subseteq BOOLEAN
    BY <1>2
  <2>2. pc \in {"user", "entering", "prepared", "detaching", "syncing", "leaving"}
    BY <1>2
  <2>3. path \in Paths /\ MIN_CAPACITY \in Nat \ {0}
    BY <1>2, PathFacts
  <2>4. QED
    BY <1>3, <1>4, <2>1, <2>2, <2>3 DEF FlagsInv
<1>6. IsHeap(heap)
  <2>1. DOMAIN <<>> = {}
    OBVIOUS
  <2>2. QED
    BY <1>2, <2>1, FS_EmptySet DEF IsHeap
<1>7. HeapInv
  <2>1. <<>> \in Seq(Ids) /\ <<>> \in Seq(SpawnerTables) /\ NULL \in Ids
    BY EmptySeq DEF Ids
  <2>2. QED
    BY <1>2, <1>6, <2>1 DEF HeapInv
<1>8. QED
  BY <1>2, <1>5, <1>7 DEF Inv

\* The handlers that end the strand of a frame of its own.
LEMMA StrandSteps ==
  ASSUME Inv, NEW t \in StrandLengths,
         cilk_spawn_prepare(t) \/ cilk_detach_begin(t) \/ cilk_sync_begin(t)
  PROVE  Inv'
<1>1. t \in Nat
  BY SitesAreSites
<1>2. TOOL_INITIALIZED
  BY DEF cilk_spawn_prepare, cilk_detach_begin, cilk_sync_begin, Running
<1>3. CASE cilk_spawn_prepare(t)
  <2>1. EndStrand(t, "prepared") /\ Stage("spawning")
    BY <1>3 DEF cilk_spawn_prepare
  <2>2. QED
    BY <1>1, <1>2, <2>1, EndStrandKeepsInv
<1>4. CASE cilk_detach_begin(t)
  <2>1. EndStrand(t, "detaching") /\ UNCHANGED hist
    BY <1>4 DEF cilk_detach_begin
  <2>2. QED
    BY <1>1, <1>2, <2>1, EndStrandKeepsInv
<1>5. CASE cilk_sync_begin(t)
  <2>1. EndStrand(t, "syncing") /\ UNCHANGED hist
    BY <1>5 DEF cilk_sync_begin
  <2>2. QED
    BY <1>1, <1>2, <2>1, EndStrandKeepsInv
<1>6. QED
  BY <1>3, <1>4, <1>5

\* The handlers after which a strand begins.
LEMMA BackSteps ==
  ASSUME Inv, cilk_enter_end \/ cilk_spawn_or_continue \/ cilk_detach_end \/ cilk_leave_end
  PROVE  Inv'
<1>1. TOOL_INITIALIZED
  BY DEF Inv, FlagsInv, cilk_enter_end, cilk_spawn_or_continue, cilk_detach_end, cilk_leave_end
<1>2. BackInUserCode /\ (UNCHANGED hist \/ Stage("detached"))
  BY DEF cilk_enter_end, cilk_spawn_or_continue, cilk_detach_end, cilk_leave_end
<1>3. PICK ok : Asserting(ok)
  <2>1. Asserting(~in_user_code) \/ Asserting(AtHead /\ ~in_user_code)
    BY DEF cilk_enter_end, cilk_spawn_or_continue, cilk_detach_end, cilk_leave_end
  <2>2. QED
    BY <2>1
<1>4. QED
  BY <1>1, <1>2, <1>3, BackKeepsInv

LEMMA NextKeepsInv ==
  Inv /\ [Next]_vars => Inv'
<1>1. SUFFICES ASSUME Inv, [Next]_vars PROVE Inv'
  OBVIOUS
<1>2. CASE cilk_tool_c_function_enter_main
  BY <1>1, <1>2, EnterMainKeepsInv
<1>3. ASSUME NEW site \in Sites, cilk_enter_begin_first(site) PROVE Inv'
  BY <1>1, <1>3, EnterFirstKeepsInv
<1>4. ASSUME NEW site \in Sites, NEW t \in StrandLengths,
             \/ cilk_enter_begin(site, t) \/ cilk_enter_helper_begin(site, t)
             \/ cilk_tool_c_function_enter(site, t)
      PROVE  Inv'
  BY <1>1, <1>4, EnterSpawner, EnterHelper, EnterC
<1>5. ASSUME NEW t \in StrandLengths,
             \/ cilk_spawn_prepare(t) \/ cilk_detach_begin(t) \/ cilk_sync_begin(t)
             \/ cilk_tool_c_function_leave(t) \/ cilk_leave_begin_call(t)
      PROVE  Inv'
  BY <1>1, <1>5, StrandSteps, LeaveCKeepsInv, LeaveCallKeepsInv
<1>6. ASSUME NEW t \in LeavingLengths, cilk_leave_begin_spawn(t) PROVE Inv'
  BY <1>1, <1>6, LeaveSpawnKeepsInv
<1>7. CASE cilk_enter_end \/ cilk_spawn_or_continue \/ cilk_detach_end \/ cilk_leave_end
  BY <1>1, <1>7, BackSteps
<1>8. CASE cilk_sync_end
  BY <1>1, <1>8, SyncKeepsInv
<1>9. CASE cilk_tool_print
  BY <1>1, <1>9, PrintKeepsInv
<1>10. CASE cilk_tool_destroy
  BY <1>1, <1>10, DestroyKeepsInv
<1>11. CASE UNCHANGED vars
  <2>1. /\ UNCHANGED <<TOOL_INITIALIZED, TOOL_PRINTED, in_user_code, frames, c_stack>>
        /\ UNCHANGED <<c_stack_capacity, helper_sf_free_list, spawner_sf_free_list, heap, wrk_table>>
        /\ UNCHANGED <<call_site_table, function_table, cs_status, fn_status, MIN_CAPACITY>>
        /\ UNCHANGED <<died, pc, hist, keys, path>>
    BY <1>11 DEF vars, stackVars, tableVars, siteVars, histVars, toolVars
  <2>2. FlagsInv' = FlagsInv /\ HeapInv' = HeapInv
    BY <2>1 DEF FlagsInv, HeapInv
  <2>3. CStackInv' = CStackInv /\ FramesInv' = FramesInv
    BY <2>1 DEF CStackInv, FramesInv
  <2>4. QED
    BY <1>1, <2>1, <2>2, <2>3 DEF Inv
<1>12. QED
  BY <1>1, <1>2, <1>3, <1>4, <1>5, <1>6, <1>7, <1>8, <1>9, <1>10, <1>11 DEF Next

LEMMA AlwaysInv ==
  Spec => []Inv
BY InitInv, NextKeepsInv, PTL DEF Spec

LEMMA InvIsTyped ==
  Inv => TypeOK
<1>1. SUFFICES ASSUME Inv PROVE TypeOK
  OBVIOUS
<1>2. /\ {TOOL_INITIALIZED, TOOL_PRINTED, in_user_code, died} \subseteq BOOLEAN
      /\ pc \in {"user", "entering", "prepared", "detaching", "syncing", "leaving"}
      /\ DOMAIN heap \subseteq Nat /\ wrk_table \in Ids
  BY <1>1 DEF Inv, FlagsInv, HeapInv, IsHeap
<1>3. /\ \A i \in DOMAIN frames :
           /\ frames[i].func_type \in {"MAIN", "SPAWNER", "HELPER"}
           /\ frames[i].c_head \in 0 .. c_tail
      /\ Len(hist) = Len(frames) /\ Len(keys) = Len(c_stack)
      /\ Len(c_stack) <= c_stack_capacity
      /\ \A j \in DOMAIN c_stack : c_stack[j].cs_index \in DOMAIN cs_status
  <2>1. CASE TOOL_INITIALIZED
    <3>1. CStackInv /\ FramesInv
      BY <1>1, <2>1 DEF Inv
    <3>2. ASSUME NEW i \in DOMAIN frames
          PROVE  /\ frames[i].func_type \in {"MAIN", "SPAWNER", "HELPER"}
                 /\ frames[i].c_head \in 0 .. c_tail
      <4>1. frames \in Seq(Frame) /\ i \in 1 .. Len(frames)
        BY <3>1 DEF FramesInv, Piled
      <4>2. frames[i] \in Frame /\ frames[i].c_head \in 0 .. Len(c_stack) - 1
        BY <3>1, <4>1 DEF FramesInv, Piled
      <4>3. frames[i].func_type \in FrameKinds
        BY <4>2, FrameFacts
      <4>4. QED
        BY <4>2, <4>3 DEF FrameKinds, c_tail
    <3>3. \A j \in DOMAIN c_stack : c_stack[j].cs_index \in DOMAIN cs_status
      <4>1. PICK m \in Nat \ {0} : cs_status \in [0 .. m - 1 -> Status]
                                     /\ call_site_table.table_size <= m
        BY <3>1 DEF CStackInv, SitesTyped, IsVector
      <4>2. call_site_table.table_size \in Nat
        BY <3>1 DEF CStackInv, SitesTyped, IsIaddrTable, Shaped
      <4>3. \A j \in DOMAIN c_stack : c_stack[j].cs_index \in 0 .. call_site_table.table_size - 1
        BY <3>1 DEF CStackInv
      <4>4. DOMAIN cs_status = 0 .. m - 1
        BY <4>1
      <4>5. 0 .. call_site_table.table_size - 1 \subseteq 0 .. m - 1
        BY <4>1, <4>2
      <4>6. QED
        BY <4>3, <4>4, <4>5
    <3>4. QED
      BY <3>1, <3>2, <3>3 DEF CStackInv, FramesInv
  <2>2. CASE ~TOOL_INITIALIZED
    <3>1. /\ frames = <<>> /\ c_stack = <<>> /\ hist = <<>> /\ keys = <<>>
          /\ c_stack_capacity \in Nat
      BY <1>1, <2>2 DEF Inv, FlagsInv
    <3>2. DOMAIN frames = {} /\ DOMAIN c_stack = {} /\ Len(c_stack) = 0
      BY <3>1
    <3>3. QED
      BY <3>1, <3>2
  <2>3. QED
    BY <2>1, <2>2
<1>4. ASSUME NEW i \in DOMAIN cs_status, cs_status[i].c_tail # OFF_STACK
      PROVE  cs_status[i].fn_index \in DOMAIN fn_status
  <2>1. SitesTyped(call_site_table, function_table, cs_status, fn_status)
    BY <1>1 DEF Inv, FlagsInv
  <2>2. PICK n \in Nat, k \in Nat : n = call_site_table.table_size /\ k = function_table.table_size
    BY <2>1 DEF SitesTyped, IsIaddrTable, Shaped
  <2>3. PICK m \in Nat \ {0} : cs_status \in [0 .. m - 1 -> Status]
    BY <2>1 DEF SitesTyped, IsVector
  <2>4. PICK l \in Nat \ {0} : fn_status \in [0 .. l - 1 -> Nat \cup {OFF_STACK}] /\ k <= l
    BY <2>1, <2>2 DEF SitesTyped, IsVector
  <2>5. i \in Nat
    BY <2>3
  <2>6. i < n
    <3>1. i >= n => cs_status[i] = Off
      BY <2>1, <2>2 DEF SitesTyped
    <3>2. Off.c_tail = OFF_STACK
      BY DEF Off
    <3>3. QED
      BY <1>4, <2>2, <2>5, <3>1, <3>2
  <2>7. cs_status[i].fn_index \in 0 .. k - 1
    BY <2>1, <2>2, <2>6 DEF SitesTyped
  <2>8. DOMAIN fn_status = 0 .. l - 1
    BY <2>4
  <2>9. QED
    BY <2>2, <2>4, <2>7, <2>8
<1>5. QED
  BY <1>2, <1>3, <1>4 DEF TypeOK

LEMMA InvMatches ==
  Inv => StatusMatchesStack
<1>1. SUFFICES ASSUME Inv, TOOL_INITIALIZED PROVE StatusMatchesStack
  BY DEF StatusMatchesStack
<1>2. CStackInv
  BY <1>1 DEF Inv
<1>3. DOMAIN c_stack = 1 .. Len(c_stack)
  BY <1>2 DEF CStackInv
<1>4. {j \in DOMAIN c_stack : c_stack[j].rip # 0} = Real(c_stack)
  BY <1>3 DEF Real
<1>5. ASSUME NEW i \in DOMAIN cs_status
      PROVE  cs_status[i].c_tail = Outermost({j \in Real(c_stack) : c_stack[j].cs_index = i})
  BY <1>2 DEF CStackInv, StatusMatches, InstancesOf
<1>6. ASSUME NEW f \in DOMAIN fn_status
      PROVE  fn_status[f] =
               Outermost({j \in Real(c_stack) : cs_status[c_stack[j].cs_index].fn_index = f})
  BY <1>2 DEF CStackInv, StatusMatches, FnInstancesOf
<1>7. QED
  BY <1>4, <1>5, <1>6 DEF StatusMatchesStack, Outermost

-----------------------------------------------------------------------------
(***************************************************************************)
(* The tables frames own.                                                  *)
(***************************************************************************)
Places == {"prefix_table", "lchild_table", "contin_table"}

TableAt(f, place) == f[place]

LEMMA TablesAt ==
  ASSUME NEW f \in Frame
  PROVE  /\ TableAt(f, "prefix_table") = f.prefix_table
         /\ TableAt(f, "lchild_table") = f.lchild_table
         /\ TableAt(f, "contin_table") = f.contin_table
         /\ \A place \in Places : TableAt(f, place) \in Ids
<1>1. /\ TableAt(f, "prefix_table") = f.prefix_table
      /\ TableAt(f, "lchild_table") = f.lchild_table
      /\ TableAt(f, "contin_table") = f.contin_table
  BY DEF TableAt
<1>2. QED
  BY <1>1, FrameFacts DEF Places

\* The place whose table a frame lends to the Cilk function it calls.
LentPlace(f) == IF f.lchild_spn = 0 THEN "prefix_table" ELSE "contin_table"

\* Frame i owns the table in that place of its own.
Owns(frs, i, place) ==
  /\ i \in 1 .. Len(frs) /\ place \in Places /\ TableAt(frs[i], place) # NULL
  /\ ~(i < Len(frs) /\ frs[i + 1].func_type = "SPAWNER" /\ place = LentPlace(frs[i]))

\* What the first n frames own, and that they own each table once.
OwnedBy(frs, n) ==
  {id \in Ids : \E i \in 1 .. n, place \in Places : Owns(frs, i, place) /\ TableAt(frs[i], place) = id}

OwnedOnce(frs, n) ==
  \A i, j \in 1 .. n : \A p, q \in Places :
    Owns(frs, i, p) /\ Owns(frs, j, q) /\ TableAt(frs[i], p) = TableAt(frs[j], q) => i = j /\ p = q

\* The tables in some places of a frame, and that they are different ones.
TablesIn(f, places) == {TableAt(f, place) : place \in places} \ {NULL}
Different(f, places) ==
  \A p, q \in places : TableAt(f, p) = TableAt(f, q) /\ TableAt(f, p) # NULL => p = q

\* What frame k + 1 owns is added to what those below it own.
LEMMA OwnedSplit ==
  ASSUME NEW frs \in Seq(Frame), NEW k \in Nat, k + 1 <= Len(frs), NEW places, places \subseteq Places,
         \A place : Owns(frs, k + 1, place) <=> place \in places /\ TableAt(frs[k + 1], place) # NULL
  PROVE  /\ OwnedBy(frs, k + 1) = OwnedBy(frs, k) \cup TablesIn(frs[k + 1], places)
         /\ OwnedOnce(frs, k + 1) <=> /\ OwnedOnce(frs, k) /\ Different(frs[k + 1], places)
                                      /\ OwnedBy(frs, k) \cap TablesIn(frs[k + 1], places) = {}
<1>1. \A place : Owns(frs, k + 1, place) <=> place \in places /\ TableAt(frs[k + 1], place) # NULL
  OBVIOUS
<1>2. \A i \in 1 .. k + 1 : i \in 1 .. k \/ i = k + 1
  OBVIOUS
<1>3. \A i \in 1 .. k : i \in 1 .. k + 1 /\ i # k + 1
  OBVIOUS
<1>4. \A i \in 1 .. k + 1 : \A place \in Places : TableAt(frs[i], place) \in Ids
  <2>1. \A i \in 1 .. k + 1 : frs[i] \in Frame
    OBVIOUS
  <2>2. QED
    BY <2>1, TablesAt
<1>5. k + 1 \in 1 .. k + 1
  OBVIOUS
<1>6. \A id : id \in TablesIn(frs[k + 1], places) <=>
               \E place \in Places : Owns(frs, k + 1, place) /\ TableAt(frs[k + 1], place) = id
  BY <1>1 DEF TablesIn
<1>7. \A n, id : id \in OwnedBy(frs, n) <=>
                   id \in Ids /\ \E i \in 1 .. n, place \in Places :
                                    Owns(frs, i, place) /\ TableAt(frs[i], place) = id
  BY DEF OwnedBy
<1>8. OwnedBy(frs, k + 1) = OwnedBy(frs, k) \cup TablesIn(frs[k + 1], places)
  <2>1. ASSUME NEW id \in OwnedBy(frs, k + 1)
        PROVE  id \in OwnedBy(frs, k) \cup TablesIn(frs[k + 1], places)
    BY <1>2, <1>6, <1>7, <2>1
  <2>2. ASSUME NEW id \in OwnedBy(frs, k) PROVE id \in OwnedBy(frs, k + 1)
    BY <1>3, <1>7, <2>2
  <2>3. ASSUME NEW id \in TablesIn(frs[k + 1], places) PROVE id \in OwnedBy(frs, k + 1)
    BY <1>4, <1>5, <1>6, <1>7, <2>3
  <2>4. QED
    BY <2>1, <2>2, <2>3
<1>9. ASSUME OwnedOnce(frs, k + 1)
      PROVE  /\ OwnedOnce(frs, k) /\ Different(frs[k + 1], places)
             /\ OwnedBy(frs, k) \cap TablesIn(frs[k + 1], places) = {}
  <2>1. OwnedOnce(frs, k)
    BY <1>3, <1>9 DEF OwnedOnce
  <2>2. Different(frs[k + 1], places)
    BY <1>1, <1>5, <1>9 DEF OwnedOnce, Different
  <2>3. ASSUME NEW id \in OwnedBy(frs, k), id \in TablesIn(frs[k + 1], places) PROVE FALSE
    <3>1. PICK i \in 1 .. k, p \in Places : Owns(frs, i, p) /\ TableAt(frs[i], p) = id
      BY <1>7, <2>3
    <3>2. PICK q \in Places : Owns(frs, k + 1, q) /\ TableAt(frs[k + 1], q) = id
      BY <1>6, <2>3
    <3>3. i = k + 1
      BY <1>3, <1>5, <1>9, <3>1, <3>2 DEF OwnedOnce
    <3>4. QED
      BY <1>3, <3>3
  <2>4. QED
    BY <2>1, <2>2, <2>3
<1>10. ASSUME OwnedOnce(frs, k), Different(frs[k + 1], places),
              OwnedBy(frs, k) \cap TablesIn(frs[k + 1], places) = {}
       PROVE  OwnedOnce(frs, k + 1)
  <2>1. SUFFICES ASSUME NEW i \in 1 .. k + 1, NEW j \in 1 .. k + 1, NEW p \in Places, NEW q \in Places,
                        Owns(frs, i, p), Owns(frs, j, q), TableAt(frs[i], p) = TableAt(frs[j], q)
                 PROVE  i = j /\ p = q
    BY DEF OwnedOnce
  <2>2. CASE i \in 1 .. k /\ j \in 1 .. k
    BY <1>10, <2>1, <2>2 DEF OwnedOnce
  <2>3. CASE i = k + 1 /\ j = k + 1
    BY <1>1, <1>10, <2>1, <2>3 DEF Different
  <2>4. CASE i \in 1 .. k /\ j = k + 1
    BY <1>4, <1>6, <1>7, <1>10, <2>1, <2>4
  <2>5. CASE i = k + 1 /\ j \in 1 .. k
    BY <1>4, <1>6, <1>7, <1>10, <2>1, <2>5
  <2>6. QED
    BY <1>2, <2>2, <2>3, <2>4, <2>5
<1>11. QED
  BY <1>8, <1>9, <1>10

\* A frame owns all its tables, but the one it has lent to a Cilk function.
LEMMA OwnedPlaces ==
  ASSUME NEW frs \in Seq(Frame), NEW k \in Nat, k + 1 <= Len(frs), NEW places,
         places = IF k + 1 < Len(frs) /\ frs[k + 2].func_type = "SPAWNER"
                  THEN Places \ {LentPlace(frs[k + 1])} ELSE Places
  PROVE  /\ OwnedBy(frs, k + 1) = OwnedBy(frs, k) \cup TablesIn(frs[k + 1], places)
         /\ OwnedOnce(frs, k + 1) <=> /\ OwnedOnce(frs, k) /\ Different(frs[k + 1], places)
                                      /\ OwnedBy(frs, k) \cap TablesIn(frs[k + 1], places) = {}
<1>1. k + 1 \in 1 .. Len(frs) /\ (k + 1) + 1 = k + 2
  OBVIOUS
<1>2. \A place : Owns(frs, k + 1, place) <=> place \in places /\ TableAt(frs[k + 1], place) # NULL
  BY <1>1, Zenon DEF Owns
<1>3. places \subseteq Places
  OBVIOUS
<1>4. QED
  BY <1>2, <1>3, OwnedSplit

\* What the frames below own depends on them and on the kind of the frame
\* above them.
LEMMA OwnedSame ==
  ASSUME NEW frs \in Seq(Frame), NEW new \in Seq(Frame), NEW k \in Nat,
         k <= Len(frs), k <= Len(new), \A i \in 1 .. k : new[i] = frs[i],
         (k < Len(frs) /\ frs[k + 1].func_type = "SPAWNER")
           <=> (k < Len(new) /\ new[k + 1].func_type = "SPAWNER")
  PROVE  OwnedBy(new, k) = OwnedBy(frs, k) /\ (OwnedOnce(new, k) <=> OwnedOnce(frs, k))
<1>1. ASSUME NEW i \in 1 .. k, NEW place PROVE Owns(new, i, place) <=> Owns(frs, i, place)
  <2>1. i \in 1 .. Len(frs) /\ i \in 1 .. Len(new) /\ Len(frs) \in Nat /\ Len(new) \in Nat
    OBVIOUS
  <2>2. new[i] = frs[i]
    OBVIOUS
  <2>3. (i < Len(frs) /\ frs[i + 1].func_type = "SPAWNER")
          <=> (i < Len(new) /\ new[i + 1].func_type = "SPAWNER")
    <3>1. CASE i = k
      BY <3>1
    <3>2. CASE i < k
      <4>1. i + 1 \in 1 .. k /\ i < Len(frs) /\ i < Len(new)
        BY <2>1, <3>2
      <4>2. QED
        BY <4>1
    <3>3. QED
      BY <3>1, <3>2
  <2>4. QED
    BY <2>1, <2>2, <2>3, Zenon DEF Owns
<1>2. \A i \in 1 .. k : new[i] = frs[i]
  OBVIOUS
<1>3. OwnedBy(new, k) = OwnedBy(frs, k)
  BY <1>1, <1>2 DEF OwnedBy
<1>4. OwnedOnce(new, k) <=> OwnedOnce(frs, k)
  BY <1>1, <1>2 DEF OwnedOnce
<1>5. QED
  BY <1>3, <1>4

\* The frame on top is replaced by one of the same kind.
LEMMA OwnedReplace ==
  ASSUME NEW frs \in Seq(Frame), NEW new \in Seq(Frame), NEW k \in Nat,
         k + 1 <= Len(frs), Len(new) = k + 1, \A i \in 1 .. k : new[i] = frs[i],
         new[k + 1].func_type = frs[k + 1].func_type
  PROVE  /\ OwnedBy(new, k + 1) = OwnedBy(frs, k) \cup TablesIn(new[k + 1], Places)
         /\ OwnedOnce(new, k + 1) <=>
              /\ OwnedOnce(frs, k) /\ Different(new[k + 1], Places)
              /\ OwnedBy(frs, k) \cap TablesIn(new[k + 1], Places) = {}
<1>1. OwnedBy(new, k) = OwnedBy(frs, k) /\ (OwnedOnce(new, k) <=> OwnedOnce(frs, k))
  <2>1. k <= Len(frs) /\ k <= Len(new) /\ k < Len(frs) /\ k < Len(new)
    OBVIOUS
  <2>2. QED
    BY <2>1, OwnedSame
<1>2. PICK places :
        /\ places = IF k + 1 < Len(new) /\ new[k + 2].func_type = "SPAWNER"
                    THEN Places \ {LentPlace(new[k + 1])} ELSE Places
        /\ places = Places
  OBVIOUS
<1>3. k + 1 <= Len(new)
  OBVIOUS
<1>4. /\ OwnedBy(new, k + 1) = OwnedBy(new, k) \cup TablesIn(new[k + 1], places)
      /\ OwnedOnce(new, k + 1) <=> /\ OwnedOnce(new, k) /\ Different(new[k + 1], places)
                                   /\ OwnedBy(new, k) \cap TablesIn(new[k + 1], places) = {}
  BY ONLY <1>2, <1>3, new \in Seq(Frame), OwnedPlaces
<1>5. QED
  BY <1>1, <1>2, <1>4

\* A frame is pushed on one that lends it nothing, or that lends it its prefix.
LEMMA OwnedPush ==
  ASSUME NEW frs \in Seq(Frame), NEW k \in Nat, Len(frs) = k + 1, OwnedOnce(frs, k + 1),
         NEW f \in Frame, NEW mine, mine \subseteq Places,
         \/ f.func_type # "SPAWNER" /\ mine = Places
         \/ /\ f.func_type = "SPAWNER" /\ mine = {"lchild_table", "contin_table"}
            /\ TableAt(f, "prefix_table") = TableAt(frs[k + 1], LentPlace(frs[k + 1])),
         Different(f, mine), OwnedBy(frs, k + 1) \cap TablesIn(f, mine) = {}
  PROVE  /\ OwnedBy(Append(frs, f), k + 2) = OwnedBy(frs, k + 1) \cup TablesIn(f, mine)
         /\ OwnedOnce(Append(frs, f), k + 2)
<1>1. PICK new, lent : new = Append(frs, f) /\ lent = LentPlace(frs[k + 1])
  OBVIOUS
<1>2. /\ new \in Seq(Frame) /\ Len(new) = k + 2 /\ new[k + 2] = f
      /\ \A i \in 1 .. k + 1 : new[i] = frs[i]
  BY <1>1
<1>3. (k + 1) + 1 = k + 2 /\ k + 1 \in Nat /\ k + 1 <= Len(new) /\ k + 2 <= Len(new) /\ k + 1 < Len(new)
        /\ ~(k + 2 < Len(new)) /\ ~(k + 1 < Len(frs)) /\ k + 1 <= Len(frs)
  BY <1>2
<1>4. /\ OwnedBy(new, k + 2) = OwnedBy(new, k + 1) \cup TablesIn(f, Places)
      /\ OwnedOnce(new, k + 2) <=> /\ OwnedOnce(new, k + 1) /\ Different(f, Places)
                                   /\ OwnedBy(new, k + 1) \cap TablesIn(f, Places) = {}
  <2>1. PICK m \in Nat : m = k + 1 /\ m + 1 = k + 2 /\ m + 1 <= Len(new) /\ ~(m + 1 < Len(new))
    BY <1>3
  <2>2. /\ OwnedBy(new, m + 1) = OwnedBy(new, m) \cup TablesIn(new[m + 1], Places)
        /\ OwnedOnce(new, m + 1) <=> /\ OwnedOnce(new, m) /\ Different(new[m + 1], Places)
                                     /\ OwnedBy(new, m) \cap TablesIn(new[m + 1], Places) = {}
    BY <1>2, <2>1, OwnedPlaces
  <2>3. QED
    BY <1>2, <2>1, <2>2
<1>5. CASE f.func_type # "SPAWNER" /\ mine = Places
  <2>1. OwnedBy(new, k + 1) = OwnedBy(frs, k + 1) /\ OwnedOnce(new, k + 1)
    BY <1>2, <1>3, <1>5, OwnedSame
  <2>2. QED
    BY <1>4, <1>5, <1>1, <2>1
<1>6. CASE f.func_type = "SPAWNER" /\ TableAt(f, "prefix_table") = TableAt(frs[k + 1], lent)
             /\ mine = {"lchild_table", "contin_table"}
  <2>1. OwnedBy(new, k) = OwnedBy(frs, k) /\ (OwnedOnce(new, k) <=> OwnedOnce(frs, k))
    <3>1. k <= Len(frs) /\ k <= Len(new) /\ k < Len(frs) /\ k < Len(new) /\ new[k + 1] = frs[k + 1]
      BY <1>2
    <3>2. \A i \in 1 .. k : new[i] = frs[i]
      BY <1>2
    <3>3. QED
      BY <1>2, <3>1, <3>2, OwnedSame
  <2>2. /\ OwnedBy(frs, k + 1) = OwnedBy(frs, k) \cup TablesIn(frs[k + 1], Places)
        /\ OwnedOnce(frs, k) /\ Different(frs[k + 1], Places)
        /\ OwnedBy(frs, k) \cap TablesIn(frs[k + 1], Places) = {}
    BY <1>3, OwnedPlaces
  <2>3. new[k + 1] = frs[k + 1]
    BY <1>2
  <2>4. PICK kept : kept = Places \ {lent}
    OBVIOUS
  <2>5. /\ OwnedBy(new, k + 1) = OwnedBy(frs, k) \cup TablesIn(frs[k + 1], kept)
        /\ OwnedOnce(new, k + 1) <=> /\ OwnedOnce(frs, k) /\ Different(frs[k + 1], kept)
                                     /\ OwnedBy(frs, k) \cap TablesIn(frs[k + 1], kept) = {}
    <3>1. kept = IF k + 1 < Len(new) /\ new[k + 2].func_type = "SPAWNER"
                 THEN Places \ {LentPlace(new[k + 1])} ELSE Places
      BY <1>2, <1>3, <1>6, <1>1, <2>3, <2>4
    <3>2. /\ OwnedBy(new, k + 1) = OwnedBy(new, k) \cup TablesIn(new[k + 1], kept)
          /\ OwnedOnce(new, k + 1) <=> /\ OwnedOnce(new, k) /\ Different(new[k + 1], kept)
                                       /\ OwnedBy(new, k) \cap TablesIn(new[k + 1], kept) = {}
      <4>1. new \in Seq(Frame) /\ k + 1 <= Len(new)
        BY <1>2, <1>3
      <4>2. QED
        BY ONLY <3>1, <4>1, OwnedPlaces
    <3>3. QED
      BY <2>1, <2>3, <3>2
  <2>6. lent \in Places
    BY <1>1 DEF LentPlace, Places
  <2>7. /\ TablesIn(frs[k + 1], kept) \subseteq TablesIn(frs[k + 1], Places)
        /\ Different(frs[k + 1], kept)
    BY <2>2, <2>4 DEF TablesIn, Different
  <2>8. OwnedOnce(new, k + 1)
    BY <2>2, <2>5, <2>7
  <2>9. PICK p : p = TableAt(frs[k + 1], lent) /\ p = TableAt(f, "prefix_table")
    BY <1>6, <1>1
  <2>10. /\ TablesIn(frs[k + 1], Places) = TablesIn(frs[k + 1], kept) \cup ({p} \ {NULL})
         /\ p \notin TablesIn(frs[k + 1], kept)
    <3>1. Places = kept \cup {lent} /\ lent \notin kept
      BY <2>4, <2>6
    <3>2. TablesIn(frs[k + 1], Places) = TablesIn(frs[k + 1], kept) \cup ({p} \ {NULL})
      BY <2>9, <3>1 DEF TablesIn
    <3>3. p # NULL => \A q \in kept : TableAt(frs[k + 1], q) # p
      BY <2>2, <2>9, <3>1 DEF Different
    <3>4. QED
      BY <3>2, <3>3 DEF TablesIn
  <2>11. TablesIn(f, Places) = TablesIn(f, mine) \cup ({p} \ {NULL})
    BY <1>6, <2>9 DEF TablesIn, Places
  <2>12. p \notin TablesIn(f, mine)
    <3>1. p # NULL => p \in OwnedBy(frs, k + 1)
      BY <2>2, <2>10
    <3>2. NULL \notin TablesIn(f, mine)
      BY DEF TablesIn
    <3>3. QED
      BY <3>1, <3>2
  <2>13. Different(f, Places)
    <3>1. \A q \in mine : TableAt(f, q) # NULL => TableAt(f, q) # p
      BY <2>12 DEF TablesIn
    <3>2. Places = mine \cup {"prefix_table"}
      BY <1>6 DEF Places
    <3>3. QED
      BY <2>9, <3>1, <3>2 DEF Different
  <2>14. OwnedBy(new, k + 1) \cap TablesIn(f, Places) = {}
    <3>1. p \notin OwnedBy(frs, k) \/ p = NULL
      BY <2>2, <2>10
    <3>2. OwnedBy(new, k + 1) \subseteq OwnedBy(frs, k + 1)
      BY <2>2, <2>5, <2>7
    <3>3. QED
      BY <2>5, <2>10, <2>11, <3>1, <3>2
  <2>15. OwnedBy(new, k + 2) = OwnedBy(frs, k + 1) \cup TablesIn(f, mine)
    BY <1>4, <2>2, <2>5, <2>10, <2>11
  <2>16. QED
    BY <1>4, <1>1, <2>8, <2>13, <2>14, <2>15
<1>7. QED
  BY <1>5, <1>6, <1>1

\* The frame on top is popped, and the one below it gets its table back.
LEMMA OwnedReturn ==
  ASSUME NEW frs \in Seq(Frame), NEW k \in Nat, Len(frs) = k + 2, OwnedOnce(frs, k + 1),
         frs[k + 2].func_type = "SPAWNER",
         NEW new \in Seq(Frame), Len(new) = k + 1, \A i \in 1 .. k : new[i] = frs[i],
         new[k + 1].func_type = frs[k + 1].func_type,
         NEW lent, lent = LentPlace(frs[k + 1]), NEW id \in Nat, TableAt(new[k + 1], lent) = id,
         \A place \in Places \ {lent} : TableAt(new[k + 1], place) = TableAt(frs[k + 1], place),
         id \notin OwnedBy(frs, k + 1), NULL \notin Nat
  PROVE  OwnedBy(new, k + 1) = OwnedBy(frs, k + 1) \cup {id} /\ OwnedOnce(new, k + 1)
<1>1. PICK kept : kept = Places \ {lent}
  OBVIOUS
<1>2. (k + 1) + 1 = k + 2 /\ k + 1 <= Len(frs) /\ k + 1 < Len(frs)
  OBVIOUS
<1>3. /\ OwnedBy(frs, k + 1) = OwnedBy(frs, k) \cup TablesIn(frs[k + 1], kept)
      /\ OwnedOnce(frs, k) /\ Different(frs[k + 1], kept)
      /\ OwnedBy(frs, k) \cap TablesIn(frs[k + 1], kept) = {}
  BY <1>1, <1>2, OwnedPlaces
<1>4. /\ OwnedBy(new, k + 1) = OwnedBy(frs, k) \cup TablesIn(new[k + 1], Places)
      /\ OwnedOnce(new, k + 1) <=>
           /\ OwnedOnce(frs, k) /\ Different(new[k + 1], Places)
           /\ OwnedBy(frs, k) \cap TablesIn(new[k + 1], Places) = {}
  BY <1>2, OwnedReplace
<1>5. lent \in Places
  BY DEF LentPlace, Places
<1>6. TablesIn(new[k + 1], Places) = TablesIn(frs[k + 1], kept) \cup {id}
  BY <1>1, <1>5 DEF TablesIn
<1>7. \A place \in kept : TableAt(frs[k + 1], place) # NULL => TableAt(frs[k + 1], place) # id
  BY <1>3 DEF TablesIn
<1>8. Different(new[k + 1], Places)
  BY <1>1, <1>3, <1>5, <1>7 DEF Different
<1>9. QED
  BY <1>3, <1>4, <1>6, <1>8

(***************************************************************************)
(* The tables kept on the free lists.                                      *)
(***************************************************************************)
HelpersHeld(q) == {q[i] : i \in 1 .. Len(q)}
HelpersOnce(q) == \A i, j \in 1 .. Len(q) : q[i] = q[j] => i = j

SpawnersHeld(q) == {q[i].lchild : i \in 1 .. Len(q)} \cup {q[i].contin : i \in 1 .. Len(q)}
SpawnersOnce(q) ==
  \A i, j \in 1 .. Len(q) : /\ q[i].lchild = q[j].lchild \/ q[i].contin = q[j].contin => i = j
                            /\ q[i].lchild # q[j].contin

LEMMA ConsAt ==
  ASSUME NEW S, NEW q \in Seq(S), NEW x \in S, NEW new, new = <<x>> \o q
  PROVE  /\ new \in Seq(S) /\ Len(new) = Len(q) + 1 /\ new[1] = x
         /\ \A i \in 1 .. Len(q) : i + 1 \in 1 .. Len(new) /\ new[i + 1] = q[i]
         /\ \A i \in 1 .. Len(new) : i # 1 => i - 1 \in 1 .. Len(q) /\ new[i] = q[i - 1]
<1>1. <<x>> \in Seq(S) /\ Len(<<x>>) = 1 /\ <<x>>[1] = x
  OBVIOUS
<1>2. PICK n \in Nat : n = Len(q)
  OBVIOUS
<1>3. new \in Seq(S) /\ Len(new) = n + 1
  BY <1>1, <1>2, ConcatProperties
<1>4. \A i \in 1 .. n + 1 : new[i] = IF i <= 1 THEN x ELSE q[i - 1]
  BY <1>1, <1>2, <1>3, ConcatProperties
<1>5. new[1] = x /\ \A i \in 1 .. n : i + 1 \in 1 .. n + 1 /\ new[i + 1] = q[i]
  <2>1. \A i \in 1 .. n : i + 1 \in 1 .. n + 1 /\ ~(i + 1 <= 1) /\ (i + 1) - 1 = i
    OBVIOUS
  <2>2. 1 \in 1 .. n + 1 /\ 1 <= 1
    OBVIOUS
  <2>3. QED
    BY <1>4, <2>1, <2>2
<1>6. \A i \in 1 .. n + 1 : i # 1 => i - 1 \in 1 .. n /\ new[i] = q[i - 1]
  <2>1. \A i \in 1 .. n + 1 : i # 1 => i - 1 \in 1 .. n /\ ~(i <= 1)
    OBVIOUS
  <2>2. QED
    BY <1>4, <2>1
<1>7. QED
  BY <1>2, <1>3, <1>5, <1>6

LEMMA TailAt ==
  ASSUME NEW S, NEW q \in Seq(S), q # <<>>
  PROVE  /\ Tail(q) \in Seq(S) /\ Len(Tail(q)) = Len(q) - 1 /\ Head(q) = q[1] /\ 1 \in 1 .. Len(q)
         /\ \A i \in 1 .. Len(Tail(q)) : i + 1 \in 1 .. Len(q) /\ i + 1 # 1 /\ Tail(q)[i] = q[i + 1]
         /\ \A i \in 1 .. Len(q) : i # 1 => i - 1 \in 1 .. Len(Tail(q)) /\ q[i] = Tail(q)[i - 1]
<1>1. Tail(q) \in Seq(S) /\ Len(Tail(q)) = Len(q) - 1 /\ Len(q) \in Nat \ {0} /\ Head(q) = q[1]
  OBVIOUS
<1>2. PICK n \in Nat : n + 1 = Len(q) /\ Len(Tail(q)) = n
  <2>1. Len(q) - 1 \in Nat /\ (Len(q) - 1) + 1 = Len(q)
    BY <1>1
  <2>2. QED
    BY <1>1, <2>1
<1>3. \A i \in 1 .. n : Tail(q)[i] = q[i + 1]
  BY <1>2
<1>4. /\ \A i \in 1 .. n : i + 1 \in 1 .. n + 1 /\ i + 1 # 1
      /\ \A i \in 1 .. n + 1 : i # 1 => i - 1 \in 1 .. n /\ (i - 1) + 1 = i
      /\ 1 \in 1 .. n + 1
  OBVIOUS
<1>5. \A i \in 1 .. n + 1 : i # 1 => i - 1 \in 1 .. n /\ q[i] = Tail(q)[i - 1]
  BY <1>3, <1>4
<1>6. QED
  BY <1>1, <1>2, <1>3, <1>4, <1>5

LEMMA HelpersPush ==
  ASSUME NEW S, NEW q \in Seq(S), NEW x \in S, NEW new, new = <<x>> \o q,
         HelpersOnce(q), x \notin HelpersHeld(q)
  PROVE  HelpersHeld(new) = HelpersHeld(q) \cup {x} /\ HelpersOnce(new)
<1>1. PICK n \in Nat : n = Len(q)
  OBVIOUS
<1>2. /\ Len(new) = n + 1 /\ new[1] = x
      /\ \A i \in 1 .. n : i + 1 \in 1 .. n + 1 /\ new[i + 1] = q[i]
      /\ \A i \in 1 .. n + 1 : i # 1 => i - 1 \in 1 .. n /\ new[i] = q[i - 1]
  BY <1>1, ConsAt
<1>3. HelpersHeld(new) = HelpersHeld(q) \cup {x}
  <2>1. \A y : y \in HelpersHeld(new) <=> \E i \in 1 .. n + 1 : y = new[i]
    BY <1>2 DEF HelpersHeld
  <2>2. \A y : y \in HelpersHeld(q) <=> \E i \in 1 .. n : y = q[i]
    BY <1>1 DEF HelpersHeld
  <2>3. 1 \in 1 .. n + 1
    OBVIOUS
  <2>4. ASSUME NEW y \in HelpersHeld(new) PROVE y \in HelpersHeld(q) \cup {x}
    <3>1. PICK i \in 1 .. n + 1 : y = new[i]
      BY <2>1, <2>4
    <3>2. CASE i = 1
      BY <1>2, <3>1, <3>2
    <3>3. CASE i # 1
      <4>1. i - 1 \in 1 .. n /\ y = q[i - 1]
        BY <1>2, <3>1, <3>3
      <4>2. QED
        BY <2>2, <4>1
    <3>4. QED
      BY <3>2, <3>3
  <2>5. ASSUME NEW y \in HelpersHeld(q) PROVE y \in HelpersHeld(new)
    <3>1. PICK i \in 1 .. n : y = q[i]
      BY <2>2, <2>5
    <3>2. i + 1 \in 1 .. n + 1 /\ y = new[i + 1]
      BY <1>2, <3>1
    <3>3. QED
      BY <2>1, <3>2
  <2>6. x \in HelpersHeld(new)
    BY <1>2, <2>1, <2>3
  <2>7. QED
    BY <2>4, <2>5, <2>6
<1>4. \A i \in 1 .. n : q[i] # x
  BY <1>1 DEF HelpersHeld
<1>5. \A i, j \in 1 .. n : q[i] = q[j] => i = j
  BY <1>1 DEF HelpersOnce
<1>6. HelpersOnce(new)
  <2>1. SUFFICES ASSUME NEW i \in 1 .. n + 1, NEW j \in 1 .. n + 1, new[i] = new[j] PROVE i = j
    BY <1>2 DEF HelpersOnce
  <2>2. CASE i = 1 \/ j = 1
    BY <1>2, <1>4, <2>1, <2>2
  <2>3. CASE i # 1 /\ j # 1
    <3>1. i - 1 = j - 1
      BY <1>2, <1>5, <2>1, <2>3
    <3>2. QED
      BY <3>1
  <2>4. QED
    BY <2>2, <2>3
<1>7. QED
  BY <1>3, <1>6

LEMMA HelpersPop ==
  ASSUME NEW S, NEW q \in Seq(S), q # <<>>, HelpersOnce(q)
  PROVE  /\ HelpersHeld(q) = HelpersHeld(Tail(q)) \cup {Head(q)}
         /\ Head(q) \notin HelpersHeld(Tail(q)) /\ HelpersOnce(Tail(q))
<1>1. PICK n \in Nat : n = Len(Tail(q)) /\ Len(q) = n + 1
  <2>1. Len(q) \in Nat \ {0} /\ Len(Tail(q)) = Len(q) - 1
    BY TailAt
  <2>2. Len(q) - 1 \in Nat /\ (Len(q) - 1) + 1 = Len(q)
    BY <2>1
  <2>3. QED
    BY <2>1, <2>2
<1>2. /\ Head(q) = q[1]
      /\ \A i \in 1 .. n : i + 1 \in 1 .. n + 1 /\ i + 1 # 1 /\ Tail(q)[i] = q[i + 1]
      /\ \A i \in 1 .. n + 1 : i # 1 => i - 1 \in 1 .. n /\ q[i] = Tail(q)[i - 1]
  BY <1>1, TailAt
<1>3. \A i, j \in 1 .. n + 1 : q[i] = q[j] => i = j
  BY <1>1 DEF HelpersOnce
<1>4. /\ \A y : y \in HelpersHeld(q) <=> \E i \in 1 .. n + 1 : y = q[i]
      /\ \A y : y \in HelpersHeld(Tail(q)) <=> \E i \in 1 .. n : y = Tail(q)[i]
  BY <1>1 DEF HelpersHeld
<1>5. 1 \in 1 .. n + 1
  OBVIOUS
<1>6. HelpersHeld(q) = HelpersHeld(Tail(q)) \cup {Head(q)}
  <2>1. ASSUME NEW y \in HelpersHeld(q) PROVE y \in HelpersHeld(Tail(q)) \cup {Head(q)}
    <3>1. PICK i \in 1 .. n + 1 : y = q[i]
      BY <1>4, <2>1
    <3>2. CASE i = 1
      BY <1>2, <3>1, <3>2
    <3>3. CASE i # 1
      <4>1. i - 1 \in 1 .. n /\ y = Tail(q)[i - 1]
        BY <1>2, <3>1, <3>3
      <4>2. QED
        BY <1>4, <4>1
    <3>4. QED
      BY <3>2, <3>3
  <2>2. ASSUME NEW y \in HelpersHeld(Tail(q)) PROVE y \in HelpersHeld(q)
    <3>1. PICK i \in 1 .. n : y = Tail(q)[i]
      BY <1>4, <2>2
    <3>2. i + 1 \in 1 .. n + 1 /\ y = q[i + 1]
      BY <1>2, <3>1
    <3>3. QED
      BY <1>4, <3>2
  <2>3. Head(q) \in HelpersHeld(q)
    BY <1>2, <1>4, <1>5
  <2>4. QED
    BY <2>1, <2>2, <2>3
<1>7. Head(q) \notin HelpersHeld(Tail(q))
  <2>1. SUFFICES ASSUME Head(q) \in HelpersHeld(Tail(q)) PROVE FALSE
    OBVIOUS
  <2>2. PICK i \in 1 .. n : Head(q) = Tail(q)[i]
    BY <1>4, <2>1
  <2>3. i + 1 \in 1 .. n + 1 /\ i + 1 # 1 /\ q[1] = q[i + 1]
    BY <1>2, <2>2
  <2>4. QED
    BY <1>3, <1>5, <2>3
<1>8. HelpersOnce(Tail(q))
  <2>1. SUFFICES ASSUME NEW i \in 1 .. n, NEW j \in 1 .. n, Tail(q)[i] = Tail(q)[j] PROVE i = j
    BY <1>1 DEF HelpersOnce
  <2>2. i + 1 = j + 1
    <3>1. q[i + 1] = q[j + 1] /\ i + 1 \in 1 .. n + 1 /\ j + 1 \in 1 .. n + 1
      BY <1>2, <2>1
    <3>2. QED
      BY <1>3, <3>1
  <2>3. QED
    BY <2>2
<1>9. QED
  BY <1>6, <1>7, <1>8

LEMMA SpawnersPush ==
  ASSUME NEW S, NEW q \in Seq(S), NEW x \in S, NEW new, new = <<x>> \o q,
         SpawnersOnce(q), x.lchild # x.contin,
         x.lchild \notin SpawnersHeld(q), x.contin \notin SpawnersHeld(q)
  PROVE  SpawnersHeld(new) = SpawnersHeld(q) \cup {x.lchild, x.contin} /\ SpawnersOnce(new)
<1>1. PICK n \in Nat : n = Len(q)
  OBVIOUS
<1>2. /\ Len(new) = n + 1 /\ new[1] = x
      /\ \A i \in 1 .. n : i + 1 \in 1 .. n + 1 /\ new[i + 1] = q[i]
      /\ \A i \in 1 .. n + 1 : i # 1 => i - 1 \in 1 .. n /\ new[i] = q[i - 1]
  BY <1>1, ConsAt
<1>3. /\ \A y : y \in SpawnersHeld(new) <=> \E i \in 1 .. n + 1 : y = new[i].lchild \/ y = new[i].contin
      /\ \A y : y \in SpawnersHeld(q) <=> \E i \in 1 .. n : y = q[i].lchild \/ y = q[i].contin
  BY <1>1, <1>2 DEF SpawnersHeld
<1>4. SpawnersHeld(new) = SpawnersHeld(q) \cup {x.lchild, x.contin}
  <2>1. 1 \in 1 .. n + 1
    OBVIOUS
  <2>2. ASSUME NEW y \in SpawnersHeld(new) PROVE y \in SpawnersHeld(q) \cup {x.lchild, x.contin}
    <3>1. PICK i \in 1 .. n + 1 : y = new[i].lchild \/ y = new[i].contin
      BY <1>3, <2>2
    <3>2. CASE i = 1
      BY <1>2, <3>1, <3>2
    <3>3. CASE i # 1
      BY <1>2, <1>3, <3>1, <3>3
    <3>4. QED
      BY <3>2, <3>3
  <2>3. ASSUME NEW y \in SpawnersHeld(q) PROVE y \in SpawnersHeld(new)
    <3>1. PICK i \in 1 .. n : y = q[i].lchild \/ y = q[i].contin
      BY <1>3, <2>3
    <3>2. i + 1 \in 1 .. n + 1 /\ (y = new[i + 1].lchild \/ y = new[i + 1].contin)
      BY <1>2, <3>1
    <3>3. QED
      BY <1>3, <3>2
  <2>4. x.lchild \in SpawnersHeld(new) /\ x.contin \in SpawnersHeld(new)
    BY <1>2, <1>3, <2>1
  <2>5. QED
    BY <2>2, <2>3, <2>4
<1>5. \A i \in 1 .. n : /\ q[i].lchild # x.lchild /\ q[i].lchild # x.contin
                        /\ q[i].contin # x.lchild /\ q[i].contin # x.contin
  BY <1>3
<1>6. \A i, j \in 1 .. n : /\ q[i].lchild = q[j].lchild \/ q[i].contin = q[j].contin => i = j
                           /\ q[i].lchild # q[j].contin
  BY <1>1 DEF SpawnersOnce
<1>7. SpawnersOnce(new)
  <2>1. ASSUME NEW i \in 1 .. n + 1, NEW j \in 1 .. n + 1
        PROVE  /\ new[i].lchild = new[j].lchild \/ new[i].contin = new[j].contin => i = j
               /\ new[i].lchild # new[j].contin
    <3>1. CASE i = 1 /\ j = 1
      BY <1>2, <3>1
    <3>2. CASE i = 1 /\ j # 1
      BY <1>2, <1>5, <3>2
    <3>3. CASE i # 1 /\ j = 1
      BY <1>2, <1>5, <3>3
    <3>4. CASE i # 1 /\ j # 1
      <4>1. i - 1 = j - 1 => i = j
        OBVIOUS
      <4>2. i - 1 \in 1 .. n /\ j - 1 \in 1 .. n /\ new[i] = q[i - 1] /\ new[j] = q[j - 1]
        BY <1>2, <3>4
      <4>3. QED
        BY <1>6, <4>1, <4>2
    <3>5. QED
      BY <3>1, <3>2, <3>3, <3>4
  <2>2. Len(new) = n + 1
    BY <1>2
  <2>3. QED
    BY <2>1, <2>2 DEF SpawnersOnce
<1>8. QED
  BY <1>4, <1>7

LEMMA SpawnersPop ==
  ASSUME NEW S, NEW q \in Seq(S), q # <<>>, SpawnersOnce(q)
  PROVE  /\ SpawnersHeld(q) = SpawnersHeld(Tail(q)) \cup {Head(q).lchild, Head(q).contin}
         /\ Head(q).lchild \notin SpawnersHeld(Tail(q)) /\ Head(q).contin \notin SpawnersHeld(Tail(q))
         /\ Head(q).lchild # Head(q).contin /\ SpawnersOnce(Tail(q))
<1>1. PICK n \in Nat : n = Len(Tail(q)) /\ Len(q) = n + 1
  <2>1. Len(q) \in Nat \ {0} /\ Len(Tail(q)) = Len(q) - 1
    BY TailAt
  <2>2. Len(q) - 1 \in Nat /\ (Len(q) - 1) + 1 = Len(q)
    BY <2>1
  <2>3. QED
    BY <2>1, <2>2
<1>2. /\ Head(q) = q[1]
      /\ \A i \in 1 .. n : i + 1 \in 1 .. n + 1 /\ i + 1 # 1 /\ Tail(q)[i] = q[i + 1]
      /\ \A i \in 1 .. n + 1 : i # 1 => i - 1 \in 1 .. n /\ q[i] = Tail(q)[i - 1]
  BY <1>1, TailAt
<1>3. \A i, j \in 1 .. n + 1 : /\ q[i].lchild = q[j].lchild \/ q[i].contin = q[j].contin => i = j
                               /\ q[i].lchild # q[j].contin
  BY <1>1 DEF SpawnersOnce
<1>4. /\ \A y : y \in SpawnersHeld(q) <=> \E i \in 1 .. n + 1 : y = q[i].lchild \/ y = q[i].contin
      /\ \A y : y \in SpawnersHeld(Tail(q))
                  <=> \E i \in 1 .. n : y = Tail(q)[i].lchild \/ y = Tail(q)[i].contin
  BY <1>1 DEF SpawnersHeld
<1>5. 1 \in 1 .. n + 1
  OBVIOUS
<1>6. SpawnersHeld(q) = SpawnersHeld(Tail(q)) \cup {Head(q).lchild, Head(q).contin}
  <2>1. ASSUME NEW y \in SpawnersHeld(q)
        PROVE  y \in SpawnersHeld(Tail(q)) \cup {Head(q).lchild, Head(q).contin}
    <3>1. PICK i \in 1 .. n + 1 : y = q[i].lchild \/ y = q[i].contin
      BY <1>4, <2>1
    <3>2. CASE i = 1
      BY <1>2, <3>1, <3>2
    <3>3. CASE i # 1
      BY <1>2, <1>4, <3>1, <3>3
    <3>4. QED
      BY <3>2, <3>3
  <2>2. ASSUME NEW y \in SpawnersHeld(Tail(q)) PROVE y \in SpawnersHeld(q)
    <3>1. PICK i \in 1 .. n : y = Tail(q)[i].lchild \/ y = Tail(q)[i].contin
      BY <1>4, <2>2
    <3>2. i + 1 \in 1 .. n + 1 /\ (y = q[i + 1].lchild \/ y = q[i + 1].contin)
      BY <1>2, <3>1
    <3>3. QED
      BY <1>4, <3>2
  <2>3. Head(q).lchild \in SpawnersHeld(q) /\ Head(q).contin \in SpawnersHeld(q)
    BY <1>2, <1>4, <1>5
  <2>4. QED
    BY <2>1, <2>2, <2>3
<1>7. /\ Head(q).lchild \notin SpawnersHeld(Tail(q)) /\ Head(q).contin \notin SpawnersHeld(Tail(q))
      /\ Head(q).lchild # Head(q).contin
  <2>1. ASSUME NEW y, y = Head(q).lchild \/ y = Head(q).contin, y \in SpawnersHeld(Tail(q)) PROVE FALSE
    <3>1. PICK i \in 1 .. n : y = Tail(q)[i].lchild \/ y = Tail(q)[i].contin
      BY <1>4, <2>1
    <3>2. i + 1 \in 1 .. n + 1 /\ i + 1 # 1 /\ (y = q[i + 1].lchild \/ y = q[i + 1].contin)
      BY <1>2, <3>1
    <3>3. y = q[1].lchild \/ y = q[1].contin
      BY <1>2, <2>1
    <3>4. QED
      BY <1>3, <1>5, <3>2, <3>3
  <2>2. QED
    BY <1>2, <1>3, <1>5, <2>1
<1>8. SpawnersOnce(Tail(q))
  <2>1. SUFFICES ASSUME NEW i \in 1 .. n, NEW j \in 1 .. n
                 PROVE  /\ \/ Tail(q)[i].lchild = Tail(q)[j].lchild
                           \/ Tail(q)[i].contin = Tail(q)[j].contin
                           => i = j
                        /\ Tail(q)[i].lchild # Tail(q)[j].contin
    BY <1>1 DEF SpawnersOnce
  <2>2. i + 1 = j + 1 => i = j
    OBVIOUS
  <2>3. /\ i + 1 \in 1 .. n + 1 /\ Tail(q)[i] = q[i + 1]
        /\ j + 1 \in 1 .. n + 1 /\ Tail(q)[j] = q[j + 1]
    BY <1>2
  <2>4. /\ q[i + 1].lchild = q[j + 1].lchild \/ q[i + 1].contin = q[j + 1].contin => i + 1 = j + 1
        /\ q[i + 1].lchild # q[j + 1].contin
    BY <1>3, <2>3
  <2>5. QED
    BY <2>2, <2>3, <2>4
<1>9. QED
  BY <1>6, <1>7, <1>8

(***************************************************************************)
(* Five owners.                                                            *)
(***************************************************************************)
Apart(all, f, h, s, w, l) ==
  /\ all = f \cup h \cup s \cup w \cup l
  /\ f \cap h = {} /\ f \cap s = {} /\ f \cap w = {} /\ f \cap l = {}
  /\ h \cap s = {} /\ h \cap w = {} /\ h \cap l = {}
  /\ s \cap w = {} /\ s \cap l = {} /\ w \cap l = {}

\* A frame has the tables its kind needs.
Furnished(f) ==
  /\ f.prefix_table # NULL
  /\ f.func_type # "HELPER" => f.lchild_table # NULL /\ f.contin_table # NULL
  /\ f.func_type = "HELPER" => f.lchild_table = NULL /\ f.contin_table = NULL /\ f.lchild_spn = 0

\* A spawn helper runs on the frame of another function.
KindAt(frs, hs, i) ==
  /\ Furnished(frs[i])
  /\ frs[i].func_type = "HELPER" <=> hs[i].stage \in {"args", "detached"}
  /\ frs[i].func_type = "HELPER" => i > 1 /\ frs[i - 1].func_type # "HELPER"

Kinds(frs, hs) == \A i \in 1 .. Len(frs) : KindAt(frs, hs, i)

LEMMA KindsTop ==
  ASSUME NEW frs, NEW hs, NEW k \in Nat, Kinds(frs, hs), Len(frs) \in Nat, k <= Len(frs),
         NEW new, NEW gs, Len(new) = k + 1,
         \A i \in 1 .. k : new[i] = frs[i] /\ gs[i].stage = hs[i].stage, KindAt(new, gs, k + 1)
  PROVE  Kinds(new, gs)
<1>1. SUFFICES ASSUME NEW i \in 1 .. k + 1 PROVE KindAt(new, gs, i)
  BY DEF Kinds
<1>2. CASE i = k + 1
  BY <1>2
<1>3. CASE i \in 1 .. k
  <2>1. KindAt(frs, hs, i)
    BY <1>3 DEF Kinds
  <2>2. i > 1 => i - 1 \in 1 .. k
    BY <1>3
  <2>3. QED
    BY <1>3, <2>1, <2>2 DEF KindAt
<1>4. QED
  BY <1>2, <1>3

OwnersInv ==
  /\ TOOL_INITIALIZED <=> wrk_table # NULL
  /\ ~TOOL_INITIALIZED => helper_sf_free_list = <<>> /\ spawner_sf_free_list = <<>>
  /\ Kinds(frames, hist)
  /\ pc = "syncing" => bot.func_type = "SPAWNER"
  /\ pc = "detaching" => bot.func_type = "HELPER"
  /\ OwnedOnce(frames, Len(frames))
  /\ HelpersOnce(helper_sf_free_list) /\ SpawnersOnce(spawner_sf_free_list)
  /\ Apart(DOMAIN heap, OwnedBy(frames, Len(frames)), HelpersHeld(helper_sf_free_list),
           SpawnersHeld(spawner_sf_free_list), {wrk_table} \ {NULL}, leaked)

\* The two frames differ in what they have measured only.
SameTables(f, g) ==
  /\ f.func_type = g.func_type /\ f.lchild_spn = g.lchild_spn
  /\ f.prefix_table = g.prefix_table /\ f.lchild_table = g.lchild_table
  /\ f.contin_table = g.contin_table

LEMMA SameTop ==
  ASSUME NEW frs \in Seq(Frame), NEW new \in Seq(Frame), NEW k \in Nat,
         Len(frs) = k + 1, Len(new) = k + 1, \A i \in 1 .. k : new[i] = frs[i],
         SameTables(new[k + 1], frs[k + 1])
  PROVE  /\ OwnedBy(new, k + 1) = OwnedBy(frs, k + 1)
         /\ OwnedOnce(new, k + 1) <=> OwnedOnce(frs, k + 1)
         /\ Furnished(new[k + 1]) <=> Furnished(frs[k + 1])
<1>1. new[k + 1] \in Frame /\ frs[k + 1] \in Frame
  OBVIOUS
<1>2. \A place \in Places : TableAt(new[k + 1], place) = TableAt(frs[k + 1], place)
  BY <1>1, TablesAt DEF Places, SameTables
<1>3. /\ TablesIn(new[k + 1], Places) = TablesIn(frs[k + 1], Places)
      /\ Different(new[k + 1], Places) <=> Different(frs[k + 1], Places)
  BY <1>2 DEF TablesIn, Different
<1>4. new[k + 1].func_type = frs[k + 1].func_type /\ k + 1 <= Len(frs)
  BY DEF SameTables
<1>5. /\ OwnedBy(new, k + 1) = OwnedBy(frs, k) \cup TablesIn(new[k + 1], Places)
      /\ OwnedOnce(new, k + 1) <=>
           /\ OwnedOnce(frs, k) /\ Different(new[k + 1], Places)
           /\ OwnedBy(frs, k) \cap TablesIn(new[k + 1], Places) = {}
  BY <1>4, OwnedReplace
<1>6. /\ OwnedBy(frs, k + 1) = OwnedBy(frs, k) \cup TablesIn(frs[k + 1], Places)
      /\ OwnedOnce(frs, k + 1) <=>
           /\ OwnedOnce(frs, k) /\ Different(frs[k + 1], Places)
           /\ OwnedBy(frs, k) \cap TablesIn(frs[k + 1], Places) = {}
  <2>1. \A i \in 1 .. k : frs[i] = frs[i]
    OBVIOUS
  <2>2. QED
    BY <1>4, <2>1, OwnedReplace
<1>7. QED
  BY <1>3, <1>5, <1>6 DEF SameTables, Furnished

LEMMA KindKept ==
  ASSUME NEW frs, NEW hs, NEW i, KindAt(frs, hs, i), NEW new, NEW gs,
         Furnished(new[i]) <=> Furnished(frs[i]), new[i].func_type = frs[i].func_type,
         gs[i].stage \in {"args", "detached"} <=> hs[i].stage \in {"args", "detached"},
         i > 1 => new[i - 1] = frs[i - 1]
  PROVE  KindAt(new, gs, i)
<1>1. /\ Furnished(frs[i])
      /\ frs[i].func_type = "HELPER" <=> hs[i].stage \in {"args", "detached"}
      /\ frs[i].func_type = "HELPER" => i > 1 /\ frs[i - 1].func_type # "HELPER"
  BY DEF KindAt
<1>2. Furnished(new[i])
  BY <1>1
<1>3. new[i].func_type = "HELPER" <=> gs[i].stage \in {"args", "detached"}
  BY <1>1, Zenon
<1>4. new[i].func_type = "HELPER" => i > 1 /\ new[i - 1].func_type # "HELPER"
  BY <1>1, Zenon
<1>5. QED
  BY <1>2, <1>3, <1>4 DEF KindAt

LEMMA KindsSame ==
  ASSUME NEW frs \in Seq(Frame), NEW new \in Seq(Frame), NEW k \in Nat,
         Len(frs) = k + 1, Len(new) = k + 1, NEW hs, NEW gs, Kinds(frs, hs),
         \A i \in 1 .. k : new[i] = frs[i] /\ gs[i].stage = hs[i].stage,
         SameTables(new[k + 1], frs[k + 1]),
         gs[k + 1].stage \in {"args", "detached"} <=> hs[k + 1].stage \in {"args", "detached"}
  PROVE  Kinds(new, gs)
<1>1. /\ k + 1 \in 1 .. Len(frs) /\ Len(frs) \in Nat /\ (k + 1) - 1 = k /\ k <= Len(frs)
      /\ k + 1 > 1 <=> k > 0
  OBVIOUS
<1>2. KindAt(frs, hs, k + 1)
  BY <1>1 DEF Kinds
<1>3. Furnished(new[k + 1]) <=> Furnished(frs[k + 1])
  BY SameTop
<1>4. KindAt(new, gs, k + 1)
  <2>1. k + 1 > 1 => new[(k + 1) - 1] = frs[(k + 1) - 1]
    <3>1. k > 0 => new[k] = frs[k]
      OBVIOUS
    <3>2. QED
      BY <1>1, <3>1
  <2>2. PICK i : i = k + 1
    OBVIOUS
  <2>3. new[i].func_type = frs[i].func_type
    BY <2>2 DEF SameTables
  <2>4. /\ KindAt(frs, hs, i) /\ new[i].func_type = frs[i].func_type
        /\ Furnished(new[i]) <=> Furnished(frs[i])
        /\ i > 1 => new[i - 1] = frs[i - 1]
    BY <1>2, <1>3, <2>1, <2>2, <2>3
  <2>5. gs[i].stage \in {"args", "detached"} <=> hs[i].stage \in {"args", "detached"}
    BY ONLY <2>2, gs[k + 1].stage \in {"args", "detached"} <=> hs[k + 1].stage \in {"args", "detached"}
  <2>6. KindAt(new, gs, i)
    BY ONLY <2>4, <2>5, KindKept
  <2>7. QED
    BY <2>2, <2>6
<1>5. QED
  BY <1>1, <1>4, KindsTop

\* The stacks of frames, while the tool runs.
LEMMA StackOfFrames ==
  ASSUME Inv, TOOL_INITIALIZED
  PROVE  \E k \in Nat : /\ Len(frames) = k + 1 /\ Len(hist) = k + 1
                        /\ frames \in Seq(Frame) /\ hist \in Seq(HistRec)
                        /\ bot = frames[k + 1] /\ bot \in Frame /\ Last(hist) = hist[k + 1]
<1>1. FramesInv
  BY DEF Inv
<1>2. frames \in Seq(Frame) /\ Len(frames) > 0 /\ hist \in Seq(HistRec) /\ Len(hist) = Len(frames)
  BY <1>1 DEF FramesInv, Piled
<1>3. PICK k \in Nat : k + 1 = Len(frames)
  <2>1. Len(frames) \in Nat /\ Len(frames) - 1 \in Nat /\ (Len(frames) - 1) + 1 = Len(frames)
    BY <1>2
  <2>2. QED
    BY <2>1
<1>4. QED
  BY <1>2, <1>3 DEF bot, Last

\* A step that changes no pointer to a table.
LEMMA QuietStep ==
  ASSUME Inv, TOOL_INITIALIZED, OwnersInv, TOOL_INITIALIZED', Inv',
         NEW k \in Nat, Len(frames) = k + 1, Len(frames') = k + 1,
         \A i \in 1 .. k : frames'[i] = frames[i] /\ hist'[i].stage = hist[i].stage,
         SameTables(frames'[k + 1], frames[k + 1]),
         hist'[k + 1].stage \in {"args", "detached"} <=> hist[k + 1].stage \in {"args", "detached"},
         UNCHANGED <<helper_sf_free_list, spawner_sf_free_list, tableVars, leaked>>,
         pc' = "syncing" => bot.func_type = "SPAWNER",
         pc' = "detaching" => bot.func_type = "HELPER"
  PROVE  OwnersInv'
<1>1. frames \in Seq(Frame) /\ bot = frames[k + 1]
  BY StackOfFrames
<1>2. frames' \in Seq(Frame) /\ frames' # <<>> /\ bot' = frames'[k + 1]
  BY DEF Inv, FramesInv, Piled, bot, Last
<1>3. /\ OwnedBy(frames', k + 1) = OwnedBy(frames, k + 1)
      /\ OwnedOnce(frames', k + 1) <=> OwnedOnce(frames, k + 1)
      /\ Furnished(frames'[k + 1]) <=> Furnished(frames[k + 1])
  BY <1>1, <1>2, SameTop
<1>4. k + 1 \in 1 .. Len(frames)
  OBVIOUS
<1>5. frames'[k + 1].func_type = frames[k + 1].func_type
  BY DEF SameTables
<1>6. Kinds(frames', hist')
  <2>1. PICK frs, hs, new, gs : frs = frames /\ hs = hist /\ new = frames' /\ gs = hist'
    OBVIOUS
  <2>2. /\ frs \in Seq(Frame) /\ new \in Seq(Frame) /\ Len(frs) = k + 1 /\ Len(new) = k + 1
        /\ Kinds(frs, hs) /\ SameTables(new[k + 1], frs[k + 1])
        /\ \A i \in 1 .. k : new[i] = frs[i] /\ gs[i].stage = hs[i].stage
        /\ gs[k + 1].stage \in {"args", "detached"} <=> hs[k + 1].stage \in {"args", "detached"}
    BY <1>1, <1>2, <2>1 DEF OwnersInv
  <2>3. k \in Nat
    OBVIOUS
  <2>4. Kinds(new, gs)
    BY ONLY <2>2, <2>3, KindsSame
  <2>5. QED
    BY <2>1, <2>4
<1>7. /\ OwnedOnce(frames, k + 1)
      /\ HelpersOnce(helper_sf_free_list) /\ SpawnersOnce(spawner_sf_free_list)
      /\ Apart(DOMAIN heap, OwnedBy(frames, k + 1), HelpersHeld(helper_sf_free_list),
               SpawnersHeld(spawner_sf_free_list), {wrk_table} \ {NULL}, leaked)
      /\ wrk_table # NULL
  BY DEF OwnersInv
<1>8. heap' = heap /\ wrk_table' = wrk_table
  BY DEF tableVars
<1>9. QED
  BY <1>1, <1>2, <1>3, <1>5, <1>6, <1>7, <1>8 DEF OwnersInv

\* The bottom frame is replaced.
LEMMA NewBottom ==
  ASSUME Inv, TOOL_INITIALIZED, NEW k \in Nat, Len(frames) = k + 1,
         NEW f \in Frame, f.c_head = bot.c_head, NEW new, new = Bottom(f)
  PROVE  /\ new \in Seq(Frame) /\ Len(new) = k + 1 /\ new[k + 1] = f
         /\ \A i \in 1 .. k : new[i] = frames[i]
<1>1. PICK n \in Nat : n = Len(c_stack) /\ Piled(frames, n)
  BY DEF Inv, CStackInv, FramesInv
<1>2. PICK b : b = Bottom(f)
  OBVIOUS
<1>3. /\ Piled(b, n) /\ Len(b) = Len(frames) /\ Last(b) = f
      /\ \A i \in 1 .. Len(frames) - 1 : b[i] = frames[i]
  BY <1>1, <1>2, BottomFacts
<1>4. Len(frames) - 1 = k
  OBVIOUS
<1>5. b \in Seq(Frame) /\ b[k + 1] = f
  BY <1>3 DEF Piled, Last
<1>6. QED
  BY <1>2, <1>3, <1>4, <1>5

\* A measured strand moves no table.
LEMMA SameMeasured ==
  ASSUME bot \in Frame, NEW t \in Nat, NEW f, f = [bot EXCEPT !.local_contin = @ + t] \/ f = WithContin(t)
  PROVE  SameTables(f, bot) /\ f \in Frame /\ f.c_head = bot.c_head
<1>1. PICK b \in Frame : b = bot
  OBVIOUS
<1>2. b.local_contin + t \in Nat
  BY FrameFacts
<1>3. PICK x \in Nat : x = b.local_contin + t
  BY <1>2
<1>4. f = [b EXCEPT !.local_contin = x] \/ f = b
  <2>1. PICK g : g = [bot EXCEPT !.local_contin = @ + t]
    OBVIOUS
  <2>2. f = g \/ f = bot
    BY <2>1 DEF WithContin
  <2>3. g = [b EXCEPT !.local_contin = x]
    BY <1>1, <1>3, <2>1
  <2>4. QED
    BY <1>1, <2>2, <2>3
<1>5. f \in Frame
  <2>1. PICK i \in Ids : i = NULL
    BY DEF Ids
  <2>2. [b EXCEPT !.local_contin = x] \in Frame
    BY ONLY <2>1, b \in Frame, x \in Nat, FrameSet
  <2>3. QED
    BY <1>4, <2>2
<1>6. SameTables(f, b) /\ f.c_head = b.c_head
  BY <1>4 DEF SameTables, Frame
<1>7. QED
  BY <1>1, <1>5, <1>6

\* The stage of the bottom frame's history is set.
LEMMA StageSet ==
  ASSUME hist \in Seq(HistRec), NEW k \in Nat, Len(hist) = k + 1, NEW s, Stage(s)
  PROVE  hist'[k + 1].stage = s /\ \A i \in 1 .. k : hist'[i] = hist[i]
<1>1. PICK r \in HistRec : r = hist[k + 1] /\ k + 1 \in 1 .. Len(hist)
  OBVIOUS
<1>2. PICK q : q = [r EXCEPT !.stage = s]
  OBVIOUS
<1>3. q.stage = s
  BY <1>2 DEF HistRec
<1>4. hist' = [hist EXCEPT ![k + 1] = q]
  BY <1>1, <1>2 DEF Stage
<1>5. DOMAIN hist = 1 .. k + 1
  OBVIOUS
<1>6. hist'[k + 1] = q /\ \A i \in 1 .. k : hist'[i] = hist[i]
  BY <1>4, <1>5
<1>7. QED
  BY <1>3, <1>6

LEMMA EnterCKeepsOwners ==
  ASSUME Inv, Inv', OwnersInv, NEW site \in Sites, NEW t \in StrandLengths,
         cilk_tool_c_function_enter(site, t)
  PROVE  OwnersInv'
<1>1. TOOL_INITIALIZED /\ t \in Nat /\ pc = "user"
  BY SitesAreSites DEF cilk_tool_c_function_enter, MayPush, Running
<1>2. /\ frames' = Bottom(WithContin(t))
      /\ UNCHANGED <<helper_sf_free_list, spawner_sf_free_list, tableVars, pc, hist, toolVars>>
  BY DEF cilk_tool_c_function_enter
<1>3. PICK k \in Nat : /\ Len(frames) = k + 1 /\ Len(hist) = k + 1
                       /\ frames \in Seq(Frame) /\ hist \in Seq(HistRec)
                       /\ bot = frames[k + 1] /\ bot \in Frame /\ Last(hist) = hist[k + 1]
  BY <1>1, StackOfFrames
<1>4. PICK f : f = WithContin(t)
  OBVIOUS
<1>5. SameTables(f, bot) /\ f \in Frame /\ f.c_head = bot.c_head
  BY <1>1, <1>3, <1>4, SameMeasured
<1>6. PICK new : new = Bottom(f)
  OBVIOUS
<1>7. Len(new) = k + 1 /\ new[k + 1] = f /\ \A i \in 1 .. k : new[i] = frames[i]
  BY <1>1, <1>3, <1>5, <1>6, NewBottom
<1>8. /\ Len(frames') = k + 1
      /\ \A i \in 1 .. k : frames'[i] = frames[i] /\ hist'[i].stage = hist[i].stage
      /\ SameTables(frames'[k + 1], frames[k + 1]) /\ hist' = hist /\ pc' = "user"
      /\ TOOL_INITIALIZED'
      /\ UNCHANGED <<helper_sf_free_list, spawner_sf_free_list, tableVars, leaked>>
  BY <1>1, <1>2, <1>3, <1>4, <1>5, <1>6, <1>7 DEF toolVars
<1>9. QED
  BY <1>1, <1>3, <1>8, QuietStep

LEMMA EndStrandKeepsOwners ==
  ASSUME Inv, Inv', OwnersInv, TOOL_INITIALIZED, NEW t \in Nat, NEW next, EndStrand(t, next),
         UNCHANGED hist \/ (Stage("spawning") /\ Last(hist).stage = "body"),
         next = "syncing" => bot.func_type = "SPAWNER",
         next = "detaching" => bot.func_type = "HELPER"
  PROVE  OwnersInv'
<1>1. PICK k \in Nat : /\ Len(frames) = k + 1 /\ Len(hist) = k + 1
                       /\ frames \in Seq(Frame) /\ hist \in Seq(HistRec)
                       /\ bot = frames[k + 1] /\ bot \in Frame /\ Last(hist) = hist[k + 1]
  BY StackOfFrames
<1>2. PICK f : f = [bot EXCEPT !.local_contin = @ + t]
  OBVIOUS
<1>3. /\ frames' = Bottom(f) /\ pc' = next
      /\ UNCHANGED <<helper_sf_free_list, spawner_sf_free_list, tableVars, toolVars>>
  BY <1>2 DEF EndStrand
<1>4. SameTables(f, bot) /\ f \in Frame /\ f.c_head = bot.c_head
  BY <1>1, <1>2, SameMeasured
<1>5. PICK new : new = Bottom(f)
  OBVIOUS
<1>6. Len(new) = k + 1 /\ new[k + 1] = f /\ \A i \in 1 .. k : new[i] = frames[i]
  BY <1>1, <1>4, <1>5, NewBottom
<1>7. /\ \A i \in 1 .. k : hist'[i].stage = hist[i].stage
      /\ hist'[k + 1].stage \in {"args", "detached"} <=> hist[k + 1].stage \in {"args", "detached"}
  <2>1. CASE UNCHANGED hist
    BY <2>1
  <2>2. CASE Stage("spawning") /\ Last(hist).stage = "body"
    BY <1>1, <2>2, StageSet
  <2>3. QED
    BY <2>1, <2>2
<1>8. /\ Len(frames') = k + 1 /\ \A i \in 1 .. k : frames'[i] = frames[i]
      /\ SameTables(frames'[k + 1], frames[k + 1]) /\ TOOL_INITIALIZED'
      /\ UNCHANGED <<helper_sf_free_list, spawner_sf_free_list, tableVars, leaked>>
  BY <1>1, <1>3, <1>4, <1>5, <1>6 DEF toolVars
<1>9. /\ pc' = "syncing" => bot.func_type = "SPAWNER"
      /\ pc' = "detaching" => bot.func_type = "HELPER"
  BY <1>3
<1>10. QED
  BY <1>1, <1>7, <1>8, <1>9, QuietStep

LEMMA BackKeepsOwners ==
  ASSUME Inv, Inv', OwnersInv, TOOL_INITIALIZED, BackInUserCode,
         UNCHANGED hist \/ (Stage("detached") /\ pc = "detaching")
  PROVE  OwnersInv'
<1>1. PICK k \in Nat : /\ Len(frames) = k + 1 /\ Len(hist) = k + 1
                       /\ frames \in Seq(Frame) /\ hist \in Seq(HistRec)
                       /\ bot = frames[k + 1] /\ bot \in Frame /\ Last(hist) = hist[k + 1]
  BY StackOfFrames
<1>2. pc' = "user" /\ UNCHANGED <<stackVars, tableVars, toolVars>>
  BY DEF BackInUserCode
<1>3. /\ \A i \in 1 .. k : hist'[i].stage = hist[i].stage
      /\ hist'[k + 1].stage \in {"args", "detached"} <=> hist[k + 1].stage \in {"args", "detached"}
  <2>1. CASE UNCHANGED hist
    BY <2>1
  <2>2. CASE Stage("detached") /\ pc = "detaching"
    <3>1. frames[k + 1].func_type = "HELPER" /\ Kinds(frames, hist) /\ k + 1 \in 1 .. Len(frames)
      BY <1>1, <2>2 DEF OwnersInv
    <3>2. hist[k + 1].stage \in {"args", "detached"}
      BY <3>1 DEF Kinds, KindAt
    <3>3. hist'[k + 1].stage = "detached" /\ \A i \in 1 .. k : hist'[i] = hist[i]
      BY <1>1, <2>2, StageSet
    <3>4. QED
      BY <3>2, <3>3
  <2>3. QED
    BY <2>1, <2>2
<1>4. /\ Len(frames') = k + 1 /\ \A i \in 1 .. k : frames'[i] = frames[i]
      /\ SameTables(frames'[k + 1], frames[k + 1]) /\ TOOL_INITIALIZED'
      /\ UNCHANGED <<helper_sf_free_list, spawner_sf_free_list, tableVars, leaked>>
  BY <1>1, <1>2 DEF toolVars, stackVars, SameTables
<1>5. QED
  BY <1>1, <1>2, <1>3, <1>4, QuietStep

\* New tables, and tables taken from a free list, become a frame's.
LEMMA ApartMore ==
  ASSUME NEW all, NEW f, NEW h, NEW s, NEW w, NEW l, Apart(all, f, h, s, w, l), NEW x, NEW rest
  PROVE  /\ x \cap all = {} => Apart(all \cup x, f \cup x, h, s, w, l)
         /\ h = rest \cup x /\ rest \cap x = {} => Apart(all, f \cup x, rest, s, w, l)
         /\ s = rest \cup x /\ rest \cap x = {} => Apart(all, f \cup x, h, rest, w, l)
<1>1. x \cap all = {} => Apart(all \cup x, f \cup x, h, s, w, l)
  BY DEF Apart
<1>2. h = rest \cup x /\ rest \cap x = {} => Apart(all, f \cup x, rest, s, w, l)
  BY DEF Apart
<1>3. s = rest \cup x /\ rest \cap x = {} => Apart(all, f \cup x, h, rest, w, l)
  BY DEF Apart
<1>4. QED
  BY <1>1, <1>2, <1>3

\* The owners while the tool runs.
LEMMA RunningOwners ==
  ASSUME Inv, OwnersInv, TOOL_INITIALIZED, NEW k \in Nat, Len(frames) = k + 1
  PROVE  /\ Kinds(frames, hist) /\ OwnedOnce(frames, k + 1)
         /\ HelpersOnce(helper_sf_free_list) /\ SpawnersOnce(spawner_sf_free_list)
         /\ wrk_table \in Nat /\ NULL \notin Nat /\ IsHeap(heap)
         /\ helper_sf_free_list \in Seq(Ids) /\ spawner_sf_free_list \in Seq(SpawnerTables)
         /\ Apart(DOMAIN heap, OwnedBy(frames, k + 1), HelpersHeld(helper_sf_free_list),
                  SpawnersHeld(spawner_sf_free_list), {wrk_table}, leaked)
         /\ \A i \in 1 .. k + 1 : KindAt(frames, hist, i)
<1>1. wrk_table # NULL /\ wrk_table \in Ids /\ NULL \notin Nat
  BY CcTableAssumption DEF OwnersInv, Inv, HeapInv
<1>2. wrk_table \in Nat /\ {wrk_table} \ {NULL} = {wrk_table}
  BY <1>1 DEF Ids
<1>3. IsHeap(heap) /\ helper_sf_free_list \in Seq(Ids) /\ spawner_sf_free_list \in Seq(SpawnerTables)
  BY DEF Inv, HeapInv
<1>4. Kinds(frames, hist)
  BY DEF OwnersInv
<1>5. \A i \in 1 .. k + 1 : KindAt(frames, hist, i)
  BY <1>4 DEF Kinds
<1>6. QED
  BY <1>1, <1>2, <1>3, <1>4, <1>5 DEF OwnersInv

\* ... and they are the same when the strand that ends is added to the frame.
LEMMA OwnersUnder ==
  ASSUME Inv, OwnersInv, TOOL_INITIALIZED, NEW k \in Nat, Len(frames) = k + 1, NEW t \in Nat,
         NEW under, under = Bottom(WithContin(t))
  PROVE  /\ under \in Seq(Frame) /\ Len(under) = k + 1 /\ under[k + 1] = Last(under)
         /\ SameTables(under[k + 1], bot)
         /\ OwnedBy(under, k + 1) = OwnedBy(frames, k + 1) /\ OwnedOnce(under, k + 1)
         /\ Kinds(under, hist)
<1>1. /\ frames \in Seq(Frame) /\ hist \in Seq(HistRec)
      /\ bot = frames[k + 1] /\ bot \in Frame /\ Last(hist) = hist[k + 1]
  BY StackOfFrames
<1>2. PICK f : f = WithContin(t)
  OBVIOUS
<1>3. SameTables(f, bot) /\ f \in Frame /\ f.c_head = bot.c_head
  BY <1>1, <1>2, SameMeasured
<1>4. under = Bottom(f)
  BY <1>2
<1>5. /\ under \in Seq(Frame) /\ Len(under) = k + 1 /\ under[k + 1] = f
      /\ \A i \in 1 .. k : under[i] = frames[i]
  BY <1>1, <1>3, <1>4, NewBottom
<1>6. Kinds(frames, hist) /\ OwnedOnce(frames, k + 1)
  BY RunningOwners
<1>7. SameTables(under[k + 1], frames[k + 1])
  BY <1>1, <1>3, <1>5
<1>8. OwnedBy(under, k + 1) = OwnedBy(frames, k + 1) /\ OwnedOnce(under, k + 1)
  BY <1>1, <1>5, <1>6, <1>7, SameTop
<1>9. Kinds(under, hist)
  <2>1. PICK frs, hs : frs = frames /\ hs = hist
    OBVIOUS
  <2>2. /\ frs \in Seq(Frame) /\ under \in Seq(Frame) /\ Len(frs) = k + 1 /\ Len(under) = k + 1
        /\ Kinds(frs, hs) /\ SameTables(under[k + 1], frs[k + 1])
        /\ \A i \in 1 .. k : under[i] = frs[i] /\ hs[i].stage = hs[i].stage
        /\ hs[k + 1].stage \in {"args", "detached"} <=> hs[k + 1].stage \in {"args", "detached"}
        /\ k \in Nat
    BY <1>1, <1>5, <1>6, <1>7, <2>1
  <2>3. Kinds(under, hs)
    BY ONLY <2>2, KindsSame
  <2>4. QED
    BY <2>1, <2>3
<1>10. QED
  BY <1>1, <1>3, <1>5, <1>8, <1>9 DEF Last

\* The kinds of the frames when one is pushed.
LEMMA KindsPush ==
  ASSUME NEW frs \in Seq(Frame), NEW k \in Nat, Len(frs) = k + 1, NEW hs \in Seq(HistRec), Len(hs) = k + 1,
         Kinds(frs, hs), NEW f \in Frame, NEW r \in HistRec, Furnished(f),
         f.func_type = "HELPER" <=> r.stage \in {"args", "detached"},
         f.func_type = "HELPER" => frs[k + 1].func_type # "HELPER"
  PROVE  Kinds(Append(frs, f), Append(hs, r))
<1>1. PICK new, gs : new = Append(frs, f) /\ gs = Append(hs, r)
  OBVIOUS
<1>2. PICK m \in Nat : m = k + 1
  OBVIOUS
<1>3. /\ Len(new) = m + 1 /\ new[m + 1] = f /\ gs[m + 1] = r
      /\ \A i \in 1 .. m : new[i] = frs[i] /\ gs[i] = hs[i]
  BY <1>1, <1>2
<1>4. m + 1 > 1 /\ (m + 1) - 1 = m /\ m \in 1 .. m /\ Len(frs) \in Nat /\ m <= Len(frs)
  BY <1>2
<1>5. Furnished(new[m + 1])
  BY <1>3
<1>6. new[m + 1].func_type = "HELPER" <=> gs[m + 1].stage \in {"args", "detached"}
  BY <1>3, Zenon
<1>7. new[m + 1].func_type = "HELPER" => m + 1 > 1 /\ new[(m + 1) - 1].func_type # "HELPER"
  BY <1>2, <1>3, <1>4
<1>8. KindAt(new, gs, m + 1)
  BY <1>5, <1>6, <1>7 DEF KindAt
<1>9. \A i \in 1 .. m : new[i] = frs[i] /\ gs[i].stage = hs[i].stage
  BY <1>3
<1>10. Kinds(new, gs)
  BY ONLY <1>2, <1>3, <1>4, <1>8, <1>9, Kinds(frs, hs), KindsTop
<1>11. QED
  BY <1>1, <1>10

\* The place and the table a frame lends.
LEMMA LentFacts ==
  ASSUME NEW f \in Frame
  PROVE  LentPlace(f) \in Places /\ TableAt(f, LentPlace(f)) = LentTable(f)
BY TablesAt DEF LentPlace, LentTable, Places

LEMMA EnterSpawnerKeepsOwners ==
  ASSUME Inv, Inv', OwnersInv, NEW site \in Sites, NEW t \in StrandLengths,
         cilk_enter_begin(site, t)
  PROVE  OwnersInv'
<1>1. TOOL_INITIALIZED /\ t \in Nat
  BY SitesAreSites DEF cilk_enter_begin, MayPush, Running
<1>2. CStackInv /\ FramesInv /\ HeapInv /\ path \in Paths
  BY <1>1 DEF Inv, FlagsInv
<1>3. PICK e : e = Entered(CurrentSites, site, Len(c_stack))
  OBVIOUS
<1>4. /\ PushSpawner(Measured(t), Bottom(WithContin(t)), e.rest.ok)
      /\ pc' = "entering" /\ hist' = Append(hist, History("body", NoPath, PathAfter(t)))
      /\ UNCHANGED <<wrk_table, toolVars>>
  BY <1>3 DEF cilk_enter_begin
<1>5. PICK n \in Nat : n = Len(Measured(t))
  BY <1>1, <1>2, MeasuredFacts DEF CStackInv, SameCalls
<1>6. PICK k \in Nat : /\ Len(frames) = k + 1 /\ Len(hist) = k + 1
                       /\ frames \in Seq(Frame) /\ hist \in Seq(HistRec)
                       /\ bot = frames[k + 1] /\ bot \in Frame /\ Last(hist) = hist[k + 1]
  BY <1>1, StackOfFrames
<1>7. PICK under : under = Bottom(WithContin(t))
  OBVIOUS
<1>8. /\ under \in Seq(Frame) /\ Len(under) = k + 1 /\ under[k + 1] = Last(under)
      /\ SameTables(under[k + 1], bot)
      /\ OwnedBy(under, k + 1) = OwnedBy(frames, k + 1) /\ OwnedOnce(under, k + 1)
      /\ Kinds(under, hist)
  BY <1>1, <1>6, <1>7, OwnersUnder
<1>9. under[k + 1] \in Frame
  BY <1>8
<1>10. PICK lent \in Ids : lent = LentTable(under[k + 1])
  BY <1>9, FrameFacts DEF LentTable
<1>11. PICK new : new = (spawner_sf_free_list = <<>>)
  OBVIOUS
<1>12. PICK h1, h2 : h1 = (IF new THEN Created(heap) ELSE heap)
                     /\ h2 = (IF new THEN Created(h1) ELSE h1)
  OBVIOUS
<1>13. PICK lchild : lchild = IF new THEN Fresh(heap) ELSE Head(spawner_sf_free_list).lchild
  OBVIOUS
<1>14. PICK contin : contin = IF new THEN Fresh(h1) ELSE Head(spawner_sf_free_list).contin
  OBVIOUS
<1>15. /\ heap' = h2
       /\ spawner_sf_free_list' = IF new THEN <<>> ELSE Tail(spawner_sf_free_list)
       /\ frames' = Append(under, NewFrame("SPAWNER", n, lent, lchild, contin))
       /\ UNCHANGED helper_sf_free_list
  BY <1>4, <1>5, <1>7, <1>8, <1>10, <1>11, <1>12, <1>13, <1>14 DEF PushSpawner
<1>16. /\ HelpersOnce(helper_sf_free_list) /\ SpawnersOnce(spawner_sf_free_list)
       /\ wrk_table \in Nat /\ NULL \notin Nat /\ IsHeap(heap)
       /\ spawner_sf_free_list \in Seq(SpawnerTables)
       /\ Apart(DOMAIN heap, OwnedBy(frames, k + 1), HelpersHeld(helper_sf_free_list),
                SpawnersHeld(spawner_sf_free_list), {wrk_table}, leaked)
  BY <1>1, <1>6, RunningOwners
<1>17. DOMAIN heap \subseteq Nat
  BY <1>16 DEF IsHeap
<1>18. PICK F, H, S, L : /\ F = OwnedBy(frames, k + 1) /\ H = HelpersHeld(helper_sf_free_list)
                         /\ S = SpawnersHeld(spawner_sf_free_list) /\ L = leaked
  OBVIOUS
\* The two tables, and the owners once they are the frame's.
<1>19. /\ lchild \in Nat /\ contin \in Nat /\ lchild # contin
       /\ lchild \notin F /\ contin \notin F
       /\ SpawnersOnce(spawner_sf_free_list')
       /\ Apart(DOMAIN heap', F \cup {lchild, contin}, H, SpawnersHeld(spawner_sf_free_list'),
                {wrk_table}, L)
  <2>1. CASE new
    <3>1. DOMAIN h1 = DOMAIN heap \cup {lchild} /\ IsHeap(h1) /\ lchild \in Nat /\ lchild \notin DOMAIN heap
      BY <1>12, <1>13, <1>16, <2>1, CreatedFacts, FreshFacts
    <3>2. DOMAIN h2 = DOMAIN h1 \cup {contin} /\ contin \in Nat /\ contin \notin DOMAIN h1
      BY <1>12, <1>14, <2>1, <3>1, CreatedFacts, FreshFacts
    <3>3. lchild # contin /\ {lchild, contin} \cap DOMAIN heap = {}
            /\ DOMAIN heap' = DOMAIN heap \cup {lchild, contin}
      BY <1>15, <3>1, <3>2
    <3>4. spawner_sf_free_list' = spawner_sf_free_list
      BY <1>11, <1>15, <2>1
    <3>5. Apart(DOMAIN heap \cup {lchild, contin}, F \cup {lchild, contin}, H, S, {wrk_table}, L)
      BY <1>16, <1>18, <3>3, ApartMore
    <3>6. F \subseteq DOMAIN heap
      BY <1>16, <1>18 DEF Apart
    <3>7. lchild \notin F /\ contin \notin F
      BY <3>3, <3>6
    <3>8. QED
      BY <1>16, <1>18, <3>1, <3>2, <3>3, <3>4, <3>5, <3>7
  <2>2. CASE ~new
    <3>1. spawner_sf_free_list # <<>> /\ spawner_sf_free_list' = Tail(spawner_sf_free_list)
            /\ heap' = heap
      BY <1>11, <1>12, <1>15, <2>2
    <3>2. lchild = Head(spawner_sf_free_list).lchild /\ contin = Head(spawner_sf_free_list).contin
      BY <1>13, <1>14, <2>2
    <3>3. PICK rest : rest = SpawnersHeld(Tail(spawner_sf_free_list))
      OBVIOUS
    <3>4. /\ S = rest \cup {lchild, contin} /\ lchild \notin rest /\ contin \notin rest
          /\ lchild # contin /\ SpawnersOnce(Tail(spawner_sf_free_list))
      BY <1>16, <1>18, <3>1, <3>2, <3>3, SpawnersPop
    <3>5. Apart(DOMAIN heap, F, H, S, {wrk_table}, L)
      BY <1>16, <1>18
    <3>6. rest \cap {lchild, contin} = {}
      BY <3>4
    <3>7. Apart(DOMAIN heap, F \cup {lchild, contin}, H, rest, {wrk_table}, L)
      BY <3>4, <3>5, <3>6, ApartMore
    <3>8. S \subseteq DOMAIN heap /\ F \cap S = {}
      BY <3>5 DEF Apart
    <3>9. QED
      BY <1>17, <3>1, <3>3, <3>4, <3>7, <3>8
  <2>3. QED
    BY <2>1, <2>2
<1>20. PICK f : f = NewFrame("SPAWNER", n, lent, lchild, contin)
  OBVIOUS
<1>21. /\ f \in Frame /\ f.func_type = "SPAWNER" /\ f.lchild_spn = 0
       /\ f.prefix_table = lent /\ f.lchild_table = lchild /\ f.contin_table = contin
  <2>1. lchild \in Ids /\ contin \in Ids /\ "SPAWNER" \in FrameKinds
    BY <1>19 DEF Ids, FrameKinds
  <2>2. QED
    BY <1>20, <2>1, NewFrameFacts
<1>22. PICK mine : mine = {"lchild_table", "contin_table"}
  OBVIOUS
<1>23. /\ TableAt(f, "lchild_table") = lchild /\ TableAt(f, "contin_table") = contin
       /\ TableAt(f, "prefix_table") = lent
  BY <1>21, TablesAt
<1>24. TablesIn(f, mine) = {lchild, contin} /\ Different(f, mine) /\ mine \subseteq Places
  <2>1. NULL \notin {lchild, contin}
    BY <1>16, <1>19
  <2>2. QED
    BY <1>19, <1>22, <1>23, <2>1 DEF TablesIn, Different, Places
<1>25. PICK after : after = Append(under, f)
  OBVIOUS
<1>26. /\ OwnedBy(after, k + 2) = OwnedBy(under, k + 1) \cup {lchild, contin}
       /\ OwnedOnce(after, k + 2)
  <2>1. PICK place : place = LentPlace(under[k + 1])
    OBVIOUS
  <2>2. TableAt(f, "prefix_table") = TableAt(under[k + 1], place)
    BY <1>9, <1>10, <1>23, <2>1, LentFacts
  <2>3. OwnedBy(under, k + 1) \cap TablesIn(f, mine) = {}
    BY <1>8, <1>18, <1>19, <1>24
  <2>4. /\ OwnedBy(after, k + 2) = OwnedBy(under, k + 1) \cup TablesIn(f, mine)
        /\ OwnedOnce(after, k + 2)
    <3>1. /\ under \in Seq(Frame) /\ k \in Nat /\ Len(under) = k + 1 /\ OwnedOnce(under, k + 1)
          /\ f \in Frame /\ mine \subseteq Places /\ Different(f, mine)
          /\ f.func_type = "SPAWNER" /\ mine = {"lchild_table", "contin_table"}
          /\ TableAt(f, "prefix_table") = TableAt(under[k + 1], LentPlace(under[k + 1]))
      BY <1>8, <1>21, <1>22, <1>24, <2>1, <2>2
    <3>2. /\ OwnedBy(Append(under, f), k + 2) = OwnedBy(under, k + 1) \cup TablesIn(f, mine)
          /\ OwnedOnce(Append(under, f), k + 2)
      BY ONLY <2>3, <3>1, OwnedPush
    <3>3. QED
      BY <1>25, <3>2
  <2>5. QED
    BY <1>24, <2>4
<1>27. /\ frames' = after /\ Len(after) = k + 2
  BY <1>8, <1>15, <1>20, <1>25
<1>28. Kinds(frames', hist')
  <2>1. PICK r \in HistRec : r = History("body", NoPath, PathAfter(t)) /\ r.stage = "body"
    <3>1. PICK p \in Paths, q \in Paths : p = NoPath /\ q = PathAfter(t)
      BY <1>1, <1>2, PathAfterFacts, PathFacts
    <3>2. "body" \in Stages
      BY DEF Stages
    <3>3. History("body", p, q) \in HistRec /\ History("body", p, q).stage = "body"
      BY <3>1, <3>2 DEF History, HistRec, Stages
    <3>4. QED
      BY <3>1, <3>3
  <2>2. Furnished(f)
    <3>1. lent # NULL
      <4>1. KindAt(under, hist, k + 1)
        BY <1>8 DEF Kinds
      <4>2. Furnished(under[k + 1])
        BY <4>1 DEF KindAt
      <4>3. QED
        BY <1>10, <4>2 DEF Furnished, LentTable
    <3>2. QED
      BY <1>16, <1>19, <1>21, <3>1 DEF Furnished
  <2>3. Kinds(Append(under, f), Append(hist, r))
    BY <1>6, <1>8, <1>21, <2>1, <2>2, KindsPush
  <2>4. QED
    BY <1>4, <1>25, <1>27, <2>1, <2>3
<1>29. /\ Apart(DOMAIN heap', OwnedBy(frames', Len(frames')), HelpersHeld(helper_sf_free_list'),
                SpawnersHeld(spawner_sf_free_list'), {wrk_table'} \ {NULL}, leaked')
       /\ OwnedOnce(frames', Len(frames'))
  <2>1. wrk_table' = wrk_table /\ leaked' = leaked /\ {wrk_table} \ {NULL} = {wrk_table}
    BY <1>4, <1>16 DEF toolVars
  <2>2. QED
    BY <1>8, <1>15, <1>18, <1>19, <1>26, <1>27, <2>1
<1>30. TOOL_INITIALIZED' /\ wrk_table' # NULL /\ pc' = "entering"
  BY <1>1, <1>4, <1>16 DEF toolVars
<1>31. QED
  BY <1>15, <1>16, <1>19, <1>28, <1>29, <1>30 DEF OwnersInv

LEMMA EnterHelperKeepsOwners ==
  ASSUME Inv, Inv', OwnersInv, NEW site \in Sites, NEW t \in StrandLengths,
         cilk_enter_helper_begin(site, t)
  PROVE  OwnersInv'
<1>1. TOOL_INITIALIZED /\ t \in Nat
  BY SitesAreSites DEF cilk_enter_helper_begin, MayPush, Running
<1>2. CStackInv /\ FramesInv /\ HeapInv /\ path \in Paths
  BY <1>1 DEF Inv, FlagsInv
<1>3. /\ PushHelper(Measured(t), Bottom(WithContin(t)),
                    Entered(CurrentSites, site, Len(c_stack)).rest.ok)
      /\ Last(hist).stage = "spawning"
      /\ pc' = "entering" /\ hist' = Append(hist, History("args", PathAfter(t), PathAfter(t)))
      /\ UNCHANGED <<wrk_table, toolVars>>
  BY DEF cilk_enter_helper_begin
<1>4. PICK n \in Nat : n = Len(Measured(t))
  BY <1>1, <1>2, MeasuredFacts DEF CStackInv, SameCalls
<1>5. PICK k \in Nat : /\ Len(frames) = k + 1 /\ Len(hist) = k + 1
                       /\ frames \in Seq(Frame) /\ hist \in Seq(HistRec)
                       /\ bot = frames[k + 1] /\ bot \in Frame /\ Last(hist) = hist[k + 1]
  BY <1>1, StackOfFrames
<1>6. PICK under : under = Bottom(WithContin(t))
  OBVIOUS
<1>7. /\ under \in Seq(Frame) /\ Len(under) = k + 1 /\ under[k + 1] = Last(under)
      /\ SameTables(under[k + 1], bot)
      /\ OwnedBy(under, k + 1) = OwnedBy(frames, k + 1) /\ OwnedOnce(under, k + 1)
      /\ Kinds(under, hist)
  BY <1>1, <1>5, <1>6, OwnersUnder
<1>8. under[k + 1].func_type # "HELPER"
  <2>1. KindAt(under, hist, k + 1)
    BY <1>7 DEF Kinds
  <2>2. hist[k + 1].stage = "spawning"
    BY <1>3, <1>5
  <2>3. QED
    BY <2>1, <2>2 DEF KindAt
<1>9. PICK new : new = (helper_sf_free_list = <<>>)
  OBVIOUS
<1>10. PICK h, id : h = (IF new THEN Created(heap) ELSE heap)
                    /\ id = IF new THEN Fresh(heap) ELSE Head(helper_sf_free_list)
  OBVIOUS
<1>11. /\ heap' = h
       /\ helper_sf_free_list' = IF new THEN <<>> ELSE Tail(helper_sf_free_list)
       /\ frames' = Append(under, NewFrame("HELPER", n, id, NULL, NULL))
       /\ UNCHANGED spawner_sf_free_list
  BY <1>3, <1>4, <1>6, <1>9, <1>10 DEF PushHelper
<1>12. /\ HelpersOnce(helper_sf_free_list) /\ SpawnersOnce(spawner_sf_free_list)
       /\ wrk_table \in Nat /\ NULL \notin Nat /\ IsHeap(heap)
       /\ helper_sf_free_list \in Seq(Ids)
       /\ Apart(DOMAIN heap, OwnedBy(frames, k + 1), HelpersHeld(helper_sf_free_list),
                SpawnersHeld(spawner_sf_free_list), {wrk_table}, leaked)
  BY <1>1, <1>5, RunningOwners
<1>13. DOMAIN heap \subseteq Nat
  BY <1>12 DEF IsHeap
<1>14. PICK F, H, S, L : /\ F = OwnedBy(frames, k + 1) /\ H = HelpersHeld(helper_sf_free_list)
                         /\ S = SpawnersHeld(spawner_sf_free_list) /\ L = leaked
  OBVIOUS
\* The table, and the owners once it is the frame's.
<1>15. /\ id \in Nat /\ id \notin F /\ HelpersOnce(helper_sf_free_list')
       /\ Apart(DOMAIN heap', F \cup {id}, HelpersHeld(helper_sf_free_list'), S, {wrk_table}, L)
  <2>1. CASE new
    <3>1. DOMAIN h = DOMAIN heap \cup {id} /\ id \in Nat /\ id \notin DOMAIN heap
      BY <1>10, <1>12, <2>1, CreatedFacts, FreshFacts
    <3>2. {id} \cap DOMAIN heap = {} /\ helper_sf_free_list' = helper_sf_free_list
      BY <1>9, <1>11, <2>1, <3>1
    <3>3. Apart(DOMAIN heap \cup {id}, F \cup {id}, H, S, {wrk_table}, L)
      BY <1>12, <1>14, <3>2, ApartMore
    <3>4. F \subseteq DOMAIN heap
      BY <1>12, <1>14 DEF Apart
    <3>5. QED
      BY <1>11, <1>12, <1>14, <3>1, <3>2, <3>3, <3>4
  <2>2. CASE ~new
    <3>1. helper_sf_free_list # <<>> /\ helper_sf_free_list' = Tail(helper_sf_free_list)
            /\ heap' = heap /\ id = Head(helper_sf_free_list)
      BY <1>9, <1>10, <1>11, <2>2
    <3>2. PICK rest : rest = HelpersHeld(Tail(helper_sf_free_list))
      OBVIOUS
    <3>3. H = rest \cup {id} /\ id \notin rest /\ HelpersOnce(Tail(helper_sf_free_list))
      BY <1>12, <1>14, <3>1, <3>2, HelpersPop
    <3>4. Apart(DOMAIN heap, F, H, S, {wrk_table}, L)
      BY <1>12, <1>14
    <3>5. rest \cap {id} = {}
      BY <3>3
    <3>6. Apart(DOMAIN heap, F \cup {id}, rest, S, {wrk_table}, L)
      BY <3>3, <3>4, <3>5, ApartMore
    <3>7. H \subseteq DOMAIN heap /\ F \cap H = {}
      BY <3>4 DEF Apart
    <3>8. QED
      BY <1>13, <3>1, <3>2, <3>3, <3>6, <3>7
  <2>3. QED
    BY <2>1, <2>2
<1>16. PICK f : f = NewFrame("HELPER", n, id, NULL, NULL)
  OBVIOUS
<1>17. /\ f \in Frame /\ f.func_type = "HELPER" /\ f.lchild_spn = 0
       /\ f.prefix_table = id /\ f.lchild_table = NULL /\ f.contin_table = NULL
  <2>1. id \in Ids /\ NULL \in Ids /\ "HELPER" \in FrameKinds
    BY <1>15 DEF Ids, FrameKinds
  <2>2. QED
    BY <1>16, <2>1, NewFrameFacts
<1>18. /\ TableAt(f, "lchild_table") = NULL /\ TableAt(f, "contin_table") = NULL
       /\ TableAt(f, "prefix_table") = id
  BY <1>17, TablesAt
<1>19. TablesIn(f, Places) = {id} /\ Different(f, Places)
  <2>1. NULL # id
    BY <1>12, <1>15
  <2>2. QED
    BY <1>18, <2>1 DEF TablesIn, Different, Places
<1>20. PICK after : after = Append(under, f)
  OBVIOUS
<1>21. /\ OwnedBy(after, k + 2) = OwnedBy(under, k + 1) \cup {id}
       /\ OwnedOnce(after, k + 2)
  <2>1. OwnedBy(under, k + 1) \cap TablesIn(f, Places) = {}
    BY <1>7, <1>14, <1>15, <1>19
  <2>2. /\ under \in Seq(Frame) /\ k \in Nat /\ Len(under) = k + 1 /\ OwnedOnce(under, k + 1)
        /\ f \in Frame /\ Places \subseteq Places /\ Different(f, Places)
        /\ f.func_type # "SPAWNER"
    BY <1>7, <1>17, <1>19
  <2>3. /\ OwnedBy(Append(under, f), k + 2) = OwnedBy(under, k + 1) \cup TablesIn(f, Places)
        /\ OwnedOnce(Append(under, f), k + 2)
    BY ONLY <2>1, <2>2, OwnedPush
  <2>4. QED
    BY <1>19, <1>20, <2>3
<1>22. /\ frames' = after /\ Len(after) = k + 2
  BY <1>7, <1>11, <1>16, <1>20
<1>23. Kinds(frames', hist')
  <2>1. PICK r \in HistRec : r = History("args", PathAfter(t), PathAfter(t)) /\ r.stage = "args"
    <3>1. PICK p \in Paths : p = PathAfter(t)
      BY <1>1, <1>2, PathAfterFacts
    <3>2. History("args", p, p) \in HistRec /\ History("args", p, p).stage = "args"
      BY <3>1 DEF History, HistRec, Stages
    <3>3. QED
      BY <3>1, <3>2
  <2>2. Furnished(f)
    BY <1>12, <1>15, <1>17 DEF Furnished
  <2>3. Kinds(Append(under, f), Append(hist, r))
    BY <1>5, <1>7, <1>8, <1>17, <2>1, <2>2, KindsPush
  <2>4. QED
    BY <1>3, <1>20, <1>22, <2>1, <2>3
<1>24. /\ Apart(DOMAIN heap', OwnedBy(frames', Len(frames')), HelpersHeld(helper_sf_free_list'),
                SpawnersHeld(spawner_sf_free_list'), {wrk_table'} \ {NULL}, leaked')
       /\ OwnedOnce(frames', Len(frames'))
  <2>1. wrk_table' = wrk_table /\ leaked' = leaked /\ {wrk_table} \ {NULL} = {wrk_table}
    BY <1>3, <1>12 DEF toolVars
  <2>2. QED
    BY <1>7, <1>11, <1>14, <1>15, <1>21, <1>22, <2>1
<1>25. TOOL_INITIALIZED' /\ wrk_table' # NULL /\ pc' = "entering"
  BY <1>1, <1>3, <1>12 DEF toolVars
<1>26. QED
  BY <1>11, <1>12, <1>15, <1>23, <1>24, <1>25 DEF OwnersInv

(***************************************************************************)
(* Tables that move.                                                       *)
(***************************************************************************)
LEMMA ApartChanged ==
  ASSUME NEW all, NEW f, NEW h, NEW s, NEW w, NEW l, Apart(all, f, h, s, w, l),
         NEW old, NEW new, new \cap (all \ old) = {}
  PROVE  /\ old \subseteq f => Apart((all \ old) \cup new, (f \ old) \cup new, h, s, w, l)
         /\ old \subseteq w => Apart((all \ old) \cup new, f, h, s, (w \ old) \cup new, l)
<1>1. old \subseteq f => Apart((all \ old) \cup new, (f \ old) \cup new, h, s, w, l)
  BY DEF Apart
<1>2. old \subseteq w => Apart((all \ old) \cup new, f, h, s, (w \ old) \cup new, l)
  BY DEF Apart
<1>3. QED
  BY <1>1, <1>2


\* Table id of heap h is table new_id of heap new.
MovedTo(h, id, new, new_id) ==
  /\ IsHeap(new) /\ new_id \in Nat /\ new_id \notin DOMAIN h \ {id}
  /\ DOMAIN new = (DOMAIN h \ {id}) \cup {new_id}

\* A table that is added to or flushed.
LEMMA TableMoves ==
  ASSUME NEW h, IsHeap(h), NEW id \in DOMAIN h, NEW update, NEW s,
         s = AddTo(h, id, update) \/ s = Flush(h, id)
  PROVE  MovedTo(h, id, s.heap, s.id)
<1>1. PICK tab : s = Stored(h, id, tab)
  BY DEF AddTo, Flush
<1>2. Moves(h, id, tab, s.heap, s.id)
  BY <1>1, StoredFacts
<1>3. /\ IsHeap(s.heap) /\ s.id \notin DOMAIN h \ {id}
      /\ DOMAIN s.heap = (DOMAIN h \ {id}) \cup {s.id}
  <2>1. PICK new, new_id : new = s.heap /\ new_id = s.id /\ Moves(h, id, tab, new, new_id)
    BY <1>2
  <2>2. /\ IsHeap(new) /\ new_id \notin DOMAIN h \ {id}
        /\ DOMAIN new = (DOMAIN h \ {id}) \cup {new_id}
    BY <2>1 DEF Moves
  <2>3. QED
    BY <2>1, <2>2
<1>4. s.id \in Nat
  BY <1>3 DEF IsHeap
<1>5. QED
  BY <1>3, <1>4 DEF MovedTo

\* Two tables that are added together: two are there still.
LEMMA TablesAddUp ==
  ASSUME NEW h, IsHeap(h), NEW left \in DOMAIN h, NEW right \in DOMAIN h, left # right,
         NEW a, a = AddTables(h, left, right), NEW rest, rest = DOMAIN h \ {left, right}
  PROVE  /\ IsHeap(a.heap) /\ a.left \in Nat /\ a.right \in Nat /\ a.left # a.right
         /\ DOMAIN a.heap = rest \cup {a.left, a.right}
         /\ a.left \notin rest /\ a.right \notin rest
<1>1. AddedTogether(h, left, right, a.heap, a.left, a.right)
  BY AddTablesFacts
<1>2. PICK big, tab, h1 :
        /\ big \in {left, right} /\ a.right \in {left, right} /\ {big, a.right} = {left, right}
        /\ big # a.right /\ h1 = [h EXCEPT ![a.right].list = <<>>]
        /\ Moves(h1, big, tab, a.heap, a.left)
  BY <1>1 DEF AddedTogether
<1>3. DOMAIN h1 = DOMAIN h /\ IsHeap(h1)
  BY <1>2 DEF IsHeap
<1>4. /\ IsHeap(a.heap) /\ a.left \notin DOMAIN h \ {big}
      /\ DOMAIN a.heap = (DOMAIN h \ {big}) \cup {a.left}
  <2>1. PICK new, new_id : /\ new = a.heap /\ new_id = a.left /\ Moves(h1, big, tab, new, new_id)
                           /\ big \in DOMAIN h1
    BY <1>2, <1>3
  <2>2. /\ IsHeap(new) /\ new_id \notin DOMAIN h1 \ {big}
        /\ DOMAIN new = (DOMAIN h1 \ {big}) \cup {new_id}
    BY <2>1, <1>3 DEF Moves
  <2>3. QED
    BY <1>3, <2>1, <2>2
<1>5. DOMAIN h \ {big} = rest \cup {a.right} /\ a.right \notin rest
  BY <1>2
<1>6. a.left \in Nat /\ a.right \in Nat
  BY <1>2, <1>4 DEF IsHeap
<1>7. QED
  BY <1>4, <1>5, <1>6

\* The tables of a heap, with that of the work.
HeapApart(h, F, H, S, work, L) == IsHeap(h) /\ Apart(DOMAIN h, F, H, S, {work}, L)

\* The work of what returns is added to the table of the work, then to dst.
WorkAddedTo(h, work, dst, update, w, s) ==
  w = AddTo(h, work, update) /\ s = AddTo(w.heap, dst, update)

LEMMA TwoMove ==
  ASSUME NEW h, NEW F, NEW H, NEW S, NEW work, NEW L, HeapApart(h, F, H, S, work, L),
         NEW dst \in F, NEW update, NEW w, NEW s, WorkAddedTo(h, work, dst, update, w, s)
  PROVE  /\ w.id \in Nat /\ s.id \in Nat /\ s.id \notin F \ {dst}
         /\ HeapApart(s.heap, (F \ {dst}) \cup {s.id}, H, S, w.id, L)
<1>1. /\ work \in DOMAIN h /\ dst \in DOMAIN h /\ dst # work /\ IsHeap(h)
      /\ Apart(DOMAIN h, F, H, S, {work}, L)
      /\ w = AddTo(h, work, update) /\ s = AddTo(w.heap, dst, update)
  BY DEF Apart, HeapApart, WorkAddedTo
<1>2. /\ IsHeap(w.heap) /\ w.id \in Nat /\ w.id \notin DOMAIN h \ {work}
      /\ DOMAIN w.heap = (DOMAIN h \ {work}) \cup {w.id}
  <2>1. MovedTo(h, work, w.heap, w.id)
    BY ONLY <1>1, TableMoves
  <2>2. QED
    BY <2>1 DEF MovedTo
<1>3. Apart(DOMAIN w.heap, F, H, S, {w.id}, L)
  <2>1. PICK all, old, new, was : all = DOMAIN h /\ old = {work} /\ new = {w.id} /\ was = {work}
    OBVIOUS
  <2>2. Apart(all, F, H, S, was, L) /\ new \cap (all \ old) = {} /\ old \subseteq was
    BY <1>1, <1>2, <2>1
  <2>3. Apart((all \ old) \cup new, F, H, S, (was \ old) \cup new, L)
    BY ONLY <2>2, ApartChanged
  <2>4. (was \ old) \cup new = {w.id} /\ (all \ old) \cup new = DOMAIN w.heap
    BY <1>2, <2>1
  <2>5. QED
    BY <2>3, <2>4
<1>4. dst \in DOMAIN w.heap
  BY <1>3 DEF Apart
<1>5. /\ IsHeap(s.heap) /\ s.id \in Nat /\ s.id \notin DOMAIN w.heap \ {dst}
      /\ DOMAIN s.heap = (DOMAIN w.heap \ {dst}) \cup {s.id}
  <2>1. IsHeap(w.heap) /\ s = AddTo(w.heap, dst, update)
    BY <1>1, <1>2
  <2>2. MovedTo(w.heap, dst, s.heap, s.id)
    BY ONLY <1>4, <2>1, TableMoves
  <2>3. QED
    BY <2>2 DEF MovedTo
<1>6. Apart(DOMAIN s.heap, (F \ {dst}) \cup {s.id}, H, S, {w.id}, L)
  <2>1. PICK all, old, new, now : /\ all = DOMAIN w.heap /\ old = {dst} /\ new = {s.id}
                                  /\ now = {w.id}
    OBVIOUS
  <2>2. Apart(all, F, H, S, now, L) /\ new \cap (all \ old) = {} /\ old \subseteq F
    BY <1>3, <1>5, <2>1
  <2>3. Apart((all \ old) \cup new, (F \ old) \cup new, H, S, now, L)
    BY ONLY <2>2, ApartChanged
  <2>4. QED
    BY <1>5, <2>1, <2>3
<1>7. F \subseteq DOMAIN w.heap
  BY <1>3 DEF Apart
<1>8. QED
  BY <1>2, <1>5, <1>6, <1>7 DEF HeapApart

\* The tables of the frame on top, if it has all three or one.
LEMMA TopTables ==
  ASSUME NEW frs \in Seq(Frame), NEW k \in Nat, Len(frs) = k + 1
  PROVE  /\ OwnedBy(frs, k + 1) = OwnedBy(frs, k) \cup TablesIn(frs[k + 1], Places)
         /\ OwnedOnce(frs, k + 1) <=>
              /\ OwnedOnce(frs, k) /\ Different(frs[k + 1], Places)
              /\ OwnedBy(frs, k) \cap TablesIn(frs[k + 1], Places) = {}
<1>1. \A i \in 1 .. k : frs[i] = frs[i]
  OBVIOUS
<1>2. k + 1 <= Len(frs) /\ ~(k + 1 < Len(frs))
  OBVIOUS
<1>3. QED
  BY <1>1, <1>2, OwnedReplace

LEMMA ThreeTables ==
  ASSUME NEW f \in Frame, NEW p, NEW l, NEW c,
         f.prefix_table = p, f.lchild_table = l, f.contin_table = c,
         p # NULL, l # NULL, c # NULL
  PROVE  TablesIn(f, Places) = {p, l, c} /\ (Different(f, Places) <=> p # l /\ p # c /\ l # c)
<1>1. TableAt(f, "prefix_table") = p /\ TableAt(f, "lchild_table") = l /\ TableAt(f, "contin_table") = c
  BY TablesAt
<1>2. TablesIn(f, Places) = {p, l, c}
  BY <1>1 DEF TablesIn, Places
<1>3. Different(f, Places) <=> p # l /\ p # c /\ l # c
  BY <1>1 DEF Different, Places
<1>4. QED
  BY <1>2, <1>3

LEMMA OneTable ==
  ASSUME NEW f \in Frame, NEW p, f.prefix_table = p, f.lchild_table = NULL, f.contin_table = NULL, p # NULL
  PROVE  TablesIn(f, Places) = {p} /\ Different(f, Places)
<1>1. TableAt(f, "prefix_table") = p /\ TableAt(f, "lchild_table") = NULL /\ TableAt(f, "contin_table") = NULL
  BY TablesAt
<1>2. TablesIn(f, Places) = {p}
  BY <1>1 DEF TablesIn, Places
<1>3. Different(f, Places)
  BY <1>1 DEF Different, Places
<1>4. QED
  BY <1>2, <1>3

\* The frame on top gets other tables.
LEMMA TopReplaced ==
  ASSUME Inv, Inv', OwnersInv, TOOL_INITIALIZED, TOOL_INITIALIZED',
         NEW k \in Nat, Len(frames) = k + 1, Len(frames') = k + 1,
         \A i \in 1 .. k : frames'[i] = frames[i] /\ hist'[i].stage = hist[i].stage,
         frames'[k + 1].func_type = frames[k + 1].func_type, Furnished(frames'[k + 1]),
         hist'[k + 1].stage = hist[k + 1].stage,
         UNCHANGED <<helper_sf_free_list, spawner_sf_free_list>>,
         pc' \notin {"syncing", "detaching"}, wrk_table' \in Nat,
         Different(frames'[k + 1], Places),
         OwnedBy(frames, k) \cap TablesIn(frames'[k + 1], Places) = {},
         Apart(DOMAIN heap', OwnedBy(frames, k) \cup TablesIn(frames'[k + 1], Places),
               HelpersHeld(helper_sf_free_list), SpawnersHeld(spawner_sf_free_list),
               {wrk_table'}, leaked')
  PROVE  OwnersInv'
<1>1. frames \in Seq(Frame) /\ bot = frames[k + 1]
  BY StackOfFrames
<1>2. frames' \in Seq(Frame) /\ frames' # <<>> /\ bot' = frames'[k + 1]
  BY DEF Inv, FramesInv, Piled, bot, Last
<1>3. /\ Kinds(frames, hist) /\ OwnedOnce(frames, k + 1)
      /\ HelpersOnce(helper_sf_free_list) /\ SpawnersOnce(spawner_sf_free_list)
      /\ wrk_table \in Nat /\ NULL \notin Nat
      /\ \A i \in 1 .. k + 1 : KindAt(frames, hist, i)
  BY RunningOwners
<1>4. PICK frs, hs, new, gs : frs = frames /\ hs = hist /\ new = frames' /\ gs = hist'
  OBVIOUS
<1>5. /\ frs \in Seq(Frame) /\ new \in Seq(Frame) /\ Len(frs) = k + 1 /\ Len(new) = k + 1
      /\ Kinds(frs, hs) /\ new[k + 1].func_type = frs[k + 1].func_type /\ Furnished(new[k + 1])
      /\ \A i \in 1 .. k : new[i] = frs[i] /\ gs[i].stage = hs[i].stage
      /\ gs[k + 1].stage = hs[k + 1].stage /\ k + 1 \in 1 .. k + 1 /\ k \in Nat
      /\ KindAt(frs, hs, k + 1)
  BY <1>1, <1>2, <1>3, <1>4
<1>6. OwnedOnce(frs, k)
  BY <1>1, <1>3, <1>4, <1>5, TopTables
<1>7. /\ OwnedBy(new, k + 1) = OwnedBy(frs, k) \cup TablesIn(new[k + 1], Places)
      /\ OwnedOnce(new, k + 1) <=>
           /\ OwnedOnce(frs, k) /\ Different(new[k + 1], Places)
           /\ OwnedBy(frs, k) \cap TablesIn(new[k + 1], Places) = {}
  <2>1. k + 1 <= Len(frs)
    BY <1>5
  <2>2. QED
    BY ONLY <1>5, <2>1, OwnedReplace
<1>8. Kinds(new, gs)
  <2>1. KindAt(new, gs, k + 1)
    <3>1. Furnished(frs[k + 1])
      BY <1>5 DEF KindAt
    <3>2. k + 1 > 1 => new[(k + 1) - 1] = frs[(k + 1) - 1]
      BY <1>5
    <3>3. QED
      BY <1>5, <3>1, <3>2, KindKept
  <2>2. Len(frs) \in Nat /\ k <= Len(frs) /\ k \in Nat /\ Len(new) = k + 1 /\ Kinds(frs, hs)
    BY <1>5
  <2>3. \A i \in 1 .. k : new[i] = frs[i] /\ gs[i].stage = hs[i].stage
    BY <1>5
  <2>4. QED
    BY ONLY <2>1, <2>2, <2>3, KindsTop
<1>9. wrk_table' # NULL /\ {wrk_table'} \ {NULL} = {wrk_table'}
  BY <1>3
<1>10. QED
  BY <1>2, <1>3, <1>4, <1>6, <1>7, <1>8, <1>9 DEF OwnersInv

\* One of the tables of a frame is exchanged.
LEMMA PlaceSet ==
  ASSUME NEW f \in Frame, NEW g \in Frame, NEW lent \in Places, NEW dst, TableAt(f, lent) = dst,
         dst # NULL, NEW id \in Nat, NULL \notin Nat, TableAt(g, lent) = id,
         \A place \in Places \ {lent} : TableAt(g, place) = TableAt(f, place),
         NEW R, Different(f, Places), R \cap TablesIn(f, Places) = {},
         id \notin (R \cup TablesIn(f, Places)) \ {dst}
  PROVE  /\ Different(g, Places) /\ R \cap TablesIn(g, Places) = {}
         /\ R \cup TablesIn(g, Places) = ((R \cup TablesIn(f, Places)) \ {dst}) \cup {id}
<1>1. dst \in TablesIn(f, Places) /\ dst \notin R
  BY DEF TablesIn
<1>2. \A place \in Places \ {lent} : TableAt(f, place) # NULL => TableAt(f, place) # dst
  BY DEF Different
<1>3. TablesIn(g, Places) = (TablesIn(f, Places) \ {dst}) \cup {id}
  <2>1. \A x \in TablesIn(g, Places) : x \in (TablesIn(f, Places) \ {dst}) \cup {id}
    BY <1>2 DEF TablesIn
  <2>2. \A x \in TablesIn(f, Places) \ {dst} : x \in TablesIn(g, Places)
    BY DEF TablesIn
  <2>3. id \in TablesIn(g, Places)
    BY DEF TablesIn
  <2>4. QED
    BY <2>1, <2>2, <2>3
<1>4. \A place \in Places \ {lent} : TableAt(g, place) # NULL => TableAt(g, place) # id
  <2>1. ASSUME NEW place \in Places \ {lent}, TableAt(g, place) # NULL PROVE TableAt(g, place) # id
    <3>1. TableAt(g, place) \in TablesIn(f, Places) /\ TableAt(g, place) # dst
      BY <1>2, <2>1 DEF TablesIn
    <3>2. QED
      BY <3>1
  <2>2. QED
    BY <2>1
<1>5. Different(g, Places)
  <2>1. SUFFICES ASSUME NEW p \in Places, NEW q \in Places, TableAt(g, p) = TableAt(g, q),
                        TableAt(g, p) # NULL
                 PROVE  p = q
    BY DEF Different
  <2>2. CASE p = lent \/ q = lent
    BY <1>4, <2>1, <2>2
  <2>3. CASE p # lent /\ q # lent
    BY <2>1, <2>3 DEF Different
  <2>4. QED
    BY <2>2, <2>3
<1>6. R \cap TablesIn(g, Places) = {}
  BY <1>1, <1>3
<1>7. QED
  BY <1>1, <1>3, <1>5, <1>6

\* The tables of a frame that has synced.
LEMMA SyncedTables ==
  ASSUME bot \in Frame, NEW child \in BOOLEAN, NEW running, NEW a, NEW f, f = Synced(child, running, a)
  PROVE  /\ f.func_type = bot.func_type /\ f.lchild_spn = 0 /\ f.prefix_table = a.left
         /\ child => f.lchild_table = a.right /\ f.contin_table = bot.contin_table
         /\ ~child => f.contin_table = a.right /\ f.lchild_table = bot.lchild_table
<1>1. PICK b \in Frame : b = bot
  OBVIOUS
<1>2. PICK l, r : l = a.left /\ r = a.right
  OBVIOUS
<1>3. CASE child
  <2>1. PICK p : f = [b EXCEPT !.prefix_spn = p, !.lchild_spn = 0, !.local_contin = 0,
                               !.prefix_table = l, !.lchild_table = r]
    BY <1>1, <1>2, <1>3 DEF Synced
  <2>2. /\ f.func_type = b.func_type /\ f.lchild_spn = 0 /\ f.prefix_table = l
        /\ f.lchild_table = r /\ f.contin_table = b.contin_table
    BY <2>1 DEF Frame
  <2>3. QED
    BY <1>1, <1>2, <1>3, <2>2
<1>4. CASE ~child
  <2>1. PICK p, s : f = [b EXCEPT !.prefix_spn = p, !.lchild_spn = 0, !.local_spn = s,
                                  !.local_contin = 0, !.prefix_table = l, !.contin_table = r]
    BY <1>1, <1>2, <1>4 DEF Synced
  <2>2. /\ f.func_type = b.func_type /\ f.lchild_spn = 0 /\ f.prefix_table = l
        /\ f.contin_table = r /\ f.lchild_table = b.lchild_table
    BY <2>1 DEF Frame
  <2>3. QED
    BY <1>1, <1>2, <1>4, <2>2
<1>5. QED
  BY <1>3, <1>4

\* The frame that owns tables p, q and o of the heap; R are the others' tables.
ThreeApart(h, R, H, S, W, L, p, q, o) ==
  /\ IsHeap(h) /\ p # q /\ p # o /\ q # o /\ R \cap {p, q, o} = {}
  /\ Apart(DOMAIN h, R \cup {p, q, o}, H, S, W, L)

\* Two of the three are added together, and the frame keeps the third.
LEMMA SumApart ==
  ASSUME NEW h, NEW R, NEW H, NEW S, NEW W, NEW L, NEW p, NEW q, NEW o,
         ThreeApart(h, R, H, S, W, L, p, q, o), NEW a, a = AddTables(h, p, q)
  PROVE  ThreeApart(a.heap, R, H, S, W, L, a.left, a.right, o)
<1>1. /\ p \in DOMAIN h /\ q \in DOMAIN h /\ o \in DOMAIN h /\ R \subseteq DOMAIN h
      /\ IsHeap(h) /\ p # q /\ p # o /\ q # o /\ R \cap {p, q, o} = {}
      /\ Apart(DOMAIN h, R \cup {p, q, o}, H, S, W, L)
  BY DEF Apart, ThreeApart
<1>2. PICK rest, left, right : /\ rest = DOMAIN h \ {p, q} /\ left = a.left /\ right = a.right
  OBVIOUS
<1>3. /\ IsHeap(a.heap) /\ left \in Nat /\ right \in Nat /\ left # right
      /\ DOMAIN a.heap = rest \cup {left, right} /\ left \notin rest /\ right \notin rest
  BY <1>1, <1>2, TablesAddUp
<1>4. o \in rest /\ o \in Nat /\ R \subseteq rest
  BY <1>1, <1>2 DEF IsHeap
<1>5. Apart(DOMAIN a.heap, R \cup {left, right, o}, H, S, W, L)
  <2>1. PICK all, old, new, was :
          all = DOMAIN h /\ old = {p, q} /\ new = {left, right} /\ was = R \cup {p, q, o}
    OBVIOUS
  <2>2. Apart(all, was, H, S, W, L) /\ new \cap (all \ old) = {} /\ old \subseteq was
    BY <1>1, <1>2, <1>3, <2>1
  <2>3. Apart((all \ old) \cup new, (was \ old) \cup new, H, S, W, L)
    BY ONLY <2>2, ApartChanged
  <2>4. (was \ old) \cup new = R \cup {left, right, o} /\ (all \ old) \cup new = DOMAIN a.heap
    BY <1>1, <1>2, <1>3, <2>1
  <2>5. QED
    BY <2>3, <2>4
<1>6. QED
  BY <1>2, <1>3, <1>4, <1>5 DEF ThreeApart

\* The three tables of the frame on top, if it is not a spawn helper's.
LEMMA TopThree ==
  ASSUME Inv, OwnersInv, TOOL_INITIALIZED, bot.func_type # "HELPER",
         NEW k \in Nat, Len(frames) = k + 1, NEW p, NEW l, NEW c,
         bot.prefix_table = p, bot.lchild_table = l, bot.contin_table = c
  PROVE  /\ p # l /\ p # c /\ l # c /\ OwnedBy(frames, k) \cap {p, l, c} = {}
         /\ OwnedOnce(frames, k) /\ OwnedBy(frames, k + 1) = OwnedBy(frames, k) \cup {p, l, c}
         /\ p # NULL /\ l # NULL /\ c # NULL
<1>1. frames \in Seq(Frame) /\ bot = frames[k + 1] /\ bot \in Frame
  BY StackOfFrames
<1>2. OwnedOnce(frames, k + 1) /\ \A i \in 1 .. k + 1 : KindAt(frames, hist, i)
  BY RunningOwners
<1>3. PICK f \in Frame : f = bot /\ f = frames[k + 1]
  BY <1>1
<1>4. Furnished(f)
  <2>1. k + 1 \in 1 .. k + 1
    OBVIOUS
  <2>2. QED
    BY <1>2, <1>3, <2>1 DEF KindAt
<1>5. p # NULL /\ l # NULL /\ c # NULL
  BY <1>3, <1>4 DEF Furnished
<1>6. TablesIn(f, Places) = {p, l, c} /\ (Different(f, Places) <=> p # l /\ p # c /\ l # c)
  BY <1>3, <1>5, ThreeTables
<1>7. /\ OwnedBy(frames, k + 1) = OwnedBy(frames, k) \cup TablesIn(f, Places)
      /\ OwnedOnce(frames, k + 1) <=>
           /\ OwnedOnce(frames, k) /\ Different(f, Places)
           /\ OwnedBy(frames, k) \cap TablesIn(f, Places) = {}
  BY <1>1, <1>3, TopTables
<1>8. QED
  BY <1>2, <1>5, <1>6, <1>7

LEMMA SyncKeepsOwners ==
  ASSUME Inv, Inv', OwnersInv, cilk_sync_end
  PROVE  OwnersInv'
<1>1. TOOL_INITIALIZED /\ bot.func_type = "SPAWNER"
  BY DEF Inv, FlagsInv, cilk_sync_end, OwnersInv
<1>2. PICK k \in Nat : /\ Len(frames) = k + 1 /\ Len(hist) = k + 1
                       /\ frames \in Seq(Frame) /\ hist \in Seq(HistRec)
                       /\ bot = frames[k + 1] /\ bot \in Frame /\ Last(hist) = hist[k + 1]
  BY <1>1, StackOfFrames
<1>3. /\ wrk_table \in Nat /\ NULL \notin Nat /\ IsHeap(heap)
      /\ Apart(DOMAIN heap, OwnedBy(frames, k + 1), HelpersHeld(helper_sf_free_list),
               SpawnersHeld(spawner_sf_free_list), {wrk_table}, leaked)
  BY <1>1, <1>2, RunningOwners
<1>4. PICK p, l, c : p = bot.prefix_table /\ l = bot.lchild_table /\ c = bot.contin_table
  OBVIOUS
<1>5. PICK R : R = OwnedBy(frames, k)
  OBVIOUS
<1>6. /\ p # l /\ p # c /\ l # c /\ R \cap {p, l, c} = {}
      /\ OwnedBy(frames, k + 1) = R \cup {p, l, c}
  BY <1>1, <1>2, <1>4, <1>5, TopThree
<1>7. PICK running : running = Last(c_stack).running_spn
  OBVIOUS
<1>8. PICK child \in BOOLEAN : child = ChildIsLonger(bot.lchild_spn, running + bot.local_contin)
  <2>1. PICK longer : longer = ChildIsLonger(bot.lchild_spn, running + bot.local_contin)
    OBVIOUS
  <2>2. longer \in BOOLEAN
    BY <2>1 DEF ChildIsLonger
  <2>3. QED
    BY <2>1, <2>2
<1>9. PICK q, o : q = (IF child THEN l ELSE c) /\ o = (IF child THEN c ELSE l)
  OBVIOUS
<1>10. PICK a : a = AddTables(heap, p, q)
  OBVIOUS
<1>11. PICK b1 : b1 = Synced(child, running, a)
  OBVIOUS
<1>12. /\ frames' = Bottom(b1) /\ heap' = Clear(Clear(a.heap, b1.lchild_table), b1.contin_table)
       /\ pc' = "user"
       /\ UNCHANGED <<helper_sf_free_list, spawner_sf_free_list, wrk_table, toolVars>>
  BY <1>4, <1>7, <1>8, <1>9, <1>10, <1>11 DEF cilk_sync_end
<1>13. /\ IsHeap(a.heap) /\ a.left \in Nat /\ a.right \in Nat /\ o \in Nat
       /\ a.left # a.right /\ a.left # o /\ a.right # o /\ R \cap {a.left, a.right, o} = {}
       /\ Apart(DOMAIN a.heap, R \cup {a.left, a.right, o}, HelpersHeld(helper_sf_free_list),
                SpawnersHeld(spawner_sf_free_list), {wrk_table}, leaked)
  <2>1. {p, l, c} = {p, q, o} /\ p # q /\ p # o /\ q # o
    BY <1>6, <1>9
  <2>2. PICK H, S, W, L : /\ H = HelpersHeld(helper_sf_free_list) /\ W = {wrk_table}
                          /\ S = SpawnersHeld(spawner_sf_free_list) /\ L = leaked
    OBVIOUS
  <2>3. PICK h : h = heap /\ a = AddTables(h, p, q) /\ ThreeApart(h, R, H, S, W, L, p, q, o)
    BY <1>3, <1>6, <1>10, <2>1, <2>2 DEF ThreeApart
  <2>4. ThreeApart(a.heap, R, H, S, W, L, a.left, a.right, o)
    BY ONLY <2>3, SumApart
  <2>5. a.left \in DOMAIN a.heap /\ a.right \in DOMAIN a.heap /\ o \in DOMAIN a.heap
    BY <2>4 DEF ThreeApart, Apart
  <2>6. QED
    BY <2>2, <2>4, <2>5 DEF ThreeApart, IsHeap
<1>14. DOMAIN heap' = DOMAIN a.heap
  BY <1>12, ClearFacts
<1>15. /\ b1.func_type = bot.func_type /\ b1.lchild_spn = 0 /\ b1.prefix_table = a.left
       /\ child => b1.lchild_table = a.right /\ b1.contin_table = o
       /\ ~child => b1.contin_table = a.right /\ b1.lchild_table = o
  BY <1>2, <1>4, <1>9, <1>11, SyncedTables
<1>16. b1 \in Frame /\ b1.c_head = bot.c_head
  <2>1. a.left \in Ids /\ a.right \in Ids
    BY <1>13 DEF Ids
  <2>2. running \in Nat
    <3>1. c_stack \in Seq(CFrame) /\ Len(c_stack) > 0
      BY <1>1 DEF Inv, CStackInv
    <3>2. Last(c_stack) \in CFrame
      BY <3>1 DEF Last
    <3>3. QED
      BY <1>7, <3>2, CFrameFacts
  <2>3. QED
    BY <1>2, <1>11, <2>1, <2>2, SyncedFacts
<1>17. PICK new : new = Bottom(b1)
  OBVIOUS
<1>18. Len(new) = k + 1 /\ new[k + 1] = b1 /\ \A i \in 1 .. k : new[i] = frames[i]
  <2>1. TOOL_INITIALIZED /\ Len(frames) = k + 1
    BY <1>1, <1>2
  <2>2. QED
    BY ONLY Inv, <2>1, k \in Nat, <1>16, <1>17, NewBottom
<1>19. TablesIn(b1, Places) = {a.left, a.right, o} /\ Different(b1, Places)
  <2>1. PICK p1, l1, c1 : p1 = b1.prefix_table /\ l1 = b1.lchild_table /\ c1 = b1.contin_table
    OBVIOUS
  <2>2. {p1, l1, c1} = {a.left, a.right, o} /\ p1 # l1 /\ p1 # c1 /\ l1 # c1
    BY <1>13, <1>15, <2>1
  <2>3. p1 # NULL /\ l1 # NULL /\ c1 # NULL
    BY <1>3, <1>13, <1>15, <2>1
  <2>4. QED
    BY <1>16, <2>1, <2>2, <2>3, ThreeTables
<1>20. Furnished(b1)
  BY <1>1, <1>3, <1>13, <1>15 DEF Furnished
<1>21. \A i \in 1 .. k + 1 : hist'[i].stage = hist[i].stage
  <2>1. PICK joined : hist' = [hist EXCEPT ![Len(hist)].unsynced = FALSE, ![Len(hist)].join = joined]
    BY DEF cilk_sync_end
  <2>2. PICK m \in 1 .. Len(hist) : m = k + 1 /\ m = Len(hist)
    BY <1>2
  <2>3. PICK r \in HistRec : r = hist[m]
    BY <1>2
  <2>4. PICK g : g = [r EXCEPT !.unsynced = FALSE, !.join = joined]
    OBVIOUS
  <2>5. g.stage = r.stage
    BY <2>4 DEF HistRec
  <2>6. hist' = [hist EXCEPT ![m] = g]
    BY <1>2, <2>1, <2>2, <2>3, <2>4
  <2>7. DOMAIN hist = 1 .. m
    BY <1>2, <2>2
  <2>8. QED
    BY <2>2, <2>3, <2>5, <2>6, <2>7
<1>22. /\ TOOL_INITIALIZED' /\ leaked' = leaked /\ wrk_table' = wrk_table
       /\ UNCHANGED <<helper_sf_free_list, spawner_sf_free_list>>
  BY <1>1, <1>12 DEF toolVars
<1>23. /\ Len(frames') = k + 1 /\ frames'[k + 1] = b1
       /\ \A i \in 1 .. k : frames'[i] = frames[i] /\ hist'[i].stage = hist[i].stage
       /\ hist'[k + 1].stage = hist[k + 1].stage
  BY <1>12, <1>17, <1>18, <1>21
<1>24. /\ frames'[k + 1].func_type = frames[k + 1].func_type /\ Furnished(frames'[k + 1])
       /\ Different(frames'[k + 1], Places)
       /\ OwnedBy(frames, k) \cap TablesIn(frames'[k + 1], Places) = {}
       /\ Apart(DOMAIN heap', OwnedBy(frames, k) \cup TablesIn(frames'[k + 1], Places),
                HelpersHeld(helper_sf_free_list), SpawnersHeld(spawner_sf_free_list),
                {wrk_table'}, leaked')
  BY <1>2, <1>5, <1>13, <1>14, <1>15, <1>19, <1>20, <1>22, <1>23
<1>25. pc' \notin {"syncing", "detaching"} /\ wrk_table' \in Nat
  BY <1>3, <1>12
<1>26. QED
  BY <1>1, <1>2, <1>22, <1>23, <1>24, <1>25, TopReplaced

\* The place a frame lends has a table.
LEMMA LentIsThere ==
  ASSUME NEW f \in Frame, Furnished(f)
  PROVE  LentTable(f) # NULL /\ LentTable(f) \in TablesIn(f, Places)
<1>1. LentTable(f) # NULL
  BY FrameFacts DEF Furnished, LentTable, FrameKinds
<1>2. QED
  BY <1>1, LentFacts DEF TablesIn

\* The table in the lent place is exchanged.
LEMMA LentSet ==
  ASSUME NEW b \in Frame, NEW id \in Ids, NEW f, f = CallerGetsBack(b, id)
  PROVE  /\ f \in Frame /\ f.c_head = b.c_head /\ f.func_type = b.func_type
         /\ f.lchild_spn = b.lchild_spn /\ TableAt(f, LentPlace(b)) = id
         /\ \A place \in Places \ {LentPlace(b)} : TableAt(f, place) = TableAt(b, place)
         /\ id # NULL /\ Furnished(b) => Furnished(f)
<1>1. CASE b.lchild_spn = 0
  <2>1. f = [b EXCEPT !.prefix_table = id]
    BY <1>1 DEF CallerGetsBack
  <2>2. f \in Frame
    BY <2>1, 0 \in Nat, FrameSet
  <2>3. /\ f.c_head = b.c_head /\ f.func_type = b.func_type /\ f.lchild_spn = b.lchild_spn
        /\ f.prefix_table = id /\ f.lchild_table = b.lchild_table /\ f.contin_table = b.contin_table
    BY <2>1 DEF Frame
  <2>4. LentPlace(b) = "prefix_table"
    BY <1>1 DEF LentPlace
  <2>5. /\ TableAt(f, "prefix_table") = id /\ TableAt(f, "lchild_table") = TableAt(b, "lchild_table")
        /\ TableAt(f, "contin_table") = TableAt(b, "contin_table")
    BY <2>2, <2>3, TablesAt
  <2>6. QED
    BY <2>2, <2>3, <2>4, <2>5 DEF Places, Furnished
<1>2. CASE b.lchild_spn # 0
  <2>1. f = [b EXCEPT !.contin_table = id]
    BY <1>2 DEF CallerGetsBack
  <2>2. f \in Frame
    BY <2>1, 0 \in Nat, FrameSet
  <2>3. /\ f.c_head = b.c_head /\ f.func_type = b.func_type /\ f.lchild_spn = b.lchild_spn
        /\ f.contin_table = id /\ f.lchild_table = b.lchild_table /\ f.prefix_table = b.prefix_table
    BY <2>1 DEF Frame
  <2>4. LentPlace(b) = "contin_table"
    BY <1>2 DEF LentPlace
  <2>5. /\ TableAt(f, "contin_table") = id /\ TableAt(f, "lchild_table") = TableAt(b, "lchild_table")
        /\ TableAt(f, "prefix_table") = TableAt(b, "prefix_table")
    BY <2>2, <2>3, TablesAt
  <2>6. QED
    BY <1>2, <2>2, <2>3, <2>4, <2>5 DEF Places, Furnished
<1>3. QED
  BY <1>1, <1>2

LEMMA LeaveCKeepsOwners ==
  ASSUME Inv, Inv', OwnersInv, NEW t \in StrandLengths, cilk_tool_c_function_leave(t)
  PROVE  OwnersInv'
<1>1. TOOL_INITIALIZED /\ t \in Nat /\ pc = "user"
  BY SitesAreSites DEF cilk_tool_c_function_leave, Running
<1>2. PICK k \in Nat : /\ Len(frames) = k + 1 /\ Len(hist) = k + 1
                       /\ frames \in Seq(Frame) /\ hist \in Seq(HistRec)
                       /\ bot = frames[k + 1] /\ bot \in Frame /\ Last(hist) = hist[k + 1]
  BY <1>1, StackOfFrames
<1>3. /\ wrk_table \in Nat /\ NULL \notin Nat /\ IsHeap(heap) /\ OwnedOnce(frames, k + 1)
      /\ Apart(DOMAIN heap, OwnedBy(frames, k + 1), HelpersHeld(helper_sf_free_list),
               SpawnersHeld(spawner_sf_free_list), {wrk_table}, leaked)
      /\ \A i \in 1 .. k + 1 : KindAt(frames, hist, i)
  BY <1>1, <1>2, RunningOwners
<1>4. PICK b \in Frame : b = bot
  BY <1>2
<1>5. Furnished(b)
  <2>1. k + 1 \in 1 .. k + 1
    OBVIOUS
  <2>2. QED
    BY <1>2, <1>3, <1>4, <2>1 DEF KindAt
<1>6. PICK R, F : R = OwnedBy(frames, k) /\ F = OwnedBy(frames, k + 1)
  OBVIOUS
<1>7. F = R \cup TablesIn(b, Places) /\ Different(b, Places) /\ R \cap TablesIn(b, Places) = {}
  BY <1>2, <1>3, <1>4, <1>6, TopTables
<1>8. PICK update, dst : /\ dst = LentTable(b)
                         /\ \E w \in {AddTo(heap, wrk_table, update)} :
                            \E s \in {AddTo(w.heap, dst, update)} :
                              /\ heap' = s.heap /\ wrk_table' = w.id
                              /\ frames' = Bottom(CallerGetsBack(b, s.id))
  <2>1. PICK update : LET w == AddTo(heap, wrk_table, update)
                          s == AddTo(w.heap, LentTable(bot), update)
                      IN  /\ heap' = s.heap /\ wrk_table' = w.id
                          /\ frames' = Bottom(IF bot.lchild_spn = 0
                                              THEN [bot EXCEPT !.prefix_table = s.id]
                                              ELSE [bot EXCEPT !.contin_table = s.id])
    BY DEF cilk_tool_c_function_leave
  <2>2. QED
    BY <1>4, <2>1 DEF CallerGetsBack
<1>9. PICK w, s : /\ w = AddTo(heap, wrk_table, update) /\ s = AddTo(w.heap, dst, update)
                  /\ heap' = s.heap /\ wrk_table' = w.id
                  /\ frames' = Bottom(CallerGetsBack(b, s.id))
  BY <1>8
<1>10. /\ pc' = "user" /\ hist' = hist
       /\ UNCHANGED <<helper_sf_free_list, spawner_sf_free_list, toolVars>>
  BY <1>1 DEF cilk_tool_c_function_leave
<1>11. dst # NULL /\ dst \in F /\ TableAt(b, LentPlace(b)) = dst /\ LentPlace(b) \in Places
  BY <1>4, <1>5, <1>7, <1>8, LentIsThere, LentFacts
<1>12. PICK H, S, L : /\ H = HelpersHeld(helper_sf_free_list) /\ L = leaked
                      /\ S = SpawnersHeld(spawner_sf_free_list)
  OBVIOUS
<1>13. /\ IsHeap(s.heap) /\ w.id \in Nat /\ s.id \in Nat /\ s.id \notin F \ {dst}
       /\ Apart(DOMAIN s.heap, (F \ {dst}) \cup {s.id}, H, S, {w.id}, L)
  <2>1. PICK h, work, charge : /\ HeapApart(h, F, H, S, work, L) /\ dst \in F
                               /\ WorkAddedTo(h, work, dst, charge, w, s)
    BY <1>3, <1>6, <1>9, <1>11, <1>12 DEF HeapApart, WorkAddedTo
  <2>2. /\ w.id \in Nat /\ s.id \in Nat /\ s.id \notin F \ {dst}
        /\ HeapApart(s.heap, (F \ {dst}) \cup {s.id}, H, S, w.id, L)
    BY ONLY <2>1, TwoMove
  <2>3. QED
    BY <2>2 DEF HeapApart
<1>14. PICK id \in Nat : id = s.id
  BY <1>13
<1>15. PICK f : f = CallerGetsBack(b, id)
  OBVIOUS
<1>16. /\ f \in Frame /\ f.c_head = b.c_head /\ f.func_type = b.func_type
       /\ TableAt(f, LentPlace(b)) = id
       /\ \A place \in Places \ {LentPlace(b)} : TableAt(f, place) = TableAt(b, place)
       /\ Furnished(f)
  <2>1. id \in Ids /\ id # NULL
    BY <1>3 DEF Ids
  <2>2. QED
    BY <1>5, <1>15, <2>1, LentSet
<1>17. /\ Different(f, Places) /\ R \cap TablesIn(f, Places) = {}
       /\ R \cup TablesIn(f, Places) = (F \ {dst}) \cup {id}
  <2>1. PICK lent \in Places : lent = LentPlace(b)
    BY <1>11
  <2>2. /\ TableAt(b, lent) = dst /\ dst # NULL /\ NULL \notin Nat /\ TableAt(f, lent) = id
        /\ \A place \in Places \ {lent} : TableAt(f, place) = TableAt(b, place)
        /\ Different(b, Places) /\ R \cap TablesIn(b, Places) = {}
        /\ id \notin (R \cup TablesIn(b, Places)) \ {dst}
    BY <1>3, <1>7, <1>11, <1>13, <1>14, <1>16, <2>1
  <2>3. f \in Frame /\ b \in Frame
    BY <1>16
  <2>4. /\ Different(f, Places) /\ R \cap TablesIn(f, Places) = {}
        /\ R \cup TablesIn(f, Places) = ((R \cup TablesIn(b, Places)) \ {dst}) \cup {id}
    BY ONLY <2>1, <2>2, <2>3, id \in Nat, lent \in Places, PlaceSet
  <2>5. QED
    BY <1>7, <2>4
<1>18. PICK new : new = Bottom(f)
  OBVIOUS
<1>19. Len(new) = k + 1 /\ new[k + 1] = f /\ \A i \in 1 .. k : new[i] = frames[i]
  <2>1. TOOL_INITIALIZED /\ Len(frames) = k + 1 /\ f \in Frame /\ f.c_head = bot.c_head
    BY <1>1, <1>2, <1>4, <1>16
  <2>2. QED
    BY ONLY Inv, <2>1, k \in Nat, <1>18, NewBottom
<1>20. /\ TOOL_INITIALIZED' /\ leaked' = leaked /\ wrk_table' \in Nat
       /\ UNCHANGED <<helper_sf_free_list, spawner_sf_free_list>>
       /\ pc' \notin {"syncing", "detaching"}
  BY <1>1, <1>9, <1>10, <1>13 DEF toolVars
<1>21. /\ Len(frames') = k + 1 /\ frames'[k + 1] = f
       /\ \A i \in 1 .. k : frames'[i] = frames[i] /\ hist'[i].stage = hist[i].stage
       /\ hist'[k + 1].stage = hist[k + 1].stage
  BY <1>9, <1>10, <1>14, <1>15, <1>18, <1>19
<1>22. /\ frames'[k + 1].func_type = frames[k + 1].func_type /\ Furnished(frames'[k + 1])
       /\ Different(frames'[k + 1], Places)
       /\ OwnedBy(frames, k) \cap TablesIn(frames'[k + 1], Places) = {}
       /\ Apart(DOMAIN heap', OwnedBy(frames, k) \cup TablesIn(frames'[k + 1], Places),
                HelpersHeld(helper_sf_free_list), SpawnersHeld(spawner_sf_free_list),
                {wrk_table'}, leaked')
  BY <1>2, <1>4, <1>6, <1>9, <1>12, <1>13, <1>14, <1>16, <1>17, <1>20, <1>21
<1>23. QED
  BY <1>1, <1>2, <1>20, <1>21, <1>22, TopReplaced

\* One of the three tables moves, or the table of the work does.
LEMMA ThreeMoves ==
  ASSUME NEW h, NEW R, NEW H, NEW S, NEW W, NEW L, NEW p, NEW q, NEW o,
         ThreeApart(h, R, H, S, W, L, p, q, o), NEW new, NEW id, MovedTo(h, p, new, id)
  PROVE  ThreeApart(new, R, H, S, W, L, id, q, o)
<1>1. /\ p # q /\ p # o /\ q # o /\ R \cap {p, q, o} = {}
      /\ Apart(DOMAIN h, R \cup {p, q, o}, H, S, W, L)
      /\ IsHeap(new) /\ id \notin DOMAIN h \ {p} /\ DOMAIN new = (DOMAIN h \ {p}) \cup {id}
  BY DEF ThreeApart, MovedTo
<1>2. {p, q, o} \subseteq DOMAIN h /\ R \subseteq DOMAIN h
  BY <1>1 DEF Apart
<1>3. id # q /\ id # o /\ R \cap {id, q, o} = {}
  BY <1>1, <1>2
<1>4. Apart(DOMAIN new, R \cup {id, q, o}, H, S, W, L)
  <2>1. PICK all, old, now, was : /\ all = DOMAIN h /\ old = {p} /\ now = {id} /\ was = R \cup {p, q, o}
    OBVIOUS
  <2>2. Apart(all, was, H, S, W, L) /\ now \cap (all \ old) = {} /\ old \subseteq was
    BY <1>1, <2>1
  <2>3. Apart((all \ old) \cup now, (was \ old) \cup now, H, S, W, L)
    BY ONLY <2>2, ApartChanged
  <2>4. (was \ old) \cup now = R \cup {id, q, o} /\ (all \ old) \cup now = DOMAIN new
    BY <1>1, <2>1
  <2>5. QED
    BY <2>3, <2>4
<1>5. QED
  BY <1>1, <1>3, <1>4 DEF ThreeApart

LEMMA WorkMoves ==
  ASSUME NEW h, NEW R, NEW H, NEW S, NEW work, NEW L, NEW p, NEW q, NEW o,
         ThreeApart(h, R, H, S, {work}, L, p, q, o), NEW new, NEW id, MovedTo(h, work, new, id)
  PROVE  ThreeApart(new, R, H, S, {id}, L, p, q, o)
<1>1. /\ p # q /\ p # o /\ q # o /\ R \cap {p, q, o} = {}
      /\ Apart(DOMAIN h, R \cup {p, q, o}, H, S, {work}, L)
      /\ IsHeap(new) /\ id \notin DOMAIN h \ {work} /\ DOMAIN new = (DOMAIN h \ {work}) \cup {id}
  BY DEF ThreeApart, MovedTo
<1>2. Apart(DOMAIN new, R \cup {p, q, o}, H, S, {id}, L)
  <2>1. PICK all, old, now, F : /\ all = DOMAIN h /\ old = {work} /\ now = {id} /\ F = R \cup {p, q, o}
    OBVIOUS
  <2>2. Apart(all, F, H, S, old, L) /\ now \cap (all \ old) = {} /\ old \subseteq old
    BY <1>1, <2>1
  <2>3. Apart((all \ old) \cup now, F, H, S, (old \ old) \cup now, L)
    BY ONLY <2>2, ApartChanged
  <2>4. (old \ old) \cup now = {id} /\ (all \ old) \cup now = DOMAIN new
    BY <1>1, <2>1
  <2>5. QED
    BY <2>1, <2>3, <2>4
<1>3. QED
  BY <1>1, <1>2 DEF ThreeApart

\* What main owns when it prints, or when the tool is destroyed.
MainApart(h, work, f) ==
  ThreeApart(h, OwnedBy(frames, 0), HelpersHeld(helper_sf_free_list),
             SpawnersHeld(spawner_sf_free_list), {work}, leaked,
             f.prefix_table, f.contin_table, f.lchild_table)

LEMMA MainOwns ==
  ASSUME Inv, OwnersInv, TOOL_INITIALIZED, Len(frames) = 1
  PROVE  /\ MainApart(heap, wrk_table, bot) /\ bot.func_type # "HELPER" /\ NULL \notin Nat
         /\ wrk_table \in Nat
<1>1. 0 \in Nat /\ Len(frames) = 0 + 1
  OBVIOUS
<1>2. frames \in Seq(Frame) /\ bot = frames[1]
  BY <1>1, StackOfFrames
<1>3. /\ wrk_table \in Nat /\ NULL \notin Nat /\ IsHeap(heap)
      /\ Apart(DOMAIN heap, OwnedBy(frames, 0 + 1), HelpersHeld(helper_sf_free_list),
               SpawnersHeld(spawner_sf_free_list), {wrk_table}, leaked)
      /\ \A i \in 1 .. 0 + 1 : KindAt(frames, hist, i)
  BY <1>1, RunningOwners
<1>4. bot.func_type # "HELPER"
  BY <1>2, <1>3 DEF KindAt
<1>5. PICK p, l, c : p = bot.prefix_table /\ l = bot.lchild_table /\ c = bot.contin_table
  OBVIOUS
<1>6. /\ p # l /\ p # c /\ l # c /\ OwnedBy(frames, 0) \cap {p, l, c} = {}
      /\ OwnedBy(frames, 0 + 1) = OwnedBy(frames, 0) \cup {p, l, c}
  BY <1>1, <1>4, <1>5, TopThree
<1>7. {p, l, c} = {p, c, l}
  OBVIOUS
<1>8. QED
  BY <1>3, <1>4, <1>5, <1>6, <1>7 DEF MainApart, ThreeApart

\* ... and what it owns when it has printed.
LEMMA PrintedOwns ==
  ASSUME Inv, OwnersInv, TOOL_INITIALIZED, Len(frames) = 1, NEW r, r = Printed
  PROVE  /\ MainApart(r.heap, r.wrk_table, r.main) /\ r.wrk_table \in Nat
         /\ r.main.func_type = bot.func_type
<1>1. MainApart(heap, wrk_table, bot)
  BY MainOwns
<1>2. PICK p, c, l : p = bot.prefix_table /\ l = bot.lchild_table /\ c = bot.contin_table
  OBVIOUS
<1>3. PICK R, H, S, L : /\ R = OwnedBy(frames, 0) /\ H = HelpersHeld(helper_sf_free_list)
                        /\ S = SpawnersHeld(spawner_sf_free_list) /\ L = leaked
  OBVIOUS
<1>4. PICK h0, work : /\ h0 = heap /\ work = wrk_table
                      /\ ThreeApart(h0, R, H, S, {work}, L, p, c, l)
  BY <1>1, <1>2, <1>3 DEF MainApart
<1>5. PICK a : a = AddTables(h0, p, c)
  OBVIOUS
<1>6. ThreeApart(a.heap, R, H, S, {work}, L, a.left, a.right, l)
  BY ONLY <1>4, <1>5, SumApart
<1>7. PICK h1 : h1 = Clear(a.heap, a.right)
  OBVIOUS
<1>8. ThreeApart(h1, R, H, S, {work}, L, a.left, a.right, l)
  <2>1. DOMAIN h1 = DOMAIN a.heap /\ (IsHeap(a.heap) => IsHeap(h1))
    BY <1>7, ClearFacts
  <2>2. QED
    BY <1>6, <2>1 DEF ThreeApart
<1>9. PICK s : s = Flush(h1, a.left)
  OBVIOUS
<1>10. MovedTo(h1, a.left, s.heap, s.id)
  <2>1. IsHeap(h1) /\ a.left \in DOMAIN h1
    BY <1>8 DEF ThreeApart, Apart
  <2>2. QED
    BY <1>9, <2>1, TableMoves
<1>11. ThreeApart(s.heap, R, H, S, {work}, L, s.id, a.right, l)
  BY ONLY <1>8, <1>10, ThreeMoves
<1>12. PICK w : w = Flush(s.heap, work)
  OBVIOUS
<1>13. MovedTo(s.heap, work, w.heap, w.id)
  <2>1. IsHeap(s.heap) /\ work \in DOMAIN s.heap
    BY <1>11 DEF ThreeApart, Apart
  <2>2. QED
    BY <1>12, <2>1, TableMoves
<1>14. ThreeApart(w.heap, R, H, S, {w.id}, L, s.id, a.right, l)
  BY ONLY <1>11, <1>13, WorkMoves
<1>15. w.id \in Nat
  BY <1>13 DEF MovedTo
<1>16. PICK b \in Frame : b = bot
  <2>1. 0 \in Nat /\ Len(frames) = 0 + 1
    OBVIOUS
  <2>2. QED
    BY <2>1, StackOfFrames
<1>17. PICK i, j : i = s.id /\ j = a.right
  OBVIOUS
<1>18. PICK m : m = [b EXCEPT !.prefix_table = i, !.contin_table = j]
  OBVIOUS
<1>19. /\ m.prefix_table = i /\ m.contin_table = j /\ m.lchild_table = b.lchild_table
       /\ m.func_type = b.func_type
  BY <1>18 DEF Frame
<1>20. r = [heap |-> w.heap, wrk_table |-> w.id, main |-> m]
  BY <1>2, <1>4, <1>5, <1>7, <1>9, <1>12, <1>16, <1>17, <1>18 DEF Printed
<1>21. r.heap = w.heap /\ r.wrk_table = w.id /\ r.main = m
  BY <1>20
<1>22. QED
  BY <1>2, <1>3, <1>14, <1>15, <1>16, <1>17, <1>19, <1>21 DEF MainApart

LEMMA PrintKeepsOwners ==
  ASSUME Inv, Inv', OwnersInv, cilk_tool_print
  PROVE  OwnersInv'
<1>1. TOOL_INITIALIZED /\ Len(frames) = 1 /\ pc = "user"
  BY DEF cilk_tool_print, InMain, Running
<1>2. 0 \in Nat /\ Len(frames) = 0 + 1 /\ Len(frames) = 1
  BY <1>1
<1>3. PICK p, main : /\ p = Printed /\ main = p.main /\ heap' = p.heap /\ wrk_table' = p.wrk_table
                     /\ frames' = <<main>>
  BY DEF cilk_tool_print
<1>4. /\ UNCHANGED <<helper_sf_free_list, spawner_sf_free_list>> /\ hist' = hist /\ leaked' = leaked
      /\ TOOL_INITIALIZED' /\ pc' = "user"
  BY <1>1 DEF cilk_tool_print, histVars
<1>5. /\ MainApart(p.heap, p.wrk_table, main) /\ p.wrk_table \in Nat /\ main.func_type = bot.func_type
  BY <1>1, <1>3, PrintedOwns
<1>6. bot.func_type # "HELPER" /\ NULL \notin Nat
  BY <1>1, MainOwns
<1>7. frames' \in Seq(Frame) /\ Len(frames') = 0 + 1 /\ frames'[0 + 1] = main /\ main \in Frame
  <2>1. frames' \in Seq(Frame) /\ Len(frames') = 1
    BY <1>3, <1>4 DEF Inv, FramesInv, Piled
  <2>2. frames'[1] = main /\ frames'[1] \in Frame
    BY <1>3, <2>1
  <2>3. QED
    BY <2>1, <2>2
<1>8. PICK q, o, c, R : /\ q = main.prefix_table /\ o = main.contin_table /\ c = main.lchild_table
                        /\ R = OwnedBy(frames, 0)
  OBVIOUS
<1>9. /\ q # o /\ q # c /\ o # c /\ R \cap {q, o, c} = {} /\ IsHeap(p.heap)
      /\ Apart(DOMAIN p.heap, R \cup {q, o, c}, HelpersHeld(helper_sf_free_list),
               SpawnersHeld(spawner_sf_free_list), {p.wrk_table}, leaked)
  BY <1>5, <1>8 DEF MainApart, ThreeApart
<1>10. q # NULL /\ o # NULL /\ c # NULL
  BY <1>6, <1>9 DEF Apart, IsHeap
<1>11. TablesIn(main, Places) = {q, o, c} /\ Different(main, Places)
  <2>1. {q, c, o} = {q, o, c}
    OBVIOUS
  <2>2. TablesIn(main, Places) = {q, c, o} /\ (Different(main, Places) <=> q # c /\ q # o /\ c # o)
    BY <1>7, <1>8, <1>10, ThreeTables
  <2>3. QED
    BY <1>9, <2>1, <2>2
<1>12. Furnished(main)
  BY <1>5, <1>6, <1>8, <1>10 DEF Furnished
<1>13. bot = frames[0 + 1]
  BY <1>1, <1>2, StackOfFrames
<1>14. /\ frames'[0 + 1].func_type = frames[0 + 1].func_type /\ Furnished(frames'[0 + 1])
       /\ Different(frames'[0 + 1], Places)
       /\ OwnedBy(frames, 0) \cap TablesIn(frames'[0 + 1], Places) = {}
       /\ Apart(DOMAIN heap', OwnedBy(frames, 0) \cup TablesIn(frames'[0 + 1], Places),
                HelpersHeld(helper_sf_free_list), SpawnersHeld(spawner_sf_free_list),
                {wrk_table'}, leaked')
  BY <1>3, <1>4, <1>5, <1>7, <1>8, <1>9, <1>11, <1>12, <1>13
<1>15. /\ \A i \in 1 .. 0 : frames'[i] = frames[i] /\ hist'[i].stage = hist[i].stage
       /\ hist'[0 + 1].stage = hist[0 + 1].stage
       /\ pc' \notin {"syncing", "detaching"} /\ wrk_table' \in Nat
  BY <1>3, <1>4, <1>5
<1>16. QED
  BY <1>1, <1>2, <1>4, <1>7, <1>14, <1>15, TopReplaced

\* Where there is nothing, nothing is held.
LEMMA NothingHeld ==
  /\ HelpersHeld(<<>>) = {} /\ SpawnersHeld(<<>>) = {}
  /\ HelpersOnce(<<>>) /\ SpawnersOnce(<<>>)
  /\ \A frs : OwnedBy(frs, 0) = {} /\ OwnedOnce(frs, 0)
<1>1. Len(<<>>) = 0 /\ 1 .. 0 = {}
  OBVIOUS
<1>2. HelpersHeld(<<>>) = {} /\ SpawnersHeld(<<>>) = {}
  BY <1>1 DEF HelpersHeld, SpawnersHeld
<1>3. HelpersOnce(<<>>) /\ SpawnersOnce(<<>>)
  BY <1>1 DEF HelpersOnce, SpawnersOnce
<1>4. \A frs : OwnedBy(frs, 0) = {} /\ OwnedOnce(frs, 0)
  BY <1>1 DEF OwnedBy, OwnedOnce
<1>5. QED
  BY <1>2, <1>3, <1>4

\* What a range of a sequence is.
LEMMA HeldIsRange ==
  ASSUME NEW S, NEW q \in Seq(S)
  PROVE  /\ Range(q) = HelpersHeld(q)
         /\ UNION {{f.lchild, f.contin} : f \in Range(q)} = SpawnersHeld(q)
<1>1. DOMAIN q = 1 .. Len(q)
  OBVIOUS
<1>2. Range(q) = HelpersHeld(q)
  BY <1>1 DEF Range, HelpersHeld
<1>3. \A x : x \in UNION {{f.lchild, f.contin} : f \in Range(q)} <=> x \in SpawnersHeld(q)
  <2>1. \A x : x \in UNION {{f.lchild, f.contin} : f \in Range(q)}
                 <=> \E i \in 1 .. Len(q) : x = q[i].lchild \/ x = q[i].contin
    BY <1>1 DEF Range
  <2>2. \A x : x \in SpawnersHeld(q) <=> \E i \in 1 .. Len(q) : x = q[i].lchild \/ x = q[i].contin
    BY DEF SpawnersHeld
  <2>3. QED
    BY <2>1, <2>2
<1>4. QED
  BY <1>2, <1>3

LEMMA DestroyKeepsOwners ==
  ASSUME Inv, Inv', OwnersInv, cilk_tool_destroy
  PROVE  OwnersInv'
<1>1. TOOL_INITIALIZED /\ Len(frames) = 1 /\ pc = "user"
  BY DEF cilk_tool_destroy, InMain, Running
<1>2. PICK p : /\ p = IF TOOL_PRINTED
                      THEN [heap |-> heap, wrk_table |-> wrk_table, main |-> bot] ELSE Printed
               /\ heap' = Restrict(p.heap, DOMAIN p.heap \ Freed(p))
               /\ leaked' = leaked \cup {p.main.lchild_table, p.main.contin_table}
  BY DEF cilk_tool_destroy
<1>3. /\ TOOL_INITIALIZED' = FALSE /\ wrk_table' = NULL /\ frames' = <<>> /\ hist' = <<>>
      /\ helper_sf_free_list' = <<>> /\ spawner_sf_free_list' = <<>> /\ pc' = "user"
  BY <1>1 DEF cilk_tool_destroy
<1>4. MainApart(p.heap, p.wrk_table, p.main)
  <2>1. CASE TOOL_PRINTED
    BY <1>1, <1>2, <2>1, MainOwns
  <2>2. CASE ~TOOL_PRINTED
    BY <1>1, <1>2, <2>2, PrintedOwns
  <2>3. QED
    BY <2>1, <2>2
<1>5. PICK q, o, c, work, L : /\ q = p.main.prefix_table /\ o = p.main.contin_table
                              /\ c = p.main.lchild_table /\ work = p.wrk_table /\ L = leaked
  OBVIOUS
<1>6. PICK H, S : H = HelpersHeld(helper_sf_free_list) /\ S = SpawnersHeld(spawner_sf_free_list)
  OBVIOUS
<1>7. /\ q # o /\ q # c /\ o # c /\ Apart(DOMAIN p.heap, {q, o, c}, H, S, {work}, L)
  <2>1. OwnedBy(frames, 0) = {}
    BY NothingHeld
  <2>2. OwnedBy(frames, 0) \cup {q, o, c} = {q, o, c}
    BY <2>1
  <2>3. QED
    BY <1>4, <1>5, <1>6, <2>2 DEF MainApart, ThreeApart
<1>8. Freed(p) = {work, q} \cup H \cup S
  <2>1. helper_sf_free_list \in Seq(Ids) /\ spawner_sf_free_list \in Seq(SpawnerTables)
    BY DEF Inv, HeapInv
  <2>2. /\ Range(helper_sf_free_list) = H
        /\ UNION {{f.lchild, f.contin} : f \in Range(spawner_sf_free_list)} = S
    BY <1>6, <2>1, HeldIsRange
  <2>3. QED
    BY <1>5, <2>2 DEF Freed
<1>9. DOMAIN heap' = DOMAIN p.heap \ Freed(p)
  BY <1>2 DEF Restrict
<1>10. DOMAIN heap' = L \cup {c, o}
  BY <1>7, <1>8, <1>9 DEF Apart
<1>11. DOMAIN heap' = leaked'
  BY <1>2, <1>5, <1>10
<1>12. Apart(DOMAIN heap', {}, {}, {}, {}, leaked')
  BY <1>11 DEF Apart
<1>13. PICK frs : frs = <<>> /\ Len(frs) = 0 /\ frames' = frs
  BY <1>3
<1>14. /\ OwnedBy(frs, Len(frs)) = {} /\ OwnedOnce(frs, Len(frs))
       /\ HelpersHeld(helper_sf_free_list') = {} /\ SpawnersHeld(spawner_sf_free_list') = {}
       /\ HelpersOnce(helper_sf_free_list') /\ SpawnersOnce(spawner_sf_free_list')
       /\ {wrk_table'} \ {NULL} = {}
  BY <1>3, <1>13, NothingHeld
<1>15. Kinds(frames', hist')
  BY <1>13 DEF Kinds
<1>16. QED
  BY <1>3, <1>12, <1>13, <1>14, <1>15 DEF OwnersInv

\* Nothing but what has leaked is in memory before the tool is initialized.
LEMMA OnlyLeaked ==
  ASSUME Inv, OwnersInv, ~TOOL_INITIALIZED
  PROVE  DOMAIN heap = leaked /\ NULL \notin Nat /\ IsHeap(heap)
<1>1. frames = <<>> /\ helper_sf_free_list = <<>> /\ spawner_sf_free_list = <<>> /\ wrk_table = NULL
  BY DEF Inv, OwnersInv
<1>2. /\ OwnedBy(frames, Len(frames)) = {} /\ {wrk_table} \ {NULL} = {}
      /\ HelpersHeld(helper_sf_free_list) = {} /\ SpawnersHeld(spawner_sf_free_list) = {}
  <2>1. Len(<<>>) = 0
    OBVIOUS
  <2>2. QED
    BY <1>1, <2>1, NothingHeld
<1>3. Apart(DOMAIN heap, {}, {}, {}, {}, leaked)
  BY <1>2 DEF OwnersInv
<1>4. QED
  BY <1>3, CcTableAssumption DEF Apart, Inv, HeapInv

\* MAIN's tables when the tool is initialized.
LEMMA InitializedOwns ==
  ASSUME IsHeap(heap), NULL \notin Nat, NEW g, g = Initialized, NEW m, m = g.main
  PROVE  /\ m \in Frame /\ m.func_type = "MAIN" /\ m.lchild_spn = 0 /\ Furnished(m)
         /\ IsHeap(g.heap) /\ g.wrk \in Nat
         /\ Different(m, Places) /\ TablesIn(m, Places) \subseteq Nat
         /\ Apart(DOMAIN g.heap, TablesIn(m, Places), {}, {}, {g.wrk}, DOMAIN heap)
<1>1. PICK h0 : h0 = heap /\ IsHeap(h0)
  OBVIOUS
<1>2. PICK h1 : h1 = Created(h0)
  OBVIOUS
<1>3. PICK h2 : h2 = Created(h1)
  OBVIOUS
<1>4. PICK h3 : h3 = Created(h2)
  OBVIOUS
<1>5. PICK h4 : h4 = Created(h3)
  OBVIOUS
<1>6. PICK p, l, c, w : p = Fresh(h0) /\ l = Fresh(h1) /\ c = Fresh(h2) /\ w = Fresh(h3)
  OBVIOUS
<1>7. IsHeap(h1) /\ p \in Nat /\ p \notin DOMAIN h0 /\ DOMAIN h1 = DOMAIN h0 \cup {p}
  BY <1>1, <1>2, <1>6, CreatedFacts, FreshFacts
<1>8. IsHeap(h2) /\ l \in Nat /\ l \notin DOMAIN h1 /\ DOMAIN h2 = DOMAIN h1 \cup {l}
  BY <1>3, <1>6, <1>7, CreatedFacts, FreshFacts
<1>9. IsHeap(h3) /\ c \in Nat /\ c \notin DOMAIN h2 /\ DOMAIN h3 = DOMAIN h2 \cup {c}
  BY <1>4, <1>6, <1>8, CreatedFacts, FreshFacts
<1>10. IsHeap(h4) /\ w \in Nat /\ w \notin DOMAIN h3 /\ DOMAIN h4 = DOMAIN h3 \cup {w}
  BY <1>5, <1>6, <1>9, CreatedFacts, FreshFacts
<1>11. PICK f : f = NewFrame("MAIN", 0, p, l, c)
  OBVIOUS
<1>12. g = [heap |-> h4, wrk |-> w, main |-> f]
  BY <1>1, <1>2, <1>3, <1>4, <1>5, <1>6, <1>11 DEF Initialized
<1>13. g.heap = h4 /\ g.wrk = w /\ m = f
  BY <1>12
<1>14. /\ f \in Frame /\ f.func_type = "MAIN" /\ f.prefix_table = p /\ f.lchild_table = l
       /\ f.contin_table = c /\ f.lchild_spn = 0
  <2>1. "MAIN" \in FrameKinds /\ 0 \in Nat /\ p \in Ids /\ l \in Ids /\ c \in Ids
    BY <1>7, <1>8, <1>9 DEF FrameKinds, Ids
  <2>2. QED
    BY <1>11, <2>1, NewFrameFacts
<1>15. p # NULL /\ l # NULL /\ c # NULL
  BY <1>7, <1>8, <1>9
<1>16. TablesIn(f, Places) = {p, l, c} /\ Different(f, Places)
  <2>1. p # l /\ p # c /\ l # c
    BY <1>7, <1>8, <1>9
  <2>2. QED
    BY <1>14, <1>15, <2>1, ThreeTables
<1>17. Furnished(f)
  BY <1>14, <1>15 DEF Furnished
<1>18. /\ DOMAIN h4 = {p, l, c} \cup {w} \cup DOMAIN h0
       /\ {p, l, c} \cap DOMAIN h0 = {} /\ w \notin {p, l, c} /\ w \notin DOMAIN h0
  BY <1>7, <1>8, <1>9, <1>10
<1>19. Apart(DOMAIN h4, {p, l, c}, {}, {}, {w}, DOMAIN h0)
  BY <1>18 DEF Apart
<1>20. QED
  BY <1>1, <1>7, <1>8, <1>9, <1>10, <1>13, <1>14, <1>16, <1>17, <1>19

\* MAIN is the only frame.
LEMMA MainAlone ==
  ASSUME NEW m \in Frame, m.func_type = "MAIN", Furnished(m), Different(m, Places),
         NEW frs, frs = <<m>>, NEW r, r.stage = "body", NEW hs, hs = <<r>>
  PROVE  /\ frs \in Seq(Frame) /\ Len(frs) = 0 + 1 /\ frs[0 + 1] = m
         /\ OwnedBy(frs, 0 + 1) = TablesIn(m, Places) /\ OwnedOnce(frs, 0 + 1)
         /\ Kinds(frs, hs)
<1>1. frs \in Seq(Frame) /\ Len(frs) = 0 + 1 /\ frs[0 + 1] = m /\ 0 \in Nat
  OBVIOUS
<1>2. /\ OwnedBy(frs, 0 + 1) = OwnedBy(frs, 0) \cup TablesIn(frs[0 + 1], Places)
      /\ OwnedOnce(frs, 0 + 1) <=>
           /\ OwnedOnce(frs, 0) /\ Different(frs[0 + 1], Places)
           /\ OwnedBy(frs, 0) \cap TablesIn(frs[0 + 1], Places) = {}
  BY ONLY <1>1, TopTables
<1>3. OwnedBy(frs, 0) = {} /\ OwnedOnce(frs, 0)
  BY NothingHeld
<1>4. Kinds(frs, hs)
  <2>1. Len(frs) = 1 /\ frs[1] = m /\ hs[1] = r
    BY <1>1
  <2>2. KindAt(frs, hs, 1)
    BY <2>1 DEF KindAt
  <2>3. QED
    BY <2>1, <2>2 DEF Kinds
<1>5. QED
  BY <1>1, <1>2, <1>3, <1>4

LEMMA EnterMainKeepsOwners ==
  ASSUME Inv, Inv', OwnersInv, cilk_tool_c_function_enter_main
  PROVE  OwnersInv'
<1>1. ~TOOL_INITIALIZED /\ TOOL_INITIALIZED' /\ leaked' = leaked /\ wrk_table' = Initialized.wrk
  BY DEF cilk_tool_c_function_enter_main, InitTool
<1>2. pc' = "user"
  <2>1. pc = "user"
    BY <1>1 DEF Inv
  <2>2. pc' = pc
    BY DEF cilk_tool_c_function_enter_main
  <2>3. QED
    BY <2>1, <2>2
<1>3. PICK g, m : g = Initialized /\ m = g.main
  OBVIOUS
<1>4. PICK r : r = History("body", NoPath, NoPath)
  OBVIOUS
<1>5. PICK frs, hs : /\ frs = <<m>> /\ hs = <<r>> /\ frames' = frs /\ hist' = hs /\ heap' = g.heap
                     /\ helper_sf_free_list' = <<>> /\ spawner_sf_free_list' = <<>>
  BY <1>3, <1>4 DEF cilk_tool_c_function_enter_main
<1>6. DOMAIN heap = leaked /\ NULL \notin Nat /\ IsHeap(heap)
  BY <1>1, OnlyLeaked
<1>7. /\ m \in Frame /\ m.func_type = "MAIN" /\ Furnished(m) /\ g.wrk \in Nat /\ Different(m, Places)
      /\ Apart(DOMAIN g.heap, TablesIn(m, Places), {}, {}, {g.wrk}, DOMAIN heap)
  BY <1>3, <1>6, InitializedOwns
<1>8. r.stage = "body"
  BY <1>4 DEF History
<1>9. /\ Len(frs) = 0 + 1 /\ OwnedBy(frs, 0 + 1) = TablesIn(m, Places) /\ OwnedOnce(frs, 0 + 1)
      /\ Kinds(frs, hs)
  BY <1>5, <1>7, <1>8, MainAlone
<1>10. wrk_table' = g.wrk /\ g.wrk # NULL /\ {g.wrk} \ {NULL} = {g.wrk}
  BY <1>1, <1>3, <1>6, <1>7
<1>11. /\ HelpersHeld(helper_sf_free_list') = {} /\ SpawnersHeld(spawner_sf_free_list') = {}
       /\ HelpersOnce(helper_sf_free_list') /\ SpawnersOnce(spawner_sf_free_list')
  BY <1>5, NothingHeld
<1>12. QED
  BY <1>1, <1>2, <1>5, <1>6, <1>7, <1>9, <1>10, <1>11 DEF OwnersInv

LEMMA PairAppended ==
  ASSUME NEW S, NEW a \in S, NEW b \in S
  PROVE  Append(<<a>>, b) = <<a, b>>
<1>1. <<a>> \in Seq(S) /\ <<a, b>> \in Seq(S)
  OBVIOUS
<1>2. Append(<<a>>, b) \in Seq(S) /\ Len(Append(<<a>>, b)) = 2 /\ Len(<<a, b>>) = 2
  BY <1>1
<1>3. \A i \in 1 .. 2 : Append(<<a>>, b)[i] = <<a, b>>[i]
  BY <1>1
<1>4. QED
  BY <1>1, <1>2, <1>3, SeqEqual

LEMMA EnterFirstKeepsOwners ==
  ASSUME Inv, Inv', OwnersInv, NEW site \in Sites, cilk_enter_begin_first(site)
  PROVE  OwnersInv'
<1>1. ~TOOL_INITIALIZED /\ TOOL_INITIALIZED' /\ leaked' = leaked /\ wrk_table' = Initialized.wrk
  BY DEF cilk_enter_begin_first, InitTool
<1>2. pc' = "entering"
  BY DEF cilk_enter_begin_first
<1>3. PICK g, m : g = Initialized /\ m = g.main
  OBVIOUS
<1>4. PICK r : r = History("body", NoPath, NoPath)
  OBVIOUS
<1>5. PICK h0, h1, h2 : h0 = g.heap /\ h1 = Created(h0) /\ h2 = Created(h1)
  OBVIOUS
<1>6. PICK p, l, c : p = m.prefix_table /\ l = Fresh(h0) /\ c = Fresh(h1)
  OBVIOUS
<1>7. PICK f : f = NewFrame("SPAWNER", 1, p, l, c)
  OBVIOUS
<1>8. /\ frames' = <<m, f>> /\ hist' = <<r, r>> /\ heap' = h2
      /\ helper_sf_free_list' = <<>> /\ spawner_sf_free_list' = <<>>
  BY <1>3, <1>4, <1>5, <1>6, <1>7 DEF cilk_enter_begin_first
<1>9. DOMAIN heap = leaked /\ NULL \notin Nat /\ IsHeap(heap)
  BY <1>1, OnlyLeaked
<1>10. /\ m \in Frame /\ m.func_type = "MAIN" /\ m.lchild_spn = 0 /\ Furnished(m)
       /\ IsHeap(h0) /\ g.wrk \in Nat /\ Different(m, Places)
       /\ Apart(DOMAIN h0, TablesIn(m, Places), {}, {}, {g.wrk}, leaked)
  BY <1>3, <1>5, <1>9, InitializedOwns
<1>11. PICK frs, hs : frs = <<m>> /\ hs = <<r>>
  OBVIOUS
<1>12. r \in HistRec /\ r.stage = "body"
  <2>1. PICK q \in Paths : q = NoPath
    BY PathFacts
  <2>2. "body" \in Stages /\ r = History("body", q, q)
    BY <1>4, <2>1 DEF Stages
  <2>3. QED
    BY <2>2 DEF History, HistRec
<1>13. /\ frs \in Seq(Frame) /\ Len(frs) = 0 + 1 /\ frs[0 + 1] = m
       /\ OwnedBy(frs, 0 + 1) = TablesIn(m, Places) /\ OwnedOnce(frs, 0 + 1)
       /\ Kinds(frs, hs)
  BY <1>10, <1>11, <1>12, MainAlone
<1>14. IsHeap(h1) /\ l \in Nat /\ l \notin DOMAIN h0 /\ DOMAIN h1 = DOMAIN h0 \cup {l}
  BY <1>5, <1>6, <1>10, CreatedFacts, FreshFacts
<1>15. IsHeap(h2) /\ c \in Nat /\ c \notin DOMAIN h1 /\ DOMAIN h2 = DOMAIN h1 \cup {c}
  BY <1>5, <1>6, <1>14, CreatedFacts, FreshFacts
<1>16. p \in Ids /\ p # NULL /\ p = LentTable(m)
  BY <1>6, <1>10, FrameFacts DEF Furnished, LentTable
<1>17. /\ f \in Frame /\ f.func_type = "SPAWNER" /\ f.lchild_spn = 0
       /\ f.prefix_table = p /\ f.lchild_table = l /\ f.contin_table = c
  <2>1. "SPAWNER" \in FrameKinds /\ 1 \in Nat
    BY DEF FrameKinds
  <2>2. l \in Ids /\ c \in Ids /\ p \in Ids
    BY <1>14, <1>15, <1>16 DEF Ids
  <2>3. QED
    BY ONLY <1>7, <2>1, <2>2, NewFrameFacts
<1>18. PICK mine : mine = {"lchild_table", "contin_table"}
  OBVIOUS
<1>19. /\ TableAt(f, "lchild_table") = l /\ TableAt(f, "contin_table") = c
       /\ TableAt(f, "prefix_table") = p
  BY <1>17, TablesAt
<1>20. l # c /\ l # NULL /\ c # NULL
  BY <1>9, <1>14, <1>15
<1>21. TablesIn(f, mine) = {l, c} /\ Different(f, mine) /\ mine \subseteq Places
  BY <1>18, <1>19, <1>20 DEF TablesIn, Different, Places
<1>22. TablesIn(m, Places) \subseteq DOMAIN h0
  BY <1>10 DEF Apart
<1>23. PICK after : after = Append(frs, f)
  OBVIOUS
<1>24. OwnedBy(after, 0 + 2) = TablesIn(m, Places) \cup {l, c} /\ OwnedOnce(after, 0 + 2)
  <2>1. TableAt(f, "prefix_table") = TableAt(frs[0 + 1], LentPlace(frs[0 + 1]))
    BY <1>10, <1>13, <1>16, <1>19, LentFacts
  <2>2. OwnedBy(frs, 0 + 1) \cap TablesIn(f, mine) = {}
    BY <1>13, <1>14, <1>15, <1>21, <1>22
  <2>3. PICK k \in Nat : k = 0
    OBVIOUS
  <2>4. /\ frs \in Seq(Frame) /\ k \in Nat /\ Len(frs) = k + 1 /\ OwnedOnce(frs, k + 1)
        /\ f \in Frame /\ mine \subseteq Places /\ Different(f, mine)
        /\ f.func_type = "SPAWNER" /\ mine = {"lchild_table", "contin_table"}
        /\ TableAt(f, "prefix_table") = TableAt(frs[k + 1], LentPlace(frs[k + 1]))
    BY <1>13, <1>17, <1>18, <1>21, <2>1, <2>3
  <2>5. OwnedBy(frs, k + 1) \cap TablesIn(f, mine) = {}
    BY <2>2, <2>3
  <2>6. /\ OwnedBy(Append(frs, f), k + 2) = OwnedBy(frs, k + 1) \cup TablesIn(f, mine)
        /\ OwnedOnce(Append(frs, f), k + 2)
    BY ONLY <2>4, <2>5, OwnedPush
  <2>7. QED
    BY <1>13, <1>21, <1>23, <2>3, <2>6
<1>25. frames' = after /\ Len(after) = 0 + 2
  <2>1. Append(<<m>>, f) = <<m, f>>
    BY <1>10, <1>17, PairAppended
  <2>2. QED
    BY <1>8, <1>11, <1>23, <2>1
<1>26. Kinds(frames', hist')
  <2>1. Furnished(f)
    BY <1>16, <1>17, <1>20 DEF Furnished
  <2>2. hs \in Seq(HistRec) /\ Len(hs) = 0 + 1 /\ 0 \in Nat
    BY <1>11, <1>12
  <2>3. Kinds(Append(frs, f), Append(hs, r))
    BY <1>12, <1>13, <1>17, <2>1, <2>2, KindsPush
  <2>4. Append(<<r>>, r) = <<r, r>>
    BY <1>12, PairAppended
  <2>5. QED
    BY <1>8, <1>11, <1>23, <1>25, <2>3, <2>4
<1>27. wrk_table' = g.wrk /\ g.wrk # NULL /\ {g.wrk} \ {NULL} = {g.wrk}
  BY <1>1, <1>3, <1>9, <1>10
<1>28. /\ HelpersHeld(helper_sf_free_list') = {} /\ SpawnersHeld(spawner_sf_free_list') = {}
       /\ HelpersOnce(helper_sf_free_list') /\ SpawnersOnce(spawner_sf_free_list')
  BY <1>8, NothingHeld
<1>29. Apart(DOMAIN h2, TablesIn(m, Places) \cup {l, c}, {}, {}, {g.wrk}, leaked)
  <2>1. PICK T : T = TablesIn(m, Places)
    OBVIOUS
  <2>2. DOMAIN h2 = DOMAIN h0 \cup {l, c} /\ {l, c} \cap DOMAIN h0 = {}
    BY <1>14, <1>15
  <2>3. Apart(DOMAIN h0 \cup {l, c}, T \cup {l, c}, {}, {}, {g.wrk}, leaked)
    BY <1>10, <2>1, <2>2 DEF Apart
  <2>4. QED
    BY <2>1, <2>2, <2>3
<1>30. QED
  BY <1>1, <1>2, <1>8, <1>24, <1>25, <1>26, <1>27, <1>28, <1>29 DEF OwnersInv

\* The frame below the one that returns is on top.
LEMMA ReturnAt ==
  ASSUME NEW frs \in Seq(Frame), NEW k \in Nat, Len(frs) = k + 2, NEW g \in Frame,
         NEW new, new = ReturnedTo(frs, g)
  PROVE  /\ new \in Seq(Frame) /\ Len(new) = k + 1 /\ new[k + 1] = g
         /\ \A i \in 1 .. k : new[i] = frs[i]
<1>1. PICK a \in Seq(Frame) : a = SubSeq(frs, 1, k) /\ Len(a) = k /\ \A i \in 1 .. k : a[i] = frs[i]
  <2>1. SubSeq(frs, 1, k) \in Seq(Frame) /\ Len(SubSeq(frs, 1, k)) = k
          /\ \A i \in 1 .. k : SubSeq(frs, 1, k)[i] = frs[i]
    OBVIOUS
  <2>2. QED
    BY <2>1
<1>2. Len(frs) - 2 = k
  OBVIOUS
<1>3. new = Append(a, g)
  BY <1>1, <1>2 DEF ReturnedTo
<1>4. /\ Append(a, g) \in Seq(Frame) /\ Len(Append(a, g)) = k + 1 /\ Append(a, g)[k + 1] = g
      /\ \A i \in 1 .. k : Append(a, g)[i] = a[i]
  BY <1>1
<1>5. QED
  BY <1>1, <1>3, <1>4

\* Two of the tables of a frame that returns are kept on a free list.
LEMMA ApartGiven ==
  ASSUME NEW all, NEW f, NEW h, NEW s, NEW w, NEW l, NEW x, NEW was, was = f \cup x,
         f \cap x = {}, Apart(all, was, h, s, w, l)
  PROVE  Apart(all, f, h \cup x, s, w, l) /\ Apart(all, f, h, s \cup x, w, l)
BY DEF Apart

\* The work of the frame that returns is added to the table of the work, then
\* to the one of the prefix.
LEMMA LeavingAdds ==
  ASSUME NEW t, NEW r, r = Leaving(t)
  PROVE  \E update, w, s : /\ WorkAddedTo(heap, wrk_table, bot.prefix_table, update, w, s)
                           /\ r.heap = s.heap /\ r.wrk_table = w.id /\ r.prefix_table = s.id
<1>1. PICK c : c = Last(Measured(t))
  OBVIOUS
<1>2. PICK wrk : wrk = c.running_wrk + c.local_wrk
  OBVIOUS
<1>3. PICK local : local = bot.local_spn + bot.local_contin + t
  OBVIOUS
<1>4. PICK span : span = bot.prefix_spn + c.running_spn + local
  OBVIOUS
<1>5. PICK update : update = Charge(c, c_tail, wrk, span, local)
  OBVIOUS
<1>6. PICK w : w = AddTo(heap, wrk_table, update)
  OBVIOUS
<1>7. PICK s : s = AddTo(w.heap, bot.prefix_table, update)
  OBVIOUS
<1>8. PICK u : u = [Front(c_stack) EXCEPT ![c_tail].running_wrk = @ + wrk]
  OBVIOUS
<1>9. PICK ok : ok = (MayAdd(heap, wrk_table, update) /\ MayAdd(w.heap, bot.prefix_table, update))
  OBVIOUS
<1>10. r = [c |-> c, span |-> span, heap |-> s.heap, wrk_table |-> w.id,
            prefix_table |-> s.id, c_stack |-> u, ok |-> ok]
  BY <1>1, <1>2, <1>3, <1>4, <1>5, <1>6, <1>7, <1>8, <1>9 DEF Leaving
<1>11. r.heap = s.heap /\ r.wrk_table = w.id /\ r.prefix_table = s.id
  BY <1>10
<1>12. QED
  BY <1>6, <1>7, <1>11 DEF WorkAddedTo

\* The frames are k + 1 when one has returned.
LEMMA ReturnedOwners ==
  ASSUME TOOL_INITIALIZED', wrk_table' \in Nat, NULL \notin Nat, pc' = "leaving", leaked' = leaked,
         NEW k \in Nat, Len(frames') = k + 1, Kinds(frames', hist'), OwnedOnce(frames', k + 1),
         HelpersOnce(helper_sf_free_list'), SpawnersOnce(spawner_sf_free_list'),
         Apart(DOMAIN heap', OwnedBy(frames', k + 1), HelpersHeld(helper_sf_free_list'),
               SpawnersHeld(spawner_sf_free_list'), {wrk_table'}, leaked)
  PROVE  OwnersInv'
<1>1. wrk_table' # NULL /\ {wrk_table'} \ {NULL} = {wrk_table'}
  OBVIOUS
<1>2. QED
  BY <1>1 DEF OwnersInv

\* The history of the frames below the one that returns.
LEMMA HistBelow ==
  ASSUME NEW hs \in Seq(HistRec), NEW k \in Nat, Len(hs) = k + 2, NEW new, new = Front(hs)
  PROVE  new \in Seq(HistRec) /\ Len(new) = k + 1 /\ \A i \in 1 .. k + 1 : new[i] = hs[i]
<1>1. k + 1 \in Nat /\ Len(hs) - 1 = k + 1
  OBVIOUS
<1>2. SubSeq(hs, 1, k + 1) \in Seq(HistRec) /\ Len(SubSeq(hs, 1, k + 1)) = k + 1
        /\ \A i \in 1 .. k + 1 : SubSeq(hs, 1, k + 1)[i] = hs[i]
  BY <1>1
<1>3. Front(hs) = SubSeq(hs, 1, k + 1)
  BY <1>1 DEF Front
<1>4. QED
  BY <1>2, <1>3

\* What a returning frame of a Cilk function, or a helper, finds and leaves.
LEMMA LeavingOwners ==
  ASSUME Inv, OwnersInv, MayLeave, NEW t, NEW r, r = Leaving(t), Leave(t, r),
         NEW k \in Nat, Len(frames) = k + 2,
         NEW F, F = OwnedBy(frames, k + 2), NEW H, H = HelpersHeld(helper_sf_free_list),
         NEW S, S = SpawnersHeld(spawner_sf_free_list), NEW p, p = bot.prefix_table
  PROVE  /\ r.prefix_table \in Nat /\ r.wrk_table \in Nat /\ p \in F
         /\ r.prefix_table \notin F \ {p}
         /\ HeapApart(r.heap, (F \ {p}) \cup {r.prefix_table}, H, S, r.wrk_table, leaked)
         /\ wrk_table' = r.wrk_table /\ leaked' = leaked /\ pc' = "leaving"
         /\ TOOL_INITIALIZED'
<1>1. TOOL_INITIALIZED
  BY DEF MayLeave, Running
<1>2. PICK m \in Nat : m = k + 1 /\ Len(frames) = m + 1
  <2>1. k + 1 \in Nat /\ Len(frames) = (k + 1) + 1
    OBVIOUS
  <2>2. QED
    BY <2>1
<1>3. /\ frames \in Seq(Frame) /\ bot = frames[m + 1] /\ bot \in Frame
  BY <1>1, <1>2, StackOfFrames
<1>4. /\ wrk_table \in Nat /\ IsHeap(heap) /\ OwnedOnce(frames, m + 1)
      /\ Apart(DOMAIN heap, OwnedBy(frames, m + 1), HelpersHeld(helper_sf_free_list),
               SpawnersHeld(spawner_sf_free_list), {wrk_table}, leaked)
      /\ \A i \in 1 .. m + 1 : KindAt(frames, hist, i)
  BY <1>1, <1>2, RunningOwners
<1>5. F = OwnedBy(frames, m + 1)
  <2>1. k + 2 = m + 1
    BY <1>2
  <2>2. QED
    BY <2>1
<1>6. PICK b \in Frame : b = bot /\ b = frames[m + 1]
  BY <1>3
<1>7. Furnished(b)
  <2>1. m + 1 \in 1 .. m + 1
    OBVIOUS
  <2>2. QED
    BY <1>4, <1>6, <2>1 DEF KindAt
<1>8. p \in F
  <2>1. F = OwnedBy(frames, m) \cup TablesIn(b, Places)
    BY <1>2, <1>3, <1>4, <1>5, <1>6, TopTables
  <2>2. p = TableAt(b, "prefix_table") /\ p # NULL /\ "prefix_table" \in Places
    BY <1>6, <1>7, TablesAt DEF Furnished, Places
  <2>3. QED
    BY <2>1, <2>2 DEF TablesIn
<1>9. PICK update, w, s : /\ WorkAddedTo(heap, wrk_table, bot.prefix_table, update, w, s)
                          /\ r.heap = s.heap /\ r.wrk_table = w.id /\ r.prefix_table = s.id
  BY LeavingAdds
<1>10. /\ w.id \in Nat /\ s.id \in Nat /\ s.id \notin F \ {p}
       /\ HeapApart(s.heap, (F \ {p}) \cup {s.id}, H, S, w.id, leaked)
  <2>1. PICK h, work, L : /\ HeapApart(h, F, H, S, work, L) /\ p \in F /\ L = leaked
                          /\ WorkAddedTo(h, work, p, update, w, s)
    BY <1>4, <1>5, <1>8, <1>9 DEF HeapApart
  <2>2. /\ w.id \in Nat /\ s.id \in Nat /\ s.id \notin F \ {p}
        /\ HeapApart(s.heap, (F \ {p}) \cup {s.id}, H, S, w.id, L)
    BY ONLY <2>1, TwoMove
  <2>3. QED
    BY <2>1, <2>2
<1>11. /\ wrk_table' = r.wrk_table /\ leaked' = leaked /\ pc' = "leaving"
       /\ TOOL_INITIALIZED' = TOOL_INITIALIZED
  BY DEF Leave, toolVars
<1>12. QED
  BY <1>1, <1>8, <1>9, <1>10, <1>11

LEMMA LeaveCallKeepsOwners ==
  ASSUME Inv, OwnersInv, NEW t \in StrandLengths, cilk_leave_begin_call(t)
  PROVE  OwnersInv'
<1>1. MayLeave /\ TOOL_INITIALIZED /\ bot.func_type = "SPAWNER"
  BY DEF cilk_leave_begin_call, MayLeave, Running
<1>2. PICK r : r = Leaving(t)
  OBVIOUS
<1>3. PICK back : back = CallerGetsBack(parent, r.prefix_table)
  OBVIOUS
<1>4. PICK pair : pair = [lchild |-> bot.lchild_table, contin |-> bot.contin_table]
  OBVIOUS
<1>5. /\ Leave(t, r) /\ heap' = r.heap
      /\ frames' = ReturnedTo(frames, back)
      /\ spawner_sf_free_list' = <<pair>> \o spawner_sf_free_list
      /\ hist' = Front(hist) /\ UNCHANGED helper_sf_free_list
  BY <1>2, <1>3, <1>4 DEF cilk_leave_begin_call, ReturnedTo
<1>6. PICK m \in Nat : /\ Len(frames) = m + 1 /\ Len(hist) = m + 1
                       /\ frames \in Seq(Frame) /\ hist \in Seq(HistRec)
                       /\ bot = frames[m + 1] /\ bot \in Frame /\ Last(hist) = hist[m + 1]
  BY <1>1, StackOfFrames
<1>7. PICK k \in Nat : m = k + 1 /\ Len(frames) = k + 2 /\ Len(hist) = k + 2
  <2>1. m - 1 \in Nat /\ (m - 1) + 1 = m /\ (m - 1) + 2 = m + 1
    BY <1>1, <1>6 DEF MayLeave
  <2>2. QED
    BY <1>6, <2>1
<1>8. PICK b \in Frame : b = parent /\ b = frames[k + 1]
  <2>1. Len(frames) - 1 = k + 1 /\ k + 1 \in 1 .. Len(frames)
    BY <1>7
  <2>2. QED
    BY <1>6, <2>1 DEF parent
<1>9. PICK p, l, c : p = bot.prefix_table /\ l = bot.lchild_table /\ c = bot.contin_table
  OBVIOUS
<1>10. PICK F1, F, H, S, L : /\ F1 = OwnedBy(frames, k + 1) /\ F = OwnedBy(frames, k + 2)
                            /\ H = HelpersHeld(helper_sf_free_list) /\ L = leaked
                            /\ S = SpawnersHeld(spawner_sf_free_list)
  OBVIOUS
<1>11. /\ wrk_table \in Nat /\ NULL \notin Nat
       /\ HelpersOnce(helper_sf_free_list) /\ SpawnersOnce(spawner_sf_free_list)
       /\ spawner_sf_free_list \in Seq(SpawnerTables)
       /\ Apart(DOMAIN heap, OwnedBy(frames, m + 1), HelpersHeld(helper_sf_free_list),
                SpawnersHeld(spawner_sf_free_list), {wrk_table}, leaked)
       /\ Kinds(frames, hist) /\ \A i \in 1 .. m + 1 : KindAt(frames, hist, i)
  BY <1>1, <1>6, RunningOwners
<1>12. /\ p # l /\ p # c /\ l # c /\ F1 \cap {p, l, c} = {} /\ F = F1 \cup {p, l, c}
       /\ OwnedOnce(frames, k + 1)
  <2>1. /\ p # l /\ p # c /\ l # c /\ OwnedBy(frames, m) \cap {p, l, c} = {}
        /\ OwnedOnce(frames, m) /\ OwnedBy(frames, m + 1) = OwnedBy(frames, m) \cup {p, l, c}
    BY <1>1, <1>6, <1>9, TopThree
  <2>2. m + 1 = k + 2
    BY <1>7
  <2>3. QED
    BY <1>7, <1>10, <2>1, <2>2
<1>13. /\ r.prefix_table \in Nat /\ r.wrk_table \in Nat /\ r.prefix_table \notin F \ {p}
       /\ HeapApart(r.heap, (F \ {p}) \cup {r.prefix_table}, H, S, r.wrk_table, leaked)
       /\ wrk_table' = r.wrk_table /\ leaked' = leaked /\ pc' = "leaving" /\ TOOL_INITIALIZED'
  BY <1>1, <1>2, <1>5, <1>7, <1>9, <1>10, LeavingOwners
<1>14. PICK id \in Nat : id = r.prefix_table
  BY <1>13
<1>15. id \notin F1 /\ (F \ {p}) \cup {id} = (F1 \cup {id}) \cup {l, c} /\ (F1 \cup {id}) \cap {l, c} = {}
  BY <1>12, <1>13, <1>14
<1>16. Furnished(b)
  <2>1. KindAt(frames, hist, k + 1)
    BY <1>7, <1>11
  <2>2. QED
    BY <1>8, <2>1 DEF KindAt
<1>17. /\ back \in Frame /\ back.func_type = b.func_type /\ TableAt(back, LentPlace(b)) = id
       /\ \A place \in Places \ {LentPlace(b)} : TableAt(back, place) = TableAt(b, place)
       /\ Furnished(back)
  <2>1. id \in Ids /\ id # NULL /\ back = CallerGetsBack(b, id)
    BY <1>3, <1>8, <1>11, <1>14 DEF Ids
  <2>2. QED
    BY <1>16, <2>1, LentSet
<1>18. PICK new : new = frames'
  OBVIOUS
<1>19. /\ new \in Seq(Frame) /\ Len(new) = k + 1 /\ new[k + 1] = back
       /\ \A i \in 1 .. k : new[i] = frames[i]
  <2>1. PICK frs \in Seq(Frame) : frs = frames
    BY <1>6
  <2>2. Len(frs) = k + 2 /\ back \in Frame /\ new = ReturnedTo(frs, back)
    BY <1>5, <1>7, <1>17, <1>18, <2>1
  <2>3. /\ new \in Seq(Frame) /\ Len(new) = k + 1 /\ new[k + 1] = back
        /\ \A i \in 1 .. k : new[i] = frs[i]
    BY ONLY <2>2, frs \in Seq(Frame), k \in Nat, ReturnAt
  <2>4. QED
    BY <2>1, <2>3
<1>20. OwnedBy(new, k + 1) = F1 \cup {id} /\ OwnedOnce(new, k + 1)
  <2>1. PICK frs \in Seq(Frame) : frs = frames
    BY <1>6
  <2>2. PICK lent : frs = frames /\ lent = LentPlace(frs[k + 1])
    BY <2>1
  <2>3. /\ Len(frs) = k + 2 /\ OwnedOnce(frs, k + 1) /\ frs[k + 2].func_type = "SPAWNER"
        /\ \A i \in 1 .. k : new[i] = frs[i]
        /\ new[k + 1].func_type = frs[k + 1].func_type /\ TableAt(new[k + 1], lent) = id
        /\ \A place \in Places \ {lent} : TableAt(new[k + 1], place) = TableAt(frs[k + 1], place)
        /\ id \notin OwnedBy(frs, k + 1) /\ NULL \notin Nat
    <3>1. k + 2 = m + 1
      BY <1>7
    <3>2. QED
      BY <1>1, <1>6, <1>7, <1>8, <1>10, <1>11, <1>12, <1>15, <1>17, <1>19, <2>2, <3>1
  <2>4. OwnedBy(new, k + 1) = OwnedBy(frs, k + 1) \cup {id} /\ OwnedOnce(new, k + 1)
    BY ONLY <1>19, <2>2, <2>3, frs \in Seq(Frame), k \in Nat, id \in Nat, OwnedReturn
  <2>5. QED
    BY <1>10, <2>2, <2>4
<1>21. hist' \in Seq(HistRec) /\ Len(hist') = k + 1 /\ \A i \in 1 .. k + 1 : hist'[i] = hist[i]
  BY <1>5, <1>6, <1>7, HistBelow
<1>22. Kinds(frames', hist')
  <2>1. KindAt(new, hist', k + 1)
    <3>1. KindAt(frames, hist, k + 1)
      BY <1>7, <1>11
    <3>2. k + 1 \in 1 .. k + 1 /\ (k + 1 > 1 => (k + 1) - 1 \in 1 .. k)
      OBVIOUS
    <3>3. hist'[k + 1] = hist[k + 1]
      BY <1>21, <3>2
    <3>4. k + 1 > 1 => new[(k + 1) - 1] = frames[(k + 1) - 1]
      BY <1>19, <3>2
    <3>5. new[k + 1] = back /\ frames[k + 1] = b
      BY <1>8, <1>19
    <3>6. QED
      BY <1>16, <1>17, <3>1, <3>3, <3>4, <3>5 DEF KindAt
  <2>2. \A i \in 1 .. k : new[i] = frames[i] /\ hist'[i].stage = hist[i].stage
    BY <1>19, <1>21
  <2>3. Len(frames) \in Nat /\ k <= Len(frames)
    BY <1>7
  <2>4. QED
    BY <1>11, <1>18, <1>19, <2>1, <2>2, <2>3, KindsTop
<1>23. pair \in SpawnerTables /\ pair.lchild = l /\ pair.contin = c
  BY <1>4, <1>6, <1>9, FrameFacts DEF SpawnerTables
<1>24. l \notin S /\ c \notin S /\ l \in F /\ c \in F
  <2>1. OwnedBy(frames, m + 1) = F
    <3>1. k + 2 = m + 1
      BY <1>7
    <3>2. QED
      BY <1>10, <3>1
  <2>2. QED
    BY <1>10, <1>11, <1>12, <2>1 DEF Apart
<1>25. /\ SpawnersHeld(spawner_sf_free_list') = S \cup {l, c}
       /\ SpawnersOnce(spawner_sf_free_list')
  <2>1. PICK q \in Seq(SpawnerTables) : q = spawner_sf_free_list
    BY <1>11
  <2>2. PICK longer : q = spawner_sf_free_list /\ longer = <<pair>> \o q
    BY <2>1
  <2>3. /\ SpawnersOnce(q) /\ pair.lchild # pair.contin
        /\ pair.lchild \notin SpawnersHeld(q) /\ pair.contin \notin SpawnersHeld(q)
    BY <1>10, <1>11, <1>12, <1>23, <1>24, <2>2
  <2>4. /\ SpawnersHeld(longer) = SpawnersHeld(q) \cup {pair.lchild, pair.contin}
        /\ SpawnersOnce(longer)
    BY ONLY <1>23, <2>2, <2>3, q \in Seq(SpawnerTables), SpawnersPush
  <2>5. QED
    BY <1>5, <1>10, <1>23, <2>2, <2>4
<1>26. Apart(DOMAIN r.heap, F1 \cup {id}, H, S \cup {l, c}, {r.wrk_table}, leaked)
  <2>1. Apart(DOMAIN r.heap, (F \ {p}) \cup {id}, H, S, {r.wrk_table}, leaked)
    BY <1>13, <1>14 DEF HeapApart
  <2>2. PICK all, f, x, was, w : /\ all = DOMAIN r.heap /\ f = F1 \cup {id} /\ x = {l, c}
                                 /\ was = (F \ {p}) \cup {id} /\ w = {r.wrk_table}
    OBVIOUS
  <2>3. was = f \cup x /\ f \cap x = {} /\ Apart(all, was, H, S, w, leaked)
    BY <1>15, <2>1, <2>2
  <2>4. Apart(all, f, H, S \cup x, w, leaked)
    BY ONLY <2>3, ApartGiven
  <2>5. QED
    BY <2>2, <2>4
<1>27. /\ HelpersOnce(helper_sf_free_list') /\ HelpersHeld(helper_sf_free_list') = H
  BY <1>5, <1>10, <1>11
<1>28. Apart(DOMAIN heap', OwnedBy(frames', k + 1), HelpersHeld(helper_sf_free_list'),
             SpawnersHeld(spawner_sf_free_list'), {wrk_table'}, leaked)
  BY <1>5, <1>13, <1>18, <1>20, <1>25, <1>26, <1>27
<1>29. QED
  BY <1>11, <1>13, <1>18, <1>19, <1>20, <1>22, <1>25, <1>27, <1>28, ReturnedOwners

\* The tables when a spawn helper returns: those of the frame below it are its
\* own, and the helper has one.
LEMMA HelperOwners ==
  ASSUME Inv, OwnersInv, TOOL_INITIALIZED, bot.func_type = "HELPER",
         NEW k \in Nat, Len(frames) = k + 2, NEW R, R = OwnedBy(frames, k),
         NEW x, NEW y, NEW z, NEW p,
         x = parent.prefix_table, y = parent.lchild_table, z = parent.contin_table,
         p = bot.prefix_table
  PROVE  /\ x # y /\ x # z /\ y # z /\ R \cap {x, y, z} = {} /\ p \notin R \cup {x, y, z}
         /\ OwnedBy(frames, k + 1) = R \cup {x, y, z} /\ OwnedOnce(frames, k + 1)
         /\ OwnedOnce(frames, k)
         /\ OwnedBy(frames, k + 2) = R \cup {x, y, z} \cup {p}
         /\ parent \in Frame /\ Furnished(parent) /\ parent.func_type # "HELPER"
         /\ hist[k + 1].stage \notin {"args", "detached"} /\ parent = frames[k + 1]
<1>1. PICK m \in Nat : m = k + 1 /\ Len(frames) = m + 1
  <2>1. k + 1 \in Nat /\ Len(frames) = (k + 1) + 1
    OBVIOUS
  <2>2. QED
    BY <2>1
<1>2. frames \in Seq(Frame) /\ bot = frames[m + 1] /\ bot \in Frame
  BY <1>1, StackOfFrames
<1>3. OwnedOnce(frames, m + 1) /\ \A i \in 1 .. m + 1 : KindAt(frames, hist, i)
  BY <1>1, RunningOwners
<1>4. PICK h \in Frame : h = bot /\ h = frames[m + 1]
  BY <1>2
<1>5. PICK b \in Frame : b = parent /\ b = frames[k + 1]
  <2>1. Len(frames) - 1 = k + 1 /\ k + 1 \in 1 .. Len(frames)
    OBVIOUS
  <2>2. QED
    BY <1>2, <2>1 DEF parent
<1>6. Furnished(h) /\ b.func_type # "HELPER"
  <2>1. m + 1 \in 1 .. m + 1 /\ (m + 1) - 1 = k + 1
    BY <1>1
  <2>2. KindAt(frames, hist, m + 1)
    BY <1>3, <2>1
  <2>3. QED
    BY <1>4, <1>5, <2>1, <2>2 DEF KindAt
<1>7. Furnished(b) /\ hist[k + 1].stage \notin {"args", "detached"}
  <2>1. k + 1 \in 1 .. m + 1
    BY <1>1
  <2>2. KindAt(frames, hist, k + 1)
    BY <1>3, <2>1
  <2>3. QED
    BY <1>5, <1>6, <2>2 DEF KindAt
<1>8. TablesIn(h, Places) = {p} /\ p # NULL
  <2>1. /\ h.prefix_table = p /\ h.lchild_table = NULL /\ h.contin_table = NULL /\ p # NULL
    BY <1>4, <1>6 DEF Furnished
  <2>2. QED
    BY <2>1, OneTable
<1>9. /\ TablesIn(b, Places) = {x, y, z}
      /\ Different(b, Places) <=> x # y /\ x # z /\ y # z
  <2>1. /\ b.prefix_table = x /\ b.lchild_table = y /\ b.contin_table = z
        /\ x # NULL /\ y # NULL /\ z # NULL
    BY <1>5, <1>6, <1>7 DEF Furnished
  <2>2. QED
    BY <2>1, ThreeTables
<1>10. /\ OwnedBy(frames, m + 1) = OwnedBy(frames, m) \cup {p}
       /\ OwnedOnce(frames, m) /\ p \notin OwnedBy(frames, m)
  <2>1. /\ OwnedBy(frames, m + 1) = OwnedBy(frames, m) \cup TablesIn(h, Places)
        /\ OwnedOnce(frames, m + 1) <=>
             /\ OwnedOnce(frames, m) /\ Different(h, Places)
             /\ OwnedBy(frames, m) \cap TablesIn(h, Places) = {}
    BY <1>1, <1>2, <1>4, TopTables
  <2>2. QED
    BY <1>3, <1>8, <2>1
<1>11. /\ OwnedBy(frames, k + 1) = OwnedBy(frames, k) \cup TablesIn(b, Places)
       /\ OwnedOnce(frames, k + 1) <=>
            /\ OwnedOnce(frames, k) /\ Different(b, Places)
            /\ OwnedBy(frames, k) \cap TablesIn(b, Places) = {}
  <2>1. PICK frs \in Seq(Frame) : frs = frames
    BY <1>2
  <2>2. PICK places : frs = frames /\ places = Places
    BY <2>1
  <2>3. k + 2 = m + 1 /\ k + 1 <= Len(frs)
    BY <1>1, <2>2
  <2>4. frs[k + 2].func_type # "SPAWNER"
    BY <1>4, <2>2, <2>3
  <2>5. places = IF k + 1 < Len(frs) /\ frs[k + 2].func_type = "SPAWNER"
                 THEN Places \ {LentPlace(frs[k + 1])} ELSE Places
    BY <2>2, <2>4
  <2>6. /\ OwnedBy(frs, k + 1) = OwnedBy(frs, k) \cup TablesIn(frs[k + 1], places)
        /\ OwnedOnce(frs, k + 1) <=>
             /\ OwnedOnce(frs, k) /\ Different(frs[k + 1], places)
             /\ OwnedBy(frs, k) \cap TablesIn(frs[k + 1], places) = {}
    BY ONLY <2>3, <2>5, k \in Nat, frs \in Seq(Frame), OwnedPlaces
  <2>7. QED
    BY <1>5, <2>2, <2>6
<1>12. k + 2 = m + 1 /\ k + 1 = m
  BY <1>1
<1>13. QED
  BY <1>5, <1>6, <1>7, <1>9, <1>10, <1>11, <1>12

\* The frame below the helper that has returned is on top, and wrk is the table
\* of the work.
HelperReturned(k, wrk) ==
  /\ frames' \in Seq(Frame) /\ Len(frames') = k + 1 /\ \A i \in 1 .. k : frames'[i] = frames[i]
  /\ frames'[k + 1].func_type = parent.func_type /\ Furnished(frames'[k + 1])
  /\ OwnedOnce(frames', k + 1) /\ HelpersOnce(helper_sf_free_list')
  /\ Apart(DOMAIN heap', OwnedBy(frames', k + 1), HelpersHeld(helper_sf_free_list'),
           SpawnersHeld(spawner_sf_free_list), {wrk}, leaked)

LEMMA ShorterOwners ==
  ASSUME Inv, OwnersInv, TOOL_INITIALIZED, bot.func_type = "HELPER",
         NEW k \in Nat, Len(frames) = k + 2, NEW r, ShorterChild(r),
         NEW F1, F1 = OwnedBy(frames, k + 1), r.prefix_table \in Nat, r.prefix_table \notin F1,
         HeapApart(r.heap, F1 \cup {r.prefix_table}, HelpersHeld(helper_sf_free_list),
                   SpawnersHeld(spawner_sf_free_list), r.wrk_table, leaked)
  PROVE  HelperReturned(k, r.wrk_table)
<1>1. PICK id \in Nat : id = r.prefix_table
  OBVIOUS
<1>2. PICK wrk, h : id = r.prefix_table /\ wrk = r.wrk_table /\ h = r.heap
  BY <1>1
<1>3. /\ heap' = Clear(h, id) /\ frames' = Front(frames)
      /\ helper_sf_free_list' = <<id>> \o helper_sf_free_list
  BY <1>2 DEF ShorterChild
<1>4. PICK x, y, z, p, R : /\ x = parent.prefix_table /\ y = parent.lchild_table
                           /\ z = parent.contin_table /\ p = bot.prefix_table
                           /\ R = OwnedBy(frames, k)
  OBVIOUS
<1>5. /\ OwnedOnce(frames, k + 1) /\ parent \in Frame /\ Furnished(parent)
      /\ parent = frames[k + 1]
  BY <1>4, HelperOwners
<1>6. /\ frames \in Seq(Frame) /\ bot = frames[k + 2]
      /\ HelpersOnce(helper_sf_free_list) /\ helper_sf_free_list \in Seq(Ids)
  <2>1. PICK m \in Nat : m = k + 1 /\ Len(frames) = m + 1 /\ m + 1 = k + 2
    <3>1. k + 1 \in Nat /\ Len(frames) = (k + 1) + 1 /\ (k + 1) + 1 = k + 2
      OBVIOUS
    <3>2. QED
      BY <3>1
  <2>2. /\ frames \in Seq(Frame) /\ bot = frames[m + 1]
    BY <2>1, StackOfFrames
  <2>3. HelpersOnce(helper_sf_free_list) /\ helper_sf_free_list \in Seq(Ids)
    BY <2>1, RunningOwners
  <2>4. QED
    BY <2>1, <2>2, <2>3
<1>7. PICK frs \in Seq(Frame) : frs = frames
  BY <1>6
<1>8. PICK new : frs = frames /\ new = frames'
  BY <1>7
<1>9. new \in Seq(Frame) /\ Len(new) = k + 1 /\ \A i \in 1 .. k + 1 : new[i] = frs[i]
  <2>1. k + 1 \in Nat /\ Len(frs) - 1 = k + 1
    BY <1>8
  <2>2. SubSeq(frs, 1, k + 1) \in Seq(Frame) /\ Len(SubSeq(frs, 1, k + 1)) = k + 1
          /\ \A i \in 1 .. k + 1 : SubSeq(frs, 1, k + 1)[i] = frs[i]
    BY <1>8, <2>1
  <2>3. Front(frs) = SubSeq(frs, 1, k + 1)
    BY <2>1 DEF Front
  <2>4. QED
    BY <1>3, <1>8, <2>2, <2>3
<1>10. OwnedBy(new, k + 1) = F1 /\ OwnedOnce(new, k + 1)
  <2>1. PICK m \in Nat : m = k + 1 /\ m + 1 = k + 2
    <3>1. k + 1 \in Nat /\ (k + 1) + 1 = k + 2
      OBVIOUS
    <3>2. QED
      BY <3>1
  <2>2. frs[m + 1].func_type # "SPAWNER"
    BY <1>6, <1>8, <2>1
  <2>3. m <= Len(frs) /\ Len(new) = m /\ ~(m < m) /\ \A i \in 1 .. m : new[i] = frs[i]
    BY <1>8, <1>9, <2>1
  <2>4. (m < Len(frs) /\ frs[m + 1].func_type = "SPAWNER")
           <=> (m < Len(new) /\ new[m + 1].func_type = "SPAWNER")
    BY <2>2, <2>3
  <2>5. m <= Len(new)
    BY <2>3
  <2>6. OwnedBy(new, m) = OwnedBy(frs, m) /\ (OwnedOnce(new, m) <=> OwnedOnce(frs, m))
    BY ONLY <2>3, <2>4, <2>5, <1>9, frs \in Seq(Frame), m \in Nat, OwnedSame
  <2>7. QED
    BY <1>5, <1>8, <2>1, <2>6
<1>11. Apart(DOMAIN h, F1 \cup {id}, HelpersHeld(helper_sf_free_list),
             SpawnersHeld(spawner_sf_free_list), {wrk}, leaked)
  BY <1>2 DEF HeapApart
<1>12. /\ HelpersHeld(helper_sf_free_list') = HelpersHeld(helper_sf_free_list) \cup {id}
       /\ HelpersOnce(helper_sf_free_list')
  <2>1. PICK q \in Seq(Ids) : q = helper_sf_free_list
    BY <1>6
  <2>2. PICK longer : q = helper_sf_free_list /\ longer = <<id>> \o q
    BY <2>1
  <2>3. id \in Ids /\ HelpersOnce(q) /\ id \notin HelpersHeld(q)
    BY <1>6, <1>11, <2>2 DEF Ids, Apart
  <2>4. HelpersHeld(longer) = HelpersHeld(q) \cup {id} /\ HelpersOnce(longer)
    BY ONLY <2>2, <2>3, q \in Seq(Ids), HelpersPush
  <2>5. QED
    BY <1>3, <2>2, <2>4
<1>13. Apart(DOMAIN h, F1, HelpersHeld(helper_sf_free_list) \cup {id},
             SpawnersHeld(spawner_sf_free_list), {wrk}, leaked)
  <2>1. PICK all, x1, was, H, S, w : /\ all = DOMAIN h /\ x1 = {id} /\ was = F1 \cup {id} /\ w = {wrk}
                                     /\ H = HelpersHeld(helper_sf_free_list)
                                     /\ S = SpawnersHeld(spawner_sf_free_list)
    OBVIOUS
  <2>2. was = F1 \cup x1 /\ F1 \cap x1 = {} /\ Apart(all, was, H, S, w, leaked)
    BY <1>2, <1>11, <2>1
  <2>3. Apart(all, F1, H \cup x1, S, w, leaked)
    BY ONLY <2>2, ApartGiven
  <2>4. QED
    BY <2>1, <2>3
<1>14. DOMAIN heap' = DOMAIN h
  BY <1>3, ClearFacts
<1>15. new[k + 1] = parent /\ \A i \in 1 .. k : new[i] = frames[i]
  <2>1. k + 1 \in 1 .. k + 1 /\ \A i \in 1 .. k : i \in 1 .. k + 1
    OBVIOUS
  <2>2. QED
    BY <1>5, <1>8, <1>9, <2>1
<1>16. QED
  BY <1>2, <1>5, <1>8, <1>9, <1>10, <1>12, <1>13, <1>14, <1>15 DEF HelperReturned

LEMMA LongestOwners ==
  ASSUME Inv, OwnersInv, TOOL_INITIALIZED, bot.func_type = "HELPER",
         NEW k \in Nat, Len(frames) = k + 2, NEW r, NEW running \in Nat, r.span \in Nat,
         LongestChild(r, running, AddTables(r.heap, parent.prefix_table, parent.contin_table)),
         NEW F1, F1 = OwnedBy(frames, k + 1), r.prefix_table \in Nat, r.prefix_table \notin F1,
         HeapApart(r.heap, F1 \cup {r.prefix_table}, HelpersHeld(helper_sf_free_list),
                   SpawnersHeld(spawner_sf_free_list), r.wrk_table, leaked)
  PROVE  HelperReturned(k, r.wrk_table)
<1>1. PICK id \in Nat : id = r.prefix_table
  OBVIOUS
<1>2. PICK wrk, h : id = r.prefix_table /\ wrk = r.wrk_table /\ h = r.heap
  BY <1>1
<1>3. PICK x, y, z, p, R : /\ x = parent.prefix_table /\ y = parent.lchild_table
                           /\ z = parent.contin_table /\ p = bot.prefix_table
                           /\ R = OwnedBy(frames, k)
  OBVIOUS
<1>4. PICK a : a = AddTables(h, x, z)
  OBVIOUS
<1>5. PICK span \in Nat : span = r.span
  OBVIOUS
<1>6. PICK f : span = r.span /\ f = LongestReturned(running, a, span, id)
  BY <1>5
<1>7. /\ heap' = Clear(Clear(a.heap, y), a.right) /\ frames' = ReturnedTo(frames, f)
      /\ helper_sf_free_list' = <<y>> \o helper_sf_free_list
  BY <1>2, <1>3, <1>4, <1>6 DEF LongestChild, LongestReturned, ReturnedTo
<1>8. /\ x # y /\ x # z /\ y # z /\ R \cap {x, y, z} = {}
      /\ F1 = R \cup {x, y, z} /\ OwnedOnce(frames, k)
      /\ parent \in Frame /\ Furnished(parent) /\ parent.func_type # "HELPER"
      /\ parent = frames[k + 1]
  BY <1>3, HelperOwners
<1>9. /\ frames \in Seq(Frame) /\ NULL \notin Nat
      /\ HelpersOnce(helper_sf_free_list) /\ helper_sf_free_list \in Seq(Ids)
  <2>1. PICK m \in Nat : m = k + 1 /\ Len(frames) = m + 1
    <3>1. k + 1 \in Nat /\ Len(frames) = (k + 1) + 1
      OBVIOUS
    <3>2. QED
      BY <3>1
  <2>2. frames \in Seq(Frame)
    BY <2>1, StackOfFrames
  <2>3. /\ HelpersOnce(helper_sf_free_list) /\ helper_sf_free_list \in Seq(Ids) /\ NULL \notin Nat
    BY <2>1, RunningOwners
  <2>4. QED
    BY <2>2, <2>3
<1>10. PICK H, S, W, L, R2 : /\ H = HelpersHeld(helper_sf_free_list) /\ W = {wrk}
                             /\ S = SpawnersHeld(spawner_sf_free_list) /\ L = leaked
                             /\ R2 = R \cup {id}
  OBVIOUS
<1>11. ThreeApart(h, R2, H, S, W, L, x, z, y)
  <2>1. IsHeap(h) /\ Apart(DOMAIN h, F1 \cup {id}, H, S, W, L)
    BY <1>2, <1>10 DEF HeapApart
  <2>2. F1 \cup {id} = R2 \cup {x, z, y} /\ R2 \cap {x, z, y} = {}
    BY <1>2, <1>8, <1>10
  <2>3. QED
    BY <1>8, <2>1, <2>2 DEF ThreeApart
<1>12. ThreeApart(a.heap, R2, H, S, W, L, a.left, a.right, y)
  BY ONLY <1>4, <1>11, SumApart
<1>13. PICK u, v : u = a.left /\ v = a.right
  OBVIOUS
<1>14. /\ IsHeap(a.heap) /\ u # v /\ u # y /\ v # y /\ R2 \cap {u, v, y} = {}
       /\ Apart(DOMAIN a.heap, R2 \cup {u, v, y}, H, S, W, L)
  BY <1>12, <1>13 DEF ThreeApart
<1>15. u \in Nat /\ v \in Nat /\ y \in Nat
  <2>1. u \in DOMAIN a.heap /\ v \in DOMAIN a.heap /\ y \in DOMAIN a.heap
    BY <1>14 DEF Apart
  <2>2. QED
    BY <1>14, <2>1 DEF IsHeap
<1>16. /\ f \in Frame /\ f.func_type = parent.func_type
       /\ f.prefix_table = u /\ f.contin_table = v /\ f.lchild_table = id
  <2>1. a.left \in Ids /\ a.right \in Ids /\ id \in Ids
    BY <1>13, <1>15 DEF Ids
  <2>2. f \in Frame
    BY ONLY <1>6, <1>8, <2>1, running \in Nat, span \in Nat, LongestFacts
  <2>3. PICK b \in Frame : b = parent
    BY <1>8
  <2>4. /\ f.func_type = b.func_type /\ f.prefix_table = a.left /\ f.contin_table = a.right
        /\ f.lchild_table = id
    BY <1>6, <2>3 DEF LongestReturned, Frame
  <2>5. QED
    BY <1>13, <2>2, <2>3, <2>4
<1>17. PICK frs \in Seq(Frame) : frs = frames
  BY <1>9
<1>18. PICK new : frs = frames /\ new = frames'
  BY <1>17
<1>19. new \in Seq(Frame) /\ Len(new) = k + 1 /\ new[k + 1] = f /\ \A i \in 1 .. k : new[i] = frs[i]
  <2>1. Len(frs) = k + 2 /\ new = ReturnedTo(frs, f) /\ f \in Frame
    BY <1>7, <1>16, <1>18
  <2>2. QED
    BY ONLY <2>1, frs \in Seq(Frame), k \in Nat, ReturnAt
<1>20. id \notin R /\ id # u /\ id # v /\ id # y
  BY <1>2, <1>8, <1>10, <1>14
<1>21. /\ TablesIn(f, Places) = {u, id, v} /\ Different(f, Places)
  <2>1. u # NULL /\ v # NULL /\ id # NULL
    BY <1>9, <1>15
  <2>2. /\ TablesIn(f, Places) = {u, id, v}
        /\ Different(f, Places) <=> u # id /\ u # v /\ id # v
    BY ONLY <1>16, <2>1, ThreeTables
  <2>3. QED
    BY <1>14, <1>20, <2>2
<1>22. OwnedBy(new, k + 1) = R \cup {u, id, v} /\ OwnedOnce(new, k + 1)
  <2>1. /\ k + 1 <= Len(frs) /\ Len(new) = k + 1 /\ \A i \in 1 .. k : new[i] = frs[i]
        /\ new[k + 1].func_type = frs[k + 1].func_type /\ new \in Seq(Frame)
    BY <1>8, <1>16, <1>18, <1>19
  <2>2. /\ OwnedBy(new, k + 1) = OwnedBy(frs, k) \cup TablesIn(new[k + 1], Places)
        /\ OwnedOnce(new, k + 1) <=>
             /\ OwnedOnce(frs, k) /\ Different(new[k + 1], Places)
             /\ OwnedBy(frs, k) \cap TablesIn(new[k + 1], Places) = {}
    BY ONLY <2>1, frs \in Seq(Frame), k \in Nat, OwnedReplace
  <2>3. R \cap {u, id, v} = {}
    BY <1>10, <1>14, <1>20
  <2>4. QED
    BY <1>3, <1>8, <1>18, <1>19, <1>21, <2>2, <2>3
<1>23. Furnished(f)
  BY <1>8, <1>9, <1>15, <1>16 DEF Furnished
<1>24. /\ HelpersHeld(helper_sf_free_list') = H \cup {y}
       /\ HelpersOnce(helper_sf_free_list')
  <2>1. PICK q \in Seq(Ids) : q = helper_sf_free_list
    BY <1>9
  <2>2. PICK longer : q = helper_sf_free_list /\ longer = <<y>> \o q
    BY <2>1
  <2>3. y \in Ids /\ HelpersOnce(q) /\ y \notin HelpersHeld(q)
    BY <1>9, <1>10, <1>14, <1>15, <2>2 DEF Ids, Apart
  <2>4. HelpersHeld(longer) = HelpersHeld(q) \cup {y} /\ HelpersOnce(longer)
    BY ONLY <2>2, <2>3, q \in Seq(Ids), HelpersPush
  <2>5. QED
    BY <1>7, <1>10, <2>2, <2>4
<1>25. Apart(DOMAIN a.heap, R \cup {u, id, v}, H \cup {y}, S, W, L)
  <2>1. PICK all, g, x1, was : /\ all = DOMAIN a.heap /\ x1 = {y} /\ was = R2 \cup {u, v, y}
                               /\ g = R \cup {u, id, v}
    OBVIOUS
  <2>2. was = g \cup x1
    BY <1>10, <2>1
  <2>3. y \notin R2 /\ y \notin g
    BY <1>10, <1>14, <1>20, <2>1
  <2>4. g \cap x1 = {} /\ Apart(all, was, H, S, W, L)
    BY <1>14, <2>1, <2>3
  <2>5. Apart(all, g, H \cup x1, S, W, L)
    BY ONLY <2>2, <2>4, ApartGiven
  <2>6. QED
    BY <2>1, <2>5
<1>26. DOMAIN heap' = DOMAIN a.heap
  BY <1>7, ClearFacts
<1>27. QED
  BY <1>2, <1>10, <1>16, <1>18, <1>19, <1>22, <1>23, <1>24, <1>25, <1>26 DEF HelperReturned

LEMMA LeaveSpawnKeepsOwners ==
  ASSUME Inv, OwnersInv, NEW t \in LeavingLengths, cilk_leave_begin_spawn(t)
  PROVE  OwnersInv'
<1>1. MayLeave /\ TOOL_INITIALIZED /\ bot.func_type = "HELPER" /\ t \in Nat
  BY SitesAreSites DEF cilk_leave_begin_spawn, MayLeave, Running
<1>2. PICK r : r = Leaving(t)
  OBVIOUS
<1>3. PICK running : running = r.c_stack[c_tail].running_spn
  OBVIOUS
<1>4. PICK join : join = Longer(Front(hist)[Len(hist) - 1].join, PathAfter(t))
  OBVIOUS
<1>5. /\ Leave(t, r) /\ UNCHANGED spawner_sf_free_list
      /\ \/ LongestChild(r, running,
                         AddTables(r.heap, parent.prefix_table, parent.contin_table))
         \/ ShorterChild(r)
  BY <1>2, <1>3 DEF cilk_leave_begin_spawn
<1>6. PICK m \in Nat : /\ Len(frames) = m + 1 /\ Len(hist) = m + 1
                       /\ frames \in Seq(Frame) /\ hist \in Seq(HistRec)
                       /\ bot = frames[m + 1] /\ bot \in Frame /\ Last(hist) = hist[m + 1]
  BY <1>1, StackOfFrames
<1>7. PICK k \in Nat : m = k + 1 /\ Len(frames) = k + 2 /\ Len(hist) = k + 2
  <2>1. m - 1 \in Nat /\ (m - 1) + 1 = m /\ (m - 1) + 2 = m + 1
    BY <1>1, <1>6 DEF MayLeave
  <2>2. QED
    BY <1>6, <2>1
<1>8. PICK x, y, z, p, R, F1, F : /\ x = parent.prefix_table /\ y = parent.lchild_table
                                  /\ z = parent.contin_table /\ p = bot.prefix_table
                                  /\ R = OwnedBy(frames, k) /\ F1 = OwnedBy(frames, k + 1)
                                  /\ F = OwnedBy(frames, k + 2)
  OBVIOUS
<1>9. /\ p \notin F1 /\ F = F1 \cup {p} /\ parent.func_type # "HELPER"
      /\ hist[k + 1].stage \notin {"args", "detached"} /\ parent = frames[k + 1]
  <2>1. /\ p \notin R \cup {x, y, z} /\ F1 = R \cup {x, y, z} /\ F = R \cup {x, y, z} \cup {p}
        /\ parent.func_type # "HELPER"
        /\ hist[k + 1].stage \notin {"args", "detached"} /\ parent = frames[k + 1]
    BY <1>1, <1>7, <1>8, HelperOwners
  <2>2. QED
    BY <2>1
<1>10. PICK H, S : H = HelpersHeld(helper_sf_free_list) /\ S = SpawnersHeld(spawner_sf_free_list)
  OBVIOUS
<1>11. /\ r.prefix_table \in Nat /\ r.wrk_table \in Nat /\ r.prefix_table \notin F \ {p}
       /\ HeapApart(r.heap, (F \ {p}) \cup {r.prefix_table}, H, S, r.wrk_table, leaked)
       /\ wrk_table' = r.wrk_table /\ leaked' = leaked /\ pc' = "leaving" /\ TOOL_INITIALIZED'
  BY <1>1, <1>2, <1>5, <1>7, <1>8, <1>10, LeavingOwners
<1>12. F \ {p} = F1
  BY <1>9
<1>13. /\ r.prefix_table \notin F1
       /\ HeapApart(r.heap, F1 \cup {r.prefix_table}, HelpersHeld(helper_sf_free_list),
                    SpawnersHeld(spawner_sf_free_list), r.wrk_table, leaked)
  BY <1>10, <1>11, <1>12
<1>14. HelperReturned(k, r.wrk_table)
  <2>1. CASE ShorterChild(r)
    BY <1>1, <1>7, <1>8, <1>11, <1>13, <2>1, ShorterOwners
  <2>2. CASE LongestChild(r, running,
                          AddTables(r.heap, parent.prefix_table, parent.contin_table))
    <3>1. LeavingInv(r)
      <4>1. CStackInv /\ FramesInv /\ HeapInv
        BY <1>1 DEF Inv
      <4>2. Len(c_stack) > 1
        BY <1>1, <4>1, MayLeaveFacts
      <4>3. QED
        BY <1>1, <1>2, <1>6, <4>1, <4>2, LeavingFacts
    <3>2. running \in Nat /\ r.span \in Nat
      BY <1>3, <3>1 DEF LeavingInv
    <3>3. QED
      BY <1>1, <1>7, <1>8, <1>11, <1>13, <2>2, <3>2, LongestOwners
  <2>3. QED
    BY <1>5, <2>1, <2>2
<1>15. /\ frames' \in Seq(Frame) /\ Len(frames') = k + 1 /\ \A i \in 1 .. k : frames'[i] = frames[i]
       /\ frames'[k + 1].func_type = parent.func_type /\ Furnished(frames'[k + 1])
       /\ OwnedOnce(frames', k + 1) /\ HelpersOnce(helper_sf_free_list')
       /\ Apart(DOMAIN heap', OwnedBy(frames', k + 1), HelpersHeld(helper_sf_free_list'),
                SpawnersHeld(spawner_sf_free_list), {r.wrk_table}, leaked)
  BY <1>14 DEF HelperReturned
<1>16. hist'[k + 1].stage = "body" /\ \A i \in 1 .. k : hist'[i].stage = hist[i].stage
  <2>1. PICK front \in Seq(HistRec) : /\ front = Front(hist) /\ Len(front) = k + 1
                                      /\ \A i \in 1 .. k + 1 : front[i] = hist[i]
    BY <1>6, <1>7, HistBelow
  <2>2. PICK n \in 1 .. Len(front) : n = k + 1 /\ n = Len(hist) - 1
    BY <1>7, <2>1
  <2>3. PICK h \in HistRec : h = front[n]
    BY <2>1
  <2>4. PICK q : q = [h EXCEPT !.join = join, !.unsynced = TRUE, !.stage = "body"]
    OBVIOUS
  <2>5. hist' = [front EXCEPT ![n] = q]
    <3>1. hist' = [front EXCEPT ![n].join = Longer(@, PathAfter(t)),
                                ![n].unsynced = TRUE, ![n].stage = "body"]
      BY <2>1, <2>2 DEF cilk_leave_begin_spawn
    <3>2. join = Longer(h.join, PathAfter(t))
      BY <1>4, <2>1, <2>2, <2>3
    <3>3. QED
      BY <2>1, <2>2, <2>3, <2>4, <3>1, <3>2
  <2>6. q.stage = "body"
    BY <2>4 DEF HistRec
  <2>7. DOMAIN front = 1 .. k + 1 /\ \A i \in 1 .. k : i \in 1 .. k + 1 /\ i # n
    BY <2>1, <2>2
  <2>8. QED
    BY <2>1, <2>2, <2>5, <2>6, <2>7
<1>17. Kinds(frames', hist')
  <2>1. KindAt(frames', hist', k + 1)
    BY <1>9, <1>15, <1>16 DEF KindAt
  <2>2. Kinds(frames, hist) /\ Len(frames) \in Nat /\ k <= Len(frames)
    BY <1>1, <1>6, <1>7, RunningOwners
  <2>3. QED
    BY <1>15, <1>16, <2>1, <2>2, KindsTop
<1>18. NULL \notin Nat /\ SpawnersOnce(spawner_sf_free_list')
  BY <1>1, <1>5, <1>6, RunningOwners
<1>19. Apart(DOMAIN heap', OwnedBy(frames', k + 1), HelpersHeld(helper_sf_free_list'),
             SpawnersHeld(spawner_sf_free_list'), {wrk_table'}, leaked)
  BY <1>5, <1>11, <1>15
<1>20. QED
  BY <1>11, <1>15, <1>17, <1>18, <1>19, ReturnedOwners

LEMMA InitOwners ==
  Init => OwnersInv
<1>1. SUFFICES ASSUME Init PROVE OwnersInv
  OBVIOUS
<1>2. /\ TOOL_INITIALIZED = FALSE /\ frames = <<>> /\ hist = <<>> /\ heap = <<>>
      /\ helper_sf_free_list = <<>> /\ spawner_sf_free_list = <<>>
      /\ wrk_table = NULL /\ pc = "user" /\ leaked = {}
  BY <1>1 DEF Init
<1>3. Len(frames) = 0 /\ DOMAIN heap = {}
  BY <1>2
<1>4. Kinds(frames, hist)
  BY <1>3 DEF Kinds
<1>5. /\ HelpersHeld(helper_sf_free_list) = {} /\ SpawnersHeld(spawner_sf_free_list) = {}
      /\ HelpersOnce(helper_sf_free_list) /\ SpawnersOnce(spawner_sf_free_list)
      /\ OwnedBy(frames, Len(frames)) = {} /\ OwnedOnce(frames, Len(frames))
  BY <1>2, <1>3, NothingHeld
<1>6. Apart({}, {}, {}, {}, {wrk_table} \ {NULL}, leaked)
  BY <1>2 DEF Apart
<1>7. QED
  BY <1>2, <1>3, <1>4, <1>5, <1>6 DEF OwnersInv

\* The handlers that end the strand of a frame of its own, and those after
\* which one begins.
LEMMA StrandKeepsOwners ==
  ASSUME Inv, Inv', OwnersInv, NEW t \in StrandLengths,
         cilk_spawn_prepare(t) \/ cilk_detach_begin(t) \/ cilk_sync_begin(t)
  PROVE  OwnersInv'
<1>1. t \in Nat
  BY SitesAreSites
<1>2. TOOL_INITIALIZED
  BY DEF cilk_spawn_prepare, cilk_detach_begin, cilk_sync_begin, Running
<1>3. CASE cilk_spawn_prepare(t)
  <2>1. EndStrand(t, "prepared") /\ Stage("spawning") /\ Last(hist).stage = "body"
    BY <1>3 DEF cilk_spawn_prepare
  <2>2. QED
    BY <1>1, <1>2, <2>1, EndStrandKeepsOwners
<1>4. CASE cilk_detach_begin(t)
  <2>1. PICK next : next = "detaching"
    OBVIOUS
  <2>2. EndStrand(t, "detaching") /\ UNCHANGED hist /\ bot.func_type = "HELPER"
    BY <1>4 DEF cilk_detach_begin
  <2>3. /\ EndStrand(t, next) /\ bot.func_type = "HELPER"
        /\ UNCHANGED hist \/ (Stage("spawning") /\ Last(hist).stage = "body")
    BY <2>1, <2>2
  <2>4. /\ next = "syncing" => bot.func_type = "SPAWNER"
        /\ next = "detaching" => bot.func_type = "HELPER"
    BY <2>1, <2>3
  <2>5. QED
    BY ONLY Inv, Inv', OwnersInv, <1>1, <1>2, <2>3, <2>4, EndStrandKeepsOwners
<1>5. CASE cilk_sync_begin(t)
  <2>1. PICK next : next = "syncing"
    OBVIOUS
  <2>2. /\ EndStrand(t, next) /\ bot.func_type = "SPAWNER"
        /\ UNCHANGED hist \/ (Stage("spawning") /\ Last(hist).stage = "body")
    BY <1>5, <2>1 DEF cilk_sync_begin
  <2>3. /\ next = "syncing" => bot.func_type = "SPAWNER"
        /\ next = "detaching" => bot.func_type = "HELPER"
    BY <2>1, <2>2
  <2>4. QED
    BY ONLY Inv, Inv', OwnersInv, <1>1, <1>2, <2>2, <2>3, EndStrandKeepsOwners
<1>6. QED
  BY <1>3, <1>4, <1>5

LEMMA BacksKeepOwners ==
  ASSUME Inv, Inv', OwnersInv,
         cilk_enter_end \/ cilk_spawn_or_continue \/ cilk_detach_end \/ cilk_leave_end
  PROVE  OwnersInv'
<1>1. TOOL_INITIALIZED
  BY DEF Inv, FlagsInv, cilk_enter_end, cilk_spawn_or_continue, cilk_detach_end, cilk_leave_end
<1>2. /\ BackInUserCode
      /\ UNCHANGED hist \/ (Stage("detached") /\ pc = "detaching")
  <2>1. cilk_enter_end => BackInUserCode /\ UNCHANGED hist
    BY DEF cilk_enter_end
  <2>2. cilk_spawn_or_continue => BackInUserCode /\ UNCHANGED hist
    BY DEF cilk_spawn_or_continue
  <2>3. cilk_detach_end => BackInUserCode /\ Stage("detached") /\ pc = "detaching"
    BY DEF cilk_detach_end
  <2>4. cilk_leave_end => BackInUserCode /\ UNCHANGED hist
    BY DEF cilk_leave_end
  <2>5. QED
    BY <2>1, <2>2, <2>3, <2>4
<1>3. QED
  BY <1>1, <1>2, BackKeepsOwners

LEMMA NextKeepsOwners ==
  Inv /\ OwnersInv /\ [Next]_vars => OwnersInv'
<1>1. SUFFICES ASSUME Inv, OwnersInv, [Next]_vars PROVE OwnersInv'
  OBVIOUS
<1>2. Inv'
  BY <1>1, NextKeepsInv
<1>3. CASE cilk_tool_c_function_enter_main
  BY <1>1, <1>2, <1>3, EnterMainKeepsOwners
<1>4. ASSUME NEW site \in Sites, cilk_enter_begin_first(site) PROVE OwnersInv'
  BY <1>1, <1>2, <1>4, EnterFirstKeepsOwners
<1>5. ASSUME NEW site \in Sites, NEW t \in StrandLengths,
             \/ cilk_enter_begin(site, t) \/ cilk_enter_helper_begin(site, t)
             \/ cilk_tool_c_function_enter(site, t)
      PROVE  OwnersInv'
  BY <1>1, <1>2, <1>5, EnterSpawnerKeepsOwners, EnterHelperKeepsOwners, EnterCKeepsOwners
<1>6. ASSUME NEW t \in StrandLengths,
             \/ cilk_spawn_prepare(t) \/ cilk_detach_begin(t) \/ cilk_sync_begin(t)
             \/ cilk_tool_c_function_leave(t) \/ cilk_leave_begin_call(t)
      PROVE  OwnersInv'
  BY <1>1, <1>2, <1>6, StrandKeepsOwners, LeaveCKeepsOwners, LeaveCallKeepsOwners
<1>7. ASSUME NEW t \in LeavingLengths, cilk_leave_begin_spawn(t) PROVE OwnersInv'
  BY <1>1, <1>7, LeaveSpawnKeepsOwners
<1>8. CASE cilk_enter_end \/ cilk_spawn_or_continue \/ cilk_detach_end \/ cilk_leave_end
  BY <1>1, <1>2, <1>8, BacksKeepOwners
<1>9. CASE cilk_sync_end
  BY <1>1, <1>2, <1>9, SyncKeepsOwners
<1>10. CASE cilk_tool_print
  BY <1>1, <1>2, <1>10, PrintKeepsOwners
<1>11. CASE cilk_tool_destroy
  BY <1>1, <1>2, <1>11, DestroyKeepsOwners
<1>12. CASE UNCHANGED vars
  <2>1. UNCHANGED <<TOOL_INITIALIZED, wrk_table, helper_sf_free_list, spawner_sf_free_list, frames,
                    hist, pc, heap, leaked>>
    BY <1>12 DEF vars, stackVars, tableVars, histVars, toolVars
  <2>2. bot' = bot
    BY <2>1 DEF bot
  <2>3. OwnersInv' = OwnersInv
    BY <2>1, <2>2 DEF OwnersInv
  <2>4. QED
    BY <1>1, <2>3
<1>13. QED
  BY <1>1, <1>3, <1>4, <1>5, <1>6, <1>7, <1>8, <1>9, <1>10, <1>11, <1>12 DEF Next

LEMMA AlwaysOwners ==
  Spec => [](Inv /\ OwnersInv)
<1>1. Init => Inv /\ OwnersInv
  BY InitInv, InitOwners
<1>2. (Inv /\ OwnersInv) /\ [Next]_vars => (Inv /\ OwnersInv)'
  BY NextKeepsInv, NextKeepsOwners
<1>3. QED
  BY <1>1, <1>2, PTL DEF Spec

(***************************************************************************)
(* Every table in use has exactly one owner.                               *)
(***************************************************************************)
FramePointer(frs, q) ==
  \E i \in 1 .. Len(frs), place \in Places :
    Owns(frs, i, place) /\ q = <<"frame", i, place, TableAt(frs[i], place)>>
HelperPointer(list, q) == \E i \in 1 .. Len(list) : q = <<"helpers", i, "prefix_table", list[i]>>
SpawnerPointer(list, q) ==
  \E i \in 1 .. Len(list) : \/ q = <<"spawners", i, "lchild_table", list[i].lchild>>
                            \/ q = <<"spawners", i, "contin_table", list[i].contin>>
WorkPointer(wrk, q) == wrk # NULL /\ q = <<"work", 0, "wrk_table", wrk>>
LeakedPointer(ids, q) == \E id \in ids : q = <<"leaked", 0, "table", id>>

LEMMA FramePointers ==
  ASSUME NEW frs \in Seq(Frame), OwnedOnce(frs, Len(frs))
  PROVE  /\ \A q : FramePointer(frs, q) => q[4] \in OwnedBy(frs, Len(frs))
         /\ \A id \in OwnedBy(frs, Len(frs)) : \E q : FramePointer(frs, q) /\ q[4] = id
         /\ \A q, r : FramePointer(frs, q) /\ FramePointer(frs, r) /\ q[4] = r[4] => q = r
<1>1. \A i \in 1 .. Len(frs), place \in Places : TableAt(frs[i], place) \in Ids
  BY TablesAt
<1>2. ASSUME NEW q, FramePointer(frs, q) PROVE q[4] \in OwnedBy(frs, Len(frs))
  <2>1. PICK i \in 1 .. Len(frs), place \in Places :
          Owns(frs, i, place) /\ q = <<"frame", i, place, TableAt(frs[i], place)>>
    BY <1>2 DEF FramePointer
  <2>2. q[4] = TableAt(frs[i], place)
    BY <2>1
  <2>3. QED
    BY <1>1, <2>1, <2>2 DEF OwnedBy
<1>3. ASSUME NEW id \in OwnedBy(frs, Len(frs)) PROVE \E q : FramePointer(frs, q) /\ q[4] = id
  <2>1. PICK i \in 1 .. Len(frs), place \in Places : Owns(frs, i, place) /\ TableAt(frs[i], place) = id
    BY DEF OwnedBy
  <2>2. PICK q : q = <<"frame", i, place, TableAt(frs[i], place)>>
    OBVIOUS
  <2>3. FramePointer(frs, q) /\ q[4] = id
    BY <2>1, <2>2 DEF FramePointer
  <2>4. QED
    BY <2>3
<1>4. ASSUME NEW q, NEW r, FramePointer(frs, q), FramePointer(frs, r), q[4] = r[4] PROVE q = r
  <2>1. PICK i \in 1 .. Len(frs), place \in Places :
          Owns(frs, i, place) /\ q = <<"frame", i, place, TableAt(frs[i], place)>>
    BY <1>4 DEF FramePointer
  <2>2. PICK j \in 1 .. Len(frs), other \in Places :
          Owns(frs, j, other) /\ r = <<"frame", j, other, TableAt(frs[j], other)>>
    BY <1>4 DEF FramePointer
  <2>3. TableAt(frs[i], place) = TableAt(frs[j], other)
    BY <1>4, <2>1, <2>2
  <2>4. i = j /\ place = other
    BY <2>1, <2>2, <2>3 DEF OwnedOnce
  <2>5. QED
    BY <2>1, <2>2, <2>4
<1>5. QED
  BY <1>2, <1>3, <1>4

LEMMA HelperPointers ==
  ASSUME NEW list, HelpersOnce(list)
  PROVE  /\ \A q : HelperPointer(list, q) => q[4] \in HelpersHeld(list)
         /\ \A id \in HelpersHeld(list) : \E q : HelperPointer(list, q) /\ q[4] = id
         /\ \A q, r : HelperPointer(list, q) /\ HelperPointer(list, r) /\ q[4] = r[4] => q = r
<1>1. ASSUME NEW q, HelperPointer(list, q)
      PROVE  \E i \in 1 .. Len(list) : q = <<"helpers", i, "prefix_table", list[i]>> /\ q[4] = list[i]
  <2>1. PICK i \in 1 .. Len(list) : q = <<"helpers", i, "prefix_table", list[i]>>
    BY <1>1 DEF HelperPointer
  <2>2. QED
    BY <2>1
<1>2. ASSUME NEW id \in HelpersHeld(list) PROVE \E q : HelperPointer(list, q) /\ q[4] = id
  <2>1. PICK i \in 1 .. Len(list) : id = list[i]
    BY DEF HelpersHeld
  <2>2. PICK q : q = <<"helpers", i, "prefix_table", list[i]>>
    OBVIOUS
  <2>3. HelperPointer(list, q) /\ q[4] = id
    BY <2>1, <2>2 DEF HelperPointer
  <2>4. QED
    BY <2>3
<1>3. QED
  BY <1>1, <1>2 DEF HelpersHeld, HelpersOnce

LEMMA SpawnerPointers ==
  ASSUME NEW list, SpawnersOnce(list)
  PROVE  /\ \A q : SpawnerPointer(list, q) => q[4] \in SpawnersHeld(list)
         /\ \A id \in SpawnersHeld(list) : \E q : SpawnerPointer(list, q) /\ q[4] = id
         /\ \A q, r : SpawnerPointer(list, q) /\ SpawnerPointer(list, r) /\ q[4] = r[4] => q = r
<1>1. ASSUME NEW q, SpawnerPointer(list, q)
      PROVE  \E i \in 1 .. Len(list) :
               \/ q = <<"spawners", i, "lchild_table", list[i].lchild>> /\ q[4] = list[i].lchild
               \/ q = <<"spawners", i, "contin_table", list[i].contin>> /\ q[4] = list[i].contin
  <2>1. PICK i \in 1 .. Len(list) : \/ q = <<"spawners", i, "lchild_table", list[i].lchild>>
                                    \/ q = <<"spawners", i, "contin_table", list[i].contin>>
    BY <1>1 DEF SpawnerPointer
  <2>2. QED
    BY <2>1
<1>2. ASSUME NEW id \in SpawnersHeld(list) PROVE \E q : SpawnerPointer(list, q) /\ q[4] = id
  <2>1. PICK i \in 1 .. Len(list) : id = list[i].lchild \/ id = list[i].contin
    BY DEF SpawnersHeld
  <2>2. PICK q, r : /\ q = <<"spawners", i, "lchild_table", list[i].lchild>>
                    /\ r = <<"spawners", i, "contin_table", list[i].contin>>
    OBVIOUS
  <2>3. /\ SpawnerPointer(list, q) /\ q[4] = list[i].lchild
        /\ SpawnerPointer(list, r) /\ r[4] = list[i].contin
    BY <2>2 DEF SpawnerPointer
  <2>4. QED
    BY <2>1, <2>3
<1>3. ASSUME NEW q, NEW r, SpawnerPointer(list, q), SpawnerPointer(list, r), q[4] = r[4] PROVE q = r
  <2>1. PICK i \in 1 .. Len(list) :
          \/ q = <<"spawners", i, "lchild_table", list[i].lchild>> /\ q[4] = list[i].lchild
          \/ q = <<"spawners", i, "contin_table", list[i].contin>> /\ q[4] = list[i].contin
    BY <1>1, <1>3
  <2>2. PICK j \in 1 .. Len(list) :
          \/ r = <<"spawners", j, "lchild_table", list[j].lchild>> /\ r[4] = list[j].lchild
          \/ r = <<"spawners", j, "contin_table", list[j].contin>> /\ r[4] = list[j].contin
    BY <1>1, <1>3
  <2>3. /\ list[i].lchild = list[j].lchild \/ list[i].contin = list[j].contin => i = j
        /\ list[i].lchild # list[j].contin /\ list[j].lchild # list[i].contin
    BY DEF SpawnersOnce
  <2>4. QED
    BY <1>3, <2>1, <2>2, <2>3
<1>4. QED
  BY <1>1, <1>2, <1>3 DEF SpawnersHeld

LEMMA OtherPointers ==
  ASSUME NEW wrk, NEW ids
  PROVE  /\ \A q : WorkPointer(wrk, q) => q[4] \in {wrk} \ {NULL}
         /\ \A id \in {wrk} \ {NULL} : \E q : WorkPointer(wrk, q) /\ q[4] = id
         /\ \A q, r : WorkPointer(wrk, q) /\ WorkPointer(wrk, r) => q = r
         /\ \A q : LeakedPointer(ids, q) => q[4] \in ids
         /\ \A id \in ids : \E q : LeakedPointer(ids, q) /\ q[4] = id
         /\ \A q, r : LeakedPointer(ids, q) /\ LeakedPointer(ids, r) /\ q[4] = r[4] => q = r
<1>1. \A q : WorkPointer(wrk, q) => q[4] \in {wrk} \ {NULL}
  BY DEF WorkPointer
<1>2. ASSUME NEW id \in {wrk} \ {NULL} PROVE \E q : WorkPointer(wrk, q) /\ q[4] = id
  <2>1. PICK q : q = <<"work", 0, "wrk_table", wrk>>
    OBVIOUS
  <2>2. WorkPointer(wrk, q) /\ q[4] = id
    BY <2>1 DEF WorkPointer
  <2>3. QED
    BY <2>2
<1>3. \A q, r : WorkPointer(wrk, q) /\ WorkPointer(wrk, r) => q = r
  BY DEF WorkPointer
<1>4. ASSUME NEW q, LeakedPointer(ids, q) PROVE q[4] \in ids /\ q = <<"leaked", 0, "table", q[4]>>
  <2>1. PICK id \in ids : q = <<"leaked", 0, "table", id>>
    BY <1>4 DEF LeakedPointer
  <2>2. q[4] = id
    BY <2>1
  <2>3. QED
    BY <2>1, <2>2
<1>5. ASSUME NEW id \in ids PROVE \E q : LeakedPointer(ids, q) /\ q[4] = id
  <2>1. PICK q : q = <<"leaked", 0, "table", id>>
    OBVIOUS
  <2>2. LeakedPointer(ids, q) /\ q[4] = id
    BY <2>1 DEF LeakedPointer
  <2>3. QED
    BY <2>2
<1>6. \A q, r : LeakedPointer(ids, q) /\ LeakedPointer(ids, r) /\ q[4] = r[4] => q = r
  <2>1. SUFFICES ASSUME NEW q, NEW r, LeakedPointer(ids, q), LeakedPointer(ids, r), q[4] = r[4]
                 PROVE  q = r
    OBVIOUS
  <2>2. q = <<"leaked", 0, "table", q[4]>> /\ r = <<"leaked", 0, "table", r[4]>>
    BY <1>4, <2>1
  <2>3. QED
    BY <2>1, <2>2
<1>7. QED
  BY <1>1, <1>2, <1>3, <1>4, <1>5, <1>6

LEMMA PointerKinds ==
  ASSUME frames \in Seq(Frame), helper_sf_free_list \in Seq(Ids),
         spawner_sf_free_list \in Seq(SpawnerTables)
  PROVE  \A q : q \in Pointers <=>
           \/ FramePointer(frames, q)
           \/ HelperPointer(helper_sf_free_list, q)
           \/ SpawnerPointer(spawner_sf_free_list, q)
           \/ WorkPointer(wrk_table, q)
           \/ LeakedPointer(leaked, q)
<1> DEFINE A == {<<"frame", p[1], p[2], frames[p[1]][p[2]]>> :
                   p \in Owned({"prefix_table", "lchild_table", "contin_table"})}
           B == {<<"helpers", i, "prefix_table", helper_sf_free_list[i]>> :
                   i \in DOMAIN helper_sf_free_list}
           C == UNION {{<<"spawners", i, "lchild_table", spawner_sf_free_list[i].lchild>>,
                        <<"spawners", i, "contin_table", spawner_sf_free_list[i].contin>>} :
                         i \in DOMAIN spawner_sf_free_list}
           D == IF wrk_table = NULL THEN {} ELSE {<<"work", 0, "wrk_table", wrk_table>>}
           E == {<<"leaked", 0, "table", id>> : id \in leaked}
<1>1. Pointers = A \cup B \cup C \cup D \cup E
  BY DEF Pointers, A, B, C, D, E
<1> HIDE DEF A, B, C, D, E
<1>2. \A q : q \in Pointers <=> q \in A \/ q \in B \/ q \in C \/ q \in D \/ q \in E
  BY <1>1
<1>3. /\ DOMAIN frames = 1 .. Len(frames) /\ DOMAIN helper_sf_free_list = 1 .. Len(helper_sf_free_list)
      /\ DOMAIN spawner_sf_free_list = 1 .. Len(spawner_sf_free_list)
  OBVIOUS
<1>4. ASSUME NEW q PROVE q \in A <=> FramePointer(frames, q)
  <2>1. ASSUME NEW i \in 1 .. Len(frames), NEW place \in Places
        PROVE  <<i, place>> \in Owned(Places) <=> Owns(frames, i, place)
    <3>1. IsLent(i, place) <=> (i < Len(frames) /\ frames[i + 1].func_type = "SPAWNER"
                                /\ place = LentPlace(frames[i]))
      BY DEF IsLent, LentPlace
    <3>2. QED
      BY <1>3, <3>1 DEF Owned, Owns, TableAt
  <2>2. \A p \in Owned(Places) : p[1] \in 1 .. Len(frames) /\ p[2] \in Places /\ p = <<p[1], p[2]>>
    BY <1>3 DEF Owned
  <2>3. A = {<<"frame", p[1], p[2], frames[p[1]][p[2]]>> : p \in Owned(Places)}
    BY DEF A, Places
  <2>4. ASSUME q \in A PROVE FramePointer(frames, q)
    <3>1. PICK p \in Owned(Places) : q = <<"frame", p[1], p[2], frames[p[1]][p[2]]>>
      BY <2>3, <2>4
    <3>2. PICK i \in 1 .. Len(frames), place \in Places :
            i = p[1] /\ place = p[2] /\ p = <<i, place>>
      BY <2>2
    <3>3. Owns(frames, i, place) /\ q = <<"frame", i, place, TableAt(frames[i], place)>>
      BY <2>1, <3>1, <3>2 DEF TableAt
    <3>4. QED
      BY <3>3 DEF FramePointer
  <2>5. ASSUME FramePointer(frames, q) PROVE q \in A
    <3>1. PICK i \in 1 .. Len(frames), place \in Places :
            Owns(frames, i, place) /\ q = <<"frame", i, place, TableAt(frames[i], place)>>
      BY <2>5 DEF FramePointer
    <3>2. PICK p : p = <<i, place>>
      OBVIOUS
    <3>3. p \in Owned(Places) /\ p[1] = i /\ p[2] = place
      BY <2>1, <3>1, <3>2
    <3>4. q = <<"frame", p[1], p[2], frames[p[1]][p[2]]>>
      BY <3>1, <3>3 DEF TableAt
    <3>5. QED
      BY <2>3, <3>3, <3>4
  <2>6. QED
    BY <2>4, <2>5
<1>5. \A q : q \in B <=> HelperPointer(helper_sf_free_list, q)
  BY <1>3 DEF B, HelperPointer
<1>6. ASSUME NEW q PROVE q \in C <=> SpawnerPointer(spawner_sf_free_list, q)
  <2>1. PICK n, list : list = spawner_sf_free_list /\ n = 1 .. Len(list)
    OBVIOUS
  <2>2. C = UNION {{<<"spawners", i, "lchild_table", list[i].lchild>>,
                    <<"spawners", i, "contin_table", list[i].contin>>} : i \in n}
    BY <1>3, <2>1 DEF C
  <2>3. q \in C <=> \E i \in n : \/ q = <<"spawners", i, "lchild_table", list[i].lchild>>
                                 \/ q = <<"spawners", i, "contin_table", list[i].contin>>
    BY <2>2
  <2>4. QED
    BY <2>1, <2>3 DEF SpawnerPointer
<1>7. \A q : q \in D <=> WorkPointer(wrk_table, q)
  BY DEF D, WorkPointer
<1>8. \A q : q \in E <=> LeakedPointer(leaked, q)
  BY DEF E, LeakedPointer
<1>9. QED
  BY <1>2, <1>4, <1>5, <1>6, <1>7, <1>8

LEMMA OwnersAreOne ==
  Inv /\ OwnersInv => TablesHaveOneOwner
<1>1. SUFFICES ASSUME Inv, OwnersInv PROVE TablesHaveOneOwner
  OBVIOUS
<1>2. /\ frames \in Seq(Frame) /\ helper_sf_free_list \in Seq(Ids)
      /\ spawner_sf_free_list \in Seq(SpawnerTables) /\ IsHeap(heap)
  <2>1. CASE TOOL_INITIALIZED
    BY <1>1, <2>1 DEF Inv, HeapInv, FramesInv, Piled
  <2>2. CASE ~TOOL_INITIALIZED
    <3>1. frames = <<>> /\ HeapInv
      BY <1>1, <2>2 DEF Inv
    <3>2. <<>> \in Seq(Frame)
      BY EmptySeq
    <3>3. QED
      BY <3>1, <3>2 DEF HeapInv
  <2>3. QED
    BY <2>1, <2>2
<1>3. PICK F, H, S, W, L :
        /\ F = OwnedBy(frames, Len(frames)) /\ H = HelpersHeld(helper_sf_free_list)
        /\ S = SpawnersHeld(spawner_sf_free_list) /\ W = {wrk_table} \ {NULL} /\ L = leaked
  OBVIOUS
<1>4. /\ DOMAIN heap = F \cup H \cup S \cup W \cup L
      /\ F \cap H = {} /\ F \cap S = {} /\ F \cap W = {} /\ F \cap L = {}
      /\ H \cap S = {} /\ H \cap W = {} /\ H \cap L = {}
      /\ S \cap W = {} /\ S \cap L = {} /\ W \cap L = {}
  BY <1>1, <1>3 DEF OwnersInv, Apart
<1>5. /\ OwnedOnce(frames, Len(frames)) /\ HelpersOnce(helper_sf_free_list)
      /\ SpawnersOnce(spawner_sf_free_list)
  BY <1>1 DEF OwnersInv
<1>6. /\ \A q : FramePointer(frames, q) => q[4] \in F
      /\ \A id \in F : \E q : FramePointer(frames, q) /\ q[4] = id
      /\ \A q, r : FramePointer(frames, q) /\ FramePointer(frames, r) /\ q[4] = r[4] => q = r
  BY <1>2, <1>3, <1>5, FramePointers
<1>7. /\ \A q : HelperPointer(helper_sf_free_list, q) => q[4] \in H
      /\ \A id \in H : \E q : HelperPointer(helper_sf_free_list, q) /\ q[4] = id
      /\ \A q, r : HelperPointer(helper_sf_free_list, q) /\ HelperPointer(helper_sf_free_list, r)
                   /\ q[4] = r[4] => q = r
  BY <1>3, <1>5, HelperPointers
<1>8. /\ \A q : SpawnerPointer(spawner_sf_free_list, q) => q[4] \in S
      /\ \A id \in S : \E q : SpawnerPointer(spawner_sf_free_list, q) /\ q[4] = id
      /\ \A q, r : SpawnerPointer(spawner_sf_free_list, q) /\ SpawnerPointer(spawner_sf_free_list, r)
                   /\ q[4] = r[4] => q = r
  BY <1>3, <1>5, SpawnerPointers
<1>9. /\ \A q : WorkPointer(wrk_table, q) => q[4] \in W
      /\ \A id \in W : \E q : WorkPointer(wrk_table, q) /\ q[4] = id
      /\ \A q, r : WorkPointer(wrk_table, q) /\ WorkPointer(wrk_table, r) => q = r
      /\ \A q : LeakedPointer(leaked, q) => q[4] \in L
      /\ \A id \in L : \E q : LeakedPointer(leaked, q) /\ q[4] = id
      /\ \A q, r : LeakedPointer(leaked, q) /\ LeakedPointer(leaked, r) /\ q[4] = r[4] => q = r
  BY <1>3, OtherPointers
<1>10. \A q : q \in Pointers <=> \/ FramePointer(frames, q)
                                 \/ HelperPointer(helper_sf_free_list, q)
                                 \/ SpawnerPointer(spawner_sf_free_list, q)
                                 \/ WorkPointer(wrk_table, q)
                                 \/ LeakedPointer(leaked, q)
  BY <1>2, PointerKinds
<1>11. \A q \in Pointers : q[4] \in DOMAIN heap
  BY <1>4, <1>6, <1>7, <1>8, <1>9, <1>10
<1>12. ASSUME NEW id \in DOMAIN heap PROVE \E q \in Pointers : q[4] = id
  <2>1. id \in F \/ id \in H \/ id \in S \/ id \in W \/ id \in L
    BY <1>4
  <2>2. QED
    BY <1>6, <1>7, <1>8, <1>9, <1>10, <2>1
<1>13. ASSUME NEW q \in Pointers, NEW r \in Pointers, q[4] = r[4] PROVE q = r
  <2>1. CASE FramePointer(frames, q)
    BY <1>4, <1>6, <1>7, <1>8, <1>9, <1>10, <1>13, <2>1
  <2>2. CASE HelperPointer(helper_sf_free_list, q)
    BY <1>4, <1>6, <1>7, <1>8, <1>9, <1>10, <1>13, <2>2
  <2>3. CASE SpawnerPointer(spawner_sf_free_list, q)
    BY <1>4, <1>6, <1>7, <1>8, <1>9, <1>10, <1>13, <2>3
  <2>4. CASE WorkPointer(wrk_table, q)
    BY <1>4, <1>6, <1>7, <1>8, <1>9, <1>10, <1>13, <2>4
  <2>5. CASE LeakedPointer(leaked, q)
    BY <1>4, <1>6, <1>7, <1>8, <1>9, <1>10, <1>13, <2>5
  <2>6. QED
    BY <1>10, <2>1, <2>2, <2>3, <2>4, <2>5
<1>14. {q[4] : q \in Pointers} = DOMAIN heap
  BY <1>11, <1>12
<1>15. PICK table : table = [q \in Pointers |-> q[4]]
  OBVIOUS
<1>16. table \in Injection(Pointers, DOMAIN heap)
  <2>1. table \in [Pointers -> DOMAIN heap]
    BY <1>11, <1>15
  <2>2. IsInjective(table)
    BY <1>13, <1>15 DEF IsInjective
  <2>3. QED
    BY <2>1, <2>2 DEF Injection
<1>17. table \in Surjection(Pointers, DOMAIN heap)
  BY <1>11, <1>12, <1>15 DEF Surjection
<1>18. Cardinality(Pointers) = Cardinality(DOMAIN heap)
  <2>1. IsFiniteSet(DOMAIN heap)
    BY <1>2 DEF IsHeap
  <2>2. QED
    BY <1>16, <1>17, <2>1, FS_Injection
<1>19. QED
  BY <1>14, <1>18 DEF TablesHaveOneOwner

-----------------------------------------------------------------------------
\* Every vector and table the handlers index is long enough, every C frame has
\* a call site with a number, and the frames' heads are places on the C stack.
THEOREM SpecTypeOK ==
  Spec => []TypeOK
BY AlwaysInv, InvIsTyped, PTL

\* However calls recurse, through one call site or several, and however the
\* tables of numbers and the status vectors grow meanwhile, a call site is on
\* the stack from its outermost C frame on, and so is its function: what a
\* return records as an outermost invocation is one.
THEOREM SpecStatusMatchesStack ==
  Spec => []StatusMatchesStack
BY AlwaysInv, InvMatches, PTL

\* However tables grow and move, are swapped when they are added together, lent
\* to callees and kept on free lists: every table in use is owned by exactly one
\* place of a frame, of a free list or of the tool, and none is lost but for
\* those of MAIN that cilk_tool_destroy forgets; no owner names a freed one.
THEOREM SpecTablesHaveOneOwner ==
  Spec => []TablesHaveOneOwner
BY AlwaysOwners, OwnersAreOne, PTL
=============================================================================
