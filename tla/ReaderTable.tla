---------------------------- MODULE ReaderTable -----------------------------
(***************************************************************************)
(* The table viewread keeps the last reader of each reducer in             *)
(* (viewread/viewread_shadowmem.h): open addressing with linear probing    *)
(* over at most MAX_DISPLACEMENT slots, doubled until an entry fits.       *)
(* Nothing is ever removed.  A table is [lg_capacity, size, entries]; a    *)
(* slot is an index, or NULL.                                              *)
(***************************************************************************)
EXTENDS Integers, FiniteSetsExt

CONSTANTS
  NULL,
  Reducers,     \* addresses of reducers: positive numbers
  HashOf,       \* the hash of each, before the mask
  MaxLgCapacity \* bound on the table's growth

ASSUME ReducersAssumption ==
  /\ Reducers \subseteq Nat \ {0}
  /\ HashOf \in [Reducers -> Nat]
  /\ MaxLgCapacity \in Nat
  /\ NULL \notin Nat

MAX_DISPLACEMENT  == 32   \* 1024 / sizeof(reader_t)
START_LG_CAPACITY == 1

Slots(tab) == 0 .. 2 ^ tab.lg_capacity - 1

EmptyReader == [reducer |-> 0, reader |-> 0, spawns |-> 0, node |-> 0]
empty_reader_p(entry) == entry.reducer = 0

\* Mutant: one entry too many.
AllocatedPastEnd(lg) ==
  [lg_capacity |-> lg, size |-> 0, entries |-> [i \in 0 .. 2 ^ lg |-> EmptyReader]]

shadowmem_alloc(lg) ==
  [lg_capacity |-> lg, size |-> 0, entries |-> [i \in 0 .. 2 ^ lg - 1 |-> EmptyReader]]

-----------------------------------------------------------------------------
\* The slot disp places after the one the hash gives, with wrap-around.
Probe(reducer, tab, disp) == (HashOf[reducer] + disp) % 2 ^ tab.lg_capacity

Displacements(tab) == {d \in Slots(tab) : d < MAX_DISPLACEMENT}

\* The first slot that is empty or the reducer's own.
get_reader_helper(reducer, tab) ==
  LET fits == {d \in Displacements(tab) :
                 LET entry == tab.entries[Probe(reducer, tab, d)]
                 IN  empty_reader_p(entry) \/ entry.reducer = reducer}
  IN  IF fits = {} THEN NULL ELSE Probe(reducer, tab, Min(fits))

\* Mutant: the hash is not masked again for the larger table.
OldSlot(reducer, tab, new) == get_reader_helper(reducer, tab)

NewSlot(reducer, tab, new) == get_reader_helper(reducer, new)

\* A new table with the copies of tab's entries below index i, for each i, or
\* NULL if one of them found no slot.
Copied(tab, lg) ==
  LET copied[i \in 0 .. 2 ^ tab.lg_capacity] ==
        IF i = 0 THEN shadowmem_alloc(lg)
        ELSE LET new  == copied[i - 1]
                 old  == tab.entries[i - 1]
                 slot == NewSlot(old.reducer, tab, new)
             IN  IF new = NULL \/ empty_reader_p(old) THEN new
                 ELSE IF slot = NULL THEN NULL
                 ELSE [new EXCEPT !.entries[slot] = old, !.size = @ + 1]
  IN  copied

CopyInto(tab, lg) == Copied(tab, lg)[2 ^ tab.lg_capacity]

\* The assertion of each copy: the slot it goes to is empty.
CopyAsserts(tab, lg) ==
  \A i \in Slots(tab) :
    LET old  == tab.entries[i]
        new  == Copied(tab, lg)[i]
        slot == NewSlot(old.reducer, tab, new)
    IN  ~empty_reader_p(old) /\ new # NULL /\ slot # NULL => empty_reader_p(new.entries[slot])

\* The smallest larger table all entries of tab fit in, or tab itself if the
\* bound leaves none.
increase_table_capacity(tab) ==
  LET fits == {lg \in tab.lg_capacity + 1 .. MaxLgCapacity : CopyInto(tab, lg) # NULL}
  IN  IF fits = {} THEN tab ELSE [CopyInto(tab, Min(fits)) EXCEPT !.size = tab.size]

\* The assertions on the way: the capacities are tried one after the other.
GrowthAsserts(tab) ==
  \A lg \in tab.lg_capacity + 1 .. MaxLgCapacity :
    (\A k \in tab.lg_capacity + 1 .. lg - 1 : CopyInto(tab, k) = NULL) => CopyAsserts(tab, lg)

\* The table after k rounds of growth, for each k, which end once the reducer
\* has a slot in it.
Growths(reducer, tab) ==
  LET grown[k \in 0 .. MaxLgCapacity] ==
        IF k = 0 THEN tab
        ELSE IF get_reader_helper(reducer, grown[k - 1]) # NULL THEN grown[k - 1]
        ELSE increase_table_capacity(grown[k - 1])
  IN  grown

get_reader(reducer, tab) == Growths(reducer, tab)[MaxLgCapacity]

\* No assertion fails in them.
ReaderAsserts(reducer, tab) ==
  \A k \in 0 .. MaxLgCapacity - 1 :
    LET room == Growths(reducer, tab)[k]
    IN  get_reader_helper(reducer, room) = NULL => GrowthAsserts(room)

\* The bound leaves room for an entry of the reducer.
HasRoom(reducer, tab) == get_reader_helper(reducer, get_reader(reducer, tab)) # NULL

\* Mutant: an entry that is overwritten is counted again.
CountedAgain(tab, slot) == tab.size + 1

CountedSize(tab, slot) ==
  IF empty_reader_p(tab.entries[slot]) THEN tab.size + 1 ELSE tab.size

update_shadowmem(tab, reducer, reader, spawns, node) ==
  LET room == get_reader(reducer, tab)
      slot == get_reader_helper(reducer, room)
  IN  [room EXCEPT
         !.size = CountedSize(room, slot),
         !.entries[slot] = [reducer |-> reducer, reader |-> reader,
                            spawns |-> spawns, node |-> node]]

\* The entry found for a reducer.
LastReader(reducer, tab) ==
  LET room == get_reader(reducer, tab)
  IN  room.entries[get_reader_helper(reducer, room)]
=============================================================================
