----------------------------- MODULE IaddrTable ------------------------------
(***************************************************************************)
(* The tables cilkprof numbers call sites and functions with               *)
(* (cilkprof/iaddrs.c): a hash table of chains, keyed by an instruction    *)
(* address and a function type.  A key gets the next index when it is      *)
(* first added and keeps it; a record that is found moves to the front of  *)
(* its chain; the table doubles when it would be more than half full.      *)
(* A table is [lg_capacity, table_size, records], and records[b] is the    *)
(* chain of bucket b.                                                      *)
(***************************************************************************)
EXTENDS Integers, SequencesExt

CONSTANT START_LG_CAPACITY   \* 4 in the source

ASSUME StartLgAssumption == START_LG_CAPACITY \in Nat \ {0}

TAG_OFFSET == 2

hash(iaddr, lg) == (iaddr \div 2 ^ TAG_OFFSET) % 2 ^ lg

iaddr_table_alloc(lg) ==
  [lg_capacity |-> lg, table_size |-> 0, records |-> [b \in 0 .. 2 ^ lg - 1 |-> <<>>]]

iaddr_table_create == iaddr_table_alloc(START_LG_CAPACITY)

\* The position of the key in a chain; one past the end if it is not there.
PositionIn(chain, iaddr, func_type) ==
  SelectInSeq(chain, LAMBDA rec : rec.iaddr = iaddr /\ rec.func_type = func_type)

\* get_iaddr_record_const: is the key there, and the table after the lookup.
Found(tab, iaddr, func_type) ==
  PositionIn(tab.records[hash(iaddr, tab.lg_capacity)], iaddr, func_type) # 0

\* Mutant: the records that precede the one found are unlinked with it.
MovedDroppingPrefix(chain, i) ==
  <<chain[i]>> \o SubSeq(chain, i + 1, Len(chain))

MovedToFront(chain, i) == <<chain[i]>> \o RemoveAt(chain, i)

LookedUp(tab, iaddr, func_type) ==
  LET b == hash(iaddr, tab.lg_capacity)
  IN  [tab EXCEPT !.records[b] = MovedToFront(@, PositionIn(@, iaddr, func_type))]

\* Every record, pushed in turn on the chain its address hashes to by now.
increase_table_capacity(tab) ==
  LET lg == tab.lg_capacity + 1
      pushed(new, rec) == [new EXCEPT !.records[hash(rec.iaddr, lg)] = <<rec>> \o @]
      all == FlattenSeq([b \in 1 .. 2 ^ tab.lg_capacity |-> tab.records[b - 1]])
  IN  [FoldLeft(pushed, iaddr_table_alloc(lg), all) EXCEPT !.table_size = tab.table_size]

\* get_iaddr_record, when the key is new.
Inserted(tab, iaddr, func_type) ==
  LET room == IF tab.table_size + 1 > 2 ^ (tab.lg_capacity - 1)
              THEN increase_table_capacity(tab) ELSE tab
      rec == [iaddr |-> iaddr, func_type |-> func_type, index |-> room.table_size]
  IN  [room EXCEPT !.table_size = @ + 1,
                   !.records[hash(iaddr, room.lg_capacity)] = <<rec>> \o @]

\* add_to_iaddr_table: the table afterwards, and the index of the key in it.
add_to_iaddr_table(tab, iaddr, func_type) ==
  IF Found(tab, iaddr, func_type) THEN LookedUp(tab, iaddr, func_type)
                                  ELSE Inserted(tab, iaddr, func_type)

\* After an add, the key is at the front of its chain.
IndexOf(tab, iaddr) == Head(tab.records[hash(iaddr, tab.lg_capacity)]).index

AllRecords(tab) == UNION {ToSet(tab.records[b]) : b \in DOMAIN tab.records}
=============================================================================
