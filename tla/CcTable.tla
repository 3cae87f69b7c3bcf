------------------------------ MODULE CcTable --------------------------------
(***************************************************************************)
(* The tables of call-site data (cilkprof/cc_hashtable.c): entries indexed *)
(* by the number of the call site, and in front of them a list of updates  *)
(* not yet applied, so that a table with few updates stays small.  A table *)
(* is [lg_capacity, list, entries]; an entry is NULL while it is not       *)
(* initialized, and otherwise holds the call site's address and the sums.  *)
(* min is MIN_CAPACITY: the number of call sites seen so far.              *)
(***************************************************************************)
EXTENDS Integers, FiniteSets, SequencesExt

CONSTANTS
  NULL,
  START_CC_LG_CAPACITY,  \* 2 in the source
  TABLE_CONSTANT         \* 4 in the source

ASSUME CcTableAssumption ==
  /\ START_CC_LG_CAPACITY \in Nat /\ TABLE_CONSTANT \in Nat \ {0}
  /\ NULL \notin Nat

Capacity(tab) == 2 ^ tab.lg_capacity

cc_hashtable_create ==
  [lg_capacity |-> START_CC_LG_CAPACITY, list |-> <<>>,
   entries |-> [i \in 0 .. 2 ^ START_CC_LG_CAPACITY - 1 |-> NULL]]

\* The entries that hold data: populated[0..table_size-1].
Populated(tab) == {i \in DOMAIN tab.entries : tab.entries[i] # NULL}
table_size(tab) == Cardinality(Populated(tab))

cc_hashtable_is_empty(tab) == table_size(tab) = 0 /\ tab.list = <<>>

-----------------------------------------------------------------------------
\* The data of one invocation: of the outermost one of its call site, made
\* from the outermost instance of its caller or not, ...
Invocation(is_top_fn, wrk, spn, local_wrk, local_spn) ==
  [wrk |-> wrk, spn |-> spn, count |-> 1,
   top_wrk   |-> IF is_top_fn THEN wrk ELSE 0,
   top_spn   |-> IF is_top_fn THEN spn ELSE 0,
   top_count |-> IF is_top_fn THEN 1 ELSE 0,
   local_wrk |-> local_wrk, local_spn |-> local_spn, local_count |-> 1]

\* ... and of a recursive one, of which only the local part is recorded.
LocalInvocation(local_wrk, local_spn) ==
  [wrk |-> 0, spn |-> 0, count |-> 0, top_wrk |-> 0, top_spn |-> 0, top_count |-> 0,
   local_wrk |-> local_wrk, local_spn |-> local_spn, local_count |-> 1]

NoInvocation == [LocalInvocation(0, 0) EXCEPT !.local_count = 0]

\* combine_entries, on the sums
Plus(a, b) == [field \in DOMAIN a |-> a[field] + b[field]]

\* can_override_entry: the assertion wherever an entry is combined with another.
can_override_entry(entry, rip) == entry = NULL \/ entry.rip = rip

\* That assertion, of the entry at an update's index; a table that must grow
\* for the update has none there.
CanPut(tab, index, rip) ==
  index \in DOMAIN tab.entries => can_override_entry(tab.entries[index], rip)

\* increase_cc_table_capacity: room for every call site seen so far.
CeilLg(n) == CHOOSE lg \in 0 .. n : 2 ^ lg >= n /\ (lg = 0 \/ 2 ^ (lg - 1) < n)

increase_cc_table_capacity(tab, min) ==
  LET lg == IF Capacity(tab) < min THEN CeilLg(min) ELSE tab.lg_capacity + 1
  IN  [tab EXCEPT !.lg_capacity = lg,
                  !.entries = [i \in 0 .. 2 ^ lg - 1 |->
                                 IF i < Capacity(tab) THEN tab.entries[i] ELSE NULL]]

\* An update is combined with the entry at its index.
Combined(tab, update) ==
  [tab EXCEPT !.entries[update.index] =
     [rip |-> update.rip,
      sums |-> IF @ = NULL THEN update.sums ELSE Plus(@.sums, update.sums)]]

PutEntry(tab, update, min) ==
  LET room == IF update.index >= Capacity(tab) THEN increase_cc_table_capacity(tab, min)
                                               ELSE tab
  IN  Combined(room, update)

\* The updates of a list, applied one after the other
PutAll(tab, updates, min) == FoldLeft(LAMBDA t, u : PutEntry(t, u, min), tab, updates)

\* Mutant: the last element of the list is left out.
FlushedButTail(tab, min) == [PutAll(tab, Front(tab.list), min) EXCEPT !.list = <<>>]

flush_cc_hashtable(tab, min) == [PutAll(tab, tab.list, min) EXCEPT !.list = <<>>]

\* Its assertion, of each update when it is applied
FlushAsserts(tab, min) ==
  \A n \in DOMAIN tab.list :
    CanPut(PutAll(tab, SubSeq(tab.list, 1, n - 1), min), tab.list[n].index, tab.list[n].rip)

\* Too few updates for the array, or no place in it, and the list is short
StaysInList(tab, index, min) ==
  /\ table_size(tab) = 0 \/ index >= Capacity(tab)
  /\ Len(tab.list) < min * TABLE_CONSTANT

\* add_to_cc_hashtable and add_local_to_cc_hashtable
add_to_cc_hashtable(tab, update, min) ==
  IF StaysInList(tab, update.index, min) THEN [tab EXCEPT !.list = Append(@, update)]
  ELSE PutEntry(flush_cc_hashtable(tab, min), update, min)

\* Their assertions: what goes to the list from the top has taken some time,
\* and what goes to the array finds its own call site there.
AddAsserts(tab, update, min) ==
  IF StaysInList(tab, update.index, min) THEN update.sums.top_count = 1 => update.sums.wrk # 0
  ELSE FlushAsserts(tab, min) /\ CanPut(flush_cc_hashtable(tab, min), update.index, update.rip)

\* The entries of right, which is no larger, are combined with those of left.
MergedEntries(left, right) ==
  FoldSet(LAMBDA i, t : Combined(t, [index |-> i, rip |-> right.entries[i].rip,
                                     sums |-> right.entries[i].sums]),
          left, Populated(right))

\* add_cc_hashtables, once left is the larger: right's list is appended to
\* left's, which is flushed if it is long; then right's entries are added.
JoinedLists(left, right) == [left EXCEPT !.list = @ \o right.list]
IsLong(tab, min) == Len(tab.list) >= min * TABLE_CONSTANT

Gathered(left, right, min) ==
  LET joined == JoinedLists(left, right)
  IN  IF IsLong(joined, min) THEN flush_cc_hashtable(joined, min) ELSE joined

Added(left, right, min) == MergedEntries(Gathered(left, right, min), right)

\* Its assertions: of the flush, and of each of right's entries
SumAsserts(left, right, min) ==
  /\ IsLong(JoinedLists(left, right), min) => FlushAsserts(JoinedLists(left, right), min)
  /\ \A i \in Populated(right) : CanPut(Gathered(left, right, min), i, right.entries[i].rip)

\* Mutant: only the entries are cleared.
ClearedEntries(tab) == [tab EXCEPT !.entries = [i \in DOMAIN @ |-> NULL]]

clear_cc_hashtable(tab) ==
  [tab EXCEPT !.list = <<>>, !.entries = [i \in DOMAIN @ |-> NULL]]

-----------------------------------------------------------------------------
\* What a table says of call site i: its entry and the updates in the list.
DataOf(tab, i) ==
  FoldLeft(LAMBDA acc, u : IF u.index = i THEN Plus(acc, u.sums) ELSE acc,
           IF i \in Populated(tab) THEN tab.entries[i].sums ELSE NoInvocation,
           tab.list)

\* The addresses it has for call site i.
RipsOf(tab, i) ==
  {u.rip : u \in {v \in ToSet(tab.list) : v.index = i}}
    \cup IF i \in Populated(tab) THEN {tab.entries[i].rip} ELSE {}
=============================================================================
