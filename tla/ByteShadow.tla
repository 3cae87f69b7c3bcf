----------------------------- MODULE ByteShadow ------------------------------
(***************************************************************************)
(* What the shadow entry of one 8-byte word promises: each byte has a last *)
(* reader and a last writer of its own.  An access checks the bytes it     *)
(* covers, against the accesses kept there that are parallel to it, and    *)
(* replaces the ones that are not.                                         *)
(***************************************************************************)
EXTENDS Integers

CONSTANT MaxAccesses

Bytes == 0 .. 7
Accesses == 1 .. MaxAccesses
NoAccess == 0

VARIABLES
  reader, writer,   \* per byte: the access kept
  nacc,             \* accesses made so far; the last is the newest number
  op,               \* the last one, with the earlier ones parallel to it
  reported          \* the accesses it was reported to race with

Ops == [is_read : BOOLEAN, start : Bytes, size : 1 .. 8, parallel : SUBSET Accesses]
Covered(o) == o.start .. (o.start + o.size - 1)

Init ==
  /\ reader = [b \in Bytes |-> NoAccess] /\ writer = [b \in Bytes |-> NoAccess]
  /\ nacc = 0 /\ reported = {}
  /\ op = [is_read |-> TRUE, start |-> 0, size |-> 1, parallel |-> {}]

Kept(list, o, acc) ==
  [b \in Bytes |-> IF b \in Covered(o) /\ list[b] \notin o.parallel THEN acc ELSE list[b]]

Racing(list, o) == {list[b] : b \in Covered(o)} \cap o.parallel

Access ==
  /\ nacc < MaxAccesses
  /\ nacc' = nacc + 1
  /\ op' \in Ops
  /\ op'.start + op'.size <= 8 /\ op'.parallel \subseteq 1 .. nacc
  /\ \/ /\ op'.is_read
        /\ reported' = Racing(writer, op')
        /\ reader' = Kept(reader, op', nacc')
        /\ UNCHANGED writer
     \/ /\ ~op'.is_read
        /\ reported' = Racing(writer, op') \cup Racing(reader, op')
        /\ writer' = Kept(writer, op', nacc')
        /\ UNCHANGED reader

Spec == Init /\ [][Access]_<<reader, writer, nacc, op, reported>>
=============================================================================
