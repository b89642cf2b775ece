----------------------------- MODULE InternalKeys -----------------------------
(***************************************************************************)
(* Entries of leveldb's memtables and tables (db/dbformat.h).  An entry is *)
(* a record [key, seq, del]: the user key, the sequence number of the      *)
(* update and whether it is a deletion marker.  A sequence number is used  *)
(* for one update only, so it also stands for the value.                   *)
(***************************************************************************)
EXTENDS Integers

CONSTANT Null   \* nullptr; nothing found

\* InternalKeyComparator: by user key, and newer updates of a key first.
Before(a, b) == a.key < b.key \/ (a.key = b.key /\ a.seq > b.seq)

Smallest(es) == CHOOSE e \in es : \A d \in es \ {e} : Before(e, d)
Largest(es) == CHOOSE e \in es : \A d \in es \ {e} : Before(d, e)

\* A memtable or a table answers a lookup at a sequence number with its newest
\* entry of the key at or below it.
TableGet(es, key, snap) ==
    LET visible == {e \in es : e.key = key /\ e.seq <= snap}
    IN  IF visible = {} THEN Null ELSE Smallest(visible)

=============================================================================
