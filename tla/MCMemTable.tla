------------------------------ MODULE MCMemTable ------------------------------
EXTENDS MemTable

Put(k) == [key |-> k, del |-> FALSE]
Delete(k) == [key |-> k, del |-> TRUE]

\* A group that writes both keys, and one that deletes the first.
MCBatches == {<<Put(1), Put(2)>>, <<Delete(1)>>}

\* A record that leaves room for a header only, and one of several fragments.
MCRecordSize == [b \in MCBatches |-> IF b = <<Delete(1)>> THEN 1 ELSE 5]

\* The table below has older versions of both keys.
MCTables == {{[key |-> 1, seq |-> 1, del |-> FALSE],
              [key |-> 2, seq |-> 2, del |-> FALSE]}}

\* Readers over three writes; and failing appends, without readers.
MCBounds == {[writes |-> 3, faults |-> 0, readers |-> TRUE],
             [writes |-> 3, faults |-> 2, readers |-> FALSE]}
================================================================================
