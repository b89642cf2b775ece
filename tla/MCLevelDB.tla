------------------------------- MODULE MCLevelDB -------------------------------
EXTENDS LevelDB, TLC

\* The client threads are alike.
AnyThread == Permutations(Threads)

Put(k) == [key |-> k, del |-> FALSE]
Delete(k) == [key |-> k, del |-> TRUE]

\* A key that comes and goes, and a batch of two keys.
RecoveryBatches == {<<Put(1), Put(2)>>, <<Delete(1)>>}

\* The two keys together.
TwoKeys == {<<Put(1), Put(2)>>}

\* Three keys, one at a time.
SinglePuts == {<<Put(k)>> : k \in 1 .. 3}
================================================================================
