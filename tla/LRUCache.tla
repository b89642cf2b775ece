------------------------------- MODULE LRUCache -------------------------------
(***************************************************************************)
(* A shard of leveldb's cache (class LRUCache of util/cache.cc), as pure   *)
(* operators; each of its calls holds the mutex of the shard from its      *)
(* beginning to its end.  A cache is a record; handles maps the address of *)
(* every entry that has not been freed to the entry.  The hash table is a  *)
(* function, and a new entry takes a free address, so that those of freed  *)
(* entries are used again.                                                 *)
(***************************************************************************)
EXTENDS Integers, Sequences, SequencesExt

CONSTANT Null

NewCache(capacity) ==
    [capacity |-> capacity, usage |-> 0, handles |-> <<>>, table |-> <<>>,
     lru |-> <<>>, in_use |-> {}]

\* The function f with the value v for x.
With(f, x, v) == [y \in DOMAIN f \cup {x} |-> IF y = x THEN v ELSE f[y]]

\* LRU_Remove, from whichever of the two lists the entry is in.
LRU_Remove(c, e) ==
    [c EXCEPT !.lru = RemoveFirst(@, e), !.in_use = @ \ {e}]

Ref(c, e) ==
    LET h == c.handles[e]
        d == IF h.refs = 1 /\ h.in_cache
             THEN [LRU_Remove(c, e) EXCEPT !.in_use = @ \cup {e}] ELSE c
    IN  [d EXCEPT !.handles[e].refs = @ + 1]

\* Broken variant: the last reference of a client frees the entry.
UnrefFrees(c, e) ==
    LET refs == c.handles[e].refs - 1
    IN  IF refs <= 1
        THEN [LRU_Remove(c, e) EXCEPT !.handles = RestrictDomain(@, LAMBDA d : d # e)]
        ELSE [c EXCEPT !.handles[e].refs = refs]

Unref(c, e) ==
    LET refs == c.handles[e].refs - 1
        d == [c EXCEPT !.handles[e].refs = refs]
    IN  IF refs = 0 THEN [c EXCEPT !.handles = RestrictDomain(@, LAMBDA a : a # e)]
        ELSE IF refs = 1 /\ c.handles[e].in_cache
        THEN [LRU_Remove(d, e) EXCEPT !.lru = Append(@, e)] ELSE d

\* Broken variant: what an entry that is replaced was charged with is not given back.
FinishEraseCharged(c, e) ==
    IF e = Null THEN c
    ELSE Unref([LRU_Remove(c, e) EXCEPT !.handles[e].in_cache = FALSE], e)

\* The entry has been taken out of the hash table.
FinishErase(c, e) ==
    IF e = Null THEN c
    ELSE Unref([LRU_Remove(c, e) EXCEPT !.handles[e].in_cache = FALSE,
                                        !.usage = @ - c.handles[e].charge], e)

InTable(c, key) == IF key \in DOMAIN c.table THEN c.table[key] ELSE Null

\* HandleTable::Remove and FinishErase.
RemoveKey(c, key) ==
    FinishErase([c EXCEPT !.table = RestrictDomain(@, LAMBDA k : k # key)], InTable(c, key))

\* The loop of Insert: the oldest entries go until the rest fits.
EvictOldest(c) ==
    LET evict[n \in 0 .. Len(c.lru)] ==
            IF n = 0 THEN c
            ELSE LET d == evict[n - 1]
                 IN  IF d.usage > d.capacity /\ d.lru # <<>>
                     THEN RemoveKey(d, d.handles[Head(d.lru)].key) ELSE d
    IN  evict[Len(c.lru)]

\* The address that malloc returns for a new entry.
Malloc(c) ==
    CHOOSE n \in 1 .. Cardinality(DOMAIN c.handles) + 1 : n \notin DOMAIN c.handles

\* Insert, Lookup, Release and Erase; the first two yield a handle too.
Insert(c, key, value, charge) ==
    LET e == Malloc(c)
        cached == c.capacity > 0
        new == [key |-> key, value |-> value, charge |-> charge, in_cache |-> cached,
                refs |-> IF cached THEN 2 ELSE 1]
        d == [c EXCEPT !.handles = With(@, e, new)]
    IN  [handle |-> e,
         cache |-> EvictOldest(
            IF ~cached THEN d
            ELSE FinishErase([d EXCEPT !.in_use = @ \cup {e}, !.usage = @ + charge,
                                       !.table = With(@, key, e)], InTable(c, key)))]

Lookup(c, key) ==
    LET e == InTable(c, key)
    IN  [handle |-> e, cache |-> IF e = Null THEN c ELSE Ref(c, e)]

Release(c, e) == Unref(c, e)

Erase(c, key) == RemoveKey(c, key)

=============================================================================
