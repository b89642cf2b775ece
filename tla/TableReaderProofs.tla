--------------------------- MODULE TableReaderProofs ---------------------------
(***************************************************************************)
(* What the readers of table files hold, for any number of readers, files  *)
(* and blocks and any capacities: an entry of the table cache or the block *)
(* cache has one reference for each reader that holds it and one for the   *)
(* cache, and the table of a deleted file is not kept open.                *)
(*                                                                         *)
(* The two parts of the code are kept apart.  A cache alone is sound with  *)
(* respect to a count of holders (Sound): the references of an entry are   *)
(* its holders and, while it is cached, one more; the entries of the hash  *)
(* table and of the two lists are the cached ones, each under its own key, *)
(* and an entry is in the list of unused ones exactly when nobody holds    *)
(* it.  Each operator of LRUCache keeps this, with one holder more or      *)
(* less.  The readers are what the holders are counted from: each step of  *)
(* a reader that takes or gives up a handle changes the count of one entry *)
(* by one.  That a handle is the right one needs more than references: the *)
(* key of an entry tells its value, so a reader that finds a block under   *)
(* its table's cache_id has to know that no other file has that id.        *)
(***************************************************************************)
EXTENDS TableReader, TLAPS, SequenceTheorems, FiniteSetTheorems, WellFoundedInduction

(***************************************************************************)
(* Numbers, sequences and functions.                                       *)
(***************************************************************************)
\* A set of natural numbers has a least element.
LEMMA NatMin ==
    ASSUME NEW T \in SUBSET Nat, T # {}
    PROVE  \E x \in T : \A y \in T : x <= y
<1>1. PICK R : IsWellFoundedOn(R, Nat) /\ \A x, y \in Nat : <<y, x>> \in R <=> y < x
    <2>1. \A x, y \in Nat : <<y, x>> \in OpToRel(<, Nat) <=> y < x
        BY DEF OpToRel
    <2> QED  BY NatLessThanWellFounded, <2>1, Zenon
<1>2. PICK x \in T : \A y \in T : ~(<<y, x>> \in R)
    BY <1>1, WFMin
<1>3. \A y \in T : ~(y < x)
    BY <1>1, <1>2
<1>4. \A y \in Nat : ~(y < x) => x <= y
    OBVIOUS
<1> QED  BY <1>3, <1>4

\* Induction: the set of the numbers for which something holds.
LEMMA Induction ==
    ASSUME NEW S, 0 \in S, \A n \in Nat : n \in S => n + 1 \in S
    PROVE  Nat \subseteq S
<1> SUFFICES ASSUME ~(Nat \subseteq S) PROVE FALSE
    OBVIOUS
<1> DEFINE T == Nat \ S
<1>1. T \in SUBSET Nat /\ T # {}
    OBVIOUS
<1> HIDE DEF T
<1>2. PICK x \in T : \A y \in T : x <= y
    BY <1>1, NatMin
<1>3. x \in Nat /\ x \notin S
    BY DEF T
<1>4. x # 0 /\ x - 1 \in Nat /\ (x - 1) + 1 = x /\ ~(x <= x - 1)
    BY <1>3
<1>5. x - 1 \in S
    BY <1>2, <1>4 DEF T
<1> QED  BY <1>3, <1>4, <1>5

Distinct(s) == \A i, j \in DOMAIN s : s[i] = s[j] => i = j

\* RemoveAt, index by index.
LEMMA RemoveAtIndex ==
    ASSUME NEW S, NEW s \in Seq(S), NEW k \in DOMAIN s
    PROVE  /\ Cache!RemoveAt(s, k) \in Seq(S)
           /\ Len(Cache!RemoveAt(s, k)) = Len(s) - 1
           /\ \A i \in 1 .. Len(s) - 1 :
                 Cache!RemoveAt(s, k)[i] = IF i < k THEN s[i] ELSE s[i + 1]
<1>1. PICK n \in Nat : n = Len(s) /\ DOMAIN s = 1 .. n
    BY LenProperties
<1>2. k \in 1 .. n /\ k - 1 \in 0 .. n /\ k + 1 \in 1 .. n + 1
    BY <1>1
<1>3. PICK a \in Seq(S) : a = SubSeq(s, 1, k - 1) /\ Len(a) = k - 1
                          /\ \A i \in 1 .. k - 1 : a[i] = s[i]
    <2>1. \A i \in 1 .. k - 1 : s[i] \in S
        BY <1>1, <1>2, ElementOfSeq
    <2>2. PICK a : a = SubSeq(s, 1, k - 1)
        OBVIOUS
    <2>3. a \in Seq(S) /\ Len(a) = IF 1 <= k - 1 THEN (k - 1) - 1 + 1 ELSE 0
        BY <1>2, <2>1, <2>2, SubSeqProperties
    <2>4. \A i \in 1 .. (k - 1) - 1 + 1 : a[i] = s[1 + i - 1]
        BY <1>2, <2>1, <2>2, SubSeqProperties
    <2>5. \A i \in 1 .. k - 1 : a[i] = s[i]
        BY <1>2, <2>4, SMTT(60)
    <2>6. Len(a) = k - 1
        BY <1>2, <2>3
    <2> QED  BY <2>2, <2>3, <2>5, <2>6
<1>4. PICK b \in Seq(S) : b = SubSeq(s, k + 1, Len(s)) /\ Len(b) = n - k
                          /\ \A i \in 1 .. n - k : b[i] = s[k + i]
    <2>1. \A i \in k + 1 .. n : s[i] \in S
        BY <1>1, <1>2, ElementOfSeq
    <2>2. PICK b : b = SubSeq(s, k + 1, Len(s))
        OBVIOUS
    <2>3. b \in Seq(S) /\ Len(b) = n - k
        BY <1>1, <1>2, <2>1, <2>2, SubSeqProperties
    <2>4. \A i \in 1 .. n - k : b[i] = s[k + i]
        BY <1>1, <1>2, <2>2, SubSeqProperties, SMTT(60)
    <2> QED  BY <2>2, <2>3, <2>4
<1>5. PICK c \in Seq(S) :
          /\ c = Cache!RemoveAt(s, k) /\ c = a \o b /\ Len(c) = n - 1
          /\ \A i \in 1 .. n - 1 : c[i] = IF i <= k - 1 THEN a[i] ELSE b[i - (k - 1)]
    <2> DEFINE c == a \o b
    <2>1. /\ c \in Seq(S) /\ Len(c) = Len(a) + Len(b)
          /\ \A i \in 1 .. Len(a) + Len(b) : c[i] = IF i <= Len(a) THEN a[i] ELSE b[i - Len(a)]
        BY ConcatProperties
    <2>2. c = Cache!RemoveAt(s, k)
        BY <1>3, <1>4, <2>1 DEF Cache!RemoveAt
    <2>3. c = a \o b
        OBVIOUS
    <2> HIDE DEF c
    <2>4. Len(a) + Len(b) = n - 1
        BY <1>2, <1>3, <1>4
    <2>5. \A i \in 1 .. n - 1 : c[i] = IF i <= k - 1 THEN a[i] ELSE b[i - (k - 1)]
        BY <1>3, <2>1, <2>4
    <2> QED  BY <2>1, <2>2, <2>3, <2>4, <2>5
<1>6. \A i \in 1 .. n - 1 : c[i] = IF i < k THEN s[i] ELSE s[i + 1]
    <2> SUFFICES ASSUME NEW i \in 1 .. n - 1 PROVE c[i] = IF i < k THEN s[i] ELSE s[i + 1]
        OBVIOUS
    <2>1. CASE i < k
        <3>1. i \in 1 .. k - 1 /\ i <= k - 1
            BY <1>2, <2>1
        <3> QED  BY <1>3, <1>5, <2>1, <3>1
    <2>2. CASE ~(i < k)
        <3>1. i - (k - 1) \in 1 .. n - k /\ k + (i - (k - 1)) = i + 1 /\ ~(i <= k - 1)
            BY <1>2, <2>2, SMTT(60)
        <3> QED  BY <1>4, <1>5, <2>2, <3>1
    <2> QED  BY <2>1, <2>2
<1> QED  BY <1>1, <1>5, <1>6

\* Taking an element out of a list without repetitions.
LEMMA RemoveFirstElement ==
    ASSUME NEW S, NEW s \in Seq(S), Distinct(s), NEW e
    PROVE  /\ Cache!RemoveFirst(s, e) \in Seq(S)
           /\ Distinct(Cache!RemoveFirst(s, e))
           /\ ToSet(Cache!RemoveFirst(s, e)) = ToSet(s) \ {e}
<1>1. PICK n \in Nat : n = Len(s) /\ DOMAIN s = 1 .. n
    BY LenProperties
<1>2. CASE \E i \in 1 .. Len(s) : s[i] = e
    <2> DEFINE I == {i \in 1 .. Len(s) : s[i] = e}
    <2>1. I \in SUBSET Nat /\ I # {}
        BY <1>1, <1>2
    <2>2. PICK k \in I : \A y \in I : k <= y
        <3> HIDE DEF I
        <3> QED  BY <2>1, NatMin
    <2>3. Cache!Min(I) \in I
        <3> HIDE DEF I
        <3> QED  BY <2>2 DEF Cache!Min
    <2>4. PICK m \in DOMAIN s : s[m] = e /\ Cache!RemoveFirst(s, e) = Cache!RemoveAt(s, m)
        <3>1. Cache!RemoveFirst(s, e) = Cache!RemoveAt(s, Cache!Min(I))
            BY <1>2, <2>1 DEF Cache!RemoveFirst, Cache!SelectInSeq
        <3> QED  BY <1>1, <2>3, <3>1
    <2> HIDE DEF I
    <2>5. PICK c \in Seq(S) :
              /\ c = Cache!RemoveFirst(s, e) /\ Len(c) = n - 1 /\ DOMAIN c = 1 .. n - 1
              /\ \A i \in 1 .. n - 1 : c[i] = IF i < m THEN s[i] ELSE s[i + 1]
        <3>1. PICK c : c = Cache!RemoveAt(s, m)
            OBVIOUS
        <3>2. /\ c \in Seq(S) /\ Len(c) = Len(s) - 1
              /\ \A i \in 1 .. Len(s) - 1 : c[i] = IF i < m THEN s[i] ELSE s[i + 1]
            BY <3>1, RemoveAtIndex
        <3>3. DOMAIN c = 1 .. Len(c)
            BY <3>2, LenProperties
        <3> QED  BY <1>1, <2>4, <3>1, <3>2, <3>3
    <2>6. Distinct(c)
        <3> SUFFICES ASSUME NEW i \in 1 .. n - 1, NEW j \in 1 .. n - 1, c[i] = c[j] PROVE i = j
            BY <2>5 DEF Distinct
        <3>1. \A i1, j1 \in 1 .. n : s[i1] = s[j1] => i1 = j1
            BY <1>1 DEF Distinct
        <3> QED  BY <1>1, <2>5, <3>1
    <2>7. ToSet(c) = ToSet(s) \ {e}
        <3>1. m \in 1 .. n /\ \A i \in 1 .. n : s[i] = e => i = m
            BY <1>1, <2>4 DEF Distinct
        <3>2. \A i \in 1 .. n - 1 : \E j \in 1 .. n : j # m /\ c[i] = s[j]
            <4> SUFFICES ASSUME NEW i \in 1 .. n - 1 PROVE \E j \in 1 .. n : j # m /\ c[i] = s[j]
                OBVIOUS
            <4>1. i \in 1 .. n /\ i + 1 \in 1 .. n /\ (i < m => i # m) /\ (~(i < m) => i + 1 # m)
                BY <3>1
            <4> QED  BY <2>5, <4>1
        <3>3. \A j \in 1 .. n : j # m => \E i \in 1 .. n - 1 : c[i] = s[j]
            <4> SUFFICES ASSUME NEW j \in 1 .. n, j # m PROVE \E i \in 1 .. n - 1 : c[i] = s[j]
                OBVIOUS
            <4>1. CASE j < m
                BY <2>5, <3>1, <4>1
            <4>2. CASE j > m
                <5>1. j - 1 \in 1 .. n - 1 /\ ~(j - 1 < m) /\ (j - 1) + 1 = j
                    BY <3>1, <4>2
                <5> QED  BY <2>5, <5>1
            <4> QED  BY <3>1, <4>1, <4>2
        <3>4. \A y : y \in ToSet(c) <=> \E i \in 1 .. n - 1 : y = c[i]
            BY <2>5 DEF ToSet
        <3>5. \A y : y \in ToSet(s) <=> \E i \in 1 .. n : y = s[i]
            BY <1>1 DEF ToSet
        <3>6. \A y : y \in ToSet(c) => y \in ToSet(s) /\ y # e
            BY <3>1, <3>2, <3>4, <3>5
        <3>7. \A y : y \in ToSet(s) /\ y # e => y \in ToSet(c)
            BY <2>4, <3>3, <3>4, <3>5
        <3> QED  BY <3>6, <3>7
    <2> QED  BY <2>5, <2>6, <2>7
<1>3. CASE ~\E i \in 1 .. Len(s) : s[i] = e
    <2>1. Cache!RemoveFirst(s, e) = s
        BY <1>3 DEF Cache!RemoveFirst
    <2>2. ToSet(s) = ToSet(s) \ {e}
        BY <1>1, <1>3 DEF ToSet
    <2> QED  BY <2>1, <2>2
<1> QED  BY <1>2, <1>3

\* And putting one at its end.
LEMMA AppendElement ==
    ASSUME NEW s \in Seq(Nat), Distinct(s), NEW e \in Nat, e \notin ToSet(s)
    PROVE  /\ Append(s, e) \in Seq(Nat) /\ Distinct(Append(s, e))
           /\ ToSet(Append(s, e)) = ToSet(s) \cup {e}
<1>1. PICK n \in Nat : n = Len(s) /\ DOMAIN s = 1 .. n
    BY LenProperties
<1>2. PICK c \in Seq(Nat) :
          /\ c = Append(s, e) /\ Len(c) = n + 1 /\ DOMAIN c = 1 .. n + 1 /\ c[n + 1] = e
          /\ \A i \in 1 .. n : c[i] = s[i]
    <2>1. PICK c : c = Append(s, e)
        OBVIOUS
    <2>2. /\ c \in Seq(Nat) /\ Len(c) = Len(s) + 1 /\ c[Len(s) + 1] = e
          /\ \A i \in 1 .. Len(s) : c[i] = s[i]
        BY <2>1, AppendProperties
    <2>3. DOMAIN c = 1 .. Len(c)
        BY <2>2, LenProperties
    <2> QED  BY <1>1, <2>1, <2>2, <2>3
<1>3. \A i \in 1 .. n + 1 : i \in 1 .. n \/ i = n + 1
    OBVIOUS
<1>4. \A i \in 1 .. n : s[i] # e
    BY <1>1 DEF ToSet
<1>5. Distinct(c)
    BY <1>1, <1>2, <1>3, <1>4 DEF Distinct
<1>6. ToSet(c) = ToSet(s) \cup {e}
    BY <1>1, <1>2, <1>3 DEF ToSet
<1> QED  BY <1>2, <1>5, <1>6
(***************************************************************************)
(* A cache.                                                                *)
(***************************************************************************)
IsCache(c) ==
    c = [capacity |-> c.capacity, usage |-> c.usage, handles |-> c.handles,
         table |-> c.table, lru |-> c.lru, in_use |-> c.in_use]

IsEntry(h) ==
    h = [key |-> h.key, value |-> h.value, charge |-> h.charge, in_cache |-> h.in_cache,
         refs |-> h.refs]

IsFcn(f) == f = [x \in DOMAIN f |-> f[x]]

Shaped(c) ==
    /\ IsCache(c) /\ IsFcn(c.handles) /\ IsFcn(c.table)
    /\ DOMAIN c.handles \subseteq Nat /\ IsFiniteSet(DOMAIN c.handles)
    /\ \A h \in DOMAIN c.handles : IsEntry(c.handles[h]) /\ c.handles[h].in_cache \in BOOLEAN
    /\ c.lru \in Seq(Nat) /\ Distinct(c.lru)

\* The references of an entry are those of its holders, n of them, and one of the
\* cache; there is none without a reference.
Counted(c, n) ==
    /\ n \in [Nat -> Nat]
    /\ \A h \in Nat : h \notin DOMAIN c.handles => n[h] = 0
    /\ \A h \in DOMAIN c.handles :
          /\ c.handles[h].refs = n[h] + (IF c.handles[h].in_cache THEN 1 ELSE 0)
          /\ n[h] > 0 \/ c.handles[h].in_cache

\* The list of the entries nobody holds, and that of the others.
Listed(c, n) ==
    /\ ToSet(c.lru) = {h \in CachedIn(c) : n[h] = 0}
    /\ c.in_use = {h \in CachedIn(c) : n[h] > 0}

\* The hash table leads to what is in the cache, but not to x, which has been taken
\* out of it already.
Keyed(c, x) ==
    /\ \A k \in DOMAIN c.table : c.table[k] \in CachedIn(c) \ {x} /\ c.handles[c.table[k]].key = k
    /\ \A h \in CachedIn(c) \ {x} :
          c.handles[h].key \in DOMAIN c.table /\ c.table[c.handles[h].key] = h

Sound(c, n, x) == Shaped(c) /\ Counted(c, n) /\ Listed(c, n) /\ Keyed(c, x)

\* Nothing in d that was not the same in c.
Kept(c, d) ==
    /\ DOMAIN d.handles \subseteq DOMAIN c.handles
    /\ \A h \in DOMAIN d.handles : /\ d.handles[h].key = c.handles[h].key
                                   /\ d.handles[h].value = c.handles[h].value

\* d is c but for the lists, the references of e and whether it is in the cache.
Changed(c, d, e, refs, cached) ==
    /\ IsCache(d) /\ d.table = c.table
    /\ d.handles = [c.handles EXCEPT ![e] = [@ EXCEPT !.refs = refs, !.in_cache = cached]]

\* What a step that changes the references of one entry leaves as it was.
LEMMA Touched ==
    ASSUME NEW c, NEW d, NEW e, NEW refs, NEW cached \in BOOLEAN,
           Shaped(c), e \in DOMAIN c.handles, Changed(c, d, e, refs, cached),
           d.lru \in Seq(Nat), Distinct(d.lru)
    PROVE  /\ Shaped(d) /\ Kept(c, d) /\ DOMAIN d.handles = DOMAIN c.handles
           /\ d.table = c.table
           /\ d.handles[e].refs = refs /\ d.handles[e].in_cache = cached
           /\ d.handles[e].key = c.handles[e].key
           /\ \A h \in DOMAIN c.handles : h # e => d.handles[h] = c.handles[h]
<1>1. PICK H : H = c.handles /\ IsFcn(H) /\ \A h \in DOMAIN H : IsEntry(H[h])
    BY DEF Shaped
<1>2. d.handles = [h \in DOMAIN H |-> IF h = e THEN [H[e] EXCEPT !.refs = refs, !.in_cache = cached]
                                      ELSE H[h]]
    BY <1>1 DEF Changed
<1>3. PICK v : v = [H[e] EXCEPT !.refs = refs, !.in_cache = cached]
    OBVIOUS
<1>4. /\ IsEntry(v) /\ v.refs = refs /\ v.in_cache = cached /\ v.key = H[e].key
      /\ v.value = H[e].value
    <2>1. PICK h : h = H[e] /\ IsEntry(h)
        BY <1>1
    <2>2. v = [key |-> h.key, value |-> h.value, charge |-> h.charge, in_cache |-> cached,
               refs |-> refs]
        BY <1>3, <2>1 DEF IsEntry
    <2> QED  BY <2>1, <2>2 DEF IsEntry
<1>5. d.handles = [h \in DOMAIN H |-> IF h = e THEN v ELSE H[h]]
    BY <1>2, <1>3
<1>6. /\ DOMAIN d.handles = DOMAIN H /\ d.handles[e] = v
      /\ \A h \in DOMAIN H : h # e => d.handles[h] = H[h]
    BY <1>1, <1>5
<1>7. IsFcn(d.handles)
    BY <1>5, <1>6 DEF IsFcn
<1>8. Shaped(d)
    BY <1>1, <1>4, <1>6, <1>7 DEF Shaped, Changed
<1> QED
    BY <1>1, <1>4, <1>6, <1>8 DEF Kept, Changed

\* LRU_Remove leaves everything else as it is.
LEMMA LruRemove ==
    ASSUME NEW c, NEW e, Shaped(c), NEW d, d = Cache!LRU_Remove(c, e)
    PROVE  /\ IsCache(d) /\ d.handles = c.handles /\ d.table = c.table
           /\ d.lru \in Seq(Nat) /\ Distinct(d.lru)
           /\ ToSet(d.lru) = ToSet(c.lru) \ {e} /\ d.in_use = c.in_use \ {e}
<1>1. PICK l : l = Cache!RemoveFirst(c.lru, e)
    OBVIOUS
<1>2. l \in Seq(Nat) /\ Distinct(l) /\ ToSet(l) = ToSet(c.lru) \ {e}
    BY <1>1, RemoveFirstElement DEF Shaped
<1>3. d = [capacity |-> c.capacity, usage |-> c.usage, handles |-> c.handles,
           table |-> c.table, lru |-> l, in_use |-> c.in_use \ {e}]
    BY <1>1 DEF Shaped, IsCache, Cache!LRU_Remove
<1> QED
    BY <1>2, <1>3 DEF IsCache

\* One more and one less.
LEMMA OneMore ==
    ASSUME NEW n \in [Nat -> Nat], NEW e \in Nat
    PROVE  /\ [n EXCEPT ![e] = @ + 1] \in [Nat -> Nat]
           /\ [n EXCEPT ![e] = @ + 1][e] = n[e] + 1
           /\ \A h \in Nat : h # e => [n EXCEPT ![e] = @ + 1][h] = n[h]
<1>1. n[e] + 1 \in Nat
    OBVIOUS
<1> QED  BY <1>1

\* One less.
LEMMA OneLess ==
    ASSUME NEW n \in [Nat -> Nat], NEW e \in Nat, n[e] > 0
    PROVE  /\ [n EXCEPT ![e] = @ - 1] \in [Nat -> Nat]
           /\ [n EXCEPT ![e] = @ - 1][e] = n[e] - 1
           /\ \A h \in Nat : h # e => [n EXCEPT ![e] = @ - 1][h] = n[h]
<1>1. n[e] - 1 \in Nat
    BY n[e] \in Nat
<1> QED  BY <1>1

\* One holder more: an entry of the cache that is not in use is in use now.
LEMMA RefSound ==
    ASSUME NEW c, NEW n, NEW e, Sound(c, n, Null), e \in CachedIn(c), NEW d, d = Cache!Ref(c, e)
    PROVE  Sound(d, [n EXCEPT ![e] = @ + 1], Null) /\ Kept(c, d)
<1>1. /\ e \in DOMAIN c.handles /\ e \in Nat /\ c.handles[e].in_cache /\ n[e] \in Nat
      /\ c.handles[e].refs = n[e] + 1 /\ n \in [Nat -> Nat]
    BY DEF Sound, Shaped, Counted, CachedIn
<1>2. PICK m \in [Nat -> Nat] :
          m = [n EXCEPT ![e] = @ + 1] /\ m[e] = n[e] + 1 /\ \A h \in Nat : h # e => m[h] = n[h]
    <2>1. PICK g : g = [n EXCEPT ![e] = @ + 1]
        OBVIOUS
    <2>2. /\ g \in [Nat -> Nat] /\ g[e] = n[e] + 1
          /\ \A h \in Nat : h # e => g[h] = n[h]
        BY <1>1, <2>1, OneMore
    <2> QED  BY <2>1, <2>2
<1>3. PICK g : g = IF n[e] = 0 THEN [Cache!LRU_Remove(c, e) EXCEPT !.in_use = @ \cup {e}] ELSE c
    OBVIOUS
<1>4. d = [g EXCEPT !.handles[e].refs = @ + 1]
    <2>1. c.handles[e].refs = 1 /\ c.handles[e].in_cache <=> n[e] = 0
        BY <1>1
    <2> QED  BY <1>3, <2>1 DEF Cache!Ref
<1>5. /\ IsCache(g) /\ g.handles = c.handles /\ g.table = c.table
      /\ g.lru \in Seq(Nat) /\ Distinct(g.lru)
      /\ ToSet(g.lru) = ToSet(c.lru) \ {e} /\ g.in_use = c.in_use \cup {e}
    <2>1. CASE n[e] = 0
        <3>1. PICK f : /\ f = Cache!LRU_Remove(c, e)
                       /\ IsCache(f) /\ f.handles = c.handles /\ f.table = c.table
                       /\ f.lru \in Seq(Nat) /\ Distinct(f.lru)
                       /\ ToSet(f.lru) = ToSet(c.lru) \ {e} /\ f.in_use = c.in_use \ {e}
            BY LruRemove, ZenonT(60) DEF Sound
        <3>2. g = [f EXCEPT !.in_use = @ \cup {e}]
            BY <1>3, <2>1, <3>1
        <3> QED  BY <3>1, <3>2 DEF IsCache
    <2>2. CASE n[e] # 0
        <3>1. g = c /\ e \notin ToSet(c.lru) /\ e \in c.in_use
            BY <1>1, <1>3, <2>2 DEF Sound, Listed
        <3> QED  BY <3>1 DEF Sound, Shaped
    <2> QED  BY <2>1, <2>2
<1>6. /\ Changed(c, d, e, n[e] + 2, TRUE) /\ d.lru = g.lru /\ d.in_use = g.in_use
    <2>1. PICK H : H = c.handles /\ H = g.handles /\ IsEntry(H[e]) /\ H[e].refs = n[e] + 1
                   /\ H[e].in_cache /\ H[e].in_cache \in BOOLEAN
        BY <1>1, <1>5 DEF Sound, Shaped
    <2>2. d = [g EXCEPT !.handles = [H EXCEPT ![e] = [H[e] EXCEPT !.refs = @ + 1]]]
        BY <1>4, <1>5, <2>1 DEF IsCache
    <2>3. [H[e] EXCEPT !.refs = @ + 1] = [H[e] EXCEPT !.refs = n[e] + 2, !.in_cache = TRUE]
        <3>1. PICK h : h = H[e] /\ IsEntry(h) /\ h.refs = n[e] + 1 /\ h.in_cache = TRUE
            BY <2>1
        <3>2. (n[e] + 1) + 1 = n[e] + 2
            BY <1>1
        <3>3. [h EXCEPT !.refs = @ + 1] = [h EXCEPT !.refs = n[e] + 2, !.in_cache = TRUE]
            BY <3>1, <3>2 DEF IsEntry
        <3> QED  BY <3>1, <3>3
    <2>4. d.handles = [H EXCEPT ![e] = [H[e] EXCEPT !.refs = n[e] + 2, !.in_cache = TRUE]]
        BY <1>5, <2>2, <2>3 DEF IsCache
    <2> QED  BY <1>5, <2>1, <2>2, <2>4 DEF Changed, IsCache
<1>7. /\ Shaped(d) /\ Kept(c, d) /\ DOMAIN d.handles = DOMAIN c.handles
      /\ d.table = c.table
      /\ d.handles[e].refs = n[e] + 2 /\ d.handles[e].in_cache = TRUE
      /\ d.handles[e].key = c.handles[e].key
      /\ \A h \in DOMAIN c.handles : h # e => d.handles[h] = c.handles[h]
    <2>1. PICK k : k = n[e] + 2
        OBVIOUS
    <2>2. Changed(c, d, e, k, TRUE) /\ d.lru \in Seq(Nat) /\ Distinct(d.lru) /\ Shaped(c)
        BY <1>5, <1>6, <2>1 DEF Sound
    <2>3. TRUE \in BOOLEAN /\ e \in DOMAIN c.handles
        BY <1>1
    <2>4. /\ Shaped(d) /\ Kept(c, d) /\ DOMAIN d.handles = DOMAIN c.handles
          /\ d.table = c.table
          /\ d.handles[e].refs = k /\ d.handles[e].in_cache = TRUE
          /\ d.handles[e].key = c.handles[e].key
          /\ \A h \in DOMAIN c.handles : h # e => d.handles[h] = c.handles[h]
        BY <2>2, <2>3, Touched, ZenonT(60)
    <2> QED  BY <2>1, <2>4
<1>8. Counted(d, m)
    <2>1. \A h \in Nat : h \notin DOMAIN d.handles => m[h] = 0
        BY <1>1, <1>2, <1>7 DEF Counted, Sound
    <2>2. ASSUME NEW h \in DOMAIN d.handles
          PROVE  /\ d.handles[h].refs = m[h] + (IF d.handles[h].in_cache THEN 1 ELSE 0)
                 /\ m[h] > 0 \/ d.handles[h].in_cache
        <3>1. CASE h = e
            BY <1>1, <1>2, <1>7, <3>1
        <3>2. CASE h # e
            <4>1. d.handles[h] = c.handles[h] /\ m[h] = n[h] /\ h \in DOMAIN c.handles
                BY <1>2, <1>7, <2>2, <3>2 DEF Sound, Shaped
            <4> QED  BY <4>1 DEF Sound, Counted
        <3> QED  BY <3>1, <3>2
    <2> QED  BY <1>2, <2>1, <2>2 DEF Counted
<1>9. CachedIn(d) = CachedIn(c)
    BY <1>1, <1>7 DEF CachedIn
<1>10. Listed(d, m)
    <2>1. CachedIn(c) \subseteq Nat /\ \A h \in Nat : n[h] \in Nat /\ m[h] \in Nat
        BY <1>2, <1>1 DEF CachedIn, Sound, Shaped
    <2>2. ToSet(d.lru) = {h \in CachedIn(c) : n[h] = 0} \ {e}
        BY <1>5, <1>6 DEF Listed, Sound
    <2>3. d.in_use = {h \in CachedIn(c) : n[h] > 0} \cup {e}
        BY <1>5, <1>6 DEF Listed, Sound
    <2>4. \A h \in CachedIn(c) : /\ m[h] = 0 <=> n[h] = 0 /\ h # e
                                 /\ m[h] > 0 <=> n[h] > 0 \/ h = e
        BY <1>1, <1>2, <2>1
    <2> QED  BY <1>9, <2>2, <2>3, <2>4 DEF Listed
<1>11. Keyed(d, Null)
    BY <1>7, <1>9 DEF Keyed, Sound, CachedIn
<1> QED
    BY <1>2, <1>7, <1>8, <1>10, <1>11 DEF Sound

\* One holder less: an entry that is neither held nor in the cache is freed, and one
\* that is only in the cache becomes the youngest of those that can be evicted.
LEMMA UnrefSound ==
    ASSUME NEW c, NEW n, NEW e, Sound(c, n, Null), e \in DOMAIN c.handles, n[e] > 0,
           NEW d, d = Cache!Unref(c, e)
    PROVE  Sound(d, [n EXCEPT ![e] = @ - 1], Null) /\ Kept(c, d) /\ d.table = c.table
<1>1. /\ e \in Nat /\ n[e] \in Nat /\ n \in [Nat -> Nat] /\ c.handles[e].in_cache \in BOOLEAN
      /\ c.handles[e].refs = n[e] + (IF c.handles[e].in_cache THEN 1 ELSE 0)
    BY DEF Sound, Shaped, Counted
<1>2. PICK m \in [Nat -> Nat] :
          m = [n EXCEPT ![e] = @ - 1] /\ m[e] = n[e] - 1 /\ \A h \in Nat : h # e => m[h] = n[h]
    <2>1. PICK g : g = [n EXCEPT ![e] = @ - 1]
        OBVIOUS
    <2>2. /\ g \in [Nat -> Nat] /\ g[e] = n[e] - 1
          /\ \A h \in Nat : h # e => g[h] = n[h]
        BY <1>1, <2>1, OneLess
    <2> QED  BY <2>1, <2>2
<1>3. PICK H : /\ H = c.handles /\ IsFcn(H) /\ DOMAIN H \subseteq Nat
               /\ IsFiniteSet(DOMAIN H) /\ \A h \in DOMAIN H : IsEntry(H[h])
    BY DEF Sound, Shaped
<1>4. CachedIn(c) \subseteq Nat /\ \A h \in Nat : n[h] \in Nat /\ m[h] \in Nat
    BY <1>1, <1>2 DEF CachedIn, Sound, Shaped
<1>5. CASE c.handles[e].refs - 1 = 0
    <2>1. m[e] = 0 /\ ~c.handles[e].in_cache /\ e \notin CachedIn(c)
        BY <1>1, <1>2, <1>5 DEF CachedIn
    <2>2. PICK G : G = [h \in DOMAIN H \ {e} |-> H[h]]
        OBVIOUS
    <2>3. d = [capacity |-> c.capacity, usage |-> c.usage, handles |-> G,
               table |-> c.table, lru |-> c.lru, in_use |-> c.in_use]
        <3>1. d = [c EXCEPT !.handles = [x \in {y \in DOMAIN c.handles : y # e} |-> c.handles[x]]]
            BY <1>5 DEF Cache!Unref, Cache!RestrictDomain, Cache!Restrict
        <3>2. {y \in DOMAIN c.handles : y # e} = DOMAIN H \ {e}
            BY <1>3
        <3>3. d = [c EXCEPT !.handles = G]
            BY <1>3, <2>2, <3>1, <3>2
        <3> QED  BY <3>3 DEF IsCache, Sound, Shaped
    <2>4. /\ d.handles = G /\ d.table = c.table /\ d.lru = c.lru /\ d.in_use = c.in_use
          /\ IsCache(d)
        BY <2>3 DEF IsCache
    <2>5. DOMAIN G = DOMAIN H \ {e} /\ IsFcn(G) /\ \A h \in DOMAIN H : h # e => G[h] = H[h]
        BY <2>2 DEF IsFcn
    <2>6. IsFiniteSet(DOMAIN G)
        BY <1>3, <2>5, FS_RemoveElement
    <2>7. Shaped(d) /\ Kept(c, d)
        BY <1>3, <2>4, <2>5, <2>6 DEF Sound, Shaped, Kept
    <2>8. CachedIn(d) = CachedIn(c)
        BY <1>3, <2>1, <2>4, <2>5 DEF CachedIn
    <2>9. Counted(d, m)
        BY <1>2, <1>3, <2>1, <2>4, <2>5 DEF Sound, Counted
    <2>10. Listed(d, m)
        <3>1. \A h \in CachedIn(c) : m[h] = n[h]
            BY <1>2, <1>4, <2>1
        <3> QED  BY <2>4, <2>8, <3>1 DEF Sound, Listed
    <2>11. Keyed(d, Null)
        BY <1>3, <2>1, <2>4, <2>5, <2>8 DEF Sound, Keyed, CachedIn
    <2> QED  BY <1>2, <2>4, <2>7, <2>9, <2>10, <2>11 DEF Sound
<1>6. CASE c.handles[e].refs - 1 # 0
    <2>1. PICK k, b : k = c.handles[e].refs - 1 /\ b = c.handles[e].in_cache
        OBVIOUS
    <2>2. PICK g : g = [c EXCEPT !.handles = [H EXCEPT ![e] = [H[e] EXCEPT !.refs = k]]]
        OBVIOUS
    <2>3. /\ IsCache(g) /\ g.table = c.table /\ g.lru = c.lru /\ g.in_use = c.in_use
          /\ g.handles = [H EXCEPT ![e] = [H[e] EXCEPT !.refs = k, !.in_cache = b]]
        <3>1. g = [capacity |-> c.capacity, usage |-> c.usage,
                   handles |-> [H EXCEPT ![e] = [H[e] EXCEPT !.refs = k]],
                   table |-> c.table, lru |-> c.lru, in_use |-> c.in_use]
            BY <2>2 DEF Sound, Shaped, IsCache
        <3>2. [H[e] EXCEPT !.refs = k] = [H[e] EXCEPT !.refs = k, !.in_cache = b]
            <4>1. PICK h : h = H[e] /\ IsEntry(h) /\ h.in_cache = b
                BY <1>3, <2>1
            <4>2. [h EXCEPT !.refs = k] = [h EXCEPT !.refs = k, !.in_cache = b]
                BY <4>1 DEF IsEntry
            <4> QED  BY <4>1, <4>2
        <3> QED  BY <3>1, <3>2 DEF IsCache
    <2>4. Shaped(g)
        <3>1. Changed(c, g, e, k, b) /\ b \in BOOLEAN /\ g.lru \in Seq(Nat) /\ Distinct(g.lru)
              /\ Shaped(c)
            BY <1>1, <1>3, <2>1, <2>3 DEF Changed, Sound, Shaped
        <3> QED  BY <3>1, Touched
    <2>5. /\ Changed(c, d, e, k, b) /\ d.lru \in Seq(Nat) /\ Distinct(d.lru)
          /\ ToSet(d.lru) = IF b /\ m[e] = 0 THEN ToSet(c.lru) \cup {e} ELSE ToSet(c.lru)
          /\ d.in_use = IF b /\ m[e] = 0 THEN c.in_use \ {e} ELSE c.in_use
        <3>1. k = 1 /\ b <=> b /\ m[e] = 0
            BY <1>1, <1>2, <1>6, <2>1
        <3>2. d = IF k = 1 /\ b THEN [Cache!LRU_Remove(g, e) EXCEPT !.lru = Append(@, e)] ELSE g
            BY <1>3, <1>6, <2>1, <2>2 DEF Cache!Unref
        <3>3. CASE k = 1 /\ b
            <4>1. PICK f : /\ f = Cache!LRU_Remove(g, e)
                           /\ IsCache(f) /\ f.handles = g.handles /\ f.table = g.table
                           /\ f.lru \in Seq(Nat) /\ Distinct(f.lru)
                           /\ ToSet(f.lru) = ToSet(g.lru) \ {e} /\ f.in_use = g.in_use \ {e}
                BY <2>4, LruRemove, ZenonT(60)
            <4>2. PICK l \in Seq(Nat) :
                      l = Append(f.lru, e) /\ Distinct(l) /\ ToSet(l) = ToSet(f.lru) \cup {e}
                <5>1. PICK l : l = Append(f.lru, e)
                    OBVIOUS
                <5>2. e \notin ToSet(f.lru)
                    BY <4>1
                <5>3. l \in Seq(Nat) /\ Distinct(l) /\ ToSet(l) = ToSet(f.lru) \cup {e}
                    <6>1. PICK q \in Seq(Nat) : q = f.lru /\ Distinct(q) /\ e \notin ToSet(q)
                        BY <4>1, <5>2
                    <6>2. /\ Append(q, e) \in Seq(Nat) /\ Distinct(Append(q, e))
                          /\ ToSet(Append(q, e)) = ToSet(q) \cup {e}
                        BY <1>1, <6>1, AppendElement
                    <6> QED  BY <5>1, <6>1, <6>2
                <5> QED  BY <5>1, <5>3
            <4>3. d = [f EXCEPT !.lru = l]
                BY <3>2, <3>3, <4>1, <4>2
            <4> QED  BY <1>3, <2>3, <3>1, <3>3, <4>1, <4>2, <4>3 DEF IsCache, Changed
        <3>4. CASE ~(k = 1 /\ b)
            <4>1. d = g
                BY <3>2, <3>4
            <4>2. g.lru \in Seq(Nat) /\ Distinct(g.lru)
                BY <2>4 DEF Shaped
            <4> QED  BY <1>3, <2>3, <3>1, <3>4, <4>1, <4>2 DEF Changed
        <3> QED  BY <3>3, <3>4
    <2>6. /\ Shaped(d) /\ Kept(c, d) /\ DOMAIN d.handles = DOMAIN c.handles
          /\ d.table = c.table
          /\ d.handles[e].refs = k /\ d.handles[e].in_cache = b
          /\ d.handles[e].key = c.handles[e].key
          /\ \A h \in DOMAIN c.handles : h # e => d.handles[h] = c.handles[h]
        <3>1. b \in BOOLEAN /\ Shaped(c)
            BY <1>1, <2>1 DEF Sound
        <3> QED  BY <2>5, <3>1, Touched, SMTT(60)
    <2>7. Counted(d, m)
        <3>1. \A h \in Nat : h \notin DOMAIN d.handles => m[h] = 0
            BY <1>2, <2>6 DEF Counted, Sound
        <3>2. ASSUME NEW h \in DOMAIN d.handles
              PROVE  /\ d.handles[h].refs = m[h] + (IF d.handles[h].in_cache THEN 1 ELSE 0)
                     /\ m[h] > 0 \/ d.handles[h].in_cache
            <4>1. CASE h = e
                BY <1>1, <1>2, <1>6, <2>1, <2>6, <4>1
            <4>2. CASE h # e
                <5>1. d.handles[h] = c.handles[h] /\ m[h] = n[h] /\ h \in DOMAIN c.handles
                    BY <1>2, <2>6, <3>2, <4>2 DEF Sound, Shaped
                <5> QED  BY <5>1 DEF Sound, Counted
            <4> QED  BY <4>1, <4>2
        <3> QED  BY <1>2, <3>1, <3>2 DEF Counted
    <2>8. CachedIn(d) = CachedIn(c)
        BY <2>1, <2>6 DEF CachedIn
    <2>9. Listed(d, m)
        <3>1. e \in CachedIn(c) <=> b
            BY <2>1 DEF CachedIn
        <3>2. \A h \in CachedIn(c) :
                  /\ m[h] = 0 <=> n[h] = 0 \/ (h = e /\ m[e] = 0)
                  /\ m[h] > 0 <=> n[h] > 0 /\ ~(h = e /\ m[e] = 0)
            BY <1>1, <1>2, <1>4
        <3>3. ToSet(d.lru) = {h \in CachedIn(c) : m[h] = 0}
            BY <2>5, <3>1, <3>2 DEF Sound, Listed
        <3>4. d.in_use = {h \in CachedIn(c) : m[h] > 0}
            BY <2>5, <3>1, <3>2 DEF Sound, Listed
        <3> QED  BY <2>8, <3>3, <3>4 DEF Listed
    <2>10. Keyed(d, Null)
        BY <2>6, <2>8 DEF Keyed, Sound, CachedIn
    <2> QED  BY <1>2, <2>6, <2>7, <2>9, <2>10 DEF Sound
<1> QED  BY <1>5, <1>6

\* FinishErase: what the cache gives up is counted out, and freed when it is not held.
LEMMA FinishEraseSound ==
    ASSUME Null \notin Nat, NEW c, NEW n, NEW x, Sound(c, n, x), x \in CachedIn(c),
           NEW d, d = Cache!FinishErase(c, x)
    PROVE  Sound(d, n, Null) /\ Kept(c, d) /\ d.table = c.table
<1>1. /\ x \in DOMAIN c.handles /\ x \in Nat /\ c.handles[x].in_cache /\ n[x] \in Nat
      /\ c.handles[x].refs = n[x] + 1 /\ n \in [Nat -> Nat] /\ x # Null
    BY DEF Sound, Shaped, Counted, CachedIn
<1>2. PICK m \in [Nat -> Nat] :
          m = [n EXCEPT ![x] = @ + 1] /\ m[x] = n[x] + 1 /\ \A h \in Nat : h # x => m[h] = n[h]
    <2>1. PICK g : g = [n EXCEPT ![x] = @ + 1]
        OBVIOUS
    <2>2. /\ g \in [Nat -> Nat] /\ g[x] = n[x] + 1
          /\ \A h \in Nat : h # x => g[h] = n[h]
        BY <1>1, <2>1, OneMore
    <2> QED  BY <2>1, <2>2
<1>3. n = [m EXCEPT ![x] = @ - 1]
    <2>1. PICK g : g = [m EXCEPT ![x] = @ - 1]
        OBVIOUS
    <2>2. /\ g \in [Nat -> Nat] /\ g[x] = m[x] - 1
          /\ \A h \in Nat : h # x => g[h] = m[h]
        <3>1. m[x] > 0
            BY <1>1, <1>2
        <3> QED  BY <1>1, <2>1, <3>1, OneLess
    <2>3. \A h \in Nat : g[h] = n[h]
        BY <1>1, <1>2, <2>2
    <2> QED  BY <1>1, <2>1, <2>2, <2>3
<1>4. PICK f : /\ f = Cache!LRU_Remove(c, x)
               /\ IsCache(f) /\ f.handles = c.handles /\ f.table = c.table
               /\ f.lru \in Seq(Nat) /\ Distinct(f.lru)
               /\ ToSet(f.lru) = ToSet(c.lru) \ {x} /\ f.in_use = c.in_use \ {x}
    BY LruRemove, SMTT(60) DEF Sound
<1>5. PICK g : g = [f EXCEPT !.handles[x].in_cache = FALSE, !.usage = @ - c.handles[x].charge]
    OBVIOUS
<1>6. d = Cache!Unref(g, x)
    BY <1>1, <1>4, <1>5 DEF Cache!FinishErase
<1>7. /\ Changed(c, g, x, n[x] + 1, FALSE) /\ g.lru = f.lru /\ g.in_use = f.in_use
    <2>1. PICK H : H = c.handles /\ H = f.handles /\ IsEntry(H[x]) /\ H[x].refs = n[x] + 1
        BY <1>1, <1>4 DEF Sound, Shaped
    <2>2. g = [f EXCEPT !.handles = [H EXCEPT ![x] = [H[x] EXCEPT !.in_cache = FALSE]],
                        !.usage = f.usage - c.handles[x].charge]
        BY <1>4, <1>5, <2>1 DEF IsCache
    <2>3. [H[x] EXCEPT !.in_cache = FALSE] = [H[x] EXCEPT !.refs = n[x] + 1, !.in_cache = FALSE]
        <3>1. PICK h : h = H[x] /\ IsEntry(h) /\ h.refs = n[x] + 1
            BY <2>1
        <3>2. [h EXCEPT !.in_cache = FALSE] = [h EXCEPT !.refs = n[x] + 1, !.in_cache = FALSE]
            BY <3>1 DEF IsEntry
        <3> QED  BY <3>1, <3>2
    <2>4. g.handles = [H EXCEPT ![x] = [H[x] EXCEPT !.refs = n[x] + 1, !.in_cache = FALSE]]
        BY <1>4, <2>2, <2>3 DEF IsCache
    <2> QED  BY <1>4, <2>1, <2>2, <2>4 DEF Changed, IsCache
<1>8. /\ Shaped(g) /\ Kept(c, g) /\ DOMAIN g.handles = DOMAIN c.handles
      /\ g.table = c.table
      /\ g.handles[x].refs = n[x] + 1 /\ g.handles[x].in_cache = FALSE
      /\ g.handles[x].key = c.handles[x].key
      /\ \A h \in DOMAIN c.handles : h # x => g.handles[h] = c.handles[h]
    <2>1. PICK k : k = n[x] + 1
        OBVIOUS
    <2>2. Changed(c, g, x, k, FALSE) /\ g.lru \in Seq(Nat) /\ Distinct(g.lru) /\ Shaped(c)
        BY <1>4, <1>7, <2>1 DEF Sound
    <2>3. FALSE \in BOOLEAN /\ x \in DOMAIN c.handles
        BY <1>1
    <2>4. /\ Shaped(g) /\ Kept(c, g) /\ DOMAIN g.handles = DOMAIN c.handles
          /\ g.table = c.table
          /\ g.handles[x].refs = k /\ g.handles[x].in_cache = FALSE
          /\ g.handles[x].key = c.handles[x].key
          /\ \A h \in DOMAIN c.handles : h # x => g.handles[h] = c.handles[h]
        BY <2>2, <2>3, Touched
    <2> QED  BY <2>1, <2>4
<1>9. Counted(g, m)
    <2>1. \A h \in Nat : h \notin DOMAIN g.handles => m[h] = 0
        BY <1>1, <1>2, <1>8 DEF Counted, Sound
    <2>2. ASSUME NEW h \in DOMAIN g.handles
          PROVE  /\ g.handles[h].refs = m[h] + (IF g.handles[h].in_cache THEN 1 ELSE 0)
                 /\ m[h] > 0 \/ g.handles[h].in_cache
        <3>1. CASE h = x
            BY <1>1, <1>2, <1>8, <3>1
        <3>2. CASE h # x
            <4>1. g.handles[h] = c.handles[h] /\ m[h] = n[h] /\ h \in DOMAIN c.handles
                BY <1>2, <1>8, <2>2, <3>2 DEF Sound, Shaped
            <4> QED  BY <4>1 DEF Sound, Counted
        <3> QED  BY <3>1, <3>2
    <2> QED  BY <1>2, <2>1, <2>2 DEF Counted
<1>10. CachedIn(g) = CachedIn(c) \ {x}
    BY <1>1, <1>8 DEF CachedIn
<1>11. Listed(g, m)
    <2>1. CachedIn(c) \subseteq Nat
        BY DEF CachedIn, Sound, Shaped
    <2>2. \A h \in CachedIn(g) : m[h] = n[h]
        BY <1>2, <1>10, <2>1
    <2>3. ToSet(g.lru) = {h \in CachedIn(c) : n[h] = 0} \ {x}
        BY <1>4, <1>7 DEF Listed, Sound
    <2>4. g.in_use = {h \in CachedIn(c) : n[h] > 0} \ {x}
        BY <1>4, <1>7 DEF Listed, Sound
    <2> QED  BY <1>10, <2>2, <2>3, <2>4 DEF Listed
<1>12. Keyed(g, Null)
    <2>1. Null \notin CachedIn(g)
        BY <1>8 DEF CachedIn, Shaped
    <2>2. \A h \in CachedIn(g) : g.handles[h] = c.handles[h]
        BY <1>8, <1>10 DEF CachedIn
    <2> QED  BY <1>8, <1>10, <2>1, <2>2 DEF Keyed, Sound
<1>13. Sound(g, m, Null) /\ x \in DOMAIN g.handles /\ m[x] > 0
    BY <1>1, <1>2, <1>8, <1>9, <1>11, <1>12 DEF Sound
<1>14. Sound(d, [m EXCEPT ![x] = @ - 1], Null) /\ Kept(g, d) /\ d.table = g.table
    BY <1>6, <1>13, UnrefSound
<1>15. Kept(c, d)
    BY <1>8, <1>14 DEF Kept
<1> QED
    BY <1>3, <1>8, <1>14, <1>15

\* Erase: what was found under the key is not found any more.
LEMMA RemoveKeySound ==
    ASSUME Null \notin Nat, NEW c, NEW n, Sound(c, n, Null), NEW key,
           NEW d, d = Cache!RemoveKey(c, key)
    PROVE  Sound(d, n, Null) /\ Kept(c, d) /\ key \notin DOMAIN d.table
<1>1. PICK T : T = c.table /\ IsFcn(T)
    BY DEF Sound, Shaped
<1>2. PICK U : U = [k \in DOMAIN T \ {key} |-> T[k]]
    OBVIOUS
<1>3. /\ DOMAIN U = DOMAIN T \ {key} /\ \A k \in DOMAIN U : U[k] = T[k]
      /\ IsFcn(U)
    BY <1>2 DEF IsFcn
<1>4. PICK g : g = [c EXCEPT !.table = U]
    OBVIOUS
<1>5. d = Cache!FinishErase(g, Cache!InTable(c, key))
    <2>1. d = Cache!FinishErase(
                  [c EXCEPT !.table = [x \in {y \in DOMAIN c.table : y # key} |-> c.table[x]]],
                  Cache!InTable(c, key))
        BY DEF Cache!RemoveKey, Cache!RestrictDomain, Cache!Restrict
    <2>2. {y \in DOMAIN c.table : y # key} = DOMAIN T \ {key}
        BY <1>1
    <2> QED  BY <1>1, <1>2, <1>4, <2>1, <2>2
<1>6. /\ IsCache(g) /\ g.table = U /\ g.handles = c.handles /\ g.lru = c.lru
      /\ g.in_use = c.in_use
    <2>1. g = [capacity |-> c.capacity, usage |-> c.usage, handles |-> c.handles,
               table |-> U, lru |-> c.lru, in_use |-> c.in_use]
        BY <1>4 DEF Sound, Shaped, IsCache
    <2> QED  BY <2>1 DEF IsCache
<1>7. Shaped(g) /\ CachedIn(g) = CachedIn(c) /\ Kept(c, g)
    BY <1>3, <1>6 DEF Sound, Shaped, CachedIn, Kept
<1>8. Counted(g, n) /\ Listed(g, n)
    BY <1>6, <1>7 DEF Sound, Counted, Listed
<1>9. CASE key \in DOMAIN c.table
    <2>1. PICK x : x = c.table[key]
        OBVIOUS
    <2>2. x \in CachedIn(c) /\ c.handles[x].key = key
        BY <1>9, <2>1 DEF Sound, Keyed
    <2>3. d = Cache!FinishErase(g, x)
        BY <1>5, <1>9, <2>1 DEF Cache!InTable
    <2>4. Keyed(g, x)
        <3>1. ASSUME NEW k \in DOMAIN U
              PROVE  U[k] \in CachedIn(c) \ {x} /\ c.handles[U[k]].key = k
            <4>1. k \in DOMAIN c.table /\ k # key /\ U[k] = c.table[k]
                BY <1>1, <1>3, <3>1
            <4>2. c.table[k] \in CachedIn(c) /\ c.handles[c.table[k]].key = k
                BY <4>1 DEF Sound, Keyed
            <4> QED  BY <2>2, <4>1, <4>2
        <3>2. ASSUME NEW h \in CachedIn(c) \ {x}
              PROVE  c.handles[h].key \in DOMAIN U /\ U[c.handles[h].key] = h
            <4>1. h # Null
                BY DEF Sound, Shaped, CachedIn
            <4>2. c.handles[h].key \in DOMAIN c.table /\ c.table[c.handles[h].key] = h
                BY <4>1 DEF Sound, Keyed
            <4>3. c.handles[h].key # key
                BY <2>1, <4>2
            <4> QED  BY <1>1, <1>3, <4>2, <4>3
        <3> QED  BY <1>6, <1>7, <3>1, <3>2 DEF Keyed
    <2>5. Sound(g, n, x) /\ x \in CachedIn(g)
        BY <1>7, <1>8, <2>2, <2>4 DEF Sound
    <2>6. Sound(d, n, Null) /\ Kept(g, d) /\ d.table = g.table
        BY <2>3, <2>5, FinishEraseSound
    <2>7. Kept(c, d)
        BY <1>7, <2>6 DEF Kept
    <2> QED  BY <1>3, <1>6, <2>6, <2>7
<1>10. CASE key \notin DOMAIN c.table
    <2>1. d = g
        BY <1>5, <1>10 DEF Cache!InTable, Cache!FinishErase
    <2>2. U = T
        BY <1>1, <1>2, <1>10 DEF IsFcn
    <2>3. Keyed(g, Null)
        BY <1>1, <1>6, <1>7, <2>2 DEF Sound, Keyed
    <2> QED  BY <1>3, <1>6, <1>7, <1>8, <2>1, <2>3 DEF Sound
<1> QED
    BY <1>9, <1>10

\* One round of the loop of Insert.
EvictOne(c) ==
    IF c.usage > c.capacity /\ c.lru # <<>>
    THEN Cache!RemoveKey(c, c.handles[Head(c.lru)].key) ELSE c

Rounds(f, k, c) == f = [i \in 0 .. k |-> IF i = 0 THEN c ELSE EvictOne(f[i - 1])]

\* The recursion is well founded.
LEMMA RoundsExist ==
    ASSUME NEW c, NEW k \in Nat
    PROVE  \E f : Rounds(f, k, c)
<1> DEFINE S == {i \in Nat : \E f : Rounds(f, i, c)}
<1>1. 0 \in S
    <2>1. PICK f : f = [i \in 0 .. 0 |-> c]
        OBVIOUS
    <2>2. f = [i \in 0 .. 0 |-> IF i = 0 THEN c ELSE EvictOne(f[i - 1])]
        <3>1. \A i \in 0 .. 0 : i = 0
            OBVIOUS
        <3> QED  BY <2>1, <3>1
    <2>3. Rounds(f, 0, c)
        BY <2>2 DEF Rounds
    <2> QED  BY <2>3
<1>2. ASSUME NEW i \in Nat, i \in S PROVE i + 1 \in S
    <2>1. PICK f : Rounds(f, i, c)
        BY <1>2
    <2>2. PICK g : g = [j \in 0 .. i + 1 |-> IF j = i + 1 THEN EvictOne(f[i]) ELSE f[j]]
        OBVIOUS
    <2>3. \A j \in 0 .. i : g[j] = f[j] /\ f[j] = IF j = 0 THEN c ELSE EvictOne(f[j - 1])
        <3>1. \A j \in 0 .. i : f[j] = IF j = 0 THEN c ELSE EvictOne(f[j - 1])
            BY <2>1 DEF Rounds
        <3>2. \A j \in 0 .. i : j \in 0 .. i + 1 /\ j # i + 1
            OBVIOUS
        <3> QED  BY <2>2, <3>1, <3>2
    <2>4. g[i + 1] = EvictOne(f[i]) /\ g[i] = f[i]
        BY <2>2, <2>3
    <2>5. ASSUME NEW j \in 0 .. i + 1 PROVE g[j] = IF j = 0 THEN c ELSE EvictOne(g[j - 1])
        <3>1. CASE j = i + 1
            <4>1. j # 0 /\ j - 1 = i
                BY <3>1
            <4> QED  BY <2>4, <3>1, <4>1
        <3>2. CASE j = 0
            BY <2>3, <3>2
        <3>3. CASE j # 0 /\ j # i + 1
            <4>1. j \in 0 .. i /\ j - 1 \in 0 .. i
                BY <3>3
            <4> QED  BY <2>3, <3>3, <4>1
        <3> QED  BY <3>1, <3>2, <3>3
    <2>6. g = [j \in 0 .. i + 1 |-> IF j = 0 THEN c ELSE EvictOne(g[j - 1])]
        BY <2>2, <2>5
    <2>7. Rounds(g, i + 1, c)
        BY <2>6 DEF Rounds
    <2> QED  BY <2>7
<1> HIDE DEF S
<1>3. Nat \subseteq S
    BY <1>1, <1>2, Induction
<1> QED
    BY <1>3 DEF S

\* The loop of Insert keeps the cache sound.
LEMMA EvictOldestSound ==
    ASSUME Null \notin Nat, NEW c, NEW n, Sound(c, n, Null), NEW d, d = Cache!EvictOldest(c)
    PROVE  Sound(d, n, Null) /\ Kept(c, d)
<1>1. PICK k \in Nat : k = Len(c.lru)
    BY LenProperties DEF Sound, Shaped
<1>2. PICK f : Rounds(f, k, c) /\ d = f[k]
    <2>1. d = (CHOOSE f : Rounds(f, k, c))[k]
        BY <1>1 DEF Cache!EvictOldest, Rounds, EvictOne
    <2> QED  BY <2>1, RoundsExist, Zenon
<1>3. /\ f[0] = c
      /\ \A i \in Nat : i + 1 <= k => f[i + 1] = EvictOne(f[i])
    <2>1. \A i \in 0 .. k : f[i] = IF i = 0 THEN c ELSE EvictOne(f[i - 1])
        BY <1>2 DEF Rounds
    <2>2. \A i \in Nat : i + 1 <= k => i + 1 \in 0 .. k /\ i + 1 # 0 /\ (i + 1) - 1 = i
        OBVIOUS
    <2> QED  BY <2>1, <2>2
<1> DEFINE S == {i \in Nat : i <= k => Sound(f[i], n, Null) /\ Kept(c, f[i])}
<1>4. 0 \in S
    BY <1>3 DEF Kept
<1>5. ASSUME NEW i \in Nat, i \in S PROVE i + 1 \in S
    <2> SUFFICES ASSUME i + 1 <= k PROVE Sound(f[i + 1], n, Null) /\ Kept(c, f[i + 1])
        OBVIOUS
    <2>1. PICK g : g = f[i] /\ Sound(g, n, Null) /\ Kept(c, g)
        BY <1>5
    <2>2. PICK e : e = f[i + 1] /\ e = EvictOne(g)
        BY <1>3, <2>1
    <2>3. CASE e = g
        BY <2>1, <2>2, <2>3
    <2>4. CASE e = Cache!RemoveKey(g, g.handles[Head(g.lru)].key)
        <3>1. Sound(e, n, Null) /\ Kept(g, e)
            BY <2>1, <2>4, RemoveKeySound
        <3> QED  BY <2>1, <2>2, <3>1 DEF Kept
    <2> QED  BY <2>2, <2>3, <2>4 DEF EvictOne
<1> HIDE DEF S
<1>6. k \in S
    BY <1>4, <1>5, Induction
<1> QED
    BY <1>2, <1>6 DEF S

\* d has what c had, or less, and a new entry e.
Added(c, d, e, key, value) ==
    \A h \in DOMAIN d.handles :
       \/ h = e /\ d.handles[h].key = key /\ d.handles[h].value = value
       \/ /\ h \in DOMAIN c.handles /\ h # e
          /\ d.handles[h].key = c.handles[h].key /\ d.handles[h].value = c.handles[h].value

\* There is always a free address.
LEMMA FreeAddress ==
    ASSUME NEW D, IsFiniteSet(D)
    PROVE  \E x \in 1 .. Cardinality(D) + 1 : x \notin D
<1> SUFFICES ASSUME \A x \in 1 .. Cardinality(D) + 1 : x \in D PROVE FALSE
    OBVIOUS
<1>1. PICK k \in Nat : k = Cardinality(D)
    BY FS_CardinalityType
<1>2. 1 .. k + 1 \in SUBSET D
    BY <1>1
<1>3. Cardinality(1 .. k + 1) <= k
    BY <1>1, <1>2, FS_Subset
<1>4. 1 \in Int /\ k + 1 \in Int /\ ~(1 > k + 1) /\ (k + 1) - 1 + 1 = k + 1
    OBVIOUS
<1>5. Cardinality(1 .. k + 1) = k + 1
    BY <1>4, FS_Interval
<1> QED  BY <1>3, <1>5

\* The new entry in the cache, next to x, which it replaces.
LEMMA PutSound ==
    ASSUME Null \notin Nat, NEW c, NEW n, Sound(c, n, Null), NEW e \in Nat, e \notin DOMAIN c.handles,
           NEW v, IsEntry(v), v.in_cache \in BOOLEAN, v.refs = IF v.in_cache THEN 2 ELSE 1,
           NEW d, IsCache(d), d.handles = Cache!With(c.handles, e, v), d.lru = c.lru,
           v.in_cache => /\ d.in_use = c.in_use \cup {e}
                         /\ d.table = Cache!With(c.table, v.key, e),
           ~v.in_cache => d.in_use = c.in_use /\ d.table = c.table
    PROVE  /\ Sound(d, [n EXCEPT ![e] = @ + 1],
                    IF v.in_cache THEN Cache!InTable(c, v.key) ELSE Null)
           /\ Added(c, d, e, v.key, v.value)
<1>1. PICK H : H = c.handles /\ IsFcn(H) /\ \A h \in DOMAIN H : IsEntry(H[h])
    BY DEF Sound, Shaped
<1>2. PICK T : T = c.table /\ IsFcn(T)
    BY DEF Sound, Shaped
<1>3. /\ d.handles = [h \in DOMAIN H \cup {e} |-> IF h = e THEN v ELSE H[h]]
      /\ DOMAIN d.handles = DOMAIN H \cup {e} /\ d.handles[e] = v
      /\ \A h \in DOMAIN H : h # e /\ d.handles[h] = H[h]
    BY <1>1 DEF Cache!With
<1>4. n \in [Nat -> Nat] /\ n[e] = 0
    BY DEF Sound, Counted
<1>5. PICK m \in [Nat -> Nat] :
          m = [n EXCEPT ![e] = @ + 1] /\ m[e] = 1 /\ \A h \in Nat : h # e => m[h] = n[h]
    <2>1. PICK g : g = [n EXCEPT ![e] = @ + 1]
        OBVIOUS
    <2>2. /\ g \in [Nat -> Nat] /\ g[e] = n[e] + 1
          /\ \A h \in Nat : h # e => g[h] = n[h]
        BY <1>4, <2>1, OneMore
    <2>3. g[e] = 1
        BY <1>4, <2>2
    <2> QED  BY <2>1, <2>2, <2>3
<1>6. Shaped(d)
    <2>1. IsFcn(d.handles)
        BY <1>3 DEF IsFcn
    <2>2. IsFcn(d.table)
        <3>1. CASE v.in_cache
            BY <3>1 DEF IsFcn, Cache!With
        <3>2. CASE ~v.in_cache
            BY <1>2, <3>2
        <3> QED  BY <3>1, <3>2
    <2>3. IsFiniteSet(DOMAIN d.handles) /\ DOMAIN d.handles \subseteq Nat
        BY <1>1, <1>3, FS_AddElement DEF Sound, Shaped
    <2>4. \A h \in DOMAIN d.handles : IsEntry(d.handles[h]) /\ d.handles[h].in_cache \in BOOLEAN
        BY <1>1, <1>3 DEF Sound, Shaped
    <2> QED  BY <2>1, <2>2, <2>3, <2>4 DEF Sound, Shaped
<1>7. DOMAIN H \subseteq Nat
    BY <1>1 DEF Sound, Shaped
<1>8. Counted(d, m)
    <2>1. \A h \in Nat : h \notin DOMAIN d.handles => m[h] = 0
        BY <1>1, <1>3, <1>5 DEF Counted, Sound
    <2>2. ASSUME NEW h \in DOMAIN d.handles
          PROVE  /\ d.handles[h].refs = m[h] + (IF d.handles[h].in_cache THEN 1 ELSE 0)
                 /\ m[h] > 0 \/ d.handles[h].in_cache
        <3>1. CASE h = e
            BY <1>3, <1>5, <3>1
        <3>2. CASE h # e
            <4>1. d.handles[h] = c.handles[h] /\ m[h] = n[h] /\ h \in DOMAIN c.handles
                BY <1>1, <1>3, <1>5, <1>7, <2>2, <3>2
            <4> QED  BY <4>1 DEF Sound, Counted
        <3> QED  BY <3>1, <3>2
    <2> QED  BY <1>5, <2>1, <2>2 DEF Counted
<1>9. CachedIn(d) = CachedIn(c) \cup (IF v.in_cache THEN {e} ELSE {}) /\ e \notin CachedIn(c)
    BY <1>1, <1>3 DEF CachedIn
<1>10. CachedIn(c) \subseteq Nat /\ \A h \in CachedIn(c) : m[h] = n[h] /\ d.handles[h] = c.handles[h]
    BY <1>1, <1>3, <1>5, <1>7 DEF CachedIn
<1>11. Listed(d, m)
    <2>1. ToSet(c.lru) = {h \in CachedIn(c) : n[h] = 0} /\ c.in_use = {h \in CachedIn(c) : n[h] > 0}
        BY DEF Sound, Listed
    <2>2. m[e] # 0 /\ m[e] > 0
        BY <1>5
    <2>3. CASE v.in_cache
        <3>1. ToSet(d.lru) = {h \in CachedIn(d) : m[h] = 0}
            BY <1>9, <1>10, <2>1, <2>2, <2>3
        <3>2. d.in_use = {h \in CachedIn(d) : m[h] > 0}
            BY <1>9, <1>10, <2>1, <2>2, <2>3
        <3> QED  BY <3>1, <3>2 DEF Listed
    <2>4. CASE ~v.in_cache
        <3>1. CachedIn(d) = CachedIn(c)
            BY <1>9, <2>4
        <3> QED  BY <1>10, <2>1, <2>4, <3>1 DEF Listed
    <2> QED  BY <2>3, <2>4
<1>12. Added(c, d, e, v.key, v.value)
    BY <1>1, <1>3 DEF Added
<1>13. CASE ~v.in_cache
    <2>1. CachedIn(d) = CachedIn(c)
        BY <1>9, <1>13
    <2>2. Keyed(d, Null)
        BY <1>10, <1>13, <2>1 DEF Sound, Keyed
    <2> QED  BY <1>5, <1>6, <1>8, <1>11, <1>12, <1>13, <2>2 DEF Sound
<1>14. CASE v.in_cache
    <2>1. PICK x : x = Cache!InTable(c, v.key)
        OBVIOUS
    <2>2. /\ DOMAIN d.table = DOMAIN T \cup {v.key} /\ d.table[v.key] = e
          /\ \A k \in DOMAIN T : k # v.key => d.table[k] = T[k]
        BY <1>2, <1>14 DEF Cache!With
    <2>3. x # e /\ (v.key \in DOMAIN T => x = T[v.key]) /\ (v.key \notin DOMAIN T => x = Null)
        BY <1>2, <1>9, <2>1 DEF Cache!InTable, Sound, Keyed
    <2>4. Null \notin CachedIn(c) /\ Null \notin CachedIn(d)
        BY <1>9, <1>10
    <2>5. ASSUME NEW k \in DOMAIN d.table
          PROVE  d.table[k] \in CachedIn(d) \ {x} /\ d.handles[d.table[k]].key = k
        <3>1. CASE k = v.key
            BY <1>3, <1>9, <1>14, <2>2, <2>3, <3>1
        <3>2. CASE k # v.key
            <4>1. k \in DOMAIN c.table /\ d.table[k] = c.table[k]
                BY <1>2, <2>2, <2>5, <3>2
            <4>2. c.table[k] \in CachedIn(c) /\ c.handles[c.table[k]].key = k
                BY <4>1 DEF Sound, Keyed
            <4>3. c.table[k] # x
                <5>1. CASE v.key \in DOMAIN T
                    <6>1. c.handles[x].key = v.key
                        BY <1>2, <2>3, <5>1 DEF Sound, Keyed
                    <6> QED  BY <3>2, <4>2, <6>1
                <5>2. CASE v.key \notin DOMAIN T
                    BY <2>3, <2>4, <4>2, <5>2
                <5> QED  BY <5>1, <5>2
            <4> QED  BY <1>9, <1>10, <4>1, <4>2, <4>3
        <3> QED  BY <3>1, <3>2
    <2>6. ASSUME NEW h \in CachedIn(d) \ {x}
          PROVE  d.handles[h].key \in DOMAIN d.table /\ d.table[d.handles[h].key] = h
        <3>1. CASE h = e
            BY <1>3, <2>2, <3>1
        <3>2. CASE h # e
            <4>1. h \in CachedIn(c) /\ h # Null /\ d.handles[h] = c.handles[h]
                BY <1>9, <1>10, <2>4, <2>6, <3>2
            <4>2. c.handles[h].key \in DOMAIN c.table /\ c.table[c.handles[h].key] = h
                BY <4>1 DEF Sound, Keyed
            <4>3. c.handles[h].key # v.key
                BY <1>2, <2>3, <2>6, <4>2
            <4> QED  BY <1>2, <2>2, <4>1, <4>2, <4>3
        <3> QED  BY <3>1, <3>2
    <2>7. Keyed(d, x)
        BY <2>5, <2>6 DEF Keyed
    <2> QED  BY <1>5, <1>6, <1>8, <1>11, <1>12, <1>14, <2>1, <2>7 DEF Sound
<1> QED  BY <1>13, <1>14

\* Insert: the new entry has the caller for a holder; the one it replaces and those
\* that do not fit any more lose the cache.
LEMMA InsertSound ==
    ASSUME Null \notin Nat, NEW c, NEW n, Sound(c, n, Null), NEW key, NEW value, NEW charge,
           NEW new, new = Cache!Insert(c, key, value, charge)
    PROVE  /\ new.handle \in Nat /\ new.handle \notin DOMAIN c.handles
           /\ Sound(new.cache, [n EXCEPT ![new.handle] = @ + 1], Null)
           /\ Added(c, new.cache, new.handle, key, value)
<1>1. PICK e \in Nat : e \notin DOMAIN c.handles /\ e = Cache!Malloc(c)
    <2>1. PICK D : D = DOMAIN c.handles /\ IsFiniteSet(D)
        BY DEF Sound, Shaped
    <2>2. PICK k \in Nat : k = Cardinality(D)
        BY <2>1, FS_CardinalityType
    <2>3. \E x \in 1 .. k + 1 : x \notin D
        BY <2>1, <2>2, FreeAddress
    <2>4. Cache!Cardinality(D) = k
        BY <2>2 DEF Cache!Cardinality, Cardinality
    <2>5. Cache!Malloc(c) = CHOOSE x \in 1 .. k + 1 : x \notin D
        BY <2>1, <2>4 DEF Cache!Malloc
    <2> QED  BY <2>1, <2>3, <2>5
<1>2. PICK b \in BOOLEAN : b = (c.capacity > 0)
    <2>1. CASE c.capacity > 0
        <3>1. (c.capacity > 0) = TRUE
            BY <2>1
        <3> QED  BY <3>1
    <2>2. CASE ~(c.capacity > 0)
        <3>1. (c.capacity > 0) = FALSE
            BY <2>2
        <3> QED  BY <3>1
    <2> QED  BY <2>1, <2>2
<1>3. PICK v : v = [key |-> key, value |-> value, charge |-> charge, in_cache |-> b,
                    refs |-> IF b THEN 2 ELSE 1]
    OBVIOUS
<1>4. PICK d : d = [c EXCEPT !.handles = Cache!With(@, e, v)]
    OBVIOUS
<1>5. PICK f : f = IF ~b THEN d
                   ELSE [d EXCEPT !.in_use = @ \cup {e}, !.usage = @ + charge,
                                  !.table = Cache!With(@, key, e)]
    OBVIOUS
<1>6. PICK x : x = IF b THEN Cache!InTable(c, key) ELSE Null
    OBVIOUS
<1>7. /\ new.handle = e
      /\ new.cache = Cache!EvictOldest(IF ~b THEN f ELSE Cache!FinishErase(f, x))
    <2>3. new = [handle |-> e,
                 cache |-> Cache!EvictOldest(IF ~b THEN f ELSE Cache!FinishErase(f, x))]
        <3>1. new = [handle |-> e,
                     cache |-> Cache!EvictOldest(
                        IF ~b THEN d
                        ELSE Cache!FinishErase([d EXCEPT !.in_use = @ \cup {e}, !.usage = @ + charge,
                                                         !.table = Cache!With(@, key, e)],
                                               Cache!InTable(c, key)))]
            <4>1. v = [key |-> key, value |-> value, charge |-> charge,
                       in_cache |-> c.capacity > 0, refs |-> IF c.capacity > 0 THEN 2 ELSE 1]
                BY <1>2, <1>3
            <4>2. d = [c EXCEPT !.handles = Cache!With(@, Cache!Malloc(c), v)]
                BY <1>1, <1>4
            <4>3. new = [handle |-> Cache!Malloc(c),
                         cache |-> Cache!EvictOldest(
                            IF ~(c.capacity > 0) THEN d
                            ELSE Cache!FinishErase([d EXCEPT !.in_use = @ \cup {Cache!Malloc(c)},
                                                             !.usage = @ + charge,
                                                             !.table = Cache!With(@, key, Cache!Malloc(c))],
                                                   Cache!InTable(c, key)))]
                BY <4>1, <4>2 DEF Cache!Insert
            <4> QED  BY <1>1, <1>2, <4>3
        <3>2. CASE b
            BY <1>5, <1>6, <3>1, <3>2
        <3>3. CASE ~b
            BY <1>5, <1>6, <3>1, <3>3
        <3> QED  BY <3>2, <3>3
    <2> QED  BY <2>3
<1>8. /\ IsEntry(v) /\ v.in_cache = b /\ v.refs = (IF b THEN 2 ELSE 1) /\ v.key = key
      /\ v.value = value
    BY <1>3 DEF IsEntry
<1>9. /\ IsCache(f) /\ f.handles = Cache!With(c.handles, e, v) /\ f.lru = c.lru
      /\ b => f.in_use = c.in_use \cup {e} /\ f.table = Cache!With(c.table, key, e)
      /\ ~b => f.in_use = c.in_use /\ f.table = c.table
    <2>1. PICK H : H = Cache!With(c.handles, e, v)
        OBVIOUS
    <2>2. PICK T : T = Cache!With(c.table, key, e)
        OBVIOUS
    <2>3. IsCache(c)
        BY DEF Sound, Shaped
    <2>4. d = [capacity |-> c.capacity, usage |-> c.usage, handles |-> H,
               table |-> c.table, lru |-> c.lru, in_use |-> c.in_use]
        BY <1>4, <2>1, <2>3 DEF IsCache
    <2>5. CASE ~b
        BY <1>5, <2>1, <2>4, <2>5 DEF IsCache
    <2>6. CASE b
        <3>1. f = [capacity |-> c.capacity, usage |-> c.usage + charge, handles |-> H,
                   table |-> T, lru |-> c.lru, in_use |-> c.in_use \cup {e}]
            BY <1>5, <2>2, <2>4, <2>6
        <3> QED  BY <2>1, <2>2, <2>6, <3>1 DEF IsCache
    <2> QED  BY <2>5, <2>6
<1>10. PICK m : m = [n EXCEPT ![e] = @ + 1]
    OBVIOUS
<1>11. Sound(f, m, x) /\ Added(c, f, e, key, value)
    <2>1. /\ v.in_cache \in BOOLEAN /\ v.refs = IF v.in_cache THEN 2 ELSE 1
          /\ v.in_cache => /\ f.in_use = c.in_use \cup {e}
                           /\ f.table = Cache!With(c.table, v.key, e)
          /\ ~v.in_cache => f.in_use = c.in_use /\ f.table = c.table
        BY <1>8, <1>9
    <2>2. /\ Sound(f, [n EXCEPT ![e] = @ + 1],
                   IF v.in_cache THEN Cache!InTable(c, v.key) ELSE Null)
          /\ Added(c, f, e, v.key, v.value)
        BY <1>1, <1>8, <1>9, <2>1, PutSound
    <2> QED  BY <1>6, <1>8, <1>10, <2>2
<1>12. PICK g : g = IF ~b THEN f ELSE Cache!FinishErase(f, x)
    OBVIOUS
<1>13. Sound(g, m, Null) /\ Kept(f, g)
    <2>1. CASE x = Null
        <3>1. g = f
            BY <1>12, <2>1 DEF Cache!FinishErase
        <3> QED  BY <1>11, <2>1, <3>1 DEF Kept
    <2>2. CASE x # Null
        <3>1. b /\ x \in CachedIn(c)
            BY <1>6, <2>2 DEF Cache!InTable, Sound, Keyed
        <3>2. x \in DOMAIN f.handles /\ f.handles[x] = c.handles[x]
            BY <1>1, <1>9, <3>1 DEF Cache!With, CachedIn
        <3>3. x \in CachedIn(f)
            BY <3>1, <3>2 DEF CachedIn
        <3>4. g = Cache!FinishErase(f, x)
            BY <1>12, <3>1
        <3> QED  BY <1>11, <3>3, <3>4, FinishEraseSound
    <2> QED  BY <2>1, <2>2
<1>14. PICK u : u = new.cache /\ u = Cache!EvictOldest(g)
    BY <1>7, <1>12
<1>15. Sound(u, m, Null) /\ Kept(g, u)
    BY <1>13, <1>14, EvictOldestSound
<1>16. Added(c, u, e, key, value)
    <2>1. Kept(f, u)
        BY <1>13, <1>15 DEF Kept
    <2> QED  BY <1>11, <2>1 DEF Added, Kept
<1> QED  BY <1>1, <1>7, <1>10, <1>14, <1>15, <1>16

\* Lookup: the caller is one more holder of what it finds.
LEMMA LookupSound ==
    ASSUME Null \notin Nat, NEW c, NEW n, Sound(c, n, Null), NEW key,
           NEW new, new = Cache!Lookup(c, key)
    PROVE  /\ new.handle = Null => new.cache = c
           /\ new.handle # Null =>
                 /\ new.handle \in CachedIn(c) /\ new.handle \in Nat
                 /\ c.handles[new.handle].key = key
                 /\ Sound(new.cache, [n EXCEPT ![new.handle] = @ + 1], Null)
                 /\ Kept(c, new.cache)
<1>1. PICK e : e = Cache!InTable(c, key)
    OBVIOUS
<1>2. new.handle = e /\ new.cache = IF e = Null THEN c ELSE Cache!Ref(c, e)
    BY <1>1 DEF Cache!Lookup
<1>3. CASE e = Null
    BY <1>2, <1>3
<1>4. CASE e # Null
    <2>1. e \in CachedIn(c) /\ c.handles[e].key = key
        BY <1>1, <1>4 DEF Cache!InTable, Sound, Keyed
    <2>2. e \in Nat
        BY <2>1 DEF CachedIn, Sound, Shaped
    <2>3. PICK d : d = Cache!Ref(c, e)
        OBVIOUS
    <2>4. Sound(d, [n EXCEPT ![e] = @ + 1], Null) /\ Kept(c, d)
        BY <2>1, <2>3, RefSound
    <2> QED  BY <1>2, <1>4, <2>1, <2>2, <2>3, <2>4
<1> QED  BY <1>3, <1>4

(***************************************************************************)
(* The holders of an entry.                                                *)
(***************************************************************************)
Holders(F, h) == {r \in Readers : F[r] = h}

Holding(F) == [h \in Nat |-> Cardinality(Holders(F, h))]

\* The number of holders is a number, and not zero when there is one.
LEMMA HoldingType ==
    ASSUME IsFiniteSet(Readers), NEW F
    PROVE  /\ Holding(F) \in [Nat -> Nat]
           /\ \A h \in Nat : Holding(F)[h] = Cardinality(Holders(F, h))
           /\ \A h \in Nat : \A r \in Readers : F[r] = h => Holding(F)[h] > 0
<1>1. ASSUME NEW h
      PROVE  /\ IsFiniteSet(Holders(F, h)) /\ Cardinality(Holders(F, h)) \in Nat
             /\ Cardinality(Holders(F, h)) = 0 <=> Holders(F, h) = {}
    <2>1. Holders(F, h) \in SUBSET Readers
        BY DEF Holders
    <2>2. IsFiniteSet(Holders(F, h))
        BY <2>1, FS_Subset
    <2> QED  BY <2>2, FS_CardinalityType, FS_EmptySet
<1>2. \A h \in Nat : Holding(F)[h] = Cardinality(Holders(F, h))
    BY DEF Holding
<1>3. Holding(F) \in [Nat -> Nat]
    BY <1>1 DEF Holding
<1>4. ASSUME NEW h \in Nat, NEW r \in Readers, F[r] = h
      PROVE  Holding(F)[h] > 0
    <2>1. r \in Holders(F, h)
        BY <1>4 DEF Holders
    <2>2. PICK k \in Nat : k = Holding(F)[h] /\ k # 0
        BY <1>1, <1>2, <2>1
    <2> QED  BY <2>2
<1> QED  BY <1>2, <1>3, <1>4

Incremented(n, e) == [n EXCEPT ![e] = @ + 1]

\* A reader takes an entry.
LEMMA Take ==
    ASSUME IsFiniteSet(Readers), Null \notin Nat, NEW F, NEW G, NEW r \in Readers, NEW e \in Nat,
           F[r] = Null, G[r] = e, \A s \in Readers : s # r => G[s] = F[s]
    PROVE  Holding(G) = Incremented(Holding(F), e)
<1>1. Holding(F) \in [Nat -> Nat] /\ Holding(G) \in [Nat -> Nat]
    BY HoldingType
<1>2. ASSUME NEW h \in Nat, h # e PROVE Holding(G)[h] = Holding(F)[h]
    <2>1. Holders(G, h) = Holders(F, h)
        BY <1>2 DEF Holders
    <2> QED  BY <2>1 DEF Holding
<1>3. Holding(G)[e] = Holding(F)[e] + 1
    <2>1. Holders(G, e) = Holders(F, e) \cup {r} /\ r \notin Holders(F, e)
        BY DEF Holders
    <2>2. Holders(F, e) \in SUBSET Readers
        BY DEF Holders
    <2>3. IsFiniteSet(Holders(F, e))
        BY <2>2, FS_Subset
    <2>4. Cardinality(Holders(F, e) \cup {r}) = Cardinality(Holders(F, e)) + 1
        BY <2>1, <2>3, FS_AddElement
    <2> QED  BY <2>1, <2>4 DEF Holding
<1>4. PICK f \in [Nat -> Nat] : f = Holding(F)
    BY <1>1
<1>5. PICK g \in [Nat -> Nat] : g = Holding(G)
    BY <1>1
<1>6. g[e] = f[e] + 1 /\ \A h \in Nat : h # e => g[h] = f[h]
    BY <1>2, <1>3, <1>4, <1>5
<1>7. g = [f EXCEPT ![e] = @ + 1]
    BY <1>6
<1> QED  BY <1>4, <1>5, <1>7 DEF Incremented

\* A reader gives one back.
LEMMA Give ==
    ASSUME IsFiniteSet(Readers), Null \notin Nat, NEW F, NEW G, NEW r \in Readers, NEW e \in Nat,
           F[r] = e, G[r] = Null, \A s \in Readers : s # r => G[s] = F[s]
    PROVE  Holding(F)[e] > 0 /\ Holding(G) = [Holding(F) EXCEPT ![e] = @ - 1]
<1>1. Holding(F) \in [Nat -> Nat] /\ Holding(G) \in [Nat -> Nat] /\ Holding(F)[e] > 0
    BY HoldingType
<1>2. ASSUME NEW h \in Nat, h # e PROVE Holding(G)[h] = Holding(F)[h]
    <2>1. Holders(G, h) = Holders(F, h)
        BY <1>2 DEF Holders
    <2> QED  BY <2>1 DEF Holding
<1>3. Holding(G)[e] = Holding(F)[e] - 1
    <2>1. Holders(G, e) = Holders(F, e) \ {r} /\ r \in Holders(F, e)
        BY DEF Holders
    <2>2. Holders(F, e) \in SUBSET Readers
        BY DEF Holders
    <2>3. IsFiniteSet(Holders(F, e))
        BY <2>2, FS_Subset
    <2>4. Cardinality(Holders(F, e) \ {r}) = Cardinality(Holders(F, e)) - 1
        BY <2>1, <2>3, FS_RemoveElement
    <2> QED  BY <2>1, <2>4 DEF Holding
<1>4. PICK f \in [Nat -> Nat] : f = Holding(F)
    BY <1>1
<1>5. PICK g \in [Nat -> Nat] : g = Holding(G)
    BY <1>1
<1>6. g[e] = f[e] - 1 /\ \A h \in Nat : h # e => g[h] = f[h]
    BY <1>2, <1>3, <1>4, <1>5
<1>7. g = [f EXCEPT ![e] = @ - 1]
    BY <1>6
<1> QED  BY <1>1, <1>4, <1>5, <1>7

\* The same holders.
LEMMA Same ==
    ASSUME NEW F, NEW G, \A s \in Readers : G[s] = F[s]
    PROVE  Holding(G) = Holding(F)
<1>1. \A h : Holders(G, h) = Holders(F, h)
    BY DEF Holders
<1> QED  BY <1>1 DEF Holding

\* One holder more and one less of what may be no entry at all.
Plus(n, h) == IF h = Null THEN n ELSE [n EXCEPT ![h] = @ + 1]
Minus(n, h) == IF h = Null THEN n ELSE [n EXCEPT ![h] = @ - 1]

Handle == Nat \cup {Null}

\* The counts after one more.
LEMMA PlusValue ==
    ASSUME Null \notin Nat, NEW n \in [Nat -> Nat], NEW h \in Handle
    PROVE  /\ Plus(n, h) \in [Nat -> Nat]
           /\ \A a \in Nat : Plus(n, h)[a] = IF a = h THEN n[a] + 1 ELSE n[a]
<1>1. CASE h = Null
    BY <1>1 DEF Plus
<1>2. CASE h # Null
    <2>1. h \in Nat /\ Plus(n, h) = [n EXCEPT ![h] = @ + 1]
        BY <1>2 DEF Plus, Handle
    <2>2. PICK g : g = [n EXCEPT ![h] = @ + 1]
        OBVIOUS
    <2>3. g \in [Nat -> Nat] /\ g[h] = n[h] + 1 /\ \A a \in Nat : a # h => g[a] = n[a]
        BY <2>1, <2>2, OneMore
    <2> QED  BY <2>1, <2>2, <2>3
<1> QED  BY <1>1, <1>2

\* The counts after one less.
LEMMA MinusValue ==
    ASSUME Null \notin Nat, NEW n \in [Nat -> Nat], NEW h \in Handle, h # Null => n[h] > 0
    PROVE  /\ Minus(n, h) \in [Nat -> Nat]
           /\ \A a \in Nat : Minus(n, h)[a] = IF a = h THEN n[a] - 1 ELSE n[a]
<1>1. CASE h = Null
    BY <1>1 DEF Minus
<1>2. CASE h # Null
    <2>1. h \in Nat /\ Minus(n, h) = [n EXCEPT ![h] = @ - 1] /\ n[h] > 0
        BY <1>2 DEF Minus, Handle
    <2>2. PICK g : g = [n EXCEPT ![h] = @ - 1]
        OBVIOUS
    <2>3. g \in [Nat -> Nat] /\ g[h] = n[h] - 1 /\ \A a \in Nat : a # h => g[a] = n[a]
        BY <2>1, <2>2, OneLess
    <2> QED  BY <2>1, <2>2, <2>3
<1> QED  BY <1>1, <1>2

\* And back.
LEMMA PlusBack ==
    ASSUME Null \notin Nat, NEW n \in [Nat -> Nat], NEW a \in Handle
    PROVE  (a # Null => Plus(n, a)[a] > 0) /\ Minus(Plus(n, a), a) = n
<1>1. PICK p \in [Nat -> Nat] :
          p = Plus(n, a) /\ \A i \in Nat : p[i] = IF i = a THEN n[i] + 1 ELSE n[i]
    BY PlusValue
<1>2. a # Null => p[a] > 0
    <2>1. \A i \in Nat : n[i] \in Nat /\ n[i] + 1 > 0
        OBVIOUS
    <2> QED  BY <1>1, <2>1 DEF Handle
<1>3. PICK w \in [Nat -> Nat] :
          w = Minus(p, a) /\ \A i \in Nat : w[i] = IF i = a THEN p[i] - 1 ELSE p[i]
    BY <1>2, MinusValue
<1>4. ASSUME NEW i \in Nat PROVE w[i] = n[i]
    <2>1. PICK k \in Nat : k = n[i]
        OBVIOUS
    <2>2. p[i] = IF i = a THEN k + 1 ELSE k
        BY <1>1, <2>1
    <2>3. w[i] = IF i = a THEN p[i] - 1 ELSE p[i]
        BY <1>3
    <2> QED  BY <2>1, <2>2, <2>3
<1>5. w = n
    BY <1>4
<1> QED  BY <1>1, <1>2, <1>3, <1>5

\* In whichever order.
LEMMA PlusMinus ==
    ASSUME Null \notin Nat, NEW n \in [Nat -> Nat], NEW a \in Handle, NEW b \in Handle,
           b # Null => n[b] > 0
    PROVE  /\ b # Null => Plus(n, a)[b] > 0
           /\ Minus(Plus(n, a), b) = Plus(Minus(n, b), a)
<1>1. PICK p \in [Nat -> Nat] :
          p = Plus(n, a) /\ \A i \in Nat : p[i] = IF i = a THEN n[i] + 1 ELSE n[i]
    BY PlusValue
<1>2. PICK m \in [Nat -> Nat] :
          m = Minus(n, b) /\ \A i \in Nat : m[i] = IF i = b THEN n[i] - 1 ELSE n[i]
    BY MinusValue
<1>3. \A i \in Nat : n[i] \in Nat /\ m[i] \in Nat /\ p[i] \in Nat
    BY <1>1, <1>2
<1>4. b # Null => p[b] > 0
    BY <1>1, <1>3 DEF Handle
<1>5. PICK u \in [Nat -> Nat] :
          u = Minus(p, b) /\ \A i \in Nat : u[i] = IF i = b THEN p[i] - 1 ELSE p[i]
    BY <1>1, <1>4, MinusValue, SMTT(60)
<1>6. PICK v \in [Nat -> Nat] :
          v = Plus(m, a) /\ \A i \in Nat : v[i] = IF i = a THEN m[i] + 1 ELSE m[i]
    BY <1>2, PlusValue, SMTT(60)
<1>7. ASSUME NEW i \in Nat PROVE u[i] = v[i]
    <2>1. PICK k \in Nat : k = n[i]
        BY <1>3
    <2>2. p[i] = (IF i = a THEN k + 1 ELSE k) /\ m[i] = (IF i = b THEN k - 1 ELSE k)
        BY <1>1, <1>2, <2>1
    <2>3. /\ u[i] = IF i = b THEN p[i] - 1 ELSE p[i]
          /\ v[i] = IF i = a THEN m[i] + 1 ELSE m[i]
        BY <1>5, <1>6
    <2> QED  BY <2>2, <2>3
<1>8. u = v
    BY <1>7
<1> QED  BY <1>1, <1>2, <1>4, <1>5, <1>6, <1>8

\* A reader has one thing in the place of another.
LEMMA Replace ==
    ASSUME IsFiniteSet(Readers), Null \notin Nat, NEW F, NEW G, NEW r \in Readers,
           F[r] \in Handle, G[r] \in Handle, \A s \in Readers : s # r => G[s] = F[s]
    PROVE  /\ F[r] # Null => Holding(F)[F[r]] > 0
           /\ Holding(G) = Plus(Minus(Holding(F), F[r]), G[r])
<1>1. PICK K : K = [s \in Readers |-> IF s = r THEN Null ELSE F[s]]
    OBVIOUS
<1>2. K[r] = Null /\ \A s \in Readers : s # r => K[s] = F[s] /\ G[s] = K[s]
    BY <1>1
<1>3. (F[r] # Null => Holding(F)[F[r]] > 0) /\ Holding(K) = Minus(Holding(F), F[r])
    <2>1. CASE F[r] = Null
        <3>1. \A s \in Readers : K[s] = F[s]
            BY <1>2, <2>1
        <3> QED  BY <2>1, <3>1, Same DEF Minus
    <2>2. CASE F[r] # Null
        <3>1. PICK e \in Nat : e = F[r]
            BY <2>2 DEF Handle
        <3>2. Holding(F)[e] > 0 /\ Holding(K) = [Holding(F) EXCEPT ![e] = @ - 1]
            BY <1>2, <3>1, Give
        <3> QED  BY <2>2, <3>1, <3>2 DEF Minus
    <2> QED  BY <2>1, <2>2
<1>4. Holding(G) = Plus(Holding(K), G[r])
    <2>1. CASE G[r] = Null
        <3>1. \A s \in Readers : G[s] = K[s]
            BY <1>2, <2>1
        <3> QED  BY <2>1, <3>1, Same DEF Plus
    <2>2. CASE G[r] # Null
        <3>1. PICK e \in Nat : e = G[r]
            BY <2>2 DEF Handle
        <3>2. Holding(G) = Incremented(Holding(K), e)
            BY <1>2, <3>1, Take
        <3> QED  BY <2>2, <3>1, <3>2 DEF Plus, Incremented
    <2> QED  BY <2>1, <2>2
<1> QED  BY <1>3, <1>4

\* A data iterator is deleted.
LEMMA DropSound ==
    ASSUME Null \notin Nat, NEW c, NEW n, Sound(c, n, Null), NEW h \in Handle,
           h # Null => n[h] > 0, NEW d, d = Drop(c, h)
    PROVE  Sound(d, Minus(n, h), Null) /\ Kept(c, d)
<1>1. CASE h = Null
    BY <1>1 DEF Drop, Minus, Kept
<1>2. CASE h # Null
    <2>1. h \in DOMAIN c.handles /\ n[h] > 0
        BY <1>2 DEF Sound, Counted, Handle
    <2>2. d = Cache!Unref(c, h)
        BY <1>2 DEF Drop, Cache!Release
    <2>3. Sound(d, [n EXCEPT ![h] = @ - 1], Null) /\ Kept(c, d)
        BY <2>1, <2>2, UnrefSound
    <2> QED  BY <1>2, <2>3 DEF Minus
<1> QED  BY <1>1, <1>2

(***************************************************************************)
(* What a reader does by itself.                                           *)
(***************************************************************************)
IsReader(x) ==
    x = [pc |-> x.pc, op |-> x.op, file |-> x.file, target |-> x.target, table |-> x.table,
         index |-> x.index, block |-> x.block, data |-> x.data, handle |-> x.handle,
         bad |-> x.bad, saved |-> x.saved, pos |-> x.pos, want |-> x.want]

\* It keeps its table, and its block or none.
Moves(x, y) ==
    /\ IsReader(y) /\ y.table = x.table /\ y.file = x.file
    /\ y.handle = Null \/ (y.handle = x.handle /\ y.block = x.block)

\* SetDataIterator(nullptr) gives the block up and keeps the table.
LEMMA NoBlockMoves ==
    ASSUME NEW x, IsReader(x)
    PROVE  Moves(x, NoBlock(x)) /\ NoBlock(x).pc = "idle" /\ NoBlock(x).handle = Null
<1>1. PICK b : b = ~Ok(x)
    OBVIOUS
<1>2. NoBlock(x) = [pc |-> "idle", op |-> x.op, file |-> x.file, target |-> x.target,
                    table |-> x.table, index |-> x.index, block |-> Null, data |-> Null,
                    handle |-> Null, bad |-> FALSE, saved |-> b, pos |-> x.pos, want |-> x.want]
    <2>1. NoBlock(x) = [x EXCEPT !.pc = "idle", !.saved = b, !.block = Null, !.data = Null,
                                 !.handle = Null, !.bad = FALSE]
        BY <1>1 DEF NoBlock
    <2> QED  BY <2>1, ZenonT(60) DEF IsReader
<1> QED  BY <1>2 DEF Moves, IsReader

\* So does InitDataBlock, or it keeps both.
LEMMA AwaitMoves ==
    ASSUME NEW x, IsReader(x)
    PROVE  Moves(x, Await(x)) /\ Await(x).pc \in {"idle", "lookup"}
<1>1. CASE IndexValid(x)
    <2>1. Await(x) = [pc |-> "lookup", op |-> x.op, file |-> x.file, target |-> x.target,
                      table |-> x.table, index |-> x.index, block |-> x.block, data |-> x.data,
                      handle |-> x.handle, bad |-> x.bad, saved |-> x.saved, pos |-> x.pos,
                      want |-> x.want]
        BY <1>1 DEF Await, IsReader
    <2> QED  BY <2>1 DEF Moves, IsReader
<1>2. CASE ~IndexValid(x)
    BY <1>2, NoBlockMoves DEF Await
<1> QED  BY <1>1, <1>2

\* And the loop over empty blocks.
LEMMA SkipMoves ==
    ASSUME NEW x, IsReader(x)
    PROVE  Moves(x, Skip(x)) /\ Skip(x).pc \in {"idle", "lookup"}
<1>1. CASE DataValid(x)
    <2>1. Skip(x) = [pc |-> "idle", op |-> x.op, file |-> x.file, target |-> x.target,
                     table |-> x.table, index |-> x.index, block |-> x.block, data |-> x.data,
                     handle |-> x.handle, bad |-> x.bad, saved |-> x.saved, pos |-> x.pos,
                     want |-> x.want]
        BY <1>1 DEF Skip, IsReader
    <2> QED  BY <2>1 DEF Moves, IsReader
<1>2. CASE ~DataValid(x) /\ ~IndexValid(x)
    BY <1>2, NoBlockMoves DEF Skip
<1>3. CASE ~DataValid(x) /\ IndexValid(x)
    <2>1. PICK i : i = IF Forward(x) THEN ParseNextKey(IndexBlock(x), x.index)
                       ELSE BlockPrev(IndexBlock(x), x.index)
        OBVIOUS
    <2>2. PICK p : p = IF Forward(x) THEN "first" ELSE "last"
        OBVIOUS
    <2>3. PICK y : y = [x EXCEPT !.index = i, !.pos = p]
        OBVIOUS
    <2>4. Skip(x) = Await(y)
        BY <1>3, <2>1, <2>2, <2>3 DEF Skip, IsReader
    <2>5. y = [pc |-> x.pc, op |-> x.op, file |-> x.file, target |-> x.target,
               table |-> x.table, index |-> i, block |-> x.block, data |-> x.data,
               handle |-> x.handle, bad |-> x.bad, saved |-> x.saved, pos |-> p,
               want |-> x.want]
        BY <2>3 DEF IsReader
    <2>6. IsReader(y) /\ Moves(x, y)
        BY <2>5 DEF IsReader, Moves
    <2>7. Moves(y, Await(y)) /\ Await(y).pc \in {"idle", "lookup"}
        BY <2>6, AwaitMoves
    <2> QED  BY <2>4, <2>6, <2>7 DEF Moves
<1> QED  BY <1>1, <1>2, <1>3

\* And the beginning of a call.
LEMMA ArriveMoves ==
    ASSUME NEW x, IsReader(x)
    PROVE  Moves(x, Arrive(x)) /\ Arrive(x).pc \in {"idle", "lookup"}
<1>1. CASE IndexValid(x) /\ x.block # Null /\ x.block = Target(x)
    <2>1. PICK e : e = Enter(x, x.block)
        OBVIOUS
    <2>2. PICK y : y = IF x.bad THEN x ELSE [x EXCEPT !.data = e]
        OBVIOUS
    <2>3. Arrive(x) = Skip(y)
        BY <1>1, <2>1, <2>2 DEF Arrive
    <2>4. IsReader(y) /\ Moves(x, y)
        <3>1. CASE x.bad
            BY <2>2, <3>1 DEF Moves
        <3>2. CASE ~x.bad
            <4>1. y = [pc |-> x.pc, op |-> x.op, file |-> x.file, target |-> x.target,
                       table |-> x.table, index |-> x.index, block |-> x.block, data |-> e,
                       handle |-> x.handle, bad |-> x.bad, saved |-> x.saved, pos |-> x.pos,
                       want |-> x.want]
                BY <2>2, <3>2 DEF IsReader
            <4> QED  BY <4>1 DEF IsReader, Moves
        <3> QED  BY <3>1, <3>2
    <2>5. Moves(y, Skip(y)) /\ Skip(y).pc \in {"idle", "lookup"}
        BY <2>4, SkipMoves
    <2> QED  BY <2>3, <2>4, <2>5 DEF Moves
<1>2. CASE ~(IndexValid(x) /\ x.block # Null /\ x.block = Target(x))
    BY <1>2, AwaitMoves DEF Arrive
<1> QED  BY <1>1, <1>2

\* A reader that goes on with its table.
LEMMA WithTableMoves ==
    ASSUME NEW x, IsReader(x), NEW filter
    PROVE  /\ Moves(x, WithTable(x, filter)) /\ WithTable(x, filter).handle = x.handle
           /\ WithTable(x, filter).pc \in {"idle", "lookup", "got"}
<1>1. CASE x.op = "new"
    <2>1. PICK i : i = Invalid(IndexBlock(x))
        OBVIOUS
    <2>2. WithTable(x, filter) = [x EXCEPT !.pc = "idle", !.index = i]
        BY <1>1, <2>1 DEF WithTable
    <2>3. WithTable(x, filter) =
              [pc |-> "idle", op |-> x.op, file |-> x.file, target |-> x.target,
               table |-> x.table, index |-> i, block |-> x.block, data |-> x.data,
               handle |-> x.handle, bad |-> x.bad, saved |-> x.saved, pos |-> x.pos,
               want |-> x.want]
        BY <2>2 DEF IsReader
    <2> QED  BY <2>3 DEF Moves, IsReader
<1>2. CASE x.op # "new"
    <2>1. PICK i : i = BlockSeek(IndexBlock(x), x.target)
        OBVIOUS
    <2>2. PICK y : y = [x EXCEPT !.index = i]
        OBVIOUS
    <2>3. y = [pc |-> x.pc, op |-> x.op, file |-> x.file, target |-> x.target,
               table |-> x.table, index |-> i, block |-> x.block, data |-> x.data,
               handle |-> x.handle, bad |-> x.bad, saved |-> x.saved, pos |-> x.pos,
               want |-> x.want]
        BY <2>2 DEF IsReader
    <2>4. \E p \in {"lookup", "got"} : WithTable(x, filter) = [y EXCEPT !.pc = p]
        BY <1>2, <2>1, <2>2 DEF WithTable
    <2>5. PICK p \in {"lookup", "got"} :
              WithTable(x, filter) =
                  [pc |-> p, op |-> x.op, file |-> x.file, target |-> x.target,
                   table |-> x.table, index |-> i, block |-> x.block, data |-> x.data,
                   handle |-> x.handle, bad |-> x.bad, saved |-> x.saved, pos |-> x.pos,
                   want |-> x.want]
        BY <2>3, <2>4
    <2> QED  BY <2>5 DEF Moves, IsReader
<1> QED  BY <1>1, <1>2

\* A reader that goes on with a block: it has this block in the end, or none.
LEMMA WithBlockMoves ==
    ASSUME NEW x, IsReader(x), NEW h, NEW bad, NEW y, y = WithBlock(x, h, bad)
    PROVE  /\ IsReader(y) /\ y.table = x.table /\ y.file = x.file
           /\ y.pc \in {"idle", "lookup", "got"}
           /\ y.handle = Null \/ (y.handle = h /\ y.block = Target(x))
<1>1. PICK t : t = Target(x)
    OBVIOUS
<1>2. PICK v : v = IF bad THEN Null ELSE Enter(x, t)
    OBVIOUS
<1>3. PICK b : b = ~Ok(x)
    OBVIOUS
<1>4. PICK z : z = [x EXCEPT !.saved = b, !.block = t, !.handle = h, !.bad = bad, !.data = v]
    OBVIOUS
<1>5. z = [pc |-> x.pc, op |-> x.op, file |-> x.file, target |-> x.target,
           table |-> x.table, index |-> x.index, block |-> t, data |-> v,
           handle |-> h, bad |-> bad, saved |-> b, pos |-> x.pos, want |-> x.want]
    BY <1>4 DEF IsReader
<1>6. IsReader(z) /\ z.table = x.table /\ z.file = x.file /\ z.handle = h /\ z.block = t
    BY <1>5 DEF IsReader
<1>7. y = IF x.op = "get" THEN [z EXCEPT !.pc = "got"] ELSE Skip(z)
    BY <1>1, <1>2, <1>3, <1>4 DEF WithBlock
<1>8. CASE x.op = "get"
    <2>1. y = [pc |-> "got", op |-> x.op, file |-> x.file, target |-> x.target,
               table |-> x.table, index |-> x.index, block |-> t, data |-> v,
               handle |-> h, bad |-> bad, saved |-> b, pos |-> x.pos, want |-> x.want]
        BY <1>5, <1>7, <1>8
    <2> QED  BY <1>1, <2>1 DEF IsReader
<1>9. CASE x.op # "get"
    <2>1. Moves(z, y) /\ y.pc \in {"idle", "lookup"}
        BY <1>6, <1>7, <1>9, SkipMoves
    <2> QED  BY <1>1, <1>6, <2>1 DEF Moves
<1> QED  BY <1>8, <1>9

(***************************************************************************)
(* The invariant.                                                          *)
(***************************************************************************)
TableOf(R) == [r \in Readers |-> R[r].table]
HandleOf(R) == [r \in Readers |-> R[r].handle]

\* An open table: of a file that is there, under its number, with a cache_id.
TableEntry(v, id, del) ==
    /\ v.key = v.value.file /\ v.value.file \notin del
    /\ v.value.cache_id \in Nat /\ v.value.cache_id <= id

TableEntries(t, id, del) == \A h \in DOMAIN t.handles : TableEntry(t.handles[h], id, del)

\* No two files have had the same cache_id.
OneFile(t) ==
    \A g, h \in DOMAIN t.handles :
       t.handles[g].value.cache_id = t.handles[h].value.cache_id
          => t.handles[g].value.file = t.handles[h].value.file

\* A block, under a key that no table of another file has.
BlockEntry(v, t, id) ==
    /\ v.key = <<v.key[1], v.key[2]>> /\ v.value = <<v.value[1], v.key[2]>>
    /\ v.key[1] \in Nat /\ v.key[1] <= id
    /\ \A g \in DOMAIN t.handles :
          t.handles[g].value.cache_id = v.key[1] => t.handles[g].value.file = v.value[1]

BlockEntries(b, t, id) == \A h \in DOMAIN b.handles : BlockEntry(b.handles[h], t, id)

\* A reader holds the table and the block that it works with, and its file is not
\* deleted before it has the table.
ReaderOK(x, t, b, del) ==
    /\ IsReader(x) /\ x.table \in Handle /\ x.handle \in Handle
    /\ x.table # Null => x.table \in DOMAIN t.handles /\ t.handles[x.table].value.file = x.file
    /\ x.handle # Null => /\ x.handle \in DOMAIN b.handles
                          /\ b.handles[x.handle].value = <<x.file, x.block>>
    /\ x.table = Null => x.handle = Null
    /\ x.pc \in {"find", "open"} => x.table = Null /\ x.file \notin del
    /\ x.pc \in {"lookup", "read", "got"} => x.table # Null

CachesOK(R, t, b, id, del) ==
    /\ id \in Nat
    /\ Sound(t, Holding(TableOf(R)), Null) /\ Sound(b, Holding(HandleOf(R)), Null)
    /\ TableEntries(t, id, del) /\ OneFile(t) /\ BlockEntries(b, t, id)

InvAt(R, t, b, id, del) ==
    /\ CachesOK(R, t, b, id, del)
    /\ R = [r \in Readers |-> R[r]]
    /\ \A r \in Readers : ReaderOK(R[r], t, b, del)

HoldersInv == InvAt(rd, table_cache, block_cache, last_id, gone)

\* What is in both is the same.
Evolves(c, d) ==
    \A h \in DOMAIN c.handles : h \in DOMAIN d.handles =>
       d.handles[h].key = c.handles[h].key /\ d.handles[h].value = c.handles[h].value

\* A cache that has lost entries.
LEMMA KeptEvolves ==
    ASSUME NEW c, NEW d, Kept(c, d) PROVE Evolves(c, d)
BY DEF Kept, Evolves

\* A cache that has a new entry at a free address.
LEMMA AddedEvolves ==
    ASSUME NEW c, NEW d, NEW e, NEW key, NEW value, Added(c, d, e, key, value),
           e \notin DOMAIN c.handles
    PROVE  Evolves(c, d)
BY DEF Added, Evolves

\* What is held has not been freed.
LEMMA Held ==
    ASSUME IsFiniteSet(Readers), NEW F, NEW c, Sound(c, Holding(F), Null), NEW r \in Readers,
           F[r] \in Nat
    PROVE  F[r] \in DOMAIN c.handles
<1>1. PICK e \in Nat : e = F[r]
    OBVIOUS
<1>2. Holding(F)[e] > 0 /\ Holding(F) \in [Nat -> Nat]
    BY <1>1, HoldingType
<1>3. Holding(F)[e] # 0
    BY <1>2
<1> QED  BY <1>1, <1>3 DEF Sound, Counted

\* A step of one reader leaves the others what they hold.
LEMMA FieldsOf ==
    ASSUME NEW R, R = [s \in Readers |-> R[s]], NEW r \in Readers, NEW y,
           NEW Q, Q = [R EXCEPT ![r] = y]
    PROVE  /\ Q = [s \in Readers |-> Q[s]] /\ Q[r] = y
           /\ TableOf(Q)[r] = y.table /\ HandleOf(Q)[r] = y.handle
           /\ TableOf(R)[r] = R[r].table /\ HandleOf(R)[r] = R[r].handle
           /\ \A s \in Readers : s # r => /\ Q[s] = R[s]
                                          /\ TableOf(Q)[s] = TableOf(R)[s]
                                          /\ HandleOf(Q)[s] = HandleOf(R)[s]
           /\ y.table = R[r].table => Holding(TableOf(Q)) = Holding(TableOf(R))
           /\ y.handle = R[r].handle => Holding(HandleOf(Q)) = Holding(HandleOf(R))
<1>1. Q = [s \in Readers |-> IF s = r THEN y ELSE R[s]]
    OBVIOUS
<1>2. Q[r] = y /\ \A s \in Readers : s # r => Q[s] = R[s]
    BY <1>1
<1>3. Q = [s \in Readers |-> Q[s]]
    BY <1>1
<1>4. /\ TableOf(Q)[r] = y.table /\ HandleOf(Q)[r] = y.handle
      /\ TableOf(R)[r] = R[r].table /\ HandleOf(R)[r] = R[r].handle
      /\ \A s \in Readers : s # r => /\ TableOf(Q)[s] = TableOf(R)[s]
                                     /\ HandleOf(Q)[s] = HandleOf(R)[s]
    BY <1>2 DEF TableOf, HandleOf
<1>5. y.table = R[r].table => \A s \in Readers : TableOf(Q)[s] = TableOf(R)[s]
    BY <1>4
<1>6. y.handle = R[r].handle => \A s \in Readers : HandleOf(Q)[s] = HandleOf(R)[s]
    BY <1>4
<1>7. y.table = R[r].table => Holding(TableOf(Q)) = Holding(TableOf(R))
    BY <1>5, Same
<1>8. y.handle = R[r].handle => Holding(HandleOf(Q)) = Holding(HandleOf(R))
    BY <1>6, Same
<1> QED  BY <1>2, <1>3, <1>4, <1>7, <1>8

\* A step of one reader does not take anything away from another.
LEMMA StepAt ==
    ASSUME IsFiniteSet(Readers), Null \notin Nat,
           NEW R, NEW t, NEW b, NEW id, NEW del, InvAt(R, t, b, id, del),
           NEW r \in Readers, NEW y, NEW Q, Q = [R EXCEPT ![r] = y],
           NEW u, NEW c, NEW new, CachesOK(Q, u, c, new, del),
           Evolves(t, u), Evolves(b, c), ReaderOK(y, u, c, del)
    PROVE  InvAt(Q, u, c, new, del)
<1>1. R = [s \in Readers |-> R[s]]
    BY DEF InvAt
<1>2. /\ Q = [s \in Readers |-> Q[s]] /\ Q[r] = y
      /\ \A s \in Readers : s # r => Q[s] = R[s]
    BY <1>1, FieldsOf
<1>3. ASSUME NEW s \in Readers PROVE ReaderOK(Q[s], u, c, del)
    <2>1. CASE s = r
        BY <1>2, <2>1, SMTT(60)
    <2>2. CASE s # r
        <3>1. PICK x : x = Q[s] /\ ReaderOK(x, t, b, del)
            BY <1>2, <2>2 DEF InvAt
        <3>2. x.table # Null => x.table \in DOMAIN u.handles
            <4>1. TableOf(Q)[s] = x.table
                BY <3>1 DEF TableOf
            <4>2. PICK F : F = TableOf(Q) /\ Sound(u, Holding(F), Null)
                BY DEF CachesOK
            <4>3. F[s] \in Nat => F[s] \in DOMAIN u.handles
                BY <4>2, Held
            <4> QED  BY <3>1, <4>1, <4>2, <4>3 DEF ReaderOK, Handle
        <3>3. x.handle # Null => x.handle \in DOMAIN c.handles
            <4>1. HandleOf(Q)[s] = x.handle
                BY <3>1 DEF HandleOf
            <4>2. PICK F : F = HandleOf(Q) /\ Sound(c, Holding(F), Null)
                BY DEF CachesOK
            <4>3. F[s] \in Nat => F[s] \in DOMAIN c.handles
                BY <4>2, Held
            <4> QED  BY <3>1, <4>1, <4>2, <4>3 DEF ReaderOK, Handle
        <3>4. x.table # Null => u.handles[x.table].value.file = x.file
            BY <3>1, <3>2 DEF ReaderOK, Evolves
        <3>5. x.handle # Null => c.handles[x.handle].value = <<x.file, x.block>>
            BY <3>1, <3>3 DEF ReaderOK, Evolves
        <3> QED  BY <3>1, <3>2, <3>3, <3>4, <3>5 DEF ReaderOK
    <2> QED  BY <2>1, <2>2
<1> QED  BY <1>2, <1>3 DEF InvAt

\* Tables that are closed change nothing for what is left.
LEMMA KeptTables ==
    ASSUME NEW t, NEW u, NEW b, NEW id, NEW del, Kept(t, u),
           TableEntries(t, id, del), OneFile(t), BlockEntries(b, t, id)
    PROVE  TableEntries(u, id, del) /\ OneFile(u) /\ BlockEntries(b, u, id)
<1>1. \A h \in DOMAIN u.handles : /\ h \in DOMAIN t.handles /\ u.handles[h].key = t.handles[h].key
                                  /\ u.handles[h].value = t.handles[h].value
    BY DEF Kept
<1>2. TableEntries(u, id, del)
    BY <1>1 DEF TableEntries, TableEntry
<1>3. OneFile(u)
    BY <1>1 DEF OneFile
<1>4. ASSUME NEW h \in DOMAIN b.handles PROVE BlockEntry(b.handles[h], u, id)
    <2>1. PICK v : v = b.handles[h] /\ BlockEntry(v, t, id)
        BY DEF BlockEntries
    <2> QED  BY <1>1, <2>1 DEF BlockEntry
<1> QED  BY <1>2, <1>3, <1>4 DEF BlockEntries

\* Blocks that are freed change nothing for what is left.
LEMMA KeptBlocks ==
    ASSUME NEW t, NEW b, NEW c, NEW id, Kept(b, c), BlockEntries(b, t, id)
    PROVE  BlockEntries(c, t, id)
<1>1. ASSUME NEW h \in DOMAIN c.handles PROVE BlockEntry(c.handles[h], t, id)
    <2>1. PICK v : v = c.handles[h]
        OBVIOUS
    <2>2. PICK w : w = b.handles[h] /\ BlockEntry(w, t, id) /\ v.key = w.key /\ v.value = w.value
        BY <2>1 DEF BlockEntries, Kept
    <2> QED  BY <2>1, <2>2 DEF BlockEntry
<1> QED  BY <1>1 DEF BlockEntries

(***************************************************************************)
(* The steps.                                                              *)
(***************************************************************************)
\* The invariant holds at the beginning.
LEMMA InvInit == Init => HoldersInv
<1> SUFFICES ASSUME Init PROVE HoldersInv
    OBVIOUS
<1>1. Null \notin Nat /\ IsFiniteSet(Readers)
    BY TableReaderAssumption
<1>2. ASSUME NEW r \in Readers
      PROVE  rd[r] = Idle /\ TableOf(rd)[r] = Null /\ HandleOf(rd)[r] = Null
    BY DEF Init, TableOf, HandleOf, Idle
<1>3. ASSUME NEW F, \A r \in Readers : F[r] = Null, NEW capacity, NEW c,
             c = Cache!NewCache(capacity)
      PROVE  Sound(c, Holding(F), Null) /\ DOMAIN c.handles = {}
    <2>1. /\ IsCache(c) /\ c.handles = <<>> /\ c.table = <<>> /\ c.lru = <<>> /\ c.in_use = {}
        BY <1>3 DEF Cache!NewCache, IsCache
    <2>2. DOMAIN c.handles = {} /\ DOMAIN c.table = {}
        BY <2>1
    <2>3. Shaped(c)
        <3>1. IsFcn(c.handles) /\ IsFcn(c.table)
            BY <2>1 DEF IsFcn
        <3>2. c.lru \in Seq(Nat) /\ Distinct(c.lru)
            BY <2>1 DEF Distinct
        <3> QED  BY <2>1, <2>2, <3>1, <3>2, FS_EmptySet DEF Shaped
    <2>4. \A h \in Nat : Holding(F)[h] = 0
        <3>1. \A h \in Nat : Holders(F, h) = {}
            BY <1>1, <1>3 DEF Holders
        <3> QED  BY <3>1, FS_EmptySet DEF Holding
    <2>5. Counted(c, Holding(F))
        <3>1. Holding(F) \in [Nat -> Nat]
            BY <1>1, HoldingType
        <3> QED  BY <2>2, <2>4, <3>1 DEF Counted
    <2>6. CachedIn(c) = {}
        BY <2>2 DEF CachedIn
    <2>7. Listed(c, Holding(F))
        BY <2>1, <2>6 DEF Listed, ToSet
    <2>8. Keyed(c, Null)
        BY <2>2, <2>6 DEF Keyed
    <2> QED  BY <2>2, <2>3, <2>5, <2>7, <2>8 DEF Sound
<1>4. Sound(table_cache, Holding(TableOf(rd)), Null) /\ DOMAIN table_cache.handles = {}
    <2>1. PICK F : F = TableOf(rd) /\ \A r \in Readers : F[r] = Null
        BY <1>2
    <2> QED  BY <1>3, <2>1 DEF Init
<1>5. Sound(block_cache, Holding(HandleOf(rd)), Null) /\ DOMAIN block_cache.handles = {}
    <2>1. PICK F : F = HandleOf(rd) /\ \A r \in Readers : F[r] = Null
        BY <1>2
    <2> QED  BY <1>3, <2>1 DEF Init
<1>6. CachesOK(rd, table_cache, block_cache, last_id, gone)
    BY <1>4, <1>5 DEF CachesOK, Init, TableEntries, OneFile, BlockEntries
<1>7. rd = [r \in Readers |-> rd[r]]
    BY DEF Init
<1>8. \A r \in Readers : ReaderOK(rd[r], table_cache, block_cache, gone)
    BY <1>2 DEF ReaderOK, Idle, IsReader, Handle
<1> QED  BY <1>6, <1>7, <1>8 DEF HoldersInv, InvAt

\* A step that leaves the caches alone.
LEMMA QuietStep ==
    ASSUME HoldersInv, NEW r \in Readers, NEW y, rd' = [rd EXCEPT ![r] = y],
           y.table = rd[r].table, y.handle = rd[r].handle,
           ReaderOK(y, table_cache, block_cache, gone),
           UNCHANGED <<table_cache, block_cache, last_id, gone>>
    PROVE  HoldersInv'
<1>1. InvAt(rd, table_cache, block_cache, last_id, gone)
    BY DEF HoldersInv
<1>2. PICK Q : Q = rd' /\ Q = [rd EXCEPT ![r] = y]
    OBVIOUS
<1>3. rd = [s \in Readers |-> rd[s]]
    BY <1>1 DEF InvAt
<1>4. /\ Holding(TableOf(Q)) = Holding(TableOf(rd))
      /\ Holding(HandleOf(Q)) = Holding(HandleOf(rd))
    BY <1>2, <1>3, FieldsOf
<1>5. CachesOK(Q, table_cache, block_cache, last_id, gone)
    BY <1>1, <1>4 DEF InvAt, CachesOK
<1>6. Evolves(table_cache, table_cache) /\ Evolves(block_cache, block_cache)
    BY DEF Evolves
<1>7. InvAt(Q, table_cache, block_cache, last_id, gone)
    BY <1>1, <1>2, <1>5, <1>6, StepAt, TableReaderAssumption
<1> QED  BY <1>2, <1>7 DEF HoldersInv

\* Get and NewIterator (TableCache) begin.
LEMMA InvBegin ==
    ASSUME HoldersInv, NEW r \in Readers, NEW f,
           NewIterator(r, f) \/ \E t \in Targets : Get(r, f, t)
    PROVE  HoldersInv'
<1>1. PICK z : z = Idle /\ IsReader(z) /\ z.table = Null /\ z.handle = Null
    <2>1. PICK z : z = Idle
        OBVIOUS
    <2>2. IsReader(z) /\ z.table = Null /\ z.handle = Null
        BY <2>1 DEF Idle, IsReader
    <2> QED  BY <2>1, <2>2
<1>2. PICK x : IsReader(x) /\ x.file = f /\ x.table = Null /\ x.handle = Null /\ Begin(r, x)
    <2>1. CASE NewIterator(r, f)
        <3>1. PICK x : x = [z EXCEPT !.op = "new", !.file = f] /\ Begin(r, x)
            BY <1>1, <2>1 DEF NewIterator
        <3>2. x = [pc |-> z.pc, op |-> "new", file |-> f, target |-> z.target,
                   table |-> z.table, index |-> z.index, block |-> z.block, data |-> z.data,
                   handle |-> z.handle, bad |-> z.bad, saved |-> z.saved, pos |-> z.pos,
                   want |-> z.want]
            BY <1>1, <3>1 DEF IsReader
        <3> QED  BY <1>1, <3>1, <3>2 DEF IsReader
    <2>2. CASE \E t \in Targets : Get(r, f, t)
        <3>1. PICK t \in Targets : Get(r, f, t)
            BY <2>2
        <3>2. PICK w : w = Expected(f, t)
            OBVIOUS
        <3>3. PICK x : /\ x = [z EXCEPT !.op = "get", !.file = f, !.target = t, !.want = w]
                       /\ Begin(r, x)
            BY <1>1, <3>1, <3>2 DEF Get
        <3>4. x = [pc |-> z.pc, op |-> "get", file |-> f, target |-> t,
                   table |-> z.table, index |-> z.index, block |-> z.block, data |-> z.data,
                   handle |-> z.handle, bad |-> z.bad, saved |-> z.saved, pos |-> z.pos,
                   want |-> w]
            BY <1>1, <3>3 DEF IsReader
        <3> QED  BY <1>1, <3>3, <3>4 DEF IsReader
    <2> QED  BY <2>1, <2>2
<1>3. PICK y : y = [x EXCEPT !.pc = "find"]
    OBVIOUS
<1>4. IsReader(y) /\ y.pc = "find" /\ y.file = f /\ y.table = Null /\ y.handle = Null
    <2>1. y = [pc |-> "find", op |-> x.op, file |-> x.file, target |-> x.target,
               table |-> x.table, index |-> x.index, block |-> x.block, data |-> x.data,
               handle |-> x.handle, bad |-> x.bad, saved |-> x.saved, pos |-> x.pos,
               want |-> x.want]
        BY <1>2, <1>3 DEF IsReader
    <2> QED  BY <1>2, <2>1 DEF IsReader
<1>5. /\ rd[r] = Idle /\ f \notin gone /\ rd' = [rd EXCEPT ![r] = y]
      /\ UNCHANGED <<table_cache, block_cache, last_id, gone>>
    BY <1>2, <1>3 DEF Begin
<1>6. y.table = rd[r].table /\ y.handle = rd[r].handle
    BY <1>4, <1>5 DEF Idle
<1>7. ReaderOK(y, table_cache, block_cache, gone)
    BY <1>4, <1>5 DEF ReaderOK, Handle
<1> QED  BY <1>5, <1>6, <1>7, QuietStep

\* Table::Open fails.
LEMMA InvOpenFails ==
    ASSUME HoldersInv, NEW r \in Readers, OpenFails(r)
    PROVE  HoldersInv'
<1>1. PICK x : x = rd[r] /\ x.pc = "open" /\ ReaderOK(x, table_cache, block_cache, gone)
    BY DEF OpenFails, HoldersInv, InvAt
<1>2. x.table = Null /\ x.handle = Null
    BY <1>1 DEF ReaderOK
<1>3. PICK y : y = Idle
    OBVIOUS
<1>4. y.table = rd[r].table /\ y.handle = rd[r].handle
    BY <1>1, <1>2, <1>3 DEF Idle
<1>5. ReaderOK(y, table_cache, block_cache, gone)
    BY <1>3 DEF ReaderOK, Idle, IsReader, Handle
<1>6. rd' = [rd EXCEPT ![r] = y] /\ UNCHANGED <<table_cache, block_cache, last_id, gone>>
    BY <1>3 DEF OpenFails
<1> QED  BY <1>4, <1>5, <1>6, QuietStep

\* A reader gets its table.
GetsTable(x, t, b, u, del, e) ==
    /\ ReaderOK(x, t, b, del) /\ x.table = Null
    /\ e \in DOMAIN u.handles /\ u.handles[e].value.file = x.file

\* With which it goes on.
LEMMA WithTableOK ==
    ASSUME Null \notin Nat, NEW x, NEW t, NEW b, NEW u, NEW del, NEW e \in Nat,
           GetsTable(x, t, b, u, del, e), NEW filter
    PROVE  /\ ReaderOK(WithTable([x EXCEPT !.table = e], filter), u, b, del)
           /\ WithTable([x EXCEPT !.table = e], filter).table = e
           /\ WithTable([x EXCEPT !.table = e], filter).handle = x.handle
<1>1. PICK z : z = [x EXCEPT !.table = e]
    OBVIOUS
<1>2. z = [pc |-> x.pc, op |-> x.op, file |-> x.file, target |-> x.target, table |-> e,
           index |-> x.index, block |-> x.block, data |-> x.data, handle |-> x.handle,
           bad |-> x.bad, saved |-> x.saved, pos |-> x.pos, want |-> x.want]
    BY <1>1 DEF GetsTable, ReaderOK, IsReader
<1>3. IsReader(z) /\ z.table = e /\ z.file = x.file /\ z.handle = x.handle
    BY <1>2 DEF IsReader
<1>4. PICK y : y = WithTable(z, filter)
    OBVIOUS
<1>5. Moves(z, y) /\ y.handle = z.handle /\ y.pc \in {"idle", "lookup", "got"}
    BY <1>3, <1>4, WithTableMoves
<1>6. x.handle = Null
    BY DEF GetsTable, ReaderOK
<1>7. ReaderOK(y, u, b, del) /\ y.table = e /\ y.handle = x.handle
    BY <1>3, <1>5, <1>6 DEF GetsTable, Moves, ReaderOK, Handle
<1> QED  BY <1>1, <1>4, <1>7

\* TableCache::FindTable looks for the open table.
LEMMA InvFindTable ==
    ASSUME HoldersInv, NEW r \in Readers, FindTable(r)
    PROVE  HoldersInv'
<1>1. Null \notin Nat /\ IsFiniteSet(Readers)
    BY TableReaderAssumption
<1>2. InvAt(rd, table_cache, block_cache, last_id, gone)
    BY DEF HoldersInv
<1>3. PICK x : x = rd[r] /\ ReaderOK(x, table_cache, block_cache, gone)
    BY <1>2 DEF InvAt
<1>4. PICK found : found = Cache!Lookup(table_cache, x.file)
    OBVIOUS
<1>4a. PICK filter : filter = found.cache.handles[found.handle].value.filter
    OBVIOUS
<1>5. /\ x.pc = "find" /\ table_cache' = found.cache
      /\ rd' = [rd EXCEPT ![r] = IF found.handle = Null THEN [x EXCEPT !.pc = "open"]
                                 ELSE WithTable([x EXCEPT !.table = found.handle], filter)]
      /\ UNCHANGED <<block_cache, last_id, gone>>
    BY <1>3, <1>4, <1>4a DEF FindTable
<1>6. PICK n : n = Holding(TableOf(rd)) /\ Sound(table_cache, n, Null)
    BY <1>2 DEF InvAt, CachesOK
<1>7. /\ found.handle = Null => found.cache = table_cache
      /\ found.handle # Null =>
            /\ found.handle \in CachedIn(table_cache) /\ found.handle \in Nat
            /\ table_cache.handles[found.handle].key = x.file
            /\ Sound(found.cache, [n EXCEPT ![found.handle] = @ + 1], Null)
            /\ Kept(table_cache, found.cache)
    BY <1>1, <1>4, <1>6, LookupSound
<1>8. x.table = Null /\ x.handle = Null /\ x.file \notin gone
    BY <1>3, <1>5 DEF ReaderOK
<1>9. CASE found.handle = Null
    <2>1. PICK y : y = [x EXCEPT !.pc = "open"]
        OBVIOUS
    <2>2. y = [pc |-> "open", op |-> x.op, file |-> x.file, target |-> x.target,
               table |-> x.table, index |-> x.index, block |-> x.block, data |-> x.data,
               handle |-> x.handle, bad |-> x.bad, saved |-> x.saved, pos |-> x.pos,
               want |-> x.want]
        BY <1>3, <2>1 DEF ReaderOK, IsReader
    <2>3. ReaderOK(y, table_cache, block_cache, gone)
        BY <1>8, <2>2 DEF ReaderOK, IsReader, Handle
    <2>4. y.table = rd[r].table /\ y.handle = rd[r].handle
        BY <1>3, <2>2
    <2>5. rd' = [rd EXCEPT ![r] = y] /\ UNCHANGED <<table_cache, block_cache, last_id, gone>>
        BY <1>5, <1>7, <1>9, <2>1
    <2> QED  BY <2>3, <2>4, <2>5, QuietStep
<1>10. CASE found.handle # Null
    <2>1. PICK e \in Nat : e = found.handle
        BY <1>7, <1>10
    <2>2. PICK u : u = table_cache' /\ u = found.cache
        BY <1>5
    <2>3. PICK m : m = [n EXCEPT ![e] = @ + 1]
        OBVIOUS
    <2>4. /\ Sound(u, m, Null) /\ Kept(table_cache, u) /\ e \in DOMAIN table_cache.handles
          /\ table_cache.handles[e].key = x.file
        BY <1>7, <1>10, <2>1, <2>2, <2>3 DEF CachedIn
    <2>16. PICK z : z = [x EXCEPT !.table = e]
        OBVIOUS
    <2>5. PICK y : y = WithTable(z, filter)
        OBVIOUS
    <2>6. PICK Q : Q = rd' /\ Q = [rd EXCEPT ![r] = y]
        BY <1>5, <1>10, <2>1, <2>5, <2>16
    <2>7. e \in DOMAIN u.handles /\ u.handles[e].value.file = x.file
        <3>1. m[e] > 0
            BY <1>1, <1>6, <2>3, HoldingType, OneMore
        <3>2. e \in DOMAIN u.handles
            BY <2>4, <3>1 DEF Sound, Counted
        <3>3. TableEntry(table_cache.handles[e], last_id, gone)
            BY <1>2, <2>4 DEF InvAt, CachesOK, TableEntries
        <3> QED  BY <2>4, <3>2, <3>3 DEF Kept, TableEntry
    <2>8. ReaderOK(y, u, block_cache, gone) /\ y.table = e /\ y.handle = x.handle
        <3>1. GetsTable(x, table_cache, block_cache, u, gone, e)
            BY <1>3, <1>8, <2>7 DEF GetsTable
        <3>2. /\ ReaderOK(WithTable([x EXCEPT !.table = e], filter), u, block_cache, gone)
              /\ WithTable([x EXCEPT !.table = e], filter).table = e
              /\ WithTable([x EXCEPT !.table = e], filter).handle = x.handle
            BY <1>1, <3>1, WithTableOK
        <3> QED  BY <2>5, <2>16, <3>2
    <2>9. rd = [s \in Readers |-> rd[s]]
        BY <1>2 DEF InvAt
    <2>10. /\ TableOf(Q)[r] = e /\ TableOf(rd)[r] = Null
           /\ \A s \in Readers : s # r => TableOf(Q)[s] = TableOf(rd)[s]
           /\ Holding(HandleOf(Q)) = Holding(HandleOf(rd))
        <3>1. /\ TableOf(Q)[r] = y.table /\ TableOf(rd)[r] = rd[r].table
              /\ \A s \in Readers : s # r => TableOf(Q)[s] = TableOf(rd)[s]
              /\ y.handle = rd[r].handle => Holding(HandleOf(Q)) = Holding(HandleOf(rd))
            BY <2>6, <2>9, FieldsOf
        <3> QED  BY <1>3, <1>8, <2>8, <3>1
    <2>11. Holding(TableOf(Q)) = m
        <3>1. Holding(TableOf(Q)) = Incremented(Holding(TableOf(rd)), e)
            BY <1>1, <2>2, <2>10, Take
        <3> QED  BY <1>6, <2>3, <3>1 DEF Incremented
    <2>12. TableEntries(u, last_id, gone) /\ OneFile(u) /\ BlockEntries(block_cache, u, last_id)
        BY <1>2, <2>4, KeptTables DEF InvAt, CachesOK
    <2>13. CachesOK(Q, u, block_cache, last_id, gone)
        BY <1>2, <2>4, <2>10, <2>11, <2>12 DEF InvAt, CachesOK
    <2>14. Evolves(table_cache, u) /\ Evolves(block_cache, block_cache)
        BY <2>4, KeptEvolves DEF Evolves
    <2>15. InvAt(Q, u, block_cache, last_id, gone)
        BY <1>1, <1>2, <2>6, <2>8, <2>13, <2>14, StepAt
    <2> QED  BY <1>5, <2>2, <2>6, <2>15 DEF HoldersInv
<1> QED  BY <1>9, <1>10

\* And inserts it when it was not there.
LEMMA InvOpenTable ==
    ASSUME HoldersInv, NEW r \in Readers, OpenTable(r)
    PROVE  HoldersInv'
<1>1. Null \notin Nat /\ IsFiniteSet(Readers)
    BY TableReaderAssumption
<1>2. InvAt(rd, table_cache, block_cache, last_id, gone)
    BY DEF HoldersInv
<1>3. PICK x : x = rd[r] /\ ReaderOK(x, table_cache, block_cache, gone)
    BY <1>2 DEF InvAt
<1>4. PICK id \in Nat : id = last_id + 1 /\ id > last_id /\ last_id \in Nat
    BY <1>2 DEF InvAt, CachesOK
<1>4a. PICK filter \in ReadMeta :
          LET w == [file |-> x.file, cache_id |-> id, filter |-> filter]
              ins == Cache!Insert(table_cache, x.file, w, 1)
          IN  /\ table_cache' = ins.cache
              /\ rd' = [rd EXCEPT ![r] = WithTable([x EXCEPT !.table = ins.handle], filter)]
    BY <1>3, <1>4 DEF OpenTable
<1>5. PICK v : v = [file |-> x.file, cache_id |-> id, filter |-> filter]
    OBVIOUS
<1>6. PICK new : new = Cache!Insert(table_cache, x.file, v, 1)
    OBVIOUS
<1>7. /\ x.pc = "open" /\ table_cache' = new.cache /\ last_id' = id
      /\ rd' = [rd EXCEPT ![r] = WithTable([x EXCEPT !.table = new.handle], filter)]
      /\ UNCHANGED <<block_cache, gone>>
    BY <1>3, <1>4, <1>4a, <1>5, <1>6 DEF OpenTable
<1>8. PICK n : n = Holding(TableOf(rd)) /\ Sound(table_cache, n, Null)
    BY <1>2 DEF InvAt, CachesOK
<1>9. PICK e, u, m :
          /\ e \in Nat /\ e = new.handle /\ u = new.cache /\ m = [n EXCEPT ![e] = @ + 1]
          /\ e \notin DOMAIN table_cache.handles
          /\ Sound(u, m, Null) /\ Added(table_cache, u, e, x.file, v)
    <2>1. /\ new.handle \in Nat /\ new.handle \notin DOMAIN table_cache.handles
          /\ Sound(new.cache, [n EXCEPT ![new.handle] = @ + 1], Null)
          /\ Added(table_cache, new.cache, new.handle, x.file, v)
        <3>1. PICK one : one = 1
            OBVIOUS
        <3>2. new = Cache!Insert(table_cache, x.file, v, one)
            BY <1>6, <3>1
        <3> QED  BY <1>1, <1>8, <3>2, InsertSound
    <2> QED  BY <2>1
<1>10. x.table = Null /\ x.handle = Null /\ x.file \notin gone
    BY <1>3, <1>7 DEF ReaderOK
<1>11. PICK z : z = [x EXCEPT !.table = e]
    OBVIOUS
<1>12. PICK y : y = WithTable(z, filter)
    OBVIOUS
<1>13. PICK Q : Q = rd' /\ Q = [rd EXCEPT ![r] = y]
    BY <1>7, <1>9, <1>11, <1>12
<1>14. e \in DOMAIN u.handles /\ u.handles[e].value = v /\ u.handles[e].key = x.file
    <2>1. m[e] > 0
        BY <1>1, <1>8, <1>9, HoldingType, OneMore
    <2>2. e \in DOMAIN u.handles
        BY <1>9, <2>1 DEF Sound, Counted
    <2> QED  BY <1>9, <2>2 DEF Added
<1>15. ReaderOK(y, u, block_cache, gone) /\ y.table = e /\ y.handle = x.handle
    <2>1. GetsTable(x, table_cache, block_cache, u, gone, e) /\ e \in Nat
        BY <1>3, <1>5, <1>9, <1>10, <1>14 DEF GetsTable
    <2>2. /\ ReaderOK(WithTable([x EXCEPT !.table = e], filter), u, block_cache, gone)
          /\ WithTable([x EXCEPT !.table = e], filter).table = e
          /\ WithTable([x EXCEPT !.table = e], filter).handle = x.handle
        BY <1>1, <2>1, WithTableOK
    <2> QED  BY <1>11, <1>12, <2>2
<1>16. rd = [s \in Readers |-> rd[s]]
    BY <1>2 DEF InvAt
<1>17. /\ TableOf(Q)[r] = e /\ TableOf(rd)[r] = Null
       /\ \A s \in Readers : s # r => TableOf(Q)[s] = TableOf(rd)[s]
       /\ Holding(HandleOf(Q)) = Holding(HandleOf(rd))
    <2>1. /\ TableOf(Q)[r] = y.table /\ TableOf(rd)[r] = rd[r].table
          /\ \A s \in Readers : s # r => TableOf(Q)[s] = TableOf(rd)[s]
          /\ y.handle = rd[r].handle => Holding(HandleOf(Q)) = Holding(HandleOf(rd))
        BY <1>13, <1>16, FieldsOf
    <2> QED  BY <1>3, <1>10, <1>15, <2>1
<1>18. Holding(TableOf(Q)) = m
    <2>1. Holding(TableOf(Q)) = Incremented(Holding(TableOf(rd)), e)
        BY <1>1, <1>9, <1>17, Take
    <2> QED  BY <1>8, <1>9, <2>1 DEF Incremented
<1>19. \A h \in DOMAIN u.handles : h # e =>
           /\ h \in DOMAIN table_cache.handles
           /\ u.handles[h].key = table_cache.handles[h].key
           /\ u.handles[h].value = table_cache.handles[h].value
    BY <1>9 DEF Added
<1>20. v.file = x.file /\ v.cache_id = id
    BY <1>5
<1>21. \A k \in Nat : k <= last_id => k <= id /\ k # id
    BY <1>4
<1>22. ASSUME NEW h \in DOMAIN u.handles
       PROVE  /\ TableEntry(u.handles[h], id, gone)
              /\ h # e => u.handles[h].value.cache_id # id
    <2>1. CASE h = e
        <3>1. id <= id
            BY <1>4
        <3> QED  BY <1>10, <1>14, <1>20, <2>1, <3>1 DEF TableEntry
    <2>2. CASE h # e
        <3>1. PICK w : w = table_cache.handles[h] /\ TableEntry(w, last_id, gone)
            BY <1>2, <1>19, <1>22, <2>2 DEF InvAt, CachesOK, TableEntries
        <3>2. PICK w2 : w2 = u.handles[h] /\ w2.key = w.key /\ w2.value = w.value
            BY <1>19, <1>22, <2>2, <3>1
        <3> QED  BY <1>21, <3>1, <3>2 DEF TableEntry
    <2> QED  BY <2>1, <2>2
<1>23. TableEntries(u, id, gone)
    BY <1>22 DEF TableEntries
<1>24. OneFile(u)
    <2> SUFFICES ASSUME NEW g \in DOMAIN u.handles, NEW h \in DOMAIN u.handles,
                        u.handles[g].value.cache_id = u.handles[h].value.cache_id
                 PROVE  u.handles[g].value.file = u.handles[h].value.file
        BY DEF OneFile
    <2>1. CASE g = e \/ h = e
        <3>1. g = h
            BY <1>14, <1>20, <1>22, <2>1
        <3> QED  BY <3>1
    <2>2. CASE g # e /\ h # e
        BY <1>2, <1>19, <2>2 DEF InvAt, CachesOK, OneFile
    <2> QED  BY <2>1, <2>2
<1>25. BlockEntries(block_cache, u, id)
    <2> SUFFICES ASSUME NEW h \in DOMAIN block_cache.handles
                 PROVE  BlockEntry(block_cache.handles[h], u, id)
        BY DEF BlockEntries
    <2>1. PICK w : w = block_cache.handles[h] /\ BlockEntry(w, table_cache, last_id)
        BY <1>2 DEF InvAt, CachesOK, BlockEntries
    <2>2. w.key[1] \in Nat /\ w.key[1] <= id /\ w.key[1] # id
        BY <1>21, <2>1 DEF BlockEntry
    <2>3. ASSUME NEW g \in DOMAIN u.handles, u.handles[g].value.cache_id = w.key[1]
          PROVE  u.handles[g].value.file = w.value[1]
        <3>1. g # e
            BY <1>14, <1>20, <2>2, <2>3
        <3> QED  BY <1>19, <2>1, <2>3, <3>1 DEF BlockEntry
    <2> QED  BY <2>1, <2>2, <2>3 DEF BlockEntry
<1>26. CachesOK(Q, u, block_cache, id, gone)
    BY <1>2, <1>4, <1>9, <1>17, <1>18, <1>23, <1>24, <1>25 DEF InvAt, CachesOK
<1>27. Evolves(table_cache, u) /\ Evolves(block_cache, block_cache)
    BY <1>9, AddedEvolves DEF Evolves
<1>28. InvAt(Q, u, block_cache, id, gone)
    BY <1>1, <1>2, <1>13, <1>15, <1>26, <1>27, StepAt
<1> QED  BY <1>7, <1>9, <1>13, <1>28 DEF HoldersInv

\* The reader replaces what it holds of the blocks, as far as the block cache.
Replaces(r, c, h, y) ==
    /\ h \in Handle /\ Sound(c, Plus(Holding(HandleOf(rd)), h), Null)
    /\ BlockEntries(c, table_cache, last_id) /\ Evolves(block_cache, c)
    /\ IsReader(y) /\ y.table = rd[r].table /\ y.file = rd[r].file
    /\ y.pc \in {"idle", "lookup", "got"}
    /\ y.handle = Null \/ y.handle = h
    /\ y.handle # Null => /\ y.handle \in DOMAIN c.handles
                          /\ c.handles[y.handle].value = <<y.file, y.block>>

\* SetDataIterator, with the new block and the one before.
LEMMA InvStepWithBlock ==
    ASSUME HoldersInv, NEW r \in Readers, NEW c, NEW h, NEW y, Replaces(r, c, h, y),
           rd[r].table # Null, rd' = [rd EXCEPT ![r] = y],
           block_cache' = LET d == Drop(c, rd[r].handle)
                          IN  IF y.handle = Null THEN Drop(d, h) ELSE d,
           UNCHANGED <<table_cache, last_id, gone>>
    PROVE  HoldersInv'
<1>1. Null \notin Nat /\ IsFiniteSet(Readers)
    BY TableReaderAssumption
<1>2. InvAt(rd, table_cache, block_cache, last_id, gone)
    BY DEF HoldersInv
<1>3. PICK x : x = rd[r] /\ ReaderOK(x, table_cache, block_cache, gone)
    BY <1>2 DEF InvAt
<1>4. PICK old \in Handle : old = x.handle
    BY <1>3 DEF ReaderOK
<1>5. PICK F : F = HandleOf(rd) /\ F[r] = old
    <2>1. HandleOf(rd)[r] = rd[r].handle
        BY DEF HandleOf
    <2> QED  BY <1>3, <1>4, <2>1
<1>6. PICK n \in [Nat -> Nat] : n = Holding(F)
    BY <1>1, HoldingType
<1>7. Sound(c, Plus(n, h), Null) /\ h \in Handle
    BY <1>5, <1>6 DEF Replaces
<1>8. PICK Q : Q = rd' /\ Q = [rd EXCEPT ![r] = y]
    OBVIOUS
<1>9. rd = [s \in Readers |-> rd[s]]
    BY <1>2 DEF InvAt
<1>10. PICK G : /\ G = HandleOf(Q) /\ G[r] = y.handle
                /\ \A s \in Readers : s # r => G[s] = F[s]
                /\ Holding(TableOf(Q)) = Holding(TableOf(rd))
    <2>1. /\ HandleOf(Q)[r] = y.handle
          /\ \A s \in Readers : s # r => HandleOf(Q)[s] = HandleOf(rd)[s]
          /\ y.table = rd[r].table => Holding(TableOf(Q)) = Holding(TableOf(rd))
        BY <1>8, <1>9, FieldsOf
    <2> QED  BY <1>5, <2>1 DEF Replaces
<1>11. y.handle \in Handle
    BY DEF Replaces, Handle
<1>12. (old # Null => n[old] > 0) /\ Holding(G) = Plus(Minus(n, old), y.handle)
    <2>1. F[r] \in Handle /\ G[r] \in Handle
        BY <1>5, <1>10, <1>11
    <2>2. /\ F[r] # Null => Holding(F)[F[r]] > 0
          /\ Holding(G) = Plus(Minus(Holding(F), F[r]), G[r])
        BY <1>1, <1>10, <2>1, Replace, SMTT(60)
    <2> QED  BY <1>5, <1>6, <1>10, <2>2
<1>13. (old # Null => Plus(n, h)[old] > 0) /\ Minus(Plus(n, h), old) = Plus(Minus(n, old), h)
    BY <1>1, <1>7, <1>12, PlusMinus
<1>14. PICK d : d = Drop(c, old)
    OBVIOUS
<1>15. Sound(d, Plus(Minus(n, old), h), Null) /\ Kept(c, d)
    <2>1. PICK p : p = Plus(n, h)
        OBVIOUS
    <2>2. Sound(d, Minus(p, old), Null) /\ Kept(c, d)
        BY <1>1, <1>7, <1>13, <1>14, <2>1, DropSound
    <2> QED  BY <1>13, <2>1, <2>2
<1>16. PICK b : b = block_cache' /\ b = IF y.handle = Null THEN Drop(d, h) ELSE d
    BY <1>3, <1>4, <1>14
<1>17. Sound(b, Holding(G), Null) /\ Kept(c, b)
    <2>1. CASE y.handle # Null
        BY <1>12, <1>15, <1>16, <2>1 DEF Replaces
    <2>2. CASE y.handle = Null
        <3>1. PICK m \in [Nat -> Nat] : m = Minus(n, old)
            BY <1>1, <1>12, MinusValue
        <3>2. PICK p : p = Plus(m, h) /\ (h # Null => p[h] > 0) /\ Minus(p, h) = m
            BY <1>1, <1>7, <3>1, PlusBack
        <3>3. Sound(d, p, Null) /\ b = Drop(d, h)
            BY <1>15, <1>16, <2>2, <3>1, <3>2
        <3>4. Sound(b, Minus(p, h), Null) /\ Kept(d, b)
            BY <1>1, <1>7, <3>2, <3>3, DropSound
        <3>5. Holding(G) = m
            BY <1>12, <2>2, <3>1 DEF Plus
        <3> QED  BY <1>15, <3>2, <3>4, <3>5 DEF Kept
    <2> QED  BY <2>1, <2>2
<1>18. BlockEntries(b, table_cache, last_id)
    BY <1>17, KeptBlocks DEF Replaces
<1>19. CachesOK(Q, table_cache, b, last_id, gone)
    BY <1>2, <1>10, <1>17, <1>18 DEF InvAt, CachesOK
<1>20. Evolves(table_cache, table_cache)
    BY DEF Evolves
<1>21. Evolves(block_cache, b)
    <2>1. ASSUME NEW k \in DOMAIN block_cache.handles, k \in DOMAIN b.handles
          PROVE  /\ b.handles[k].key = block_cache.handles[k].key
                 /\ b.handles[k].value = block_cache.handles[k].value
        <3>1. /\ k \in DOMAIN c.handles /\ b.handles[k].key = c.handles[k].key
              /\ b.handles[k].value = c.handles[k].value
            BY <1>17, <2>1 DEF Kept
        <3>2. Evolves(block_cache, c)
            BY DEF Replaces
        <3> QED  BY <2>1, <3>1, <3>2 DEF Evolves
    <2> QED  BY <2>1 DEF Evolves
<1>22. ReaderOK(y, table_cache, b, gone)
    <2>1. y.handle # Null => y.handle \in DOMAIN b.handles
        <3>1. G[r] \in Nat => G[r] \in DOMAIN b.handles
            BY <1>1, <1>17, Held
        <3> QED  BY <1>10, <1>11, <3>1 DEF Handle
    <2>2. y.handle # Null => b.handles[y.handle].value = <<y.file, y.block>>
        BY <1>17, <2>1 DEF Replaces, Kept
    <2>3. /\ IsReader(y) /\ y.table = x.table /\ y.file = x.file
          /\ y.pc \in {"idle", "lookup", "got"} /\ x.table # Null
        BY <1>3 DEF Replaces
    <2> QED  BY <1>3, <1>11, <2>1, <2>2, <2>3 DEF ReaderOK
<1>23. InvAt(Q, table_cache, b, last_id, gone)
    BY <1>1, <1>2, <1>8, <1>19, <1>20, <1>21, <1>22, StepAt
<1> QED  BY <1>8, <1>16, <1>23 DEF HoldersInv

\* A block that the reader has found, read or not been able to read.
LEMMA BlockReplaces ==
    ASSUME HoldersInv, NEW r \in Readers, NEW c, NEW h \in Handle, NEW bad,
           Sound(c, Plus(Holding(HandleOf(rd)), h), Null),
           BlockEntries(c, table_cache, last_id), Evolves(block_cache, c),
           h # Null => /\ h \in DOMAIN c.handles
                       /\ c.handles[h].value = <<rd[r].file, Target(rd[r])>>,
           rd[r].table # Null, StepWithBlock(r, c, h, bad)
    PROVE  HoldersInv'
<1>1. PICK x : x = rd[r] /\ ReaderOK(x, table_cache, block_cache, gone)
    BY DEF HoldersInv, InvAt
<1>2. PICK y : y = WithBlock(x, h, bad)
    OBVIOUS
<1>3. /\ rd' = [rd EXCEPT ![r] = y]
      /\ block_cache' = LET d == Drop(c, rd[r].handle)
                        IN  IF y.handle = Null THEN Drop(d, h) ELSE d
      /\ UNCHANGED <<table_cache, last_id, gone>>
    BY <1>1, <1>2 DEF StepWithBlock
<1>4. /\ IsReader(y) /\ y.table = x.table /\ y.file = x.file
      /\ y.pc \in {"idle", "lookup", "got"}
      /\ y.handle = Null \/ (y.handle = h /\ y.block = Target(x))
    BY <1>1, <1>2, WithBlockMoves DEF ReaderOK
<1>5. Replaces(r, c, h, y)
    BY <1>1, <1>4 DEF Replaces
<1> QED  BY <1>3, <1>5, InvStepWithBlock

\* The key under which a reader looks for its block is that of its file.
LEMMA KeyOfFile ==
    ASSUME HoldersInv, NEW r \in Readers, rd[r].table # Null
    PROVE  /\ rd[r].table \in DOMAIN table_cache.handles
           /\ table_cache.handles[rd[r].table].value.file = rd[r].file
           /\ TableEntry(table_cache.handles[rd[r].table], last_id, gone)
BY DEF HoldersInv, InvAt, CachesOK, TableEntries, ReaderOK

\* Table::BlockReader looks for its block.
LEMMA InvLookupBlock ==
    ASSUME HoldersInv, NEW r \in Readers, LookupBlock(r)
    PROVE  HoldersInv'
<1>1. Null \notin Nat /\ IsFiniteSet(Readers)
    BY TableReaderAssumption
<1>2. InvAt(rd, table_cache, block_cache, last_id, gone)
    BY DEF HoldersInv
<1>3. PICK x : x = rd[r] /\ ReaderOK(x, table_cache, block_cache, gone)
    BY <1>2 DEF InvAt
<1>4. PICK key : key = CacheKey(x)
    OBVIOUS
<1>5. PICK found : found = Cache!Lookup(block_cache, key)
    OBVIOUS
<1>6. /\ x.pc = "lookup" /\ x.table # Null
      /\ IF found.handle # Null THEN StepWithBlock(r, found.cache, found.handle, FALSE)
         ELSE /\ rd' = [rd EXCEPT ![r].pc = "read"]
              /\ UNCHANGED <<fixed, gone, table_cache, block_cache, last_id, calls>>
    <2>1. x.pc = "lookup"
        BY <1>3 DEF LookupBlock
    <2>2. x.table # Null
        BY <1>3, <2>1 DEF ReaderOK
    <2>3. IF found.handle # Null THEN StepWithBlock(r, found.cache, found.handle, FALSE)
          ELSE /\ rd' = [rd EXCEPT ![r].pc = "read"]
               /\ UNCHANGED <<fixed, gone, table_cache, block_cache, last_id, calls>>
        BY <1>3, <1>4, <1>5 DEF LookupBlock
    <2> QED  BY <2>1, <2>2, <2>3
<1>7. PICK n : n = Holding(HandleOf(rd)) /\ Sound(block_cache, n, Null)
    BY <1>2 DEF InvAt, CachesOK
<1>8. found.handle # Null =>
         /\ found.handle \in CachedIn(block_cache) /\ found.handle \in Nat
         /\ block_cache.handles[found.handle].key = key
         /\ Sound(found.cache, [n EXCEPT ![found.handle] = @ + 1], Null)
         /\ Kept(block_cache, found.cache)
    BY <1>1, <1>5, <1>7, LookupSound
<1>9. CASE found.handle = Null
    <2>1. PICK y : y = [x EXCEPT !.pc = "read"]
        OBVIOUS
    <2>2. y = [pc |-> "read", op |-> x.op, file |-> x.file, target |-> x.target,
               table |-> x.table, index |-> x.index, block |-> x.block, data |-> x.data,
               handle |-> x.handle, bad |-> x.bad, saved |-> x.saved, pos |-> x.pos,
               want |-> x.want]
        BY <1>3, <2>1 DEF ReaderOK, IsReader
    <2>3. ReaderOK(y, table_cache, block_cache, gone)
        <3>1. /\ IsReader(y) /\ y.pc = "read" /\ y.table = x.table /\ y.handle = x.handle
              /\ y.file = x.file /\ y.block = x.block
            BY <2>2 DEF IsReader
        <3> QED  BY <1>3, <1>6, <3>1 DEF ReaderOK
    <2>4. y.table = rd[r].table /\ y.handle = rd[r].handle
        BY <1>3, <2>2
    <2>5. rd' = [rd EXCEPT ![r] = y]
        <3>1. rd' = [rd EXCEPT ![r] = [rd[r] EXCEPT !.pc = "read"]]
            BY <1>6, <1>9
        <3> QED  BY <1>3, <2>1, <3>1
    <2>6. UNCHANGED <<table_cache, block_cache, last_id, gone>>
        BY <1>6, <1>9
    <2> QED  BY <2>3, <2>4, <2>5, <2>6, QuietStep
<1>10. CASE found.handle # Null
    <2>1. PICK h, c : /\ h \in Nat /\ h = found.handle /\ c = found.cache
                      /\ h \in DOMAIN block_cache.handles /\ block_cache.handles[h].key = key
                      /\ Sound(c, [n EXCEPT ![h] = @ + 1], Null) /\ Kept(block_cache, c)
                      /\ StepWithBlock(r, c, h, FALSE)
        BY <1>6, <1>8, <1>10 DEF CachedIn
    <2>2. h \in Handle /\ h # Null
        BY <1>1, <2>1 DEF Handle
    <2>3. Sound(c, Plus(Holding(HandleOf(rd)), h), Null)
        BY <1>7, <2>1, <2>2 DEF Plus
    <2>4. BlockEntries(c, table_cache, last_id)
        BY <1>2, <2>1, KeptBlocks DEF InvAt, CachesOK
    <2>5. Evolves(block_cache, c)
        BY <2>1, KeptEvolves
    <2>6. h \in DOMAIN c.handles
        <3>1. [n EXCEPT ![h] = @ + 1][h] > 0
            BY <1>1, <1>7, <2>1, HoldingType, OneMore
        <3> QED  BY <2>1, <3>1 DEF Sound, Counted
    <2>7. c.handles[h].value = <<x.file, Target(x)>>
        <3>1. PICK v : v = block_cache.handles[h] /\ BlockEntry(v, table_cache, last_id)
            BY <1>2, <2>1 DEF InvAt, CachesOK, BlockEntries
        <3>2. PICK t : t = Target(x)
            OBVIOUS
        <3>3. PICK i : i = table_cache.handles[x.table].value.cache_id
            OBVIOUS
        <3>4. v.key = <<i, t>>
            BY <1>4, <2>1, <3>1, <3>2, <3>3 DEF CacheKey
        <3>5. v.key[1] = i /\ v.key[2] = t
            BY <3>4, SMTT(60)
        <3>6. v.value[1] = x.file
            BY <1>3, <1>6, <3>1, <3>3, <3>5, KeyOfFile DEF BlockEntry
        <3>7. v.value = <<x.file, t>>
            BY <3>1, <3>5, <3>6 DEF BlockEntry
        <3> QED  BY <2>1, <2>6, <3>1, <3>2, <3>7 DEF Kept
    <2> QED  BY <1>3, <1>6, <2>1, <2>2, <2>3, <2>4, <2>5, <2>6, <2>7, BlockReplaces
<1> QED  BY <1>9, <1>10

\* A block that is not from the cache.
LEMMA InvUncachedBlock ==
    ASSUME HoldersInv, NEW r \in Readers, rd[r].pc = "read", NEW bad,
           StepWithBlock(r, block_cache, Null, bad)
    PROVE  HoldersInv'
<1>1. InvAt(rd, table_cache, block_cache, last_id, gone)
    BY DEF HoldersInv
<1>2. rd[r].table # Null
    BY <1>1 DEF InvAt, ReaderOK
<1>3. Null \in Handle /\ Sound(block_cache, Plus(Holding(HandleOf(rd)), Null), Null)
    BY <1>1 DEF InvAt, CachesOK, Plus, Handle
<1>4. BlockEntries(block_cache, table_cache, last_id) /\ Evolves(block_cache, block_cache)
    BY <1>1 DEF InvAt, CachesOK, Evolves
<1> QED  BY <1>2, <1>3, <1>4, BlockReplaces

\* And inserts it when it was not there.
LEMMA InvReadBlock ==
    ASSUME HoldersInv, NEW r \in Readers, ReadBlock(r)
    PROVE  HoldersInv'
<1>1. Null \notin Nat /\ IsFiniteSet(Readers)
    BY TableReaderAssumption
<1>2. InvAt(rd, table_cache, block_cache, last_id, gone)
    BY DEF HoldersInv
<1>3. PICK x : x = rd[r] /\ x.pc = "read" /\ ReaderOK(x, table_cache, block_cache, gone)
    BY <1>2 DEF InvAt, ReadBlock
<1>4. CASE r \in Uncached
    BY <1>4, InvUncachedBlock DEF ReadBlock
<1>5. CASE r \notin Uncached
    <2>1. PICK t : t = Target(x)
        OBVIOUS
    <2>2. PICK i : i = table_cache.handles[x.table].value.cache_id
        OBVIOUS
    <2>3. PICK key : key = CacheKey(x) /\ key = <<i, t>>
        BY <2>1, <2>2 DEF CacheKey
    <2>4. PICK value : value = <<x.file, t>>
        OBVIOUS
    <2>5. PICK charge : charge = SizeEstimate(Block(x, t))
        OBVIOUS
    <2>6. PICK new : new = Cache!Insert(block_cache, key, value, charge)
        OBVIOUS
    <2>7. StepWithBlock(r, new.cache, new.handle, FALSE)
        BY <1>3, <1>5, <2>1, <2>3, <2>4, <2>5, <2>6 DEF ReadBlock
    <2>8. PICK n : n = Holding(HandleOf(rd)) /\ Sound(block_cache, n, Null)
        BY <1>2 DEF InvAt, CachesOK
    <2>9. /\ new.handle \in Nat /\ new.handle \notin DOMAIN block_cache.handles
          /\ Sound(new.cache, [n EXCEPT ![new.handle] = @ + 1], Null)
          /\ Added(block_cache, new.cache, new.handle, key, value)
        BY <1>1, <2>6, <2>8, InsertSound
    <2>10. PICK h, c : /\ h \in Nat /\ h = new.handle /\ c = new.cache
                       /\ h \notin DOMAIN block_cache.handles
                       /\ Sound(c, [n EXCEPT ![h] = @ + 1], Null)
                       /\ Added(block_cache, c, h, key, value)
                       /\ StepWithBlock(r, c, h, FALSE)
        BY <2>7, <2>9
    <2>11. h \in Handle /\ h # Null
        BY <1>1, <2>10 DEF Handle
    <2>12. Sound(c, Plus(Holding(HandleOf(rd)), h), Null)
        BY <2>8, <2>10, <2>11 DEF Plus
    <2>13. Evolves(block_cache, c)
        BY <2>10, AddedEvolves
    <2>14. h \in DOMAIN c.handles /\ c.handles[h].value = value
        <3>1. [n EXCEPT ![h] = @ + 1][h] > 0
            BY <1>1, <2>8, <2>10, HoldingType, OneMore
        <3>2. h \in DOMAIN c.handles
            BY <2>10, <3>1 DEF Sound, Counted
        <3> QED  BY <2>10, <3>2 DEF Added
    <2>15. x.table # Null
        BY <1>3 DEF ReaderOK
    <2>16. /\ x.table \in DOMAIN table_cache.handles
           /\ table_cache.handles[x.table].value.file = x.file
           /\ TableEntry(table_cache.handles[x.table], last_id, gone)
        BY <1>3, <2>15, KeyOfFile
    <2>17. BlockEntries(c, table_cache, last_id)
        <3> SUFFICES ASSUME NEW a \in DOMAIN c.handles
                     PROVE  BlockEntry(c.handles[a], table_cache, last_id)
            BY DEF BlockEntries
        <3>1. CASE a = h
            <4>1. PICK v : v = c.handles[a] /\ v.key = key /\ v.value = value
                BY <2>10, <3>1 DEF Added
            <4>2. v.key[1] = i /\ v.key[2] = t /\ v.value[1] = x.file /\ v.key = <<i, t>>
                  /\ v.value = <<x.file, t>>
                BY <2>3, <2>4, <4>1
            <4>3. i \in Nat /\ i <= last_id
                BY <2>2, <2>16 DEF TableEntry
            <4>4. \A g \in DOMAIN table_cache.handles :
                      table_cache.handles[g].value.cache_id = i
                         => table_cache.handles[g].value.file = x.file
                BY <1>2, <2>2, <2>16 DEF InvAt, CachesOK, OneFile
            <4> QED  BY <4>1, <4>2, <4>3, <4>4 DEF BlockEntry
        <3>2. CASE a # h
            <4>1. PICK v, w : /\ v = c.handles[a] /\ w = block_cache.handles[a]
                              /\ a \in DOMAIN block_cache.handles
                              /\ v.key = w.key /\ v.value = w.value
                BY <2>10, <3>2 DEF Added
            <4>2. BlockEntry(w, table_cache, last_id)
                BY <1>2, <4>1 DEF InvAt, CachesOK, BlockEntries
            <4> QED  BY <4>1, <4>2 DEF BlockEntry
        <3> QED  BY <3>1, <3>2
    <2>18. h # Null => /\ h \in DOMAIN c.handles
                       /\ c.handles[h].value = <<rd[r].file, Target(rd[r])>>
        BY <1>3, <2>1, <2>4, <2>14
    <2> QED  BY <1>3, <2>10, <2>11, <2>12, <2>13, <2>15, <2>17, <2>18, BlockReplaces
<1> QED  BY <1>4, <1>5

\* The block cannot be read.
LEMMA InvReadFails ==
    ASSUME HoldersInv, NEW r \in Readers, ReadFails(r)
    PROVE  HoldersInv'
BY InvUncachedBlock DEF ReadFails

\* A call of an iterator, which keeps its block or gives it up.
LEMMA InvCall ==
    ASSUME HoldersInv, NEW r \in Readers, NEW y, Call(r, y), Moves(rd[r], y),
           y.pc \in {"idle", "lookup"}
    PROVE  HoldersInv'
<1>1. InvAt(rd, table_cache, block_cache, last_id, gone)
    BY DEF HoldersInv
<1>2. PICK x : x = rd[r] /\ x.table # Null /\ ReaderOK(x, table_cache, block_cache, gone)
    BY <1>1 DEF InvAt, Call, Usable
<1>3. rd' = [rd EXCEPT ![r] = y] /\ UNCHANGED <<table_cache, last_id, gone>>
    BY DEF Call
<1>4. CASE y.handle # Null
    <2>1. IsReader(y) /\ y.table = x.table /\ y.file = x.file /\ y.handle = x.handle /\ y.block = x.block
        BY <1>2, <1>4 DEF Moves
    <2>2. ReaderOK(y, table_cache, block_cache, gone)
        BY <1>2, <2>1 DEF ReaderOK
    <2>3. UNCHANGED <<table_cache, block_cache, last_id, gone>>
        BY <1>4 DEF Call
    <2> QED  BY <1>2, <1>3, <2>1, <2>2, <2>3, QuietStep
<1>5. CASE y.handle = Null
    <2>1. block_cache' = LET d == Drop(block_cache, rd[r].handle)
                         IN  IF y.handle = Null THEN Drop(d, Null) ELSE d
        BY <1>5 DEF Call, Drop
    <2>2. Replaces(r, block_cache, Null, y)
        <3>1. Null \in Handle /\ Sound(block_cache, Plus(Holding(HandleOf(rd)), Null), Null)
            BY <1>1 DEF InvAt, CachesOK, Plus, Handle
        <3>2. BlockEntries(block_cache, table_cache, last_id) /\ Evolves(block_cache, block_cache)
            BY <1>1 DEF InvAt, CachesOK, Evolves
        <3> QED  BY <1>5, <3>1, <3>2 DEF Replaces, Moves
    <2>3. rd[r].table # Null
        BY <1>2
    <2> QED  BY <1>3, <2>1, <2>2, <2>3, InvStepWithBlock
<1> QED  BY <1>4, <1>5

\* What the calls change before they look for a block.
Prepared(x, op, pos, target, index, data, want) ==
    [pc |-> x.pc, op |-> op, file |-> x.file, target |-> target, table |-> x.table,
     index |-> index, block |-> x.block, data |-> data, handle |-> x.handle, bad |-> x.bad,
     saved |-> x.saved, pos |-> pos, want |-> want]

\* A call that goes to another place.
LEMMA InvArrive ==
    ASSUME HoldersInv, NEW r \in Readers, NEW z, IsReader(z), Moves(rd[r], z), Call(r, Arrive(z))
    PROVE  HoldersInv'
<1>1. PICK y : y = Arrive(z)
    OBVIOUS
<1>2. Moves(z, y) /\ y.pc \in {"idle", "lookup"}
    BY <1>1, ArriveMoves
<1>3. Moves(rd[r], y)
    BY <1>2 DEF Moves
<1> QED  BY <1>1, <1>2, <1>3, InvCall

\* A call that goes on in its block.
LEMMA InvSkip ==
    ASSUME HoldersInv, NEW r \in Readers, NEW z, IsReader(z), Moves(rd[r], z), Call(r, Skip(z))
    PROVE  HoldersInv'
<1>1. PICK y : y = Skip(z)
    OBVIOUS
<1>2. Moves(z, y) /\ y.pc \in {"idle", "lookup"}
    BY <1>1, SkipMoves
<1>3. Moves(rd[r], y)
    BY <1>2 DEF Moves
<1> QED  BY <1>1, <1>2, <1>3, InvCall

\* Seek.
LEMMA InvSeek ==
    ASSUME HoldersInv, NEW r \in Readers, NEW t, Seek(r, t)
    PROVE  HoldersInv'
<1>1. PICK x : x = rd[r] /\ IsReader(x)
    BY DEF HoldersInv, InvAt, ReaderOK
<1>2. PICK i : i = BlockSeek(IndexBlock(x), t)
    OBVIOUS
<1>3. PICK w : w = FirstOf({e \in scene.files[x.file] : ~Before(e, t)})
    OBVIOUS
<1>4. PICK z : z = [x EXCEPT !.op = "seek", !.pos = "seek", !.target = t, !.index = i, !.want = w]
    OBVIOUS
<1>5. Call(r, Arrive(z))
    BY <1>1, <1>2, <1>3, <1>4 DEF Seek
<1>6. z = Prepared(x, "seek", "seek", t, i, x.data, w)
    BY <1>1, <1>4 DEF IsReader, Prepared
<1>7. IsReader(z) /\ Moves(x, z)
    BY <1>6 DEF Prepared, IsReader, Moves
<1> QED  BY <1>1, <1>5, <1>7, InvArrive

\* SeekToFirst.
LEMMA InvSeekToFirst ==
    ASSUME HoldersInv, NEW r \in Readers, SeekToFirst(r)
    PROVE  HoldersInv'
<1>1. PICK x : x = rd[r] /\ IsReader(x)
    BY DEF HoldersInv, InvAt, ReaderOK
<1>2. PICK i : i = BlockSeekToFirst(IndexBlock(x))
    OBVIOUS
<1>3. PICK w : w = FirstOf(scene.files[x.file])
    OBVIOUS
<1>4. PICK z : z = [x EXCEPT !.op = "first", !.pos = "first", !.index = i, !.want = w]
    OBVIOUS
<1>5. Call(r, Arrive(z))
    BY <1>1, <1>2, <1>3, <1>4 DEF SeekToFirst
<1>6. z = Prepared(x, "first", "first", x.target, i, x.data, w)
    BY <1>1, <1>4 DEF IsReader, Prepared
<1>7. IsReader(z) /\ Moves(x, z)
    BY <1>6 DEF Prepared, IsReader, Moves
<1> QED  BY <1>1, <1>5, <1>7, InvArrive

\* SeekToLast.
LEMMA InvSeekToLast ==
    ASSUME HoldersInv, NEW r \in Readers, SeekToLast(r)
    PROVE  HoldersInv'
<1>1. PICK x : x = rd[r] /\ IsReader(x)
    BY DEF HoldersInv, InvAt, ReaderOK
<1>2. PICK i : i = BlockSeekToLast(IndexBlock(x))
    OBVIOUS
<1>3. PICK w : w = LastOf(scene.files[x.file])
    OBVIOUS
<1>4. PICK z : z = [x EXCEPT !.op = "last", !.pos = "last", !.index = i, !.want = w]
    OBVIOUS
<1>5. Call(r, Arrive(z))
    BY <1>1, <1>2, <1>3, <1>4 DEF SeekToLast
<1>6. z = Prepared(x, "last", "last", x.target, i, x.data, w)
    BY <1>1, <1>4 DEF IsReader, Prepared
<1>7. IsReader(z) /\ Moves(x, z)
    BY <1>6 DEF Prepared, IsReader, Moves
<1> QED  BY <1>1, <1>5, <1>7, InvArrive

\* Next.
LEMMA InvIterNext ==
    ASSUME HoldersInv, NEW r \in Readers, IterNext(r)
    PROVE  HoldersInv'
<1>1. PICK x : x = rd[r] /\ IsReader(x)
    BY DEF HoldersInv, InvAt, ReaderOK
<1>2. PICK d : d = ParseNextKey(Block(x, x.block), x.data)
    OBVIOUS
<1>3. PICK w : w = FirstOf({e \in scene.files[x.file] : Before(KeyAt(x), e)})
    OBVIOUS
<1>4. PICK z : z = [x EXCEPT !.op = "next", !.data = d, !.want = w]
    OBVIOUS
<1>5. Call(r, Skip(z))
    <2>1. [x EXCEPT !.op = "next", !.data = ParseNextKey(Block(x, x.block), @), !.want = w] = z
        BY <1>1, <1>2, <1>4 DEF IsReader
    <2> QED  BY <1>1, <1>3, <2>1 DEF IterNext
<1>6. z = Prepared(x, "next", x.pos, x.target, x.index, d, w)
    BY <1>1, <1>4 DEF IsReader, Prepared
<1>7. IsReader(z) /\ Moves(x, z)
    BY <1>6 DEF Prepared, IsReader, Moves
<1> QED  BY <1>1, <1>5, <1>7, InvSkip

\* Prev.
LEMMA InvIterPrev ==
    ASSUME HoldersInv, NEW r \in Readers, IterPrev(r)
    PROVE  HoldersInv'
<1>1. PICK x : x = rd[r] /\ IsReader(x)
    BY DEF HoldersInv, InvAt, ReaderOK
<1>2. PICK d : d = BlockPrev(Block(x, x.block), x.data)
    OBVIOUS
<1>3. PICK w : w = LastOf({e \in scene.files[x.file] : Before(e, KeyAt(x))})
    OBVIOUS
<1>4. PICK z : z = [x EXCEPT !.op = "prev", !.data = d, !.want = w]
    OBVIOUS
<1>5. Call(r, Skip(z))
    <2>1. [x EXCEPT !.op = "prev", !.data = BlockPrev(Block(x, x.block), @), !.want = w] = z
        BY <1>1, <1>2, <1>4 DEF IsReader
    <2> QED  BY <1>1, <1>3, <2>1 DEF IterPrev
<1>6. z = Prepared(x, "prev", x.pos, x.target, x.index, d, w)
    BY <1>1, <1>4 DEF IsReader, Prepared
<1>7. IsReader(z) /\ Moves(x, z)
    BY <1>6 DEF Prepared, IsReader, Moves
<1> QED  BY <1>1, <1>5, <1>7, InvSkip

\* A reader gives up its table and its block.
LEMMA InvGiveUp ==
    ASSUME HoldersInv, NEW r \in Readers, rd[r].table # Null, rd' = [rd EXCEPT ![r] = Idle],
           block_cache' = Drop(block_cache, rd[r].handle),
           table_cache' = Cache!Release(table_cache, rd[r].table),
           UNCHANGED <<last_id, gone>>
    PROVE  HoldersInv'
<1>1. Null \notin Nat /\ IsFiniteSet(Readers)
    BY TableReaderAssumption
<1>2. InvAt(rd, table_cache, block_cache, last_id, gone)
    BY DEF HoldersInv
<1>3. PICK x : x = rd[r] /\ ReaderOK(x, table_cache, block_cache, gone)
    BY <1>2 DEF InvAt
<1>4. PICK old \in Handle : old = x.handle
    BY <1>3 DEF ReaderOK
<1>5. PICK e \in Handle : e = x.table /\ e # Null
    BY <1>3 DEF ReaderOK
<1>6. PICK y : y = Idle
    OBVIOUS
<1>7. y.table = Null /\ y.handle = Null
    BY <1>6 DEF Idle
<1>8. PICK Q : Q = rd' /\ Q = [rd EXCEPT ![r] = y]
    BY <1>6
<1>9. rd = [s \in Readers |-> rd[s]]
    BY <1>2 DEF InvAt
<1>10. /\ TableOf(Q)[r] = Null /\ HandleOf(Q)[r] = Null
       /\ TableOf(rd)[r] = e /\ HandleOf(rd)[r] = old
       /\ \A s \in Readers : s # r => /\ TableOf(Q)[s] = TableOf(rd)[s]
                                      /\ HandleOf(Q)[s] = HandleOf(rd)[s]
    <2>1. /\ TableOf(Q)[r] = y.table /\ HandleOf(Q)[r] = y.handle
          /\ TableOf(rd)[r] = rd[r].table /\ HandleOf(rd)[r] = rd[r].handle
          /\ \A s \in Readers : s # r => /\ TableOf(Q)[s] = TableOf(rd)[s]
                                         /\ HandleOf(Q)[s] = HandleOf(rd)[s]
        BY <1>8, <1>9, FieldsOf
    <2> QED  BY <1>3, <1>4, <1>5, <1>7, <2>1
<1>11. ASSUME NEW F, NEW G, NEW h \in Handle, F[r] = h, G[r] = Null,
              \A s \in Readers : s # r => G[s] = F[s],
              NEW c, NEW d, Sound(c, Holding(F), Null), d = Drop(c, h)
       PROVE  Sound(d, Holding(G), Null) /\ Kept(c, d)
    <2>1. F[r] \in Handle /\ G[r] \in Handle
        BY <1>11 DEF Handle
    <2>2. /\ F[r] # Null => Holding(F)[F[r]] > 0
          /\ Holding(G) = Plus(Minus(Holding(F), F[r]), G[r])
        BY <1>1, <1>11, <2>1, Replace
    <2>3. PICK n : n = Holding(F) /\ (h # Null => n[h] > 0) /\ Holding(G) = Minus(n, h)
        BY <1>11, <2>2 DEF Plus
    <2>4. Sound(d, Minus(n, h), Null) /\ Kept(c, d)
        BY <1>1, <1>11, <2>3, DropSound
    <2> QED  BY <2>3, <2>4
<1>12. PICK u : u = table_cache' /\ u = Drop(table_cache, e)
    BY <1>3, <1>5 DEF Drop
<1>13. PICK b : b = block_cache' /\ b = Drop(block_cache, old)
    BY <1>3, <1>4
<1>14. Sound(u, Holding(TableOf(Q)), Null) /\ Kept(table_cache, u)
    <2>1. PICK F, G : F = TableOf(rd) /\ G = TableOf(Q)
        OBVIOUS
    <2>2. F[r] = e /\ G[r] = Null /\ \A s \in Readers : s # r => G[s] = F[s]
        BY <1>10, <2>1
    <2>3. Sound(table_cache, Holding(F), Null)
        BY <1>2, <2>1 DEF InvAt, CachesOK
    <2> QED  BY <1>11, <1>12, <2>1, <2>2, <2>3
<1>15. Sound(b, Holding(HandleOf(Q)), Null) /\ Kept(block_cache, b)
    <2>1. PICK F, G : F = HandleOf(rd) /\ G = HandleOf(Q)
        OBVIOUS
    <2>2. F[r] = old /\ G[r] = Null /\ \A s \in Readers : s # r => G[s] = F[s]
        BY <1>10, <2>1
    <2>3. Sound(block_cache, Holding(F), Null)
        BY <1>2, <2>1 DEF InvAt, CachesOK
    <2> QED  BY <1>11, <1>13, <2>1, <2>2, <2>3
<1>16. TableEntries(u, last_id, gone) /\ OneFile(u) /\ BlockEntries(block_cache, u, last_id)
    BY <1>2, <1>14, KeptTables DEF InvAt, CachesOK
<1>17. BlockEntries(b, u, last_id)
    BY <1>15, <1>16, KeptBlocks
<1>18. CachesOK(Q, u, b, last_id, gone)
    BY <1>2, <1>14, <1>15, <1>16, <1>17 DEF InvAt, CachesOK
<1>19. Evolves(table_cache, u) /\ Evolves(block_cache, b)
    BY <1>14, <1>15, KeptEvolves
<1>20. ReaderOK(y, u, b, gone)
    BY <1>6 DEF ReaderOK, Idle, IsReader, Handle
<1>21. InvAt(Q, u, b, last_id, gone)
    BY <1>1, <1>2, <1>8, <1>18, <1>19, <1>20, StepAt
<1> QED  BY <1>8, <1>12, <1>13, <1>21 DEF HoldersInv

\* The end of a Get.
LEMMA InvReturn ==
    ASSUME HoldersInv, NEW r \in Readers, Return(r)
    PROVE  HoldersInv'
<1>1. rd[r].table # Null
    BY DEF HoldersInv, InvAt, ReaderOK, Return
<1> QED  BY <1>1, InvGiveUp DEF Return

\* The iterator is deleted.
LEMMA InvDeleteIterator ==
    ASSUME HoldersInv, NEW r \in Readers, DeleteIterator(r)
    PROVE  HoldersInv'
BY InvGiveUp DEF DeleteIterator, Usable

\* A file is deleted: nobody holds its table, so that the erased entry is freed.
LEMMA InvEvict ==
    ASSUME HoldersInv, NEW f, Evict(f)
    PROVE  HoldersInv'
<1>1. Null \notin Nat /\ IsFiniteSet(Readers)
    BY TableReaderAssumption
<1>2. InvAt(rd, table_cache, block_cache, last_id, gone)
    BY DEF HoldersInv
<1>3. /\ \A r \in Readers : rd[r].file # f
      /\ gone' = gone \cup {f} /\ UNCHANGED <<block_cache, last_id, rd>>
    BY DEF Evict
<1>4. PICK u : u = table_cache' /\ u = Cache!RemoveKey(table_cache, f)
    BY DEF Evict, Cache!Erase
<1>5. PICK F : F = TableOf(rd) /\ Sound(table_cache, Holding(F), Null)
    BY <1>2 DEF InvAt, CachesOK
<1>6. PICK n : n = Holding(F)
    OBVIOUS
<1>7. Sound(u, n, Null) /\ Kept(table_cache, u) /\ f \notin DOMAIN u.table
    BY <1>1, <1>4, <1>5, <1>6, RemoveKeySound
<1>8. TableEntries(u, last_id, gone) /\ OneFile(u) /\ BlockEntries(block_cache, u, last_id)
    BY <1>2, <1>7, KeptTables DEF InvAt, CachesOK
<1>9. \A h \in DOMAIN u.handles : u.handles[h].value.file # f
    <2> SUFFICES ASSUME NEW h \in DOMAIN u.handles, u.handles[h].value.file = f PROVE FALSE
        OBVIOUS
    <2>1. u.handles[h].key = f
        BY <1>8 DEF TableEntries, TableEntry
    <2>2. h \in Nat /\ h # Null /\ h \in DOMAIN table_cache.handles
          /\ table_cache.handles[h].value.file = f
        BY <1>1, <1>7 DEF Sound, Shaped, Kept
    <2>3. ~u.handles[h].in_cache
        BY <1>7, <2>1, <2>2 DEF Sound, Keyed, CachedIn
    <2>4. n[h] > 0 /\ n[h] \in Nat
        BY <1>7, <2>2, <2>3 DEF Sound, Counted
    <2>5. Cardinality(Holders(F, h)) # 0
        BY <1>1, <1>6, <2>2, <2>4, HoldingType
    <2>6. Holders(F, h) # {}
        BY <2>5, FS_EmptySet
    <2>7. PICK r \in Readers : F[r] = h
        BY <2>6 DEF Holders
    <2>8. rd[r].table = h
        BY <1>5, <2>7 DEF TableOf
    <2>9. rd[r].file = f
        BY <1>2, <2>2, <2>8 DEF InvAt, ReaderOK
    <2> QED  BY <1>3, <2>9
<1>10. PICK del : del = gone' /\ del = gone \cup {f}
    BY <1>3
<1>11. TableEntries(u, last_id, del)
    BY <1>8, <1>9, <1>10 DEF TableEntries, TableEntry
<1>12. CachesOK(rd, u, block_cache, last_id, del)
    BY <1>2, <1>5, <1>6, <1>7, <1>8, <1>11 DEF InvAt, CachesOK
<1>13. ASSUME NEW r \in Readers PROVE ReaderOK(rd[r], u, block_cache, del)
    <2>1. PICK x : x = rd[r] /\ x.file # f /\ ReaderOK(x, table_cache, block_cache, gone)
        BY <1>2, <1>3 DEF InvAt
    <2>2. x.table # Null => x.table \in DOMAIN u.handles
        <3>1. F[r] = x.table
            BY <1>5, <2>1 DEF TableOf
        <3>2. Sound(u, Holding(F), Null)
            BY <1>6, <1>7
        <3>3. F[r] \in Nat => F[r] \in DOMAIN u.handles
            BY <1>1, <3>2, Held
        <3> QED  BY <2>1, <3>1, <3>3 DEF ReaderOK, Handle
    <2>3. x.table # Null => u.handles[x.table].value.file = x.file
        BY <1>7, <2>1, <2>2 DEF Kept, ReaderOK
    <2>4. x.file \notin gone => x.file \notin del
        BY <1>10, <2>1
    <2>5. ReaderOK(x, u, block_cache, del)
        BY <2>1, <2>2, <2>3, <2>4 DEF ReaderOK
    <2> QED  BY <2>1, <2>5
<1>14. InvAt(rd, u, block_cache, last_id, del)
    BY <1>2, <1>12, <1>13 DEF InvAt
<1> QED  BY <1>3, <1>4, <1>10, <1>14 DEF HoldersInv

\* Every step keeps the invariant.
LEMMA InvNext == HoldersInv /\ [Next]_vars => HoldersInv'
<1> SUFFICES ASSUME HoldersInv, [Next]_vars PROVE HoldersInv'
    OBVIOUS
<1>1. ASSUME NEW r \in Readers, NEW f \in DOMAIN tables,
             NewIterator(r, f) \/ \E t \in Targets : Get(r, f, t)
      PROVE  HoldersInv'
    BY <1>1, InvBegin
<1>2. ASSUME NEW r \in Readers, FindTable(r) \/ OpenTable(r) \/ OpenFails(r) PROVE HoldersInv'
    BY <1>2, InvFindTable, InvOpenTable, InvOpenFails
<1>3. ASSUME NEW r \in Readers, LookupBlock(r) \/ ReadBlock(r) \/ ReadFails(r) \/ Return(r)
      PROVE  HoldersInv'
    BY <1>3, InvLookupBlock, InvReadBlock, InvReadFails, InvReturn
<1>4. ASSUME NEW r \in Readers, NEW t \in Targets, Seek(r, t) PROVE HoldersInv'
    BY <1>4, InvSeek
<1>5. ASSUME NEW r \in Readers, SeekToFirst(r) \/ SeekToLast(r) \/ IterNext(r) \/ IterPrev(r)
      PROVE  HoldersInv'
    BY <1>5, InvSeekToFirst, InvSeekToLast, InvIterNext, InvIterPrev
<1>6. ASSUME NEW r \in Readers, DeleteIterator(r) PROVE HoldersInv'
    BY <1>6, InvDeleteIterator
<1>7. ASSUME NEW f \in DOMAIN tables, Evict(f) PROVE HoldersInv'
    BY <1>7, InvEvict
<1>8. CASE UNCHANGED vars
    BY <1>8 DEF vars, HoldersInv
<1> QED  BY <1>1, <1>2, <1>3, <1>4, <1>5, <1>6, <1>7, <1>8 DEF Next

\* The invariant says what the properties say.
LEMMA SoundLists ==
    ASSUME Null \notin Nat, NEW c, NEW n, Sound(c, n, Null)
    PROVE  ListsAgree(c)
<1>1. CachedIn(c) \subseteq Nat
    BY DEF Sound, Shaped, CachedIn
<1>2. CachedIn(c) = {c.table[k] : k \in DOMAIN c.table}
    BY <1>1 DEF Sound, Keyed
<1>3. \A h \in CachedIn(c) : n[h] = 0 \/ n[h] > 0
    BY <1>1 DEF Sound, Counted
<1>4. CachedIn(c) = ToSet(c.lru) \cup c.in_use
    BY <1>3 DEF Sound, Listed
<1>5. ASSUME NEW i \in DOMAIN c.lru PROVE c.handles[c.lru[i]].refs = 1
    <2>1. PICK h : h = c.lru[i] /\ h \in ToSet(c.lru)
        BY DEF ToSet
    <2>2. h \in CachedIn(c) /\ n[h] = 0
        BY <2>1 DEF Sound, Listed
    <2> QED  BY <2>1, <2>2 DEF Sound, Counted, CachedIn
<1> QED  BY <1>2, <1>4, <1>5 DEF ListsAgree

\* And of the holders.
LEMMA InvRefs == HoldersInv => RefsAreHolders
<1> SUFFICES ASSUME HoldersInv PROVE RefsAreHolders
    OBVIOUS
<1>1. Null \notin Nat /\ IsFiniteSet(Readers)
    BY TableReaderAssumption
<1>2. /\ Sound(table_cache, Holding(TableOf(rd)), Null)
      /\ Sound(block_cache, Holding(HandleOf(rd)), Null)
      /\ \A r \in Readers : ReaderOK(rd[r], table_cache, block_cache, gone)
    BY DEF HoldersInv, InvAt, CachesOK
<1>3. ListsAgree(table_cache) /\ ListsAgree(block_cache)
    BY <1>1, <1>2, SoundLists
<1>4. ASSUME NEW h \in DOMAIN table_cache.handles
      PROVE  table_cache.handles[h].refs = Cardinality({r \in Readers : rd[r].table = h})
                                           + (IF table_cache.handles[h].in_cache THEN 1 ELSE 0)
    <2>1. h \in Nat
        BY <1>2 DEF Sound, Shaped
    <2>2. {r \in Readers : rd[r].table = h} = Holders(TableOf(rd), h)
        BY DEF Holders, TableOf
    <2>3. Holding(TableOf(rd))[h] = Cardinality(Holders(TableOf(rd), h))
        BY <2>1 DEF Holding
    <2> QED  BY <1>2, <2>2, <2>3 DEF Sound, Counted
<1>5. ASSUME NEW h \in DOMAIN block_cache.handles
      PROVE  block_cache.handles[h].refs = Cardinality({r \in Readers : rd[r].handle = h})
                                           + (IF block_cache.handles[h].in_cache THEN 1 ELSE 0)
    <2>1. h \in Nat
        BY <1>2 DEF Sound, Shaped
    <2>2. {r \in Readers : rd[r].handle = h} = Holders(HandleOf(rd), h)
        BY DEF Holders, HandleOf
    <2>3. Holding(HandleOf(rd))[h] = Cardinality(Holders(HandleOf(rd), h))
        BY <2>1 DEF Holding
    <2> QED  BY <1>2, <2>2, <2>3 DEF Sound, Counted
<1>6. ASSUME NEW r \in Readers
      PROVE  /\ rd[r].table # Null => /\ rd[r].table \in DOMAIN table_cache.handles
                                      /\ table_cache.handles[rd[r].table].value.file = rd[r].file
             /\ rd[r].handle # Null =>
                   /\ rd[r].handle \in DOMAIN block_cache.handles
                   /\ block_cache.handles[rd[r].handle].value = <<rd[r].file, rd[r].block>>
    BY <1>2 DEF ReaderOK
<1> QED  BY <1>3, <1>4, <1>5, <1>6 DEF RefsAreHolders

\* And of the files.
LEMMA InvClosed == HoldersInv => DeletedFilesAreClosed
BY DEF HoldersInv, InvAt, CachesOK, TableEntries, TableEntry, DeletedFilesAreClosed

\* The invariant holds.
LEMMA Invariance == Spec => []HoldersInv
<1>1. Init => HoldersInv
    BY InvInit
<1>2. HoldersInv /\ [Next]_vars => HoldersInv'
    BY InvNext
<1> QED  BY <1>1, <1>2, PTL DEF Spec

\* Ref, Unref, Insert and FinishErase of cache.cc count right whatever the readers
\* do, the capacities are and the files contain: an entry has one reference for
\* every reader that holds it and one for the cache, what is held is not freed or
\* replaced, and what is not in the cache and not held is freed.
THEOREM RefsCorrect == Spec => []RefsAreHolders
<1>1. HoldersInv => RefsAreHolders
    BY InvRefs
<1> QED  BY <1>1, Invariance, PTL

\* TableCache::Evict closes the file that DeleteObsoleteFiles deletes, and no reader
\* opens it again.
THEOREM ClosedCorrect == Spec => []DeletedFilesAreClosed
<1>1. HoldersInv => DeletedFilesAreClosed
    BY InvClosed
<1> QED  BY <1>1, Invariance, PTL
=============================================================================
