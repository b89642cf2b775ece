----------------------------- MODULE SyncTreeProofs -----------------------------
(***************************************************************************)
(* Facts about the layering of writes over data, used by the proofs about  *)
(* the modules that are built on SyncTree.                                 *)
(***************************************************************************)
EXTENDS SyncTree, Integers, TLAPS, SequenceTheorems, WellFoundedInduction

\* A set of positions that is not empty has a last one, and Latest finds it.
LEMMA LatestIsLast ==
    ASSUME NEW n \in Nat, NEW I \in SUBSET (1 .. n), I # {}
    PROVE  Latest(I) \in I /\ \A j \in I : j <= Latest(I)
<1> DEFINE Left == {m \in Nat : n - m \in I}
<1>1. Left \subseteq Nat /\ Left # {}
    <2>1. PICK i \in I : TRUE
        OBVIOUS
    <2>2. n - i \in Nat /\ n - (n - i) = i
        OBVIOUS
    <2>3. n - i \in Left
        BY <2>1, <2>2
    <2> QED  BY <2>3
<1>2. PICK x \in Left : \A y \in Left : ~(<<y, x>> \in OpToRel(<, Nat))
    <2> HIDE DEF Left
    <2> QED  BY <1>1, NatLessThanWellFounded, WFMin
<1>3. \A y \in Left : ~(y < x)
    BY <1>1, <1>2 DEF OpToRel
<1>4. n - x \in I
    OBVIOUS
<1>5. ASSUME NEW j \in I PROVE j <= n - x
    <2>1. n - j \in Nat /\ n - (n - j) = j
        OBVIOUS
    <2>2. n - j \in Left
        BY <2>1
    <2>3. ~(n - j < x)
        BY <2>2, <1>3
    <2> QED  BY <2>3
<1> QED
    BY <1>4, <1>5 DEF Latest

\* What a layer shows is the data's or one of the writes laid over it.
LEMMA LayerRange ==
    ASSUME NEW S, NEW ws \in Seq(S), NEW d
    PROVE  /\ DOMAIN Layer(d, ws) = DOMAIN d
           /\ \A k \in DOMAIN d : Layer(d, ws)[k] = d[k] \/ Layer(d, ws)[k] \in In(ws)
<1>1. \A k : Setting(ws, k) \in SUBSET (1 .. Len(ws))
    BY DEF Setting
<1>2. ASSUME NEW k \in DOMAIN d, Setting(ws, k) # {}
      PROVE  Latest(Setting(ws, k)) \in DOMAIN ws
    <2>1. Latest(Setting(ws, k)) \in Setting(ws, k)
        BY <1>1, <1>2, LatestIsLast, LenProperties
    <2> QED  BY <2>1 DEF Setting
<1> QED
    BY <1>2 DEF Layer, In

\* The server's data of a location, as of a prefix of its log.
LEMMA DataAtRange ==
    ASSUME NEW log \in Seq(Writes), NEW n \in 0 .. Len(log), NEW l
    PROVE  /\ DOMAIN DataAt(log, n, l) = KeysIn(l)
           /\ \A k \in KeysIn(l) : DataAt(log, n, l)[k] \in In(log) \cup {NoWrite}
<1>1. SubSeq(log, 1, n) \in Seq(Writes)
    BY SubSeqProperties
<1>2. In(SubSeq(log, 1, n)) \subseteq In(log)
    <2>1. /\ Len(SubSeq(log, 1, n)) = n
          /\ \A i \in 1 .. n : SubSeq(log, 1, n)[i] = log[i]
        BY SubSeqProperties
    <2> QED  BY <2>1, <1>1 DEF In
<1>3. DOMAIN NoChildren(l) = KeysIn(l) /\ \A k \in KeysIn(l) : NoChildren(l)[k] = NoWrite
    BY DEF NoChildren
<1> QED
    BY <1>1, <1>2, <1>3, LayerRange DEF DataAt

\* What a client is shown at a location: only writes of the log or its own
\* pending ones.
LEMMA ViewRange ==
    ASSUME NEW log \in Seq(Writes), NEW n \in 0 .. Len(log), NEW l,
           NEW ws \in Seq(Writes)
    PROVE  Layer(DataAt(log, n, l), ws) \in
               [KeysIn(l) -> In(log) \cup In(ws) \cup {NoWrite}]
<1> DEFINE v == Layer(DataAt(log, n, l), ws)
<1>1. /\ DOMAIN v = KeysIn(l)
      /\ \A k \in KeysIn(l) : v[k] \in In(log) \cup In(ws) \cup {NoWrite}
    BY DataAtRange, LayerRange
<1>2. v = [k \in DOMAIN v |-> v[k]]
    BY DEF Layer
<1> QED
    BY <1>1, <1>2

\* The members of a sequence that grows at its end or loses its head.
LEMMA InAppend ==
    ASSUME NEW S, NEW ws \in Seq(S), NEW e
    PROVE  In(Append(ws, e)) = In(ws) \cup {e}
BY DEF In

\* A sequence has its head and the members of its tail.
LEMMA InTail ==
    ASSUME NEW S, NEW ws \in Seq(S), ws # <<>>
    PROVE  In(ws) = {Head(ws)} \cup In(Tail(ws))
<1>1. /\ Len(ws) \in Nat /\ DOMAIN ws = 1 .. Len(ws)
      /\ Len(ws) >= 1 /\ Head(ws) = ws[1]
    BY LenProperties, EmptySeq
<1>2. /\ DOMAIN Tail(ws) = 1 .. Len(ws) - 1
      /\ \A i \in 1 .. Len(ws) - 1 : Tail(ws)[i] = ws[i + 1]
    BY HeadTailProperties, LenProperties
<1>3. \A i \in 1 .. Len(ws) : i = 1 \/ (i - 1 \in 1 .. Len(ws) - 1 /\ ws[i] = Tail(ws)[i - 1])
    BY <1>1, <1>2
<1>4. In(ws) \subseteq {Head(ws)} \cup In(Tail(ws))
    <2> SUFFICES ASSUME NEW i \in 1 .. Len(ws)
                 PROVE  ws[i] \in {Head(ws)} \cup In(Tail(ws))
        BY <1>1 DEF In
    <2>1. CASE i = 1
        BY <2>1, <1>1
    <2>2. CASE i # 1
        BY <2>2, <1>2, <1>3 DEF In
    <2> QED  BY <2>1, <2>2
<1>5. \A i \in 1 .. Len(ws) - 1 : i + 1 \in 1 .. Len(ws)
    BY <1>1
<1>6. {Head(ws)} \cup In(Tail(ws)) \subseteq In(ws)
    BY <1>1, <1>2, <1>5 DEF In
<1> QED
    BY <1>4, <1>6
-------------------------------------------------------------------------------
\* What is on top

\* A child shows the last of the writes that set it.
LEMMA LayerShows ==
    ASSUME NEW ws \in Seq(Writes), NEW d, NEW i \in DOMAIN ws, KeyOf[ws[i]] \in DOMAIN d,
           \A j \in DOMAIN ws : KeyOf[ws[j]] = KeyOf[ws[i]] => j <= i
    PROVE  Layer(d, ws)[KeyOf[ws[i]]] = ws[i]
<1> DEFINE k == KeyOf[ws[i]]
           I == Setting(ws, k)
<1>1. I \in SUBSET (1 .. Len(ws)) /\ i \in I /\ Len(ws) \in Nat
    BY LenProperties DEF Setting
<1>2. Latest(I) \in I /\ \A j \in I : j <= Latest(I)
    <2> HIDE DEF I
    <2> QED  BY <1>1, LatestIsLast
<1>3. Latest(I) <= i /\ i <= Latest(I) /\ Latest(I) \in Nat /\ i \in Nat
    BY <1>1, <1>2 DEF Setting
<1>4. Latest(I) = i
    BY <1>3
<1> QED
    BY <1>1, <1>4 DEF Layer

\* A child that no write sets shows the data.
LEMMA LayerHides ==
    ASSUME NEW ws, NEW d, NEW k \in DOMAIN d, \A j \in DOMAIN ws : KeyOf[ws[j]] # k
    PROVE  Layer(d, ws)[k] = d[k]
BY DEF Layer, Setting

\* A child shows one of the writes that set it, the last one, or the data.
LEMMA LayerCases ==
    ASSUME NEW ws \in Seq(Writes), NEW d, NEW k \in DOMAIN d
    PROVE  \/ /\ \A j \in DOMAIN ws : KeyOf[ws[j]] # k
              /\ Layer(d, ws)[k] = d[k]
           \/ \E i \in DOMAIN ws : /\ KeyOf[ws[i]] = k
                                   /\ \A j \in DOMAIN ws : KeyOf[ws[j]] = k => j <= i
                                   /\ Layer(d, ws)[k] = ws[i]
<1> DEFINE I == Setting(ws, k)
<1>1. CASE I = {}
    BY <1>1, LayerHides DEF Setting
<1>2. CASE I # {}
    <2>1. I \in SUBSET (1 .. Len(ws)) /\ Len(ws) \in Nat
        BY LenProperties DEF Setting
    <2>2. Latest(I) \in I /\ \A j \in I : j <= Latest(I)
        <3> HIDE DEF I
        <3> QED  BY <1>2, <2>1, LatestIsLast
    <2> QED  BY <1>2, <2>2 DEF Layer, Setting
<1> QED
    BY <1>1, <1>2

\* Layers of the same data are equal when they show the same.
LEMMA LayerEqual ==
    ASSUME NEW ws, NEW vs, NEW d, \A k \in DOMAIN d : Layer(d, ws)[k] = Layer(d, vs)[k]
    PROVE  Layer(d, ws) = Layer(d, vs)
BY DEF Layer

\* A write of another location changes nothing when it becomes pending.
LEMMA LayerAppendOther ==
    ASSUME NEW ws \in Seq(Writes), NEW w \in Writes, NEW d, KeyOf[w] \notin DOMAIN d
    PROVE  Layer(d, Append(ws, w)) = Layer(d, ws)
<1> DEFINE vs == Append(ws, w)
<1>1. /\ vs \in Seq(Writes) /\ DOMAIN vs = 1 .. Len(ws) + 1 /\ DOMAIN ws = 1 .. Len(ws)
      /\ Len(ws) \in Nat
      /\ \A i \in 1 .. Len(ws) : vs[i] = ws[i]
      /\ vs[Len(ws) + 1] = w
    BY AppendProperties, LenProperties
<1> HIDE DEF vs
<1>2. \A n \in Nat : \A i \in 1 .. n + 1 : i \in 1 .. n \/ i = n + 1
    OBVIOUS
<1>3. \A n \in Nat : \A i \in 1 .. n : i \in 1 .. n + 1
    OBVIOUS
<1>4. ASSUME NEW k \in DOMAIN d PROVE Layer(d, vs)[k] = Layer(d, ws)[k]
    <2>1. k # KeyOf[w]
        OBVIOUS
    <2>2. \A i \in DOMAIN vs : KeyOf[vs[i]] = k => i \in DOMAIN ws /\ vs[i] = ws[i]
        BY <1>1, <1>2, <2>1
    <2>3. \A i \in DOMAIN ws : i \in DOMAIN vs /\ vs[i] = ws[i]
        BY <1>1, <1>3
    <2>4. CASE \A j \in DOMAIN ws : KeyOf[ws[j]] # k
        BY <2>2, <2>4, LayerHides
    <2>5. CASE \E i \in DOMAIN ws : /\ KeyOf[ws[i]] = k
                                    /\ \A j \in DOMAIN ws : KeyOf[ws[j]] = k => j <= i
                                    /\ Layer(d, ws)[k] = ws[i]
        <3>1. PICK i \in DOMAIN ws : /\ KeyOf[ws[i]] = k
                                     /\ \A j \in DOMAIN ws : KeyOf[ws[j]] = k => j <= i
                                     /\ Layer(d, ws)[k] = ws[i]
            BY <2>5
        <3>2. /\ i \in DOMAIN vs /\ vs[i] = ws[i]
              /\ \A j \in DOMAIN vs : KeyOf[vs[j]] = KeyOf[vs[i]] => j <= i
            BY <2>2, <2>3, <3>1
        <3> QED  BY <1>1, <3>1, <3>2, LayerShows
    <2> QED  BY <2>4, <2>5, LayerCases
<1>5. Layer(d, vs) = Layer(d, ws)
    BY <1>4, LayerEqual
<1> QED
    BY <1>5 DEF vs

\* A write of another location changes nothing when it is settled.
LEMMA LayerTailOther ==
    ASSUME NEW ws \in Seq(Writes), ws # <<>>, NEW d, KeyOf[Head(ws)] \notin DOMAIN d
    PROVE  Layer(d, Tail(ws)) = Layer(d, ws)
<1> DEFINE vs == Tail(ws)
<1>1. /\ vs \in Seq(Writes) /\ DOMAIN vs = 1 .. Len(ws) - 1 /\ DOMAIN ws = 1 .. Len(ws)
      /\ Len(ws) \in Nat /\ Len(ws) >= 1 /\ Head(ws) = ws[1]
      /\ \A i \in 1 .. Len(ws) - 1 : vs[i] = ws[i + 1]
    BY HeadTailProperties, LenProperties, EmptySeq
<1> HIDE DEF vs
<1>2. \A n \in Nat : \A i \in 1 .. n - 1 : i + 1 \in 1 .. n
    OBVIOUS
<1>3. \A n \in Nat : \A i \in 1 .. n : i # 1 => i - 1 \in 1 .. n - 1 /\ (i - 1) + 1 = i
    OBVIOUS
<1>4. ASSUME NEW k \in DOMAIN d PROVE Layer(d, vs)[k] = Layer(d, ws)[k]
    <2>1. \A i \in DOMAIN vs : i + 1 \in DOMAIN ws /\ vs[i] = ws[i + 1]
        BY <1>1, <1>2
    <2>2. \A i \in DOMAIN ws : KeyOf[ws[i]] = k => i - 1 \in DOMAIN vs /\ vs[i - 1] = ws[i]
        BY <1>1, <1>3
    <2>3. CASE \A j \in DOMAIN ws : KeyOf[ws[j]] # k
        BY <2>1, <2>3, LayerHides
    <2>4. CASE \E i \in DOMAIN ws : /\ KeyOf[ws[i]] = k
                                    /\ \A j \in DOMAIN ws : KeyOf[ws[j]] = k => j <= i
                                    /\ Layer(d, ws)[k] = ws[i]
        <3>1. PICK i \in DOMAIN ws : /\ KeyOf[ws[i]] = k
                                     /\ \A j \in DOMAIN ws : KeyOf[ws[j]] = k => j <= i
                                     /\ Layer(d, ws)[k] = ws[i]
            BY <2>4
        <3>2. i - 1 \in DOMAIN vs /\ vs[i - 1] = ws[i]
            BY <2>2, <3>1
        <3>3. \A j \in DOMAIN vs : KeyOf[vs[j]] = KeyOf[vs[i - 1]] => j <= i - 1
            <4> SUFFICES ASSUME NEW j \in DOMAIN vs, KeyOf[vs[j]] = k PROVE j <= i - 1
                BY <3>1, <3>2
            <4>1. j + 1 \in DOMAIN ws /\ j + 1 <= i
                BY <2>1, <3>1
            <4>2. j \in Int /\ i \in Int
                BY <1>1
            <4> QED  BY <4>1, <4>2
        <3>4. KeyOf[vs[i - 1]] \in DOMAIN d
            BY <3>1, <3>2
        <3>5. Layer(d, vs)[KeyOf[vs[i - 1]]] = vs[i - 1]
            BY <1>1, <3>2, <3>3, <3>4, LayerShows
        <3> QED  BY <3>1, <3>2, <3>5
    <2> QED  BY <2>3, <2>4, LayerCases
<1>5. Layer(d, vs) = Layer(d, ws)
    BY <1>4, LayerEqual
<1> QED
    BY <1>5 DEF vs

\* A write that has just become pending is on top.
LEMMA LayerAppendShows ==
    ASSUME NEW ws \in Seq(Writes), NEW w \in Writes, NEW d, KeyOf[w] \in DOMAIN d
    PROVE  Layer(d, Append(ws, w))[KeyOf[w]] = w
<1> DEFINE vs == Append(ws, w)
           n == Len(ws) + 1
<1>1. vs \in Seq(Writes) /\ DOMAIN vs = 1 .. n /\ Len(ws) \in Nat /\ vs[n] = w
    BY AppendProperties, LenProperties
<1> HIDE DEF vs
<1>2. n \in DOMAIN vs /\ \A j \in DOMAIN vs : j <= n
    BY <1>1
<1>3. Layer(d, vs)[KeyOf[vs[n]]] = vs[n]
    <2> HIDE DEF n
    <2> QED  BY <1>1, <1>2, LayerShows
<1> QED
    BY <1>1, <1>3 DEF vs

\* A write that no other write of the sequence hides is on top.
LEMMA LayerOwn ==
    ASSUME NEW ws \in Seq(Writes), NEW w \in In(ws), NEW d, KeyOf[w] \in DOMAIN d,
           \A v \in In(ws) : KeyOf[v] = KeyOf[w] => v = w
    PROVE  Layer(d, ws)[KeyOf[w]] = w
<1>1. PICK i \in DOMAIN ws : ws[i] = w
    BY DEF In
<1>2. \A j \in DOMAIN ws : ws[j] \in In(ws)
    BY DEF In
<1> QED
    BY <1>1, <1>2, LayerCases

\* Later writes do not change an earlier state of the server's data.
LEMMA DataAtPrefix ==
    ASSUME NEW log \in Seq(Writes), NEW w \in Writes, NEW n \in 0 .. Len(log), NEW l
    PROVE  DataAt(Append(log, w), n, l) = DataAt(log, n, l)
<1>1. SubSeq(Append(log, w), 1, n) = SubSeq(log, 1, n)
    BY LenProperties
<1> QED
    BY <1>1 DEF DataAt

\* What the server's data shows is a write of the prefix.
LEMMA DataAtSource ==
    ASSUME NEW log \in Seq(Writes), NEW n \in 0 .. Len(log), NEW l, NEW k \in KeysIn(l)
    PROVE  \/ DataAt(log, n, l)[k] = NoWrite
           \/ \E i \in 1 .. n : log[i] = DataAt(log, n, l)[k] /\ KeyOf[log[i]] = k
<1> DEFINE ws == SubSeq(log, 1, n)
<1>1. /\ n \in Nat /\ Len(log) \in Nat
      /\ \A i \in 1 .. n : i \in 1 .. Len(log) /\ log[i] \in Writes
    BY LenProperties, ElementOfSeq
<1>2. /\ ws \in Seq(Writes) /\ DOMAIN ws = 1 .. n /\ \A i \in 1 .. n : ws[i] = log[i]
    BY <1>1, SubSeqProperties, LenProperties
<1>3. k \in DOMAIN NoChildren(l) /\ NoChildren(l)[k] = NoWrite
    BY DEF NoChildren
<1> HIDE DEF ws
<1>4. \/ Layer(NoChildren(l), ws)[k] = NoWrite
      \/ \E i \in DOMAIN ws : KeyOf[ws[i]] = k /\ Layer(NoChildren(l), ws)[k] = ws[i]
    BY <1>2, <1>3, LayerCases
<1> QED
    BY <1>2, <1>4 DEF DataAt, ws

\* A write of the prefix that no other write hides is shown.
LEMMA DataAtOwn ==
    ASSUME NEW log \in Seq(Writes), NEW n \in 0 .. Len(log), NEW l, NEW w \in Writes,
           KeyOf[w] \in KeysIn(l), \E i \in 1 .. n : log[i] = w,
           \A v \in In(log) : KeyOf[v] = KeyOf[w] => v = w
    PROVE  DataAt(log, n, l)[KeyOf[w]] = w
<1> DEFINE ws == SubSeq(log, 1, n)
<1>1. /\ n \in Nat /\ Len(log) \in Nat /\ DOMAIN log = 1 .. Len(log)
      /\ \A i \in 1 .. n : i \in 1 .. Len(log) /\ log[i] \in Writes
    BY LenProperties, ElementOfSeq
<1>2. /\ ws \in Seq(Writes) /\ DOMAIN ws = 1 .. n /\ \A i \in 1 .. n : ws[i] = log[i]
    BY <1>1, SubSeqProperties, LenProperties
<1>3. KeyOf[w] \in DOMAIN NoChildren(l)
    BY DEF NoChildren
<1> HIDE DEF ws
<1>4. w \in In(ws) /\ In(ws) \subseteq In(log)
    BY <1>1, <1>2 DEF In
<1>5. Layer(NoChildren(l), ws)[KeyOf[w]] = w
    BY <1>2, <1>3, <1>4, LayerOwn
<1> QED
    BY <1>5 DEF DataAt, ws
\* A child shows the last write of the prefix that sets it.
LEMMA DataAtCases ==
    ASSUME NEW log \in Seq(Writes), NEW n \in 0 .. Len(log), NEW l, NEW k \in KeysIn(l)
    PROVE  \/ /\ \A j \in 1 .. n : KeyOf[log[j]] # k
              /\ DataAt(log, n, l)[k] = NoWrite
           \/ \E i \in 1 .. n : /\ KeyOf[log[i]] = k
                                /\ \A j \in 1 .. n : KeyOf[log[j]] = k => j <= i
                                /\ DataAt(log, n, l)[k] = log[i]
<1> DEFINE ws == SubSeq(log, 1, n)
<1>1. /\ n \in Nat /\ Len(log) \in Nat
      /\ \A i \in 1 .. n : i \in 1 .. Len(log) /\ log[i] \in Writes
    BY LenProperties, ElementOfSeq
<1>2. /\ ws \in Seq(Writes) /\ DOMAIN ws = 1 .. n /\ \A i \in 1 .. n : ws[i] = log[i]
    <2>1. /\ ws \in Seq(Writes)
          /\ Len(ws) = n
          /\ \A i \in 1 .. n : ws[i] = log[i]
        BY <1>1, SubSeqProperties
    <2> QED  BY <2>1, LenProperties
<1> HIDE DEF ws
<1>3. k \in DOMAIN NoChildren(l) /\ NoChildren(l)[k] = NoWrite
    BY DEF NoChildren
<1>4. DataAt(log, n, l) = Layer(NoChildren(l), ws)
    BY DEF DataAt, ws
<1> QED
    BY <1>2, <1>3, <1>4, LayerCases

\* A later state differs by the one write that is new at the location.
LEMMA DataAtUpdate ==
    ASSUME NEW log \in Seq(Writes), NEW n \in 0 .. Len(log), NEW p \in DOMAIN log, n < p,
           NEW l, WriteLoc(log[p]) = l, KeyOf[log[p]] \in Keys,
           \A i \in 1 .. p - 1 : WriteLoc(log[i]) = l => i <= n
    PROVE  DataAt(log, p, l) = [DataAt(log, n, l) EXCEPT ![KeyOf[log[p]]] = log[p]]
<1> DEFINE old == DataAt(log, n, l)
           new == DataAt(log, p, l)
           x == KeyOf[log[p]]
<1>0. DOMAIN log = 1 .. Len(log) /\ Len(log) \in Nat /\ p \in 0 .. Len(log) /\ n \in Nat /\ p \in Nat
    BY LenProperties
<1>1. DOMAIN old = KeysIn(l) /\ DOMAIN new = KeysIn(l)
    BY <1>0, DataAtRange
<1>2. old = [k \in KeysIn(l) |-> old[k]] /\ new = [k \in KeysIn(l) |-> new[k]]
    BY <1>1 DEF DataAt, Layer
<1>3. x \in KeysIn(l)
    BY DEF KeysIn, WriteLoc
<1> HIDE DEF x
<1>4. new[x] = log[p]
    <2>1. \/ \A j \in 1 .. p : KeyOf[log[j]] # x
          \/ \E i \in 1 .. p : /\ KeyOf[log[i]] = x
                               /\ \A j \in 1 .. p : KeyOf[log[j]] = x => j <= i
                               /\ new[x] = log[i]
        BY <1>0, <1>3, DataAtCases
    <2>2. p \in 1 .. p /\ KeyOf[log[p]] = x
        BY <1>0 DEF x
    <2>3. PICK i \in 1 .. p : p <= i /\ new[x] = log[i]
        BY <2>1, <2>2
    <2>4. i = p
        BY <1>0, <2>3
    <2> QED  BY <2>3, <2>4
<1>5. ASSUME NEW k \in KeysIn(l), k # x PROVE new[k] = old[k]
    <2>1. ASSUME NEW i \in 1 .. p, KeyOf[log[i]] = k PROVE i \in 1 .. n
        <3>1. i # p
            BY <1>5, <2>1 DEF x
        <3>2. WriteLoc(log[i]) = l
            BY <2>1 DEF WriteLoc, KeysIn
        <3>3. i \in 1 .. p - 1
            BY <1>0, <3>1
        <3> QED  BY <1>0, <3>2, <3>3
    <2>2. \A i \in 1 .. n : i \in 1 .. p
        BY <1>0
    <2>3. \/ /\ \A j \in 1 .. p : KeyOf[log[j]] # k
             /\ new[k] = NoWrite
          \/ \E i \in 1 .. p : /\ KeyOf[log[i]] = k
                               /\ \A j \in 1 .. p : KeyOf[log[j]] = k => j <= i
                               /\ new[k] = log[i]
        <3> DEFINE m == p
        <3>1. m \in 0 .. Len(log)
            BY <1>0
        <3> QED  BY <3>1, DataAtCases
    <2>4. \/ /\ \A j \in 1 .. n : KeyOf[log[j]] # k
             /\ old[k] = NoWrite
          \/ \E i \in 1 .. n : /\ KeyOf[log[i]] = k
                               /\ \A j \in 1 .. n : KeyOf[log[j]] = k => j <= i
                               /\ old[k] = log[i]
        BY DataAtCases
    <2> HIDE DEF new, old
    <2>5. CASE \A j \in 1 .. n : KeyOf[log[j]] # k
        <3>1. \A j \in 1 .. p : KeyOf[log[j]] # k
            BY <2>1, <2>5
        <3> QED  BY <2>3, <2>4, <2>5, <3>1
    <2>6. CASE ~(\A j \in 1 .. n : KeyOf[log[j]] # k)
        <3>1. PICK i \in 1 .. n : /\ KeyOf[log[i]] = k /\ old[k] = log[i]
                                  /\ \A j \in 1 .. n : KeyOf[log[j]] = k => j <= i
            BY <2>4, <2>6
        <3>2. PICK j \in 1 .. p : /\ KeyOf[log[j]] = k /\ new[k] = log[j]
                                  /\ \A h \in 1 .. p : KeyOf[log[h]] = k => h <= j
            BY <2>2, <2>3, <3>1
        <3>3. j \in 1 .. n /\ i <= j /\ j <= i
            BY <2>1, <2>2, <3>1, <3>2
        <3>4. i = j
            BY <3>3
        <3> QED  BY <3>1, <3>2, <3>4
    <2> QED  BY <2>5, <2>6
<1>6. \A k \in KeysIn(l) : new[k] = [old EXCEPT ![x] = log[p]][k]
    BY <1>1, <1>4, <1>5
<1> HIDE DEF new, old
<1> QED
    BY <1>1, <1>2, <1>3, <1>6 DEF x, new, old
===============================================================================
