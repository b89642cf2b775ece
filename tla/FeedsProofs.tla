------------------------------ MODULE FeedsProofs ------------------------------
(***************************************************************************)
(* For any controllers, feeds, devices and writes: the state of Feeds is   *)
(* well typed, and an array that has been given every snapshot agrees with *)
(* the SDK's view.                                                         *)
(*                                                                         *)
(* The first needs that the calls in a device's queue are of the device's  *)
(* own feeds, so that they go when its controllers go; the second that the *)
(* last snapshot on its way is the view (ReplicaProofs), and that a        *)
(* snapshot can be put in the order of its keys at all.                    *)
(***************************************************************************)
EXTENDS Feeds, SyncTreeProofs, FiniteSetTheorems

Sdk == INSTANCE ReplicaProofs

-------------------------------------------------------------------------------
\* Children in the order of their keys

\* No two writes of S are of the same child.
Distinct(S) == \A v, w \in S : KeyOf[v] = KeyOf[w] => v = w

\* S can be listed both ways.
Sortable(S) ==
    /\ \E a \in [1 .. Cardinality(S) -> S] : IsInOrder(S, a)
    /\ \E a \in [1 .. Cardinality(S) -> S] : IsReversed(S, a)

\* Keys are numbers.
LEMMA KeysAreNumbers == \A w \in Writes : KeyOf[w] \in Nat
BY SyncTreeAssumption, FeedsAssumption

\* A set of naturals that is not empty has a least member.
LEMMA LeastNatural ==
    ASSUME NEW N \in SUBSET Nat, N # {}
    PROVE  \E x \in N : \A y \in N : x <= y
<1>1. PICK x \in N : \A y \in N : ~(<<y, x>> \in OpToRel(<, Nat))
    BY NatLessThanWellFounded, WFMin
<1>2. \A y \in N : ~(y < x)
    BY <1>1 DEF OpToRel
<1> QED
    BY <1>2

\* The oldest child of a list.
LEMMA OldestChild ==
    ASSUME NEW S \in SUBSET Writes, S # {}
    PROVE  \E m \in S : \A v \in S : KeyOf[m] <= KeyOf[v]
<1> DEFINE N == {KeyOf[w] : w \in S}
<1>1. N \in SUBSET Nat /\ N # {}
    BY KeysAreNumbers
<1>2. PICK x \in N : \A y \in N : x <= y
    <2> HIDE DEF N
    <2> QED  BY <1>1, LeastNatural
<1>3. PICK m \in S : x = KeyOf[m]
    BY <1>2
<1> QED
    BY <1>2, <1>3

\* The oldest child goes in front, or at the end of the reversed list.
LEMMA SortMore ==
    ASSUME NEW T \in SUBSET Writes, Distinct(T), NEW m \in T, NEW n \in Nat,
           \A v \in T : KeyOf[m] <= KeyOf[v], Cardinality(T) = n + 1,
           Cardinality(T \ {m}) = n, Sortable(T \ {m})
    PROVE  Sortable(T)
<1> DEFINE U == T \ {m}
<1>0. \A v \in U : KeyOf[m] < KeyOf[v]
    BY KeysAreNumbers DEF Distinct
<1>1. \E b \in [1 .. n + 1 -> T] : IsInOrder(T, b)
    <2>1. PICK a \in [1 .. n -> U] : IsInOrder(U, a)
        BY DEF Sortable
    <2> DEFINE b == [i \in 1 .. n + 1 |-> IF i = 1 THEN m ELSE a[i - 1]]
    <2>2. \A i \in 1 .. n + 1 : i = 1 \/ i - 1 \in 1 .. n
        OBVIOUS
    <2>3. b \in [1 .. n + 1 -> T] /\ b[1] = m /\ \A i \in 1 .. n : b[i + 1] = a[i]
        BY <2>2
    <2>4. \A i \in 2 .. n + 1 : i - 1 \in 1 .. n /\ b[i] = a[i - 1]
        OBVIOUS
    <2> HIDE DEF b
    <2>5. In(b) = T
        <3>1. In(b) \subseteq T
            BY <2>3 DEF In
        <3>2. m \in In(b)
            BY <2>3 DEF In
        <3>3. ASSUME NEW v \in U PROVE v \in In(b)
            <4>1. PICK i \in 1 .. n : v = a[i]
                BY <2>1 DEF IsInOrder, In
            <4>2. i + 1 \in 1 .. n + 1 /\ b[i + 1] = v
                BY <2>3, <4>1
            <4> QED  BY <2>3, <4>2 DEF In
        <3> QED  BY <3>1, <3>2, <3>3
    <2>6. ASSUME NEW i \in 1 .. n + 1, NEW j \in 1 .. n + 1, i < j
          PROVE  KeyOf[b[i]] < KeyOf[b[j]]
        <3>1. j - 1 \in 1 .. n /\ b[j] = a[j - 1]
            BY <2>4, <2>6
        <3>2. CASE i = 1
            BY <1>0, <2>3, <3>1, <3>2
        <3>3. CASE i # 1
            <4>1. i - 1 \in 1 .. n /\ b[i] = a[i - 1] /\ i - 1 < j - 1
                BY <2>4, <2>6, <3>3
            <4> QED  BY <2>1, <3>1, <4>1 DEF IsInOrder
        <3> QED  BY <3>2, <3>3
    <2> QED  BY <2>3, <2>5, <2>6 DEF IsInOrder
<1>2. \E b \in [1 .. n + 1 -> T] : IsReversed(T, b)
    <2>1. PICK a \in [1 .. n -> U] : IsReversed(U, a)
        BY DEF Sortable
    <2> DEFINE b == [i \in 1 .. n + 1 |-> IF i = n + 1 THEN m ELSE a[i]]
    <2>2. \A i \in 1 .. n + 1 : i = n + 1 \/ i \in 1 .. n
        OBVIOUS
    <2>3. b \in [1 .. n + 1 -> T] /\ b[n + 1] = m /\ \A i \in 1 .. n : b[i] = a[i]
        BY <2>2
    <2> HIDE DEF b
    <2>5. In(b) = T
        <3>1. In(b) \subseteq T
            BY <2>3 DEF In
        <3>2. m \in In(b)
            BY <2>3 DEF In
        <3>3. ASSUME NEW v \in U PROVE v \in In(b)
            <4>1. PICK i \in 1 .. n : v = a[i]
                BY <2>1 DEF IsReversed, In
            <4>2. i \in 1 .. n + 1 /\ b[i] = v
                BY <2>3, <4>1
            <4> QED  BY <2>3, <4>2 DEF In
        <3> QED  BY <3>1, <3>2, <3>3
    <2>6. ASSUME NEW i \in 1 .. n + 1, NEW j \in 1 .. n + 1, i < j
          PROVE  KeyOf[b[i]] > KeyOf[b[j]]
        <3>1. i \in 1 .. n /\ b[i] = a[i]
            BY <2>3, <2>6
        <3>2. CASE j = n + 1
            BY <1>0, <2>3, <3>1, <3>2, KeysAreNumbers
        <3>3. CASE j # n + 1
            <4>1. j \in 1 .. n /\ b[j] = a[j]
                BY <2>3, <3>3
            <4> QED  BY <2>1, <2>6, <3>1, <4>1 DEF IsReversed
        <3> QED  BY <3>2, <3>3
    <2> QED  BY <2>3, <2>5, <2>6 DEF IsReversed
<1> QED
    BY <1>1, <1>2 DEF Sortable

\* Every set of writes of different children can be listed both ways.
LEMMA AllSortable ==
    ASSUME NEW S \in SUBSET Writes, Distinct(S)
    PROVE  Sortable(S)
<1> DEFINE Bad == {n \in Nat : \E T \in SUBSET S : Cardinality(T) = n /\ ~Sortable(T)}
<1>0. \A T \in SUBSET S : IsFiniteSet(T) /\ Cardinality(T) \in Nat
    <2>1. \A T \in SUBSET S : IsFiniteSet(T)
        BY FeedsAssumption, FS_Subset
    <2> QED  BY <2>1, FS_CardinalityType
<1>1. ASSUME Bad # {} PROVE FALSE
    <2>1. PICK n \in Bad : \A y \in Bad : n <= y
        <3>1. Bad \in SUBSET Nat
            OBVIOUS
        <3> HIDE DEF Bad
        <3> QED  BY <1>1, <3>1, LeastNatural
    <2>2. PICK T \in SUBSET S : Cardinality(T) = n /\ ~Sortable(T)
        BY <2>1
    <2>3. CASE T = {}
        <3>1. Cardinality(T) = 0
            BY <2>3, FS_EmptySet
        <3> DEFINE a == [i \in 1 .. 0 |-> T]
        <3>2. a \in [1 .. 0 -> T] /\ In(a) = {} /\ DOMAIN a = {}
            BY DEF In
        <3> HIDE DEF a
        <3>3. IsInOrder(T, a) /\ IsReversed(T, a)
            BY <2>3, <3>2 DEF IsInOrder, IsReversed
        <3> QED  BY <2>2, <3>1, <3>2, <3>3 DEF Sortable
    <2>4. CASE T # {}
        <3>1. PICK m \in T : \A v \in T : KeyOf[m] <= KeyOf[v]
            BY <2>4, OldestChild
        <3>2. Cardinality(T \ {m}) = n - 1 /\ Cardinality(T \ {m}) \in Nat
            BY <1>0, <2>2, FS_RemoveElement
        <3>3. PICK k \in Nat : k = Cardinality(T \ {m})
            BY <3>2
        <3>4. n = k + 1
            BY <2>1, <3>2, <3>3
        <3>5. k \notin Bad
            BY <2>1, <3>4
        <3>6. Sortable(T \ {m})
            BY <3>3, <3>5
        <3>7. Distinct(T)
            BY DEF Distinct
        <3> QED  BY <2>2, <3>1, <3>3, <3>4, <3>6, <3>7, SortMore
    <2> QED  BY <2>3, <2>4
<1> QED
    BY <1>0, <1>1

\* The children of one snapshot have different keys.
LEMMA ItemsAreDistinct ==
    ASSUME NEW s, NEW d
    PROVE  Items(s, d) \in SUBSET Writes /\ Distinct(Items(s, d))
BY DEF Items, Distinct

\* The array filled from a snapshot, in either order.
LEMMA ListsOfItems ==
    ASSUME NEW s, NEW d
    PROVE  LET S == Items(s, d)
           IN  /\ Cardinality(S) \in Nat
               /\ InOrder(S) \in [1 .. Cardinality(S) -> S] /\ IsInOrder(S, InOrder(S))
               /\ Reversed(S) \in [1 .. Cardinality(S) -> S] /\ IsReversed(S, Reversed(S))
<1> DEFINE S == Items(s, d)
<1>1. S \in SUBSET Writes /\ Sortable(S)
    BY ItemsAreDistinct, AllSortable
<1>2. Cardinality(S) \in Nat
    <2>1. IsFiniteSet(S)
        BY <1>1, FeedsAssumption, FS_Subset
    <2> QED  BY <2>1, FS_CardinalityType
<1> HIDE DEF S
<1>3. InOrder(S) \in [1 .. Cardinality(S) -> S] /\ IsInOrder(S, InOrder(S))
    BY <1>1 DEF Sortable, InOrder
<1>4. Reversed(S) \in [1 .. Cardinality(S) -> S] /\ IsReversed(S, Reversed(S))
    BY <1>1 DEF Sortable, Reversed
<1> QED
    BY <1>2, <1>3, <1>4 DEF S

\* A snapshot with records of the wanted e-mail has a last one of them.
LEMMA LastRecord ==
    ASSUME NEW s, NEW d, Items(s, d) # {}
    PROVE  \E w \in Items(s, d) : \A v \in Items(s, d) : KeyOf[v] <= KeyOf[w]
<1> DEFINE S == Items(s, d)
           n == Cardinality(S)
           a == Reversed(S)
<1>1. n \in Nat /\ a \in [1 .. n -> S] /\ IsReversed(S, a) /\ S \in SUBSET Writes
    BY ListsOfItems, ItemsAreDistinct
<1> HIDE DEF S, n, a
<1>2. In(a) = S /\ \A i, j \in 1 .. n : i < j => KeyOf[a[i]] > KeyOf[a[j]]
    BY <1>1 DEF IsReversed
<1>3. PICK j \in 1 .. n : TRUE
    BY <1>1, <1>2 DEF In, S
<1>4. 1 \in 1 .. n /\ a[1] \in S
    BY <1>1, <1>3
<1>5. ASSUME NEW v \in S PROVE KeyOf[v] <= KeyOf[a[1]]
    <2>1. PICK i \in 1 .. n : v = a[i]
        BY <1>1, <1>2 DEF In
    <2>2. KeyOf[v] \in Nat /\ KeyOf[a[1]] \in Nat
        BY <1>1, <1>4, KeysAreNumbers
    <2>3. i = 1 \/ 1 < i
        OBVIOUS
    <2> QED  BY <1>2, <1>4, <2>1, <2>2, <2>3
<1> QED
    BY <1>4, <1>5 DEF S

-------------------------------------------------------------------------------
\* The SDK

\* The SDK's state: types, and everything pending was written by setValue.
SdkInv ==
    /\ log \in Seq(Writes)
    /\ issued \in Seq(Writes)
    /\ \A c \in Clients : In(pending[c]) \subseteq In(issued)
    /\ observing \subseteq Screens
    /\ DOMAIN events = Screens
    /\ \A s \in Screens : events[s] \in Seq(DataIn(Looks[s]))

\* The last snapshot on its way to a feed is the view, see ReplicaProofs.
ToldInv ==
    \A s \in Screens :
        /\ s \notin observing \/ ~DB!Synced(Owner[s], Looks[s]) => events[s] = <<>>
        /\ events[s] # <<>> => events[s][Len(events[s])] = DB!View(Owner[s], Looks[s])

\* The operators on data are those of SyncTree in every instance.
LEMMA SameOperators ==
    /\ \A d, ws : Sdk!Layer(d, ws) = DB!Layer(d, ws)
    /\ \A lg, n, l : Sdk!DataAt(lg, n, l) = DB!DataAt(lg, n, l)
    /\ \A old, new : Sdk!Changed(old, new) = DB!Changed(old, new)
    /\ \A ws : DB!In(ws) = In(ws)
    /\ \A w : DB!WriteLoc(w) = WriteLoc(w)
    /\ \A ws : Sdk!In(ws) = In(ws)
    /\ \A w : Sdk!WriteLoc(w) = WriteLoc(w)
    /\ \A l : Sdk!KeysIn(l) = KeysIn(l)
<1>1. \A I : DB!Latest(I) = Sdk!Latest(I)
    BY DEF DB!Latest, Sdk!Latest
<1>2. \A ws, k : DB!Setting(ws, k) = Sdk!Setting(ws, k)
    BY DEF DB!Setting, Sdk!Setting
<1>3. \A d, ws : DB!Layer(d, ws) = Sdk!Layer(d, ws)
    BY <1>1, <1>2 DEF DB!Layer, Sdk!Layer
<1>4. \A l : DB!NoChildren(l) = Sdk!NoChildren(l)
    BY DEF DB!NoChildren, Sdk!NoChildren, DB!KeysIn, Sdk!KeysIn
<1>5. \A lg, n, l : DB!DataAt(lg, n, l) = Sdk!DataAt(lg, n, l)
    BY <1>3, <1>4 DEF DB!DataAt, Sdk!DataAt
<1> QED
    BY <1>3, <1>5 DEF DB!Changed, Sdk!Changed, DB!In, In, Sdk!In, DB!WriteLoc, WriteLoc, Sdk!WriteLoc, KeysIn, Sdk!KeysIn

\* Sdk is the SDK of the feeds.
SameState ==
    /\ \A c, l : Sdk!View(c, l) = DB!View(c, l)
    /\ \A c, l : Sdk!Synced(c, l) <=> DB!Synced(c, l)
    /\ \A c, l : Sdk!Listening(c, l) <=> DB!Listening(c, l)
    /\ Sdk!SdkInv => SdkInv
    /\ Sdk!ToldInv => ToldInv

\* The two descriptions of the state agree in every state.
LEMMA SameStateNow == SameState
<1>1. \A c, l : Sdk!View(c, l) = DB!View(c, l)
    BY SameOperators DEF DB!View, Sdk!View
<1>2. \A c, l : Sdk!Synced(c, l) <=> DB!Synced(c, l)
    BY DEF DB!Synced, Sdk!Synced, DB!NotSynced, Sdk!NotSynced
<1>3. \A c, l : Sdk!Listening(c, l) <=> DB!Listening(c, l)
    BY DEF DB!Listening, Sdk!Listening
<1>4. ASSUME Sdk!SdkInv PROVE SdkInv
    <2>1. In(issued) \subseteq Writes
        BY <1>4 DEF Sdk!SdkInv, In
    <2>2. \A l : Sdk!Snapshots(In(issued), l) \subseteq DataIn(l)
        BY <2>1, SameOperators DEF Sdk!Snapshots, DataIn
    <2>3. \A s \in Screens : events[s] \in Seq(DataIn(Looks[s]))
        BY <1>4, <2>2, SeqMonotonic, SameOperators DEF Sdk!SdkInv
    <2> QED  BY <1>4, <2>3, SameOperators DEF Sdk!SdkInv, SdkInv
<1>5. Sdk!ToldInv => ToldInv
    BY <1>1, <1>2 DEF Sdk!ToldInv, ToldInv
<1> QED
    BY <1>1, <1>2, <1>3, <1>4, <1>5 DEF SameState

\* The app starts with the SDK in its first state.
LEMMA SdkInit == Init => Sdk!Init
BY DEF Init, DB!Init, Sdk!Init, DB!NotSynced, Sdk!NotSynced

\* The SDK's actions are those that ReplicaProofs is about.
LEMMA SameActions ==
    /\ \A s : DB!Observe(s) => Sdk!Observe(s)
    /\ \A s : DB!FireEvent(s) => Sdk!FireEvent(s)
    /\ \A w : DB!SetValue(w) => Sdk!SetValue(w)
    /\ \A w : DB!Apply(w) => Sdk!Apply(w)
    /\ \A c : DB!Settle(c) => Sdk!Settle(c)
    /\ \A c : DB!Kill(c) => Sdk!Kill(c)
    /\ \A c, l, n : DB!Advance(c, l, n) => Sdk!Advance(c, l, n)
<1>0. SameState
    BY SameStateNow
<1>1. \A c, l, vs : DB!Raise(c, l, vs) <=> Sdk!Raise(c, l, vs)
    BY DEF DB!Raise, Sdk!Raise
<1>2. \A n, w : DB!Includes(n, w) <=> Sdk!Includes(n, w)
    BY DEF DB!Includes, Sdk!Includes
<1>3. \A s : DB!Observe(s) => Sdk!Observe(s)
    BY <1>0 DEF SameState, DB!Observe, Sdk!Observe
<1>4. \A s : DB!FireEvent(s) => Sdk!FireEvent(s)
    BY DEF DB!FireEvent, Sdk!FireEvent
<1>5. \A w : DB!SetValue(w) => Sdk!SetValue(w)
    BY <1>0, <1>1, SameOperators DEF SameState, DB!SetValue, Sdk!SetValue
<1>6. \A w : DB!Apply(w) => Sdk!Apply(w)
    BY SameOperators DEF DB!Apply, Sdk!Apply
<1>7. \A c : DB!Settle(c) => Sdk!Settle(c)
    BY <1>0, <1>1, <1>2, SameOperators DEF SameState, DB!Settle, Sdk!Settle
<1>8. \A c : DB!Kill(c) => Sdk!Kill(c)
    BY DEF DB!Kill, Sdk!Kill, DB!NotSynced, Sdk!NotSynced
<1>9. \A c, l, n : DB!Advance(c, l, n) => Sdk!Advance(c, l, n)
    <2>1. \A c, l : DB!Settled(c, l) = Sdk!Settled(c, l)
        BY SameOperators DEF DB!Settled, Sdk!Settled
    <2> QED  BY <1>0, <1>1, <1>2, <2>1, SameOperators DEF SameState, DB!Advance, Sdk!Advance
<1> QED
    BY <1>3, <1>4, <1>5, <1>6, <1>7, <1>8, <1>9

\* Every controller with a feed runs on the device of its feeds, and a feed has
\* one controller.
LEMMA ControllerTypes ==
    /\ \A s \in Screens : /\ Owner[s] \in Clients /\ Looks[s] \in Locations
                          /\ VcOf(s) \in Controllers /\ s \in FeedsOf(VcOf(s))
    /\ \A v \in Controllers : FeedsOf(v) \subseteq Screens
    /\ \A v \in Controllers : \A s \in FeedsOf(v) : VcOf(s) = v /\ Device(v) = Owner[s]
    /\ \A s \in Screens, c \in Clients : VcOf(s) \in OwnedBy(c) <=> Owner[s] = c
    /\ \A w \in Writes : Writer[w] \in Clients
<1>1. \A v \in Controllers : Observes[v] \in Seq(Screens)
    BY FeedsAssumption
<1>2. \A v \in Controllers : FeedsOf(v) \subseteq Screens
    BY <1>1 DEF FeedsOf, In
<1>3. \A s \in Screens : VcOf(s) \in Controllers /\ s \in FeedsOf(VcOf(s))
    BY FeedsAssumption DEF VcOf, FeedsOf
<1>4. ASSUME NEW u \in Controllers, NEW v \in Controllers, NEW s \in FeedsOf(u), s \in FeedsOf(v)
      PROVE  u = v
    <2>1. PICK i \in DOMAIN Observes[u], j \in DOMAIN Observes[v] : Observes[u][i] = Observes[v][j]
        BY <1>4 DEF FeedsOf, In
    <2> QED  BY <2>1, FeedsAssumption
<1>5. ASSUME NEW v \in Controllers, NEW s \in FeedsOf(v), NEW t \in FeedsOf(v)
      PROVE  Owner[s] = Owner[t]
    <2>1. PICK i \in DOMAIN Observes[v] : s = Observes[v][i]
        BY DEF FeedsOf, In
    <2>2. PICK j \in DOMAIN Observes[v] : t = Observes[v][j]
        BY DEF FeedsOf, In
    <2> QED  BY <2>1, <2>2, FeedsAssumption
<1>6. \A v \in Controllers : \A s \in FeedsOf(v) : VcOf(s) = v
    BY <1>2, <1>3, <1>4
<1>7. \A s \in Screens : Owner[s] \in Clients /\ Looks[s] \in Locations
    BY SyncTreeAssumption
<1>8. \A s \in Screens, c \in Clients : VcOf(s) \in OwnedBy(c) <=> Owner[s] = c
    BY <1>3, <1>5 DEF OwnedBy
<1>9. ASSUME NEW v \in Controllers, NEW s \in FeedsOf(v) PROVE Device(v) = Owner[s]
    <2>1. v \in OwnedBy(Owner[s]) /\ Owner[s] \in Clients
        BY <1>2, <1>7 DEF OwnedBy
    <2>2. Device(v) \in Clients /\ v \in OwnedBy(Device(v))
        BY <2>1 DEF Device
    <2> QED  BY <1>5, <2>2 DEF OwnedBy
<1> QED
    BY <1>2, <1>3, <1>6, <1>7, <1>8, <1>9, SyncTreeAssumption

\* A trap is the end of the controller's process.
LEMMA TrapIsDeath ==
    ASSUME NEW v \in Controllers, CellForRowTraps(v)
    PROVE  \E c \in Clients : Die(c)
<1>1. PICK s \in FeedsOf(v) : TRUE
    BY DEF CellForRowTraps, StudyVCs
<1>2. Device(v) \in Clients
    BY <1>1, ControllerTypes, SMTT(60)
<1> QED
    BY <1>2 DEF CellForRowTraps

\* Every step of the lists is a step of the SDK or leaves it alone.
LEMMA SdkStep ==
    ASSUME [Next]_vars
    PROVE  [Sdk!Next]_Sdk!vars
<1>1. CASE \E s \in Screens : DB!FireEvent(s) \/ DB!Observe(s)
    BY <1>1, SameActions DEF Sdk!Next
<1>2. CASE \E w \in Writes : DB!SetValue(w) \/ DB!Apply(w)
    BY <1>2, SameActions DEF Sdk!Next
<1>3. CASE \E c \in Clients : DB!Settle(c) \/ Die(c)
    BY <1>3, SameActions DEF Sdk!Next, Die
<1>4. CASE \E c \in Clients, l \in Locations : \E n \in 0 .. Len(log) : DB!Advance(c, l, n)
    BY <1>4, SameActions DEF Sdk!Next
<1>5. CASE UNCHANGED sdkVars
    BY <1>5 DEF sdkVars, Sdk!vars
<1> QED
    BY <1>1, <1>2, <1>3, <1>4, <1>5, TrapIsDeath
    DEF Next, Event, vars, ViewDidLoad, Pop, SegmentedAction, UsersSetup, ProfileSetup, ModelSetup,
        OrphanEvent, NewPostAction, AddAction, SaveElsewhere, Save, RunObserve, RunSetValue,
        Synchronise

\* The list screens use the SDK as Replica describes it.
LEMMA SdkSpec == Spec => Sdk!Spec
BY SdkInit, SdkStep, PTL DEF Spec, Sdk!Spec

\* What ReplicaProofs shows about the SDK holds below the lists.
LEMMA SdkSound == Spec => [](Sdk!ReplicaInv /\ SdkInv /\ ToldInv)
<1>1. Sdk!ReplicaInv => SdkInv /\ ToldInv
    BY SameStateNow DEF SameState, Sdk!ReplicaInv
<1>2. Sdk!Spec => []Sdk!ReplicaInv
    BY SyncTreeAssumption, Sdk!ReplicaSound
<1> QED
    BY <1>1, <1>2, SdkSpec, PTL

\* A feed with nothing to come has been handed its last snapshot, or its view
\* is what it was.
LEMMA QuietStep ==
    ASSUME Sdk!ReplicaInv, [Next]_vars, NEW s \in Screens, s \in observing',
           DB!Synced(Owner[s], Looks[s])', events'[s] = <<>>, events[s] = <<>>
    PROVE  /\ s \in observing /\ DB!Synced(Owner[s], Looks[s])
           /\ DB!View(Owner[s], Looks[s])' = DB!View(Owner[s], Looks[s])
<1>1. SameState /\ SameState'
    BY SameStateNow, PTL
<1>2. Sdk!Quiet
    BY SdkStep, SyncTreeAssumption, Sdk!StepTells
<1> QED
    BY <1>1, <1>2 DEF SameState, Sdk!Quiet

-------------------------------------------------------------------------------
\* The controllers

\* What may wait in the queue of client c when the controllers o are open.
Calls(c, o) ==
    {ObserveCall(s) : s \in {t \in Screens : Owner[t] = c /\ VcOf(t) \in o}}
    \cup {SetCall(w) : w \in Writes}

\* The app's own state.
AppInv ==
    /\ popped \subseteq opened \cap Pushed /\ opened \subseteq Controllers
    /\ \A s \in observing : VcOf(s) \in opened
    /\ rows \in [Screens -> Seq(Writes)]
    /\ \A s \in Screens : rows[s] # <<>> => Alive(VcOf(s))
    /\ segment \in [Controllers -> {0, 1}]
    /\ DOMAIN queued = Clients
    /\ \A c \in Clients : queued[c] \in Seq(Calls(c, opened))

\* The two kinds of call are told apart.
LEMMA CallsDiffer ==
    /\ \A s, w : ObserveCall(s) # SetCall(w)
    /\ \A s, t : ObserveCall(s) = ObserveCall(t) => s = t
    /\ \A c, o : \A w \in Writes : SetCall(w) \in Calls(c, o)
BY DEF ObserveCall, SetCall, Calls

\* Initially nothing is open.
LEMMA InitApp == Init => AppInv
BY DEF Init, DB!Init, AppInv, Alive

\* Loading a controller queues the observe calls of its own feeds.
LEMMA ViewDidLoadApp ==
    ASSUME AppInv, NEW v \in Controllers, ViewDidLoad(v)
    PROVE  AppInv'
<1> DEFINE calls == [i \in DOMAIN Observes[v] |-> ObserveCall(Observes[v][i])]
<1>1. /\ v \notin opened /\ opened' = opened \cup {v}
      /\ queued' = [queued EXCEPT ![Device(v)] = @ \o calls]
      /\ UNCHANGED <<observing, popped, rows, segment>>
    BY DEF ViewDidLoad, sdkVars
<1>2. calls \in Seq(Calls(Device(v), opened'))
    <2>1. Observes[v] \in Seq(Screens)
        BY FeedsAssumption
    <2>2. \A i \in DOMAIN Observes[v] : calls[i] \in Calls(Device(v), opened')
        <3> SUFFICES ASSUME NEW i \in DOMAIN Observes[v]
                     PROVE  ObserveCall(Observes[v][i]) \in Calls(Device(v), opened')
            OBVIOUS
        <3>1. Observes[v][i] \in FeedsOf(v)
            BY DEF FeedsOf, In
        <3>2. /\ Observes[v][i] \in Screens /\ VcOf(Observes[v][i]) = v
              /\ Owner[Observes[v][i]] = Device(v)
            BY <3>1, ControllerTypes
        <3> QED  BY <1>1, <3>2 DEF Calls
    <2>3. DOMAIN Observes[v] = 1 .. Len(Observes[v]) /\ Len(Observes[v]) \in Nat
        BY <2>1, LenProperties
    <2>4. calls \in [1 .. Len(Observes[v]) -> Calls(Device(v), opened')]
        BY <2>2, <2>3
    <2> HIDE DEF calls
    <2> QED  BY <2>3, <2>4, SeqDef
<1> HIDE DEF calls
<1>3. \A c \in Clients : Calls(c, opened) \subseteq Calls(c, opened')
    BY <1>1 DEF Calls
<1>4. ASSUME NEW c \in Clients PROVE queued'[c] \in Seq(Calls(c, opened'))
    <2>1. queued[c] \in Seq(Calls(c, opened'))
        BY <1>3, SeqMonotonic DEF AppInv
    <2>2. CASE c = Device(v)
        <3>1. queued'[c] = queued[c] \o calls
            BY <1>1, <2>2 DEF AppInv
        <3> QED  BY <1>2, <2>1, <2>2, <3>1, ConcatProperties
    <2>3. CASE c # Device(v)
        BY <1>1, <2>1, <2>3 DEF AppInv
    <2> QED  BY <2>2, <2>3
<1>5. DOMAIN queued' = Clients
    BY <1>1 DEF AppInv
<1> QED
    BY <1>1, <1>4, <1>5 DEF AppInv, Alive

\* A popped controller takes its arrays with it.
LEMMA PopApp ==
    ASSUME AppInv, NEW v \in Controllers, Pop(v)
    PROVE  AppInv'
<1>1. /\ v \in Pushed /\ v \in opened /\ popped' = popped \cup {v}
      /\ rows' = [s \in Screens |-> IF VcOf(s) = v THEN <<>> ELSE rows[s]]
      /\ UNCHANGED <<observing, opened, segment, queued>>
    BY DEF Pop, sdkVars, Alive
<1>2. rows' \in [Screens -> Seq(Writes)]
    BY <1>1, EmptySeq DEF AppInv
<1>3. \A s \in Screens : rows'[s] # <<>> => Alive(VcOf(s))'
    BY <1>1 DEF AppInv, Alive
<1> QED
    BY <1>1, <1>2, <1>3 DEF AppInv

\* The control has two segments.
LEMMA SegmentedActionApp ==
    ASSUME AppInv, NEW v \in Controllers, SegmentedAction(v)
    PROVE  AppInv'
<1>1. /\ segment' = [segment EXCEPT ![v] = 1 - @]
      /\ UNCHANGED <<observing, opened, popped, rows, queued>>
    BY DEF SegmentedAction, sdkVars
<1>2. segment' \in [Controllers -> {0, 1}]
    BY <1>1 DEF AppInv
<1> QED
    BY <1>1, <1>2 DEF AppInv, Alive

\* A new child queues its setValue.
LEMMA SaveApp ==
    ASSUME AppInv, NEW w \in Writes, Save(w)
    PROVE  AppInv'
<1>1. /\ queued' = [queued EXCEPT ![Writer[w]] = Append(@, SetCall(w))]
      /\ UNCHANGED <<observing, opened, popped, rows, segment>>
    BY DEF Save, sdkVars
<1>2. ASSUME NEW c \in Clients PROVE queued'[c] \in Seq(Calls(c, opened'))
    BY <1>1, CallsDiffer, AppendProperties DEF AppInv
<1>3. DOMAIN queued' = Clients
    BY <1>1 DEF AppInv
<1> QED
    BY <1>1, <1>2, <1>3 DEF AppInv, Alive

\* The process takes everything of its own with it, and nothing else.
LEMMA DieApp ==
    ASSUME AppInv, SdkInv, NEW c \in Clients, Die(c)
    PROVE  AppInv'
<1>1. /\ opened' = opened \ OwnedBy(c) /\ popped' = popped \ OwnedBy(c)
      /\ rows' = [s \in Screens |-> IF Owner[s] = c THEN <<>> ELSE rows[s]]
      /\ segment' = [v \in Controllers |-> IF v \in OwnedBy(c) THEN 0 ELSE segment[v]]
      /\ queued' = [queued EXCEPT ![c] = <<>>]
      /\ observing' = {s \in observing : Owner[s] # c}
    BY DEF Die, DB!Kill
<1>2. \A s \in Screens : VcOf(s) \in OwnedBy(c) <=> Owner[s] = c
    BY ControllerTypes
<1>3. rows' \in [Screens -> Seq(Writes)]
    BY <1>1, EmptySeq DEF AppInv
<1>4. \A s \in Screens : rows'[s] # <<>> => Alive(VcOf(s))'
    BY <1>1, <1>2 DEF AppInv, Alive
<1>5. \A s \in observing' : VcOf(s) \in opened'
    BY <1>1, <1>2 DEF AppInv, SdkInv
<1>6. segment' \in [Controllers -> {0, 1}]
    BY <1>1 DEF AppInv
<1>7. ASSUME NEW a \in Clients PROVE queued'[a] \in Seq(Calls(a, opened'))
    <2>1. CASE a = c
        BY <1>1, <2>1, EmptySeq DEF AppInv
    <2>2. CASE a # c
        <3>1. queued'[a] = queued[a]
            BY <1>1, <2>2 DEF AppInv
        <3>2. Calls(a, opened) \subseteq Calls(a, opened')
            BY <1>1, <1>2, <2>2 DEF Calls
        <3> QED  BY <3>1, <3>2, SeqMonotonic DEF AppInv
    <2> QED  BY <2>1, <2>2
<1>8. DOMAIN queued' = Clients
    BY <1>1 DEF AppInv
<1> QED
    BY <1>1, <1>3, <1>4, <1>5, <1>6, <1>7, <1>8 DEF AppInv

\* An array filled from a snapshot is an array of writes.
LEMMA FilledArrays ==
    ASSUME NEW s, NEW d
    PROVE  LET S == Items(s, d)
           IN  /\ InOrder(S) \in Seq(Writes) /\ Len(InOrder(S)) = Cardinality(S)
               /\ Reversed(S) \in Seq(Writes)
               /\ S # {} => (CHOOSE w \in S : \A v \in S : KeyOf[v] <= KeyOf[w]) \in S
               /\ S \subseteq Writes
<1> DEFINE S == Items(s, d)
<1>1. /\ Cardinality(S) \in Nat /\ S \subseteq Writes
      /\ InOrder(S) \in [1 .. Cardinality(S) -> S]
      /\ Reversed(S) \in [1 .. Cardinality(S) -> S]
    BY ListsOfItems, ItemsAreDistinct
<1>2. S # {} => \E w \in S : \A v \in S : KeyOf[v] <= KeyOf[w]
    BY LastRecord
<1> HIDE DEF S
<1>3. InOrder(S) \in Seq(S) /\ Reversed(S) \in Seq(S)
    BY <1>1, SeqDef
<1>4. Len(InOrder(S)) = Cardinality(S)
    BY <1>1, <1>3, LenProperties
<1>5. S # {} => (CHOOSE w \in S : \A v \in S : KeyOf[v] <= KeyOf[w]) \in S
    BY <1>2
<1>6. InOrder(S) \in Seq(Writes) /\ Reversed(S) \in Seq(Writes)
    BY <1>1, <1>3, SeqMonotonic
<1> QED
    BY <1>1, <1>4, <1>5, <1>6 DEF S

\* A snapshot goes into the array of a controller that is there.
LEMMA EventApp ==
    ASSUME AppInv, NEW s \in Screens, Event(s)
    PROVE  AppInv'
<1> DEFINE mine == Items(s, Head(events[s]))
<1>1. UNCHANGED <<observing, opened, popped, segment, queued>>
    BY DEF Event, UsersSetup, ProfileSetup, ModelSetup, OrphanEvent, DB!FireEvent
<1>2. \/ UNCHANGED rows
      \/ Alive(VcOf(s)) /\ \E a \in Seq(Writes) : rows' = [rows EXCEPT ![s] = a]
    <2>1. CASE UsersSetup(s)
        <3>1. rows[s] \o InOrder(mine) \in Seq(Writes)
            BY FilledArrays, ConcatProperties DEF AppInv
        <3> QED  BY <2>1, <3>1 DEF UsersSetup
    <2>2. CASE ProfileSetup(s)
        <3> DEFINE last == CHOOSE w \in mine : \A v \in mine : KeyOf[v] <= KeyOf[w]
        <3>1. mine # {} => last \in Writes
            BY FilledArrays
        <3>2. rows' = [rows EXCEPT ![s] = IF mine = {} THEN @ ELSE <<last>>] /\ Alive(VcOf(s))
            BY <2>2 DEF ProfileSetup
        <3> HIDE DEF mine, last
        <3>3. mine # {} => <<last>> \in Seq(Writes)
            BY <3>1
        <3>4. CASE mine = {}
            BY <3>2, <3>4 DEF AppInv
        <3>5. CASE mine # {}
            BY <3>2, <3>3, <3>5
        <3> QED  BY <3>4, <3>5
    <2>3. CASE ModelSetup(s)
        <3>1. Reversed(mine) \in Seq(Writes)
            BY FilledArrays
        <3> QED  BY <2>3, <3>1 DEF ModelSetup
    <2>4. CASE OrphanEvent(s)
        BY <2>4 DEF OrphanEvent
    <2> QED  BY <2>1, <2>2, <2>3, <2>4 DEF Event
<1> HIDE DEF mine
<1>3. rows' \in [Screens -> Seq(Writes)]
    BY <1>2 DEF AppInv
<1>4. \A t \in Screens : rows'[t] # <<>> => Alive(VcOf(t))'
    BY <1>1, <1>2 DEF AppInv, Alive
<1> QED
    BY <1>1, <1>3, <1>4 DEF AppInv

\* The head of a queue goes.
LEMMA Dequeued ==
    ASSUME AppInv, NEW c \in Clients, queued[c] # <<>>, UNCHANGED opened,
           queued' = [queued EXCEPT ![c] = Tail(@)]
    PROVE  /\ Head(queued[c]) \in Calls(c, opened)
           /\ DOMAIN queued' = Clients
           /\ \A a \in Clients : queued'[a] \in Seq(Calls(a, opened'))
<1>1. queued[c] \in Seq(Calls(c, opened)) /\ DOMAIN queued = Clients
    BY DEF AppInv
<1>2. Head(queued[c]) \in Calls(c, opened) /\ Tail(queued[c]) \in Seq(Calls(c, opened))
    BY <1>1, HeadTailProperties
<1> QED
    BY <1>1, <1>2 DEF AppInv

\* The SDK registers a feed of a controller that has been loaded.
LEMMA RunObserveApp ==
    ASSUME AppInv, NEW s \in Screens, RunObserve(s)
    PROVE  AppInv'
<1>0. Owner[s] \in Clients
    BY ControllerTypes
<1>1. /\ queued[Owner[s]] # <<>> /\ Head(queued[Owner[s]]) = ObserveCall(s)
      /\ queued' = [queued EXCEPT ![Owner[s]] = Tail(@)]
      /\ observing' = observing \cup {s}
      /\ UNCHANGED <<opened, popped, rows, segment>>
    BY DEF RunObserve, DB!Observe
<1>2. /\ ObserveCall(s) \in Calls(Owner[s], opened)
      /\ DOMAIN queued' = Clients
      /\ \A a \in Clients : queued'[a] \in Seq(Calls(a, opened'))
    BY <1>0, <1>1, Dequeued
<1>3. VcOf(s) \in opened
    BY <1>2, CallsDiffer DEF Calls
<1> QED
    BY <1>1, <1>2, <1>3 DEF AppInv, Alive

\* The SDK takes a write.
LEMMA RunSetValueApp ==
    ASSUME AppInv, NEW w \in Writes, RunSetValue(w)
    PROVE  AppInv'
<1>0. Writer[w] \in Clients
    BY ControllerTypes
<1>1. /\ queued[Writer[w]] # <<>>
      /\ queued' = [queued EXCEPT ![Writer[w]] = Tail(@)]
      /\ UNCHANGED <<opened, popped, rows, segment, observing>>
    BY DEF RunSetValue, DB!SetValue
<1>2. /\ DOMAIN queued' = Clients
      /\ \A a \in Clients : queued'[a] \in Seq(Calls(a, opened'))
    BY <1>0, <1>1, Dequeued
<1> QED
    BY <1>1, <1>2 DEF AppInv, Alive

\* Every step keeps the app's state.
LEMMA NextApp ==
    ASSUME AppInv, SdkInv, [Next]_vars
    PROVE  AppInv'
<1>1. CASE \E v \in Controllers : ViewDidLoad(v) \/ Pop(v) \/ SegmentedAction(v)
    BY <1>1, ViewDidLoadApp, PopApp, SegmentedActionApp
<1>2. CASE \E c \in Clients : Die(c)
    BY <1>2, DieApp
<1>3. CASE \E v \in Controllers : CellForRowTraps(v)
    BY <1>2, <1>3, TrapIsDeath
<1>4. CASE \E s \in Screens : Event(s) \/ RunObserve(s)
    BY <1>4, EventApp, RunObserveApp
<1>5. CASE \E w \in Writes : Save(w) \/ RunSetValue(w)
    BY <1>5, SaveApp, RunSetValueApp
<1>6. CASE Synchronise \/ UNCHANGED vars
    <2>1. UNCHANGED <<observing, opened, popped, rows, segment, queued>>
        BY <1>6 DEF Synchronise, vars, sdkVars, DB!Apply, DB!Settle, DB!Advance
    <2> QED  BY <2>1 DEF AppInv, Alive
<1> QED
    BY <1>1, <1>2, <1>3, <1>4, <1>5, <1>6 DEF Next, NewPostAction, AddAction, SaveElsewhere

-------------------------------------------------------------------------------
\* The arrays and the view

\* What was appended is at the end.
LEMMA EndOfConcat ==
    ASSUME NEW T, NEW r \in Seq(T), NEW a \in Seq(T)
    PROVE  /\ Len(r \o a) >= Len(a)
           /\ SubSeq(r \o a, Len(r \o a) - Len(a) + 1, Len(r \o a)) = a
<1>1. PICK m \in Nat, n \in Nat : m = Len(r) /\ n = Len(a)
    BY LenProperties
<1> DEFINE b == r \o a
           e == SubSeq(b, m + 1, m + n)
<1>2. /\ b \in Seq(T) /\ Len(b) = m + n
      /\ \A i \in 1 .. m + n : b[i] = IF i <= m THEN r[i] ELSE a[i - m]
    BY <1>1, ConcatProperties
<1> HIDE DEF b
<1>3. \A i \in m + 1 .. m + n : i \in 1 .. m + n /\ b[i] \in T
    BY <1>1, <1>2, ElementOfSeq
<1>4. /\ e \in Seq(T) /\ Len(e) = IF m + 1 <= m + n THEN (m + n) - (m + 1) + 1 ELSE 0
      /\ \A i \in 1 .. (m + n) - (m + 1) + 1 : e[i] = b[(m + 1) + i - 1]
    BY <1>3, SubSeqProperties, SMTT(60)
<1>5. (m + n) - (m + 1) + 1 = n /\ Len(e) = n
    BY <1>4
<1>6. \A i \in 1 .. n : e[i] = a[i]
    <2> TAKE i \in 1 .. n
    <2>1. (m + 1) + i - 1 = m + i /\ m + i \in 1 .. m + n /\ ~(m + i <= m) /\ (m + i) - m = i
        OBVIOUS
    <2> QED  BY <1>2, <1>4, <1>5, <2>1
<1>7. e = a
    <2> HIDE DEF e
    <2> QED  BY <1>1, <1>4, <1>5, <1>6, SeqEqual
<1>8. Len(b) - Len(a) + 1 = m + 1 /\ Len(b) >= Len(a)
    BY <1>1, <1>2
<1> QED
    BY <1>2, <1>7, <1>8 DEF b

\* A property of the array alone.
LEMMA FitsStays ==
    ASSUME NEW s \in Screens, NEW d, rows'[s] = rows[s], Fits(s, d)
    PROVE  Fits(s, d)'
BY DEF Fits

\* The block leaves an array that fits its snapshot.
LEMMA SetupFits ==
    ASSUME AppInv, NEW s \in Screens, UsersSetup(s) \/ ProfileSetup(s) \/ ModelSetup(s),
           NEW d, d = Head(events[s])
    PROVE  Fits(s, d)'
<1> DEFINE S == Items(s, d)
<1>1. About(s, d) = S
    BY DEF About, Items, Wants
<1>2. rows \in [Screens -> Seq(Writes)]
    BY DEF AppInv
<1>3. /\ InOrder(S) \in Seq(Writes) /\ Len(InOrder(S)) = Cardinality(S)
      /\ S # {} => (CHOOSE w \in S : \A v \in S : KeyOf[v] <= KeyOf[w]) \in S
    BY FilledArrays
<1>4. IsInOrder(S, InOrder(S)) /\ IsReversed(S, Reversed(S))
    BY ListsOfItems
<1>5. CASE UsersSetup(s)
    <2>1. rows'[s] = rows[s] \o InOrder(S) /\ Kind[s] = "users"
        BY <1>2, <1>5 DEF UsersSetup
    <2> HIDE DEF S
    <2>2. /\ Len(rows'[s]) >= Cardinality(S)
          /\ SubSeq(rows'[s], Len(rows'[s]) - Cardinality(S) + 1, Len(rows'[s])) = InOrder(S)
        BY <1>2, <1>3, <2>1, EndOfConcat
    <2> QED  BY <1>1, <1>4, <2>1, <2>2 DEF Fits
<1>6. CASE ProfileSetup(s)
    <2> DEFINE last == CHOOSE w \in S : \A v \in S : KeyOf[v] <= KeyOf[w]
    <2>1. S # {} => rows'[s] = <<last>>
        BY <1>2, <1>6 DEF ProfileSetup
    <2>2. Kind[s] = "profile"
        BY <1>6 DEF ProfileSetup
    <2> HIDE DEF S, last
    <2>3. Len(<<last>>) = 1 /\ <<last>>[1] = last
        OBVIOUS
    <2>4. S # {} => last \in S
        BY <1>3 DEF last
    <2> QED  BY <1>1, <2>1, <2>2, <2>3, <2>4 DEF Fits
<1>7. CASE ModelSetup(s)
    <2>1. rows'[s] = Reversed(S) /\ Kind[s] # "users" /\ Kind[s] # "profile"
        BY <1>2, <1>7 DEF ModelSetup
    <2> HIDE DEF S
    <2> QED  BY <1>1, <1>4, <2>1 DEF Fits
<1> QED
    BY <1>5, <1>6, <1>7

\* An array that nothing happens to still fits its view.
LEMMA StillFits ==
    ASSUME Sdk!ReplicaInv, AppInv, FeedMatchesView, [Next]_vars, NEW s \in Screens,
           s \in observing', DB!Synced(Owner[s], Looks[s])', events'[s] = <<>>,
           events[s] = <<>>, Alive(VcOf(s)), rows'[s] = rows[s]
    PROVE  Fits(s, DB!View(Owner[s], Looks[s]))'
<1>1. PICK d : d = DB!View(Owner[s], Looks[s])
    OBVIOUS
<1>2. /\ s \in observing /\ DB!Synced(Owner[s], Looks[s])
      /\ DB!View(Owner[s], Looks[s])' = d
    BY <1>1, QuietStep
<1>3. Fits(s, d)
    BY <1>1, <1>2 DEF FeedMatchesView
<1>4. Fits(s, d)'
    BY <1>3, FitsStays
<1> QED
    BY <1>2, <1>4

\* Arrays agree with their views after every step.
LEMMA NextMatches ==
    ASSUME Sdk!ReplicaInv, SdkInv, ToldInv, AppInv, FeedMatchesView, [Next]_vars
    PROVE  FeedMatchesView'
<1> SUFFICES ASSUME NEW s \in observing', Alive(VcOf(s))',
                    DB!Synced(Owner[s], Looks[s])', events'[s] = <<>>
             PROVE  Fits(s, DB!View(Owner[s], Looks[s]))'
    BY DEF FeedMatchesView
<1>0. s \in Screens
    <2>1. observing' \subseteq observing \cup Screens
        BY TrapIsDeath DEF Next, Event, vars, sdkVars, ViewDidLoad, Pop, SegmentedAction,
            UsersSetup, ProfileSetup, ModelSetup, OrphanEvent, NewPostAction, AddAction,
            SaveElsewhere, Save, RunObserve, RunSetValue, Synchronise, Die, DB!Observe,
            DB!FireEvent, DB!SetValue, DB!Apply, DB!Settle, DB!Advance, DB!Kill
    <2> QED  BY <2>1, SMTT(60) DEF SdkInv
<1>1. CASE \E v \in Controllers : ViewDidLoad(v) \/ Pop(v) \/ SegmentedAction(v)
    <2>1. UNCHANGED <<observing, events>> /\ Alive(VcOf(s)) /\ rows'[s] = rows[s]
        BY <1>0, <1>1 DEF ViewDidLoad, Pop, SegmentedAction, sdkVars, Alive, AppInv
    <2> QED  BY <1>0, <2>1, StillFits
<1>2. CASE \E c \in Clients : Die(c)
    <2>1. PICK c \in Clients : Die(c)
        BY <1>2
    <2>2. Owner[s] # c /\ s \in observing /\ events[s] = <<>>
        BY <1>0, <2>1 DEF Die, DB!Kill
    <2>3. VcOf(s) \notin OwnedBy(c)
        BY <1>0, <2>2, ControllerTypes
    <2>4. Alive(VcOf(s)) /\ rows'[s] = rows[s]
        BY <1>0, <2>1, <2>2, <2>3 DEF Die, Alive
    <2> QED  BY <1>0, <2>2, <2>4, StillFits
<1>3. CASE \E v \in Controllers : CellForRowTraps(v)
    BY <1>2, <1>3, TrapIsDeath
<1>4. CASE \E t \in Screens : Event(t)
    <2>1. PICK t \in Screens : Event(t)
        BY <1>4
    <2>2. /\ events[t] # <<>> /\ events' = [events EXCEPT ![t] = Tail(@)]
          /\ UNCHANGED <<log, pending, pos, observing, opened, popped>>
        BY <2>1 DEF Event, UsersSetup, ProfileSetup, ModelSetup, OrphanEvent, DB!FireEvent
    <2>3. CASE s # t
        <3>1. events[s] = <<>> /\ Alive(VcOf(s)) /\ rows'[s] = rows[s]
            BY <1>0, <2>1, <2>2, <2>3
            DEF Alive, Event, UsersSetup, ProfileSetup, ModelSetup, OrphanEvent, SdkInv, AppInv
        <3> QED  BY <1>0, <3>1, StillFits
    <2>4. CASE s = t
        <3>1. PICK d : d = Head(events[s])
            OBVIOUS
        <3>2. UsersSetup(s) \/ ProfileSetup(s) \/ ModelSetup(s)
            BY <2>1, <2>2, <2>4 DEF Event, OrphanEvent, Alive
        <3>3. Fits(s, d)'
            BY <1>0, <3>1, <3>2, SetupFits
        <3>4. d = DB!View(Owner[s], Looks[s])
            <4>1. PICK T : events[s] \in Seq(T)
                BY <1>0 DEF SdkInv
            <4>2. Len(Tail(events[s])) = Len(events[s]) - 1 /\ Len(events[s]) \in Nat
                BY <2>2, <2>4, <4>1, HeadTailProperties, LenProperties
            <4>3. Tail(events[s]) = <<>>
                BY <1>0, <2>2, <2>4 DEF SdkInv
            <4>4. \A n \in Nat : 0 = n - 1 => n = 1
                OBVIOUS
            <4>5. Len(events[s]) = 1
                BY <4>2, <4>3, <4>4, EmptySeq
            <4>6. Head(events[s]) = events[s][1]
                BY <4>1, <4>5
            <4> QED  BY <1>0, <2>2, <2>4, <3>1, <4>5, <4>6 DEF ToldInv
        <3>5. DB!View(Owner[s], Looks[s])' = d
            BY <2>2, <3>4 DEF DB!View
        <3> QED  BY <3>3, <3>5
    <2> QED  BY <2>3, <2>4
<1>5. CASE \E t \in Screens : RunObserve(t)
    <2>1. PICK t \in Screens : RunObserve(t)
        BY <1>5
    <2>2. events[s] = <<>>
        <3>1. t \notin observing /\ \E v : events' = [events EXCEPT ![t] = v]
            BY <2>1 DEF RunObserve, DB!Observe
        <3> QED  BY <1>0, <3>1 DEF ToldInv, SdkInv
    <2>3. UNCHANGED <<opened, popped, rows>>
        BY <2>1 DEF RunObserve
    <2> QED  BY <1>0, <2>2, <2>3, StillFits DEF Alive
<1>6. CASE \E w \in Writes : Save(w)
    <2>1. UNCHANGED <<events, opened, popped, rows>>
        BY <1>6 DEF Save, sdkVars
    <2> QED  BY <1>0, <2>1, StillFits DEF Alive
<1>7. CASE Synchronise \/ \E w \in Writes : RunSetValue(w)
    <2>1. \/ \E w \in Writes : Sdk!SetValue(w) \/ Sdk!Apply(w)
          \/ \E c \in Clients : Sdk!Settle(c)
          \/ \E c \in Clients, l \in Locations : \E n \in 0 .. Len(log) : Sdk!Advance(c, l, n)
        BY <1>7, SameActions DEF Synchronise, RunSetValue
    <2>2. events[s] = <<>>
        BY <1>0, <2>1, SyncTreeAssumption, Sdk!NothingTaken DEF Sdk!ReplicaInv
    <2>3. UNCHANGED <<opened, popped, rows>>
        BY <1>7 DEF Synchronise, RunSetValue
    <2> QED  BY <1>0, <2>2, <2>3, StillFits DEF Alive
<1>8. CASE UNCHANGED vars
    <2>1. UNCHANGED <<events, opened, popped, rows>>
        BY <1>8, SMTT(60) DEF vars, sdkVars
    <2> QED  BY <1>0, <2>1, StillFits DEF Alive
<1> QED
    BY <1>1, <1>2, <1>3, <1>4, <1>5, <1>6, <1>7, <1>8
    DEF Next, NewPostAction, AddAction, SaveElsewhere

-------------------------------------------------------------------------------
\* The results

\* The inductive invariant: what the SDK keeps, what the controllers keep, and
\* the agreement of the two.
FeedsInv == Sdk!ReplicaInv /\ SdkInv /\ ToldInv /\ AppInv /\ FeedMatchesView

\* Every state of the list screens is one of those the invariant describes.
THEOREM FeedsSound == Spec => []FeedsInv
<1>1. Init => AppInv /\ FeedMatchesView
    <2>1. Init => FeedMatchesView
        BY DEF Init, DB!Init, FeedMatchesView
    <2> QED  BY <2>1, InitApp
<1>2. /\ Sdk!ReplicaInv /\ SdkInv /\ ToldInv
      /\ AppInv /\ FeedMatchesView /\ [Next]_vars
      => AppInv' /\ FeedMatchesView'
    BY NextApp, NextMatches
<1> QED
    BY <1>1, <1>2, SdkSound, PTL DEF Spec, FeedsInv

\* The state is well typed, and nothing runs for a controller that was never
\* loaded: the calls in the queues and the registered observers are of feeds
\* whose controllers are open, also after one of several processes died.
THEOREM TypeCorrect == Spec => []TypeOK
<1>1. FeedsInv => TypeOK
    <2> SUFFICES ASSUME FeedsInv PROVE TypeOK
        OBVIOUS
    <2>1. \A T : \A a \in Seq(T) : In(a) \subseteq T
        BY ElementOfSeq, LenProperties DEF In
    <2>2. In(log) \subseteq Writes /\ In(issued) \subseteq Writes
        BY <2>1 DEF FeedsInv, SdkInv
    <2>3. \A s \in Screens : In(events[s]) \subseteq DataIn(Looks[s])
        BY <2>1 DEF FeedsInv, SdkInv
    <2>4. \A c \in Clients : In(queued[c]) \subseteq Calls(c, opened)
        BY <2>1 DEF FeedsInv, AppInv
    <2>5. \A c \in Clients : Calls(c, opened) \subseteq
              {ObserveCall(s) : s \in {t \in Screens : VcOf(t) \in opened}}
              \cup {SetCall(w) : w \in Writes}
        BY DEF Calls
    <2>6. \A c \in Clients : In(queued[c]) \subseteq
              {ObserveCall(s) : s \in {t \in Screens : VcOf(t) \in opened}}
              \cup {SetCall(w) : w \in Writes}
        BY <2>4, <2>5
    <2> QED  BY <2>2, <2>3, <2>6 DEF FeedsInv, SdkInv, AppInv, TypeOK
<1> QED
    BY <1>1, FeedsSound, PTL

\* An array that has been given every snapshot agrees with the SDK's view:
\* newest first and nothing else, everybody at the end of the list of users,
\* the profile one of the wanted e-mail.
THEOREM FeedsMatch == Spec => []FeedMatchesView
<1>1. FeedsInv => FeedMatchesView
    BY DEF FeedsInv
<1> QED
    BY <1>1, FeedsSound, PTL
===============================================================================
