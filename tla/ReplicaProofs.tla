----------------------------- MODULE ReplicaProofs -----------------------------
(***************************************************************************)
(* What follows from the promises of the Realtime Database SDK (Replica),  *)
(* for any number of clients, screens, locations and writes.               *)
(*                                                                         *)
(* The last snapshot on its way to a screen is the client's view of now,   *)
(* and a write that a snapshot has shown stays in the view for as long as  *)
(* the process lives, unless the server has refused it.  The proofs about  *)
(* the screens rest on these two facts.                                    *)
(***************************************************************************)
EXTENDS Replica, SyncTreeProofs

\* What a screen of location l can be told when I are the writes made so far.
Snapshots(I, l) == [KeysIn(l) -> I \cup {NoWrite}]

\* The SDK's state: types, and everything in it was written by setValue.
SdkInv ==
    /\ log \in Seq(Writes)
    /\ issued \in Seq(Writes)
    /\ pending \in [Clients -> Seq(Writes)]
    /\ pos \in [Clients -> [Locations -> Nat \cup {NotSynced}]]
    /\ observing \subseteq Screens
    /\ kills \in Nat
    /\ DOMAIN events = Screens
    /\ \A c \in Clients, l \in Locations : pos[c][l] <= Len(log)
    /\ In(log) \subseteq In(issued)
    /\ \A c \in Clients : In(pending[c]) \subseteq In(issued)
    /\ \A s \in Screens : events[s] \in Seq(Snapshots(In(issued), Looks[s]))

\* A screen that does not observe, or that has not been told anything yet, has
\* nothing to come; the last snapshot on its way to a screen is the view.
ToldInv ==
    \A s \in Screens :
        /\ s \notin observing \/ ~Synced(Owner[s], Looks[s]) => events[s] = <<>>
        /\ events[s] # <<>> => events[s][Len(events[s])] = View(Owner[s], Looks[s])

\* A write is pending once, with the client that made it.
OwnInv ==
    \A c \in Clients :
        /\ \A w \in In(pending[c]) : Writer[w] = c
        /\ \A i, j \in DOMAIN pending[c] : pending[c][i] = pending[c][j] => i = j

\* Client c has w in its view, unless a later write of the same child hides it.
Seen(c, w) == w \in In(pending[c]) \/ Includes(pos[c][WriteLoc(w)], w)

\* The server has refused w: it will never be applied.
Refused(w) == w \in In(issued) /\ w \notin In(log) /\ w \notin In(pending[Writer[w]])

Kept(c, w) == Seen(c, w) \/ Refused(w)

\* A write in a snapshot on its way has not been lost since.
FateInv ==
    \A s \in Screens : \A i \in DOMAIN events[s] : \A w \in Writes :
        WriteLoc(w) = Looks[s] /\ events[s][i][KeyOf[w]] = w => Kept(Owner[s], w)

\* The inductive invariant.
ReplicaInv == SdkInv /\ ToldInv /\ OwnInv /\ FateInv

-------------------------------------------------------------------------------
\* Types

\* Types of the constants that the proofs use.
LEMMA ConstantTypes ==
    /\ \A s \in Screens : Owner[s] \in Clients /\ Looks[s] \in Locations
    /\ \A w \in Writes : /\ Writer[w] \in Clients /\ WriteLoc(w) \in Locations
                         /\ KeyOf[w] \in Keys /\ KeyOf[w] \in KeysIn(WriteLoc(w))
BY SyncTreeAssumption DEF WriteLoc, KeysIn

\* The view of a client of a location it has a copy of.
LEMMA ViewIsSnapshot ==
    ASSUME SdkInv, NEW c \in Clients, NEW l \in Locations, NEW n \in 0 .. Len(log),
           NEW ws \in Seq(Writes), NEW I, In(log) \subseteq I, In(ws) \subseteq I
    PROVE  Layer(DataAt(log, n, l), ws) \in Snapshots(I, l)
<1>1. Layer(DataAt(log, n, l), ws) \in [KeysIn(l) -> In(log) \cup In(ws) \cup {NoWrite}]
    BY ViewRange DEF SdkInv
<1> HIDE DEF SdkInv
<1> QED
    BY <1>1 DEF Snapshots

\* Raising one snapshot or none keeps the main queue's snapshots sound.
LEMMA RaiseKeepsEvents ==
    ASSUME SdkInv, NEW c \in Clients, NEW l \in Locations, NEW I,
           In(issued) \subseteq I,
           NEW vs \in Seq(Snapshots(I, l)), Raise(c, l, vs)
    PROVE  /\ DOMAIN events' = Screens
           /\ \A s \in Screens : events'[s] \in Seq(Snapshots(I, Looks[s]))
<1>1. \A k : Snapshots(In(issued), k) \subseteq Snapshots(I, k)
    BY DEF Snapshots
<1>2. \A s \in Screens : events[s] \in Seq(Snapshots(I, Looks[s]))
    BY <1>1, SeqMonotonic DEF SdkInv
<1>3. ASSUME NEW s \in Screens PROVE events'[s] \in Seq(Snapshots(I, Looks[s]))
    <2>1. CASE s \in observing /\ Owner[s] = c /\ Looks[s] = l
        <3>1. events'[s] = events[s] \o vs
            BY <2>1 DEF Raise
        <3> QED  BY <3>1, <2>1, <1>2, ConcatProperties
    <2>2. CASE ~(s \in observing /\ Owner[s] = c /\ Looks[s] = l)
        <3>1. events'[s] = events[s]
            BY <2>2 DEF Raise
        <3> QED  BY <3>1, <1>2
    <2> QED  BY <2>1, <2>2
<1> QED
    BY <1>3 DEF Raise

\* A changed view is one snapshot, an unchanged one none.
LEMMA ChangedIsSnapshots ==
    ASSUME NEW S, NEW old, NEW new \in S
    PROVE  Changed(old, new) \in Seq(S)
BY DEF Changed

\* A view of a location of which a snapshot has arrived is a snapshot itself.
LEMMA SyncedView ==
    ASSUME SdkInv, NEW c \in Clients, NEW l \in Locations, Synced(c, l),
           NEW ws \in Seq(Writes), NEW I, In(issued) \subseteq I, In(ws) \subseteq I
    PROVE  Layer(DataAt(log, pos[c][l], l), ws) \in Snapshots(I, l)
<1>1. pos[c][l] \in 0 .. Len(log)
    BY DEF SdkInv, Synced, NotSynced
<1>2. In(log) \subseteq I
    BY DEF SdkInv
<1> QED
    BY <1>1, <1>2, ViewIsSnapshot

\* observe keeps the SDK's invariant.
LEMMA ObserveKeepsSdk ==
    ASSUME SdkInv, NEW s \in Screens, Observe(s)
    PROVE  SdkInv' /\ issued' = issued
<1> DEFINE c == Owner[s]
           l == Looks[s]
<1>0. c \in Clients /\ l \in Locations
    BY ConstantTypes
<1>1. ASSUME Synced(c, l)
      PROVE  View(c, l) \in Snapshots(In(issued), l)
    <2>1. pending[c] \in Seq(Writes) /\ In(pending[c]) \subseteq In(issued)
        BY <1>0 DEF SdkInv
    <2>2. Layer(DataAt(log, pos[c][l], l), pending[c]) \in Snapshots(In(issued), l)
        <3> HIDE DEF c, l
        <3> QED  BY <1>0, <1>1, <2>1, SyncedView
    <2> QED  BY <2>2 DEF View
<1>2. /\ DOMAIN events' = Screens
      /\ \A t \in Screens : events'[t] \in Seq(Snapshots(In(issued), Looks[t]))
    <2>1. events[s] \in Seq(Snapshots(In(issued), l))
        BY DEF SdkInv
    <2>2. CASE Synced(c, l)
        <3>1. events' = [events EXCEPT ![s] = Append(events[s], View(c, l))]
            BY <2>2 DEF Observe
        <3>2. Append(events[s], View(c, l)) \in Seq(Snapshots(In(issued), l))
            BY <1>1, <2>1, <2>2, AppendProperties
        <3> HIDE DEF l
        <3> QED  BY <3>1, <3>2 DEF SdkInv, l
    <2>3. CASE ~Synced(c, l)
        BY <2>3 DEF Observe, SdkInv
    <2> QED  BY <2>2, <2>3
<1> QED
    BY <1>2 DEF SdkInv, Observe

\* setValue keeps the SDK's invariant; the write is one of the issued ones.
LEMMA SetValueKeepsSdk ==
    ASSUME SdkInv, NEW w \in Writes, SetValue(w)
    PROVE  SdkInv' /\ In(issued') = In(issued) \cup {w}
<1> DEFINE c == Writer[w]
           l == WriteLoc(w)
           ws == Append(pending[c], w)
           vs == IF Synced(c, l)
                 THEN Changed(View(c, l), Layer(DataAt(log, pos[c][l], l), ws))
                 ELSE <<>>
<1>0. c \in Clients /\ l \in Locations
    BY ConstantTypes
<1>1. issued' = Append(issued, w) /\ issued' \in Seq(Writes)
    BY DEF SetValue, SdkInv
<1>2. In(issued') = In(issued) \cup {w}
    BY <1>1, InAppend DEF SdkInv
<1>3. pending[c] \in Seq(Writes) /\ In(pending[c]) \subseteq In(issued)
    BY <1>0 DEF SdkInv
<1>4. ws \in Seq(Writes) /\ In(ws) = In(pending[c]) \cup {w}
    BY <1>3, InAppend
<1>5. vs \in Seq(Snapshots(In(issued'), l))
    <2>1. CASE Synced(c, l)
        <3> HIDE DEF c, l, ws
        <3>1. Layer(DataAt(log, pos[c][l], l), ws) \in Snapshots(In(issued'), l)
            BY <1>0, <1>2, <1>3, <1>4, <2>1, SyncedView
        <3> QED  BY <3>1, <2>1, ChangedIsSnapshots
    <2>2. CASE ~Synced(c, l)
        BY <2>2
    <2> QED  BY <2>1, <2>2
<1>6. Raise(c, l, vs)
    BY DEF SetValue
<1>7. /\ DOMAIN events' = Screens
      /\ \A s \in Screens : events'[s] \in Seq(Snapshots(In(issued'), Looks[s]))
    <2> HIDE DEF c, l, vs
    <2> QED  BY <1>0, <1>2, <1>5, <1>6, RaiseKeepsEvents
<1>8. /\ pending' \in [Clients -> Seq(Writes)]
      /\ \A d \in Clients : In(pending'[d]) \subseteq In(issued')
    <2>1. pending' = [pending EXCEPT ![c] = ws]
        BY DEF SetValue
    <2> HIDE DEF c, ws
    <2> QED  BY <2>1, <1>0, <1>2, <1>3, <1>4 DEF SdkInv
<1> QED
    BY <1>1, <1>2, <1>7, <1>8 DEF SdkInv, SetValue

\* The server applying a pending write keeps the SDK's invariant.
LEMMA ApplyKeepsSdk ==
    ASSUME SdkInv, NEW w \in Writes, Apply(w)
    PROVE  SdkInv' /\ issued' = issued
<1>1. Writer[w] \in Clients /\ w \in In(pending[Writer[w]])
    BY ConstantTypes DEF Apply
<1>2. log' \in Seq(Writes) /\ In(log') = In(log) \cup {w} /\ Len(log') = Len(log) + 1
    BY InAppend, AppendProperties DEF Apply, SdkInv
<1>3. \A c \in Clients, l \in Locations : pos[c][l] <= Len(log')
    BY <1>2, LenProperties DEF SdkInv, NotSynced
<1> QED
    BY <1>1, <1>2, <1>3 DEF SdkInv, Apply

\* Learning a later state of a location keeps the SDK's invariant.
LEMMA AdvanceKeepsSdk ==
    ASSUME SdkInv, NEW c \in Clients, NEW l \in Locations, NEW n \in 0 .. Len(log),
           Advance(c, l, n)
    PROVE  SdkInv' /\ issued' = issued
<1> DEFINE new == Layer(DataAt(log, n, l), pending[c])
           vs == IF Synced(c, l) THEN Changed(View(c, l), new) ELSE <<new>>
<1>1. new \in Snapshots(In(issued), l)
    <2>1. /\ pending[c] \in Seq(Writes) /\ In(pending[c]) \subseteq In(issued)
          /\ In(log) \subseteq In(issued)
        BY DEF SdkInv
    <2> QED  BY <2>1, ViewIsSnapshot
<1>2. vs \in Seq(Snapshots(In(issued), l))
    <2> HIDE DEF new
    <2> QED  BY <1>1, ChangedIsSnapshots
<1>3. Raise(c, l, vs)
    BY DEF Advance
<1>4. /\ DOMAIN events' = Screens
      /\ \A s \in Screens : events'[s] \in Seq(Snapshots(In(issued), Looks[s]))
    <2> HIDE DEF vs
    <2> QED  BY <1>2, <1>3, RaiseKeepsEvents
<1>5. /\ pos' \in [Clients -> [Locations -> Nat \cup {NotSynced}]]
      /\ \A d \in Clients, k \in Locations : pos'[d][k] <= Len(log)
    <2>1. pos' = [pos EXCEPT ![c][l] = n] /\ n \in Nat /\ n <= Len(log)
        BY LenProperties DEF Advance, SdkInv
    <2> QED  BY <2>1 DEF SdkInv
<1> QED
    BY <1>4, <1>5 DEF SdkInv, Advance

\* Settling a write keeps the SDK's invariant.
LEMMA SettleKeepsSdk ==
    ASSUME SdkInv, NEW c \in Clients, Settle(c)
    PROVE  SdkInv' /\ issued' = issued
<1> DEFINE l == WriteLoc(Head(pending[c]))
           ws == Tail(pending[c])
           vs == IF Synced(c, l)
                 THEN Changed(View(c, l), Layer(DataAt(log, pos[c][l], l), ws))
                 ELSE <<>>
<1>1. /\ pending[c] \in Seq(Writes) /\ pending[c] # <<>>
      /\ In(pending[c]) \subseteq In(issued)
    BY DEF SdkInv, Settle
<1>2. ws \in Seq(Writes) /\ In(ws) \subseteq In(issued) /\ Head(pending[c]) \in Writes
    BY <1>1, InTail, HeadTailProperties
<1>3. l \in Locations
    BY <1>2, ConstantTypes
<1>4. vs \in Seq(Snapshots(In(issued), l))
    <2>1. CASE Synced(c, l)
        <3> HIDE DEF l, ws
        <3>1. Layer(DataAt(log, pos[c][l], l), ws) \in Snapshots(In(issued), l)
            BY <1>2, <1>3, <2>1, SyncedView
        <3> QED  BY <3>1, <2>1, ChangedIsSnapshots
    <2>2. CASE ~Synced(c, l)
        BY <2>2
    <2> QED  BY <2>1, <2>2
<1>5. Raise(c, l, vs)
    BY DEF Settle
<1>6. /\ DOMAIN events' = Screens
      /\ \A s \in Screens : events'[s] \in Seq(Snapshots(In(issued), Looks[s]))
    <2> HIDE DEF l, vs
    <2> QED  BY <1>3, <1>4, <1>5, RaiseKeepsEvents
<1>7. /\ pending' \in [Clients -> Seq(Writes)]
      /\ \A d \in Clients : In(pending'[d]) \subseteq In(issued)
    <2>1. pending' = [pending EXCEPT ![c] = ws]
        BY DEF Settle
    <2> HIDE DEF ws
    <2> QED  BY <2>1, <1>2 DEF SdkInv
<1> QED
    BY <1>6, <1>7 DEF SdkInv, Settle

\* Handing a snapshot over keeps the SDK's invariant.
LEMMA FireEventKeepsSdk ==
    ASSUME SdkInv, NEW s \in Screens, FireEvent(s)
    PROVE  /\ SdkInv' /\ issued' = issued
           /\ Head(events[s]) \in Snapshots(In(issued), Looks[s])
<1>1. events[s] # <<>> /\ events[s] \in Seq(Snapshots(In(issued), Looks[s]))
    BY DEF SdkInv, FireEvent
<1>2. /\ Head(events[s]) \in Snapshots(In(issued), Looks[s])
      /\ Tail(events[s]) \in Seq(Snapshots(In(issued), Looks[s]))
    BY <1>1, HeadTailProperties
<1> QED
    BY <1>2 DEF SdkInv, FireEvent

\* The death of a process keeps the SDK's invariant.
LEMMA KillKeepsSdk ==
    ASSUME SdkInv, NEW c \in Clients, Kill(c)
    PROVE  SdkInv' /\ issued' = issued
<1>1. In(<<>>) = {}
    BY DEF In
<1>2. /\ pos' \in [Clients -> [Locations -> Nat \cup {NotSynced}]]
      /\ \A d \in Clients, l \in Locations : pos'[d][l] <= Len(log)
    <2>1. Len(log) \in Nat /\ NotSynced <= Len(log)
        BY LenProperties DEF SdkInv, NotSynced
    <2>2. pos' = [pos EXCEPT ![c] = [l \in Locations |-> NotSynced]]
        BY DEF Kill
    <2> QED  BY <2>1, <2>2 DEF SdkInv
<1>3. /\ pending' \in [Clients -> Seq(Writes)]
      /\ \A d \in Clients : In(pending'[d]) \subseteq In(issued)
    BY <1>1 DEF SdkInv, Kill
<1>4. /\ DOMAIN events' = Screens
      /\ \A s \in Screens : events'[s] \in Seq(Snapshots(In(issued), Looks[s]))
    <2>1. events' = [s \in Screens |-> IF Owner[s] = c THEN <<>> ELSE events[s]]
        BY DEF Kill
    <2>2. \A S : <<>> \in Seq(S)
        BY EmptySeq
    <2>3. \A s \in Screens : events[s] \in Seq(Snapshots(In(issued), Looks[s]))
        BY DEF SdkInv
    <2> QED  BY <2>1, <2>2, <2>3
<1> QED
    BY <1>2, <1>3, <1>4 DEF SdkInv, Kill
-------------------------------------------------------------------------------
\* The view and the snapshots

\* The data below the view of a client.
LEMMA SyncedData ==
    ASSUME SdkInv, NEW c \in Clients, NEW l \in Locations, Synced(c, l)
    PROVE  /\ pos[c][l] \in 0 .. Len(log)
           /\ DOMAIN DataAt(log, pos[c][l], l) = KeysIn(l)
           /\ pending[c] \in Seq(Writes) /\ log \in Seq(Writes)
<1>1. pos[c][l] \in 0 .. Len(log)
    BY DEF SdkInv, Synced, NotSynced
<1>2. pending[c] \in Seq(Writes) /\ log \in Seq(Writes)
    BY DEF SdkInv
<1> QED
    BY <1>1, <1>2, DataAtRange

\* A write in the view is pending or in the part of the log that is known.
LEMMA ViewSeen ==
    ASSUME SdkInv, NEW c \in Clients, NEW w \in Writes, Synced(c, WriteLoc(w)),
           View(c, WriteLoc(w))[KeyOf[w]] = w
    PROVE  Seen(c, w)
<1> DEFINE l == WriteLoc(w)
           k == KeyOf[w]
           d == DataAt(log, pos[c][l], l)
<1>1. /\ l \in Locations /\ k \in KeysIn(l) /\ w # NoWrite
    BY ConstantTypes, SyncTreeAssumption
<1>2. /\ pos[c][l] \in 0 .. Len(log) /\ DOMAIN d = KeysIn(l)
      /\ pending[c] \in Seq(Writes) /\ log \in Seq(Writes)
    <2> HIDE DEF l, d
    <2> QED  BY <1>1, SyncedData DEF l, d
<1>3. Layer(d, pending[c])[k] = w
    BY DEF View
<1>4. d[k] = w \/ w \in In(pending[c])
    <2> HIDE DEF d, l, k
    <2> QED  BY <1>1, <1>2, <1>3, LayerRange
<1>5. CASE d[k] = w
    <2>1. \E i \in 1 .. pos[c][l] : log[i] = w
        <3> HIDE DEF l, k
        <3> QED  BY <1>1, <1>2, <1>5, DataAtSource DEF d
    <2> QED  BY <2>1 DEF Seen, Includes
<1>6. CASE w \in In(pending[c])
    BY <1>6 DEF Seen
<1> QED
    BY <1>4, <1>5, <1>6

\* Every snapshot on its way after a step was so before or is the new view.
Grows ==
    \A s \in Screens : \A i \in DOMAIN events'[s] :
        \/ \E j \in DOMAIN events[s] : events'[s][i] = events[s][j]
        \/ Synced(Owner[s], Looks[s])' /\ events'[s][i] = View(Owner[s], Looks[s])'

\* A screen with nothing to come has been handed its last snapshot, or its
\* view is what it was.
Quiet ==
    \A s \in Screens : s \in observing' /\ Synced(Owner[s], Looks[s])' /\ events'[s] = <<>> =>
        \/ events[s] # <<>>
        \/ /\ s \in observing /\ Synced(Owner[s], Looks[s])
           /\ View(Owner[s], Looks[s])' = View(Owner[s], Looks[s])

\* One view changes at most, and the screens are told if it does.
LEMMA RaiseTells ==
    ASSUME SdkInv, ToldInv, NEW c \in Clients, NEW l \in Locations, NEW vs, Raise(c, l, vs),
           UNCHANGED observing,
           \A d \in Clients, k \in Locations : d # c \/ k # l =>
              /\ Synced(d, k)' <=> Synced(d, k)
              /\ Synced(d, k) => View(d, k)' = View(d, k),
           \/ /\ vs = <<>> /\ (Synced(c, l)' <=> Synced(c, l))
              /\ Synced(c, l) => View(c, l)' = View(c, l)
           \/ Synced(c, l)' /\ vs = <<View(c, l)'>>
    PROVE  ToldInv' /\ Grows /\ Quiet
<1> SUFFICES ASSUME NEW s \in Screens
             PROVE  /\ s \notin observing' \/ ~Synced(Owner[s], Looks[s])' => events'[s] = <<>>
                    /\ events'[s] # <<>> =>
                          events'[s][Len(events'[s])] = View(Owner[s], Looks[s])'
                    /\ \A i \in DOMAIN events'[s] :
                          \/ \E j \in DOMAIN events[s] : events'[s][i] = events[s][j]
                          \/ /\ Synced(Owner[s], Looks[s])'
                             /\ events'[s][i] = View(Owner[s], Looks[s])'
                    /\ s \in observing' /\ Synced(Owner[s], Looks[s])' /\ events'[s] = <<>> =>
                          \/ events[s] # <<>>
                          \/ /\ s \in observing /\ Synced(Owner[s], Looks[s])
                             /\ View(Owner[s], Looks[s])' = View(Owner[s], Looks[s])
    BY DEF ToldInv, Grows, Quiet
<1> DEFINE o == Owner[s]
           k == Looks[s]
<1>1. /\ o \in Clients /\ k \in Locations
      /\ s \notin observing \/ ~Synced(o, k) => events[s] = <<>>
      /\ events[s] # <<>> => events[s][Len(events[s])] = View(o, k)
    BY ConstantTypes DEF ToldInv
<1>2. PICK S : events[s] \in Seq(S)
    BY DEF SdkInv
<1>3. ASSUME events'[s] = events[s], Synced(o, k)' <=> Synced(o, k),
             Synced(o, k) => View(o, k)' = View(o, k)
      PROVE  /\ s \notin observing' \/ ~Synced(o, k)' => events'[s] = <<>>
             /\ events'[s] # <<>> => events'[s][Len(events'[s])] = View(o, k)'
             /\ \A i \in DOMAIN events'[s] :
                   \/ \E j \in DOMAIN events[s] : events'[s][i] = events[s][j]
                   \/ Synced(o, k)' /\ events'[s][i] = View(o, k)'
             /\ s \in observing' /\ Synced(o, k)' /\ events'[s] = <<>> =>
                   s \in observing /\ Synced(o, k) /\ View(o, k)' = View(o, k)
    BY <1>1, <1>3
<1>4. CASE ~(s \in observing /\ o = c /\ k = l)
    <2>1. events'[s] = events[s]
        BY <1>4 DEF Raise
    <2>2. CASE o # c \/ k # l
        BY <1>1, <1>3, <2>1, <2>2
    <2>3. CASE s \notin observing
        BY <1>1, <2>1, <2>3
    <2> QED  BY <1>4, <2>2, <2>3
<1>5. CASE s \in observing /\ o = c /\ k = l /\ vs = <<>> /\ (Synced(c, l)' <=> Synced(c, l))
           /\ (Synced(c, l) => View(c, l)' = View(c, l))
    <2>1. events'[s] = events[s] \o <<>>
        BY <1>5 DEF Raise
    <2>2. events[s] \o <<>> = events[s]
        BY <1>2, ConcatEmptySeq
    <2> QED  BY <1>3, <1>5, <2>1, <2>2
<1>6. CASE s \in observing /\ o = c /\ k = l /\ Synced(c, l)' /\ vs = <<View(c, l)'>>
    <2> DEFINE v == View(c, l)'
               new == Append(events[s], v)
    <2>1. events'[s] = events[s] \o <<v>>
        BY <1>6 DEF Raise
    <2> HIDE DEF v
    <2>2. events[s] \o <<v>> = Append(events[s], v)
        <3>1. events[s] \in Seq(S \cup {v}) /\ v \in S \cup {v}
            BY <1>2
        <3> QED  BY <3>1, AppendIsConcat
    <2>3. /\ new \in Seq(S \cup {v}) /\ DOMAIN new = 1 .. Len(events[s]) + 1
          /\ Len(new) = Len(events[s]) + 1
          /\ Len(events[s]) \in Nat /\ DOMAIN events[s] = 1 .. Len(events[s])
          /\ \A i \in 1 .. Len(events[s]) : new[i] = events[s][i]
          /\ new[Len(events[s]) + 1] = v
        <3>1. events[s] \in Seq(S \cup {v}) /\ v \in S \cup {v}
            BY <1>2
        <3> QED  BY <3>1, AppendProperties, LenProperties
    <2> HIDE DEF new
    <2>4. \A n \in Nat : \A i \in 1 .. n + 1 : i \in 1 .. n \/ i = n + 1
        OBVIOUS
    <2>5. events'[s] = new /\ v = View(o, k)' /\ Synced(o, k)'
        BY <1>6, <2>1, <2>2 DEF new, v
    <2>6. \A i \in DOMAIN new : (\E j \in DOMAIN events[s] : new[i] = events[s][j]) \/ new[i] = v
        BY <2>3, <2>4
    <2>7. new[Len(new)] = v
        BY <2>3
    <2>8. s \in observing' /\ new # <<>>
        BY <1>6, <2>3, EmptySeq
    <2> QED  BY <2>5, <2>6, <2>7, <2>8
<1> QED
    BY <1>4, <1>5, <1>6

\* A child of another location is not one of this location.
LEMMA OtherKeys ==
    ASSUME NEW w \in Writes, NEW k, k # WriteLoc(w)
    PROVE  KeyOf[w] \notin KeysIn(k)
BY DEF WriteLoc, KeysIn

\* setValue changes the view of its own location.
LEMMA SetValueTells ==
    ASSUME SdkInv, ToldInv, NEW w \in Writes, SetValue(w)
    PROVE  ToldInv' /\ Grows /\ Quiet
<1> DEFINE c == Writer[w]
           l == WriteLoc(w)
           new == Layer(DataAt(log, pos[c][l], l), Append(pending[c], w))
           vs == IF Synced(c, l) THEN Changed(View(c, l), new) ELSE <<>>
<1>1. c \in Clients /\ l \in Locations
    BY ConstantTypes
<1>2. /\ UNCHANGED <<log, pos, observing>>
      /\ pending' = [pending EXCEPT ![c] = Append(pending[c], w)]
      /\ Raise(c, l, vs)
    BY DEF SetValue
<1>3. pending'[c] = Append(pending[c], w) /\ \A d \in Clients \ {c} : pending'[d] = pending[d]
    <2> HIDE DEF c
    <2> QED  BY <1>1, <1>2 DEF SdkInv
<1>4. \A d \in Clients, k \in Locations : Synced(d, k)' <=> Synced(d, k)
    BY <1>2 DEF Synced
<1>5. View(c, l)' = new
    BY <1>2, <1>3 DEF View
<1>6. ASSUME NEW d \in Clients, NEW k \in Locations, d # c \/ k # l, Synced(d, k)
      PROVE  View(d, k)' = View(d, k)
    <2>1. CASE d # c
        BY <1>2, <1>3, <2>1 DEF View
    <2>2. CASE d = c /\ k # l
        <3>1. /\ DOMAIN DataAt(log, pos[c][k], k) = KeysIn(k) /\ pending[c] \in Seq(Writes)
            BY <1>6, <2>2, SyncedData
        <3>2. KeyOf[w] \notin KeysIn(k)
            BY <2>2, OtherKeys
        <3>3. Layer(DataAt(log, pos[c][k], k), Append(pending[c], w))
              = Layer(DataAt(log, pos[c][k], k), pending[c])
            BY <3>1, <3>2, LayerAppendOther
        <3> QED  BY <1>2, <1>3, <2>2, <3>3 DEF View
    <2> QED  BY <1>6, <2>1, <2>2
<1>7. \/ vs = <<>> /\ (Synced(c, l) => View(c, l)' = View(c, l))
      \/ Synced(c, l)' /\ vs = <<View(c, l)'>>
    <2> HIDE DEF new
    <2> QED  BY <1>1, <1>4, <1>5 DEF Changed
<1> HIDE DEF c, l, vs
<1> QED
    BY <1>1, <1>2, <1>4, <1>6, <1>7, RaiseTells

\* Settling a write changes the view of the write's location.
LEMMA SettleTells ==
    ASSUME SdkInv, ToldInv, NEW c \in Clients, Settle(c)
    PROVE  ToldInv' /\ Grows /\ Quiet
<1>0. pending[c] \in Seq(Writes) /\ pending[c] # <<>> /\ Head(pending[c]) \in Writes
    BY HeadTailProperties DEF SdkInv, Settle
<1>1. PICK w \in Writes : w = Head(pending[c])
    BY <1>0
<1> DEFINE l == WriteLoc(w)
           new == Layer(DataAt(log, pos[c][l], l), Tail(pending[c]))
           vs == IF Synced(c, l) THEN Changed(View(c, l), new) ELSE <<>>
<1>2. /\ UNCHANGED <<log, pos, observing>>
      /\ pending' = [pending EXCEPT ![c] = Tail(pending[c])]
      /\ Raise(c, l, vs)
    BY <1>1 DEF Settle
<1>3. pending'[c] = Tail(pending[c]) /\ \A d \in Clients \ {c} : pending'[d] = pending[d]
    BY <1>2 DEF SdkInv
<1>4. \A d \in Clients, k \in Locations : Synced(d, k)' <=> Synced(d, k)
    BY <1>2 DEF Synced
<1>5. View(c, l)' = new
    BY <1>2, <1>3 DEF View
<1>6. l \in Locations
    BY <1>1, ConstantTypes
<1>7. ASSUME NEW d \in Clients, NEW k \in Locations, d # c \/ k # l, Synced(d, k)
      PROVE  View(d, k)' = View(d, k)
    <2>1. CASE d # c
        BY <1>2, <1>3, <2>1 DEF View
    <2>2. CASE d = c /\ k # l
        <3>1. DOMAIN DataAt(log, pos[c][k], k) = KeysIn(k)
            BY <1>7, <2>2, SyncedData
        <3>2. KeyOf[Head(pending[c])] \notin KeysIn(k)
            BY <1>1, <2>2, OtherKeys
        <3>3. Layer(DataAt(log, pos[c][k], k), Tail(pending[c]))
              = Layer(DataAt(log, pos[c][k], k), pending[c])
            BY <1>0, <3>1, <3>2, LayerTailOther
        <3> QED  BY <1>2, <1>3, <2>2, <3>3 DEF View
    <2> QED  BY <1>7, <2>1, <2>2
<1>8. \/ vs = <<>> /\ (Synced(c, l) => View(c, l)' = View(c, l))
      \/ Synced(c, l)' /\ vs = <<View(c, l)'>>
    <2> HIDE DEF new, l
    <2> QED  BY <1>4, <1>5, <1>6 DEF Changed
<1> HIDE DEF l, vs
<1> QED
    BY <1>2, <1>4, <1>6, <1>7, <1>8, RaiseTells

\* A later state of a location changes the view of the location.
LEMMA AdvanceTells ==
    ASSUME SdkInv, ToldInv, NEW c \in Clients, NEW l \in Locations, NEW n \in 0 .. Len(log),
           Advance(c, l, n)
    PROVE  ToldInv' /\ Grows /\ Quiet
<1> DEFINE new == Layer(DataAt(log, n, l), pending[c])
           vs == IF Synced(c, l) THEN Changed(View(c, l), new) ELSE <<new>>
<1>1. /\ UNCHANGED <<log, pending, observing>>
      /\ pos' = [pos EXCEPT ![c][l] = n]
      /\ Raise(c, l, vs)
    BY DEF Advance
<1>2. /\ pos'[c][l] = n
      /\ \A d \in Clients, k \in Locations : d # c \/ k # l => pos'[d][k] = pos[d][k]
    BY <1>1 DEF SdkInv
<1>3. \A d \in Clients, k \in Locations : d # c \/ k # l =>
          (Synced(d, k)' <=> Synced(d, k)) /\ View(d, k)' = View(d, k)
    BY <1>1, <1>2 DEF Synced, View
<1>4. View(c, l)' = new
    BY <1>1, <1>2 DEF View
<1>5. Synced(c, l)'
    BY <1>2 DEF Synced, NotSynced
<1>6. \/ vs = <<>> /\ Synced(c, l) /\ View(c, l)' = View(c, l)
      \/ vs = <<View(c, l)'>>
    <2> HIDE DEF new
    <2> QED  BY <1>4 DEF Changed
<1> HIDE DEF vs
<1> QED
    BY <1>1, <1>3, <1>5, <1>6, RaiseTells

\* The server's log grows; nobody's view changes.
LEMMA ApplyTells ==
    ASSUME SdkInv, ToldInv, NEW w \in Writes, Apply(w)
    PROVE  ToldInv' /\ Grows /\ Quiet
<1>1. log' = Append(log, w) /\ UNCHANGED <<pending, pos, observing, events>>
    BY DEF Apply
<1>2. ASSUME NEW s \in Screens, Synced(Owner[s], Looks[s])
      PROVE  View(Owner[s], Looks[s])' = View(Owner[s], Looks[s])
    <2> DEFINE c == Owner[s]
               l == Looks[s]
    <2>1. c \in Clients /\ l \in Locations
        BY ConstantTypes
    <2>2. pos[c][l] \in 0 .. Len(log) /\ log \in Seq(Writes)
        <3> HIDE DEF c, l
        <3> QED  BY <1>2, <2>1, SyncedData DEF c, l
    <2>3. DataAt(Append(log, w), pos[c][l], l) = DataAt(log, pos[c][l], l)
        <3> HIDE DEF c, l
        <3> QED  BY <2>2, DataAtPrefix
    <2> QED  BY <1>1, <2>3 DEF View
<1>3. \A s \in Screens : Synced(Owner[s], Looks[s])' <=> Synced(Owner[s], Looks[s])
    BY <1>1 DEF Synced
<1> QED
    BY <1>1, <1>2, <1>3 DEF ToldInv, Grows, Quiet

\* A screen that registers is told the view if there is one.
LEMMA ObserveTells ==
    ASSUME SdkInv, ToldInv, NEW s \in Screens, Observe(s)
    PROVE  ToldInv' /\ Grows /\ Quiet
<1> DEFINE o == Owner[s]
           k == Looks[s]
<1>1. /\ UNCHANGED <<log, pending, pos>> /\ observing' = observing \cup {s}
      /\ events' = [events EXCEPT ![s] = IF Synced(o, k) THEN Append(@, View(o, k)) ELSE @]
      /\ s \notin observing /\ events[s] = <<>>
    BY DEF Observe, ToldInv
<1>2. \A t \in Screens : /\ Synced(Owner[t], Looks[t])' <=> Synced(Owner[t], Looks[t])
                         /\ View(Owner[t], Looks[t])' = View(Owner[t], Looks[t])
    BY <1>1 DEF Synced, View
<1>3. /\ events'[s] = IF Synced(o, k) THEN <<View(o, k)>> ELSE <<>>
      /\ \A t \in Screens \ {s} : events'[t] = events[t]
    <2>1. \A v : Append(<<>>, v) = <<v>>
        OBVIOUS
    <2> HIDE DEF o, k
    <2> QED  BY <1>1, <2>1 DEF SdkInv
<1>4. ASSUME NEW t \in Screens
      PROVE  /\ t \notin observing' \/ ~Synced(Owner[t], Looks[t])' => events'[t] = <<>>
             /\ events'[t] # <<>> => events'[t][Len(events'[t])] = View(Owner[t], Looks[t])'
             /\ \A i \in DOMAIN events'[t] :
                   \/ \E j \in DOMAIN events[t] : events'[t][i] = events[t][j]
                   \/ /\ Synced(Owner[t], Looks[t])'
                      /\ events'[t][i] = View(Owner[t], Looks[t])'
             /\ t \in observing' /\ Synced(Owner[t], Looks[t])' /\ events'[t] = <<>> =>
                   /\ t \in observing /\ Synced(Owner[t], Looks[t])
                   /\ View(Owner[t], Looks[t])' = View(Owner[t], Looks[t])
    <2>1. CASE t # s
        BY <1>1, <1>2, <1>3, <2>1 DEF ToldInv
    <2>2. CASE t = s /\ Synced(o, k)
        <3> DEFINE v == View(o, k)
        <3>1. events'[s] = <<v>> /\ v = View(o, k)' /\ Synced(o, k)' /\ s \in observing'
            BY <1>1, <1>2, <1>3, <2>2
        <3> HIDE DEF v
        <3>2. Len(<<v>>) = 1 /\ <<v>>[1] = v /\ DOMAIN <<v>> = {1} /\ <<v>> # <<>>
            OBVIOUS
        <3> QED  BY <2>2, <3>1, <3>2
    <2>3. CASE t = s /\ ~Synced(o, k)
        BY <1>2, <1>3, <2>3
    <2> QED  BY <2>1, <2>2, <2>3
<1> QED
    BY <1>4 DEF ToldInv, Grows, Quiet

\* A snapshot is handed over; the last one stays the view.
LEMMA FireEventTells ==
    ASSUME SdkInv, ToldInv, NEW s \in Screens, FireEvent(s)
    PROVE  ToldInv' /\ Grows /\ Quiet
<1>1. /\ UNCHANGED <<log, pending, pos, observing>> /\ events[s] # <<>>
      /\ events' = [events EXCEPT ![s] = Tail(events[s])]
    BY DEF FireEvent
<1>2. PICK S : events[s] \in Seq(S)
    BY DEF SdkInv
<1>3. /\ Len(events[s]) \in Nat /\ Len(events[s]) >= 1 /\ DOMAIN events[s] = 1 .. Len(events[s])
      /\ Tail(events[s]) \in Seq(S) /\ Len(Tail(events[s])) = Len(events[s]) - 1
      /\ DOMAIN Tail(events[s]) = 1 .. Len(events[s]) - 1
      /\ \A i \in 1 .. Len(events[s]) - 1 : Tail(events[s])[i] = events[s][i + 1]
    BY <1>1, <1>2, HeadTailProperties, LenProperties, EmptySeq
<1>4. \A t \in Screens : /\ Synced(Owner[t], Looks[t])' <=> Synced(Owner[t], Looks[t])
                         /\ View(Owner[t], Looks[t])' = View(Owner[t], Looks[t])
    BY <1>1 DEF Synced, View
<1>5. events'[s] = Tail(events[s]) /\ \A t \in Screens \ {s} : events'[t] = events[t]
    BY <1>1 DEF SdkInv
<1>6. ASSUME Tail(events[s]) # <<>>
      PROVE  Tail(events[s])[Len(Tail(events[s]))] = events[s][Len(events[s])]
    <2>1. Len(Tail(events[s])) # 0
        BY <1>3, <1>6, EmptySeq
    <2>2. PICK n \in Nat : n = Len(events[s])
        BY <1>3
    <2>3. n >= 1 /\ n - 1 # 0
        BY <1>3, <2>1, <2>2
    <2>4. n - 1 \in 1 .. n - 1 /\ (n - 1) + 1 = n
        BY <2>3
    <2> QED  BY <1>3, <2>2, <2>4
<1>7. \A i \in DOMAIN Tail(events[s]) : \E j \in DOMAIN events[s] : Tail(events[s])[i] = events[s][j]
    <2>1. \A n \in Nat : \A i \in 1 .. n - 1 : i + 1 \in 1 .. n
        OBVIOUS
    <2> QED  BY <1>3, <2>1
<1>8. /\ s \in observing /\ Synced(Owner[s], Looks[s])
      /\ events[s][Len(events[s])] = View(Owner[s], Looks[s])
    BY <1>1 DEF ToldInv
<1>9. ToldInv'
    BY <1>1, <1>4, <1>5, <1>6, <1>8 DEF ToldInv
<1>10. Grows
    BY <1>5, <1>7, ZenonT(60) DEF Grows
<1>11. Quiet
    BY <1>1, <1>4, <1>5 DEF Quiet
<1> QED
    BY <1>9, <1>10, <1>11

\* The screens of a killed process are gone, with all that was on its way.
LEMMA KillTells ==
    ASSUME SdkInv, ToldInv, NEW c \in Clients, Kill(c)
    PROVE  ToldInv' /\ Grows /\ Quiet
<1>1. /\ UNCHANGED log
      /\ pending' = [pending EXCEPT ![c] = <<>>]
      /\ pos' = [pos EXCEPT ![c] = [l \in Locations |-> NotSynced]]
      /\ observing' = {s \in observing : Owner[s] # c}
      /\ events' = [s \in Screens |-> IF Owner[s] = c THEN <<>> ELSE events[s]]
    BY DEF Kill
<1>2. \A d \in Clients \ {c} : pending'[d] = pending[d] /\ pos'[d] = pos[d]
    BY <1>1 DEF SdkInv
<1>3. ASSUME NEW s \in Screens, Owner[s] # c
      PROVE  /\ events'[s] = events[s] /\ (s \in observing' <=> s \in observing)
             /\ Synced(Owner[s], Looks[s])' <=> Synced(Owner[s], Looks[s])
             /\ View(Owner[s], Looks[s])' = View(Owner[s], Looks[s])
    <2>1. Owner[s] \in Clients \ {c}
        BY <1>3, ConstantTypes
    <2> QED  BY <1>1, <1>2, <1>3, <2>1 DEF Synced, View
<1>4. ASSUME NEW s \in Screens, Owner[s] = c PROVE events'[s] = <<>>
    BY <1>1, <1>4
<1>5. ASSUME NEW s \in Screens
      PROVE  /\ s \notin observing' \/ ~Synced(Owner[s], Looks[s])' => events'[s] = <<>>
             /\ events'[s] # <<>> => events'[s][Len(events'[s])] = View(Owner[s], Looks[s])'
             /\ \A i \in DOMAIN events'[s] : \E j \in DOMAIN events[s] : events'[s][i] = events[s][j]
             /\ s \in observing' /\ Synced(Owner[s], Looks[s])' =>
                   /\ s \in observing /\ Synced(Owner[s], Looks[s])
                   /\ View(Owner[s], Looks[s])' = View(Owner[s], Looks[s])
    <2>1. CASE Owner[s] # c
        BY <1>3, <2>1 DEF ToldInv
    <2>2. CASE Owner[s] = c
        <3>1. DOMAIN <<>> = {}
            OBVIOUS
        <3>2. s \notin observing'
            BY <1>1, <2>2
        <3> QED  BY <1>4, <2>2, <3>1, <3>2
    <2> QED  BY <2>1, <2>2
<1> QED
    BY <1>5 DEF ToldInv, Grows, Quiet

-------------------------------------------------------------------------------
\* The fate of a write

\* A sequence without duplicates stays so when it loses its head, and the head
\* is gone; it stays so when something new is appended.
LEMMA DistinctTail ==
    ASSUME NEW ws \in Seq(Writes), ws # <<>>,
           \A i, j \in DOMAIN ws : ws[i] = ws[j] => i = j
    PROVE  /\ \A i, j \in DOMAIN Tail(ws) : Tail(ws)[i] = Tail(ws)[j] => i = j
           /\ Head(ws) \notin In(Tail(ws))
<1>1. /\ Len(ws) \in Nat /\ Len(ws) >= 1 /\ DOMAIN ws = 1 .. Len(ws) /\ Head(ws) = ws[1]
      /\ DOMAIN Tail(ws) = 1 .. Len(ws) - 1
      /\ \A i \in 1 .. Len(ws) - 1 : Tail(ws)[i] = ws[i + 1]
    BY HeadTailProperties, LenProperties, EmptySeq
<1>2. \A n \in Nat : n >= 1 => /\ 1 \in 1 .. n
                               /\ \A i \in 1 .. n - 1 : i + 1 \in 1 .. n /\ i + 1 # 1
                               /\ \A i, j \in 1 .. n - 1 : i + 1 = j + 1 => i = j
    OBVIOUS
<1>3. \A i \in DOMAIN Tail(ws) : i + 1 \in DOMAIN ws /\ i + 1 # 1 /\ Tail(ws)[i] = ws[i + 1]
    BY <1>1, <1>2
<1>4. \A i, j \in DOMAIN Tail(ws) : i + 1 = j + 1 => i = j
    BY <1>1, <1>2
<1>5. 1 \in DOMAIN ws
    BY <1>1, <1>2
<1> QED
    BY <1>1, <1>3, <1>4, <1>5 DEF In

\* A new write is no other write's double.
LEMMA DistinctAppend ==
    ASSUME NEW ws \in Seq(Writes), NEW w \in Writes, w \notin In(ws),
           \A i, j \in DOMAIN ws : ws[i] = ws[j] => i = j
    PROVE  \A i, j \in DOMAIN Append(ws, w) : Append(ws, w)[i] = Append(ws, w)[j] => i = j
<1> DEFINE vs == Append(ws, w)
<1>1. /\ DOMAIN vs = 1 .. Len(ws) + 1 /\ DOMAIN ws = 1 .. Len(ws) /\ Len(ws) \in Nat
      /\ \A i \in 1 .. Len(ws) : vs[i] = ws[i]
      /\ vs[Len(ws) + 1] = w
    BY AppendProperties, LenProperties
<1> HIDE DEF vs
<1>2. \A n \in Nat : \A i \in 1 .. n + 1 : i \in 1 .. n \/ i = n + 1
    OBVIOUS
<1>3. \A i \in DOMAIN vs : (i \in DOMAIN ws /\ vs[i] = ws[i]) \/ (i = Len(ws) + 1 /\ vs[i] = w)
    BY <1>1, <1>2
<1>4. \A i \in DOMAIN ws : ws[i] # w
    BY DEF In
<1> QED
    BY <1>3, <1>4 DEF vs

\* Every step keeps the pending writes with their client, each once.
LEMMA OwnKeeps ==
    ASSUME SdkInv, OwnInv, [Next]_vars
    PROVE  OwnInv'
<1>1. ASSUME UNCHANGED pending PROVE OwnInv'
    BY <1>1 DEF OwnInv
<1>2. ASSUME NEW w \in Writes, SetValue(w) PROVE OwnInv'
    <2> DEFINE c == Writer[w]
    <2>1. c \in Clients /\ pending[c] \in Seq(Writes) /\ w \notin In(pending[c])
        BY <1>2, ConstantTypes DEF SdkInv, SetValue
    <2>2. pending' = [pending EXCEPT ![c] = Append(pending[c], w)]
        BY <1>2 DEF SetValue
    <2>3. /\ In(Append(pending[c], w)) = In(pending[c]) \cup {w}
          /\ \A i, j \in DOMAIN Append(pending[c], w) :
                Append(pending[c], w)[i] = Append(pending[c], w)[j] => i = j
        <3>1. \A i, j \in DOMAIN pending[c] : pending[c][i] = pending[c][j] => i = j
            BY <2>1 DEF OwnInv
        <3> HIDE DEF c
        <3> QED  BY <2>1, <3>1, InAppend, DistinctAppend
    <2>4. /\ pending'[c] = Append(pending[c], w)
          /\ \A d \in Clients \ {c} : pending'[d] = pending[d]
        <3> HIDE DEF c
        <3> QED  BY <2>1, <2>2 DEF SdkInv
    <2>5. \A v \in In(pending'[c]) : Writer[v] = c
        BY <2>1, <2>3, <2>4 DEF OwnInv
    <2> HIDE DEF c
    <2> QED  BY <2>1, <2>3, <2>4, <2>5 DEF OwnInv
<1>3. ASSUME NEW c \in Clients, Settle(c) PROVE OwnInv'
    <2>1. /\ pending[c] \in Seq(Writes) /\ pending[c] # <<>>
          /\ pending' = [pending EXCEPT ![c] = Tail(pending[c])]
        BY <1>3 DEF SdkInv, Settle
    <2>2. /\ In(Tail(pending[c])) \subseteq In(pending[c])
          /\ \A i, j \in DOMAIN Tail(pending[c]) :
                Tail(pending[c])[i] = Tail(pending[c])[j] => i = j
        BY <2>1, InTail, DistinctTail DEF OwnInv
    <2>3. /\ pending'[c] = Tail(pending[c])
          /\ \A d \in Clients \ {c} : pending'[d] = pending[d]
        BY <2>1 DEF SdkInv
    <2> QED  BY <2>2, <2>3 DEF OwnInv
<1>4. ASSUME NEW c \in Clients, Kill(c) PROVE OwnInv'
    <2>1. pending'[c] = <<>> /\ \A d \in Clients \ {c} : pending'[d] = pending[d]
        BY <1>4 DEF SdkInv, Kill
    <2>2. In(<<>>) = {} /\ DOMAIN <<>> = {}
        BY DEF In
    <2> QED  BY <2>1, <2>2 DEF OwnInv
<1> QED
    BY <1>1, <1>2, <1>3, <1>4 DEF Next, vars, Observe, FireEvent, Apply, Advance

\* What a client that listens has seen of a write stays in its view, or the
\* write has been refused for good.
LEMMA KeptStays ==
    ASSUME SdkInv, OwnInv, [Next]_vars, NEW c \in Clients, NEW w \in Writes, Kept(c, w),
           Listening(c, WriteLoc(w)), Listening(c, WriteLoc(w))'
    PROVE  Kept(c, w)'
<1> DEFINE l == WriteLoc(w)
<1>1. /\ l \in Locations /\ Writer[w] \in Clients
      /\ \A d \in Clients : In(pending[d]) \subseteq In(issued)
      /\ log \in Seq(Writes) /\ DOMAIN log = 1 .. Len(log) /\ Len(log) \in Nat
    BY ConstantTypes, LenProperties DEF SdkInv
<1>2. ASSUME UNCHANGED <<issued, log, pending, pos>> PROVE Kept(c, w)'
    BY <1>2 DEF Kept, Seen, Refused, Includes
<1>3. ASSUME NEW v \in Writes, SetValue(v) PROVE Kept(c, w)'
    <2> DEFINE o == Writer[v]
    <2>1. /\ o \in Clients /\ UNCHANGED <<log, pos>> /\ v \notin In(issued)
          /\ issued' = Append(issued, v) /\ issued \in Seq(Writes)
          /\ pending' = [pending EXCEPT ![o] = Append(pending[o], v)]
          /\ pending[o] \in Seq(Writes)
        BY <1>3, ConstantTypes DEF SetValue, SdkInv
    <2>2. In(issued') = In(issued) \cup {v} /\ In(Append(pending[o], v)) = In(pending[o]) \cup {v}
        <3> HIDE DEF o
        <3> QED  BY <2>1, InAppend
    <2>3. \A d \in Clients : In(pending'[d]) = In(pending[d]) \cup (IF d = o THEN {v} ELSE {})
        <3> HIDE DEF o
        <3> QED  BY <2>1, <2>2 DEF SdkInv
    <2>4. CASE Seen(c, w)
        BY <2>1, <2>3, <2>4 DEF Kept, Seen, Includes
    <2>5. CASE Refused(w)
        <3>1. w # v
            BY <2>1, <2>5 DEF Refused
        <3> HIDE DEF o
        <3> QED  BY <1>1, <2>1, <2>2, <2>3, <2>5, <3>1 DEF Kept, Refused
    <2> QED  BY <2>4, <2>5 DEF Kept
<1>4. ASSUME NEW v \in Writes, Apply(v) PROVE Kept(c, w)'
    <2>1. /\ UNCHANGED <<issued, pending, pos>> /\ log' = Append(log, v)
          /\ v \in In(pending[Writer[v]])
        BY <1>4 DEF Apply
    <2>2. /\ In(log') = In(log) \cup {v}
          /\ \A i \in 1 .. Len(log) : log'[i] = log[i]
        BY <1>1, <2>1, InAppend, AppendProperties
    <2>3. CASE w \in In(pending[c])
        BY <2>1, <2>3 DEF Kept, Seen
    <2>4. CASE Includes(pos[c][l], w)
        <3>1. PICK i \in 1 .. pos[c][l] : log[i] = w
            BY <2>4 DEF Includes
        <3>2. pos[c][l] \in Int /\ pos[c][l] <= Len(log)
            BY <1>1 DEF SdkInv, NotSynced
        <3>3. i \in 1 .. Len(log)
            BY <1>1, <3>1, <3>2
        <3>4. log'[i] = w /\ i \in 1 .. pos'[c][l]
            BY <2>1, <2>2, <3>1, <3>3
        <3> QED  BY <3>4 DEF Kept, Seen, Includes
    <2>5. CASE Refused(w)
        <3>1. w # v
            BY <2>1, <2>5 DEF Refused
        <3> QED  BY <2>1, <2>2, <2>5, <3>1 DEF Kept, Refused
    <2> QED  BY <2>3, <2>4, <2>5 DEF Kept, Seen
<1>5. ASSUME NEW d \in Clients, NEW k \in Locations, NEW n \in 0 .. Len(log), Advance(d, k, n)
      PROVE  Kept(c, w)'
    <2>1. /\ UNCHANGED <<issued, pending, log>> /\ pos' = [pos EXCEPT ![d][k] = n]
          /\ n > pos[d][k]
        BY <1>5 DEF Advance
    <2>2. pos[c][l] \in Int /\ pos'[c][l] \in Int /\ pos[c][l] <= pos'[c][l]
        BY <1>1, <2>1 DEF SdkInv, NotSynced
    <2>3. ASSUME NEW i \in 1 .. pos[c][l] PROVE i \in 1 .. pos'[c][l]
        BY <2>2, <2>3
    <2>4. Seen(c, w) => Seen(c, w)'
        BY <2>1, <2>3 DEF Seen, Includes
    <2>5. Refused(w) => Refused(w)'
        BY <2>1 DEF Refused
    <2> QED  BY <2>4, <2>5 DEF Kept
<1>6. ASSUME NEW d \in Clients, Settle(d) PROVE Kept(c, w)'
    <2> DEFINE v == Head(pending[d])
    <2>1. /\ UNCHANGED <<issued, log, pos>> /\ pending[d] \in Seq(Writes) /\ pending[d] # <<>>
          /\ pending' = [pending EXCEPT ![d] = Tail(pending[d])]
          /\ v \notin In(log) \/ Includes(pos[d][WriteLoc(v)], v) \/ ~Listening(d, WriteLoc(v))
        BY <1>6 DEF Settle, SdkInv
    <2>2. /\ In(pending[d]) = {v} \cup In(Tail(pending[d])) /\ v \notin In(Tail(pending[d]))
        BY <2>1, InTail, DistinctTail DEF OwnInv
    <2>3. /\ pending'[d] = Tail(pending[d])
          /\ \A e \in Clients \ {d} : pending'[e] = pending[e]
        BY <2>1 DEF SdkInv
    <2> HIDE DEF v
    <2>4. CASE w \in In(pending[c]) /\ d = c /\ w = v
        <3>1. w \in In(issued) /\ Writer[w] = c
            BY <1>1, <2>4 DEF OwnInv
        <3>2. w \notin In(log) => Refused(w)'
            BY <2>1, <2>2, <2>3, <2>4, <3>1 DEF Refused
        <3>3. Includes(pos[c][l], w) => Seen(c, w)'
            BY <2>1 DEF Seen, Includes
        <3> QED  BY <2>1, <2>4, <3>2, <3>3 DEF Kept
    <2>5. CASE w \in In(pending[c]) /\ ~(d = c /\ w = v)
        <3>1. w \in In(pending'[c])
            BY <2>2, <2>3, <2>5
        <3> QED  BY <3>1 DEF Kept, Seen
    <2>6. CASE Includes(pos[c][l], w)
        BY <2>1, <2>6 DEF Kept, Seen, Includes
    <2>7. CASE Refused(w)
        <3>1. In(pending'[Writer[w]]) \subseteq In(pending[Writer[w]])
            BY <1>1, <2>2, <2>3
        <3> QED  BY <2>1, <2>7, <3>1 DEF Kept, Refused
    <2> QED  BY <2>4, <2>5, <2>6, <2>7 DEF Kept, Seen
<1>7. ASSUME NEW d \in Clients, Kill(d) PROVE Kept(c, w)'
    <2>1. /\ UNCHANGED <<issued, log>>
          /\ pending' = [pending EXCEPT ![d] = <<>>]
          /\ pos' = [pos EXCEPT ![d] = [k \in Locations |-> NotSynced]]
          /\ observing' = {s \in observing : Owner[s] # d}
        BY <1>7 DEF Kill
    <2>2. d # c
        BY <2>1 DEF Listening
    <2>3. /\ pending'[d] = <<>> /\ \A e \in Clients \ {d} : pending'[e] = pending[e] /\ pos'[e] = pos[e]
        BY <2>1 DEF SdkInv
    <2>4. In(<<>>) = {}
        BY DEF In
    <2>5. Seen(c, w) => Seen(c, w)'
        BY <2>1, <2>2, <2>3 DEF Seen, Includes
    <2>6. Refused(w) => Refused(w)'
        BY <1>1, <2>1, <2>3, <2>4 DEF Refused
    <2> QED  BY <2>5, <2>6 DEF Kept
<1> QED
    BY <1>2, <1>3, <1>4, <1>5, <1>6, <1>7 DEF Next, vars, Observe, FireEvent

\* ViewSeen, as a formula that can be used of the state after a step.
ViewIsSeen ==
    SdkInv => \A c \in Clients, w \in Writes :
        Synced(c, WriteLoc(w)) /\ View(c, WriteLoc(w))[KeyOf[w]] = w => Seen(c, w)

\* It holds in every state.
LEMMA ViewSeenNow == ViewIsSeen
BY ViewSeen DEF ViewIsSeen

\* What the view shows after a step, the client has then.
LEMMA ViewSeenNext ==
    ASSUME SdkInv', NEW c \in Clients, NEW w \in Writes, Synced(c, WriteLoc(w))',
           View(c, WriteLoc(w))'[KeyOf[w]] = w
    PROVE  Seen(c, w)'
<1>1. ViewIsSeen'
    BY ViewSeenNow, PTL
<1> QED
    BY <1>1 DEF ViewIsSeen

\* Every step keeps what is on its way in line with what the server knows.
LEMMA FateKeeps ==
    ASSUME ReplicaInv, SdkInv', ToldInv', Grows, [Next]_vars
    PROVE  FateInv'
<1> SUFFICES ASSUME NEW s \in Screens, NEW i \in DOMAIN events'[s], NEW w \in Writes,
                    WriteLoc(w) = Looks[s], events'[s][i][KeyOf[w]] = w
             PROVE  Kept(Owner[s], w)'
    BY DEF FateInv
<1>1. Owner[s] \in Clients /\ Looks[s] \in Locations
    BY ConstantTypes
<1>2. CASE Synced(Owner[s], Looks[s])' /\ events'[s][i] = View(Owner[s], Looks[s])'
    <2>1. Seen(Owner[s], w)'
        BY <1>1, <1>2, ViewSeenNext
    <2> QED  BY <2>1 DEF Kept
<1>3. CASE \E j \in DOMAIN events[s] : events'[s][i] = events[s][j]
    <2>1. Kept(Owner[s], w)
        BY <1>3 DEF ReplicaInv, FateInv
    <2>2. events[s] # <<>> /\ events'[s] # <<>>
        BY <1>3
    <2>3. s \in observing /\ s \in observing'
        BY <2>2 DEF ReplicaInv, ToldInv
    <2>4. Listening(Owner[s], WriteLoc(w)) /\ Listening(Owner[s], WriteLoc(w))'
        BY <2>3 DEF Listening
    <2> QED  BY <1>1, <2>1, <2>4, KeptStays DEF ReplicaInv
<1> QED
    BY <1>2, <1>3 DEF Grows

\* A write that is seen is in the view, unless another write hides it.
LEMMA SeenInView ==
    ASSUME SdkInv, NEW c \in Clients, NEW w \in Writes, Synced(c, WriteLoc(w)), Seen(c, w),
           \A v \in Writes : KeyOf[v] = KeyOf[w] => v = w
    PROVE  View(c, WriteLoc(w))[KeyOf[w]] = w
<1> DEFINE l == WriteLoc(w)
           d == DataAt(log, pos[c][l], l)
<1>1. l \in Locations /\ KeyOf[w] \in KeysIn(l)
    BY ConstantTypes
<1>2. /\ pos[c][l] \in 0 .. Len(log) /\ DOMAIN d = KeysIn(l)
      /\ pending[c] \in Seq(Writes) /\ log \in Seq(Writes)
    <2> HIDE DEF l
    <2> QED  BY <1>1, SyncedData DEF l
<1>3. In(pending[c]) \subseteq Writes /\ In(log) \subseteq Writes
    BY <1>2 DEF In
<1>4. CASE w \in In(pending[c])
    <2> HIDE DEF l, d
    <2>1. Layer(d, pending[c])[KeyOf[w]] = w
        BY <1>1, <1>2, <1>3, <1>4, LayerOwn
    <2> QED  BY <2>1 DEF View, d, l
<1>5. CASE w \notin In(pending[c])
    <2>1. \E i \in 1 .. pos[c][l] : log[i] = w
        BY <1>5 DEF Seen, Includes
    <2>2. d[KeyOf[w]] = w
        <3> HIDE DEF l
        <3> QED  BY <1>1, <1>2, <1>3, <2>1, DataAtOwn DEF d
    <2>3. \A j \in DOMAIN pending[c] : KeyOf[pending[c][j]] # KeyOf[w]
        BY <1>3, <1>5 DEF In
    <2> HIDE DEF l, d
    <2>4. Layer(d, pending[c])[KeyOf[w]] = w
        BY <1>1, <1>2, <2>2, <2>3, LayerHides
    <2> QED  BY <2>4 DEF View, d, l
<1> QED
    BY <1>4, <1>5

\* Every screen of the writer that has a copy is told of a new write.
LEMMA SetValueIsTold ==
    ASSUME SdkInv, NEW w \in Writes, SetValue(w), NEW s \in observing,
           Owner[s] = Writer[w], Looks[s] = WriteLoc(w), Synced(Owner[s], Looks[s])
    PROVE  events'[s] # <<>>
<1> DEFINE c == Writer[w]
           l == WriteLoc(w)
           d == DataAt(log, pos[c][l], l)
           new == Layer(d, Append(pending[c], w))
<1>1. c \in Clients /\ l \in Locations /\ KeyOf[w] \in KeysIn(l) /\ s \in Screens
    BY ConstantTypes DEF SdkInv
<1>2. DOMAIN d = KeysIn(l) /\ pending[c] \in Seq(Writes)
    <2> HIDE DEF c, l
    <2> QED  BY <1>1, SyncedData DEF c, l
<1>3. new[KeyOf[w]] = w
    <2> HIDE DEF c, l, d
    <2> QED  BY <1>1, <1>2, LayerAppendShows
<1>4. View(c, l)[KeyOf[w]] # w
    <2>1. In(pending[c]) \subseteq In(issued)
        BY <1>1 DEF SdkInv
    <2>2. View(c, l) \in Snapshots(In(issued), l)
        <3> HIDE DEF c, l
        <3> QED  BY <1>1, <1>2, <2>1, SyncedView DEF View, c, l
    <2>3. w \notin In(issued) /\ w # NoWrite
        BY SyncTreeAssumption DEF SetValue
    <2> HIDE DEF c, l
    <2> QED  BY <1>1, <2>2, <2>3 DEF Snapshots
<1>5. events'[s] = events[s] \o <<new>>
    <2>1. Changed(View(c, l), new) = <<new>>
        <3> HIDE DEF c, l, new
        <3> QED  BY <1>3, <1>4 DEF Changed
    <2>2. Raise(c, l, Changed(View(c, l), new))
        BY DEF SetValue
    <2> HIDE DEF c, l, new
    <2> QED  BY <1>1, <2>1, <2>2 DEF Raise, c, l
<1>6. PICK S : events[s] \in Seq(S)
    BY <1>1 DEF SdkInv
<1> HIDE DEF new
<1>7. events[s] \in Seq(S \cup {new}) /\ <<new>> \in Seq(S \cup {new})
    BY <1>6
<1>8. Len(events[s] \o <<new>>) = Len(events[s]) + 1 /\ Len(events[s]) \in Nat
    BY <1>7, ConcatProperties, LenProperties
<1> QED
    BY <1>5, <1>8

\* Only the main queue takes a snapshot away.
LEMMA NothingTaken ==
    ASSUME SdkInv, NEW s \in Screens, events'[s] = <<>>,
           \/ \E w \in Writes : SetValue(w) \/ Apply(w)
           \/ \E c \in Clients : Settle(c)
           \/ \E c \in Clients, l \in Locations : \E n \in 0 .. Len(log) : Advance(c, l, n)
    PROVE  events[s] = <<>>
<1>1. ASSUME NEW T, NEW vs \in Seq(T), NEW c, NEW l, Raise(c, l, vs) PROVE events[s] = <<>>
    <2>1. PICK S : events[s] \in Seq(S)
        BY DEF SdkInv
    <2>2. events'[s] = events[s] \o vs \/ events'[s] = events[s]
        BY <1>1 DEF Raise
    <2>3. events[s] \in Seq(S \cup T) /\ vs \in Seq(S \cup T)
        BY <2>1, SeqMonotonic
    <2>4. /\ Len(events[s] \o vs) = Len(events[s]) + Len(vs)
          /\ Len(events[s]) \in Nat /\ Len(vs) \in Nat
        BY <2>3, ConcatProperties, LenProperties
    <2>5. events[s] \o vs = <<>> => Len(events[s]) = 0
        <3>1. Len(<<>>) = 0
            OBVIOUS
        <3>2. \A m, n \in Nat : m + n = 0 => m = 0
            OBVIOUS
        <3> QED  BY <2>4, <3>1, <3>2
    <2> QED  BY <2>1, <2>2, <2>5, EmptySeq
<1>2. ASSUME NEW old, NEW new
      PROVE  /\ Changed(old, new) \in Seq({new})
             /\ <<new>> \in Seq({new}) /\ <<>> \in Seq({new})
    <2>1. <<new>> \in Seq({new}) /\ <<>> \in Seq({new})
        <3>1. new \in {new}
            OBVIOUS
        <3> QED  BY <3>1
    <2> QED  BY <2>1 DEF Changed
<1>3. ASSUME NEW w \in Writes, SetValue(w) PROVE events[s] = <<>>
    <2>1. PICK c, l, old, new, b : Raise(c, l, IF b THEN Changed(old, new) ELSE <<>>)
        BY <1>3, Zenon DEF SetValue
    <2>2. (IF b THEN Changed(old, new) ELSE <<>>) \in Seq({new})
        BY <1>2
    <2> QED  BY <1>1, <2>1, <2>2
<1>4. ASSUME NEW w \in Writes, Apply(w) PROVE events[s] = <<>>
    BY <1>4 DEF Apply
<1>5. ASSUME NEW c \in Clients, Settle(c) PROVE events[s] = <<>>
    <2>1. PICK l, old, new, b : Raise(c, l, IF b THEN Changed(old, new) ELSE <<>>)
        BY <1>5, Zenon DEF Settle
    <2>2. (IF b THEN Changed(old, new) ELSE <<>>) \in Seq({new})
        BY <1>2
    <2> QED  BY <1>1, <2>1, <2>2
<1>6. ASSUME NEW c \in Clients, NEW l \in Locations, NEW n \in 0 .. Len(log), Advance(c, l, n)
      PROVE  events[s] = <<>>
    <2>1. PICK old, new, b : Raise(c, l, IF b THEN Changed(old, new) ELSE <<new>>)
        BY <1>6, Zenon DEF Advance
    <2>2. (IF b THEN Changed(old, new) ELSE <<new>>) \in Seq({new})
        BY <1>2
    <2> QED  BY <1>1, <2>1, <2>2
<1> QED
    BY <1>3, <1>4, <1>5, <1>6

-------------------------------------------------------------------------------
\* The theorem

\* The invariant holds before the first step.
LEMMA ReplicaInit == Init => ReplicaInv
<1> SUFFICES ASSUME Init PROVE ReplicaInv
    OBVIOUS
<1>1. \A S : <<>> \in Seq(S)
    BY EmptySeq
<1>2. In(<<>>) = {} /\ Len(<<>>) = 0 /\ DOMAIN <<>> = {}
    BY DEF In
<1>3. SdkInv
    BY <1>1, <1>2 DEF Init, SdkInv, NotSynced
<1>4. ToldInv /\ OwnInv /\ FateInv
    BY <1>2 DEF Init, ToldInv, OwnInv, FateInv
<1> QED
    BY <1>3, <1>4 DEF ReplicaInv

\* Every step keeps the types, and tells the screens of what it changes.
LEMMA StepTells ==
    ASSUME ReplicaInv, [Next]_vars
    PROVE  SdkInv' /\ ToldInv' /\ Grows /\ Quiet
<1>0. SdkInv /\ ToldInv /\ OwnInv
    BY DEF ReplicaInv
<1>1. ASSUME NEW s \in Screens, Observe(s) PROVE SdkInv' /\ ToldInv' /\ Grows /\ Quiet
    BY <1>0, <1>1, ObserveKeepsSdk, ObserveTells
<1>2. ASSUME NEW s \in Screens, FireEvent(s) PROVE SdkInv' /\ ToldInv' /\ Grows /\ Quiet
    BY <1>0, <1>2, FireEventKeepsSdk, FireEventTells
<1>3. ASSUME NEW w \in Writes, SetValue(w) PROVE SdkInv' /\ ToldInv' /\ Grows /\ Quiet
    BY <1>0, <1>3, SetValueKeepsSdk, SetValueTells
<1>4. ASSUME NEW w \in Writes, Apply(w) PROVE SdkInv' /\ ToldInv' /\ Grows /\ Quiet
    BY <1>0, <1>4, ApplyKeepsSdk, ApplyTells
<1>5. ASSUME NEW c \in Clients, Settle(c) PROVE SdkInv' /\ ToldInv' /\ Grows /\ Quiet
    BY <1>0, <1>5, SettleKeepsSdk, SettleTells
<1>6. ASSUME NEW c \in Clients, Kill(c) PROVE SdkInv' /\ ToldInv' /\ Grows /\ Quiet
    BY <1>0, <1>6, KillKeepsSdk, KillTells
<1>7. ASSUME NEW c \in Clients, NEW l \in Locations, NEW n \in 0 .. Len(log), Advance(c, l, n)
      PROVE  SdkInv' /\ ToldInv' /\ Grows /\ Quiet
    BY <1>0, <1>7, AdvanceKeepsSdk, AdvanceTells
<1>8. CASE UNCHANGED vars
    BY <1>0, <1>8 DEF vars, SdkInv, ToldInv, Grows, Quiet, Synced, View
<1> QED
    BY <1>1, <1>2, <1>3, <1>4, <1>5, <1>6, <1>7, <1>8 DEF Next

\* Every step of the SDK and the server keeps the invariant.
LEMMA ReplicaNext == ReplicaInv /\ [Next]_vars => ReplicaInv'
<1> SUFFICES ASSUME ReplicaInv, [Next]_vars PROVE ReplicaInv'
    OBVIOUS
<1>1. SdkInv' /\ ToldInv' /\ Grows
    BY StepTells
<1>2. OwnInv'
    BY OwnKeeps DEF ReplicaInv
<1>3. FateInv'
    BY <1>1, FateKeeps
<1> QED
    BY <1>1, <1>2, <1>3 DEF ReplicaInv

\* The last snapshot on its way to a screen is the client's view of now, and
\* no write that a snapshot shows has been lost, in every state an SDK that
\* keeps the promises of Replica can be in.
THEOREM ReplicaSound == Spec => []ReplicaInv
<1> QED
    BY ReplicaInit, ReplicaNext, PTL DEF Spec
===============================================================================
