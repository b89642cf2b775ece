--------------------------- MODULE ChatDetailProofs ---------------------------
(***************************************************************************)
(* For any number of devices, screens and messages: the state of           *)
(* ChatDetail is well typed, its tables show no message twice and none of  *)
(* another conversation, a table with nothing left to come is the          *)
(* conversation in the SDK's view, a row that a snapshot takes away is on  *)
(* its way back or refused, and the messages of one process stand in the   *)
(* order in which it sent them.                                            *)
(*                                                                         *)
(* That no row is doubled depends on everything that can put a row on a    *)
(* table: a row is a message some send_action has made, so a new message   *)
(* is on no table yet; a snapshot holds only messages that setValue has    *)
(* run for; and the rows of a message still on its way to the SDK's queue  *)
(* disappear together with that queue when the process is killed.          *)
(*                                                                         *)
(* That a table is the view rests on ReplicaProofs: the last snapshot on   *)
(* its way is the view of now, and what it shows has not been lost.        *)
(***************************************************************************)
EXTENDS ChatDetail, SyncTreeProofs

Sdk == INSTANCE ReplicaProofs

\* What a screen of location l can be told when I are the writes made so far.
Snapshots(I, l) == [KeysIn(l) -> I \cup {NoWrite}]

\* The SDK's state: types, and everything in it was written by setValue.
SdkInv ==
    /\ log \in Seq(Writes)
    /\ issued \in Seq(Writes)
    /\ pending \in [Clients -> Seq(Writes)]
    /\ pos \in [Clients -> [Locations -> Nat \cup {DB!NotSynced}]]
    /\ observing \subseteq Screens
    /\ kills \in Nat
    /\ DOMAIN events = Screens
    /\ \A c \in Clients, l \in Locations : pos[c][l] <= Len(log)
    /\ In(log) \subseteq In(issued)
    /\ \A c \in Clients : In(pending[c]) \subseteq In(issued)
    /\ \A s \in Screens : events[s] \in Seq(Snapshots(In(issued), Looks[s]))

\* The last snapshot on its way to a screen is the view, see ReplicaProofs.
ToldInv ==
    \A s \in Screens :
        /\ s \notin observing \/ ~DB!Synced(Owner[s], Looks[s]) => events[s] = <<>>
        /\ events[s] # <<>> => events[s][Len(events[s])] = DB!View(Owner[s], Looks[s])

\* The write is in client c's view, or the server has refused it.
Kept(c, w) ==
    \/ w \in In(pending[c])
    \/ DB!Includes(pos[c][WriteLoc(w)], w)
    \/ w \in In(issued) /\ w \notin In(log) /\ w \notin In(pending[Writer[w]])

\* A write in a snapshot on its way has not been lost since.
FateInv ==
    \A s \in Screens : \A i \in DOMAIN events[s] : \A w \in Writes :
        WriteLoc(w) = Looks[s] /\ events[s][i][KeyOf[w]] = w => Kept(Owner[s], w)

\* A row is a message that setValue has run for, or one of the same process
\* that waits for the SDK's queue.
RowsSent ==
    \A s \in Screens : \A w \in In(allMessages[s]) :
        \/ w \in In(issued)
        \/ Writer[w] = Owner[s] /\ SetCall(w) \in In(queued[Owner[s]])

\* The app's state: types, and only calls of the running process wait.
AppInv ==
    /\ observing \subseteq opened
    /\ opened \subseteq Screens
    /\ allMessages \in [Screens -> Seq(Writes)]
    /\ DOMAIN queued = Clients
    /\ \A c \in Clients : queued[c] \in Seq(Calls(c))

\* The inductive invariant.
SoundInv == SdkInv /\ AppInv /\ RowsSent /\ RowsAreSound

-------------------------------------------------------------------------------
\* The SDK

\* Types of the constants that the proofs use.
LEMMA ConstantTypes ==
    /\ \A s \in Screens : Owner[s] \in Clients /\ Looks[s] \in Locations
    /\ \A w \in Writes : /\ Writer[w] \in Clients /\ WriteLoc(w) \in Locations
                         /\ SentOn[w] \in Screens /\ Writer[w] = Owner[SentOn[w]]
                         /\ KeyOf[w] \in Keys
BY SyncTreeAssumption, ChatAssumption DEF WriteLoc

\* The operators on data are those of SyncTree in every instance.
LEMMA SameOperators ==
    /\ \A d, ws : Sdk!Layer(d, ws) = DB!Layer(d, ws)
    /\ \A lg, n, l : Sdk!DataAt(lg, n, l) = DB!DataAt(lg, n, l)
    /\ \A old, new : Sdk!Changed(old, new) = DB!Changed(old, new)
    /\ \A ws : DB!In(ws) = In(ws)
    /\ \A w : DB!WriteLoc(w) = WriteLoc(w)
    /\ \A ws : Sdk!In(ws) = In(ws)
    /\ \A w : Sdk!WriteLoc(w) = WriteLoc(w)
    /\ \A l : Sdk!KeysIn(l) = KeysIn(l)
<1>1. \A I : DB!Latest(I) = Sdk!Latest(I)
    BY DEF DB!Latest, Sdk!Latest
<1>2. \A ws, k : DB!Setting(ws, k) = Sdk!Setting(ws, k)
    BY DEF DB!Setting, Sdk!Setting
<1>3. \A d, ws : DB!Layer(d, ws) = Sdk!Layer(d, ws)
    BY <1>1, <1>2 DEF DB!Layer, Sdk!Layer
<1>4. \A l : DB!NoChildren(l) = Sdk!NoChildren(l)
    BY DEF DB!NoChildren, Sdk!NoChildren, DB!KeysIn, Sdk!KeysIn
<1>5. \A lg, n, l : DB!DataAt(lg, n, l) = Sdk!DataAt(lg, n, l)
    BY <1>3, <1>4 DEF DB!DataAt, Sdk!DataAt
<1> QED
    BY <1>3, <1>5 DEF DB!Changed, Sdk!Changed, DB!In, In, Sdk!In, DB!WriteLoc, WriteLoc, Sdk!WriteLoc, KeysIn, Sdk!KeysIn

\* Sdk is the SDK of the screens.
SameState ==
    /\ \A c, l : Sdk!View(c, l) = DB!View(c, l)
    /\ \A c, l : Sdk!Synced(c, l) <=> DB!Synced(c, l)
    /\ \A c, l : Sdk!Listening(c, l) <=> DB!Listening(c, l)
    /\ \A c, w : Sdk!Kept(c, w) <=> Kept(c, w)
    /\ Sdk!SdkInv => SdkInv
    /\ Sdk!ToldInv => ToldInv
    /\ Sdk!FateInv => FateInv

\* The two descriptions of the state agree in every state.
LEMMA SameStateNow == SameState
<1>1. \A c, l : Sdk!View(c, l) = DB!View(c, l)
    BY SameOperators DEF DB!View, Sdk!View
<1>2. \A c, l : Sdk!Synced(c, l) <=> DB!Synced(c, l)
    BY DEF DB!Synced, Sdk!Synced, DB!NotSynced, Sdk!NotSynced
<1>3. \A c, l : Sdk!Listening(c, l) <=> DB!Listening(c, l)
    BY DEF DB!Listening, Sdk!Listening
<1>4. \A c, w : Sdk!Kept(c, w) <=> Kept(c, w)
    BY SameOperators DEF Sdk!Kept, Sdk!Seen, Sdk!Refused, Kept, DB!Includes, Sdk!Includes
<1>5. Sdk!SdkInv => SdkInv
    BY SameOperators DEF Sdk!SdkInv, SdkInv, Sdk!Snapshots, Snapshots, DB!NotSynced, Sdk!NotSynced
<1>6. Sdk!ToldInv => ToldInv
    BY <1>1, <1>2 DEF Sdk!ToldInv, ToldInv
<1>7. Sdk!FateInv => FateInv
    BY <1>4, SameOperators DEF Sdk!FateInv, FateInv
<1> QED
    BY <1>1, <1>2, <1>3, <1>4, <1>5, <1>6, <1>7 DEF SameState

\* The app starts with the SDK in its first state.
LEMMA SdkInit == Init => Sdk!Init
BY DEF Init, DB!Init, Sdk!Init, DB!NotSynced, Sdk!NotSynced

\* The SDK's actions are those that ReplicaProofs is about.
LEMMA SameActions ==
    /\ \A s : DB!Observe(s) => Sdk!Observe(s)
    /\ \A s : DB!FireEvent(s) => Sdk!FireEvent(s)
    /\ \A w : DB!SetValue(w) => Sdk!SetValue(w)
    /\ \A w : DB!Apply(w) => Sdk!Apply(w)
    /\ \A c : DB!Settle(c) => Sdk!Settle(c)
    /\ \A c : DB!Kill(c) => Sdk!Kill(c)
    /\ \A c, l, n : DB!Advance(c, l, n) => Sdk!Advance(c, l, n)
<1>0. SameState
    BY SameStateNow
<1>1. \A c, l, vs : DB!Raise(c, l, vs) <=> Sdk!Raise(c, l, vs)
    BY DEF DB!Raise, Sdk!Raise
<1>2. \A n, w : DB!Includes(n, w) <=> Sdk!Includes(n, w)
    BY DEF DB!Includes, Sdk!Includes
<1>3. \A s : DB!Observe(s) => Sdk!Observe(s)
    BY <1>0 DEF SameState, DB!Observe, Sdk!Observe
<1>4. \A s : DB!FireEvent(s) => Sdk!FireEvent(s)
    BY DEF DB!FireEvent, Sdk!FireEvent
<1>5. \A w : DB!SetValue(w) => Sdk!SetValue(w)
    BY <1>0, <1>1, SameOperators DEF SameState, DB!SetValue, Sdk!SetValue
<1>6. \A w : DB!Apply(w) => Sdk!Apply(w)
    BY SameOperators DEF DB!Apply, Sdk!Apply
<1>7. \A c : DB!Settle(c) => Sdk!Settle(c)
    BY <1>0, <1>1, <1>2, SameOperators DEF SameState, DB!Settle, Sdk!Settle
<1>8. \A c : DB!Kill(c) => Sdk!Kill(c)
    BY DEF DB!Kill, Sdk!Kill, DB!NotSynced, Sdk!NotSynced
<1>9. \A c, l, n : DB!Advance(c, l, n) => Sdk!Advance(c, l, n)
    <2>1. \A c, l : DB!Settled(c, l) = Sdk!Settled(c, l)
        BY SameOperators DEF DB!Settled, Sdk!Settled
    <2> QED  BY <1>0, <1>1, <1>2, <2>1, SameOperators DEF SameState, DB!Advance, Sdk!Advance
<1> QED
    BY <1>3, <1>4, <1>5, <1>6, <1>7, <1>8, <1>9

\* Every step of the app is a step of the SDK or leaves it alone.
LEMMA SdkStep ==
    ASSUME [Next]_vars
    PROVE  [Sdk!Next]_Sdk!vars
<1>1. CASE \E s \in Screens : DB!FireEvent(s) \/ DB!Observe(s)
    BY <1>1, SameActions DEF Sdk!Next
<1>2. CASE \E w \in Writes : DB!SetValue(w) \/ DB!Apply(w)
    BY <1>2, SameActions DEF Sdk!Next
<1>3. CASE \E c \in Clients : DB!Settle(c) \/ DB!Kill(c)
    BY <1>3, SameActions DEF Sdk!Next
<1>4. CASE \E c \in Clients, l \in Locations : \E n \in 0 .. Len(log) : DB!Advance(c, l, n)
    BY <1>4, SameActions DEF Sdk!Next
<1>5. CASE UNCHANGED sdkVars
    BY <1>5 DEF sdkVars, Sdk!vars
<1> QED
    BY <1>1, <1>2, <1>3, <1>4, <1>5
    DEF Next, vars, sdkVars, ViewDidLoad, UsersModelsSetup, RunObserve, SendAction, RunSetValue, Synchronise, Kill

\* The conversation screens use the SDK as Replica describes it.
THEOREM SdkSpec == Spec => Sdk!Spec
BY SdkInit, SdkStep, PTL DEF Spec, Sdk!Spec

\* What ReplicaProofs shows about the SDK holds below the screens.
THEOREM SdkSound == Spec => [](Sdk!ReplicaInv /\ SdkInv /\ ToldInv /\ FateInv)
<1>1. Sdk!ReplicaInv => SdkInv /\ ToldInv /\ FateInv
    BY SameStateNow DEF SameState, Sdk!ReplicaInv
<1>2. Sdk!Spec => []Sdk!ReplicaInv
    BY SyncTreeAssumption, Sdk!ReplicaSound
<1> QED
    BY <1>1, <1>2, SdkSpec, PTL

\* A message that a listening client has seen stays in its view or is refused.
LEMMA KeptStays ==
    ASSUME Sdk!ReplicaInv, [Next]_vars, NEW c \in Clients, NEW w \in Writes, Kept(c, w),
           DB!Listening(c, WriteLoc(w)), DB!Listening(c, WriteLoc(w))'
    PROVE  Kept(c, w)'
<1>1. SameState /\ SameState'
    BY SameStateNow, PTL
<1>2. Sdk!Kept(c, w) /\ Sdk!Listening(c, Sdk!WriteLoc(w)) /\ Sdk!Listening(c, Sdk!WriteLoc(w))'
    BY <1>1, SameOperators DEF SameState
<1>3. [Sdk!Next]_Sdk!vars
    BY SdkStep
<1>4. Sdk!Kept(c, w)'
    BY <1>2, <1>3, SyncTreeAssumption, Sdk!KeptStays DEF Sdk!ReplicaInv
<1> QED
    BY <1>1, <1>4 DEF SameState
-------------------------------------------------------------------------------
\* The screens

\* Calls differ when their names differ.
LEMMA CallsDiffer == \A s, w : ObserveCall(s) # SetCall(w)
<1> SUFFICES ASSUME NEW s, NEW w PROVE ObserveCall(s) # SetCall(w)
    OBVIOUS
<1>1. ObserveCall(s).call = "observe" /\ SetCall(w).call = "setValue"
    BY DEF ObserveCall, SetCall
<1> QED
    BY <1>1

\* The same call is for the same message.
LEMMA SetCallIsInjective == \A v, w : SetCall(v) = SetCall(w) => v = w
<1> SUFFICES ASSUME NEW v, NEW w, SetCall(v) = SetCall(w) PROVE v = w
    OBVIOUS
<1>1. SetCall(v).message = v /\ SetCall(w).message = w
    BY DEF SetCall
<1> QED
    BY <1>1

\* A loaded screen brings a call to its client's queue and leaves the rest.
LEMMA ViewDidLoadKeeps ==
    ASSUME SoundInv, NEW s \in Screens, ViewDidLoad(s)
    PROVE  SoundInv'
<1>0. Owner[s] \in Clients
    BY ConstantTypes
<1>1. SdkInv'
    BY DEF SoundInv, SdkInv, ViewDidLoad, sdkVars
<1>2. \A c \in Clients : Calls(c) \subseteq Calls(c)'
    BY DEF Calls, ViewDidLoad
<1>3. ObserveCall(s) \in Calls(Owner[s])'
    BY <1>0 DEF Calls, ViewDidLoad
<1>4. \A c \in Clients : queued'[c] \in Seq(Calls(c)') /\ In(queued[c]) \subseteq In(queued'[c])
    <2> SUFFICES ASSUME NEW c \in Clients
                 PROVE  queued'[c] \in Seq(Calls(c)') /\ In(queued[c]) \subseteq In(queued'[c])
        OBVIOUS
    <2>1. queued[c] \in Seq(Calls(c)')
        BY <1>2, SeqMonotonic DEF SoundInv, AppInv
    <2>2. CASE c = Owner[s]
        <3>1. queued'[c] = Append(queued[c], ObserveCall(s))
            BY <2>2 DEF ViewDidLoad, SoundInv, AppInv
        <3> QED  BY <3>1, <2>1, <2>2, <1>3, InAppend, AppendProperties
    <2>3. CASE c # Owner[s]
        <3>1. queued'[c] = queued[c]
            BY <2>3 DEF ViewDidLoad, SoundInv, AppInv
        <3> QED  BY <3>1, <2>1
    <2> QED  BY <2>2, <2>3
<1>5. AppInv'
    BY <1>4 DEF SoundInv, AppInv, ViewDidLoad, sdkVars
<1>6. RowsSent'
    BY <1>4, ConstantTypes DEF SoundInv, RowsSent, ViewDidLoad, sdkVars
<1>7. RowsAreSound'
    BY DEF SoundInv, RowsAreSound, ViewDidLoad
<1> QED
    BY <1>1, <1>5, <1>6, <1>7 DEF SoundInv

\* A message that is sent is a new row: no snapshot can have brought it yet.
LEMMA SendActionKeeps ==
    ASSUME SoundInv, NEW w \in Writes, SendAction(w)
    PROVE  SoundInv'
<1> DEFINE s == SentOn[w]
           c == Owner[s]
<1>0. s \in Screens /\ c \in Clients /\ Writer[w] = c
    BY ConstantTypes
<1>1. SdkInv'
    BY DEF SoundInv, SdkInv, SendAction, sdkVars
<1>2. \A d : Calls(d)' = Calls(d)
    BY DEF Calls, SendAction
<1>3. queued' = [queued EXCEPT ![c] = Append(queued[c], SetCall(w))]
    BY DEF SendAction
<1>4. SetCall(w) \in Calls(c) /\ queued[c] \in Seq(Calls(c))
    BY <1>0 DEF Calls, SoundInv, AppInv
<1>5. /\ DOMAIN queued' = Clients
      /\ \A d \in Clients : queued'[d] \in Seq(Calls(d)) /\ In(queued[d]) \subseteq In(queued'[d])
      /\ In(queued'[c]) = In(queued[c]) \cup {SetCall(w)}
    <2> HIDE DEF c
    <2>1. In(Append(queued[c], SetCall(w))) = In(queued[c]) \cup {SetCall(w)}
        BY <1>4, InAppend
    <2> QED  BY <2>1, <1>0, <1>3, <1>4, AppendProperties DEF SoundInv, AppInv
<1>6. /\ allMessages[s] \in Seq(Writes)
      /\ allMessages' = [allMessages EXCEPT ![s] = Append(allMessages[s], w)]
      /\ In(Append(allMessages[s], w)) = In(allMessages[s]) \cup {w}
    <2>1. allMessages[s] \in Seq(Writes)
        BY <1>0 DEF SoundInv, AppInv
    <2> QED  BY <2>1, InAppend DEF SendAction
<1>7. AppInv'
    <2>1. allMessages' \in [Screens -> Seq(Writes)]
        <3> HIDE DEF s
        <3> QED  BY <1>0, <1>6 DEF SoundInv, AppInv
    <2> QED  BY <2>1, <1>2, <1>5 DEF SoundInv, AppInv, SendAction, sdkVars
<1>8. RowsSent'
    <2> SUFFICES ASSUME NEW t \in Screens, NEW v \in In(allMessages'[t])
                 PROVE  \/ v \in In(issued')
                        \/ Writer[v] = Owner[t] /\ SetCall(v) \in In(queued'[Owner[t]])
        BY DEF RowsSent
    <2>1. v \in In(allMessages[t]) \/ (t = s /\ v = w)
        <3> HIDE DEF s
        <3> QED  BY <1>0, <1>6 DEF SoundInv, AppInv
    <2>2. CASE t = s /\ v = w
        BY <2>2, <1>0, <1>5
    <2>3. CASE v \in In(allMessages[t])
        BY <2>3, <1>5, ConstantTypes DEF SoundInv, RowsSent, SendAction, sdkVars
    <2> QED  BY <2>1, <2>2, <2>3
<1>9. RowsAreSound'
    <2>1. w \notin In(allMessages[s])
        BY <1>0 DEF SoundInv, RowsSent, SendAction, Sent
    <2>2. Between(s, w)
        BY <1>0 DEF Between
    <2> SUFFICES ASSUME NEW t \in Screens
                 PROVE  /\ \A i \in DOMAIN allMessages'[t] : Between(t, allMessages'[t][i])
                        /\ \A i, j \in DOMAIN allMessages'[t] :
                              allMessages'[t][i] = allMessages'[t][j] => i = j
        BY DEF RowsAreSound, Between
    <2>3. CASE t # s
        <3>1. allMessages'[t] = allMessages[t]
            BY <2>3, <1>0, <1>6 DEF SoundInv, AppInv
        <3> QED  BY <3>1 DEF SoundInv, RowsAreSound
    <2>4. CASE t = s
        <3>1. allMessages'[s] = Append(allMessages[s], w)
            BY <1>0, <1>6 DEF SoundInv, AppInv
        <3>2. \A i \in DOMAIN allMessages[s] : allMessages[s][i] # w
            BY <2>1 DEF In
        <3> HIDE DEF s
        <3>3. /\ \A i \in DOMAIN allMessages[s] : Between(s, allMessages[s][i])
              /\ \A i, j \in DOMAIN allMessages[s] :
                    allMessages[s][i] = allMessages[s][j] => i = j
            BY <1>0 DEF SoundInv, RowsAreSound
        <3>4. /\ DOMAIN Append(allMessages[s], w) = DOMAIN allMessages[s] \cup {Len(allMessages[s]) + 1}
              /\ \A i \in DOMAIN allMessages[s] : Append(allMessages[s], w)[i] = allMessages[s][i]
              /\ Append(allMessages[s], w)[Len(allMessages[s]) + 1] = w
            BY <1>6, AppendProperties, LenProperties
        <3> QED  BY <2>2, <2>4, <3>1, <3>2, <3>3, <3>4
    <2> QED  BY <2>3, <2>4
<1> QED
    BY <1>1, <1>7, <1>8, <1>9 DEF SoundInv

\* A table filled from a snapshot has issued messages of the conversation,
\* each once.
LEMMA UsersModelsSetupKeeps ==
    ASSUME SoundInv, SdkInv', NEW s \in Screens, UsersModelsSetup(s)
    PROVE  SoundInv'
<1> DEFINE d == Head(events[s])
<1>1. SdkInv' /\ issued' = issued /\ d \in Snapshots(In(issued), Looks[s])
    <2>1. events[s] # <<>> /\ issued' = issued
        BY DEF UsersModelsSetup, DB!FireEvent
    <2>2. events[s] \in Seq(Snapshots(In(issued), Looks[s]))
        BY DEF SoundInv, SdkInv
    <2> QED  BY <2>1, <2>2, HeadTailProperties
<1>2. PICK rows \in Rows : /\ IsTable(Conversation(s, d), rows)
                           /\ allMessages' = [allMessages EXCEPT ![s] = rows]
    BY DEF UsersModelsSetup
<1>3. rows \in Seq(Writes)
    BY DEF Rows
<1>4. In(rows) \subseteq In(issued) /\ \A w \in In(rows) : w \in Writes /\ InConversation(s, w)
    <2> SUFFICES ASSUME NEW w \in Conversation(s, d)
                 PROVE  w \in In(issued) /\ w \in Writes /\ InConversation(s, w)
        BY <1>2 DEF IsTable
    <2>1. w \in Writes /\ KeyOf[w] \in DOMAIN d /\ d[KeyOf[w]] = w /\ InConversation(s, w)
        BY DEF Conversation
    <2>2. w # NoWrite
        BY <2>1, SyncTreeAssumption
    <2> HIDE DEF d
    <2> QED  BY <2>1, <2>2, <1>1 DEF Snapshots
<1>5. AppInv'
    BY <1>2, <1>3 DEF SoundInv, AppInv, UsersModelsSetup, DB!FireEvent, Calls
<1>6. RowsSent'
    <2>1. \A t \in Screens : In(allMessages'[t]) \subseteq In(allMessages[t]) \cup In(issued)
        BY <1>2, <1>4 DEF SoundInv, AppInv
    <2> QED  BY <2>1, <1>1 DEF SoundInv, RowsSent, UsersModelsSetup
<1>7. /\ \A i \in DOMAIN rows : Between(s, rows[i])
      /\ \A i, j \in DOMAIN rows : rows[i] = rows[j] => i = j
    <2>1. \A w \in Writes : InConversation(s, w) => Between(s, w)
        BY DEF InConversation, Between
    <2>2. \A i \in DOMAIN rows : Between(s, rows[i])
        <3>1. \A i \in DOMAIN rows : rows[i] \in In(rows)
            BY DEF In
        <3> QED  BY <3>1, <2>1, <1>4
    <2>3. \A i, j \in DOMAIN rows : i < j => KeyOf[rows[i]] < KeyOf[rows[j]]
        BY <1>2 DEF IsTable
    <2>4. DOMAIN rows \subseteq Nat /\ \A i \in DOMAIN rows : KeyOf[rows[i]] \in Nat
        <3>1. DOMAIN rows \subseteq Nat /\ \A i \in DOMAIN rows : rows[i] \in Writes
            BY <1>3
        <3> QED  BY <3>1, ConstantTypes, ChatAssumption
    <2> QED  BY <2>2, <2>3, <2>4
<1>8. RowsAreSound'
    <2> SUFFICES ASSUME NEW t \in Screens
                 PROVE  /\ \A i \in DOMAIN allMessages'[t] : Between(t, allMessages'[t][i])
                        /\ \A i, j \in DOMAIN allMessages'[t] :
                              allMessages'[t][i] = allMessages'[t][j] => i = j
        BY DEF RowsAreSound, Between
    <2>1. CASE t = s
        <3>1. allMessages'[t] = rows
            BY <2>1, <1>2 DEF SoundInv, AppInv
        <3> QED  BY <3>1, <2>1, <1>7
    <2>2. CASE t # s
        <3>1. allMessages'[t] = allMessages[t]
            BY <2>2, <1>2 DEF SoundInv, AppInv
        <3> QED  BY <3>1 DEF SoundInv, RowsAreSound
    <2> QED  BY <2>1, <2>2
<1> QED
    BY <1>1, <1>5, <1>6, <1>8 DEF SoundInv

\* Taking the oldest call off a client's queue.
LEMMA DequeueKeeps ==
    ASSUME SoundInv, NEW c \in Clients, queued[c] # <<>>,
           queued' = [queued EXCEPT ![c] = Tail(queued[c])], opened' = opened
    PROVE  /\ DOMAIN queued' = Clients
           /\ \A d \in Clients : queued'[d] \in Seq(Calls(d)')
           /\ \A d \in Clients : In(queued[d]) \subseteq In(queued'[d]) \cup {Head(queued[c])}
           /\ Head(queued[c]) \in Calls(c)
<1>1. queued[c] \in Seq(Calls(c)) /\ \A d : Calls(d)' = Calls(d)
    BY DEF SoundInv, AppInv, Calls
<1>2. /\ Tail(queued[c]) \in Seq(Calls(c)) /\ Head(queued[c]) \in Calls(c)
      /\ In(queued[c]) = {Head(queued[c])} \cup In(Tail(queued[c]))
    BY <1>1, InTail, HeadTailProperties
<1> QED
    BY <1>1, <1>2 DEF SoundInv, AppInv

\* The call of observe leaves the queue; the rows' messages stay there.
LEMMA RunObserveKeeps ==
    ASSUME SoundInv, SdkInv', NEW s \in Screens, RunObserve(s)
    PROVE  SoundInv'
<1> DEFINE c == Owner[s]
<1>0. c \in Clients
    BY ConstantTypes
<1>1. SdkInv' /\ issued' = issued
    BY DEF RunObserve, DB!Observe
<1>2. /\ DOMAIN queued' = Clients
      /\ \A d \in Clients : queued'[d] \in Seq(Calls(d)')
      /\ \A d \in Clients : In(queued[d]) \subseteq In(queued'[d]) \cup {ObserveCall(s)}
      /\ ObserveCall(s) \in Calls(c)
    <2>1. /\ queued[c] # <<>> /\ Head(queued[c]) = ObserveCall(s)
          /\ queued' = [queued EXCEPT ![c] = Tail(queued[c])] /\ opened' = opened
        BY DEF RunObserve
    <2> HIDE DEF c
    <2> QED  BY <2>1, <1>0, DequeueKeeps
<1>3. s \in opened
    <2>1. PICK t \in opened : ObserveCall(s) = ObserveCall(t)
        BY <1>2, CallsDiffer DEF Calls
    <2>2. ObserveCall(s).screen = s /\ ObserveCall(t).screen = t
        BY DEF ObserveCall
    <2> QED  BY <2>1, <2>2
<1>4. AppInv'
    BY <1>2, <1>3 DEF SoundInv, AppInv, RunObserve, DB!Observe
<1>5. RowsSent'
    BY <1>1, <1>2, CallsDiffer, ConstantTypes DEF SoundInv, RowsSent, RunObserve
<1>6. RowsAreSound'
    BY DEF SoundInv, RowsAreSound, RunObserve
<1> QED
    BY <1>1, <1>4, <1>5, <1>6 DEF SoundInv

\* The call of setValue leaves the queue when its message becomes issued.
LEMMA RunSetValueKeeps ==
    ASSUME SoundInv, SdkInv', NEW w \in Writes, RunSetValue(w)
    PROVE  SoundInv'
<1> DEFINE c == Writer[w]
<1>0. c \in Clients
    BY ConstantTypes
<1>1. SdkInv' /\ In(issued') = In(issued) \cup {w}
    BY InAppend DEF SoundInv, SdkInv, RunSetValue, DB!SetValue
<1>2. /\ DOMAIN queued' = Clients
      /\ \A d \in Clients : queued'[d] \in Seq(Calls(d)')
      /\ \A d \in Clients : In(queued[d]) \subseteq In(queued'[d]) \cup {SetCall(w)}
    <2>1. /\ queued[c] # <<>> /\ Head(queued[c]) = SetCall(w)
          /\ queued' = [queued EXCEPT ![c] = Tail(queued[c])] /\ opened' = opened
        BY DEF RunSetValue
    <2> HIDE DEF c
    <2> QED  BY <2>1, <1>0, DequeueKeeps
<1>3. AppInv'
    BY <1>2 DEF SoundInv, AppInv, RunSetValue, DB!SetValue
<1>4. RowsSent'
    BY <1>1, <1>2, SetCallIsInjective, ConstantTypes DEF SoundInv, RowsSent, RunSetValue
<1>5. RowsAreSound'
    BY DEF SoundInv, RowsAreSound, RunSetValue
<1> QED
    BY <1>1, <1>3, <1>4, <1>5 DEF SoundInv

\* The connection and the server do not touch the screens.
LEMMA SynchroniseKeeps ==
    ASSUME SoundInv, SdkInv', Synchronise
    PROVE  SoundInv'
<1>1. SdkInv' /\ issued' = issued /\ observing' = observing
    <2>1. CASE \E w \in Writes : DB!Apply(w)
        BY <2>1 DEF DB!Apply
    <2>2. CASE \E c \in Clients : DB!Settle(c)
        BY <2>2 DEF DB!Settle
    <2>3. CASE \E c \in Clients, l \in Locations : \E n \in 0 .. Len(log) : DB!Advance(c, l, n)
        BY <2>3 DEF DB!Advance
    <2> QED  BY <2>1, <2>2, <2>3 DEF Synchronise
<1>2. AppInv'
    BY <1>1 DEF SoundInv, AppInv, Synchronise, Calls
<1>3. RowsSent' /\ RowsAreSound'
    BY <1>1 DEF SoundInv, RowsSent, RowsAreSound, Synchronise
<1> QED
    BY <1>1, <1>2, <1>3 DEF SoundInv

\* A killed process loses its rows and its queued calls together.
LEMMA KillKeeps ==
    ASSUME SoundInv, SdkInv', NEW c \in Clients, Kill(c)
    PROVE  SoundInv'
<1>1. SdkInv' /\ issued' = issued
    BY DEF Kill, DB!Kill
<1>2. /\ opened' = {s \in opened : Owner[s] # c}
      /\ observing' = {s \in observing : Owner[s] # c}
      /\ allMessages' = [s \in Screens |-> IF Owner[s] = c THEN <<>> ELSE allMessages[s]]
      /\ queued' = [queued EXCEPT ![c] = <<>>]
    BY DEF Kill, DB!Kill
<1>3. \A d \in Clients : d # c => Calls(d)' = Calls(d) /\ queued'[d] = queued[d]
    BY <1>2 DEF Calls, SoundInv, AppInv
<1>4. \A S : <<>> \in Seq(S)
    BY EmptySeq
<1>5. AppInv'
    <2>1. \A d \in Clients : queued'[d] \in Seq(Calls(d)')
        BY <1>2, <1>3, <1>4 DEF SoundInv, AppInv
    <2>2. allMessages' \in [Screens -> Seq(Writes)]
        BY <1>2, <1>4 DEF SoundInv, AppInv
    <2> QED  BY <1>2, <2>1, <2>2 DEF SoundInv, AppInv
<1>6. \A s \in Screens : \/ Owner[s] = c /\ allMessages'[s] = <<>>
                         \/ Owner[s] # c /\ allMessages'[s] = allMessages[s]
    BY <1>2
<1>7. RowsSent'
    <2>1. In(<<>>) = {}
        BY DEF In
    <2> QED  BY <2>1, <1>1, <1>3, <1>6, ConstantTypes DEF SoundInv, RowsSent
<1>8. RowsAreSound'
    BY <1>6 DEF SoundInv, RowsAreSound
<1> QED
    BY <1>1, <1>5, <1>7, <1>8 DEF SoundInv

-------------------------------------------------------------------------------
\* The theorems

\* The first screens are empty and nothing is waiting.
LEMMA InitSound == Init => SoundInv
<1> SUFFICES ASSUME Init PROVE SoundInv
    OBVIOUS
<1>1. \A S : <<>> \in Seq(S)
    BY EmptySeq
<1>2. In(<<>>) = {} /\ Len(<<>>) = 0
    BY DEF In
<1>3. SdkInv
    BY <1>1, <1>2 DEF Init, DB!Init, SdkInv, DB!NotSynced
<1>4. AppInv
    BY <1>1 DEF Init, DB!Init, AppInv
<1>5. RowsSent /\ RowsAreSound
    BY <1>2 DEF Init, RowsSent, RowsAreSound
<1> QED
    BY <1>3, <1>4, <1>5 DEF SoundInv

\* Every step of the app, the SDK and the server keeps the invariant.
LEMMA NextKeepsSound == SoundInv /\ SdkInv' /\ [Next]_vars => SoundInv'
<1> SUFFICES ASSUME SoundInv, SdkInv', [Next]_vars PROVE SoundInv'
    OBVIOUS
<1>1. CASE \E s \in Screens : ViewDidLoad(s)
    BY <1>1, ViewDidLoadKeeps
<1>2. CASE \E s \in Screens : UsersModelsSetup(s)
    BY <1>2, UsersModelsSetupKeeps
<1>3. CASE \E s \in Screens : RunObserve(s)
    BY <1>3, RunObserveKeeps
<1>4. CASE \E w \in Writes : SendAction(w)
    BY <1>4, SendActionKeeps
<1>5. CASE \E w \in Writes : RunSetValue(w)
    BY <1>5, RunSetValueKeeps
<1>6. CASE Synchronise
    BY <1>6, SynchroniseKeeps
<1>7. CASE \E c \in Clients : Kill(c)
    BY <1>7, KillKeeps
<1>8. CASE UNCHANGED vars
    BY <1>8 DEF SoundInv, SdkInv, AppInv, RowsSent, RowsAreSound, Calls, vars, sdkVars
<1> QED
    BY <1>1, <1>2, <1>3, <1>4, <1>5, <1>6, <1>7, <1>8 DEF Next

\* The inductive invariant always holds.
THEOREM Soundness == Spec => []SoundInv
<1> QED
    BY InitSound, NextKeepsSound, SdkSound, PTL DEF Spec

\* No table of ChatDetailVC shows a message twice or one of a conversation
\* other than its own, for any devices, screens, messages and key order.
THEOREM RowsSound == Spec => []RowsAreSound
<1>1. SoundInv => RowsAreSound
    BY DEF SoundInv
<1> QED
    BY <1>1, Soundness, PTL
-------------------------------------------------------------------------------
\* What a table shows

\* The call of observe waits in q before every message of the screen.
Before(q, s) ==
    \E i \in DOMAIN q :
        /\ q[i] = ObserveCall(s)
        /\ \A j \in DOMAIN q, w \in Writes : SentOn[w] = s /\ q[j] = SetCall(w) => i < j

\* Messages are sent on open screens, and after the screen has asked to
\* observe.
QueueInv ==
    /\ \A w \in Writes : SetCall(w) \in In(queued[Writer[w]]) => SentOn[w] \in opened
    /\ \A s \in opened \ observing : Before(queued[Owner[s]], s)

\* A row is of the screen's location; before a screen observes, its rows are
\* its own and setValue has not run for them; a row of an observing screen has
\* not been lost.
RowsInv ==
    \A s \in Screens : \A w \in In(allMessages[s]) :
        /\ WriteLoc(w) = Looks[s]
        /\ s \notin observing => w \notin In(issued) /\ SentOn[w] = s
        /\ s \in observing /\ w \in In(issued) => Kept(Owner[s], w)

\* The inductive invariant of TableMatchesView and VanishedRowReturns.
TableInv == Sdk!ReplicaInv /\ ToldInv /\ FateInv /\ SoundInv /\ QueueInv /\ RowsInv /\ TableMatchesView

\* A screen with nothing to come shows what its client sees.
LEMMA QuietStep ==
    ASSUME Sdk!ReplicaInv, [Next]_vars, NEW s \in Screens, s \in observing',
           DB!Synced(Owner[s], Looks[s])', events'[s] = <<>>, events[s] = <<>>
    PROVE  /\ s \in observing /\ DB!Synced(Owner[s], Looks[s])
           /\ DB!View(Owner[s], Looks[s])' = DB!View(Owner[s], Looks[s])
<1>1. SameState /\ SameState'
    BY SameStateNow, PTL
<1>2. Sdk!Quiet
    BY SdkStep, SyncTreeAssumption, Sdk!StepTells
<1> QED
    BY <1>1, <1>2 DEF SameState, Sdk!Quiet

\* Every screen of the sender that has a copy is told of a new message.
LEMMA SetValueIsTold ==
    ASSUME Sdk!ReplicaInv, NEW w \in Writes, DB!SetValue(w), NEW s \in observing,
           Owner[s] = Writer[w], Looks[s] = WriteLoc(w), DB!Synced(Owner[s], Looks[s])
    PROVE  events'[s] # <<>>
<1>1. SameState
    BY SameStateNow
<1>2. Sdk!SetValue(w) /\ Looks[s] = Sdk!WriteLoc(w) /\ Sdk!Synced(Owner[s], Looks[s])
    BY <1>1, SameActions, SameOperators DEF SameState
<1> QED
    BY <1>2, SyncTreeAssumption, Sdk!SetValueIsTold DEF Sdk!ReplicaInv

\* A message that is kept is in the view or has been refused.
LEMMA KeptInView ==
    ASSUME Sdk!ReplicaInv, NEW c \in Clients, NEW w \in Writes, Kept(c, w),
           DB!Synced(c, WriteLoc(w))
    PROVE  \/ DB!View(c, WriteLoc(w))[KeyOf[w]] = w
           \/ w \in In(issued) /\ w \notin In(log) /\ w \notin In(pending[Writer[w]])
<1>1. SameState
    BY SameStateNow
<1>2. CASE Sdk!Seen(c, w)
    <2>1. Sdk!Synced(c, Sdk!WriteLoc(w))
        BY <1>1, SameOperators DEF SameState
    <2>2. \A v \in Writes : KeyOf[v] = KeyOf[w] => v = w
        BY ChatAssumption
    <2>3. Sdk!View(c, Sdk!WriteLoc(w))[KeyOf[w]] = w
        BY <1>2, <2>1, <2>2, SyncTreeAssumption, Sdk!SeenInView DEF Sdk!ReplicaInv
    <2> QED  BY <1>1, <2>3, SameOperators DEF SameState
<1>3. CASE ~Sdk!Seen(c, w)
    BY <1>3, SameOperators DEF Kept, Sdk!Seen, DB!Includes, Sdk!Includes
<1> QED
    BY <1>2, <1>3

\* A call that is added at the end keeps the order.
LEMMA BeforeAppend ==
    ASSUME NEW S, NEW q \in Seq(S), NEW e \in S, NEW s, Before(q, s)
    PROVE  Before(Append(q, e), s)
<1>1. PICK i \in DOMAIN q :
        /\ q[i] = ObserveCall(s)
        /\ \A j \in DOMAIN q, w \in Writes : SentOn[w] = s /\ q[j] = SetCall(w) => i < j
    BY DEF Before
<1>2. /\ DOMAIN Append(q, e) = 1 .. Len(q) + 1 /\ DOMAIN q = 1 .. Len(q) /\ Len(q) \in Nat
      /\ \A j \in 1 .. Len(q) : Append(q, e)[j] = q[j]
    BY AppendProperties, LenProperties, SMTT(60)
<1>3. PICK n \in Nat : n = Len(q)
    BY <1>2
<1>4. \A j \in 1 .. n + 1 : j \in 1 .. n \/ i < j
    BY <1>1, <1>2, <1>3
<1>5. i \in 1 .. n + 1
    BY <1>1, <1>2, <1>3
<1> QED
    BY <1>1, <1>2, <1>3, <1>4, <1>5 DEF Before

\* A screen that is loaded has sent nothing yet.
LEMMA BeforeNew ==
    ASSUME NEW S, NEW q \in Seq(S), NEW s, ObserveCall(s) \in S,
           \A w \in Writes : SentOn[w] = s => SetCall(w) \notin In(q)
    PROVE  Before(Append(q, ObserveCall(s)), s)
<1>1. /\ DOMAIN Append(q, ObserveCall(s)) = 1 .. Len(q) + 1
      /\ DOMAIN q = 1 .. Len(q) /\ Len(q) \in Nat
      /\ \A j \in 1 .. Len(q) : Append(q, ObserveCall(s))[j] = q[j]
      /\ Append(q, ObserveCall(s))[Len(q) + 1] = ObserveCall(s)
    BY AppendProperties, LenProperties
<1>2. \A j \in 1 .. Len(q) : q[j] \in In(q)
    BY <1>1, SMTT(60) DEF In
<1>3. PICK n \in Nat : n = Len(q)
    BY <1>1
<1>4. n + 1 \in 1 .. n + 1 /\ \A j \in 1 .. n + 1 : j \in 1 .. n \/ j = n + 1
    OBVIOUS
<1>5. \A j \in 1 .. n + 1, w \in Writes :
        SentOn[w] = s => Append(q, ObserveCall(s))[j] # SetCall(w)
    BY <1>1, <1>2, <1>3, <1>4, CallsDiffer
<1> QED
    BY <1>1, <1>3, <1>4, <1>5 DEF Before

\* The oldest call of the queue is not a message of a screen that waits.
LEMMA BeforeTail ==
    ASSUME NEW S, NEW q \in Seq(S), q # <<>>, NEW s, Before(q, s), Head(q) # ObserveCall(s)
    PROVE  /\ Before(Tail(q), s)
           /\ \A w \in Writes : SentOn[w] = s => Head(q) # SetCall(w)
<1>1. PICK i \in DOMAIN q :
        /\ q[i] = ObserveCall(s)
        /\ \A j \in DOMAIN q, w \in Writes : SentOn[w] = s /\ q[j] = SetCall(w) => i < j
    BY DEF Before
<1>2. /\ Len(q) \in Nat /\ Len(q) >= 1 /\ DOMAIN q = 1 .. Len(q) /\ Head(q) = q[1]
      /\ DOMAIN Tail(q) = 1 .. Len(q) - 1
      /\ \A j \in 1 .. Len(q) - 1 : Tail(q)[j] = q[j + 1]
    BY HeadTailProperties, LenProperties, EmptySeq, SMTT(60)
<1>3. PICK n \in Nat : n = Len(q)
    BY <1>2
<1>4. i \in 1 .. n /\ i # 1 /\ 1 \in 1 .. n
    BY <1>1, <1>2, <1>3
<1>5. i - 1 \in 1 .. n - 1 /\ (i - 1) + 1 = i
    BY <1>4
<1>6. \A j \in 1 .. n - 1 : j + 1 \in 1 .. n /\ (i < j + 1 => i - 1 < j)
    BY <1>4
<1>7. Tail(q)[i - 1] = ObserveCall(s)
    BY <1>1, <1>2, <1>3, <1>5
<1>8. \A j \in 1 .. n - 1, w \in Writes : SentOn[w] = s /\ Tail(q)[j] = SetCall(w) => i - 1 < j
    BY <1>1, <1>2, <1>3, <1>6
<1>9. \A w \in Writes : SentOn[w] = s => Head(q) # SetCall(w)
    BY <1>1, <1>2, <1>3, <1>4
<1> QED
    BY <1>2, <1>3, <1>5, <1>7, <1>8, <1>9 DEF Before

\* InConversation is about the pair of e-mails.
LEMMA SamePair == \A s, w : InConversation(s, w) <=> Between(s, w)
BY DEF InConversation, Between

\* The table of screen s is the conversation in the view.
TableOf(s) ==
    LET d == DB!View(Owner[s], Looks[s])
    IN  IsTable({w \in Writes : KeyOf[w] \in DOMAIN d /\ d[KeyOf[w]] = w /\ Between(s, w)},
                allMessages[s])

\* A table that a step leaves alone still matches the view.
LEMMA TableStays ==
    ASSUME TableInv, [Next]_vars, NEW s \in Screens, UpToDate(s)', events[s] = <<>>,
           allMessages'[s] = allMessages[s],
           \A w \in Writes : SentOn[w] = s => SetCall(w) \notin In(queued[Owner[s]])
    PROVE  TableOf(s)'
<1>1. /\ s \in observing /\ DB!Synced(Owner[s], Looks[s])
      /\ DB!View(Owner[s], Looks[s])' = DB!View(Owner[s], Looks[s])
    BY QuietStep DEF TableInv, UpToDate
<1>2. TableOf(s)
    BY <1>1 DEF TableInv, TableMatchesView, TableOf, UpToDate
<1>3. \A w : Between(s, w)' <=> Between(s, w)
    BY DEF Between
<1> QED
    BY <1>1, <1>2, <1>3 DEF TableOf, IsTable

\* A row of an observing screen stays in the view or is refused.
LEMMA RowStays ==
    ASSUME TableInv, [Next]_vars, NEW s \in Screens, s \in observing, s \in observing',
           NEW w \in In(allMessages[s]), w \in In(issued)
    PROVE  Kept(Owner[s], w)'
<1>1. w \in Writes
    BY DEF TableInv, SoundInv, AppInv, In
<1>2. Owner[s] \in Clients /\ WriteLoc(w) = Looks[s] /\ Kept(Owner[s], w)
    BY ConstantTypes DEF TableInv, RowsInv
<1>3. DB!Listening(Owner[s], WriteLoc(w)) /\ DB!Listening(Owner[s], WriteLoc(w))'
    BY <1>2 DEF DB!Listening
<1> QED
    BY <1>1, <1>2, <1>3, KeptStays DEF TableInv

\* What the proofs below show of each action.
ShowsInv == QueueInv /\ RowsInv /\ TableMatchesView

\* The observe call of a new screen waits behind the calls of the others.
LEMMA ViewDidLoadShows ==
    ASSUME TableInv, NEW s \in Screens, ViewDidLoad(s)
    PROVE  ShowsInv'
<1> DEFINE c == Owner[s]
<1>0. c \in Clients /\ [Next]_vars
    BY ConstantTypes DEF Next
<1>1. /\ UNCHANGED <<issued, pending, pos, log, observing, events, allMessages>>
      /\ opened' = opened \cup {s} /\ s \notin opened
      /\ queued' = [queued EXCEPT ![c] = Append(queued[c], ObserveCall(s))]
    BY DEF ViewDidLoad, sdkVars
<1>2. /\ queued'[c] = Append(queued[c], ObserveCall(s))
      /\ \A d \in Clients \ {c} : queued'[d] = queued[d]
    <2> HIDE DEF c
    <2> QED  BY <1>0, <1>1 DEF TableInv, SoundInv, AppInv
<1>3. PICK S : queued[c] \in Seq(S) /\ ObserveCall(s) \in S
    <2>1. queued[c] \in Seq(Calls(c) \cup {ObserveCall(s)})
        <3> HIDE DEF c
        <3> QED  BY <1>0, SeqMonotonic DEF TableInv, SoundInv, AppInv
    <2> QED  BY <2>1
<1>4. In(queued'[c]) = In(queued[c]) \cup {ObserveCall(s)}
    <2> HIDE DEF c
    <2> QED  BY <1>2, <1>3, InAppend
<1>5. QueueInv'
    <2>1. \A w \in Writes : SetCall(w) \in In(queued'[Writer[w]]) => SentOn[w] \in opened'
        BY <1>1, <1>2, <1>4, CallsDiffer, ConstantTypes DEF TableInv, QueueInv
    <2>2. ASSUME NEW t \in opened' \ observing' PROVE Before(queued'[Owner[t]], t)
        <3>1. CASE t = s
            <4>1. \A w \in Writes : SentOn[w] = s => SetCall(w) \notin In(queued[c])
                BY <1>1, ConstantTypes DEF TableInv, QueueInv
            <4> HIDE DEF c
            <4>2. Before(Append(queued[c], ObserveCall(s)), s)
                BY <1>3, <4>1, BeforeNew
            <4> QED  BY <1>2, <3>1, <4>2 DEF c
        <3>2. CASE t # s
            <4>1. t \in opened \ observing /\ Owner[t] \in Clients
                BY <1>1, <2>2, <3>2, ConstantTypes DEF TableInv, SoundInv, AppInv
            <4>2. Before(queued[Owner[t]], t)
                BY <4>1 DEF TableInv, QueueInv
            <4>3. CASE Owner[t] = c
                <5>1. Before(Append(queued[c], ObserveCall(s)), t)
                    <6> HIDE DEF c
                    <6> QED  BY <1>3, <4>2, <4>3, BeforeAppend
                <5> QED  BY <1>2, <4>3, <5>1
            <4>4. CASE Owner[t] # c
                BY <1>2, <4>1, <4>2, <4>4
            <4> QED  BY <4>3, <4>4
        <3> QED  BY <3>1, <3>2
    <2> QED  BY <2>1, <2>2 DEF QueueInv, Before
<1>6. RowsInv'
    BY <1>1 DEF TableInv, RowsInv, Kept, DB!Includes
<1>7. TableMatchesView'
    <2>1. ASSUME NEW t \in Screens, UpToDate(t)' PROVE TableOf(t)'
        <3>1. \A w \in Writes : SentOn[w] = t => SetCall(w) \notin In(queued[Owner[t]])
            BY <1>2, <1>4, <2>1, ConstantTypes DEF UpToDate
        <3> QED  BY <1>0, <1>1, <2>1, <3>1, TableStays DEF UpToDate
    <2> QED  BY <2>1 DEF TableMatchesView, TableOf
<1> QED
    BY <1>5, <1>6, <1>7 DEF ShowsInv

\* The new message waits behind the screen's own observe call, and the table
\* is not up to date before setValue has run.
LEMMA SendActionShows ==
    ASSUME TableInv, NEW w \in Writes, SendAction(w)
    PROVE  ShowsInv'
<1> DEFINE s == SentOn[w]
           c == Owner[s]
<1>0. s \in Screens /\ c \in Clients /\ Writer[w] = c /\ [Next]_vars
    BY ConstantTypes DEF Next
<1>1. /\ UNCHANGED <<issued, pending, pos, log, observing, events, opened>>
      /\ s \in opened /\ w \notin In(issued)
      /\ queued' = [queued EXCEPT ![c] = Append(queued[c], SetCall(w))]
      /\ allMessages' = [allMessages EXCEPT ![s] = Append(allMessages[s], w)]
    BY DEF SendAction, sdkVars, Sent
<1>2. /\ queued'[c] = Append(queued[c], SetCall(w))
      /\ \A d \in Clients \ {c} : queued'[d] = queued[d]
    <2> HIDE DEF c
    <2> QED  BY <1>0, <1>1 DEF TableInv, SoundInv, AppInv
<1>3. PICK S : queued[c] \in Seq(S) /\ SetCall(w) \in S
    <2>1. queued[c] \in Seq(Calls(c) \cup {SetCall(w)})
        <3> HIDE DEF c
        <3> QED  BY <1>0, SeqMonotonic DEF TableInv, SoundInv, AppInv
    <2> QED  BY <2>1
<1>4. In(queued'[c]) = In(queued[c]) \cup {SetCall(w)}
    <2> HIDE DEF c
    <2> QED  BY <1>2, <1>3, InAppend
<1>5. QueueInv'
    <2>1. \A v \in Writes : SetCall(v) \in In(queued'[Writer[v]]) => SentOn[v] \in opened'
        BY <1>1, <1>2, <1>4, SetCallIsInjective, ConstantTypes DEF TableInv, QueueInv
    <2>2. ASSUME NEW t \in opened' \ observing' PROVE Before(queued'[Owner[t]], t)
        <3>1. t \in opened \ observing /\ Owner[t] \in Clients
            BY <1>1, <2>2, ConstantTypes DEF TableInv, SoundInv, AppInv
        <3>2. Before(queued[Owner[t]], t)
            BY <3>1 DEF TableInv, QueueInv
        <3>3. CASE Owner[t] = c
            <4>1. Before(Append(queued[c], SetCall(w)), t)
                <5> HIDE DEF c
                <5> QED  BY <1>3, <3>2, <3>3, BeforeAppend
            <4> QED  BY <1>2, <3>3, <4>1
        <3>4. CASE Owner[t] # c
            BY <1>2, <3>1, <3>2, <3>4
        <3> QED  BY <3>3, <3>4
    <2> QED  BY <2>1, <2>2 DEF QueueInv, Before
<1>6. \A t \in Screens : t # s => allMessages'[t] = allMessages[t]
    <2> HIDE DEF s
    <2> QED  BY <1>1 DEF TableInv, SoundInv, AppInv
<1>7. In(allMessages'[s]) = In(allMessages[s]) \cup {w}
    <2>1. allMessages[s] \in Seq(Writes) /\ allMessages'[s] = Append(allMessages[s], w)
        <3> HIDE DEF s
        <3> QED  BY <1>0, <1>1 DEF TableInv, SoundInv, AppInv
    <2> HIDE DEF s
    <2> QED  BY <2>1, InAppend
<1>8. RowsInv'
    <2> SUFFICES ASSUME NEW t \in Screens, NEW v \in In(allMessages'[t])
                 PROVE  /\ WriteLoc(v) = Looks[t]
                        /\ t \notin observing' => v \notin In(issued') /\ SentOn[v] = t
                        /\ t \in observing' /\ v \in In(issued') => Kept(Owner[t], v)'
        BY DEF RowsInv
    <2>1. CASE t = s /\ v = w
        BY <1>0, <1>1, <2>1, ChatAssumption
    <2>2. CASE v \in In(allMessages[t])
        BY <1>1, <2>2 DEF TableInv, RowsInv, Kept, DB!Includes
    <2> QED  BY <1>6, <1>7, <2>1, <2>2
<1>9. TableMatchesView'
    <2>1. ASSUME NEW t \in Screens, UpToDate(t)' PROVE TableOf(t)'
        <3>1. \A v \in Writes : SentOn[v] = t => SetCall(v) \notin In(queued[Owner[t]])
            BY <1>2, <1>4, <2>1, ConstantTypes DEF UpToDate
        <3>2. t # s
            BY <1>4, <2>1 DEF UpToDate
        <3> QED  BY <1>0, <1>1, <1>6, <2>1, <3>1, <3>2, TableStays DEF UpToDate
    <2> QED  BY <2>1 DEF TableMatchesView, TableOf
<1> QED
    BY <1>5, <1>8, <1>9 DEF ShowsInv
\* A snapshot's rows are in the view or refused; the last snapshot is the view.
LEMMA UsersModelsSetupShows ==
    ASSUME TableInv, NEW s \in Screens, UsersModelsSetup(s)
    PROVE  ShowsInv'
<1> DEFINE d == Head(events[s])
<1>0. [Next]_vars
    BY DEF Next
<1>1. /\ UNCHANGED <<issued, pending, pos, log, observing, opened, queued>>
      /\ events[s] # <<>> /\ events' = [events EXCEPT ![s] = Tail(events[s])]
    BY DEF UsersModelsSetup, DB!FireEvent
<1>2. PICK rows \in Rows : /\ IsTable(Conversation(s, d), rows)
                           /\ allMessages' = [allMessages EXCEPT ![s] = rows]
    BY DEF UsersModelsSetup
<1>3. allMessages'[s] = rows /\ \A t \in Screens \ {s} : allMessages'[t] = allMessages[t]
    BY <1>2 DEF TableInv, SoundInv, AppInv
<1>4. events'[s] = Tail(events[s]) /\ \A t \in Screens \ {s} : events'[t] = events[t]
    BY <1>1 DEF TableInv, SoundInv, SdkInv
<1>5. /\ s \in observing /\ DB!Synced(Owner[s], Looks[s])
      /\ events[s][Len(events[s])] = DB!View(Owner[s], Looks[s])
    BY <1>1 DEF TableInv, ToldInv
<1>6. /\ d \in Snapshots(In(issued), Looks[s]) /\ d = events[s][1] /\ 1 \in DOMAIN events[s]
      /\ Len(events[s]) \in Nat /\ Len(Tail(events[s])) = Len(events[s]) - 1
    <2>1. events[s] \in Seq(Snapshots(In(issued), Looks[s]))
        BY DEF TableInv, SoundInv, SdkInv
    <2>2. Len(events[s]) \in Nat /\ Len(events[s]) >= 1 /\ DOMAIN events[s] = 1 .. Len(events[s])
        BY <1>1, <2>1, LenProperties, EmptySeq
    <2> QED  BY <1>1, <2>1, <2>2, HeadTailProperties
<1> HIDE DEF d
<1>7. QueueInv'
    BY <1>1 DEF TableInv, QueueInv, Before
<1>8. RowsInv'
    <2> SUFFICES ASSUME NEW t \in Screens, NEW w \in In(allMessages'[t])
                 PROVE  /\ WriteLoc(w) = Looks[t]
                        /\ t \notin observing' => w \notin In(issued') /\ SentOn[w] = t
                        /\ t \in observing' /\ w \in In(issued') => Kept(Owner[t], w)'
        BY DEF RowsInv
    <2>1. CASE t = s
        <3>1. w \in Conversation(s, d)
            BY <1>2, <1>3, <2>1 DEF IsTable
        <3>2. w \in Writes /\ KeyOf[w] \in KeysIn(Looks[s]) /\ d[KeyOf[w]] = w
            BY <1>6, <3>1 DEF Conversation, Snapshots
        <3>3. WriteLoc(w) = Looks[s]
            BY <3>2 DEF KeysIn, WriteLoc
        <3>4. Kept(Owner[s], w)
            BY <1>6, <3>2, <3>3 DEF TableInv, FateInv
        <3> QED  BY <1>1, <1>5, <2>1, <3>3, <3>4 DEF Kept, DB!Includes
    <2>2. CASE t # s
        BY <1>1, <1>3, <2>2 DEF TableInv, RowsInv, Kept, DB!Includes
    <2> QED  BY <2>1, <2>2
<1>9. TableMatchesView'
    <2>1. ASSUME NEW t \in Screens, UpToDate(t)' PROVE TableOf(t)'
        <3>1. CASE t # s
            <4>1. /\ events[t] = <<>> /\ allMessages'[t] = allMessages[t]
                  /\ \A w \in Writes : SentOn[w] = t => SetCall(w) \notin In(queued[Owner[t]])
                BY <1>1, <1>3, <1>4, <2>1, <3>1 DEF UpToDate
            <4> QED  BY <1>0, <2>1, <4>1, TableStays
        <3>2. CASE t = s
            <4>1. Len(events[s]) - 1 = 0
                <5>1. events'[s] = <<>>
                    BY <2>1, <3>2 DEF UpToDate
                <5>2. Len(<<>>) = 0
                    OBVIOUS
                <5> QED  BY <1>4, <1>6, <5>1, <5>2
            <4>2. Len(events[s]) = 1
                BY <1>6, <4>1
            <4>3. d = DB!View(Owner[s], Looks[s]) /\ d = DB!View(Owner[s], Looks[s])'
                BY <1>1, <1>5, <1>6, <4>2 DEF DB!View
            <4>4. Conversation(s, d) =
                      {w \in Writes : KeyOf[w] \in DOMAIN d /\ d[KeyOf[w]] = w /\ Between(s, w)}
                BY SamePair DEF Conversation
            <4>5. IsTable({w \in Writes : KeyOf[w] \in DOMAIN d /\ d[KeyOf[w]] = w /\ Between(s, w)},
                          allMessages'[s])
                BY <1>2, <1>3, <4>4
            <4> QED  BY <3>2, <4>3, <4>5 DEF TableOf, Between, IsTable
        <3> QED  BY <3>1, <3>2
    <2> QED  BY <2>1 DEF TableMatchesView, TableOf
<1> QED
    BY <1>7, <1>8, <1>9 DEF ShowsInv

\* When a screen begins to observe, setValue has run for none of its rows.
LEMMA RunObserveShows ==
    ASSUME TableInv, NEW s \in Screens, RunObserve(s)
    PROVE  ShowsInv'
<1> DEFINE c == Owner[s]
<1>0. c \in Clients /\ [Next]_vars
    BY ConstantTypes DEF Next
<1>1. /\ UNCHANGED <<issued, pending, pos, log, opened, allMessages>>
      /\ s \notin observing /\ observing' = observing \cup {s}
      /\ queued[c] # <<>> /\ Head(queued[c]) = ObserveCall(s)
      /\ queued' = [queued EXCEPT ![c] = Tail(queued[c])]
    BY DEF RunObserve, DB!Observe
<1>2. events'[s] = <<>> => ~DB!Synced(c, Looks[s])
    <2>1. ASSUME DB!Synced(c, Looks[s]) PROVE events'[s] # <<>>
        <3> DEFINE v == DB!View(c, Looks[s])
        <3>1. events' = [events EXCEPT ![s] = Append(events[s], v)]
            BY <2>1 DEF RunObserve, DB!Observe
        <3> HIDE DEF v
        <3>2. events'[s] = Append(events[s], v) /\ events[s] = <<>>
            BY <1>1, <3>1 DEF TableInv, SoundInv, SdkInv, ToldInv
        <3> QED  BY <3>2
    <2> QED  BY <2>1
<1>3. \A t \in Screens \ {s} : events'[t] = events[t]
    BY DEF RunObserve, DB!Observe, TableInv, SoundInv, SdkInv
<1>4. PICK S : queued[c] \in Seq(S)
    <2> HIDE DEF c
    <2> QED  BY <1>0 DEF TableInv, SoundInv, AppInv
<1>5. queued'[c] = Tail(queued[c]) /\ \A e \in Clients \ {c} : queued'[e] = queued[e]
    <2> HIDE DEF c
    <2> QED  BY <1>0, <1>1 DEF TableInv, SoundInv, AppInv
<1>6. In(queued[c]) = {ObserveCall(s)} \cup In(queued'[c])
    <2> HIDE DEF c
    <2> QED  BY <1>1, <1>4, <1>5, InTail
<1>7. QueueInv'
    <2>1. \A w \in Writes : SetCall(w) \in In(queued'[Writer[w]]) => SentOn[w] \in opened'
        BY <1>1, <1>5, <1>6, ConstantTypes DEF TableInv, QueueInv
    <2>2. ASSUME NEW t \in opened' \ observing' PROVE Before(queued'[Owner[t]], t)
        <3>1. t \in opened \ observing /\ Owner[t] \in Clients /\ t # s
            BY <1>1, <2>2, ConstantTypes DEF TableInv, SoundInv, AppInv
        <3>2. Before(queued[Owner[t]], t)
            BY <3>1 DEF TableInv, QueueInv
        <3>3. CASE Owner[t] = c
            <4>1. ObserveCall(t).screen = t /\ ObserveCall(s).screen = s
                BY DEF ObserveCall
            <4>2. Head(queued[c]) # ObserveCall(t)
                BY <1>1, <3>1, <4>1
            <4>3. Before(Tail(queued[c]), t)
                <5> HIDE DEF c
                <5> QED  BY <1>1, <1>4, <3>2, <3>3, <4>2, BeforeTail
            <4> QED  BY <1>5, <3>3, <4>3
        <3>4. CASE Owner[t] # c
            BY <1>5, <3>1, <3>2, <3>4
        <3> QED  BY <3>3, <3>4
    <2> QED  BY <2>1, <2>2 DEF QueueInv, Before
<1>8. RowsInv'
    <2> SUFFICES ASSUME NEW t \in Screens, NEW w \in In(allMessages'[t])
                 PROVE  /\ WriteLoc(w) = Looks[t]
                        /\ t \notin observing' => w \notin In(issued') /\ SentOn[w] = t
                        /\ t \in observing' /\ w \in In(issued') => Kept(Owner[t], w)'
        BY DEF RowsInv
    <2> QED  BY <1>1 DEF TableInv, RowsInv, Kept, DB!Includes
<1>9. TableMatchesView'
    <2>1. ASSUME NEW t \in Screens, UpToDate(t)' PROVE TableOf(t)'
        <3>1. t # s
            BY <1>1, <1>2, <2>1 DEF UpToDate, DB!Synced
        <3>2. \A w \in Writes : SentOn[w] = t => SetCall(w) \notin In(queued[Owner[t]])
            BY <1>5, <1>6, <2>1, CallsDiffer, ConstantTypes DEF UpToDate
        <3>3. events[t] = <<>> /\ allMessages'[t] = allMessages[t]
            BY <1>1, <1>3, <2>1, <3>1 DEF UpToDate
        <3> QED  BY <1>0, <2>1, <3>2, <3>3, TableStays
    <2> QED  BY <2>1 DEF TableMatchesView, TableOf
<1> QED
    BY <1>7, <1>8, <1>9 DEF ShowsInv

\* setValue makes its message pending; every screen of the sender is told.
LEMMA RunSetValueShows ==
    ASSUME TableInv, NEW w \in Writes, RunSetValue(w)
    PROVE  ShowsInv'
<1> DEFINE c == Writer[w]
<1>0. c \in Clients /\ [Next]_vars
    BY ConstantTypes DEF Next
<1>1. /\ UNCHANGED <<pos, log, opened, observing, allMessages>>
      /\ DB!SetValue(w) /\ w \notin In(issued) /\ issued' = Append(issued, w)
      /\ pending' = [pending EXCEPT ![c] = Append(pending[c], w)]
      /\ queued[c] # <<>> /\ Head(queued[c]) = SetCall(w)
      /\ queued' = [queued EXCEPT ![c] = Tail(queued[c])]
    BY SameOperators DEF RunSetValue, DB!SetValue
<1>2. In(issued') = In(issued) \cup {w} /\ w \in In(pending'[c])
    <2>1. In(issued') = In(issued) \cup {w}
        BY <1>1, InAppend DEF TableInv, SoundInv, SdkInv
    <2>2. pending'[c] = Append(pending[c], w) /\ pending[c] \in Seq(Writes)
        <3> HIDE DEF c
        <3> QED  BY <1>0, <1>1 DEF TableInv, SoundInv, SdkInv
    <2> HIDE DEF c
    <2> QED  BY <2>1, <2>2, InAppend
<1>3. PICK S : queued[c] \in Seq(S)
    <2> HIDE DEF c
    <2> QED  BY <1>0 DEF TableInv, SoundInv, AppInv
<1>4. queued'[c] = Tail(queued[c]) /\ \A e \in Clients \ {c} : queued'[e] = queued[e]
    <2> HIDE DEF c
    <2> QED  BY <1>0, <1>1 DEF TableInv, SoundInv, AppInv
<1>5. In(queued[c]) = {SetCall(w)} \cup In(queued'[c])
    <2> HIDE DEF c
    <2> QED  BY <1>1, <1>3, <1>4, InTail
<1>6. ASSUME NEW t \in opened \ observing, Owner[t] = c
      PROVE  Before(Tail(queued[c]), t) /\ SentOn[w] # t
    <2>1. Before(queued[c], t)
        BY <1>6 DEF TableInv, QueueInv
    <2>2. Head(queued[c]) # ObserveCall(t)
        BY <1>1, CallsDiffer
    <2> HIDE DEF c
    <2> QED  BY <1>1, <1>3, <2>1, <2>2, BeforeTail
<1>7. QueueInv'
    <2>1. \A v \in Writes : SetCall(v) \in In(queued'[Writer[v]]) => SentOn[v] \in opened'
        BY <1>1, <1>4, <1>5, ConstantTypes DEF TableInv, QueueInv
    <2>2. ASSUME NEW t \in opened' \ observing' PROVE Before(queued'[Owner[t]], t)
        <3>1. t \in opened \ observing /\ Owner[t] \in Clients
            BY <1>1, <2>2, ConstantTypes DEF TableInv, SoundInv, AppInv
        <3>2. CASE Owner[t] = c
            BY <1>4, <1>6, <3>1, <3>2
        <3>3. CASE Owner[t] # c
            BY <1>4, <3>1, <3>3 DEF TableInv, QueueInv
        <3> QED  BY <3>2, <3>3
    <2> QED  BY <2>1, <2>2 DEF QueueInv, Before
<1>8. SentOn[w] \in opened
    BY <1>5 DEF TableInv, QueueInv
<1>9. RowsInv'
    <2> SUFFICES ASSUME NEW t \in Screens, NEW v \in In(allMessages'[t])
                 PROVE  /\ WriteLoc(v) = Looks[t]
                        /\ t \notin observing' => v \notin In(issued') /\ SentOn[v] = t
                        /\ t \in observing' /\ v \in In(issued') => Kept(Owner[t], v)'
        BY DEF RowsInv
    <2>1. WriteLoc(v) = Looks[t] /\ v \in In(allMessages[t])
        BY <1>1 DEF TableInv, RowsInv
    <2>2. ASSUME t \notin observing' PROVE v \notin In(issued') /\ SentOn[v] = t
        <3>1. v \notin In(issued) /\ SentOn[v] = t
            BY <1>1, <2>1, <2>2 DEF TableInv, RowsInv
        <3>2. v # w
            BY <1>1, <1>6, <1>8, <2>2, <3>1, ConstantTypes
        <3> QED  BY <1>2, <3>1, <3>2
    <2>3. ASSUME t \in observing', v \in In(issued') PROVE Kept(Owner[t], v)'
        <3>1. CASE v = w
            <4>1. Owner[t] = c
                BY <1>1, <2>1, <3>1 DEF TableInv, SoundInv, RowsSent
            <4> QED  BY <1>2, <3>1, <4>1 DEF Kept
        <3>2. CASE v # w
            BY <1>0, <1>1, <1>2, <2>1, <2>3, <3>2, RowStays
        <3> QED  BY <3>1, <3>2
    <2> QED  BY <2>1, <2>2, <2>3
<1>10. TableMatchesView'
    <2>1. ASSUME NEW t \in Screens, UpToDate(t)' PROVE TableOf(t)'
        <3>1. t \in observing /\ DB!Synced(Owner[t], Looks[t]) /\ events'[t] = <<>>
            BY <1>1, <2>1 DEF UpToDate, DB!Synced
        <3>2. ~(Owner[t] = c /\ Looks[t] = WriteLoc(w))
            BY <1>1, <3>1, SetValueIsTold DEF TableInv
        <3>3. SentOn[w] # t
            BY <3>2, ChatAssumption
        <3>4. \A v \in Writes : SentOn[v] = t => SetCall(v) \notin In(queued[Owner[t]])
            BY <1>4, <1>5, <2>1, <3>3, SetCallIsInjective, ConstantTypes DEF UpToDate
        <3>5. events[t] = <<>>
            <4>1. events'[t] = events[t]
                BY <3>2, SameOperators DEF RunSetValue, DB!SetValue, DB!Raise
            <4> QED  BY <3>1, <4>1
        <3> QED  BY <1>0, <1>1, <2>1, <3>4, <3>5, TableStays
    <2> QED  BY <2>1 DEF TableMatchesView, TableOf
<1> QED
    BY <1>7, <1>9, <1>10 DEF ShowsInv
\* The connection and the server leave the tables and the queues alone.
LEMMA SynchroniseShows ==
    ASSUME TableInv, Synchronise
    PROVE  ShowsInv'
<1>0. [Next]_vars
    BY DEF Next
<1>1. UNCHANGED <<issued, observing, opened, allMessages, queued>>
    BY DEF Synchronise, DB!Apply, DB!Settle, DB!Advance
<1>2. ASSUME NEW s \in Screens, events'[s] = <<>> PROVE events[s] = <<>>
    <2>1. \/ \E w \in Writes : Sdk!SetValue(w) \/ Sdk!Apply(w)
          \/ \E c \in Clients : Sdk!Settle(c)
          \/ \E c \in Clients, l \in Locations : \E n \in 0 .. Len(log) : Sdk!Advance(c, l, n)
        BY SameActions DEF Synchronise
    <2> QED  BY <1>2, <2>1, SyncTreeAssumption, Sdk!NothingTaken DEF TableInv, Sdk!ReplicaInv
<1>3. QueueInv'
    BY <1>1 DEF TableInv, QueueInv, Before
<1>4. RowsInv'
    <2> SUFFICES ASSUME NEW t \in Screens, NEW w \in In(allMessages'[t])
                 PROVE  /\ WriteLoc(w) = Looks[t]
                        /\ t \notin observing' => w \notin In(issued') /\ SentOn[w] = t
                        /\ t \in observing' /\ w \in In(issued') => Kept(Owner[t], w)'
        BY DEF RowsInv
    <2> QED  BY <1>0, <1>1, RowStays DEF TableInv, RowsInv
<1>5. TableMatchesView'
    <2>1. ASSUME NEW t \in Screens, UpToDate(t)' PROVE TableOf(t)'
        BY <1>0, <1>1, <1>2, <2>1, TableStays DEF UpToDate
    <2> QED  BY <2>1 DEF TableMatchesView, TableOf
<1> QED
    BY <1>3, <1>4, <1>5 DEF ShowsInv

\* The screens of a killed process are empty; the others are untouched.
LEMMA KillShows ==
    ASSUME TableInv, NEW c \in Clients, Kill(c)
    PROVE  ShowsInv'
<1>0. [Next]_vars
    BY DEF Next
<1>1. /\ issued' = issued
      /\ opened' = {s \in opened : Owner[s] # c}
      /\ observing' = {s \in observing : Owner[s] # c}
      /\ allMessages' = [s \in Screens |-> IF Owner[s] = c THEN <<>> ELSE allMessages[s]]
      /\ events' = [s \in Screens |-> IF Owner[s] = c THEN <<>> ELSE events[s]]
      /\ queued' = [queued EXCEPT ![c] = <<>>]
    BY DEF Kill, DB!Kill
<1>2. queued'[c] = <<>> /\ \A d \in Clients \ {c} : queued'[d] = queued[d]
    BY <1>1 DEF TableInv, SoundInv, AppInv
<1>3. In(<<>>) = {}
    BY DEF In
<1>4. QueueInv'
    <2>1. \A w \in Writes : SetCall(w) \in In(queued'[Writer[w]]) => SentOn[w] \in opened'
        BY <1>1, <1>2, <1>3, ConstantTypes DEF TableInv, QueueInv
    <2>2. ASSUME NEW t \in opened' \ observing' PROVE Before(queued'[Owner[t]], t)
        <3>1. t \in opened \ observing /\ Owner[t] \in Clients \ {c}
            BY <1>1, <2>2, ConstantTypes DEF TableInv, SoundInv, AppInv
        <3> QED  BY <1>2, <3>1 DEF TableInv, QueueInv
    <2> QED  BY <2>1, <2>2 DEF QueueInv, Before
<1>5. \A s \in Screens : \/ /\ Owner[s] = c /\ allMessages'[s] = <<>>
                            /\ s \notin observing'
                         \/ /\ Owner[s] # c /\ allMessages'[s] = allMessages[s]
                            /\ events'[s] = events[s] /\ queued'[Owner[s]] = queued[Owner[s]]
                            /\ s \in observing' <=> s \in observing
    BY <1>1, <1>2, ConstantTypes
<1>6. RowsInv'
    <2> SUFFICES ASSUME NEW t \in Screens, NEW w \in In(allMessages'[t])
                 PROVE  /\ WriteLoc(w) = Looks[t]
                        /\ t \notin observing' => w \notin In(issued') /\ SentOn[w] = t
                        /\ t \in observing' /\ w \in In(issued') => Kept(Owner[t], w)'
        BY DEF RowsInv
    <2>1. w \in In(allMessages[t]) /\ (t \in observing' <=> t \in observing)
        BY <1>3, <1>5
    <2> QED  BY <1>0, <1>1, <2>1, RowStays DEF TableInv, RowsInv
<1>7. TableMatchesView'
    <2>1. ASSUME NEW t \in Screens, UpToDate(t)' PROVE TableOf(t)'
        <3>1. /\ events[t] = <<>> /\ allMessages'[t] = allMessages[t]
              /\ \A w \in Writes : SentOn[w] = t => SetCall(w) \notin In(queued[Owner[t]])
            BY <1>5, <2>1 DEF UpToDate
        <3> QED  BY <1>0, <2>1, <3>1, TableStays
    <2> QED  BY <2>1 DEF TableMatchesView, TableOf
<1> QED
    BY <1>4, <1>6, <1>7 DEF ShowsInv
\* Nothing is shown and nothing waits in the first state.
LEMMA InitShows == Init => ShowsInv
<1> SUFFICES ASSUME Init PROVE ShowsInv
    OBVIOUS
<1>1. In(<<>>) = {}
    BY DEF In
<1>2. /\ opened = {} /\ observing = {}
      /\ \A s \in Screens : allMessages[s] = <<>>
      /\ \A c \in Clients : queued[c] = <<>>
    BY DEF Init, DB!Init
<1>3. QueueInv /\ RowsInv
    BY <1>1, <1>2, ConstantTypes DEF QueueInv, RowsInv
<1>4. TableMatchesView
    BY <1>2 DEF TableMatchesView, UpToDate
<1> QED
    BY <1>3, <1>4 DEF ShowsInv

\* Every step keeps the tables in line with the views.
LEMMA NextShows == TableInv /\ [Next]_vars => ShowsInv'
<1> SUFFICES ASSUME TableInv, [Next]_vars PROVE ShowsInv'
    OBVIOUS
<1>1. CASE \E s \in Screens : ViewDidLoad(s)
    BY <1>1, ViewDidLoadShows
<1>2. CASE \E s \in Screens : UsersModelsSetup(s)
    BY <1>2, UsersModelsSetupShows
<1>3. CASE \E s \in Screens : RunObserve(s)
    BY <1>3, RunObserveShows
<1>4. CASE \E w \in Writes : SendAction(w)
    BY <1>4, SendActionShows
<1>5. CASE \E w \in Writes : RunSetValue(w)
    BY <1>5, RunSetValueShows
<1>6. CASE Synchronise
    BY <1>6, SynchroniseShows
<1>7. CASE \E c \in Clients : Kill(c)
    BY <1>7, KillShows
<1>8. CASE UNCHANGED vars
    <2>1. QueueInv'
        BY <1>8 DEF TableInv, QueueInv, Before, vars, sdkVars
    <2>2. RowsInv'
        BY <1>8 DEF TableInv, RowsInv, Kept, DB!Includes, vars, sdkVars
    <2>3. TableMatchesView'
        <3>1. ASSUME NEW s \in Screens, UpToDate(s)' PROVE TableOf(s)'
            BY <1>8, <3>1, TableStays DEF UpToDate, vars, sdkVars
        <3> QED  BY <3>1 DEF TableMatchesView, TableOf
    <2> QED  BY <2>1, <2>2, <2>3 DEF ShowsInv
<1> QED
    BY <1>1, <1>2, <1>3, <1>4, <1>5, <1>6, <1>7, <1>8 DEF Next

\* The inductive invariant of the tables always holds.
THEOREM TablesSound == Spec => []TableInv
<1>1. Sdk!ReplicaInv /\ ToldInv /\ FateInv /\ SoundInv /\ ShowsInv => TableInv
    BY DEF TableInv, ShowsInv
<1> QED
    BY <1>1, InitShows, NextShows, SdkSound, Soundness, PTL DEF Spec

\* Whatever taps, snapshots and answers came in which order, a table of
\* ChatDetailVC with nothing left to come is its conversation in the SDK's
\* view, by key, for any devices, screens and messages.
THEOREM TablesMatch == Spec => []TableMatchesView
<1>1. TableInv => TableMatchesView
    BY DEF TableInv
<1> QED
    BY <1>1, TablesSound, PTL

\* Only the observer's block takes a row off the table of an open screen.
LEMMA RowVanishes ==
    ASSUME TableInv, [Next]_vars, NEW s \in Screens, NEW w \in Writes,
           w \in In(allMessages[s]), w \notin In(allMessages'[s]), s \in opened'
    PROVE  UsersModelsSetup(s)
<1>1. allMessages'[s] # allMessages[s]
    OBVIOUS
<1>2. CASE \E t \in Screens : UsersModelsSetup(t)
    <2>1. PICK t \in Screens : UsersModelsSetup(t)
        BY <1>2
    <2>2. PICK rows : allMessages' = [allMessages EXCEPT ![t] = rows]
        BY <2>1 DEF UsersModelsSetup
    <2>3. t = s
        BY <1>1, <2>2 DEF TableInv, SoundInv, AppInv
    <2> QED  BY <2>1, <2>3
<1>3. CASE \E v \in Writes : SendAction(v)
    <2>1. PICK v \in Writes : SendAction(v)
        BY <1>3
    <2>2. PICK t \in Screens : allMessages' = [allMessages EXCEPT ![t] = Append(allMessages[t], v)]
        BY <2>1, ConstantTypes DEF SendAction
    <2>3. t = s /\ allMessages'[s] = Append(allMessages[s], v) /\ allMessages[s] \in Seq(Writes)
        BY <1>1, <2>2 DEF TableInv, SoundInv, AppInv
    <2> QED  BY <2>3, InAppend
<1>4. CASE \E c \in Clients : Kill(c)
    BY <1>1, <1>4 DEF Kill
<1> QED
    BY <1>1, <1>2, <1>3, <1>4
    DEF Next, vars, ViewDidLoad, RunObserve, RunSetValue, Synchronise

\* A row that a snapshot takes off the table is on its way back or refused:
\* before setValue has run it waits in the SDK's queue, afterwards the view has
\* it, and the last snapshot on its way is the view.
THEOREM RowsReturn == Spec => VanishedRowReturns
<1>1. ASSUME TableInv, [Next]_vars, NEW s \in Screens, NEW w \in Writes,
             w \in In(allMessages[s]), w \notin In(allMessages'[s]), s \in opened'
      PROVE  \/ SetCall(w) \in In(queued'[Writer[w]])
             \/ \E i \in DOMAIN events'[s] : events'[s][i][KeyOf[w]] = w
             \/ /\ w \in In(issued')
                /\ w \notin In(log') /\ w \notin In(pending'[Writer[w]])
    <2> DEFINE d == Head(events[s])
    <2>1. UsersModelsSetup(s)
        BY <1>1, RowVanishes
    <2>2. /\ UNCHANGED <<issued, pending, log, queued>>
          /\ events[s] # <<>> /\ events' = [events EXCEPT ![s] = Tail(events[s])]
        BY <2>1 DEF UsersModelsSetup, DB!FireEvent
    <2>3. CASE w \notin In(issued)
        BY <1>1, <2>2, <2>3 DEF TableInv, SoundInv, RowsSent
    <2>4. CASE w \in In(issued)
        <3>1. /\ s \in observing /\ DB!Synced(Owner[s], Looks[s])
              /\ events[s][Len(events[s])] = DB!View(Owner[s], Looks[s])
            BY <1>1, <2>2 DEF TableInv, ToldInv
        <3>2. WriteLoc(w) = Looks[s] /\ Kept(Owner[s], w) /\ Between(s, w)
            BY <1>1, <2>4, <3>1 DEF TableInv, RowsInv, SoundInv, RowsAreSound, In
        <3>3. CASE DB!View(Owner[s], Looks[s])[KeyOf[w]] # w
            BY <1>1, <2>2, <3>1, <3>2, <3>3, KeptInView, ConstantTypes DEF TableInv
        <3>4. CASE DB!View(Owner[s], Looks[s])[KeyOf[w]] = w
            <4>1. events[s] \in Seq(Snapshots(In(issued), Looks[s]))
                BY <1>1 DEF TableInv, SoundInv, SdkInv
            <4>2. /\ Len(events[s]) \in Nat /\ Len(events[s]) >= 1 /\ d = events[s][1]
                  /\ DOMAIN Tail(events[s]) = 1 .. Len(events[s]) - 1
                  /\ \A i \in 1 .. Len(events[s]) - 1 : Tail(events[s])[i] = events[s][i + 1]
                  /\ d \in Snapshots(In(issued), Looks[s])
                BY <2>2, <4>1, HeadTailProperties, LenProperties, EmptySeq
            <4>3. PICK n \in Nat : n = Len(events[s])
                BY <4>2
            <4>4. d[KeyOf[w]] # w
                <5>1. w \notin Conversation(s, d)
                    <6>1. PICK rows : /\ IsTable(Conversation(s, d), rows)
                                      /\ allMessages' = [allMessages EXCEPT ![s] = rows]
                        BY <2>1 DEF UsersModelsSetup
                    <6>2. allMessages'[s] = rows
                        BY <1>1, <6>1 DEF TableInv, SoundInv, AppInv
                    <6> QED  BY <1>1, <6>1, <6>2 DEF IsTable
                <5>2. KeyOf[w] \in KeysIn(Looks[s])
                    BY <3>2, ConstantTypes DEF KeysIn, WriteLoc
                <5>3. KeyOf[w] \in DOMAIN d
                    <6> HIDE DEF d
                    <6> QED  BY <4>2, <5>2 DEF Snapshots
                <5> QED  BY <3>2, <5>1, <5>3, SamePair DEF Conversation
            <4>5. n # 1
                BY <3>1, <3>4, <4>2, <4>3, <4>4
            <4>6. n - 1 \in 1 .. n - 1 /\ (n - 1) + 1 = n
                <5>1. n >= 1
                    BY <4>2, <4>3
                <5> QED  BY <4>5, <5>1
            <4>7. Tail(events[s])[n - 1][KeyOf[w]] = w
                BY <3>1, <3>4, <4>2, <4>3, <4>6
            <4>8. events'[s] = Tail(events[s])
                BY <1>1, <2>2 DEF TableInv, SoundInv, SdkInv
            <4> QED  BY <4>2, <4>3, <4>6, <4>7, <4>8
        <3> QED  BY <3>3, <3>4
    <2> QED  BY <2>3, <2>4
<1>2. TableInv /\ [Next]_vars =>
          [\A s \in Screens : \A w \in Writes :
              /\ w \in In(allMessages[s]) /\ w \notin In(allMessages'[s])
              /\ s \in opened'
              => \/ SetCall(w) \in In(queued'[Writer[w]])
                 \/ \E i \in DOMAIN events'[s] : events'[s][i][KeyOf[w]] = w
                 \/ /\ w \in In(issued')
                    /\ w \notin In(log') /\ w \notin In(pending'[Writer[w]])]_vars
    BY <1>1
<1> QED
    BY <1>2, TablesSound, PTL DEF Spec, VanishedRowReturns

(***************************************************************************)
(* The keys of the messages (PushId).  A later time has the larger number  *)
(* in its digits: the loop divides both times until what is left of them   *)
(* is equal, and the round before is that of the first digit that differs. *)
(* Within one millisecond the digit that is counted up is the first that   *)
(* differs.                                                                *)
(***************************************************************************)
\* A set of natural numbers has a least element.
LEMMA NatMin ==
    ASSUME NEW T \in SUBSET Nat, T # {}
    PROVE  \E x \in T : \A y \in T : x <= y
<1>1. PICK R : IsWellFoundedOn(R, Nat) /\ \A x, y \in Nat : <<y, x>> \in R <=> y < x
    <2>1. \A x, y \in Nat : <<y, x>> \in OpToRel(<, Nat) <=> y < x
        BY DEF OpToRel
    <2> QED  BY NatLessThanWellFounded, <2>1, Zenon
<1>2. PICK x \in T : \A y \in T : ~(<<y, x>> \in R)
    BY <1>1, WFMin
<1>3. \A y \in T : ~(y < x)
    BY <1>1, <1>2
<1>4. \A y \in Nat : ~(y < x) => x <= y
    OBVIOUS
<1> QED  BY <1>3, <1>4

\* Induction: the set of the numbers for which something holds.
LEMMA Induction ==
    ASSUME NEW S, 0 \in S, \A n \in Nat : n \in S => n + 1 \in S
    PROVE  Nat \subseteq S
<1> SUFFICES ASSUME ~(Nat \subseteq S) PROVE FALSE
    OBVIOUS
<1> DEFINE T == Nat \ S
<1>1. T \in SUBSET Nat /\ T # {}
    OBVIOUS
<1> HIDE DEF T
<1>2. PICK x \in T : \A y \in T : x <= y
    BY <1>1, NatMin
<1>3. x \in Nat /\ x \notin S
    BY DEF T
<1>4. x # 0 /\ x - 1 \in Nat /\ (x - 1) + 1 = x /\ ~(x <= x - 1)
    BY <1>3
<1>5. x - 1 \in S
    BY <1>2, <1>4 DEF T
<1> QED  BY <1>3, <1>4, <1>5

\* Quotient and remainder.
LEMMA Division ==
    ASSUME NEW a \in Nat, NEW b \in Nat \ {0}
    PROVE  /\ a \div b \in Nat /\ a % b \in 0 .. b - 1
           /\ a = b * (a \div b) + (a % b)
OBVIOUS

\* A larger factor makes the product larger by one more of the other.
LEMMA Products ==
    ASSUME NEW b \in Nat \ {0}, NEW p \in Int, NEW q \in Int, p < q
    PROVE  b * p + b <= b * q
OBVIOUS

\* Division keeps the order.
LEMMA DivisionOrder ==
    ASSUME NEW b \in Nat \ {0}, NEW x \in Nat, NEW y \in Nat, x <= y
    PROVE  x \div b <= y \div b
<1>1. PICK p \in Nat, r \in 0 .. b - 1 : p = x \div b /\ x = b * p + r
    BY Division
<1>2. PICK q \in Nat, s \in 0 .. b - 1 : q = y \div b /\ y = b * q + s
    BY Division
<1>3. CASE q < p
    <2>1. b * q + b <= b * p
        BY <1>3, Products
    <2> QED  BY <1>1, <1>2, <2>1
<1> QED  BY <1>1, <1>2, <1>3

\* What has m and a largest digit at most has m at most without the digit.
LEMMA DivisionTop ==
    ASSUME NEW b \in Nat \ {0}, NEW x \in Nat, NEW m \in Nat, x <= m * b + b - 1
    PROVE  x \div b <= m
<1>1. PICK p \in Nat, r \in 0 .. b - 1 : p = x \div b /\ x = b * p + r
    BY Division
<1>3. CASE m < p
    <2>1. b * m + b <= b * p
        BY <1>3, Products
    <2> QED  BY <1>1, <2>1
<1> QED  BY <1>1, <1>3

\* Numbers that differ in the last digit only are ordered by it.
LEMMA DivisionDigit ==
    ASSUME NEW b \in Nat \ {0}, NEW x \in Nat, NEW y \in Nat, x < y, x \div b = y \div b
    PROVE  x % b < y % b
BY Division

\* f is what a loop of n rounds has after each of them: step[k] is its body in round k.
Loop(f, n, T, a, step) ==
    /\ f \in [0 .. n -> T]
    /\ \A k \in 0 .. n : f[k] = IF k = 0 THEN a ELSE step[k][f[k - 1]]

\* A loop has a result.
LEMMA LoopExists ==
    ASSUME NEW T, NEW a \in T, NEW n \in Nat, NEW step \in [Nat -> [T -> T]]
    PROVE  \E f : Loop(f, n, T, a, step)
<1> DEFINE S == {i \in Nat : \E f : Loop(f, i, T, a, step)}
<1>1. 0 \in S
    <2>1. PICK f : f = [k \in 0 .. 0 |-> a]
        OBVIOUS
    <2>2. \A k \in 0 .. 0 : k = 0
        OBVIOUS
    <2>3. Loop(f, 0, T, a, step)
        BY <2>1, <2>2 DEF Loop
    <2> QED  BY <2>3
<1>2. ASSUME NEW i \in Nat, i \in S PROVE i + 1 \in S
    <2>1. PICK f : Loop(f, i, T, a, step)
        BY <1>2
    <2>2. PICK v : v = step[i + 1][f[i]]
        OBVIOUS
    <2>3. v \in T
        BY <2>1, <2>2 DEF Loop
    <2>4. PICK g : g = [k \in 0 .. i + 1 |-> IF k = i + 1 THEN v ELSE f[k]]
        OBVIOUS
    <2>5. \A k \in 0 .. i : k \in 0 .. i + 1 /\ k # i + 1 /\ g[k] = f[k]
        BY <2>4
    <2>6. g \in [0 .. i + 1 -> T]
        BY <2>1, <2>3, <2>4 DEF Loop
    <2>7. ASSUME NEW k \in 0 .. i + 1 PROVE g[k] = IF k = 0 THEN a ELSE step[k][g[k - 1]]
        <3>1. CASE k = i + 1
            <4>1. k # 0 /\ k - 1 = i /\ i \in 0 .. i
                BY <3>1
            <4> QED  BY <2>2, <2>4, <2>5, <3>1, <4>1
        <3>2. CASE k = 0
            <4>1. 0 \in 0 .. i
                OBVIOUS
            <4> QED  BY <2>1, <2>5, <3>2, <4>1 DEF Loop
        <3>3. CASE k # 0 /\ k # i + 1
            <4>1. k \in 0 .. i /\ k - 1 \in 0 .. i
                BY <3>3
            <4> QED  BY <2>1, <2>5, <3>3, <4>1 DEF Loop
        <3> QED  BY <3>1, <3>2, <3>3
    <2>8. Loop(g, i + 1, T, a, step)
        BY <2>6, <2>7 DEF Loop
    <2> QED  BY <2>8
<1> HIDE DEF S
<1>3. n \in S
    BY <1>1, <1>2, Induction
<1> QED  BY <1>3 DEF S

\* What is left of a time, round by round.
LEMMA RestRounds ==
    ASSUME NEW now \in Nat
    PROVE  /\ Rest(now) \in [0 .. TimeChars -> Nat]
           /\ Rest(now)[0] = now
           /\ \A k \in Nat : k + 1 <= TimeChars => Rest(now)[k + 1] = Rest(now)[k] \div Base
<1> DEFINE IsRest(f) == f = [k \in 0 .. TimeChars |-> IF k = 0 THEN now ELSE f[k - 1] \div Base]
<1>0. Base \in Nat \ {0} /\ TimeChars \in Nat
    BY PushIdAssumption
<1>1. \E f : IsRest(f)
    <2>1. PICK step : step = [k \in Nat |-> [x \in Nat |-> x \div Base]]
        OBVIOUS
    <2>2. step \in [Nat -> [Nat -> Nat]]
        <3>1. \A x \in Nat : x \div Base \in Nat
            BY <1>0, Division
        <3> QED  BY <2>1, <3>1
    <2>3. PICK f : Loop(f, TimeChars, Nat, now, step)
        <3>1. now \in Nat
            OBVIOUS
        <3> QED  BY <1>0, <2>2, <3>1, LoopExists
    <2>4. \A k \in 0 .. TimeChars : k # 0 => k - 1 \in 0 .. TimeChars /\ k \in Nat
        BY <1>0
    <2>5. \A k \in 0 .. TimeChars : k # 0 => step[k][f[k - 1]] = f[k - 1] \div Base
        BY <2>1, <2>3, <2>4 DEF Loop
    <2>6. IsRest(f)
        BY <2>3, <2>5 DEF Loop
    <2> QED  BY <2>6
<1>2. PICK f : f = Rest(now) /\ IsRest(f)
    <2>1. Rest(now) = CHOOSE f : IsRest(f)
        BY DEF Rest
    <2> HIDE DEF IsRest
    <2> QED  BY <1>1, <2>1
<1>3. /\ f[0] = now
      /\ \A k \in Nat : k + 1 <= TimeChars => f[k + 1] = f[k] \div Base
    <2>1. \A k \in 0 .. TimeChars : f[k] = IF k = 0 THEN now ELSE f[k - 1] \div Base
        BY <1>2
    <2>2. \A k \in Nat : k + 1 <= TimeChars => k + 1 \in 0 .. TimeChars /\ k + 1 # 0 /\ (k + 1) - 1 = k
        BY <1>0
    <2> QED  BY <1>0, <2>1, <2>2
<1> DEFINE S == {k \in Nat : k <= TimeChars => f[k] \in Nat}
<1>4. 0 \in S
    BY <1>3
<1>5. ASSUME NEW k \in Nat, k \in S PROVE k + 1 \in S
    <2>1. k + 1 <= TimeChars => k <= TimeChars
        BY <1>0
    <2>2. \A x \in Nat : x \div Base \in Nat
        BY <1>0, Division
    <2> QED  BY <1>3, <1>5, <2>1, <2>2
<1>6. \A k \in 0 .. TimeChars : f[k] \in Nat
    <2> HIDE DEF S
    <2>1. Nat \subseteq S
        BY <1>4, <1>5, Induction
    <2> QED  BY <1>0, <2>1 DEF S
<1>7. f \in [0 .. TimeChars -> Nat]
    BY <1>2, <1>6
<1> QED  BY <1>2, <1>3, <1>7

\* The digits of the times that fit are used up after the last round.
LEMMA RestEnds ==
    ASSUME NEW now \in 1 .. LastTime
    PROVE  now \in Nat /\ LastTime \in Nat /\ Rest(now)[TimeChars] = 0
<1> DEFINE IsLast(f) == f = [k \in 0 .. TimeChars |-> IF k = 0 THEN 0 ELSE f[k - 1] * Base + Base - 1]
<1>0. Base \in Nat \ {0} /\ TimeChars \in Nat
    BY PushIdAssumption
<1>1. \E f : IsLast(f)
    <2>1. PICK step : step = [k \in Nat |-> [x \in Nat |-> x * Base + Base - 1]]
        OBVIOUS
    <2>2. step \in [Nat -> [Nat -> Nat]]
        <3>1. \A x \in Nat : x * Base + Base - 1 \in Nat
            BY <1>0
        <3> QED  BY <2>1, <3>1
    <2>3. PICK f : Loop(f, TimeChars, Nat, 0, step)
        <3>1. 0 \in Nat
            OBVIOUS
        <3> QED  BY <1>0, <2>2, <3>1, LoopExists
    <2>4. \A k \in 0 .. TimeChars : k # 0 => k - 1 \in 0 .. TimeChars /\ k \in Nat
        BY <1>0
    <2>5. \A k \in 0 .. TimeChars : k # 0 => step[k][f[k - 1]] = f[k - 1] * Base + Base - 1
        BY <2>1, <2>3, <2>4 DEF Loop
    <2>6. IsLast(f)
        BY <2>3, <2>5 DEF Loop
    <2> QED  BY <2>6
<1>2. PICK f : f[TimeChars] = LastTime /\ IsLast(f)
    <2>1. LastTime = (CHOOSE f : IsLast(f))[TimeChars]
        BY DEF LastTime
    <2> HIDE DEF IsLast
    <2> QED  BY <1>1, <2>1
<1>3. /\ f[0] = 0
      /\ \A k \in Nat : k + 1 <= TimeChars => f[k + 1] = f[k] * Base + Base - 1
    <2>1. \A k \in 0 .. TimeChars : f[k] = IF k = 0 THEN 0 ELSE f[k - 1] * Base + Base - 1
        BY <1>2
    <2>2. \A k \in Nat : k + 1 <= TimeChars => k + 1 \in 0 .. TimeChars /\ k + 1 # 0 /\ (k + 1) - 1 = k
        BY <1>0
    <2> QED  BY <1>0, <2>1, <2>2
<1> DEFINE S == {k \in Nat : k <= TimeChars => f[k] \in Nat}
<1>4. Nat \subseteq S
    <2>1. 0 \in S
        BY <1>3
    <2>2. ASSUME NEW k \in Nat, k \in S PROVE k + 1 \in S
        <3>1. k + 1 <= TimeChars => k <= TimeChars
            BY <1>0
        <3>2. \A x \in Nat : x * Base + Base - 1 \in Nat
            BY <1>0
        <3> QED  BY <1>0, <1>3, <2>2, <3>1, <3>2
    <2> HIDE DEF S
    <2> QED  BY <2>1, <2>2, Induction
<1>5. LastTime \in Nat /\ now \in Nat /\ now <= f[TimeChars]
    <2>1. f[TimeChars] \in Nat
        BY <1>0, <1>4
    <2> QED  BY <1>2, <2>1
<1>6. PICK rest \in [0 .. TimeChars -> Nat] :
          /\ rest = Rest(now) /\ rest[0] = now
          /\ \A k \in Nat : k + 1 <= TimeChars => rest[k + 1] = rest[k] \div Base
    BY <1>5, RestRounds
<1> DEFINE P == {k \in Nat : k <= TimeChars => rest[k] <= f[TimeChars - k]}
<1>7. 0 \in P
    BY <1>0, <1>5, <1>6
<1>8. ASSUME NEW k \in Nat, k \in P PROVE k + 1 \in P
    <2> SUFFICES ASSUME k + 1 <= TimeChars PROVE rest[k + 1] <= f[TimeChars - (k + 1)]
        OBVIOUS
    <2>1. PICK j \in Nat : j = TimeChars - (k + 1) /\ j + 1 = TimeChars - k /\ j + 1 <= TimeChars
                           /\ j <= TimeChars
        BY <1>0
    <2>2. PICK m \in Nat : m = f[j] /\ f[j + 1] = m * Base + Base - 1
        BY <1>3, <1>4, <2>1
    <2>3. PICK x \in Nat : x = rest[k] /\ rest[k + 1] = x \div Base
        <3>1. k \in 0 .. TimeChars
            BY <1>0
        <3> QED  BY <1>6, <3>1
    <2>4. x <= m * Base + Base - 1
        <3>1. k <= TimeChars
            BY <1>0
        <3> QED  BY <1>8, <2>1, <2>2, <2>3, <3>1
    <2>5. x \div Base <= m
        BY <1>0, <2>4, DivisionTop
    <2> QED  BY <2>1, <2>2, <2>3, <2>5
<1>9. rest[TimeChars] <= f[TimeChars - TimeChars]
    <2> HIDE DEF P
    <2>1. TimeChars \in P
        BY <1>0, <1>7, <1>8, Induction
    <2>2. TimeChars <= TimeChars
        BY <1>0
    <2> QED  BY <2>1, <2>2 DEF P
<1>10. rest[TimeChars] = 0
    <2>1. TimeChars - TimeChars = 0 /\ TimeChars \in 0 .. TimeChars
        BY <1>0
    <2>2. rest[TimeChars] \in Nat /\ rest[TimeChars] <= 0
        BY <1>3, <1>6, <1>9, <2>1
    <2> QED  BY <2>2
<1> QED  BY <1>5, <1>6, <1>10

\* A later time has as much left after every round.
LEMMA RestOrder ==
    ASSUME NEW x \in Nat, NEW y \in Nat, x <= y
    PROVE  \A k \in 0 .. TimeChars : Rest(x)[k] <= Rest(y)[k]
<1>0. Base \in Nat \ {0} /\ TimeChars \in Nat
    BY PushIdAssumption
<1>1. PICK a \in [0 .. TimeChars -> Nat] :
          /\ a = Rest(x) /\ a[0] = x
          /\ \A k \in Nat : k + 1 <= TimeChars => a[k + 1] = a[k] \div Base
    BY RestRounds
<1>2. PICK b \in [0 .. TimeChars -> Nat] :
          /\ b = Rest(y) /\ b[0] = y
          /\ \A k \in Nat : k + 1 <= TimeChars => b[k + 1] = b[k] \div Base
    BY RestRounds
<1> DEFINE S == {k \in Nat : k <= TimeChars => a[k] <= b[k]}
<1>3. 0 \in S
    BY <1>1, <1>2
<1>4. ASSUME NEW k \in Nat, k \in S PROVE k + 1 \in S
    <2> SUFFICES ASSUME k + 1 <= TimeChars PROVE a[k + 1] <= b[k + 1]
        OBVIOUS
    <2>1. k \in 0 .. TimeChars /\ k <= TimeChars
        BY <1>0
    <2>2. PICK p \in Nat, q \in Nat : p = a[k] /\ q = b[k] /\ p <= q
        BY <1>4, <2>1
    <2>3. p \div Base <= q \div Base
        BY <1>0, <2>2, DivisionOrder
    <2> QED  BY <1>1, <1>2, <2>2, <2>3
<1>5. Nat \subseteq S
    <2> HIDE DEF S
    <2> QED  BY <1>3, <1>4, Induction
<1>6. \A k \in 0 .. TimeChars : k \in Nat /\ k <= TimeChars
    BY <1>0
<1> QED  BY <1>1, <1>2, <1>5, <1>6

\* a comes before b at the digit i, which is the first one that differs.
FirstLess(a, b, i) == a[i] < b[i] /\ \A j \in 1 .. i - 1 : a[j] = b[j]

\* The digits of a later time are those of a larger number: the last round in which
\* what is left differs is the one of the first digit that differs.
LEMMA TimesAscend ==
    ASSUME NEW x \in 1 .. LastTime, NEW y \in 1 .. LastTime, x < y
    PROVE  \E i \in 1 .. TimeChars : FirstLess(TimeStamp(x), TimeStamp(y), i)
<1>0. Base \in Nat \ {0} /\ TimeChars \in Nat \ {0}
    BY PushIdAssumption
<1>1. x \in Nat /\ y \in Nat /\ Rest(x)[TimeChars] = 0 /\ Rest(y)[TimeChars] = 0
    BY RestEnds
<1>2. PICK a \in [0 .. TimeChars -> Nat] :
          /\ a = Rest(x) /\ a[0] = x
          /\ \A k \in Nat : k + 1 <= TimeChars => a[k + 1] = a[k] \div Base
    BY <1>1, RestRounds
<1>3. PICK b \in [0 .. TimeChars -> Nat] :
          /\ b = Rest(y) /\ b[0] = y
          /\ \A k \in Nat : k + 1 <= TimeChars => b[k + 1] = b[k] \div Base
    BY <1>1, RestRounds
<1>4. \A k \in 0 .. TimeChars : a[k] <= b[k]
    <2>1. x <= y
        BY <1>1
    <2> QED  BY <1>1, <1>2, <1>3, <2>1, RestOrder
<1> DEFINE Same == {k \in 0 .. TimeChars : a[k] = b[k]}
<1>5. PICK m \in Same : \A k \in Same : m <= k
    <2>1. TimeChars \in Same
        BY <1>0, <1>1, <1>2, <1>3
    <2>2. Same \in SUBSET Nat
        BY <1>0
    <2> HIDE DEF Same
    <2> QED  BY <2>1, <2>2, NatMin
<1>6. PICK l \in Nat : l + 1 = m /\ l + 1 <= TimeChars /\ l \in 0 .. TimeChars
    <2>1. m # 0
        BY <1>1, <1>2, <1>3
    <2>2. m - 1 \in Nat /\ (m - 1) + 1 = m /\ m <= TimeChars /\ m - 1 \in 0 .. TimeChars
        BY <1>0, <2>1
    <2> QED  BY <2>2
<1>7. PICK p \in Nat, q \in Nat : p = a[l] /\ q = b[l] /\ p < q /\ p \div Base = q \div Base
    <2>1. a[l] \in Nat /\ b[l] \in Nat /\ a[l] <= b[l]
        BY <1>4, <1>6
    <2>2. a[l] # b[l]
        <3>1. ~(m <= l)
            BY <1>6
        <3> QED  BY <1>5, <1>6, <3>1
    <2>3. a[l] < b[l]
        BY <2>1, <2>2
    <2>4. a[l + 1] = b[l + 1]
        BY <1>5, <1>6
    <2> QED  BY <1>2, <1>3, <1>6, <2>1, <2>3, <2>4
<1>8. p % Base < q % Base
    BY <1>0, <1>7, DivisionDigit
<1> DEFINE S == {k \in Nat : m + k <= TimeChars => a[m + k] = b[m + k]}
<1>9. Nat \subseteq S
    <2>0. m \in Nat
        BY <1>0
    <2>1. 0 \in S
        BY <1>5, <2>0
    <2>2. ASSUME NEW k \in Nat, k \in S PROVE k + 1 \in S
        <3> SUFFICES ASSUME m + (k + 1) <= TimeChars PROVE a[m + (k + 1)] = b[m + (k + 1)]
            OBVIOUS
        <3>1. PICK j \in Nat : j = m + k /\ j + 1 = m + (k + 1) /\ j + 1 <= TimeChars /\ j <= TimeChars
            BY <1>0, <2>0
        <3>2. a[j] = b[j]
            BY <2>2, <3>1
        <3> QED  BY <1>2, <1>3, <3>1, <3>2
    <2> HIDE DEF S
    <2> QED  BY <2>1, <2>2, Induction
<1>10. PICK i \in 1 .. TimeChars : TimeChars - i = l
    <2>1. TimeChars - l \in 1 .. TimeChars /\ TimeChars - (TimeChars - l) = l
        BY <1>0, <1>6
    <2> QED  BY <2>1
<1>11. PICK u : u = TimeStamp(x) /\ \A j \in 1 .. TimeChars : u[j] = a[TimeChars - j] % Base
    <2>1. PICK u : u = TimeStamp(x)
        OBVIOUS
    <2>2. u = [j \in 1 .. TimeChars |-> a[TimeChars - j] % Base]
        BY <1>2, <2>1 DEF TimeStamp
    <2>3. \A j \in 1 .. TimeChars : u[j] = a[TimeChars - j] % Base
        BY <2>2
    <2> QED  BY <2>1, <2>3
<1>12. PICK v : v = TimeStamp(y) /\ \A j \in 1 .. TimeChars : v[j] = b[TimeChars - j] % Base
    <2>1. PICK v : v = TimeStamp(y)
        OBVIOUS
    <2>2. v = [j \in 1 .. TimeChars |-> b[TimeChars - j] % Base]
        BY <1>3, <2>1 DEF TimeStamp
    <2>3. \A j \in 1 .. TimeChars : v[j] = b[TimeChars - j] % Base
        BY <2>2
    <2> QED  BY <2>1, <2>3
<1>13. u[i] < v[i]
    BY <1>7, <1>8, <1>10, <1>11, <1>12
<1>14. ASSUME NEW j \in 1 .. i - 1 PROVE u[j] = v[j]
    <2>1. PICK k \in Nat : m + k = TimeChars - j /\ m + k <= TimeChars
        <3>1. (TimeChars - j) - m \in Nat /\ m + ((TimeChars - j) - m) = TimeChars - j
              /\ TimeChars - j <= TimeChars
            BY <1>0, <1>6, <1>10
        <3> QED  BY <3>1
    <2>2. a[m + k] = b[m + k]
        BY <1>9, <2>1
    <2>3. j \in 1 .. TimeChars
        BY <1>0, <1>10
    <2> QED  BY <1>11, <1>12, <2>1, <2>2, <2>3
<1> QED  BY <1>10, <1>11, <1>12, <1>13, <1>14 DEF FirstLess

\* The loop that looks for a digit to count up stops at the last that is not at its
\* maximum.
LEMMA StopsAt ==
    ASSUME NEW r \in Rands
    PROVE  /\ CarryStop(r) \in 0 .. RandChars
           /\ CarryStop(r) # 0 => r[CarryStop(r)] # Base - 1
<1>0. RandChars \in Nat
    BY PushIdAssumption
<1> DEFINE T == {0} \cup {i \in 1 .. RandChars : r[i] # Base - 1}
           M == {n \in Nat : RandChars - n \in T}
<1>1. T \subseteq 0 .. RandChars /\ 0 \in T
    BY <1>0
<1>2. RandChars \in M
    BY <1>0
<1>3. PICK m \in M : \A n \in M : m <= n
    <2>1. M \in SUBSET Nat /\ M # {}
        BY <1>2
    <2> HIDE DEF M
    <2> QED  BY <2>1, NatMin
<1>4. PICK x \in T : x = RandChars - m
    BY <1>3
<1>5. \A y \in T : x >= y
    <2> SUFFICES ASSUME NEW y \in T PROVE x >= y
        OBVIOUS
    <2>1. y \in 0 .. RandChars /\ x \in 0 .. RandChars /\ m \in Nat
        BY <1>1
    <2>2. RandChars - y \in Nat /\ RandChars - (RandChars - y) = y
        BY <1>0, <2>1
    <2>3. RandChars - y \in M
        BY <2>2
    <2>4. m <= RandChars - y
        BY <1>3, <2>3
    <2> QED  BY <1>0, <1>4, <2>1, <2>4
<1>6. CarryStop(r) \in T
    <2>1. CarryStop(r) = CHOOSE z \in T : \A y \in T : z >= y
        BY DEF CarryStop, Max
    <2> HIDE DEF T
    <2> QED  BY <1>5, <2>1
<1>7. CarryStop(r) \in 0 .. RandChars
    <2> HIDE DEF T
    <2> QED  BY <1>1, <1>6
<1> QED  BY <1>6, <1>7

\* Counting up yields digits, and larger ones unless all were at their maximum.
LEMMA CountsUp ==
    ASSUME NEW r \in Rands
    PROVE  /\ Increment(r) \in Rands
           /\ CarryStop(r) # 0 => \E i \in 1 .. RandChars : FirstLess(r, Increment(r), i)
<1>0. Base \in Nat \ {0} /\ RandChars \in Nat
    BY PushIdAssumption
<1>1. PICK s \in 0 .. RandChars : s = CarryStop(r) /\ (s # 0 => r[s] # Base - 1)
    BY StopsAt
<1>2. PICK t : t = Increment(r)
               /\ t = [i \in 1 .. RandChars |-> IF i > s THEN 0 ELSE IF i = s THEN r[i] + 1 ELSE r[i]]
    BY <1>1 DEF Increment
<1>3. \A i \in 1 .. RandChars : r[i] \in 0 .. Base - 1
    BY DEF Rands, Digits
<1>4. \A i \in 1 .. RandChars : t[i] \in Digits
    <2> SUFFICES ASSUME NEW i \in 1 .. RandChars PROVE t[i] \in 0 .. Base - 1
        BY DEF Digits
    <2>1. PICK d \in 0 .. Base - 1 : d = r[i] /\ (i = s => d # Base - 1)
        <3>1. i # 0
            BY <1>0
        <3> QED  BY <1>1, <1>3, <3>1
    <2>2. t[i] = IF i > s THEN 0 ELSE IF i = s THEN d + 1 ELSE d
        BY <1>2, <2>1
    <2>3. 0 \in 0 .. Base - 1 /\ (d # Base - 1 => d + 1 \in 0 .. Base - 1)
        BY <1>0
    <2> QED  BY <2>1, <2>2, <2>3
<1>5. t \in Rands
    BY <1>2, <1>4 DEF Rands
<1>6. ASSUME s # 0 PROVE s \in 1 .. RandChars /\ FirstLess(r, t, s)
    <2>1. s \in 1 .. RandChars /\ ~(s > s)
        BY <1>0, <1>6
    <2>2. t[s] = r[s] + 1 /\ r[s] \in Int
        BY <1>0, <1>2, <1>3, <2>1
    <2>3. \A j \in 1 .. s - 1 : j \in 1 .. RandChars /\ ~(j > s) /\ j # s
        BY <1>0, <2>1
    <2>4. \A j \in 1 .. s - 1 : t[j] = r[j]
        BY <1>2, <2>3
    <2> QED  BY <2>1, <2>2, <2>4 DEF FirstLess
<1> QED  BY <1>1, <1>2, <1>5, <1>6

\* A process starts with digits.
LEMMA FirstPushType == FirstPush \in PushStates
<1>1. 0 \in Digits
    BY PushIdAssumption DEF Digits
<1> QED  BY <1>1 DEF FirstPush, PushStates, Rands

\* A call leaves digits behind.
LEMMA GetType ==
    ASSUME NEW s \in PushStates, NEW c \in PushCalls
    PROVE  /\ Get(s, c) \in PushStates
           /\ Get(s, c).time = c.now
<1>1. c.now \in Nat /\ c.drawn \in Rands
    BY RestEnds DEF PushCalls
<1>2. Increment(s.rand) \in Rands
    BY CountsUp DEF PushStates
<1> QED  BY <1>1, <1>2 DEF Get, PushStates

\* What the generator has after each of a number of calls.
LEMMA StatesRounds ==
    ASSUME NEW n \in Nat, NEW calls \in CallSequences(n)
    PROVE  /\ Len(calls) = n
           /\ \A i \in 1 .. n : /\ States(calls)[i] \in PushStates
                                /\ States(calls)[i].time = calls[i].now
           /\ \A i \in 1 .. n - 1 : States(calls)[i + 1] = Get(States(calls)[i], calls[i + 1])
<1> DEFINE After(f) == f = [i \in 0 .. n |-> IF i = 0 THEN FirstPush ELSE Get(f[i - 1], calls[i])]
<1>1. calls \in [1 .. n -> PushCalls]
    BY DEF CallSequences
<1>2. Len(calls) = n
    BY <1>1
<1>3. FirstPush \in PushStates
    BY FirstPushType
<1>4. \A x \in PushStates, i \in 1 .. n : /\ Get(x, calls[i]) \in PushStates
                                          /\ Get(x, calls[i]).time = calls[i].now
    BY <1>1, GetType
<1>5. \E f : After(f)
    <2>1. PICK step : step = [k \in Nat |-> [x \in PushStates |->
                                 IF k \in 1 .. n THEN Get(x, calls[k]) ELSE x]]
        OBVIOUS
    <2>2. step \in [Nat -> [PushStates -> PushStates]]
        BY <1>4, <2>1
    <2>3. PICK f : Loop(f, n, PushStates, FirstPush, step)
        BY <1>3, <2>2, LoopExists
    <2>4. \A k \in 0 .. n : k # 0 => k - 1 \in 0 .. n /\ k \in Nat /\ k \in 1 .. n
        OBVIOUS
    <2>5. \A k \in 0 .. n : k # 0 => step[k][f[k - 1]] = Get(f[k - 1], calls[k])
        BY <2>1, <2>3, <2>4 DEF Loop
    <2>6. After(f)
        BY <2>3, <2>5 DEF Loop
    <2> QED  BY <2>6
<1>6. PICK f : After(f) /\ States(calls) = [i \in 1 .. n |-> f[i]]
    <2>1. States(calls) = [i \in 1 .. n |-> (CHOOSE f : After(f))[i]]
        BY <1>2 DEF States
    <2> HIDE DEF After
    <2> QED  BY <1>5, <2>1
<1>7. /\ f[0] = FirstPush
      /\ \A k \in Nat : k + 1 <= n => f[k + 1] = Get(f[k], calls[k + 1]) /\ k + 1 \in 1 .. n
    <2>1. \A k \in 0 .. n : f[k] = IF k = 0 THEN FirstPush ELSE Get(f[k - 1], calls[k])
        BY <1>6
    <2>2. \A k \in Nat : k + 1 <= n => k + 1 \in 0 .. n /\ k + 1 # 0 /\ (k + 1) - 1 = k /\ k + 1 \in 1 .. n
        OBVIOUS
    <2> QED  BY <2>1, <2>2
<1> DEFINE S == {k \in Nat : k <= n => f[k] \in PushStates}
<1>8. Nat \subseteq S
    <2>1. 0 \in S
        BY <1>3, <1>7
    <2>2. ASSUME NEW k \in Nat, k \in S PROVE k + 1 \in S
        <3> SUFFICES ASSUME k + 1 <= n PROVE f[k + 1] \in PushStates
            OBVIOUS
        <3>1. k <= n
            OBVIOUS
        <3>2. f[k] \in PushStates
            BY <2>2, <3>1
        <3>3. f[k + 1] = Get(f[k], calls[k + 1]) /\ k + 1 \in 1 .. n
            BY <1>7
        <3>4. Get(f[k], calls[k + 1]) \in PushStates
            BY <1>4, <3>2, <3>3
        <3> QED  BY <3>3, <3>4
    <2> HIDE DEF S
    <2> QED  BY <2>1, <2>2, Induction
<1>9. ASSUME NEW i \in 1 .. n PROVE States(calls)[i] \in PushStates /\ States(calls)[i].time = calls[i].now
    <2>1. PICK k \in Nat : k + 1 = i /\ k + 1 <= n /\ k <= n
        <3>1. i - 1 \in Nat /\ (i - 1) + 1 = i /\ i <= n /\ i - 1 <= n
            OBVIOUS
        <3> QED  BY <3>1
    <2>2. f[k] \in PushStates
        BY <1>8, <2>1
    <2>3. States(calls)[i] = Get(f[k], calls[i])
        BY <1>6, <1>7, <2>1
    <2> QED  BY <1>4, <2>2, <2>3
<1>10. ASSUME NEW i \in 1 .. n - 1
       PROVE States(calls)[i + 1] = Get(States(calls)[i], calls[i + 1])
    <2>1. i \in Nat /\ i + 1 <= n /\ i \in 1 .. n /\ i + 1 \in 1 .. n
        OBVIOUS
    <2> QED  BY <1>6, <1>7, <2>1
<1> QED  BY <1>2, <1>9, <1>10

\* Where the digits of a key are.
LEMMA KeyDigits ==
    ASSUME NEW s \in PushStates
    PROVE  /\ DOMAIN Key(s) = 1 .. TimeChars + RandChars
           /\ \A i \in 1 .. TimeChars : Key(s)[i] = TimeStamp(s.time)[i]
           /\ \A i \in 1 .. RandChars : Key(s)[TimeChars + i] = s.rand[i]
<1>0. Base \in Nat \ {0} /\ TimeChars \in Nat /\ RandChars \in Nat
    BY PushIdAssumption
<1>1. PICK a : a = TimeStamp(s.time) /\ a \in [1 .. TimeChars -> Digits]
    <2>1. s.time \in Nat
        BY DEF PushStates
    <2>2. PICK r \in [0 .. TimeChars -> Nat] : r = Rest(s.time)
        BY <2>1, RestRounds
    <2>3. \A i \in 1 .. TimeChars : r[TimeChars - i] % Base \in Digits
        <3> SUFFICES ASSUME NEW i \in 1 .. TimeChars PROVE r[TimeChars - i] % Base \in Digits
            OBVIOUS
        <3>1. PICK x \in Nat : x = r[TimeChars - i]
            <4>1. TimeChars - i \in 0 .. TimeChars
                BY <1>0
            <4> QED  BY <4>1
        <3>2. x % Base \in Digits
            BY <1>0, Division DEF Digits
        <3> QED  BY <3>1, <3>2
    <2>4. PICK a : a = TimeStamp(s.time)
        OBVIOUS
    <2>5. a = [i \in 1 .. TimeChars |-> r[TimeChars - i] % Base]
        BY <2>2, <2>4 DEF TimeStamp
    <2>6. a \in [1 .. TimeChars -> Digits]
        BY <2>3, <2>5
    <2> QED  BY <2>4, <2>6
<1>2. PICK b : b = s.rand /\ b \in [1 .. RandChars -> Digits]
    BY DEF PushStates, Rands
<1>3. a \in Seq(Digits) /\ b \in Seq(Digits) /\ Len(a) = TimeChars /\ Len(b) = RandChars
    BY <1>0, <1>1, <1>2
<1>4. PICK k : k = a \o b /\ k = Key(s)
    BY <1>1, <1>2 DEF Key
<1>5. /\ k \in Seq(Digits) /\ Len(k) = TimeChars + RandChars
      /\ \A i \in 1 .. TimeChars + RandChars :
            k[i] = IF i <= TimeChars THEN a[i] ELSE b[i - TimeChars]
    <2>1. /\ a \o b \in Seq(Digits) /\ Len(a \o b) = Len(a) + Len(b)
          /\ \A i \in 1 .. Len(a) + Len(b) :
                (a \o b)[i] = IF i <= Len(a) THEN a[i] ELSE b[i - Len(a)]
        BY <1>3, ConcatProperties
    <2> QED  BY <1>3, <1>4, <2>1
<1>6. DOMAIN k = 1 .. TimeChars + RandChars
    BY <1>5, LenProperties
<1>7. \A i \in 1 .. TimeChars : i \in 1 .. TimeChars + RandChars /\ i <= TimeChars
    BY <1>0
<1>8. \A i \in 1 .. RandChars : /\ TimeChars + i \in 1 .. TimeChars + RandChars
                                /\ ~(TimeChars + i <= TimeChars) /\ (TimeChars + i) - TimeChars = i
    BY <1>0
<1>9. \A i \in 1 .. TimeChars : k[i] = a[i]
    BY <1>5, <1>7
<1>10. \A i \in 1 .. RandChars : k[TimeChars + i] = b[i]
    BY <1>5, <1>8
<1> QED  BY <1>1, <1>2, <1>4, <1>6, <1>9, <1>10

\* The key of a call that comes when the clock has not gone back and a digit is left
\* to count up sorts after the key before.
LEMMA NextKeyIsLater ==
    ASSUME NEW s \in PushStates, NEW t \in PushStates, NEW call, t = Get(s, call),
           s.time \in 1 .. LastTime, t.time \in 1 .. LastTime, s.time <= t.time,
           s.time = t.time => CarryStop(s.rand) # 0
    PROVE  Earlier(Key(s), Key(t))
<1>0. Base \in Nat \ {0} /\ TimeChars \in Nat /\ RandChars \in Nat
    BY PushIdAssumption
<1>1. PICK x \in Nat, y \in Nat : x = s.time /\ y = t.time /\ x <= y
    BY DEF PushStates
<1>2. PICK a : /\ a = Key(s) /\ DOMAIN a = 1 .. TimeChars + RandChars
               /\ \A j \in 1 .. TimeChars : a[j] = TimeStamp(x)[j]
               /\ \A j \in 1 .. RandChars : a[TimeChars + j] = s.rand[j]
    BY <1>1, KeyDigits
<1>3. PICK b : /\ b = Key(t)
               /\ \A j \in 1 .. TimeChars : b[j] = TimeStamp(y)[j]
               /\ \A j \in 1 .. RandChars : b[TimeChars + j] = t.rand[j]
    BY <1>1, KeyDigits
<1>4. \E k \in 1 .. TimeChars + RandChars : FirstLess(a, b, k)
    <2>1. CASE x = y
        <3>1. t.rand = Increment(s.rand)
            <4>1. t.time = call.now
                BY DEF Get
            <4>2. call.now = s.time
                BY <1>1, <2>1, <4>1
            <4> QED  BY <4>2 DEF Get
        <3>2. CarryStop(s.rand) # 0
            BY <1>1, <2>1
        <3>3. PICK k \in 1 .. RandChars : FirstLess(s.rand, t.rand, k)
            BY <3>1, <3>2, CountsUp DEF PushStates
        <3>4. TimeChars + k \in 1 .. TimeChars + RandChars
            BY <1>0
        <3>5. a[TimeChars + k] < b[TimeChars + k]
            BY <1>2, <1>3, <3>3 DEF FirstLess
        <3>6. ASSUME NEW j \in 1 .. (TimeChars + k) - 1 PROVE a[j] = b[j]
            <4>1. CASE j \in 1 .. TimeChars
                BY <1>2, <1>3, <2>1, <4>1
            <4>2. CASE j \notin 1 .. TimeChars
                <5>1. PICK l \in 1 .. k - 1 : j = TimeChars + l /\ l \in 1 .. RandChars
                    <6>1. j - TimeChars \in 1 .. k - 1 /\ j = TimeChars + (j - TimeChars)
                          /\ j - TimeChars \in 1 .. RandChars
                        BY <1>0, <4>2
                    <6> QED  BY <6>1
                <5> QED  BY <1>2, <1>3, <3>3, <5>1 DEF FirstLess
            <4> QED  BY <4>1, <4>2
        <3> QED  BY <3>4, <3>5, <3>6 DEF FirstLess
    <2>2. CASE x # y
        <3>1. x < y
            BY <1>1, <2>2
        <3>2. PICK k \in 1 .. TimeChars : FirstLess(TimeStamp(x), TimeStamp(y), k)
            BY <1>1, <3>1, TimesAscend
        <3>3. k \in 1 .. TimeChars + RandChars /\ \A j \in 1 .. k - 1 : j \in 1 .. TimeChars
            BY <1>0
        <3> QED  BY <1>2, <1>3, <3>2, <3>3 DEF FirstLess
    <2> QED  BY <2>1, <2>2
<1> QED  BY <1>2, <1>3, <1>4 DEF Earlier, FirstLess

\* FNextPushId.get yields keys in ascending order for any number of calls, any base and
\* any number of digits, as long as the clock does not go back and the digits of
\* one millisecond last.
THEOREM KeysCorrect == \A n \in Nat : KeysAscend(n)
<1> SUFFICES ASSUME NEW n \in Nat, NEW calls \in CallSequences(n),
                    NoOverrun(calls, States(calls)), NEW i \in 1 .. n - 1
             PROVE  Earlier(Key(States(calls)[i]), Key(States(calls)[i + 1]))
    BY DEF KeysAscend
<1>1. i \in 1 .. n /\ i + 1 \in 1 .. n /\ i + 1 \in 2 .. n /\ (i + 1) - 1 = i
    OBVIOUS
<1>2. PICK s \in PushStates : s = States(calls)[i] /\ s.time = calls[i].now
    BY <1>1, StatesRounds
<1>3. PICK t \in PushStates : t = States(calls)[i + 1] /\ t.time = calls[i + 1].now
                              /\ t = Get(s, calls[i + 1])
    BY <1>1, <1>2, StatesRounds
<1>4. s.time \in 1 .. LastTime /\ t.time \in 1 .. LastTime /\ s.time <= t.time
    BY <1>1, <1>2, <1>3 DEF CallSequences, PushCalls
<1>5. ASSUME s.time = t.time PROVE CarryStop(s.rand) # 0
    <2>1. Len(calls) = n
        BY StatesRounds
    <2>2. calls[i + 1].now = States(calls)[(i + 1) - 1].time
        BY <1>1, <1>2, <1>3, <1>5
    <2>3. CarryStop(States(calls)[(i + 1) - 1].rand) # 0
        BY <1>1, <2>1, <2>2 DEF NoOverrun
    <2> QED  BY <1>1, <1>2, <2>3
<1> QED  BY <1>2, <1>3, <1>4, <1>5, NextKeyIsLater
-------------------------------------------------------------------------------
\* The order of the rows

(***************************************************************************)
(* That rows stand in the order of sending needs to be known of the        *)
(* process that sent them: its generator is where its last message left    *)
(* it, so that the key of the next one is later, and every message it has  *)
(* sent is with the SDK or waits for its queue, so that the next one is    *)
(* new.                                                                    *)
(***************************************************************************)
KeyTypes ==
    /\ lastPush \in [Clients -> PushStates]
    /\ sent \in [Clients -> Seq(Writes)]

SentInv ==
    \A c \in Clients : \A m \in DOMAIN sent[c] :
        Writer[sent[c][m]] = c /\ Sent(sent[c][m])

LastInv ==
    \A c \in Clients :
        sent[c] # <<>> => lastPush[c] = Pushed[sent[c][Len(sent[c])]]

AscendInv ==
    \A c \in Clients : \A m, n \in DOMAIN sent[c] :
        m < n /\ Steady(c, m, n) => KeyOf[sent[c][m]] < KeyOf[sent[c][n]]

KeyInv == KeyTypes /\ SentInv /\ LastInv /\ AscendInv /\ OwnRowsInOrder

\* A message that was sent stays with the SDK or its queue while its process runs.
LEMMA SentStays ==
    ASSUME SoundInv, [Next]_vars, NEW w \in Writes, Sent(w), ~Kill(Writer[w])
    PROVE  Sent(w)'
<1> DEFINE c == Writer[w]
<1>0. c \in Clients /\ queued[c] \in Seq(Calls(c)) /\ issued \in Seq(Writes) /\ DOMAIN queued = Clients
    BY ConstantTypes DEF SoundInv, SdkInv, AppInv
<1>1. CASE \E s \in Screens : ViewDidLoad(s)
    <2>1. PICK s \in Screens : ViewDidLoad(s)
        BY <1>1
    <2>2. issued' = issued /\ queued' = [queued EXCEPT ![Owner[s]] = Append(queued[Owner[s]], ObserveCall(s))]
        BY <2>1 DEF ViewDidLoad, sdkVars
    <2>3. In(queued[c]) \subseteq In(Append(queued[c], ObserveCall(s)))
        BY <1>0, InAppend
    <2> QED  BY <1>0, <2>2, <2>3 DEF Sent
<1>2. CASE \E v \in Writes : SendAction(v)
    <2>1. PICK v \in Writes : SendAction(v)
        BY <1>2
    <2>2. issued' = issued /\ queued' = [queued EXCEPT ![Owner[SentOn[v]]] = Append(queued[Owner[SentOn[v]]], SetCall(v))]
        BY <2>1 DEF SendAction, sdkVars
    <2>3. In(queued[c]) \subseteq In(Append(queued[c], SetCall(v)))
        BY <1>0, InAppend
    <2> QED  BY <1>0, <2>2, <2>3 DEF Sent
<1>3. CASE \E s \in Screens : RunObserve(s)
    <2>1. PICK s \in Screens : RunObserve(s)
        BY <1>3
    <2>2. /\ queued[Owner[s]] # <<>> /\ Head(queued[Owner[s]]) = ObserveCall(s)
          /\ queued' = [queued EXCEPT ![Owner[s]] = Tail(queued[Owner[s]])]
          /\ opened' = opened /\ issued' = issued
        BY <2>1 DEF RunObserve, DB!Observe
    <2>3. Owner[s] \in Clients
        BY ConstantTypes
    <2>4. In(queued[c]) \subseteq In(queued'[c]) \cup {ObserveCall(s)}
        BY <1>0, <2>2, <2>3, DequeueKeeps
    <2> QED  BY <2>2, <2>4, CallsDiffer DEF Sent
<1>4. CASE \E v \in Writes : RunSetValue(v)
    <2>1. PICK v \in Writes : RunSetValue(v)
        BY <1>4
    <2>2. /\ queued[Writer[v]] # <<>> /\ Head(queued[Writer[v]]) = SetCall(v)
          /\ queued' = [queued EXCEPT ![Writer[v]] = Tail(queued[Writer[v]])]
          /\ opened' = opened /\ issued' = Append(issued, v)
        BY <2>1 DEF RunSetValue, DB!SetValue
    <2>3. Writer[v] \in Clients
        BY ConstantTypes
    <2>4. In(queued[c]) \subseteq In(queued'[c]) \cup {SetCall(v)}
        BY <1>0, <2>2, <2>3, DequeueKeeps
    <2>5. In(issued') = In(issued) \cup {v}
        BY <1>0, <2>2, InAppend
    <2> QED  BY <2>4, <2>5, SetCallIsInjective DEF Sent
<1>5. CASE Synchronise \/ (\E s \in Screens : UsersModelsSetup(s)) \/ UNCHANGED vars
    <2>1. issued' = issued /\ queued' = queued
        BY <1>5
        DEF Synchronise, UsersModelsSetup, DB!Apply, DB!Settle, DB!Advance, DB!FireEvent, vars, sdkVars
    <2> QED  BY <2>1 DEF Sent
<1>6. CASE \E d \in Clients : Kill(d)
    <2>1. PICK d \in Clients : Kill(d)
        BY <1>6
    <2>2. issued' = issued /\ queued' = [queued EXCEPT ![d] = <<>>] /\ d # c
        BY <2>1 DEF Kill, DB!Kill
    <2> QED  BY <1>0, <2>2 DEF Sent
<1> QED
    BY <1>1, <1>2, <1>3, <1>4, <1>5, <1>6 DEF Next

\* The history and the generators stay when no message is sent and no process killed.
LEMMA KeysQuiet ==
    ASSUME SoundInv, KeyInv, [Next]_vars, UNCHANGED keyVars, \A c \in Clients : ~Kill(c)
    PROVE  KeyTypes' /\ SentInv' /\ LastInv' /\ AscendInv'
<1>1. lastPush' = lastPush /\ sent' = sent
    BY DEF keyVars
<1>2. KeyTypes' /\ LastInv'
    BY <1>1 DEF KeyInv, KeyTypes, LastInv
<1>3. AscendInv'
    BY <1>1 DEF KeyInv, AscendInv, Steady
<1>4. SentInv'
    <2> SUFFICES ASSUME NEW c \in Clients, NEW m \in DOMAIN sent[c]
                 PROVE  Writer[sent[c][m]] = c /\ Sent(sent[c][m])'
        BY <1>1 DEF SentInv
    <2>1. PICK w \in Writes : w = sent[c][m]
        BY DEF KeyInv, KeyTypes
    <2>2. Writer[w] = c /\ Sent(w)
        BY <2>1 DEF KeyInv, SentInv
    <2>3. Sent(w)'
        BY <2>2, SentStays
    <2> QED  BY <1>1, <2>1, <2>2, <2>3 DEF Sent
<1> QED
    BY <1>2, <1>3, <1>4

\* A table filled from a snapshot is in the order of the keys.
LEMMA UsersModelsSetupOrders ==
    ASSUME SoundInv, KeyInv, NEW s \in Screens, UsersModelsSetup(s)
    PROVE  OwnRowsInOrder'
<1>1. PICK rows \in Rows : /\ IsTable(Conversation(s, Head(events[s])), rows)
                           /\ allMessages' = [allMessages EXCEPT ![s] = rows]
    BY DEF UsersModelsSetup
<1>2. sent' = sent /\ allMessages \in [Screens -> Seq(Writes)]
    BY DEF UsersModelsSetup, keyVars, SoundInv, AppInv
<1> SUFFICES ASSUME NEW c \in Clients, NEW m \in DOMAIN sent[c], NEW n \in DOMAIN sent[c],
                    m < n, Steady(c, m, n), NEW t \in Screens,
                    NEW i \in DOMAIN allMessages'[t], NEW j \in DOMAIN allMessages'[t], i < j,
                    allMessages'[t][i] = sent[c][n], allMessages'[t][j] = sent[c][m]
             PROVE  FALSE
    BY <1>2 DEF OwnRowsInOrder, Steady
<1>3. CASE t = s
    <2>1. allMessages'[t] = rows
        BY <1>1, <1>2, <1>3
    <2>2. KeyOf[sent[c][n]] < KeyOf[sent[c][m]]
        BY <1>1, <2>1 DEF IsTable
    <2>3. KeyOf[sent[c][m]] < KeyOf[sent[c][n]]
        BY DEF KeyInv, AscendInv
    <2>4. KeyOf[sent[c][m]] \in Nat /\ KeyOf[sent[c][n]] \in Nat
        <3>1. sent[c][m] \in Writes /\ sent[c][n] \in Writes
            BY DEF KeyInv, KeyTypes
        <3> QED  BY <3>1, ConstantTypes, ChatAssumption
    <2> QED  BY <2>2, <2>3, <2>4
<1>4. CASE t # s
    <2>1. allMessages'[t] = allMessages[t]
        BY <1>1, <1>2, <1>4
    <2> QED  BY <2>1 DEF KeyInv, OwnRowsInOrder
<1> QED
    BY <1>3, <1>4

\* The next message of a process gets a later key and a row below all it has sent.
LEMMA SendActionOrders ==
    ASSUME SoundInv, KeyInv, NEW w \in Writes, SendAction(w)
    PROVE  KeyInv'
<1> DEFINE s == SentOn[w]
           d == Writer[w]
           len == Len(sent[d])
<1>0. s \in Screens /\ d \in Clients /\ Owner[s] = d
    BY ConstantTypes
<1>1. /\ sent' = [sent EXCEPT ![d] = Append(sent[d], w)]
      /\ allMessages' = [allMessages EXCEPT ![s] = Append(allMessages[s], w)]
      /\ ~Sent(w)
    BY <1>0 DEF SendAction
<1>2. PICK call \in PushCalls :
          /\ Get(lastPush[d], call) = Pushed[w]
          /\ lastPush' = [lastPush EXCEPT ![d] = Pushed[w]]
    BY DEF SendAction, ChildByAutoId
<1>3. /\ sent \in [Clients -> Seq(Writes)] /\ lastPush \in [Clients -> PushStates]
      /\ allMessages \in [Screens -> Seq(Writes)]
    BY DEF KeyInv, KeyTypes, SoundInv, AppInv
<1>4. /\ Pushed[w] \in PushStates
      /\ \A v \in Writes : Pushed[v] \in PushStates /\ Pushed[v].time \in 1 .. LastTime
    <2>1. 1 .. LastTime \subseteq Nat
        BY RestEnds
    <2> QED  BY <2>1, ChatAssumption DEF PushStates
<1>5. \A c \in Clients : \A m \in DOMAIN sent[c] : sent[c][m] # w
    BY <1>1 DEF KeyInv, SentInv
<1>6. /\ sent[d] \in Seq(Writes) /\ len \in Nat /\ DOMAIN sent[d] = 1 .. len
      /\ sent'[d] \in Seq(Writes) /\ Len(sent'[d]) = len + 1 /\ DOMAIN sent'[d] = 1 .. len + 1
      /\ sent'[d][len + 1] = w /\ \A m \in 1 .. len : sent'[d][m] = sent[d][m]
    <2>1. sent[d] \in Seq(Writes) /\ sent'[d] = Append(sent[d], w)
        BY <1>0, <1>1, <1>3
    <2> HIDE DEF d
    <2> QED  BY <2>1, AppendProperties, LenProperties
<1>7. \A c \in Clients : c # d => sent'[c] = sent[c]
    BY <1>1, <1>3
<1> HIDE DEF d, len, s
<1>8. KeyTypes'
    BY <1>0, <1>1, <1>2, <1>3, <1>4, <1>6, <1>7 DEF KeyTypes
<1>9. SentInv'
    <2> SUFFICES ASSUME NEW c \in Clients, NEW m \in DOMAIN sent'[c]
                 PROVE  \E v : v = sent'[c][m] /\ Writer[v] = c /\ Sent(v)'
        BY DEF SentInv, Sent
    <2>1. PICK v \in Writes : v = sent'[c][m]
        BY <1>8 DEF KeyTypes
    <2>2. Sent(w)'
        <3>1. queued' = [queued EXCEPT ![d] = Append(queued[d], SetCall(w))]
            BY <1>0 DEF SendAction, s
        <3>2. queued[d] \in Seq(Calls(d)) /\ DOMAIN queued = Clients
            BY <1>0 DEF SoundInv, AppInv
        <3>3. SetCall(w) \in In(queued'[d])
            BY <1>0, <3>1, <3>2, InAppend
        <3> QED  BY <3>3 DEF Sent, d
    <2>3. CASE c = d /\ m = len + 1
        <3>1. v = w
            BY <1>6, <2>1, <2>3
        <3> QED  BY <2>1, <2>2, <2>3, <3>1 DEF d
    <2>4. CASE ~(c = d /\ m = len + 1)
        <3>1. m \in DOMAIN sent[c] /\ v = sent[c][m]
            BY <1>6, <1>7, <2>1, <2>4
        <3>2. Writer[v] = c /\ Sent(v)
            BY <3>1 DEF KeyInv, SentInv
        <3>3. ~Kill(Writer[v])
            <4>1. issued' = issued /\ kills' = kills
                BY DEF SendAction, sdkVars
            <4>2. Kill(Writer[v]) => kills' = kills + 1
                BY DEF Kill, DB!Kill
            <4>3. kills \in Nat
                BY DEF SoundInv, SdkInv
            <4> QED  BY <4>1, <4>2, <4>3
        <3>4. Sent(v)'
            BY <3>2, <3>3, SentStays DEF Next
        <3> QED  BY <2>1, <3>2, <3>4
    <2> QED  BY <2>3, <2>4
<1>10. LastInv'
    <2> SUFFICES ASSUME NEW c \in Clients, sent'[c] # <<>>
                 PROVE  lastPush'[c] = Pushed[sent'[c][Len(sent'[c])]]
        BY DEF LastInv
    <2>1. CASE c = d
        BY <1>0, <1>2, <1>3, <1>6, <2>1
    <2>2. CASE c # d
        BY <1>2, <1>3, <1>7, <2>2 DEF KeyInv, LastInv
    <2> QED  BY <2>1, <2>2
<1>11. AscendInv'
    <2> SUFFICES ASSUME NEW c \in Clients, NEW m \in DOMAIN sent'[c], NEW n \in DOMAIN sent'[c],
                        m < n, Steady(c, m, n)'
                 PROVE  KeyOf[sent'[c][m]] < KeyOf[sent'[c][n]]
        BY DEF AscendInv
    <2>1. CASE c # d
        <3>1. sent'[c] = sent[c]
            BY <1>7, <2>1
        <3>2. Steady(c, m, n)
            BY <3>1 DEF Steady
        <3> QED  BY <3>1, <3>2 DEF KeyInv, AscendInv
    <2>2. CASE c = d /\ n \in 1 .. len
        <3>1. m \in 1 .. len
            BY <1>6, <2>2
        <3>2. \A k \in m .. n - 1 : k \in 1 .. len /\ k + 1 \in 1 .. len
            BY <1>6, <2>2, <3>1
        <3>3. Steady(c, m, n)
            BY <1>6, <2>2, <3>2 DEF Steady
        <3> QED  BY <1>6, <2>2, <3>1, <3>3 DEF KeyInv, AscendInv
    <2>3. CASE c = d /\ n = len + 1
        <3>1. m \in 1 .. len /\ len \in 1 .. len /\ n - 1 = len /\ len \in m .. n - 1
            BY <1>6, <2>3
        <3>2. PICK v \in Writes : v = sent[d][len] /\ v = sent'[d][len] /\ sent'[d][n] = w
            BY <1>6, <2>3, <3>1
        <3>3. InTime(v, w)
            BY <2>3, <3>1, <3>2 DEF Steady
        <3>4. KeyOf[v] < KeyOf[w]
            <4>1. lastPush[d] = Pushed[v]
                <5>1. sent[d] # <<>>
                    BY <1>6, <3>1
                <5> QED  BY <1>0, <3>2, <5>1 DEF KeyInv, LastInv, len
            <4>2. Pushed[w] = Get(Pushed[v], call)
                BY <1>2, <4>1
            <4>3. Earlier(Key(Pushed[v]), Key(Pushed[w]))
                BY <1>4, <3>3, <4>2, NextKeyIsLater DEF InTime
            <4> QED  BY <4>3, ChatAssumption
        <3>5. CASE m = len
            BY <2>3, <3>2, <3>4, <3>5
        <3>6. CASE m # len
            <4>1. m < len /\ \A k \in m .. len - 1 : k \in 1 .. len /\ k + 1 \in 1 .. len /\ k \in m .. n - 1
                BY <1>6, <3>1, <3>6
            <4>2. Steady(d, m, len)
                BY <1>6, <2>3, <4>1 DEF Steady
            <4>3. KeyOf[sent[d][m]] < KeyOf[v]
                <5>1. m \in DOMAIN sent[d] /\ len \in DOMAIN sent[d]
                    BY <1>6, <3>1
                <5>2. KeyOf[sent[d][m]] < KeyOf[sent[d][len]]
                    BY <1>0, <4>1, <4>2, <5>1 DEF KeyInv, AscendInv
                <5> QED  BY <3>2, <5>2
            <4>4. KeyOf[sent[d][m]] \in Nat /\ KeyOf[v] \in Nat /\ KeyOf[w] \in Nat
                <5>1. sent[d][m] \in Writes
                    BY <1>6, <3>1
                <5> QED  BY <5>1, ConstantTypes, ChatAssumption
            <4> QED  BY <1>6, <2>3, <3>1, <3>2, <3>4, <4>3, <4>4
        <3> QED  BY <3>5, <3>6
    <2> QED  BY <1>6, <2>1, <2>2, <2>3
<1>12. OwnRowsInOrder'
    <2> SUFFICES ASSUME NEW c \in Clients, NEW m \in DOMAIN sent'[c], NEW n \in DOMAIN sent'[c],
                        m < n, Steady(c, m, n)', NEW t \in Screens,
                        NEW i \in DOMAIN allMessages'[t], NEW j \in DOMAIN allMessages'[t], i < j,
                        allMessages'[t][i] = sent'[c][n], allMessages'[t][j] = sent'[c][m]
                 PROVE  FALSE
        BY DEF OwnRowsInOrder
    <2>1. m \in DOMAIN sent[c] /\ sent'[c][m] = sent[c][m]
        BY <1>6, <1>7
    <2>2. sent'[c][m] # w
        BY <1>5, <2>1
    <2>3. /\ i \in DOMAIN allMessages[t] /\ allMessages[t][i] = allMessages'[t][i]
          /\ j \in DOMAIN allMessages[t] /\ allMessages[t][j] = allMessages'[t][j]
        <3>1. CASE t # s
            BY <1>1, <1>3, <3>1
        <3>2. CASE t = s
            <4>1. allMessages'[t] = Append(allMessages[t], w) /\ allMessages[t] \in Seq(Writes)
                BY <1>0, <1>1, <1>3, <3>2
            <4>2. /\ DOMAIN allMessages[t] = 1 .. Len(allMessages[t]) /\ Len(allMessages[t]) \in Nat
                  /\ DOMAIN allMessages'[t] = 1 .. Len(allMessages[t]) + 1
                  /\ allMessages'[t][Len(allMessages[t]) + 1] = w
                  /\ \A k \in 1 .. Len(allMessages[t]) : allMessages'[t][k] = allMessages[t][k]
                BY <4>1, AppendProperties, LenProperties
            <4>3. j # Len(allMessages[t]) + 1
                BY <2>2, <4>2
            <4> QED  BY <4>2, <4>3
        <3> QED  BY <3>1, <3>2
    <2>4. n \in DOMAIN sent[c] /\ sent'[c][n] = sent[c][n]
        <3>1. allMessages[t][i] \in In(allMessages[t])
            BY <2>3 DEF In
        <3>2. allMessages[t][i] # w
            BY <1>0, <1>1, <3>1 DEF SoundInv, RowsSent, Sent
        <3>3. sent'[c][n] # w
            BY <2>3, <3>2
        <3> QED  BY <1>6, <1>7, <3>3
    <2>5. Steady(c, m, n)
        <3>1. \A k \in m .. n - 1 : sent'[c][k] = sent[c][k] /\ sent'[c][k + 1] = sent[c][k + 1]
            <4>1. CASE c # d
                BY <1>7, <4>1
            <4>2. CASE c = d
                <5>1. m \in 1 .. len /\ n \in 1 .. len
                    BY <1>6, <2>1, <2>4, <4>2
                <5>2. \A k \in m .. n - 1 : k \in 1 .. len /\ k + 1 \in 1 .. len
                    BY <1>6, <5>1
                <5> QED  BY <1>6, <4>2, <5>2
            <4> QED  BY <4>1, <4>2
        <3> QED  BY <3>1 DEF Steady
    <2> QED  BY <2>1, <2>3, <2>4, <2>5 DEF KeyInv, OwnRowsInOrder
<1> QED
    BY <1>8, <1>9, <1>10, <1>11, <1>12 DEF KeyInv

\* A killed process starts again with a new generator and nothing sent.
LEMMA KillOrders ==
    ASSUME SoundInv, KeyInv, NEW d \in Clients, Kill(d)
    PROVE  KeyInv'
<1>1. /\ sent' = [sent EXCEPT ![d] = <<>>]
      /\ lastPush' = [lastPush EXCEPT ![d] = FirstPush]
      /\ allMessages' = [s \in Screens |-> IF Owner[s] = d THEN <<>> ELSE allMessages[s]]
      /\ issued' = issued /\ queued' = [queued EXCEPT ![d] = <<>>]
    BY DEF Kill, DB!Kill
<1>2. sent \in [Clients -> Seq(Writes)] /\ lastPush \in [Clients -> PushStates] /\ DOMAIN queued = Clients
    BY DEF KeyInv, KeyTypes, SoundInv, AppInv
<1>3. /\ sent'[d] = <<>> /\ DOMAIN sent'[d] = {} /\ <<>> \in Seq(Writes)
      /\ \A c \in Clients : c # d => /\ sent'[c] = sent[c] /\ lastPush'[c] = lastPush[c]
                                     /\ queued'[c] = queued[c]
    BY <1>1, <1>2, EmptySeq
<1>4. KeyTypes'
    BY <1>1, <1>2, <1>3, FirstPushType DEF KeyTypes
<1>5. SentInv'
    <2> SUFFICES ASSUME NEW c \in Clients, NEW m \in DOMAIN sent'[c]
                 PROVE  \E v : v = sent'[c][m] /\ Writer[v] = c /\ Sent(v)'
        BY DEF SentInv, Sent
    <2>1. c # d /\ sent'[c] = sent[c] /\ queued'[c] = queued[c]
        BY <1>3
    <2>2. PICK v : v = sent[c][m] /\ Writer[v] = c /\ Sent(v)
        BY <2>1 DEF KeyInv, SentInv
    <2>3. Sent(v)'
        BY <1>1, <2>1, <2>2 DEF Sent
    <2> QED  BY <2>1, <2>2, <2>3
<1>6. LastInv'
    BY <1>3 DEF KeyInv, LastInv
<1>7. AscendInv'
    BY <1>3 DEF KeyInv, AscendInv, Steady
<1>8. OwnRowsInOrder'
    <2> SUFFICES ASSUME NEW c \in Clients, NEW m \in DOMAIN sent'[c], NEW n \in DOMAIN sent'[c],
                        m < n, Steady(c, m, n)', NEW t \in Screens,
                        NEW i \in DOMAIN allMessages'[t], NEW j \in DOMAIN allMessages'[t], i < j,
                        allMessages'[t][i] = sent'[c][n], allMessages'[t][j] = sent'[c][m]
                 PROVE  FALSE
        BY DEF OwnRowsInOrder
    <2>1. c # d /\ sent'[c] = sent[c]
        BY <1>3
    <2>2. allMessages'[t] = allMessages[t]
        BY <1>1
    <2>3. Steady(c, m, n)
        BY <2>1 DEF Steady
    <2> QED  BY <2>1, <2>2, <2>3 DEF KeyInv, OwnRowsInOrder
<1> QED
    BY <1>4, <1>5, <1>6, <1>7, <1>8 DEF KeyInv

\* Every step keeps what is known of the keys.
LEMMA NextKeepsKeys == SoundInv /\ KeyInv /\ [Next]_vars => KeyInv'
<1> SUFFICES ASSUME SoundInv, KeyInv, [Next]_vars PROVE KeyInv'
    OBVIOUS
<1>1. CASE \E c \in Clients : Kill(c)
    BY <1>1, KillOrders
<1>2. CASE \E w \in Writes : SendAction(w)
    BY <1>2, SendActionOrders
<1>3. CASE (\E s \in Screens : UsersModelsSetup(s)) /\ \A c \in Clients : ~Kill(c)
    <2>1. UNCHANGED keyVars
        BY <1>3 DEF UsersModelsSetup
    <2> QED  BY <1>3, <2>1, KeysQuiet, UsersModelsSetupOrders DEF KeyInv
<1>4. CASE /\ \/ \E s \in Screens : ViewDidLoad(s) \/ RunObserve(s)
              \/ \E w \in Writes : RunSetValue(w)
              \/ Synchronise
              \/ UNCHANGED vars
           /\ \A c \in Clients : ~Kill(c)
    <2>1. UNCHANGED keyVars /\ allMessages' = allMessages
        BY <1>4 DEF ViewDidLoad, RunObserve, RunSetValue, Synchronise, vars
    <2>2. OwnRowsInOrder'
        BY <2>1 DEF KeyInv, OwnRowsInOrder, Steady, keyVars
    <2> QED  BY <1>4, <2>1, <2>2, KeysQuiet DEF KeyInv
<1> QED
    BY <1>1, <1>2, <1>3, <1>4 DEF Next

\* Nothing has been sent at first.
LEMMA InitKeys == Init => KeyInv
<1> SUFFICES ASSUME Init PROVE KeyInv
    OBVIOUS
<1>1. /\ sent = [c \in Clients |-> <<>>] /\ lastPush = [c \in Clients |-> FirstPush]
      /\ <<>> \in Seq(Writes)
    BY EmptySeq DEF Init
<1>2. \A c \in Clients : sent[c] = <<>> /\ DOMAIN sent[c] = {}
    BY <1>1
<1>3. KeyTypes
    BY <1>1, FirstPushType DEF KeyTypes
<1> QED
    BY <1>2, <1>3 DEF KeyInv, SentInv, LastInv, AscendInv, OwnRowsInOrder

\* What is known of the keys always holds.
THEOREM KeysSound == Spec => []KeyInv
<1> QED
    BY InitKeys, NextKeepsKeys, Soundness, PTL DEF Spec

\* On every table of ChatDetailVC, on either side, the messages of a process stand in the
\* order in which send_action sent them, for any number of messages, devices and
\* screens and any width of the keys, as long as the clock that childByAutoId reads
\* does not go back between them and FNextPushId.get does not run out of digits in one
\* millisecond.
THEOREM SentInOrder == Spec => []OwnRowsInOrder
<1>1. KeyInv => OwnRowsInOrder
    BY DEF KeyInv
<1> QED
    BY <1>1, KeysSound, PTL

\* The invariants say at least what the type invariant says.
LEMMA SoundIsTyped == SoundInv /\ KeyTypes => TypeOK
<1> SUFFICES ASSUME SoundInv, KeyTypes PROVE TypeOK
    OBVIOUS
<1>1. In(issued) \subseteq Writes
    BY DEF SoundInv, SdkInv, In
<1>2. \A l : Snapshots(In(issued), l) \subseteq DataIn(l)
    BY <1>1 DEF Snapshots, DataIn
<1>3. \A s \in Screens : events[s] \in Seq(DataIn(Looks[s]))
    BY <1>2, SeqMonotonic DEF SoundInv, SdkInv
<1> QED
    BY <1>3 DEF TypeOK, SoundInv, SdkInv, AppInv, KeyTypes

\* The state of the screens, the SDK and the key generators is well typed; only loaded
\* screens observe, and only calls of the running process wait for its queue.
THEOREM TypeCorrect == Spec => []TypeOK
<1>1. SoundInv /\ KeyInv => TypeOK
    BY SoundIsTyped DEF KeyInv, KeyTypes
<1> QED
    BY <1>1, Soundness, KeysSound, PTL
===============================================================================
