------------------------------ MODULE ChatDetail ------------------------------
(***************************************************************************)
(* The conversation screens (ChatDetailVC) of every running copy of the    *)
(* app, on top of what the Realtime Database SDK promises (Replica).       *)
(*                                                                         *)
(* A screen shows the messages between its two e-mails.  send_action puts  *)
(* the message in the table by itself and also hands it to the SDK; every  *)
(* snapshot of "messages" replaces the table.  The calls into the SDK are  *)
(* blocks on the SDK's queue, the snapshots are blocks on the main queue,  *)
(* so a tap can fall between a snapshot's making and its arrival.          *)
(*                                                                         *)
(* Nothing ever removes a screen or its observer: the back button presents *)
(* a new tab bar on top of it.                                             *)
(***************************************************************************)
EXTENDS SyncTree, PushId

CONSTANTS
    MaxLog, MaxKills,   \* bounds, see Replica
    MaxSent,    \* bound: messages sent
    My,         \* the e-mail of the account a screen was opened with
    Peer,       \* the e-mail of the person on the other side
    SentOn,     \* the screen on which a message is typed
    Pushed      \* what FNextPushId keeps once it has given a message its key

(***************************************************************************)
(* Keys of messages come from childByAutoId: different for different       *)
(* messages, and in the order of the characters FNextPushId puts together. *)
(* KeyOf is a key's place in that order.  Which key a message gets is      *)
(* fixed beforehand; send_action takes place only if the generator can     *)
(* give it that key.                                                       *)
(***************************************************************************)
ASSUME ChatAssumption ==
    /\ Keys \subseteq Nat
    /\ IsFiniteSet(Writes)
    /\ SentOn \in [Writes -> Screens]
    /\ DOMAIN My = Screens /\ DOMAIN Peer = Screens
    /\ \A w \in Writes : /\ Writer[w] = Owner[SentOn[w]]
                         /\ WriteLoc(w) = Looks[SentOn[w]]
    /\ \A v, w \in Writes : KeyOf[v] = KeyOf[w] => v = w
    /\ Pushed \in [Writes -> [time : 1 .. LastTime, rand : Rands]]
    /\ \A v, w \in Writes :
          KeyOf[v] < KeyOf[w] <=> Earlier(Key(Pushed[v]), Key(Pushed[w]))

VARIABLES
    log, issued, pending, pos, observing, events, kills,    \* the SDK
    opened,         \* the screens that have been loaded
    allMessages,    \* per screen: the rows of its table
    queued,         \* per client: calls waiting for the SDK's queue
    lastPush,       \* per client: lastPushTime and lastRandChars of its process
    sent            \* per client: what its process has sent, in order (a history,
                    \* read by the properties only)

sdkVars == <<log, issued, pending, pos, observing, events, kills>>
keyVars == <<lastPush, sent>>
vars == <<sdkVars, opened, allMessages, queued, keyVars>>

DB == INSTANCE Replica

\* Broken variant of InConversation: only the messages of the account itself.
InConversationOneWay(s, w) == My[SentOn[w]] = My[s] /\ Peer[SentOn[w]] = Peer[s]

\* The message w is between the two e-mails of screen s, in either direction.
InConversation(s, w) ==
    LET from == My[SentOn[w]]
        to == Peer[SentOn[w]]
    IN  \/ from = My[s] /\ to = Peer[s]
        \/ from = Peer[s] /\ to = My[s]

\* The messages of screen s in snapshot d.
Conversation(s, d) ==
    {w \in Writes : KeyOf[w] \in DOMAIN d /\ d[KeyOf[w]] = w /\ InConversation(s, w)}

Rows == UNION {[1 .. n -> Writes] : n \in 0 .. Cardinality(Writes)}

\* The set S of messages as a table: each once, by key.
IsTable(S, rows) ==
    /\ In(rows) = S
    /\ \A i, j \in DOMAIN rows : i < j => KeyOf[rows[i]] < KeyOf[rows[j]]

ObserveCall(s) == [call |-> "observe", screen |-> s]
SetCall(w) == [call |-> "setValue", message |-> w]

Init ==
    /\ DB!Init
    /\ opened = {}
    /\ allMessages = [s \in Screens |-> <<>>]
    /\ queued = [c \in Clients |-> <<>>]
    /\ lastPush = [c \in Clients |-> FirstPush]
    /\ sent = [c \in Clients |-> <<>>]

\* Broken variant of ViewDidLoad: observe is called before the view is there.
ViewDidLoadEarly(s) ==
    /\ ObserveCall(s) \notin In(queued[Owner[s]]) /\ s \notin observing
    /\ queued' = [queued EXCEPT ![Owner[s]] = Append(@, ObserveCall(s))]
    /\ UNCHANGED <<sdkVars, opened, allMessages, keyVars>>

\* The segue to the screen: viewDidLoad calls usersModelsSetup.
ViewDidLoad(s) ==
    /\ s \notin opened
    /\ opened' = opened \cup {s}
    /\ queued' = [queued EXCEPT ![Owner[s]] = Append(@, ObserveCall(s))]
    /\ UNCHANGED <<sdkVars, allMessages, keyVars>>

Sent(w) == w \in In(issued) \/ SetCall(w) \in In(queued[Writer[w]])

\* Broken variant of SendAction: the message is only put in the table.
SendActionLocalOnly(w) ==
    /\ SentOn[w] \in opened
    /\ w \notin In(allMessages[SentOn[w]])
    /\ allMessages' = [allMessages EXCEPT ![SentOn[w]] = Append(@, w)]
    /\ UNCHANGED <<sdkVars, opened, queued, keyVars>>

\* childByAutoId: the generator gives message w its key, whatever the clock shows
\* and arc4random yields.  (Posts, news and subjects made on the phone take keys of
\* the same generator; only the messages' calls are modelled.)
ChildByAutoId(w) ==
    \E call \in PushCalls :
        /\ Get(lastPush[Writer[w]], call) = Pushed[w]
        /\ lastPush' = [lastPush EXCEPT ![Writer[w]] = Get(@, call)]

\* The message gets a key and goes to the SDK's queue and, at once, to the end of
\* the table.
SendAction(w) ==
    LET s == SentOn[w]
    IN  /\ s \in opened
        /\ ~Sent(w)
        /\ Cardinality({v \in Writes : Sent(v)}) < MaxSent
        /\ ChildByAutoId(w)
        /\ sent' = [sent EXCEPT ![Owner[s]] = Append(@, w)]
        /\ queued' = [queued EXCEPT ![Owner[s]] = Append(@, SetCall(w))]
        /\ allMessages' = [allMessages EXCEPT ![s] = Append(@, w)]
        /\ UNCHANGED <<sdkVars, opened>>

\* Broken variant of UsersModelsSetup: without removeAll.
UsersModelsSetupNoClear(s) ==
    /\ DB!FireEvent(s)
    /\ \E rows \in Rows :
          /\ IsTable(Conversation(s, Head(events[s])), rows)
          /\ allMessages' = [allMessages EXCEPT ![s] = @ \o rows]
    /\ UNCHANGED <<opened, queued, keyVars>>

\* The block given to observe: the table is filled again from the snapshot.
UsersModelsSetup(s) ==
    /\ DB!FireEvent(s)
    /\ \E rows \in Rows :
          /\ IsTable(Conversation(s, Head(events[s])), rows)
          /\ allMessages' = [allMessages EXCEPT ![s] = rows]
    /\ UNCHANGED <<opened, queued, keyVars>>

\* The SDK's queue runs the oldest call of the app.
RunObserve(s) ==
    LET c == Owner[s]
    IN  /\ queued[c] # <<>>
        /\ Head(queued[c]) = ObserveCall(s)
        /\ queued' = [queued EXCEPT ![c] = Tail(@)]
        /\ DB!Observe(s)
        /\ UNCHANGED <<opened, allMessages, keyVars>>

RunSetValue(w) ==
    LET c == Writer[w]
    IN  /\ queued[c] # <<>>
        /\ Head(queued[c]) = SetCall(w)
        /\ queued' = [queued EXCEPT ![c] = Tail(@)]
        /\ DB!SetValue(w)
        /\ UNCHANGED <<opened, allMessages, keyVars>>

\* The connection and the server at work.
Synchronise ==
    /\ \/ \E w \in Writes : DB!Apply(w)
       \/ \E c \in Clients : DB!Settle(c)
       \/ \E c \in Clients, l \in Locations : \E n \in 0 .. Len(log) : DB!Advance(c, l, n)
    /\ UNCHANGED <<opened, allMessages, queued, keyVars>>

\* The process is killed; messages not yet on the server are gone.
Kill(c) ==
    /\ DB!Kill(c)
    /\ opened' = {s \in opened : Owner[s] # c}
    /\ allMessages' = [s \in Screens |-> IF Owner[s] = c THEN <<>> ELSE allMessages[s]]
    /\ queued' = [queued EXCEPT ![c] = <<>>]
    /\ lastPush' = [lastPush EXCEPT ![c] = FirstPush]
    /\ sent' = [sent EXCEPT ![c] = <<>>]

Next ==
    \/ \E s \in Screens : ViewDidLoad(s) \/ UsersModelsSetup(s) \/ RunObserve(s)
    \/ \E w \in Writes : SendAction(w) \/ RunSetValue(w)
    \/ Synchronise
    \/ \E c \in Clients : Kill(c)

Spec == Init /\ [][Next]_vars

(***************************************************************************)
(* Both queues, the connections and the server keep going: none of them    *)
(* stays able to go on without doing so, and a client that observes a      *)
(* location is brought up to date.  Nothing makes a user open a screen or  *)
(* send a message.  Each line follows from WF_vars of the actions it       *)
(* stands for, and TLC evaluates it without ENABLED.                       *)
(***************************************************************************)
Advances(c) ==
    \E l \in Locations : DB!Listening(c, l) /\ Len(log) > pos[c][l]

Settles(c) ==
    LET w == Head(pending[c])  l == WriteLoc(w)
    IN  /\ pending[c] # <<>>
        /\ w \in In(log) => DB!Includes(pos[c][l], w) \/ ~DB!Listening(c, l)

FairSpec ==
    /\ Spec
    /\ \A s \in Screens : <>[](events[s] # <<>>) => []<><<TRUE>>_events
    /\ \A c \in Clients :
          /\ <>[](queued[c] # <<>>) => []<><<TRUE>>_(queued[c])
          /\ <>[]Settles(c) => []<><<TRUE>>_(pending[c])
          /\ <>[]Advances(c) => []<><<TRUE>>_(pos[c])

-------------------------------------------------------------------------------
\* Properties

Calls(c) ==
    {ObserveCall(s) : s \in {t \in opened : Owner[t] = c}}
    \cup {SetCall(w) : w \in {v \in Writes : Writer[v] = c}}

\* The type of every piece of state; only loaded screens observe, and only
\* the calls of the running process wait for its queue.
TypeOK ==
    /\ log \in Seq(Writes)
    /\ issued \in Seq(Writes)
    /\ pending \in [Clients -> Seq(Writes)]
    /\ pos \in [Clients -> [Locations -> Nat \cup {DB!NotSynced}]]
    /\ observing \subseteq opened
    /\ opened \subseteq Screens
    /\ DOMAIN events = Screens
    /\ \A s \in Screens : events[s] \in Seq(DataIn(Looks[s]))
    /\ kills \in Nat
    /\ allMessages \in [Screens -> Seq(Writes)]
    /\ DOMAIN queued = Clients
    /\ \A c \in Clients : queued[c] \in Seq(Calls(c))
    /\ lastPush \in [Clients -> PushStates]
    /\ sent \in [Clients -> Seq(Writes)]

Between(s, w) == {My[SentOn[w]], Peer[SentOn[w]]} = {My[s], Peer[s]}

(***************************************************************************)
(* A table never shows a message twice, although send_action and the       *)
(* observer both put it there, and never one of another conversation.      *)
(***************************************************************************)
RowsAreSound ==
    \A s \in Screens :
        /\ \A i \in DOMAIN allMessages[s] : Between(s, allMessages[s][i])
        /\ \A i, j \in DOMAIN allMessages[s] :
              allMessages[s][i] = allMessages[s][j] => i = j

\* Screen s has been given every snapshot and every message it sent is with
\* the SDK.
UpToDate(s) ==
    /\ s \in observing
    /\ DB!Synced(Owner[s], Looks[s])
    /\ events[s] = <<>>
    /\ \A w \in Writes : SentOn[w] = s => SetCall(w) \notin In(queued[Owner[s]])

(***************************************************************************)
(* Whatever taps, snapshots and answers came in which order, a table with  *)
(* nothing left to come is the conversation in the SDK's view, by key: the *)
(* rows send_action put there itself have been replaced or taken back.     *)
(***************************************************************************)
TableMatchesView ==
    \A s \in Screens : UpToDate(s) =>
        LET d == DB!View(Owner[s], Looks[s])
        IN  IsTable({w \in Writes : KeyOf[w] \in DOMAIN d /\ d[KeyOf[w]] = w /\ Between(s, w)},
                    allMessages[s])

(***************************************************************************)
(* A snapshot made before the tap takes the new row off the table again.   *)
(* Then either the row is on its way back (a snapshot that contains it is  *)
(* in the main queue, or setValue has yet to run) or the server refused    *)
(* the message.                                                            *)
(***************************************************************************)
VanishedRowReturns ==
    [][\A s \in Screens : \A w \in Writes :
          /\ w \in In(allMessages[s]) /\ w \notin In(allMessages'[s])
          /\ s \in opened'
          => \/ SetCall(w) \in In(queued'[Writer[w]])
             \/ \E i \in DOMAIN events'[s] : events'[s][i][KeyOf[w]] = w
             \/ /\ w \in In(issued')
                /\ w \notin In(log') /\ w \notin In(pending'[Writer[w]])]_vars

\* The key of w, the next one after v's in their process, was asked for when the
\* clock had not gone back and a digit was left to count up.
InTime(v, w) ==
    /\ Pushed[v].time <= Pushed[w].time
    /\ Pushed[v].time = Pushed[w].time => CarryStop(Pushed[v].rand) # 0

\* The clock did not go back, and the digits lasted, while the process of client c
\* sent its messages m to n.
Steady(c, m, n) == \A k \in m .. n - 1 : InTime(sent[c][k], sent[c][k + 1])

(***************************************************************************)
(* On no table, of either side and at no moment, does a message stand      *)
(* below a later one of the same process, whether send_action put the rows *)
(* there or a snapshot did, and however many of them fell into one         *)
(* millisecond: the keys that FNextPushId.get gave them sort as they were  *)
(* sent.  This is not promised when the phone's clock went back in between *)
(* or the digits of one millisecond were used up, nor of messages sent     *)
(* before the process was started again.                                   *)
(***************************************************************************)
OwnRowsInOrder ==
    \A c \in Clients : \A m, n \in DOMAIN sent[c] :
        m < n /\ Steady(c, m, n) =>
            ~\E s \in Screens : \E i, j \in DOMAIN allMessages[s] :
                /\ i < j
                /\ allMessages[s][i] = sent[c][n]
                /\ allMessages[s][j] = sent[c][m]

\* In the end every open table shows exactly its conversation on the server.
TablesConverge ==
    <>[](\A s \in opened :
            LET d == DataAt(log, Len(log), Looks[s])
            IN  IsTable({w \in Writes : KeyOf[w] \in DOMAIN d /\ d[KeyOf[w]] = w /\ Between(s, w)},
                        allMessages[s]))
===============================================================================
