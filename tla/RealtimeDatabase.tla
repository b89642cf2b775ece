--------------------------- MODULE RealtimeDatabase ---------------------------
(***************************************************************************)
(* The Realtime Database client the app is built on: FRepo, FSyncTree and  *)
(* FPersistentConnection of every running copy of the app, the connections *)
(* and the server (the one part that is not in the repository).            *)
(*                                                                         *)
(* All of the SDK runs on one serial queue per process, so each handler of *)
(* that queue is one action.  The SDK keeps every put until the server has *)
(* answered it and sends it again after a reconnect; it holds an answer    *)
(* back while a listen is unanswered, because until then its copy of the   *)
(* server's data may be older than the answer.                             *)
(***************************************************************************)
EXTENDS SyncTree, Integers, SequencesExt

CONSTANTS
    MaxDisconnects, \* bound: connections lost
    MaxKills,       \* bound: processes killed
    MaxLog,         \* bound of Replica only; never reached here
    Scenes          \* the instances to explore, one at a time: the clients that
                    \* run, the screens and the writes there are, and whether a
                    \* process may be killed

ASSUME BoundsAssumption == MaxDisconnects \in Nat /\ MaxKills \in Nat /\ MaxLog \in Nat

ASSUME ScenesAssumption ==
    \A s \in Scenes : /\ s.clients \subseteq Clients /\ s.screens \subseteq Screens
                      /\ s.writes \subseteq Writes /\ s.kills \in BOOLEAN

VARIABLES
    connectionState,     \* FPersistentConnection.connectionState
    listens,             \* FPersistentConnection.listens
    unackedListensCount, \* listens sent and not answered
    outstandingPuts,     \* puts not answered, in index order
    putsToAck,           \* answers held back, oldest first
    acking,              \* the clients whose queue is inside ackPuts
    serverCache,         \* FSyncTree: the server's data of a location
    allWrites,           \* FWriteTree.allWrites
    issued,              \* the setValue calls made so far, in order
    observing,           \* screens registered with addEventRegistration
    events,              \* snapshots dispatched to the main queue
    shown,               \* the last snapshot a screen was given
    toServer, toClient,  \* the two directions of the connection
    served,              \* server: the listens of the connection
    log,                 \* server: the writes applied, in order
    cachePos,            \* history: the prefix of log serverCache shows
    faults,              \* connections lost and processes killed so far
    scene                \* never changes

connectionVars == <<connectionState, listens, unackedListensCount,
                    outstandingPuts, putsToAck, acking>>
syncVars == <<serverCache, allWrites, issued, observing, cachePos>>
screenVars == <<events, shown>>
networkVars == <<toServer, toClient, served, log, faults, scene>>
vars == <<connectionVars, syncVars, screenVars, networkVars>>

NotSynced == -1     \* history: no snapshot of the location has arrived

States == {"Disconnected", "Connecting", "Authenticating", "Connected"}

Requests ==
    [type : {"auth"}] \cup [type : {"listen"}, loc : Locations]
                      \cup [type : {"put"}, w : Writes]

Messages ==
    [type : {"authOk"}] \cup [type : {"listenOk"}, loc : Locations]
    \cup [type : {"put"}, w : Writes, ok : BOOLEAN]
    \cup [type : {"update"}, w : Writes, pos : Nat]
    \cup [type : {"snapshot"}, loc : Locations, pos : Nat,
          data : UNION {DataIn(l) : l \in Locations}]

-------------------------------------------------------------------------------
\* FSyncTree

Complete(c, l) == serverCache[c][l] # NoData

\* The event cache: the server's data under the visible pending writes.
View(c, l) == Layer(serverCache[c][l], allWrites[c])

\* FEventRaiser: the snapshots vs go to the screens that observe (c, l).
RaiseEvents(c, l, vs) ==
    /\ events' = [s \in Screens |->
          IF s \in observing /\ Owner[s] = c /\ Looks[s] = l
          THEN events[s] \o vs ELSE events[s]]
    /\ UNCHANGED shown

\* A sequence of writes without write w.
Without(ws, w) == RemoveFirst(ws, w)

(***************************************************************************)
(* ackWrite: the write is no longer pending, whether it was accepted or is *)
(* reverted, and the screens are told if that changes what they see.       *)
(***************************************************************************)
AckWrite(c, w) ==
    LET l == WriteLoc(w)
    IN  /\ allWrites' = [allWrites EXCEPT ![c] = Without(@, w)]
        /\ RaiseEvents(c, l, IF Complete(c, l)
                             THEN Changed(View(c, l), Layer(serverCache[c][l],
                                                            Without(allWrites[c], w)))
                             ELSE <<>>)
        /\ UNCHANGED <<serverCache, issued, observing, cachePos>>

-------------------------------------------------------------------------------
\* FPersistentConnection

Connected(c) == connectionState[c] \in {"Authenticating", "Connected"}
CanSendWrites(c) == connectionState[c] = "Connected"

\* The client's serial queue can run its next block.
QueueIsFree(c) == c \notin acking

Send(c, ms) == toServer' = [toServer EXCEPT ![c] = @ \o ms]

SendListen(l) == [type |-> "listen", loc |-> l]
SendPut(w) == [type |-> "put", w |-> w]

\* The listens of a dictionary are sent in no particular order.
Orders(S) == {o \in [1 .. Cardinality(S) -> S] : \A x \in S : \E i \in DOMAIN o : o[i] = x}

Resend(c, order, puts) ==
    /\ Send(c, [i \in DOMAIN order |-> SendListen(order[i])]
               \o [i \in DOMAIN puts |-> SendPut(puts[i])])
    /\ unackedListensCount' = [unackedListensCount EXCEPT ![c] = @ + Len(order)]

\* Broken variants of RestoreState: the puts in the wrong order, no puts, no
\* listens, listens that are not counted.
RestoreStateReversed(c) ==
    \E order \in Orders(listens[c]) : Resend(c, order, Reverse(outstandingPuts[c]))
RestoreStateNoPuts(c) == \E order \in Orders(listens[c]) : Resend(c, order, <<>>)
RestoreStateNoListens(c) == Resend(c, <<>>, outstandingPuts[c])
RestoreStateUncounted(c) ==
    /\ \E order \in Orders(listens[c]) :
          Send(c, [i \in DOMAIN order |-> SendListen(order[i])])
    /\ UNCHANGED unackedListensCount

\* Every listen, then every outstanding put in index order, is sent (again).
RestoreState(c) ==
    \E order \in Orders(listens[c]) : Resend(c, order, outstandingPuts[c])

\* Broken variant of HoldsAnswers: an answer is taken as soon as it arrives.
HoldsNothing(c) == FALSE

\* An answer of the server may be newer than the data the client has.
HoldsAnswers(c) == unackedListensCount[c] > 0

Init ==
    /\ connectionState = [c \in Clients |-> "Disconnected"]
    /\ listens = [c \in Clients |-> {}]
    /\ unackedListensCount = [c \in Clients |-> 0]
    /\ outstandingPuts = [c \in Clients |-> <<>>]
    /\ putsToAck = [c \in Clients |-> <<>>]
    /\ acking = {}
    /\ serverCache = [c \in Clients |-> [l \in Locations |-> NoData]]
    /\ allWrites = [c \in Clients |-> <<>>]
    /\ issued = <<>>
    /\ observing = {}
    /\ events = [s \in Screens |-> <<>>]
    /\ shown = [s \in Screens |-> NoData]
    /\ toServer = [c \in Clients |-> <<>>]
    /\ toClient = [c \in Clients |-> <<>>]
    /\ served = [c \in Clients |-> {}]
    /\ log = <<>>
    /\ cachePos = [c \in Clients |-> [l \in Locations |-> NotSynced]]
    /\ faults = [disconnects |-> 0, kills |-> 0]
    /\ scene \in Scenes

-------------------------------------------------------------------------------
\* Calls of the app

\* addEventRegistration: the first one of a location starts a listen, a later
\* one is given the view if the view is complete.
Observe(s) ==
    LET c == Owner[s]
        l == Looks[s]
    IN  /\ QueueIsFree(c)
        /\ s \in scene.screens \ observing
        /\ observing' = observing \cup {s}
        /\ listens' = [listens EXCEPT ![c] = @ \cup {l}]
        /\ events' = [events EXCEPT ![s] =
                IF Complete(c, l) THEN Append(@, View(c, l)) ELSE @]
        /\ IF l \notin listens[c] /\ Connected(c)
           THEN /\ Send(c, <<SendListen(l)>>)
                /\ unackedListensCount' = [unackedListensCount EXCEPT ![c] = @ + 1]
           ELSE UNCHANGED <<toServer, unackedListensCount>>
        /\ UNCHANGED <<connectionState, outstandingPuts, putsToAck, acking, serverCache,
                       allWrites, issued, cachePos, shown, toClient, served,
                       log, faults, scene>>

\* FRepo.set: the write is pending, the screens see it, the put is sent or kept.
SetValue(w) ==
    LET c == Writer[w]
        l == WriteLoc(w)
    IN  /\ QueueIsFree(c)
        /\ w \in scene.writes \ In(issued)
        /\ issued' = Append(issued, w)
        /\ allWrites' = [allWrites EXCEPT ![c] = Append(@, w)]
        /\ RaiseEvents(c, l, IF Complete(c, l)
                             THEN Changed(View(c, l), Layer(serverCache[c][l],
                                                            Append(allWrites[c], w)))
                             ELSE <<>>)
        /\ outstandingPuts' = [outstandingPuts EXCEPT ![c] = Append(@, w)]
        /\ IF CanSendWrites(c) THEN Send(c, <<SendPut(w)>>) ELSE UNCHANGED toServer
        /\ UNCHANGED <<connectionState, listens, unackedListensCount, putsToAck, acking,
                       serverCache, observing, cachePos, toClient, served, log,
                       faults, scene>>

\* The main queue hands a screen its oldest snapshot.
FireEvent(s) ==
    /\ events[s] # <<>>
    /\ shown' = [shown EXCEPT ![s] = Head(events[s])]
    /\ events' = [events EXCEPT ![s] = Tail(@)]
    /\ UNCHANGED <<connectionVars, syncVars, networkVars>>

-------------------------------------------------------------------------------
\* The connection

\* A token has been fetched (or there is none) and the connection is opened.
TryScheduleReconnect(c) ==
    /\ QueueIsFree(c)
    /\ c \in scene.clients /\ connectionState[c] = "Disconnected"
    /\ connectionState' = [connectionState EXCEPT ![c] = "Connecting"]
    /\ UNCHANGED <<listens, unackedListensCount, outstandingPuts, putsToAck, acking,
                   syncVars, screenVars, networkVars>>

\* onReady and restoreAuth, with and without an auth token.
OnReady(c) ==
    /\ QueueIsFree(c)
    /\ connectionState[c] = "Connecting"
    /\ \/ /\ connectionState' = [connectionState EXCEPT ![c] = "Authenticating"]
          /\ Send(c, <<[type |-> "auth"]>>)
          /\ UNCHANGED unackedListensCount
       \/ /\ connectionState' = [connectionState EXCEPT ![c] = "Connected"]
          /\ RestoreState(c)
    /\ UNCHANGED <<listens, outstandingPuts, putsToAck, acking, syncVars, screenVars,
                   toClient, served, log, faults, scene>>

Receive(c, type) ==
    /\ QueueIsFree(c)
    /\ toClient[c] # <<>>
    /\ Head(toClient[c]).type = type
    /\ toClient' = [toClient EXCEPT ![c] = Tail(@)]

OnAuthResponse(c) ==
    /\ Receive(c, "authOk")
    /\ connectionState' = [connectionState EXCEPT ![c] = "Connected"]
    /\ RestoreState(c)
    /\ UNCHANGED <<listens, outstandingPuts, putsToAck, acking, syncVars, screenVars,
                   served, log, faults, scene>>

\* The answer of a listen; the last one releases the answers held back.
OnListenResponse(c) ==
    /\ Receive(c, "listenOk")
    /\ unackedListensCount' = [unackedListensCount EXCEPT ![c] = @ - 1]
    /\ acking' = IF unackedListensCount[c] = 1 /\ putsToAck[c] # <<>>
                 THEN acking \cup {c} ELSE acking
    /\ UNCHANGED <<connectionState, listens, outstandingPuts, putsToAck, syncVars,
                   screenVars, toServer, served, log, faults, scene>>

\* One turn of the loop of ackPuts.
AckPuts(c) ==
    /\ c \in acking
    /\ AckWrite(c, Head(putsToAck[c]).w)
    /\ putsToAck' = [putsToAck EXCEPT ![c] = Tail(@)]
    /\ acking' = IF Len(putsToAck[c]) = 1 THEN acking \ {c} ELSE acking
    /\ UNCHANGED <<connectionState, listens, unackedListensCount, outstandingPuts,
                   networkVars>>

\* The answer of a put, held back while a listen is unanswered.
OnPutResponse(c) ==
    LET m == Head(toClient[c])
    IN  /\ Receive(c, "put")
        /\ outstandingPuts' = [outstandingPuts EXCEPT ![c] = Without(@, m.w)]
        /\ IF HoldsAnswers(c)
           THEN /\ putsToAck' = [putsToAck EXCEPT ![c] = Append(@, [w |-> m.w, ok |-> m.ok])]
                /\ UNCHANGED <<syncVars, screenVars>>
           ELSE AckWrite(c, m.w) /\ UNCHANGED putsToAck
        /\ UNCHANGED <<connectionState, listens, unackedListensCount, acking, toServer,
                       served, log, faults, scene>>

\* Server data for one location: the whole of it, or one child.
ApplyServerData(c, l, data, pos) ==
    /\ serverCache' = [serverCache EXCEPT ![c][l] = data]
    /\ cachePos' = [cachePos EXCEPT ![c][l] = pos]
    /\ LET new == Layer(data, allWrites[c])
       IN  RaiseEvents(c, l, IF Complete(c, l) THEN Changed(View(c, l), new)
                                               ELSE <<new>>)
    /\ UNCHANGED <<allWrites, issued, observing, connectionVars, toServer,
                   served, log, faults, scene>>

OnSnapshot(c) ==
    LET m == Head(toClient[c])
    IN  /\ Receive(c, "snapshot")
        /\ ApplyServerData(c, m.loc, m.data, m.pos)

OnUpdate(c) ==
    LET m == Head(toClient[c])
        l == WriteLoc(m.w)
    IN  /\ Receive(c, "update")
        /\ ApplyServerData(c, l, [serverCache[c][l] EXCEPT ![KeyOf[m.w]] = m.w], m.pos)

(***************************************************************************)
(* onDisconnect: the requests' callbacks and the count of unanswered       *)
(* listens are forgotten, the puts and the answers held back are not.      *)
(***************************************************************************)
OnDisconnect(c) ==
    /\ QueueIsFree(c)
    /\ connectionState[c] # "Disconnected"
    /\ faults.disconnects < MaxDisconnects
    /\ faults' = [faults EXCEPT !.disconnects = @ + 1]
    /\ connectionState' = [connectionState EXCEPT ![c] = "Disconnected"]
    /\ unackedListensCount' = [unackedListensCount EXCEPT ![c] = 0]
    /\ toServer' = [toServer EXCEPT ![c] = <<>>]
    /\ toClient' = [toClient EXCEPT ![c] = <<>>]
    /\ served' = [served EXCEPT ![c] = {}]
    /\ UNCHANGED <<listens, outstandingPuts, putsToAck, acking, syncVars, screenVars, log,
                   scene>>

\* The process is killed: the app enables no disk persistence.
Kill(c) ==
    /\ c \in scene.clients /\ scene.kills /\ faults.kills < MaxKills
    /\ faults' = [faults EXCEPT !.kills = @ + 1]
    /\ connectionState' = [connectionState EXCEPT ![c] = "Disconnected"]
    /\ listens' = [listens EXCEPT ![c] = {}]
    /\ unackedListensCount' = [unackedListensCount EXCEPT ![c] = 0]
    /\ outstandingPuts' = [outstandingPuts EXCEPT ![c] = <<>>]
    /\ putsToAck' = [putsToAck EXCEPT ![c] = <<>>]
    /\ acking' = acking \ {c}
    /\ serverCache' = [serverCache EXCEPT ![c] = [l \in Locations |-> NoData]]
    /\ allWrites' = [allWrites EXCEPT ![c] = <<>>]
    /\ observing' = {s \in observing : Owner[s] # c}
    /\ events' = [s \in Screens |-> IF Owner[s] = c THEN <<>> ELSE events[s]]
    /\ shown' = [s \in Screens |-> IF Owner[s] = c THEN NoData ELSE shown[s]]
    /\ toServer' = [toServer EXCEPT ![c] = <<>>]
    /\ toClient' = [toClient EXCEPT ![c] = <<>>]
    /\ served' = [served EXCEPT ![c] = {}]
    /\ cachePos' = [cachePos EXCEPT ![c] = [l \in Locations |-> NotSynced]]
    /\ UNCHANGED <<issued, log, scene>>

-------------------------------------------------------------------------------
\* The server (external): it answers a connection's requests in order.

Serve(c, type) ==
    /\ toServer[c] # <<>>
    /\ Head(toServer[c]).type = type
    /\ toServer' = [toServer EXCEPT ![c] = Tail(@)]
    /\ UNCHANGED <<connectionVars, syncVars, screenVars, faults, scene>>

ServeAuth(c) ==
    /\ Serve(c, "auth")
    /\ toClient' = [toClient EXCEPT ![c] = Append(@, [type |-> "authOk"])]
    /\ UNCHANGED <<served, log>>

\* The data of the location, then the answer.
ServeListen(c) ==
    LET l == Head(toServer[c]).loc
    IN  /\ Serve(c, "listen")
        /\ served' = [served EXCEPT ![c] = @ \cup {l}]
        /\ toClient' = [toClient EXCEPT ![c] = @ \o
                <<[type |-> "snapshot", loc |-> l, pos |-> Len(log),
                   data |-> DataAt(log, Len(log), l)],
                  [type |-> "listenOk", loc |-> l]>>]
        /\ UNCHANGED log

\* An accepted write goes to every listening connection, then the answer to
\* the writer; a refused one is only answered.
ServePut(c) ==
    LET w == Head(toServer[c]).w
        update == [type |-> "update", w |-> w, pos |-> Len(log) + 1]
        answer(ok) == [type |-> "put", w |-> w, ok |-> ok]
    IN  /\ Serve(c, "put")
        /\ UNCHANGED served
        /\ \/ /\ log' = Append(log, w)
              /\ toClient' = [d \in Clients |-> toClient[d]
                    \o (IF WriteLoc(w) \in served[d] THEN <<update>> ELSE <<>>)
                    \o (IF d = c THEN <<answer(TRUE)>> ELSE <<>>)]
           \/ /\ toClient' = [toClient EXCEPT ![c] = Append(@, answer(FALSE))]
              /\ UNCHANGED log

-------------------------------------------------------------------------------
ServerStep(c) == ServeAuth(c) \/ ServeListen(c) \/ ServePut(c)

ClientStep(c) ==
    \/ TryScheduleReconnect(c) \/ OnReady(c) \/ OnAuthResponse(c)
    \/ OnListenResponse(c) \/ AckPuts(c) \/ OnPutResponse(c) \/ OnSnapshot(c) \/ OnUpdate(c)

Next ==
    \/ \E s \in Screens : Observe(s) \/ FireEvent(s)
    \/ \E w \in Writes : SetValue(w)
    \/ \E c \in Clients :
          ClientStep(c) \/ ServerStep(c) \/ OnDisconnect(c) \/ Kill(c)

(***************************************************************************)
(* The SDK's queue, the main queue, the retry timer and the server keep    *)
(* going; nothing makes the user open a screen, or a connection fail.      *)
(***************************************************************************)
Fairness ==
    /\ \A c \in Clients : WF_vars(ClientStep(c)) /\ WF_vars(ServerStep(c))
    /\ \A s \in Screens : WF_vars(FireEvent(s))

Spec == Init /\ [][Next]_vars /\ Fairness

-------------------------------------------------------------------------------
\* Properties

\* The type of every piece of state of the SDK, the connections and the server.
TypeOK ==
    /\ connectionState \in [Clients -> States]
    /\ listens \in [Clients -> SUBSET Locations]
    /\ unackedListensCount \in [Clients -> Nat]
    /\ outstandingPuts \in [Clients -> Seq(Writes)]
    /\ putsToAck \in [Clients -> Seq([w : Writes, ok : BOOLEAN])]
    /\ acking \subseteq Clients
    /\ \A c \in Clients, l \in Locations :
          serverCache[c][l] \in DataIn(l) \cup {NoData}
    /\ allWrites \in [Clients -> Seq(Writes)]
    /\ issued \in Seq(Writes)
    /\ observing \subseteq Screens
    /\ \A s \in Screens : /\ events[s] \in Seq(DataIn(Looks[s]))
                          /\ shown[s] \in DataIn(Looks[s]) \cup {NoData}
    /\ \A c \in Clients : toServer[c] \in Seq(Requests)
    /\ \A c \in Clients : toClient[c] \in Seq(Messages)
    /\ served \in [Clients -> SUBSET Locations]
    /\ log \in Seq(Writes)
    /\ cachePos \in [Clients -> [Locations -> Nat \cup {NotSynced}]]
    /\ faults \in [disconnects : 0 .. MaxDisconnects, kills : 0 .. MaxKills]

R == INSTANCE Replica WITH pending <- allWrites, pos <- cachePos,
                           kills <- faults.kills

(***************************************************************************)
(* The SDK keeps the promise Replica states, through lost connections,     *)
(* resent puts, answers held back and processes killed: what an observer   *)
(* is given is always a prefix of the server's log, which only grows,      *)
(* under the client's own unsettled writes.                                *)
(***************************************************************************)
ImplementsReplica == R!Spec

\* Position of the last time the server applied write w, 0 if it never did.
LastApplied(w) ==
    IF {i \in DOMAIN log : log[i] = w} = {} THEN 0
    ELSE Latest({i \in DOMAIN log : log[i] = w})

Before(v, w) == \E i, j \in DOMAIN issued : i < j /\ issued[i] = v /\ issued[j] = w

(***************************************************************************)
(* Resending never reorders a client's writes: when the SDK is told that a *)
(* write was accepted, no earlier write of the same client has been        *)
(* applied over it, however often the two were sent.                       *)
(***************************************************************************)
AcceptedWriteIsOnTop ==
    [][\A c \in Clients : \A v, w \in Writes :
          /\ w \in In(outstandingPuts[c]) \ In(outstandingPuts'[c])
          /\ toClient[c] # <<>>
          /\ Head(toClient[c]) = [type |-> "put", w |-> w, ok |-> TRUE]
          /\ Writer[v] = c /\ Before(v, w)
          => LastApplied(v) < LastApplied(w)]_vars

(***************************************************************************)
(* No put is forgotten: a pending write is waiting to be answered, or its  *)
(* answer is held back by a listen that is on its way or will be sent      *)
(* again when the connection is back (onDisconnect keeps putsToAck).       *)
(***************************************************************************)
PendingIsTracked ==
    \A c \in Clients :
        /\ In(allWrites[c]) = In(outstandingPuts[c])
                              \cup {p.w : p \in In(putsToAck[c])}
        /\ putsToAck[c] # <<>> =>
              \/ unackedListensCount[c] > 0 \/ c \in acking
              \/ /\ listens[c] # {}
                 /\ connectionState[c] \notin {"Connected"}

\* Every write is settled in the end: the screens stop showing a guess.
WritesSettle ==
    \A w \in Writes :
        w \in In(allWrites[Writer[w]]) ~> w \notin In(allWrites[Writer[w]])

\* Every open screen ends up showing exactly the server's data.
ScreensConverge ==
    <>[](\A s \in observing : shown[s] = DataAt(log, Len(log), Looks[s]))
===============================================================================
