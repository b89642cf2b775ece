-------------------------------- MODULE Replica --------------------------------
(***************************************************************************)
(* What the Realtime Database SDK promises to the app.                     *)
(*                                                                         *)
(* The server holds one log of applied writes.  A client sees each         *)
(* location as it was after some prefix of that log, a prefix that only    *)
(* grows, with the client's own pending writes laid over it.  A write is   *)
(* pending from setValue until the client either sees it in the server's   *)
(* data or knows that the server refused it: a message that was sent never *)
(* blinks out of the sender's view while it is on its way.  Writes are     *)
(* settled in the order in which they were made, and snapshots reach the   *)
(* screens in the order in which the views changed.                        *)
(*                                                                         *)
(* RealtimeDatabase implements this specification.                         *)
(***************************************************************************)
EXTENDS SyncTree, Integers

CONSTANTS
    MaxLog,     \* bound: writes the server applies, repeats included
    MaxKills    \* bound: how often the processes are killed

NotSynced == -1     \* no snapshot of the location has arrived yet

VARIABLES
    log,        \* the writes the server has applied, in order
    issued,     \* the setValue calls made so far, in order
    pending,    \* per client: its writes that are not settled, in order
    pos,        \* per client and location: the log prefix it has seen
    observing,  \* the screens that have called observe
    events,     \* per screen: snapshots dispatched to the main queue
    kills

vars == <<log, issued, pending, pos, observing, events, kills>>

Synced(c, l) == pos[c][l] # NotSynced

View(c, l) == Layer(DataAt(log, pos[c][l], l), pending[c])

\* The snapshots vs go to every screen of client c that observes location l.
Raise(c, l, vs) ==
    events' = [s \in Screens |->
        IF s \in observing /\ Owner[s] = c /\ Looks[s] = l
        THEN events[s] \o vs ELSE events[s]]

Init ==
    /\ log = <<>>
    /\ issued = <<>>
    /\ pending = [c \in Clients |-> <<>>]
    /\ pos = [c \in Clients |-> [l \in Locations |-> NotSynced]]
    /\ observing = {}
    /\ events = [s \in Screens |-> <<>>]
    /\ kills = 0

\* A screen registers; if the location is already known it is told at once.
Observe(s) ==
    /\ s \notin observing
    /\ observing' = observing \cup {s}
    /\ events' = [events EXCEPT ![s] =
            IF Synced(Owner[s], Looks[s])
            THEN Append(@, View(Owner[s], Looks[s])) ELSE @]
    /\ UNCHANGED <<log, issued, pending, pos, kills>>

SetValue(w) ==
    LET c == Writer[w]
        l == WriteLoc(w)
    IN  /\ w \notin In(issued)
        /\ issued' = Append(issued, w)
        /\ pending' = [pending EXCEPT ![c] = Append(@, w)]
        /\ Raise(c, l, IF Synced(c, l)
                       THEN Changed(View(c, l), Layer(DataAt(log, pos[c][l], l),
                                                      Append(pending[c], w)))
                       ELSE <<>>)
        /\ UNCHANGED <<log, pos, observing, kills>>

\* The server applies a pending write, possibly again after a reconnect.
Apply(w) ==
    /\ Len(log) < MaxLog
    /\ w \in In(pending[Writer[w]])
    /\ log' = Append(log, w)
    /\ UNCHANGED <<issued, pending, pos, observing, events, kills>>

Listening(c, l) == \E s \in observing : Owner[s] = c /\ Looks[s] = l

Includes(n, w) == \E i \in 1 .. n : log[i] = w

\* The client's own writes that it no longer lays over the data.
Settled(c, l) ==
    {w \in In(issued) : Writer[w] = c /\ WriteLoc(w) = l /\ w \notin In(pending[c])}

\* The client learns the state of a location as of log prefix n: later than
\* what it knew, and with every write of its own that is on the server.
Advance(c, l, n) ==
    /\ Listening(c, l)
    /\ n > pos[c][l]
    /\ \A w \in Settled(c, l) \cap In(log) : Includes(n, w)
    /\ pos' = [pos EXCEPT ![c][l] = n]
    /\ LET new == Layer(DataAt(log, n, l), pending[c])
       IN  Raise(c, l, IF Synced(c, l) THEN Changed(View(c, l), new)
                                       ELSE <<new>>)
    /\ UNCHANGED <<log, issued, pending, observing, kills>>

(***************************************************************************)
(* Client c learns the fate of its oldest pending write.  It leaves the    *)
(* pending ones when the server never applied it, when the client's copy   *)
(* of the data includes it, or when the client does not read the location. *)
(***************************************************************************)
Settle(c) ==
    LET w == Head(pending[c])
        l == WriteLoc(w)
    IN  /\ pending[c] # <<>>
        /\ \/ w \notin In(log)
           \/ Includes(pos[c][l], w)
           \/ ~Listening(c, l)
        /\ pending' = [pending EXCEPT ![c] = Tail(@)]
        /\ Raise(c, l, IF Synced(c, l)
                       THEN Changed(View(c, l), Layer(DataAt(log, pos[c][l], l),
                                                      Tail(pending[c])))
                       ELSE <<>>)
        /\ UNCHANGED <<log, issued, pos, observing, kills>>

\* The main queue runs a screen's oldest snapshot.
FireEvent(s) ==
    /\ events[s] # <<>>
    /\ events' = [events EXCEPT ![s] = Tail(@)]
    /\ UNCHANGED <<log, issued, pending, pos, observing, kills>>

\* The process dies; nothing of it is on disk.
Kill(c) ==
    /\ kills < MaxKills
    /\ kills' = kills + 1
    /\ pending' = [pending EXCEPT ![c] = <<>>]
    /\ pos' = [pos EXCEPT ![c] = [l \in Locations |-> NotSynced]]
    /\ observing' = {s \in observing : Owner[s] # c}
    /\ events' = [s \in Screens |-> IF Owner[s] = c THEN <<>> ELSE events[s]]
    /\ UNCHANGED <<log, issued>>

Next ==
    \/ \E s \in Screens : Observe(s) \/ FireEvent(s)
    \/ \E w \in Writes : SetValue(w) \/ Apply(w)
    \/ \E c \in Clients : Settle(c) \/ Kill(c)
    \/ \E c \in Clients, l \in Locations : \E n \in 0 .. Len(log) :
          Advance(c, l, n)

Spec == Init /\ [][Next]_vars
===============================================================================
