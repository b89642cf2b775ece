--------------------------------- MODULE Feeds ---------------------------------
(***************************************************************************)
(* The list screens: ChatVC and FriendsVC (everybody), ProfileVC and       *)
(* FriendsProfileVC (somebody's posts), HomeVC (news) and StudyVC          *)
(* (subjects and teachers), on top of what the Realtime Database SDK       *)
(* promises (Replica).                                                     *)
(*                                                                         *)
(* A screen of Replica is one observe call here: a feed, an array that a   *)
(* view controller fills from the snapshots of one location.  StudyVC has  *)
(* two feeds behind one table, and their snapshots come in any order.      *)
(*                                                                         *)
(* No observer is ever removed.  A controller that was popped off its      *)
(* navigation stack is gone, and the blocks that still come for it find    *)
(* their weak self nil.                                                    *)
(***************************************************************************)
EXTENDS SyncTree, Integers

CONSTANTS
    MaxLog, MaxKills,   \* bounds, see Replica; a trap counts as a kill
    Controllers,    \* the view controllers
    Observes,       \* the feeds of a controller, in the order it sets them up
    Pushed,         \* the controllers on top of a navigation stack
    Kind,           \* what a feed is about, one of Kinds
    Wanted,         \* the e-mail whose posts or whose profile a feed shows
    Author,         \* the e-mail of the account that makes a write
    From,           \* the controller on which a write is made
    Elsewhere,      \* on another screen: RegistrationVC, EditProfileVC, another device
    Scenes          \* the parts of the app to explore, one at a time: the
                    \* controllers that may be opened, the writes that may be made

Kinds == {"users", "profile", "posts", "news", "subjects", "teachers"}

\* A feed belongs to one controller, and a controller runs on one device.  Keys
\* are ordered, and every child but a user's record is written once.
ASSUME FeedsAssumption ==
    /\ Keys \subseteq Nat
    /\ IsFiniteSet(Writes)
    /\ Observes \in [Controllers -> Seq(Screens)]
    /\ \A s \in Screens : \E v \in Controllers : s \in In(Observes[v])
    /\ \A v, u \in Controllers : \A i \in DOMAIN Observes[v], j \in DOMAIN Observes[u] :
          /\ Observes[v][i] = Observes[u][j] => v = u /\ i = j
          /\ v = u => Owner[Observes[v][i]] = Owner[Observes[u][j]]
    /\ Pushed \subseteq Controllers
    /\ Scenes \subseteq [controllers : SUBSET Controllers, writes : SUBSET Writes]
    /\ Kind \in [Screens -> Kinds]
    /\ DOMAIN Wanted = Screens /\ DOMAIN Author = Writes
    /\ Elsewhere \notin Controllers
    /\ From \in [Writes -> (Controllers \ Pushed) \cup {Elsewhere}]
    /\ \A v, w \in Writes : KeyOf[v] = KeyOf[w] =>
          v = w \/ (From[v] = Elsewhere /\ From[w] = Elsewhere)

VARIABLES
    log, issued, pending, pos, observing, events, kills,    \* the SDK
    opened,     \* the controllers that have been loaded
    popped,     \* those of them that are gone again
    rows,       \* per feed: its array
    segment,    \* per controller: the selected segment of its control
    queued,     \* per client: calls waiting for the SDK's queue
    scene       \* never changes

sdkVars == <<log, issued, pending, pos, observing, events, kills>>
vars == <<sdkVars, opened, popped, rows, segment, queued, scene>>

DB == INSTANCE Replica

FeedsOf(v) == In(Observes[v])
VcOf(s) == CHOOSE v \in Controllers : s \in FeedsOf(v)
OwnedBy(c) == {v \in Controllers : \E s \in FeedsOf(v) : Owner[s] = c}
Device(v) == CHOOSE c \in Clients : v \in OwnedBy(c)

Alive(v) == v \in opened \ popped

\* Broken variant of Wants: the posts of everybody.
WantsAll(s, w) == TRUE

\* A profile and its posts are about one e-mail; other lists take every child.
Wants(s, w) == Kind[s] \in {"posts", "profile"} => Author[w] = Wanted[s]

\* The children of snapshot d that go into the array of s.
Items(s, d) ==
    {w \in Writes : KeyOf[w] \in DOMAIN d /\ d[KeyOf[w]] = w /\ Wants(s, w)}

\* The children S in the order of snapshot.children, and in the reverse one.
IsInOrder(S, a) ==
    In(a) = S /\ \A i, j \in DOMAIN a : i < j => KeyOf[a[i]] < KeyOf[a[j]]

IsReversed(S, a) ==
    In(a) = S /\ \A i, j \in DOMAIN a : i < j => KeyOf[a[i]] > KeyOf[a[j]]

InOrder(S) == CHOOSE a \in [1 .. Cardinality(S) -> S] : IsInOrder(S, a)
Reversed(S) == CHOOSE a \in [1 .. Cardinality(S) -> S] : IsReversed(S, a)

ObserveCall(s) == [call |-> "observe", screen |-> s]
SetCall(w) == [call |-> "setValue", write |-> w]

Init ==
    /\ DB!Init
    /\ opened = {} /\ popped = {}
    /\ rows = [s \in Screens |-> <<>>]
    /\ segment = [v \in Controllers |-> 0]
    /\ queued = [c \in Clients |-> <<>>]
    /\ scene \in Scenes

\* Broken variant of ViewDidLoad: observe is called before the view is there.
ViewDidLoadEarly(v) ==
    /\ \A s \in FeedsOf(v) : ObserveCall(s) \notin In(queued[Device(v)]) /\ s \notin observing
    /\ queued' = [queued EXCEPT ![Device(v)] =
            @ \o [i \in DOMAIN Observes[v] |-> ObserveCall(Observes[v][i])]]
    /\ UNCHANGED <<sdkVars, opened, popped, rows, segment, scene>>

\* viewDidLoad sets up every array of the controller.
ViewDidLoad(v) ==
    LET calls == [i \in DOMAIN Observes[v] |-> ObserveCall(Observes[v][i])]
    IN  /\ v \in scene.controllers \ opened
        /\ opened' = opened \cup {v}
        /\ queued' = [queued EXCEPT ![Device(v)] = @ \o calls]
        /\ UNCHANGED <<sdkVars, popped, rows, segment, scene>>

\* Back on the navigation bar: the controller is freed, its observers are not.
Pop(v) ==
    /\ v \in Pushed /\ Alive(v)
    /\ popped' = popped \cup {v}
    /\ rows' = [s \in Screens |-> IF VcOf(s) = v THEN <<>> ELSE rows[s]]
    /\ UNCHANGED <<sdkVars, opened, segment, queued, scene>>

Made(w) == w \in In(issued) \/ SetCall(w) \in In(queued[Writer[w]])

\* setValue on a new child; the arrays are left to the observers.
Save(w) ==
    /\ w \in scene.writes /\ ~Made(w)
    /\ queued' = [queued EXCEPT ![Writer[w]] = Append(@, SetCall(w))]
    /\ UNCHANGED <<sdkVars, opened, popped, rows, segment, scene>>

StudyVCs == {v \in Controllers : \E s \in FeedsOf(v) : Kind[s] = "teachers"}

The(v, kind) == CHOOSE s \in FeedsOf(v) : Kind[s] = kind

\* Controller v is alive and has an array of this kind.
Shows(v, kind) ==
    v \in Controllers /\ Alive(v) /\ \E s \in FeedsOf(v) : Kind[s] = kind

\* newPost_action of ProfileVC and writeNew of HomeVC: the alert's first button.
NewPostAction(w) ==
    /\ \E kind \in {"posts", "news"} : Shows(From[w], kind)
    /\ Save(w)

\* add_action of StudyVC: the selected segment says what is added.
AddAction(w) ==
    LET v == From[w]
    IN  /\ Shows(v, "teachers")
        /\ WriteLoc(w) = Looks[The(v, IF segment[v] = 0 THEN "subjects" ELSE "teachers")]
        /\ Save(w)

SaveElsewhere(w) == From[w] = Elsewhere /\ Save(w)

\* The block of ChatVC and FriendsVC appends the snapshot to what is there.
UsersSetup(s) ==
    /\ Kind[s] = "users" /\ Alive(VcOf(s))
    /\ DB!FireEvent(s)
    /\ rows' = [rows EXCEPT ![s] = @ \o InOrder(Items(s, Head(events[s])))]
    /\ UNCHANGED <<opened, popped, segment, queued, scene>>

\* ProfileVC takes the last record with its e-mail, and keeps what it has when
\* there is none.
ProfileSetup(s) ==
    LET mine == Items(s, Head(events[s]))
    IN  /\ Kind[s] = "profile" /\ Alive(VcOf(s))
        /\ DB!FireEvent(s)
        /\ rows' = [rows EXCEPT ![s] =
              IF mine = {} THEN @
              ELSE <<CHOOSE w \in mine : \A v \in mine : KeyOf[v] <= KeyOf[w]>>]
        /\ UNCHANGED <<opened, popped, segment, queued, scene>>

\* Broken variant of ModelSetup: without reverse.
ModelSetupInOrder(s) ==
    /\ Kind[s] \notin {"users", "profile"} /\ Alive(VcOf(s))
    /\ DB!FireEvent(s)
    /\ rows' = [rows EXCEPT ![s] = InOrder(Items(s, Head(events[s])))]
    /\ UNCHANGED <<opened, popped, segment, queued, scene>>

\* The blocks of the other screens fill the array anew and reverse it.
ModelSetup(s) ==
    /\ Kind[s] \notin {"users", "profile"} /\ Alive(VcOf(s))
    /\ DB!FireEvent(s)
    /\ rows' = [rows EXCEPT ![s] = Reversed(Items(s, Head(events[s])))]
    /\ UNCHANGED <<opened, popped, segment, queued, scene>>

\* self is nil: the block does nothing.
OrphanEvent(s) ==
    /\ VcOf(s) \in popped
    /\ DB!FireEvent(s)
    /\ UNCHANGED <<opened, popped, rows, segment, queued, scene>>

-------------------------------------------------------------------------------
\* StudyVC: one table for two arrays

\* The user taps the other segment.
SegmentedAction(v) ==
    /\ v \in StudyVCs /\ Alive(v)
    /\ segment' = [segment EXCEPT ![v] = 1 - @]
    /\ UNCHANGED <<sdkVars, opened, popped, rows, queued, scene>>

NumberOfRows(v) == IF segment[v] = 0 THEN 0 ELSE Len(rows[The(v, "teachers")])

\* The process ends, with everything that is not on the server.
Die(c) ==
    /\ DB!Kill(c)
    /\ opened' = opened \ OwnedBy(c)
    /\ popped' = popped \ OwnedBy(c)
    /\ rows' = [s \in Screens |-> IF Owner[s] = c THEN <<>> ELSE rows[s]]
    /\ segment' = [v \in Controllers |-> IF v \in OwnedBy(c) THEN 0 ELSE segment[v]]
    /\ queued' = [queued EXCEPT ![c] = <<>>]
    /\ UNCHANGED scene

\* The cell of any row reads both arrays; an index out of range is a trap.
CellForRowTraps(v) ==
    /\ v \in StudyVCs /\ Alive(v)
    /\ \E i \in 1 .. NumberOfRows(v) : i > Len(rows[The(v, "subjects")])
    /\ Die(Device(v))

-------------------------------------------------------------------------------
\* The SDK's queue, the connection and the server

RunObserve(s) ==
    LET c == Owner[s]
    IN  /\ queued[c] # <<>>
        /\ Head(queued[c]) = ObserveCall(s)
        /\ queued' = [queued EXCEPT ![c] = Tail(@)]
        /\ DB!Observe(s)
        /\ UNCHANGED <<opened, popped, rows, segment, scene>>

RunSetValue(w) ==
    LET c == Writer[w]
    IN  /\ queued[c] # <<>>
        /\ Head(queued[c]) = SetCall(w)
        /\ queued' = [queued EXCEPT ![c] = Tail(@)]
        /\ DB!SetValue(w)
        /\ UNCHANGED <<opened, popped, rows, segment, scene>>

Synchronise ==
    /\ \/ \E w \in Writes : DB!Apply(w)
       \/ \E c \in Clients : DB!Settle(c)
       \/ \E c \in Clients, l \in Locations : \E n \in 0 .. Len(log) : DB!Advance(c, l, n)
    /\ UNCHANGED <<opened, popped, rows, segment, queued, scene>>

Event(s) == UsersSetup(s) \/ ProfileSetup(s) \/ ModelSetup(s) \/ OrphanEvent(s)

Next ==
    \/ \E v \in Controllers :
          ViewDidLoad(v) \/ Pop(v) \/ SegmentedAction(v) \/ CellForRowTraps(v)
    \/ \E s \in Screens : Event(s) \/ RunObserve(s)
    \/ \E w \in Writes :
          \/ NewPostAction(w) \/ AddAction(w) \/ SaveElsewhere(w)
          \/ RunSetValue(w)
    \/ Synchronise
    \/ \E c \in Clients : Die(c)

Spec == Init /\ [][Next]_vars

(***************************************************************************)
(* The main queue and the SDK's queue of every device, its connection and  *)
(* the server keep going: none of them stays able to go on without doing   *)
(* so.  Each line follows from WF_vars of the actions it stands for, and   *)
(* TLC evaluates it without ENABLED.                                       *)
(***************************************************************************)
Advances(c) ==
    \E l \in Locations : DB!Listening(c, l) /\ Len(log) > pos[c][l]

Settles(c) ==
    LET w == Head(pending[c])  l == WriteLoc(w)
    IN  /\ pending[c] # <<>>
        /\ w \in In(log) => DB!Includes(pos[c][l], w) \/ ~DB!Listening(c, l)

FairSpec ==
    /\ Spec
    /\ \A c \in Clients :
          /\ <>[](\E s \in Screens : Owner[s] = c /\ events[s] # <<>>) => []<><<TRUE>>_events
          /\ <>[](queued[c] # <<>>) => []<><<TRUE>>_(queued[c])
          /\ <>[]Settles(c) => []<><<TRUE>>_(pending[c])
          /\ <>[]Advances(c) => []<><<TRUE>>_(pos[c])

-------------------------------------------------------------------------------
\* Properties

\* The type of every piece of state; nothing runs for a controller that was
\* never loaded.
TypeOK ==
    /\ In(log) \subseteq Writes /\ In(issued) \subseteq Writes
    /\ \A c \in Clients : In(pending[c]) \subseteq In(issued)
    /\ popped \subseteq opened \cap Pushed /\ opened \subseteq Controllers
    /\ \A s \in observing : VcOf(s) \in opened
    /\ \A s \in Screens : In(events[s]) \subseteq DataIn(Looks[s])
    /\ rows \in [Screens -> Seq(Writes)]
    /\ \A s \in Screens : rows[s] # <<>> => Alive(VcOf(s))
    /\ segment \in [Controllers -> {0, 1}]
    /\ \A c \in Clients : In(queued[c]) \subseteq
          {ObserveCall(s) : s \in {t \in Screens : VcOf(t) \in opened}}
          \cup {SetCall(w) : w \in Writes}

\* The children of the snapshot d that screen s is about.
About(s, d) == {w \in Writes : /\ KeyOf[w] \in DOMAIN d /\ d[KeyOf[w]] = w
                               /\ Kind[s] \in {"posts", "profile"} => Author[w] = Wanted[s]}

\* What the array of s has to be when the location holds d.
Fits(s, d) ==
    CASE Kind[s] = "users" ->
            /\ Len(rows[s]) >= Cardinality(About(s, d))
            /\ IsInOrder(About(s, d), SubSeq(rows[s],
                    Len(rows[s]) - Cardinality(About(s, d)) + 1, Len(rows[s])))
      [] Kind[s] = "profile" ->
            About(s, d) # {} => Len(rows[s]) = 1 /\ rows[s][1] \in About(s, d)
      [] OTHER -> IsReversed(About(s, d), rows[s])

(***************************************************************************)
(* Whatever the order in which observers register, writes settle and       *)
(* snapshots of several locations arrive, an array that has been given     *)
(* every snapshot agrees with the SDK's view: posts, news, subjects and    *)
(* teachers newest first and nothing else, everybody at the end of the     *)
(* list of users, the profile that of the last edit.                       *)
(***************************************************************************)
FeedMatchesView ==
    \A s \in observing :
        Alive(VcOf(s)) /\ DB!Synced(Owner[s], Looks[s]) /\ events[s] = <<>>
        => Fits(s, DB!View(Owner[s], Looks[s]))

\* In the end every open list agrees with what the server has.
FeedsConverge ==
    <>[](\A s \in Screens : Alive(VcOf(s)) => Fits(s, DataAt(log, Len(log), Looks[s])))

(***************************************************************************)
(* What `allSubjects[indexPath.row]` in StudyVC's cellForRowAt asserts:    *)
(* there is a subject for every row of the table, teachers included.       *)
(***************************************************************************)
SubjectForEveryRow ==
    \A v \in StudyVCs : NumberOfRows(v) <= Len(rows[The(v, "subjects")])
===============================================================================
