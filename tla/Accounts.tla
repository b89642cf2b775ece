-------------------------------- MODULE Accounts --------------------------------
(***************************************************************************)
(* Signing up, in and out: RegistrationVC, LoginVC, SettingsVC and         *)
(* EditProfileVC of every running copy of the app, the part of FIRAuth     *)
(* they use, and the "users" node that holds one record per account.       *)
(*                                                                         *)
(* The app is on the main queue, FIRAuth on a work queue of its own, the   *)
(* accounts on a server.  A sign-up makes the account first and writes its *)
(* record later, from a callback on the main queue: two steps with the     *)
(* network, the user and the end of the process between them.              *)
(*                                                                         *)
(* An account is named by its e-mail, which also stands for its uid.       *)
(* Passwords, names and texts are left out; a record is the set of its     *)
(* fields.  A forced unwrapping of nil stops the process (Trap).           *)
(***************************************************************************)
EXTENDS Naturals, Sequences, SequencesExt, FiniteSets

CONSTANTS
    Devices,        \* running copies of the app
    Emails,         \* the e-mails people register with
    NoUser,         \* nobody is signed in
    MaxRequests,    \* bound: calls of signIn and createUser
    MaxDepth,       \* bound: screens on top of each other when one more is opened
    MaxEdits,       \* bound: profiles edited
    MaxKills,       \* bound: processes killed
    MaxSwipes,      \* bound: registration sheets swiped away
    MaxFailures     \* bound: calls the network or the keychain fails

ASSUME AccountsAssumption ==
    /\ NoUser \notin [email : Emails, verified : BOOLEAN]
    /\ MaxRequests \in Nat /\ MaxDepth \in Nat \ {0}
    /\ MaxEdits \in Nat /\ MaxKills \in Nat /\ MaxSwipes \in Nat /\ MaxFailures \in Nat

VARIABLES
    accounts,       \* auth server: the accounts
    verified,       \* auth server: those whose e-mail is verified
    mailed,         \* accounts a verification mail was asked for
    records,        \* database: the fields of users/<uid>
    puts,           \* per device: setValue calls not yet at the server
    current,        \* per device: Auth.auth().currentUser, kept in the keychain
    requests,       \* per device: calls of FIRAuth under way
    mainQueue,      \* per device: callbacks of FIRAuth, oldest first
    stack,          \* per device: the screens, each presented by the one below
    editing,        \* per device: EditProfileVC.currentUser
    traps,          \* history: the places where a nil was unwrapped
    counts          \* what the bounds count

serverVars == <<accounts, verified, mailed, records>>
deviceVars == <<puts, current, requests, mainQueue, stack, editing>>
vars == <<serverVars, deviceVars, traps, counts>>

Users == [email : Emails, verified : BOOLEAN]

\* What UserModel.init(snapshot:) unwraps by force.
Required == {"name", "surname", "lastname", "email"}

RegistrationFields == {"email", "surname", "name", "lastname", "password"}
EditedFields == <<"name", "surname", "lastname", "aboutProfile", "facultyAndSpeciality">>
Fields == RegistrationFields \cup {EditedFields[i] : i \in DOMAIN EditedFields}

Screens == {"appearing", "login", "register", "alert", "success", "tabs", "edit"}

Top(d) == Last(stack[d])
Depth(d) == Len(stack[d])

\* UIKit presents only on a screen that presents nothing yet.
Present(d, from, screen) ==
    stack' = IF from = Depth(d) THEN [stack EXCEPT ![d] = Append(@, screen)] ELSE stack

Count(what, max) ==
    /\ counts[what] < max
    /\ counts' = [counts EXCEPT ![what] = @ + 1]

\* What setValue makes of the records: a whole record or one field of it.
Write(rs, p) ==
    [rs EXCEPT ![p.email] = IF p.whole THEN p.fields ELSE @ \cup p.fields]

\* The records as the SDK shows them on device d.
View(d) == FoldLeft(Write, records, puts[d])

Init ==
    /\ accounts = {} /\ verified = {} /\ mailed = {}
    /\ records = [e \in Emails |-> {}]
    /\ puts = [d \in Devices |-> <<>>]
    /\ current = [d \in Devices |-> NoUser]
    /\ requests = [d \in Devices |-> {}]
    /\ mainQueue = [d \in Devices |-> <<>>]
    /\ stack = [d \in Devices |-> <<"appearing">>]
    /\ editing = [d \in Devices |-> NoUser]
    /\ traps = {}
    /\ counts = [requests |-> 0, edits |-> 0, kills |-> 0, swipes |-> 0, failures |-> 0]

\* The process starts anew; FIRAuth finds its user in the keychain.
Restart(d) ==
    /\ puts' = [puts EXCEPT ![d] = <<>>]
    /\ requests' = [requests EXCEPT ![d] = {}]
    /\ mainQueue' = [mainQueue EXCEPT ![d] = <<>>]
    /\ stack' = [stack EXCEPT ![d] = <<"appearing">>]
    /\ editing' = [editing EXCEPT ![d] = NoUser]
    /\ UNCHANGED current

Trap(d, place) == Restart(d) /\ traps' = traps \cup {place}

-------------------------------------------------------------------------------
\* LoginVC

\* Broken variant of GoesIn: whoever is signed in goes to the tab bar.
GoesInUnverified(user) == TRUE

\* The e-mail was verified when FIRAuth last looked the account up.
GoesIn(user) == user.verified

\* viewDidAppear, after the launch or a sign-out.
ViewDidAppear(d) ==
    LET user == current[d]
        shown == Append(Front(stack[d]), "login")
    IN  /\ Top(d) = "appearing"
        /\ stack' = [stack EXCEPT ![d] =
                IF user # NoUser /\ GoesIn(user) THEN Append(shown, "tabs") ELSE shown]
        /\ UNCHANGED <<serverVars, puts, current, requests, mainQueue, editing, traps, counts>>

Ask(d, kind, e) ==
    /\ Count("requests", MaxRequests)
    /\ requests' = [requests EXCEPT ![d] = @ \cup
            {[id |-> counts.requests, kind |-> kind, email |-> e,
              from |-> Depth(d), stage |-> "sent"]}]
    /\ UNCHANGED <<serverVars, puts, current, mainQueue, stack, editing, traps>>

\* Nothing keeps the button from being tapped again while a call is under way.
LoginAction(d, e) ==
    /\ Top(d) = "login"
    /\ Ask(d, "signIn", e)

\* The block of signIn: it looks at the user of now, not at its own result.
LoginCallback(d) ==
    LET cb == Head(mainQueue[d])
    IN  /\ mainQueue[d] # <<>> /\ cb.kind = "signIn"
        /\ \/ /\ cb.ok /\ current[d] = NoUser
              /\ Trap(d, "LoginVC")
           \/ /\ ~(cb.ok /\ current[d] = NoUser)
              /\ Present(d, cb.from, IF cb.ok /\ GoesIn(current[d]) THEN "tabs" ELSE "alert")
              /\ mainQueue' = [mainQueue EXCEPT ![d] = Tail(@)]
              /\ UNCHANGED <<puts, current, requests, editing, traps>>
        /\ UNCHANGED <<serverVars, counts>>

-------------------------------------------------------------------------------
\* RegistrationVC, a sheet on top of LoginVC

OpenRegistration(d) ==
    /\ Top(d) = "login"
    /\ Depth(d) < MaxDepth
    /\ Present(d, Depth(d), "register")
    /\ UNCHANGED <<serverVars, puts, current, requests, mainQueue, editing, traps, counts>>

\* The form is complete and the e-mail is one of the university.
RegistrationAction(d, e) ==
    /\ Top(d) = "register"
    /\ Ask(d, "create", e)

\* A field is empty, or the e-mail is of somewhere else.
RegistrationRefused(d) ==
    /\ Top(d) = "register"
    /\ Depth(d) < MaxDepth
    /\ Present(d, Depth(d), "alert")
    /\ UNCHANGED <<serverVars, puts, current, requests, mainQueue, editing, traps, counts>>

\* Broken variant of Forget: the calls go on to use the sheet.
ForgetNothing(d, depth) == UNCHANGED <<requests, mainQueue>>

\* The sheet is gone: the weak self of the calls it made is nil.
Forget(d, depth) ==
    LET forget(r) == IF r.kind = "create" /\ r.from = depth THEN [r EXCEPT !.from = 0] ELSE r
    IN  /\ requests' = [requests EXCEPT ![d] = {forget(r) : r \in @}]
        /\ mainQueue' = [mainQueue EXCEPT ![d] = [i \in DOMAIN @ |-> forget(@[i])]]

SwipeDown(d) ==
    /\ Top(d) = "register"
    /\ Count("swipes", MaxSwipes)
    /\ stack' = [stack EXCEPT ![d] = Front(@)]
    /\ Forget(d, Depth(d))
    /\ UNCHANGED <<serverVars, puts, current, editing, traps>>

\* OK of an alert; that of a success closes the sheet as well.
AlertOk(d) ==
    /\ \/ /\ Top(d) = "alert"
          /\ stack' = [stack EXCEPT ![d] = Front(@)]
          /\ UNCHANGED <<requests, mainQueue>>
       \/ /\ Top(d) = "success"
          /\ stack' = [stack EXCEPT ![d] = Front(Front(@))]
          /\ Forget(d, Depth(d) - 1)
    /\ UNCHANGED <<serverVars, puts, current, editing, traps, counts>>

\* Broken variants of Record: written although the sign-up failed, and never.
RecordAlways(cb) == <<[email |-> cb.email, fields |-> RegistrationFields, whole |-> TRUE]>>
RecordNever(cb) == <<>>

\* The record a sign-up writes.
Record(cb) ==
    IF cb.ok THEN <<[email |-> cb.email, fields |-> RegistrationFields, whole |-> TRUE]>>
    ELSE <<>>

(***************************************************************************)
(* The block of createUser.  A verification mail is asked for whatever the *)
(* result was, and for the user of now.                                    *)
(***************************************************************************)
RegistrationCallback(d) ==
    LET cb == Head(mainQueue[d])
    IN  /\ mainQueue[d] # <<>> /\ cb.kind = "create"
        /\ mailed' = IF current[d] = NoUser THEN mailed
                     ELSE mailed \cup {current[d].email}
        /\ \/ /\ cb.ok /\ cb.from = 0
              /\ Trap(d, "RegistrationVC")
           \/ /\ ~(cb.ok /\ cb.from = 0)
              /\ puts' = [puts EXCEPT ![d] = @ \o Record(cb)]
              /\ Present(d, cb.from, IF cb.ok THEN "success" ELSE "alert")
              /\ mainQueue' = [mainQueue EXCEPT ![d] = Tail(@)]
              /\ UNCHANGED <<current, requests, editing, traps>>
        /\ UNCHANGED <<accounts, verified, records, counts>>

-------------------------------------------------------------------------------
\* SettingsVC, EditProfileVC and the screens that read "users"

\* Broken variant of SignOutAction: the log-in screen is not presented.
SignOutActionStays(d) ==
    /\ Top(d) = "tabs"
    /\ current' = [current EXCEPT ![d] = NoUser]
    /\ UNCHANGED <<serverVars, puts, requests, mainQueue, stack, editing, traps, counts>>

\* signOut fails when the keychain does; either way the log-in screen comes.
SignOutAction(d) ==
    /\ Top(d) = "tabs"
    /\ Depth(d) < MaxDepth
    /\ \/ current' = [current EXCEPT ![d] = NoUser]
       \/ UNCHANGED current
    /\ Present(d, Depth(d), "appearing")
    /\ UNCHANGED <<serverVars, puts, requests, mainQueue, editing, traps, counts>>

OpenEdit(d) ==
    /\ Top(d) = "tabs"
    /\ Depth(d) < MaxDepth
    /\ Count("edits", MaxEdits)
    /\ editing' = [editing EXCEPT ![d] = current[d]]
    /\ Present(d, Depth(d), "edit")
    /\ UNCHANGED <<serverVars, puts, current, requests, mainQueue, traps>>

\* Broken variant of Edits: the edited fields replace the record.
EditsWhole(e) ==
    <<[email |-> e, fields |-> {EditedFields[i] : i \in DOMAIN EditedFields}, whole |-> TRUE]>>

\* Five calls of setValue, one per field.
Edits(e) ==
    [i \in DOMAIN EditedFields |->
        [email |-> e, fields |-> {EditedFields[i]}, whole |-> FALSE]]

\* cancel, or done with and without empty fields.
CloseEdit(d) ==
    /\ Top(d) = "edit"
    /\ \/ /\ stack' = [stack EXCEPT ![d] = Front(@)]
          /\ UNCHANGED <<puts, requests, mainQueue, editing, current, traps>>
       \/ /\ editing[d] # NoUser
          /\ puts' = [puts EXCEPT ![d] = @ \o Edits(editing[d].email)]
          /\ stack' = [stack EXCEPT ![d] = Front(@)]
          /\ UNCHANGED <<requests, mainQueue, editing, current, traps>>
       \/ /\ editing[d] = NoUser
          /\ Trap(d, "EditProfileVC")
    /\ UNCHANGED <<serverVars, counts>>

Unreadable(rs) == {e \in Emails : rs[e] # {} /\ ~(Required \subseteq rs[e])}

\* ChatVC, FriendsVC and ProfileVC build a UserModel of every record they get.
UsersEvent(d) ==
    /\ \E i \in DOMAIN stack[d] : stack[d][i] = "tabs"
    /\ Unreadable(View(d)) # {}
    /\ Trap(d, "UserModel")
    /\ UNCHANGED <<serverVars, counts>>

-------------------------------------------------------------------------------
\* FIRAuth

\* A call has its answer: the user becomes the current one on the work queue,
\* unless the keychain cannot save it, and the app's block goes to the main queue.
SignInFlow(d, r) ==
    LET callback(ok) == [kind |-> r.kind, email |-> r.email, from |-> r.from, ok |-> ok]
        user == [email |-> r.email, verified |-> r.stage = "foundVerified"]
    IN  /\ r \in requests[d]
        /\ requests' = [requests EXCEPT ![d] = @ \ {r}]
        /\ \/ /\ r.stage \in {"found", "foundVerified"}
              /\ current' = [current EXCEPT ![d] = user]
              /\ mainQueue' = [mainQueue EXCEPT ![d] = Append(@, callback(TRUE))]
              /\ UNCHANGED counts
           \/ /\ \/ r.stage = "failed" /\ UNCHANGED counts
                 \/ r.stage \in {"found", "foundVerified"} /\ Count("failures", MaxFailures)
              /\ mainQueue' = [mainQueue EXCEPT ![d] = Append(@, callback(FALSE))]
              /\ UNCHANGED current
        /\ UNCHANGED <<serverVars, puts, stack, editing, traps>>

-------------------------------------------------------------------------------
\* The servers, the people and the operating system (external)

Answer(d, r, stage) ==
    /\ requests' = [requests EXCEPT ![d] = (@ \ {r}) \cup {[r EXCEPT !.stage = stage]}]
    /\ UNCHANGED <<verified, mailed, records, puts, current, mainQueue, stack, editing, traps>>

\* The account is made.
SignUpNewUser(d, r) ==
    /\ r \in requests[d] /\ r.kind = "create" /\ r.stage = "sent"
    /\ r.email \notin accounts
    /\ accounts' = accounts \cup {r.email}
    /\ Answer(d, r, "created")
    /\ UNCHANGED counts

\* The password was right or the account is new: the account is looked up.
GetAccountInfo(d, r) ==
    /\ r \in requests[d]
    /\ \/ r.kind = "signIn" /\ r.stage = "sent" /\ r.email \in accounts
       \/ r.stage = "created"
    /\ Answer(d, r, IF r.email \in verified THEN "foundVerified" ELSE "found")
    /\ UNCHANGED <<accounts, counts>>

\* No such account, or one too many.
Refuse(d, r) ==
    /\ r \in requests[d] /\ r.stage = "sent"
    /\ (r.kind = "create") = (r.email \in accounts)
    /\ Answer(d, r, "failed")
    /\ UNCHANGED <<accounts, counts>>

\* The network fails, before or after the account was made.
NetworkError(d, r) ==
    /\ r \in requests[d] /\ r.stage \in {"sent", "created"}
    /\ Count("failures", MaxFailures)
    /\ Answer(d, r, "failed")
    /\ UNCHANGED accounts

\* The link in the mail is opened.
VerifyEmail(e) ==
    /\ e \in mailed /\ e \notin verified
    /\ verified' = verified \cup {e}
    /\ UNCHANGED <<accounts, mailed, records, deviceVars, traps, counts>>

\* The database applies a device's oldest put.
ApplyPut(d) ==
    /\ puts[d] # <<>>
    /\ records' = Write(records, Head(puts[d]))
    /\ puts' = [puts EXCEPT ![d] = Tail(@)]
    /\ UNCHANGED <<accounts, verified, mailed, current, requests, mainQueue, stack, editing,
                   traps, counts>>

Kill(d) ==
    /\ Count("kills", MaxKills)
    /\ Restart(d)
    /\ UNCHANGED <<serverVars, traps>>

-------------------------------------------------------------------------------
Callback(d) == LoginCallback(d) \/ RegistrationCallback(d)

AuthStep(d) ==
    \E r \in requests[d] : SignInFlow(d, r) \/ SignUpNewUser(d, r) \/ GetAccountInfo(d, r)
                           \/ Refuse(d, r)

Next ==
    \/ \E d \in Devices, e \in Emails : LoginAction(d, e) \/ RegistrationAction(d, e)
    \/ \E d \in Devices :
          \/ ViewDidAppear(d) \/ OpenRegistration(d) \/ RegistrationRefused(d)
          \/ SwipeDown(d) \/ AlertOk(d) \/ SignOutAction(d) \/ OpenEdit(d) \/ CloseEdit(d)
          \/ Callback(d) \/ UsersEvent(d) \/ AuthStep(d) \/ ApplyPut(d) \/ Kill(d)
          \/ \E r \in requests[d] : NetworkError(d, r)
    \/ \E e \in Emails : VerifyEmail(e)

Spec == Init /\ [][Next]_vars

\* The queues, the servers and the connection of the database keep going.
FairSpec ==
    /\ Spec
    /\ \A d \in Devices : WF_vars(Callback(d)) /\ WF_vars(AuthStep(d)) /\ WF_vars(ApplyPut(d))

-------------------------------------------------------------------------------
\* Properties

\* The type of every piece of state.
TypeOK ==
    /\ accounts \subseteq Emails /\ verified \subseteq accounts /\ mailed \subseteq accounts
    /\ records \in [Emails -> SUBSET Fields]
    /\ \A d \in Devices :
          /\ puts[d] \in Seq([email : Emails, fields : SUBSET Fields, whole : BOOLEAN])
          /\ current[d] \in Users \cup {NoUser}
          /\ \A r \in requests[d] :
                /\ r.kind \in {"signIn", "create"} /\ r.email \in Emails
                /\ r.from \in 0 .. Depth(d)
                /\ r.stage \in {"sent", "created", "found", "foundVerified", "failed"}
          /\ \A i \in DOMAIN mainQueue[d] : mainQueue[d][i].from \in 0 .. Depth(d)
          /\ stack[d] \in Seq(Screens) /\ Depth(d) \in 1 .. MaxDepth + 1
          /\ editing[d] \in Users \cup {NoUser}

(***************************************************************************)
(* Whatever answers of earlier taps come late, somebody is signed in while *)
(* the tab bar or the profile editor is on top: currentUser! of            *)
(* EditProfileVC is never nil.                                             *)
(***************************************************************************)
SignedInOnTabs ==
    /\ \A d \in Devices : Top(d) \in {"tabs", "edit"} => current[d] # NoUser
    /\ \A d \in Devices : Top(d) = "edit" => editing[d] # NoUser
    /\ "EditProfileVC" \notin traps

TabBars(d) == Cardinality({i \in DOMAIN stack[d] : stack[d][i] = "tabs"})

\* Nobody whose e-mail is not verified at the server gets to the tab bar, with
\* a fresh sign-in or with the user the keychain has kept.
TabsNeedVerified ==
    [][\A d \in Devices : TabBars(d)' > TabBars(d) =>
          current'[d] # NoUser /\ current'[d].email \in verified']_vars

\* A record belongs to an account, even when the sign-up's calls fail halfway.
RecordHasAccount ==
    /\ \A e \in Emails : records[e] # {} => e \in accounts
    /\ \A d \in Devices : \A i \in DOMAIN puts[d] : puts[d][i].email \in accounts

\* A record that every screen can read stays so, through edits that are cut
\* off by the end of the process and sign-ups that are repeated.
RecordStaysReadable ==
    [][\A e \in Emails : Required \subseteq records[e] => Required \subseteq records'[e]]_vars

(***************************************************************************)
(* Unless a process ends or a call fails on the way, every account gets    *)
(* its record, however sign-ins, sign-ups and closed sheets overlap: the   *)
(* record is written by the callback of the sign-up, not by its tap.       *)
(***************************************************************************)
AccountGetsRecord ==
    [](traps = {} /\ counts.kills = 0 /\ counts.failures = 0) =>
        \A e \in Emails : e \in accounts ~> Required \subseteq records[e]

\* What UserModel.init asserts: every record has its four fields.
RecordsAreReadable == "UserModel" \notin traps
===============================================================================
