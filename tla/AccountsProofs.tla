---------------------------- MODULE AccountsProofs ----------------------------
(***************************************************************************)
(* For any number of devices and people: whoever is on the tab bar is      *)
(* signed in and got there with a verified e-mail, a record belongs to an  *)
(* account, and a record that can be read stays so.                        *)
(*                                                                         *)
(* Callbacks come late, when the screens are no longer the ones their      *)
(* calls were made from.  The proofs rest on what the stack of screens can *)
(* look like (Shape) and on the fact that a late callback still finds the  *)
(* kind of screen it was made from at its place, or knows that it is gone  *)
(* (Anchored).                                                             *)
(***************************************************************************)
EXTENDS Accounts, TLAPS, SequenceTheorems, FiniteSetTheorems

\* Which screen can be on top of which.
On(below, above) ==
    \/ above \in {"register", "tabs"} /\ below = "login"
    \/ above = "alert" /\ below \in {"login", "register"}
    \/ above = "success" /\ below = "register"
    \/ above \in {"edit", "appearing", "login"} /\ below = "tabs"

\* What a stack of screens looks like.
Shape(st) ==
    /\ st \in Seq(Screens) /\ Len(st) >= 1
    /\ st[1] \in {"appearing", "login"}
    /\ \A i \in 1 .. Len(st) - 1 : On(st[i], st[i + 1])
    /\ \A i \in 1 .. Len(st) :
          st[i] \in {"appearing", "login", "register", "edit"} => i <= MaxDepth

\* A call was made from a log-in screen that is still there, or from a
\* registration sheet that is still there or known to be gone.
Anchored(st, r) ==
    \/ r.kind = "signIn" /\ r.from \in 1 .. Len(st) /\ st[r.from] = "login"
    \/ r.kind = "create" /\ r.from = 0
    \/ r.kind = "create" /\ r.from \in 1 .. Len(st) /\ st[r.from] = "register"

Puts == [email : Emails, fields : SUBSET Fields, whole : BOOLEAN]
Calls == [id : Nat, kind : {"signIn", "create"}, email : Emails, from : Nat,
          stage : {"sent", "created", "found", "foundVerified", "failed"}]
Callbacks == [kind : {"signIn", "create"}, email : Emails, from : Nat, ok : BOOLEAN]

\* The types of the state.
TypeInv ==
    /\ accounts \in SUBSET Emails /\ verified \in SUBSET accounts /\ mailed \in SUBSET accounts
    /\ records \in [Emails -> SUBSET Fields]
    /\ puts \in [Devices -> Seq(Puts)]
    /\ current \in [Devices -> Users \cup {NoUser}]
    /\ requests \in [Devices -> SUBSET Calls]
    /\ mainQueue \in [Devices -> Seq(Callbacks)]
    /\ stack \in [Devices -> Seq(Screens)]
    /\ editing \in [Devices -> Users \cup {NoUser}]
    /\ counts \in [requests : Nat, edits : Nat, kills : Nat, swipes : Nat, failures : Nat]

\* The screens, and the calls that will come back to them.
ScreenInv ==
    \A d \in Devices :
        /\ Shape(stack[d])
        /\ \A r \in requests[d] : Anchored(stack[d], r)
        /\ \A i \in 1 .. Len(mainQueue[d]) : Anchored(stack[d], mainQueue[d][i])

Known(user) ==
    user # NoUser => /\ user.email \in accounts
                     /\ user.verified => user.email \in verified

\* A user, a call that has got past the server and a put are those of an
\* account; "verified" is believed of nobody who is not.
AuthInv ==
    /\ \A d \in Devices : Known(current[d]) /\ Known(editing[d])
    /\ \A d \in Devices : \A r \in requests[d] :
          /\ r.stage \in {"created", "found", "foundVerified"} => r.email \in accounts
          /\ r.stage = "foundVerified" => r.email \in verified
    /\ \A d \in Devices : \A i \in 1 .. Len(mainQueue[d]) :
          mainQueue[d][i].ok => mainQueue[d][i].email \in accounts

\* A put that replaces a whole record has every field a screen needs.
PutsInv ==
    \A d \in Devices : \A i \in 1 .. Len(puts[d]) :
        puts[d][i].whole => Required \subseteq puts[d][i].fields

\* The inductive invariant.
AccountsInv ==
    TypeInv /\ ScreenInv /\ AuthInv /\ PutsInv /\ SignedInOnTabs /\ RecordHasAccount

-------------------------------------------------------------------------------
\* The stack of screens

\* A sequence without its last element.
LEMMA FrontProperties ==
    ASSUME NEW S, NEW st \in Seq(S), Len(st) >= 1
    PROVE  /\ Front(st) \in Seq(S) /\ Len(Front(st)) = Len(st) - 1
           /\ \A i \in 1 .. Len(st) - 1 : Front(st)[i] = st[i]
<1>1. PICK n \in Nat : n = Len(st) - 1 /\ Len(st) = n + 1
    BY LenProperties
<1>2. \A i \in 1 .. n : st[i] \in S
    BY <1>1, ElementOfSeq
<1>3. /\ SubSeq(st, 1, n) \in Seq(S)
      /\ Len(SubSeq(st, 1, n)) = IF 1 <= n THEN n - 1 + 1 ELSE 0
      /\ \A i \in 1 .. n - 1 + 1 : SubSeq(st, 1, n)[i] = st[1 + i - 1]
    BY <1>2, SubSeqProperties
<1>4. /\ (IF 1 <= n THEN n - 1 + 1 ELSE 0) = n
      /\ n - 1 + 1 = n
      /\ \A i \in 1 .. n : 1 + i - 1 = i
    OBVIOUS
<1> QED
    BY <1>1, <1>3, <1>4 DEF Front

\* A stack is never empty and never deeper than one screen above the bound.
LEMMA ShapeDepth ==
    ASSUME NEW st, Shape(st)
    PROVE  /\ Len(st) \in 1 .. MaxDepth + 1
           /\ st[Len(st)] \in Screens /\ Last(st) = st[Len(st)]
<1>1. Len(st) \in Nat /\ Len(st) >= 1 /\ st \in Seq(Screens) /\ MaxDepth \in Nat \ {0}
    BY AccountsAssumption, LenProperties DEF Shape
<1>2. CASE Len(st) = 1
    BY <1>1, <1>2, ElementOfSeq DEF Last
<1>3. CASE Len(st) > 1
    <2>1. Len(st) - 1 \in 1 .. Len(st) - 1 /\ Len(st) \in 1 .. Len(st) /\ (Len(st) - 1) + 1 = Len(st)
        BY <1>1, <1>3
    <2>2. On(st[Len(st) - 1], st[Len(st)])
        BY <2>1 DEF Shape
    <2>3. \/ st[Len(st) - 1] \in {"login", "register"}
          \/ st[Len(st)] \in {"edit", "appearing", "login"}
        BY <2>2 DEF On
    <2>4. Len(st) - 1 <= MaxDepth
        BY <1>1, <2>1, <2>3 DEF Shape
    <2> QED  BY <1>1, <2>1, <2>4, ElementOfSeq DEF Last
<1>4. \A n \in Nat : n >= 1 => n = 1 \/ n > 1
    OBVIOUS
<1> QED
    BY <1>1, <1>2, <1>3, <1>4

\* A screen is presented.
LEMMA PushShape ==
    ASSUME NEW st, Shape(st), NEW screen \in Screens, On(st[Len(st)], screen),
           screen \in {"appearing", "login", "register", "edit"} => Len(st) < MaxDepth
    PROVE  /\ Shape(Append(st, screen))
           /\ Last(Append(st, screen)) = screen
           /\ \A r : Anchored(st, r) => Anchored(Append(st, screen), r)
<1> DEFINE new == Append(st, screen)
<1>1. Len(st) \in Nat /\ Len(st) >= 1 /\ st \in Seq(Screens)
    BY LenProperties DEF Shape
<1>2. /\ new \in Seq(Screens) /\ Len(new) = Len(st) + 1
      /\ \A i \in 1 .. Len(st) : new[i] = st[i]
      /\ new[Len(st) + 1] = screen
    BY <1>1, AppendProperties
<1>3. \A i \in 1 .. Len(new) - 1 : On(new[i], new[i + 1])
    <2> SUFFICES ASSUME NEW i \in 1 .. Len(new) - 1 PROVE On(new[i], new[i + 1])
        OBVIOUS
    <2> HIDE DEF new
    <2>1. CASE i = Len(st)
        BY <2>1, <1>1, <1>2
    <2>2. CASE i # Len(st)
        <3>1. i \in 1 .. Len(st) - 1 /\ i \in 1 .. Len(st) /\ i + 1 \in 1 .. Len(st)
            BY <2>2, <1>1, <1>2
        <3> QED  BY <3>1, <1>2 DEF Shape
    <2> QED  BY <2>1, <2>2
<1>4. \A i \in 1 .. Len(new) :
          new[i] \in {"appearing", "login", "register", "edit"} => i <= MaxDepth
    <2> SUFFICES ASSUME NEW i \in 1 .. Len(new),
                        new[i] \in {"appearing", "login", "register", "edit"}
                 PROVE  i <= MaxDepth
        OBVIOUS
    <2> HIDE DEF new
    <2>1. CASE i = Len(st) + 1
        BY <2>1, <1>1, <1>2, AccountsAssumption
    <2>2. CASE i # Len(st) + 1
        <3>1. i \in 1 .. Len(st)
            BY <2>2, <1>1, <1>2
        <3> QED  BY <3>1, <1>2 DEF Shape
    <2> QED  BY <2>1, <2>2
<1>5. ASSUME NEW r, Anchored(st, r) PROVE Anchored(new, r)
    <2> HIDE DEF new
    <2>1. \A i \in 1 .. Len(st) : i \in 1 .. Len(new)
        BY <1>1, <1>2
    <2> QED  BY <1>2, <1>5, <2>1 DEF Anchored
<1>6. new[1] = st[1] /\ Len(new) >= 1
    BY <1>1, <1>2
<1> HIDE DEF new
<1> QED
    BY <1>1, <1>2, <1>3, <1>4, <1>5, <1>6 DEF Shape, Last, new

\* The screen on top goes away.
LEMMA PopShape ==
    ASSUME NEW st, Shape(st), Len(st) > 1
    PROVE  /\ Shape(Front(st)) /\ Len(Front(st)) = Len(st) - 1
           /\ \A i \in 1 .. Len(st) - 1 : Front(st)[i] = st[i]
           /\ Last(Front(st)) = st[Len(st) - 1]
           /\ On(Last(Front(st)), Last(st))
           /\ \A r : Anchored(st, r) /\ r.from # Len(st) => Anchored(Front(st), r)
<1> DEFINE new == Front(st)
<1>1. Len(st) \in Nat /\ st \in Seq(Screens)
    BY LenProperties DEF Shape
<1>2. /\ new \in Seq(Screens) /\ Len(new) = Len(st) - 1
      /\ \A i \in 1 .. Len(st) - 1 : new[i] = st[i]
    BY <1>1, FrontProperties
<1> HIDE DEF new
<1>3. \A i \in 1 .. Len(new) : i \in 1 .. Len(st) /\ i \in 1 .. Len(st) - 1 /\ new[i] = st[i]
    BY <1>1, <1>2
<1>4. \A i \in 1 .. Len(new) - 1 : /\ i \in 1 .. Len(new) /\ i + 1 \in 1 .. Len(new)
                                   /\ i \in 1 .. Len(st) - 1
    BY <1>1, <1>2
<1>5. 1 \in 1 .. Len(new) /\ Len(new) \in 1 .. Len(new) /\ Len(new) + 1 = Len(st)
    BY <1>1, <1>2
<1>6. Shape(new)
    BY <1>2, <1>3, <1>4, <1>5, SMTT(60) DEF Shape
<1>7. Last(new) = st[Len(st) - 1] /\ On(Last(new), Last(st))
    BY <1>2, <1>3, <1>5 DEF Shape, Last
<1>8. ASSUME NEW r, Anchored(st, r), r.from # Len(st) PROVE Anchored(new, r)
    <2>1. \A i \in 1 .. Len(st) : i # Len(st) => i \in 1 .. Len(new)
        BY <1>1, <1>2
    <2> QED  BY <1>3, <1>8, <2>1 DEF Anchored
<1> QED
    BY <1>2, <1>6, <1>7, <1>8 DEF new

-------------------------------------------------------------------------------
\* Presenting, dismissing and starting anew

\* UIKit presents a screen, or refuses to.
LEMMA PresentKeeps ==
    ASSUME TypeInv, ScreenInv, NEW d \in Devices, NEW from, NEW screen \in Screens,
           Present(d, from, screen),
           from = Depth(d) =>
              /\ On(Top(d), screen)
              /\ screen \in {"appearing", "login", "register", "edit"} => Depth(d) < MaxDepth
    PROVE  /\ stack' \in [Devices -> Seq(Screens)]
           /\ \A e \in Devices :
                 /\ Shape(stack'[e])
                 /\ \A r : Anchored(stack[e], r) => Anchored(stack'[e], r)
           /\ stack' # stack => from = Depth(d) /\ Last(stack'[d]) = screen
           /\ \A e \in Devices \ {d} : stack'[e] = stack[e]
<1>1. Shape(stack[d]) /\ Last(stack[d]) = stack[d][Len(stack[d])]
    BY ShapeDepth DEF ScreenInv
<1>2. CASE from = Depth(d)
    <2> DEFINE new == Append(stack[d], screen)
    <2>1. stack' = [stack EXCEPT ![d] = new]
        BY <1>2 DEF Present
    <2>2. /\ Shape(new) /\ Last(new) = screen
          /\ \A r : Anchored(stack[d], r) => Anchored(new, r)
        BY <1>1, <1>2, PushShape DEF Depth, Top
    <2>3. new \in Seq(Screens)
        BY <2>2 DEF Shape
    <2> HIDE DEF new
    <2> QED  BY <1>2, <2>1, <2>2, <2>3 DEF TypeInv, ScreenInv
<1>3. CASE from # Depth(d)
    BY <1>3 DEF Present, TypeInv, ScreenInv
<1> QED
    BY <1>2, <1>3

\* A screen that is not the first one goes away; no call was made from it.
LEMMA DismissKeeps ==
    ASSUME TypeInv, ScreenInv, NEW d \in Devices,
           Top(d) \in {"alert", "success", "edit", "register"},
           stack' = [stack EXCEPT ![d] = Front(@)]
    PROVE  /\ stack' \in [Devices -> Seq(Screens)]
           /\ \A e \in Devices : Shape(stack'[e])
           /\ \A e \in Devices \ {d} : stack'[e] = stack[e]
           /\ On(Last(stack'[d]), Top(d))
           /\ Len(stack'[d]) = Depth(d) - 1 /\ Depth(d) \in Nat
           /\ \A r : Anchored(stack[d], r) /\ r.from # Depth(d) => Anchored(stack'[d], r)
<1>1. Shape(stack[d]) /\ Last(stack[d]) = stack[d][Len(stack[d])]
    BY ShapeDepth DEF ScreenInv
<1>2. Len(stack[d]) > 1 /\ Len(stack[d]) \in Nat
    <2>1. \A n \in Nat : n >= 1 => n = 1 \/ n > 1
        OBVIOUS
    <2>2. Len(stack[d]) # 1
        BY <1>1 DEF Shape, Top
    <2> QED  BY <1>1, <2>1, <2>2, LenProperties DEF Shape
<1> DEFINE new == Front(stack[d])
<1>3. /\ Shape(new) /\ Len(new) = Len(stack[d]) - 1 /\ On(Last(new), Last(stack[d]))
      /\ \A r : Anchored(stack[d], r) /\ r.from # Len(stack[d]) => Anchored(new, r)
    BY <1>1, <1>2, PopShape
<1>4. new \in Seq(Screens)
    BY <1>3 DEF Shape
<1>5. stack'[d] = new
    BY DEF TypeInv
<1> HIDE DEF new
<1> QED
    BY <1>2, <1>3, <1>4, <1>5 DEF TypeInv, ScreenInv, Depth, Top, new

\* The first screen of a process.
LEMMA FirstShape == Shape(<<"appearing">>)
BY AccountsAssumption DEF Shape, Screens

\* A process starts anew.
LEMMA RestartKeeps ==
    ASSUME AccountsInv, NEW d \in Devices, Restart(d),
           UNCHANGED <<accounts, verified, records>>, mailed' \in SUBSET accounts,
           counts' \in [requests : Nat, edits : Nat, kills : Nat, swipes : Nat, failures : Nat],
           "EditProfileVC" \notin traps'
    PROVE  AccountsInv'
<1>1. TypeInv'
    BY DEF AccountsInv, TypeInv, Restart, Screens
<1>2. ScreenInv'
    BY FirstShape, SMTT(60) DEF AccountsInv, TypeInv, ScreenInv, Restart
<1>3. AuthInv'
    BY SMTT(60) DEF AccountsInv, TypeInv, AuthInv, Known, Restart
<1>4. PutsInv'
    BY SMTT(60) DEF AccountsInv, TypeInv, PutsInv, Restart
<1>5. SignedInOnTabs'
    <2>1. \A e \in Devices \ {d} : /\ stack'[e] = stack[e] /\ editing'[e] = editing[e]
                                   /\ current'[e] = current[e]
        BY DEF Restart, AccountsInv, TypeInv
    <2>2. Last(stack'[d]) = "appearing"
        BY DEF Restart, AccountsInv, TypeInv, Last
    <2> QED  BY <2>1, <2>2 DEF AccountsInv, SignedInOnTabs, Top
<1>6. RecordHasAccount'
    BY SMTT(60) DEF AccountsInv, TypeInv, RecordHasAccount, Restart
<1> QED
    BY <1>1, <1>2, <1>3, <1>4, <1>5, <1>6 DEF AccountsInv

\* What the bounds count.
LEMMA CountKeeps ==
    ASSUME TypeInv, NEW what \in {"requests", "edits", "kills", "swipes", "failures"},
           NEW max, Count(what, max)
    PROVE  counts' \in [requests : Nat, edits : Nat, kills : Nat, swipes : Nat, failures : Nat]
<1>1. counts \in [requests : Nat, edits : Nat, kills : Nat, swipes : Nat, failures : Nat]
    BY DEF TypeInv
<1>2. counts' = [counts EXCEPT ![what] = counts[what] + 1]
    BY DEF Count
<1>3. CASE what = "requests"
    BY <1>1, <1>2, <1>3
<1>4. CASE what = "edits"
    BY <1>1, <1>2, <1>4
<1>5. CASE what = "kills"
    BY <1>1, <1>2, <1>5
<1>6. CASE what = "swipes"
    BY <1>1, <1>2, <1>6
<1>7. CASE what = "failures"
    BY <1>1, <1>2, <1>7
<1> QED
    BY <1>3, <1>4, <1>5, <1>6, <1>7

\* A step that leaves users, calls, callbacks and records alone.
LEMMA QuietStep ==
    ASSUME AccountsInv,
           UNCHANGED <<accounts, verified, mailed, records, puts, current, requests,
                       mainQueue, traps>>,
           counts' \in [requests : Nat, edits : Nat, kills : Nat, swipes : Nat, failures : Nat],
           stack' \in [Devices -> Seq(Screens)],
           editing' \in [Devices -> Users \cup {NoUser}],
           \A e \in Devices :
              /\ Shape(stack'[e])
              /\ \A r : Anchored(stack[e], r) => Anchored(stack'[e], r)
              /\ editing'[e] \in {editing[e], current[e]}
              /\ Last(stack'[e]) \in {"tabs", "edit"} => current[e] # NoUser
              /\ Last(stack'[e]) = "edit" => editing'[e] # NoUser
    PROVE  AccountsInv'
<1>1. TypeInv'
    BY DEF AccountsInv, TypeInv
<1>2. ScreenInv'
    BY DEF AccountsInv, ScreenInv
<1>3. AuthInv'
    BY DEF AccountsInv, AuthInv, Known
<1>4. SignedInOnTabs'
    BY DEF AccountsInv, SignedInOnTabs, Top
<1>5. PutsInv' /\ RecordHasAccount'
    BY DEF AccountsInv, PutsInv, RecordHasAccount
<1> QED
    BY <1>1, <1>2, <1>3, <1>4, <1>5 DEF AccountsInv

-------------------------------------------------------------------------------
\* LoginVC

\* The log-in screen has appeared.
LEMMA AppearedShape ==
    ASSUME NEW st, Shape(st), Last(st) = "appearing"
    PROVE  /\ Shape(Append(Front(st), "login"))
           /\ Last(Append(Front(st), "login")) = "login"
           /\ \A r : Anchored(st, r) => Anchored(Append(Front(st), "login"), r)
<1> DEFINE front == Front(st)
           new == Append(front, "login")
<1>1. Len(st) \in Nat /\ Len(st) >= 1 /\ st \in Seq(Screens) /\ st[Len(st)] = "appearing"
    BY LenProperties DEF Shape, Last
<1>2. /\ front \in Seq(Screens) /\ Len(front) = Len(st) - 1
      /\ \A i \in 1 .. Len(st) - 1 : front[i] = st[i]
    BY <1>1, FrontProperties
<1> HIDE DEF front
<1>3. "login" \in Screens
    BY DEF Screens
<1>4. /\ new \in Seq(Screens) /\ Len(new) = Len(front) + 1
      /\ \A i \in 1 .. Len(front) : new[i] = front[i]
      /\ new[Len(front) + 1] = "login"
    BY <1>2, <1>3, AppendProperties
<1> HIDE DEF new
<1>5. Len(new) = Len(st) /\ new[Len(st)] = "login"
    BY <1>1, <1>2, <1>4
<1>6. \A i \in 1 .. Len(st) : i # Len(st) => new[i] = st[i]
    BY <1>1, <1>2, <1>4
<1>7. \A i \in 1 .. Len(st) - 1 : On(new[i], new[i + 1])
    <2> SUFFICES ASSUME NEW i \in 1 .. Len(st) - 1 PROVE On(new[i], new[i + 1])
        OBVIOUS
    <2>1. i \in 1 .. Len(st) /\ i + 1 \in 1 .. Len(st) /\ i # Len(st)
        BY <1>1
    <2>2. On(st[i], st[i + 1])
        BY DEF Shape
    <2>3. CASE i + 1 = Len(st)
        BY <2>1, <2>2, <2>3, <1>1, <1>5, <1>6 DEF On
    <2>4. CASE i + 1 # Len(st)
        BY <2>1, <2>2, <2>4, <1>6
    <2> QED  BY <2>3, <2>4
<1>8. \A i \in 1 .. Len(st) :
          new[i] \in {"appearing", "login", "register", "edit"} => i <= MaxDepth
    <2>1. Len(st) \in 1 .. Len(st)
        BY <1>1
    <2> QED  BY <2>1, <1>1, <1>5, <1>6 DEF Shape
<1>9. new[1] \in {"appearing", "login"}
    <2>1. 1 \in 1 .. Len(st)
        BY <1>1
    <2> QED  BY <2>1, <1>5, <1>6 DEF Shape
<1>10. ASSUME NEW r, Anchored(st, r) PROVE Anchored(new, r)
    BY <1>1, <1>5, <1>6, <1>10 DEF Anchored
<1>11. Shape(new)
    BY <1>1, <1>4, <1>5, <1>7, <1>8, <1>9 DEF Shape
<1> QED
    BY <1>5, <1>10, <1>11 DEF Last, new, front

\* viewDidAppear.
LEMMA ViewDidAppearKeeps ==
    ASSUME AccountsInv, NEW d \in Devices, ViewDidAppear(d)
    PROVE  AccountsInv'
<1> DEFINE shown == Append(Front(stack[d]), "login")
           new == IF current[d] # NoUser /\ GoesIn(current[d]) THEN Append(shown, "tabs") ELSE shown
<1>1. Shape(stack[d]) /\ Last(stack[d]) = "appearing"
    BY DEF AccountsInv, ScreenInv, ViewDidAppear, Top
<1>2. /\ Shape(shown) /\ Last(shown) = "login"
      /\ \A r : Anchored(stack[d], r) => Anchored(shown, r)
    BY <1>1, AppearedShape
<1> HIDE DEF shown
<1>3. /\ Shape(Append(shown, "tabs")) /\ Last(Append(shown, "tabs")) = "tabs"
      /\ \A r : Anchored(shown, r) => Anchored(Append(shown, "tabs"), r)
    <2>1. "tabs" \in Screens /\ On(shown[Len(shown)], "tabs")
        BY <1>2, ShapeDepth DEF Screens, On
    <2> QED  BY <1>2, <2>1, PushShape
<1>4. /\ Shape(new) /\ \A r : Anchored(stack[d], r) => Anchored(new, r)
      /\ Last(new) # "edit" /\ (Last(new) = "tabs" => current[d] # NoUser)
    BY <1>2, <1>3
<1>5. stack' = [stack EXCEPT ![d] = new]
    BY DEF ViewDidAppear, shown
<1> HIDE DEF new
<1>6. stack' \in [Devices -> Seq(Screens)]
    BY <1>4, <1>5 DEF AccountsInv, TypeInv, Shape
<1>7. \A e \in Devices :
          /\ Shape(stack'[e])
          /\ \A r : Anchored(stack[e], r) => Anchored(stack'[e], r)
          /\ Last(stack'[e]) \in {"tabs", "edit"} => current[e] # NoUser
          /\ Last(stack'[e]) = "edit" => editing[e] # NoUser
    BY <1>4, <1>5 DEF AccountsInv, TypeInv, ScreenInv, SignedInOnTabs, Top
<1>8. /\ UNCHANGED <<accounts, verified, mailed, records, puts, current, requests,
                     mainQueue, traps, editing, counts>>
      /\ editing \in [Devices -> Users \cup {NoUser}]
      /\ counts \in [requests : Nat, edits : Nat, kills : Nat, swipes : Nat, failures : Nat]
    BY DEF ViewDidAppear, AccountsInv, TypeInv, serverVars
<1> QED
    BY <1>6, <1>7, <1>8, QuietStep

\* A tap that makes FIRAuth sign somebody in or up.
LEMMA AskKeeps ==
    ASSUME AccountsInv, NEW d \in Devices, NEW kind, NEW e \in Emails, Ask(d, kind, e),
           \/ kind = "signIn" /\ Top(d) = "login"
           \/ kind = "create" /\ Top(d) = "register"
    PROVE  AccountsInv'
<1> DEFINE r == [id |-> counts.requests, kind |-> kind, email |-> e,
                 from |-> Depth(d), stage |-> "sent"]
<1>1. /\ requests' = [requests EXCEPT ![d] = requests[d] \cup {r}]
      /\ UNCHANGED <<serverVars, puts, current, mainQueue, stack, editing, traps>>
      /\ counts' = [counts EXCEPT !["requests"] = @ + 1]
    BY DEF Ask, Count
<1>2. Shape(stack[d]) /\ Len(stack[d]) \in 1 .. MaxDepth + 1
    BY ShapeDepth DEF AccountsInv, ScreenInv
<1>3. counts.requests \in Nat /\ counts' \in
         [requests : Nat, edits : Nat, kills : Nat, swipes : Nat, failures : Nat]
    BY CountKeeps DEF Ask, AccountsInv, TypeInv
<1>4. r \in Calls
    BY <1>2, <1>3, AccountsAssumption DEF Calls, Depth
<1>5. Anchored(stack[d], r)
    <2>1. Len(stack[d]) \in 1 .. Len(stack[d])
        BY <1>2, AccountsAssumption
    <2> QED  BY <2>1 DEF Anchored, Top, Depth, Last
<1>6. r.stage = "sent"
    OBVIOUS
<1> HIDE DEF r
<1>7. requests' \in [Devices -> SUBSET Calls]
    BY <1>1, <1>4 DEF AccountsInv, TypeInv
<1>8. \A f \in Devices : \A q \in requests'[f] : q \in requests[f] \/ (f = d /\ q = r)
    BY <1>1 DEF AccountsInv, TypeInv
<1>9. TypeInv'
    BY <1>1, <1>3, <1>7 DEF AccountsInv, TypeInv, serverVars
<1>10. ScreenInv'
    BY <1>1, <1>5, <1>8 DEF AccountsInv, ScreenInv
<1>11. AuthInv'
    BY <1>1, <1>6, <1>8 DEF AccountsInv, AuthInv, Known, serverVars
<1>12. PutsInv' /\ SignedInOnTabs' /\ RecordHasAccount'
    BY <1>1 DEF AccountsInv, PutsInv, SignedInOnTabs, RecordHasAccount, Top, serverVars
<1> QED
    BY <1>9, <1>10, <1>11, <1>12 DEF AccountsInv
-------------------------------------------------------------------------------
\* The callbacks

\* What is left of a queue was in it before.
LEMMA TailProperties ==
    ASSUME NEW S, NEW s \in Seq(S), s # <<>>
    PROVE  /\ Head(s) \in S /\ 1 \in 1 .. Len(s) /\ s[1] = Head(s)
           /\ Tail(s) \in Seq(S)
           /\ \A i \in 1 .. Len(Tail(s)) : i + 1 \in 1 .. Len(s) /\ Tail(s)[i] = s[i + 1]
<1>1. /\ Len(s) \in Nat /\ Len(s) # 0 /\ Head(s) = s[1] /\ Tail(s) \in Seq(S)
      /\ Len(Tail(s)) = Len(s) - 1
      /\ \A i \in 1 .. Len(Tail(s)) : Tail(s)[i] = s[i + 1]
    BY HeadTailProperties, EmptySeq, LenProperties
<1>2. 1 \in 1 .. Len(s)
    BY <1>1
<1>3. \A i \in 1 .. Len(Tail(s)) : i + 1 \in 1 .. Len(s)
    BY <1>1
<1> QED
    BY <1>1, <1>2, <1>3, ElementOfSeq

\* The elements of a sequence with others behind it.
LEMMA ConcatElements ==
    ASSUME NEW S, NEW s \in Seq(S), NEW t \in Seq(S)
    PROVE  /\ s \o t \in Seq(S)
           /\ \A i \in 1 .. Len(s \o t) :
                 \/ \E j \in 1 .. Len(s) : (s \o t)[i] = s[j]
                 \/ \E j \in 1 .. Len(t) : (s \o t)[i] = t[j]
<1>1. /\ s \o t \in Seq(S) /\ Len(s \o t) = Len(s) + Len(t)
      /\ Len(s) \in Nat /\ Len(t) \in Nat
      /\ \A i \in 1 .. Len(s) + Len(t) :
            (s \o t)[i] = IF i <= Len(s) THEN s[i] ELSE t[i - Len(s)]
    BY ConcatProperties, LenProperties
<1>2. ASSUME NEW i \in 1 .. Len(s \o t)
      PROVE  \/ \E j \in 1 .. Len(s) : (s \o t)[i] = s[j]
             \/ \E j \in 1 .. Len(t) : (s \o t)[i] = t[j]
    <2>1. CASE i <= Len(s)
        BY <1>1, <2>1
    <2>2. CASE ~(i <= Len(s))
        <3>1. i - Len(s) \in 1 .. Len(t)
            BY <1>1, <2>2
        <3> QED  BY <1>1, <2>2, <3>1
    <2> QED  BY <2>1, <2>2
<1> QED
    BY <1>1, <1>2

\* A callback that is run presents a screen where its call was made and may
\* write to the database.
LEMMA CallbackStep ==
    ASSUME AccountsInv, NEW d \in Devices, mainQueue[d] # <<>>,
           mainQueue' = [mainQueue EXCEPT ![d] = Tail(@)],
           UNCHANGED <<accounts, verified, records, current, requests, editing, traps, counts>>,
           mailed' \in SUBSET accounts,
           NEW new \in Seq(Puts), puts' = [puts EXCEPT ![d] = @ \o new],
           \A i \in 1 .. Len(new) : /\ new[i].email \in accounts
                                    /\ new[i].whole => Required \subseteq new[i].fields,
           NEW from, NEW screen \in {"tabs", "alert", "success"}, Present(d, from, screen),
           from = Depth(d) => On(Top(d), screen),
           screen = "tabs" => current[d] # NoUser
    PROVE  AccountsInv'
<1> USE DEF AccountsInv
<1>1. /\ mainQueue[d] \in Seq(Callbacks) /\ puts[d] \in Seq(Puts)
    BY DEF TypeInv
<1>2. /\ Tail(mainQueue[d]) \in Seq(Callbacks)
      /\ \A i \in 1 .. Len(Tail(mainQueue[d])) :
            i + 1 \in 1 .. Len(mainQueue[d]) /\ Tail(mainQueue[d])[i] = mainQueue[d][i + 1]
    BY <1>1, TailProperties
<1>3. /\ puts[d] \o new \in Seq(Puts)
      /\ \A i \in 1 .. Len(puts[d] \o new) :
            \/ \E j \in 1 .. Len(puts[d]) : (puts[d] \o new)[i] = puts[d][j]
            \/ \E j \in 1 .. Len(new) : (puts[d] \o new)[i] = new[j]
    <2>1. ASSUME NEW s \in Seq(Puts), NEW t \in Seq(Puts)
          PROVE  /\ s \o t \in Seq(Puts)
                 /\ \A i \in 1 .. Len(s \o t) :
                       \/ \E j \in 1 .. Len(s) : (s \o t)[i] = s[j]
                       \/ \E j \in 1 .. Len(t) : (s \o t)[i] = t[j]
        BY ConcatElements
    <2> QED  BY <1>1, <2>1
<1>4. /\ mainQueue'[d] = Tail(mainQueue[d]) /\ puts'[d] = puts[d] \o new
      /\ \A e \in Devices \ {d} : mainQueue'[e] = mainQueue[e] /\ puts'[e] = puts[e]
      /\ mainQueue' \in [Devices -> Seq(Callbacks)] /\ puts' \in [Devices -> Seq(Puts)]
    BY <1>2, <1>3 DEF TypeInv
<1>5. /\ stack' \in [Devices -> Seq(Screens)]
      /\ \A e \in Devices :
            /\ Shape(stack'[e])
            /\ \A r : Anchored(stack[e], r) => Anchored(stack'[e], r)
      /\ stack' # stack => from = Depth(d) /\ Last(stack'[d]) = screen
      /\ \A e \in Devices \ {d} : stack'[e] = stack[e]
    <2>1. screen \in Screens /\ screen \notin {"appearing", "login", "register", "edit"}
        BY DEF Screens
    <2> QED  BY <2>1, PresentKeeps
<1>6. TypeInv'
    BY <1>4, <1>5 DEF TypeInv
<1>7. ScreenInv'
    <2> SUFFICES ASSUME NEW e \in Devices
                 PROVE  /\ Shape(stack'[e])
                        /\ \A r \in requests[e] : Anchored(stack'[e], r)
                        /\ \A i \in 1 .. Len(mainQueue'[e]) : Anchored(stack'[e], mainQueue'[e][i])
        BY DEF ScreenInv
    <2>1. Shape(stack'[e]) /\ \A r \in requests[e] : Anchored(stack'[e], r)
        BY <1>5 DEF ScreenInv
    <2>2. \A i \in 1 .. Len(mainQueue[e]) : Anchored(stack'[e], mainQueue[e][i])
        BY <1>5 DEF ScreenInv
    <2>3. CASE e = d
        BY <2>1, <2>2, <2>3, <1>2, <1>4
    <2>4. CASE e # d
        BY <2>1, <2>2, <2>4, <1>4
    <2> QED  BY <2>3, <2>4
<1>8. AuthInv'
    <2>1. \A e \in Devices : \A i \in 1 .. Len(mainQueue'[e]) :
              mainQueue'[e][i].ok => mainQueue'[e][i].email \in accounts
        BY <1>2, <1>4 DEF AuthInv
    <2> QED  BY <2>1 DEF AuthInv, Known
<1>9. \A e \in Devices : \A i \in 1 .. Len(puts'[e]) :
          /\ puts'[e][i].email \in accounts
          /\ puts'[e][i].whole => Required \subseteq puts'[e][i].fields
    <2>1. \A e \in Devices : \A i \in 1 .. Len(puts[e]) :
              /\ puts[e][i].email \in accounts
              /\ puts[e][i].whole => Required \subseteq puts[e][i].fields
        BY LenProperties DEF TypeInv, PutsInv, RecordHasAccount
    <2>2. \A i \in 1 .. Len(puts'[d]) :
              /\ puts'[d][i].email \in accounts
              /\ puts'[d][i].whole => Required \subseteq puts'[d][i].fields
        BY <2>1, <1>3, <1>4
    <2> QED  BY <2>1, <2>2, <1>4
<1>10. PutsInv' /\ RecordHasAccount'
    <2>1. \A e \in Devices : DOMAIN puts'[e] = 1 .. Len(puts'[e])
        BY <1>4, LenProperties
    <2> QED  BY <2>1, <1>9 DEF PutsInv, RecordHasAccount
<1>11. SignedInOnTabs'
    BY <1>5 DEF SignedInOnTabs, Top
<1> QED
    BY <1>6, <1>7, <1>8, <1>10, <1>11
\* The block of signIn.
LEMMA LoginCallbackKeeps ==
    ASSUME AccountsInv, NEW d \in Devices, LoginCallback(d)
    PROVE  AccountsInv'
<1> DEFINE cb == Head(mainQueue[d])
<1>1. /\ mainQueue[d] # <<>> /\ cb.kind = "signIn"
      /\ UNCHANGED <<accounts, verified, mailed, records, counts>>
    BY DEF LoginCallback, serverVars
<1>2. /\ mailed \in SUBSET accounts /\ mainQueue[d] \in Seq(Callbacks)
      /\ counts \in [requests : Nat, edits : Nat, kills : Nat, swipes : Nat, failures : Nat]
      /\ "EditProfileVC" \notin traps
    BY DEF AccountsInv, TypeInv, SignedInOnTabs
<1>3. cb.from \in 1 .. Len(stack[d]) /\ stack[d][cb.from] = "login"
    <2>1. 1 \in 1 .. Len(mainQueue[d]) /\ mainQueue[d][1] = cb
        BY <1>1, <1>2, TailProperties
    <2> QED  BY <1>1, <2>1 DEF AccountsInv, ScreenInv, Anchored
<1>4. CASE cb.ok /\ current[d] = NoUser /\ Trap(d, "LoginVC")
    <2>1. Restart(d) /\ "EditProfileVC" \notin traps'
        BY <1>2, <1>4 DEF Trap
    <2> QED  BY <1>1, <1>2, <2>1, RestartKeeps
<1>5. CASE /\ ~(cb.ok /\ current[d] = NoUser)
           /\ Present(d, cb.from, IF cb.ok /\ GoesIn(current[d]) THEN "tabs" ELSE "alert")
           /\ mainQueue' = [mainQueue EXCEPT ![d] = Tail(@)]
           /\ UNCHANGED <<puts, current, requests, editing, traps>>
    <2> DEFINE screen == IF cb.ok /\ GoesIn(current[d]) THEN "tabs" ELSE "alert"
    <2>1. screen \in {"tabs", "alert"} /\ (screen = "tabs" => current[d] # NoUser)
        BY <1>5
    <2>2. Present(d, cb.from, screen)
        BY <1>5
    <2>3. cb.from = Depth(d) => On(Top(d), screen)
        BY <1>3, <2>1 DEF On, Top, Depth, Last
    <2> HIDE DEF screen
    <2>4. <<>> \in Seq(Puts) /\ puts' = [puts EXCEPT ![d] = @ \o <<>>] /\ Len(<<>>) = 0
        <3>1. puts[d] \in Seq(Puts)
            BY DEF AccountsInv, TypeInv
        <3>2. puts[d] \o <<>> = puts[d]
            BY <3>1, ConcatEmptySeq
        <3> QED  BY <1>5, <3>2 DEF AccountsInv, TypeInv
    <2>5. \A i \in 1 .. 0 : FALSE
        OBVIOUS
    <2> QED
        BY <1>1, <1>2, <1>5, <2>1, <2>2, <2>3, <2>4, <2>5, CallbackStep
<1> QED
    BY <1>4, <1>5 DEF LoginCallback

\* The block of createUser.
LEMMA RegistrationCallbackKeeps ==
    ASSUME AccountsInv, NEW d \in Devices, RegistrationCallback(d)
    PROVE  AccountsInv'
<1> DEFINE cb == Head(mainQueue[d])
<1>1. /\ mainQueue[d] # <<>> /\ cb.kind = "create"
      /\ UNCHANGED <<accounts, verified, records, counts>>
    BY DEF RegistrationCallback
<1>2. /\ mainQueue[d] \in Seq(Callbacks)
      /\ counts \in [requests : Nat, edits : Nat, kills : Nat, swipes : Nat, failures : Nat]
      /\ "EditProfileVC" \notin traps
    BY DEF AccountsInv, TypeInv, SignedInOnTabs
<1>3. /\ cb.from = 0 \/ (cb.from \in 1 .. Len(stack[d]) /\ stack[d][cb.from] = "register")
      /\ cb.ok => cb.email \in accounts
      /\ cb \in Callbacks
    <2>1. 1 \in 1 .. Len(mainQueue[d]) /\ mainQueue[d][1] = cb /\ cb \in Callbacks
        BY <1>1, <1>2, TailProperties
    <2>2. Anchored(stack[d], cb)
        BY <2>1 DEF AccountsInv, ScreenInv
    <2> QED  BY <1>1, <2>1, <2>2 DEF AccountsInv, AuthInv, Anchored
<1>4. mailed' \in SUBSET accounts
    BY DEF RegistrationCallback, AccountsInv, TypeInv, AuthInv, Known
<1>5. CASE cb.ok /\ cb.from = 0 /\ Trap(d, "RegistrationVC")
    <2>1. Restart(d) /\ "EditProfileVC" \notin traps'
        BY <1>2, <1>5 DEF Trap
    <2> QED  BY <1>1, <1>2, <1>4, <2>1, RestartKeeps
<1>6. CASE /\ ~(cb.ok /\ cb.from = 0)
           /\ puts' = [puts EXCEPT ![d] = @ \o Record(cb)]
           /\ Present(d, cb.from, IF cb.ok THEN "success" ELSE "alert")
           /\ mainQueue' = [mainQueue EXCEPT ![d] = Tail(@)]
           /\ UNCHANGED <<current, requests, editing, traps>>
    <2> DEFINE screen == IF cb.ok THEN "success" ELSE "alert"
               put == [email |-> cb.email, fields |-> RegistrationFields, whole |-> TRUE]
    <2>1. screen \in {"success", "alert"} /\ Present(d, cb.from, screen)
        BY <1>6
    <2>2. cb.from = Depth(d) => On(Top(d), screen)
        <3>1. Depth(d) # 0
            BY ShapeDepth, AccountsAssumption DEF AccountsInv, ScreenInv, Depth
        <3> QED  BY <1>3, <2>1, <3>1 DEF On, Top, Depth, Last
    <2> HIDE DEF screen
    <2>3. /\ put \in Puts /\ put.email = cb.email /\ Required \subseteq put.fields
        BY <1>3 DEF Puts, Callbacks, Required, RegistrationFields, Fields
    <2> HIDE DEF put
    <2>4. /\ Record(cb) \in Seq(Puts)
          /\ \A i \in 1 .. Len(Record(cb)) : /\ Record(cb)[i].email \in accounts
                                             /\ Record(cb)[i].whole => Required \subseteq Record(cb)[i].fields
        <3>1. CASE cb.ok
            <4>1. Record(cb) = <<put>>
                BY <3>1 DEF Record, put
            <4>2. Len(<<put>>) = 1 /\ <<put>>[1] = put /\ <<put>> \in Seq(Puts)
                BY <2>3
            <4>3. \A i \in 1 .. 1 : i = 1
                OBVIOUS
            <4> QED  BY <1>3, <2>3, <3>1, <4>1, <4>2, <4>3
        <3>2. CASE ~cb.ok
            <4>1. Record(cb) = <<>> /\ <<>> \in Seq(Puts) /\ Len(<<>>) = 0
                BY <3>2 DEF Record
            <4>2. \A i \in 1 .. 0 : FALSE
                OBVIOUS
            <4> QED  BY <4>1, <4>2
        <3> QED  BY <3>1, <3>2
    <2> QED
        BY <1>1, <1>2, <1>4, <1>6, <2>1, <2>2, <2>4, CallbackStep
<1> QED
    BY <1>5, <1>6 DEF RegistrationCallback
-------------------------------------------------------------------------------
\* Screens that the user opens and closes

\* The user opens the registration sheet, or its form is refused.
LEMMA SheetOpens ==
    ASSUME AccountsInv, NEW d \in Devices, OpenRegistration(d) \/ RegistrationRefused(d)
    PROVE  AccountsInv'
<1> USE DEF AccountsInv
<1>1. PICK screen \in {"register", "alert"} :
          /\ On(Top(d), screen) /\ Depth(d) < MaxDepth /\ Present(d, Depth(d), screen)
    BY DEF OpenRegistration, RegistrationRefused, On
<1>2. /\ stack' \in [Devices -> Seq(Screens)]
      /\ \A e \in Devices :
            /\ Shape(stack'[e])
            /\ \A r : Anchored(stack[e], r) => Anchored(stack'[e], r)
      /\ stack' # stack => Last(stack'[d]) = screen
      /\ \A e \in Devices \ {d} : stack'[e] = stack[e]
    <2>1. screen \in Screens
        BY DEF Screens
    <2> QED  BY <1>1, <2>1, PresentKeeps
<1>3. \A e \in Devices :
          /\ Last(stack'[e]) \in {"tabs", "edit"} => current[e] # NoUser
          /\ Last(stack'[e]) = "edit" => editing[e] # NoUser
    BY <1>2 DEF SignedInOnTabs, Top
<1>4. /\ UNCHANGED <<accounts, verified, mailed, records, puts, current, requests,
                     mainQueue, traps, editing, counts>>
      /\ editing \in [Devices -> Users \cup {NoUser}]
      /\ counts \in [requests : Nat, edits : Nat, kills : Nat, swipes : Nat, failures : Nat]
    BY DEF OpenRegistration, RegistrationRefused, TypeInv, serverVars
<1> QED
    BY <1>2, <1>3, <1>4, QuietStep

\* Broken off or not, a sign-out ends on the log-in screen.
LEMMA SignOutKeeps ==
    ASSUME AccountsInv, NEW d \in Devices, SignOutAction(d)
    PROVE  AccountsInv'
<1> USE DEF AccountsInv
<1>1. /\ On(Top(d), "appearing") /\ Depth(d) < MaxDepth /\ Present(d, Depth(d), "appearing")
      /\ UNCHANGED <<accounts, verified, mailed, records, puts, requests, mainQueue, editing,
                     traps, counts>>
      /\ current' \in {current, [current EXCEPT ![d] = NoUser]}
    BY DEF SignOutAction, serverVars, On
<1>2. /\ stack' \in [Devices -> Seq(Screens)]
      /\ \A e \in Devices :
            /\ Shape(stack'[e])
            /\ \A r : Anchored(stack[e], r) => Anchored(stack'[e], r)
      /\ stack' # stack => Last(stack'[d]) = "appearing"
      /\ \A e \in Devices \ {d} : stack'[e] = stack[e]
    <2>1. "appearing" \in Screens
        BY DEF Screens
    <2> QED  BY <1>1, <2>1, PresentKeeps
<1>3. Last(stack'[d]) = "appearing"
    <2>1. Shape(stack[d]) /\ "appearing" \in Screens /\ stack[d][Len(stack[d])] = Last(stack[d])
        BY ShapeDepth DEF ScreenInv, Screens
    <2>2. stack'[d] = Append(stack[d], "appearing")
        BY <1>1 DEF Present, TypeInv
    <2>3. Last(Append(stack[d], "appearing")) = "appearing"
        BY <1>1, <2>1, PushShape DEF Top, Depth
    <2> QED  BY <2>2, <2>3
<1>4. TypeInv'
    BY <1>1, <1>2 DEF TypeInv
<1>5. ScreenInv'
    BY <1>1, <1>2 DEF ScreenInv
<1>6. \A e \in Devices : current'[e] \in {current[e], NoUser}
    BY <1>1 DEF TypeInv
<1>7. AuthInv'
    BY <1>1, <1>6 DEF AuthInv, Known
<1>8. SignedInOnTabs'
    <2>1. \A e \in Devices \ {d} : current'[e] = current[e] /\ stack'[e] = stack[e]
        BY <1>1, <1>2 DEF TypeInv
    <2> QED  BY <1>1, <1>3, <2>1 DEF SignedInOnTabs, Top
<1>9. PutsInv' /\ RecordHasAccount'
    BY <1>1 DEF PutsInv, RecordHasAccount
<1> QED
    BY <1>4, <1>5, <1>7, <1>8, <1>9

\* The profile editor takes the user of now.
LEMMA OpenEditKeeps ==
    ASSUME AccountsInv, NEW d \in Devices, OpenEdit(d)
    PROVE  AccountsInv'
<1> USE DEF AccountsInv
<1>1. /\ On(Top(d), "edit") /\ Depth(d) < MaxDepth /\ Present(d, Depth(d), "edit")
      /\ UNCHANGED <<accounts, verified, mailed, records, puts, current, requests, mainQueue,
                     traps>>
      /\ editing' = [editing EXCEPT ![d] = current[d]]
      /\ current[d] # NoUser
    BY DEF OpenEdit, serverVars, On, SignedInOnTabs
<1>2. /\ stack' \in [Devices -> Seq(Screens)]
      /\ \A e \in Devices :
            /\ Shape(stack'[e])
            /\ \A r : Anchored(stack[e], r) => Anchored(stack'[e], r)
      /\ \A e \in Devices \ {d} : stack'[e] = stack[e]
    <2>1. "edit" \in Screens
        BY DEF Screens
    <2> QED  BY <1>1, <2>1, PresentKeeps
<1>3. counts' \in [requests : Nat, edits : Nat, kills : Nat, swipes : Nat, failures : Nat]
    BY CountKeeps DEF OpenEdit
<1>4. /\ editing' \in [Devices -> Users \cup {NoUser}]
      /\ \A e \in Devices : editing'[e] = IF e = d THEN current[e] ELSE editing[e]
    BY <1>1 DEF TypeInv
<1>5. \A e \in Devices :
          /\ Last(stack'[e]) \in {"tabs", "edit"} => current[e] # NoUser
          /\ Last(stack'[e]) = "edit" => editing'[e] # NoUser
    BY <1>1, <1>2, <1>4 DEF SignedInOnTabs, Top
<1> QED
    BY <1>1, <1>2, <1>3, <1>4, <1>5, QuietStep

\* The weak self of the calls of a closed registration sheet is nil: no call
\* is left that counts on the sheet.
LEMMA ForgetKeeps ==
    ASSUME AccountsInv, NEW d \in Devices, NEW depth \in Nat, Forget(d, depth),
           UNCHANGED <<accounts, verified, mailed, records, puts, current, editing, traps>>,
           counts' \in [requests : Nat, edits : Nat, kills : Nat, swipes : Nat, failures : Nat],
           stack' \in [Devices -> Seq(Screens)],
           stack[d][depth] = "register",
           \A e \in Devices : Shape(stack'[e]),
           \A e \in Devices \ {d} : stack'[e] = stack[e],
           \A r : Anchored(stack[d], r) /\ r.from # depth => Anchored(stack'[d], r),
           Last(stack'[d]) \notin {"tabs", "edit"}
    PROVE  AccountsInv'
<1> USE DEF AccountsInv
<1> DEFINE forget(r) == IF r.kind = "create" /\ r.from = depth THEN [r EXCEPT !.from = 0] ELSE r
           queue == [i \in DOMAIN mainQueue[d] |-> forget(mainQueue[d][i])]
<1>1. /\ requests' = [requests EXCEPT ![d] = {forget(r) : r \in requests[d]}]
      /\ mainQueue' = [mainQueue EXCEPT ![d] = queue]
    BY DEF Forget
<1>2. \A r \in Calls : /\ forget(r) \in Calls /\ forget(r).kind = r.kind
                       /\ forget(r).email = r.email /\ forget(r).stage = r.stage
    BY DEF Calls
<1>3. \A r \in Callbacks : /\ forget(r) \in Callbacks /\ forget(r).kind = r.kind
                           /\ forget(r).email = r.email /\ forget(r).ok = r.ok
    BY DEF Callbacks
<1>4. ASSUME NEW r \in Calls \cup Callbacks, Anchored(stack[d], r)
      PROVE  Anchored(stack'[d], forget(r))
    <2>1. CASE r.kind = "create" /\ r.from = depth
        <3>1. forget(r).kind = "create" /\ forget(r).from = 0
            BY <2>1 DEF Calls, Callbacks
        <3> QED  BY <3>1 DEF Anchored
    <2>2. CASE ~(r.kind = "create" /\ r.from = depth)
        <3>1. r.from # depth
            BY <1>4, <2>2 DEF Anchored
        <3>2. forget(r) = r
            BY <2>2
        <3> QED  BY <1>4, <3>1, <3>2
    <2> QED  BY <2>1, <2>2
<1> HIDE DEF forget
<1>5. /\ mainQueue[d] \in Seq(Callbacks) /\ Len(mainQueue[d]) \in Nat
      /\ DOMAIN mainQueue[d] = 1 .. Len(mainQueue[d])
      /\ \A i \in 1 .. Len(mainQueue[d]) : mainQueue[d][i] \in Callbacks
    BY LenProperties, ElementOfSeq DEF TypeInv
<1>6. /\ queue \in Seq(Callbacks) /\ Len(queue) = Len(mainQueue[d])
      /\ \A i \in 1 .. Len(mainQueue[d]) : queue[i] = forget(mainQueue[d][i])
    BY <1>3, <1>5
<1> HIDE DEF queue
<1>7. requests[d] \in SUBSET Calls
    BY DEF TypeInv
<1>8. /\ requests' \in [Devices -> SUBSET Calls] /\ mainQueue' \in [Devices -> Seq(Callbacks)]
      /\ \A e \in Devices \ {d} : requests'[e] = requests[e] /\ mainQueue'[e] = mainQueue[e]
      /\ requests'[d] = {forget(r) : r \in requests[d]} /\ mainQueue'[d] = queue
    BY <1>1, <1>2, <1>6, <1>7, SMTT(60) DEF TypeInv
<1>9. TypeInv'
    BY <1>8 DEF TypeInv
<1>10. ScreenInv'
    <2>1. \A r \in requests'[d] : Anchored(stack'[d], r)
        BY <1>4, <1>7, <1>8 DEF ScreenInv
    <2>2. \A i \in 1 .. Len(mainQueue'[d]) : Anchored(stack'[d], mainQueue'[d][i])
        BY <1>4, <1>5, <1>6, <1>8 DEF ScreenInv
    <2> QED  BY <1>8, <2>1, <2>2 DEF ScreenInv
<1>11. AuthInv'
    <2>1. \A r \in requests'[d] :
              /\ r.stage \in {"created", "found", "foundVerified"} => r.email \in accounts
              /\ r.stage = "foundVerified" => r.email \in verified
        <3> SUFFICES ASSUME NEW q \in requests'[d]
                     PROVE  /\ q.stage \in {"created", "found", "foundVerified"} => q.email \in accounts
                            /\ q.stage = "foundVerified" => q.email \in verified
            OBVIOUS
        <3>1. PICK r \in requests[d] : q = forget(r)
            BY <1>8
        <3>2. q.stage = r.stage /\ q.email = r.email
            BY <1>2, <1>7, <3>1
        <3> QED  BY <3>2 DEF AuthInv
    <2>2. \A i \in 1 .. Len(mainQueue'[d]) :
              mainQueue'[d][i].ok => mainQueue'[d][i].email \in accounts
        <3> SUFFICES ASSUME NEW i \in 1 .. Len(mainQueue[d])
                     PROVE  mainQueue'[d][i].ok => mainQueue'[d][i].email \in accounts
            BY <1>6, <1>8
        <3>1. mainQueue'[d][i] = forget(mainQueue[d][i]) /\ mainQueue[d][i] \in Callbacks
            BY <1>5, <1>6, <1>8
        <3>2. /\ mainQueue'[d][i].ok = mainQueue[d][i].ok
              /\ mainQueue'[d][i].email = mainQueue[d][i].email
            BY <1>3, <3>1
        <3> QED  BY <3>2 DEF AuthInv
    <2> QED  BY <1>8, <2>1, <2>2 DEF AuthInv, Known
<1>12. SignedInOnTabs'
    BY DEF SignedInOnTabs, Top
<1>13. PutsInv' /\ RecordHasAccount'
    BY DEF PutsInv, RecordHasAccount
<1> QED
    BY <1>9, <1>10, <1>11, <1>12, <1>13
\* The registration sheet is swiped away.
LEMMA SwipeDownKeeps ==
    ASSUME AccountsInv, NEW d \in Devices, SwipeDown(d)
    PROVE  AccountsInv'
<1> USE DEF AccountsInv
<1>1. /\ Top(d) = "register" /\ Forget(d, Depth(d))
      /\ stack' = [stack EXCEPT ![d] = Front(@)]
      /\ UNCHANGED <<accounts, verified, mailed, records, puts, current, editing, traps>>
    BY DEF SwipeDown, serverVars
<1>2. /\ stack' \in [Devices -> Seq(Screens)]
      /\ \A e \in Devices : Shape(stack'[e])
      /\ \A e \in Devices \ {d} : stack'[e] = stack[e]
      /\ On(Last(stack'[d]), Top(d)) /\ Depth(d) \in Nat
      /\ \A r : Anchored(stack[d], r) /\ r.from # Depth(d) => Anchored(stack'[d], r)
    BY <1>1, DismissKeeps
<1>3. counts' \in [requests : Nat, edits : Nat, kills : Nat, swipes : Nat, failures : Nat]
    BY CountKeeps DEF SwipeDown
<1>4. Last(stack'[d]) \notin {"tabs", "edit"} /\ stack[d][Depth(d)] = "register"
    BY <1>1, <1>2 DEF On, Top, Depth, Last
<1> QED
    BY <1>1, <1>2, <1>3, <1>4, ForgetKeeps

\* An alert is closed, with the registration sheet if it tells of a success.
LEMMA AlertOkKeeps ==
    ASSUME AccountsInv, NEW d \in Devices, AlertOk(d)
    PROVE  AccountsInv'
<1> USE DEF AccountsInv
<1>1. /\ UNCHANGED <<accounts, verified, mailed, records, puts, current, editing, traps, counts>>
      /\ counts \in [requests : Nat, edits : Nat, kills : Nat, swipes : Nat, failures : Nat]
      /\ editing \in [Devices -> Users \cup {NoUser}]
    BY DEF AlertOk, serverVars, TypeInv
<1>2. CASE /\ Top(d) = "alert"
           /\ stack' = [stack EXCEPT ![d] = Front(@)]
           /\ UNCHANGED <<requests, mainQueue>>
    <2>1. /\ stack' \in [Devices -> Seq(Screens)]
          /\ \A e \in Devices : Shape(stack'[e])
          /\ \A e \in Devices \ {d} : stack'[e] = stack[e]
          /\ On(Last(stack'[d]), Top(d))
          /\ \A r : Anchored(stack[d], r) /\ r.from # Depth(d) => Anchored(stack'[d], r)
        BY <1>2, DismissKeeps
    <2>2. Shape(stack[d]) /\ Depth(d) \in 1 .. MaxDepth + 1 /\ stack[d][Depth(d)] = "alert"
        BY <1>2, ShapeDepth DEF ScreenInv, Depth, Top
    <2>3. \A r : Anchored(stack[d], r) => r.from # Depth(d)
        BY <2>2, AccountsAssumption DEF Anchored
    <2>4. \A e \in Devices :
              /\ \A r : Anchored(stack[e], r) => Anchored(stack'[e], r)
              /\ Last(stack'[e]) \in {"tabs", "edit"} => current[e] # NoUser
              /\ Last(stack'[e]) = "edit" => editing[e] # NoUser
        BY <1>2, <2>1, <2>3 DEF SignedInOnTabs, Top, On
    <2> QED  BY <1>1, <1>2, <2>1, <2>4, QuietStep
<1>3. CASE /\ Top(d) = "success"
           /\ stack' = [stack EXCEPT ![d] = Front(Front(@))]
           /\ Forget(d, Depth(d) - 1)
    <2> DEFINE st == stack[d]
               sheet == Front(st)
    <2>1. /\ Shape(st) /\ st[Len(st)] = "success" /\ Last(st) = "success"
          /\ Len(st) \in Nat /\ Len(st) >= 1
        BY <1>3, ShapeDepth, LenProperties DEF ScreenInv, Top, Shape
    <2>2. Len(st) > 1
        <3>1. \A n \in Nat : n >= 1 => n = 1 \/ n > 1
            OBVIOUS
        <3>2. Len(st) # 1
            BY <2>1 DEF Shape
        <3> QED  BY <2>1, <3>1, <3>2
    <2>3. /\ Shape(sheet) /\ Len(sheet) = Len(st) - 1
          /\ Last(sheet) = st[Len(st) - 1] /\ On(Last(sheet), Last(st))
          /\ \A r : Anchored(st, r) /\ r.from # Len(st) => Anchored(sheet, r)
        BY <2>1, <2>2, PopShape
    <2> HIDE DEF sheet
    <2>4. /\ Last(sheet) = "register" /\ sheet[Len(sheet)] = "register"
          /\ Len(sheet) \in Nat /\ Len(sheet) >= 1 /\ st[Len(st) - 1] = "register"
        BY <2>1, <2>3, ShapeDepth, LenProperties DEF On, Shape
    <2>5. Len(sheet) > 1
        <3>1. \A n \in Nat : n >= 1 => n = 1 \/ n > 1
            OBVIOUS
        <3>2. Len(sheet) # 1
            BY <2>3, <2>4 DEF Shape
        <3> QED  BY <2>4, <3>1, <3>2
    <2>6. /\ Shape(Front(sheet))
          /\ On(Last(Front(sheet)), Last(sheet))
          /\ \A r : Anchored(sheet, r) /\ r.from # Len(sheet) => Anchored(Front(sheet), r)
        BY <2>3, <2>5, PopShape
    <2>7. \A r : Anchored(st, r) => r.from # Len(st)
        BY <2>1 DEF Anchored
    <2>8. stack' = [stack EXCEPT ![d] = Front(sheet)]
        BY <1>3 DEF sheet
    <2> DEFINE below == Front(sheet)
    <2>9. /\ Shape(below) /\ below \in Seq(Screens)
          /\ Last(below) \notin {"tabs", "edit"}
          /\ \A r : Anchored(st, r) /\ r.from # Len(st) - 1 => Anchored(below, r)
        BY <2>3, <2>4, <2>6, <2>7 DEF Shape, On
    <2> HIDE DEF below
    <2>10. stack' = [stack EXCEPT ![d] = below]
        BY <2>8 DEF below
    <2>11. /\ stack' \in [Devices -> Seq(Screens)] /\ stack'[d] = below
           /\ \A e \in Devices : Shape(stack'[e])
           /\ \A e \in Devices \ {d} : stack'[e] = stack[e]
        BY <2>9, <2>10 DEF TypeInv, ScreenInv
    <2>12. Depth(d) - 1 \in Nat /\ stack[d][Depth(d) - 1] = "register"
        BY <2>2, <2>1, <2>4 DEF Depth
    <2>13. Depth(d) = Len(st)
        BY DEF Depth
    <2> QED  BY <1>1, <1>3, <2>9, <2>11, <2>12, <2>13, ForgetKeeps
<1> QED
    BY <1>2, <1>3 DEF AlertOk
-------------------------------------------------------------------------------
\* EditProfileVC and the screens that read "users"

\* The five puts of an edited profile.
LEMMA EditsProperties ==
    ASSUME NEW e \in Emails
    PROVE  /\ Edits(e) \in Seq(Puts)
           /\ \A i \in 1 .. Len(Edits(e)) : Edits(e)[i].email = e /\ ~Edits(e)[i].whole
<1>1. /\ DOMAIN EditedFields = 1 .. 5
      /\ \A i \in 1 .. 5 : EditedFields[i] \in Fields
    <2>1. DOMAIN EditedFields = 1 .. 5
        BY DEF EditedFields
    <2> QED  BY <2>1 DEF Fields
<1> DEFINE put(i) == [email |-> e, fields |-> {EditedFields[i]}, whole |-> FALSE]
<1>2. \A i \in 1 .. 5 : put(i) \in Puts /\ put(i).email = e /\ ~put(i).whole
    BY <1>1 DEF Puts
<1>3. Edits(e) = [i \in 1 .. 5 |-> put(i)]
    BY <1>1 DEF Edits
<1> HIDE DEF put
<1>4. /\ [i \in 1 .. 5 |-> put(i)] \in Seq(Puts)
      /\ Len([i \in 1 .. 5 |-> put(i)]) = 5
    BY <1>2
<1> QED
    BY <1>2, <1>3, <1>4

\* Closing the profile editor.
LEMMA CloseEditKeeps ==
    ASSUME AccountsInv, NEW d \in Devices, CloseEdit(d)
    PROVE  AccountsInv'
<1> USE DEF AccountsInv
<1>1. /\ Top(d) = "edit" /\ editing[d] # NoUser /\ current[d] # NoUser
      /\ UNCHANGED <<accounts, verified, mailed, records, counts>>
      /\ counts \in [requests : Nat, edits : Nat, kills : Nat, swipes : Nat, failures : Nat]
      /\ editing \in [Devices -> Users \cup {NoUser}]
    BY DEF CloseEdit, serverVars, TypeInv, SignedInOnTabs
<1>2. SUFFICES ASSUME stack' = [stack EXCEPT ![d] = Front(@)],
                      UNCHANGED <<requests, mainQueue, editing, current, traps>>,
                      \/ UNCHANGED puts
                      \/ puts' = [puts EXCEPT ![d] = @ \o Edits(editing[d].email)]
               PROVE  AccountsInv'
    BY <1>1 DEF CloseEdit
<1>3. /\ stack' \in [Devices -> Seq(Screens)]
      /\ \A e \in Devices : Shape(stack'[e])
      /\ \A e \in Devices \ {d} : stack'[e] = stack[e]
      /\ On(Last(stack'[d]), Top(d))
      /\ \A r : Anchored(stack[d], r) /\ r.from # Depth(d) => Anchored(stack'[d], r)
    BY <1>1, <1>2, DismissKeeps
<1>4. Shape(stack[d]) /\ Depth(d) \in 1 .. MaxDepth + 1 /\ stack[d][Depth(d)] = "edit"
    BY <1>1, ShapeDepth DEF ScreenInv, Depth, Top
<1>5. \A r : Anchored(stack[d], r) => r.from # Depth(d)
    BY <1>4, AccountsAssumption DEF Anchored
<1>6. \A e \in Devices :
          /\ \A r : Anchored(stack[e], r) => Anchored(stack'[e], r)
          /\ Last(stack'[e]) \in {"tabs", "edit"} => current[e] # NoUser
          /\ Last(stack'[e]) = "edit" => editing[e] # NoUser
    BY <1>1, <1>3, <1>5 DEF SignedInOnTabs, Top, On
<1>7. CASE UNCHANGED puts
    BY <1>1, <1>2, <1>3, <1>6, <1>7, QuietStep
<1>8. CASE puts' = [puts EXCEPT ![d] = @ \o Edits(editing[d].email)]
    <2> DEFINE new == Edits(editing[d].email)
    <2>1. editing[d].email \in accounts /\ editing[d].email \in Emails
        BY <1>1 DEF AuthInv, Known, TypeInv
    <2>2. /\ new \in Seq(Puts)
          /\ \A i \in 1 .. Len(new) : new[i].email \in accounts /\ ~new[i].whole
        BY <2>1, EditsProperties
    <2> HIDE DEF new
    <2>3. puts' = [puts EXCEPT ![d] = puts[d] \o new] /\ puts[d] \in Seq(Puts)
        BY <1>8 DEF new, TypeInv
    <2>4. /\ puts[d] \o new \in Seq(Puts)
          /\ \A i \in 1 .. Len(puts[d] \o new) :
                \/ \E j \in 1 .. Len(puts[d]) : (puts[d] \o new)[i] = puts[d][j]
                \/ \E j \in 1 .. Len(new) : (puts[d] \o new)[i] = new[j]
        <3>1. ASSUME NEW s \in Seq(Puts), NEW t \in Seq(Puts)
              PROVE  /\ s \o t \in Seq(Puts)
                     /\ \A i \in 1 .. Len(s \o t) :
                           \/ \E j \in 1 .. Len(s) : (s \o t)[i] = s[j]
                           \/ \E j \in 1 .. Len(t) : (s \o t)[i] = t[j]
            BY ConcatElements
        <3> QED  BY <2>2, <2>3, <3>1
    <2>5. /\ puts' \in [Devices -> Seq(Puts)] /\ puts'[d] = puts[d] \o new
          /\ \A e \in Devices \ {d} : puts'[e] = puts[e]
        BY <2>3, <2>4 DEF TypeInv
    <2>6. TypeInv'
        BY <1>1, <1>2, <1>3, <2>5 DEF TypeInv
    <2>7. ScreenInv'
        BY <1>2, <1>3, <1>6 DEF ScreenInv
    <2>8. AuthInv'
        BY <1>1, <1>2 DEF AuthInv, Known
    <2>9. \A e \in Devices : \A i \in 1 .. Len(puts'[e]) :
              /\ puts'[e][i].email \in accounts
              /\ puts'[e][i].whole => Required \subseteq puts'[e][i].fields
        <3>1. \A e \in Devices : \A i \in 1 .. Len(puts[e]) :
                  /\ puts[e][i].email \in accounts
                  /\ puts[e][i].whole => Required \subseteq puts[e][i].fields
            BY LenProperties DEF TypeInv, PutsInv, RecordHasAccount
        <3>2. \A i \in 1 .. Len(puts'[d]) :
                  /\ puts'[d][i].email \in accounts
                  /\ puts'[d][i].whole => Required \subseteq puts'[d][i].fields
            BY <3>1, <2>2, <2>4, <2>5
        <3> QED  BY <3>1, <3>2, <2>5
    <2>10. PutsInv' /\ RecordHasAccount'
        <3>1. \A e \in Devices : DOMAIN puts'[e] = 1 .. Len(puts'[e])
            BY <2>5, LenProperties
        <3> QED  BY <1>1, <2>9, <3>1 DEF PutsInv, RecordHasAccount
    <2>11. SignedInOnTabs'
        BY <1>2, <1>6 DEF SignedInOnTabs, Top
    <2> QED  BY <2>6, <2>7, <2>8, <2>10, <2>11
<1> QED
    BY <1>2, <1>7, <1>8

\* A record that cannot be read stops the process; so may the system.
LEMMA ProcessEnds ==
    ASSUME AccountsInv, NEW d \in Devices, UsersEvent(d) \/ Kill(d)
    PROVE  AccountsInv'
<1>1. /\ Restart(d) /\ UNCHANGED <<accounts, verified, records, mailed>>
      /\ "EditProfileVC" \notin traps' /\ mailed' \in SUBSET accounts
    BY DEF UsersEvent, Kill, Trap, serverVars, AccountsInv, SignedInOnTabs, TypeInv
<1>2. counts' \in [requests : Nat, edits : Nat, kills : Nat, swipes : Nat, failures : Nat]
    <2>1. TypeInv
        BY DEF AccountsInv
    <2>2. CASE UsersEvent(d)
        BY <2>1, <2>2 DEF UsersEvent, TypeInv
    <2>3. CASE Kill(d)
        BY <2>1, <2>3, CountKeeps DEF Kill
    <2> QED  BY <2>2, <2>3
<1> QED
    BY <1>1, <1>2, RestartKeeps

-------------------------------------------------------------------------------
\* FIRAuth and the servers

\* A call has its answer.
LEMMA SignInFlowKeeps ==
    ASSUME AccountsInv, NEW d \in Devices, NEW r \in requests[d], SignInFlow(d, r)
    PROVE  AccountsInv'
<1> USE DEF AccountsInv
<1> DEFINE user == [email |-> r.email, verified |-> r.stage = "foundVerified"]
<1>1. PICK ok \in BOOLEAN :
          /\ mainQueue' = [mainQueue EXCEPT ![d] = Append(@,
                 [kind |-> r.kind, email |-> r.email, from |-> r.from, ok |-> ok])]
          /\ ok => r.stage \in {"found", "foundVerified"}
          /\ current' = IF ok THEN [current EXCEPT ![d] = user] ELSE current
    BY DEF SignInFlow
<1> DEFINE cb == [kind |-> r.kind, email |-> r.email, from |-> r.from, ok |-> ok]
<1>2. /\ requests' = [requests EXCEPT ![d] = requests[d] \ {r}]
      /\ UNCHANGED <<accounts, verified, mailed, records, puts, stack, editing, traps>>
    BY DEF SignInFlow, serverVars
<1>3. counts' \in [requests : Nat, edits : Nat, kills : Nat, swipes : Nat, failures : Nat]
    <2>1. UNCHANGED counts \/ Count("failures", MaxFailures)
        BY DEF SignInFlow
    <2> QED  BY <2>1, CountKeeps DEF TypeInv
<1>4. r \in Calls /\ Anchored(stack[d], r)
    BY DEF TypeInv, ScreenInv
<1>5. /\ cb \in Callbacks /\ cb.ok = ok /\ cb.email = r.email
      /\ cb.kind = r.kind /\ cb.from = r.from
    BY <1>4 DEF Calls, Callbacks
<1>6. Anchored(stack[d], cb)
    BY <1>4, <1>5 DEF Anchored
<1>7. /\ user \in Users /\ user # NoUser
      /\ ok => user.email \in accounts /\ (user.verified => user.email \in verified)
    <2>1. user \in Users /\ user.email = r.email /\ user.verified = (r.stage = "foundVerified")
        BY <1>4 DEF Calls, Users
    <2>2. user # NoUser
        BY <2>1, AccountsAssumption DEF Users
    <2> QED  BY <1>1, <2>1, <2>2 DEF AuthInv
<1> HIDE DEF user
<1>8. mainQueue' = [mainQueue EXCEPT ![d] = Append(mainQueue[d], cb)]
    BY <1>1
<1> HIDE DEF cb
<1>9. /\ current' \in [Devices -> Users \cup {NoUser}]
      /\ \A e \in Devices : current'[e] = IF ok /\ e = d THEN user ELSE current[e]
    BY <1>1, <1>7 DEF TypeInv
<1>10. /\ mainQueue[d] \in Seq(Callbacks) /\ Len(mainQueue[d]) \in Nat
       /\ Append(mainQueue[d], cb) \in Seq(Callbacks)
       /\ Len(Append(mainQueue[d], cb)) = Len(mainQueue[d]) + 1
       /\ \A i \in 1 .. Len(mainQueue[d]) : Append(mainQueue[d], cb)[i] = mainQueue[d][i]
       /\ Append(mainQueue[d], cb)[Len(mainQueue[d]) + 1] = cb
    BY <1>5, AppendProperties, LenProperties DEF TypeInv
<1>11. /\ mainQueue' \in [Devices -> Seq(Callbacks)]
       /\ mainQueue'[d] = Append(mainQueue[d], cb)
       /\ \A e \in Devices \ {d} : mainQueue'[e] = mainQueue[e]
    BY <1>8, <1>10 DEF TypeInv
<1>12. \A i \in 1 .. Len(mainQueue'[d]) :
           \/ i \in 1 .. Len(mainQueue[d]) /\ mainQueue'[d][i] = mainQueue[d][i]
           \/ mainQueue'[d][i] = cb
    <2>1. \A n \in Nat : \A i \in 1 .. n + 1 : i \in 1 .. n \/ i = n + 1
        OBVIOUS
    <2> QED  BY <1>10, <1>11, <2>1
<1>13. /\ requests' \in [Devices -> SUBSET Calls]
       /\ \A e \in Devices : requests'[e] \subseteq requests[e]
    BY <1>2 DEF TypeInv
<1>14. TypeInv'
    BY <1>2, <1>3, <1>9, <1>11, <1>13 DEF TypeInv
<1>15. ScreenInv'
    <2>1. \A i \in 1 .. Len(mainQueue'[d]) : Anchored(stack'[d], mainQueue'[d][i])
        BY <1>2, <1>6, <1>12 DEF ScreenInv
    <2> QED  BY <1>2, <1>11, <1>13, <2>1 DEF ScreenInv
<1>16. AuthInv'
    <2>1. \A i \in 1 .. Len(mainQueue'[d]) :
              mainQueue'[d][i].ok => mainQueue'[d][i].email \in accounts
        <3>1. cb.ok => cb.email \in accounts
            BY <1>1, <1>5 DEF AuthInv
        <3> QED  BY <1>12, <3>1 DEF AuthInv
    <2>2. \A e \in Devices : Known(current'[e]) /\ Known(editing[e])
        BY <1>7, <1>9 DEF AuthInv, Known
    <2> QED  BY <1>2, <1>11, <1>13, <2>1, <2>2 DEF AuthInv, Known
<1>17. SignedInOnTabs'
    BY <1>2, <1>7, <1>9 DEF SignedInOnTabs, Top
<1>18. PutsInv' /\ RecordHasAccount'
    BY <1>2 DEF PutsInv, RecordHasAccount
<1> QED
    BY <1>14, <1>15, <1>16, <1>17, <1>18
\* The server answers a call; an account that is looked up exists.
LEMMA AnswerKeeps ==
    ASSUME AccountsInv, NEW d \in Devices, NEW r \in requests[d],
           NEW stage \in {"created", "found", "foundVerified", "failed"}, Answer(d, r, stage),
           accounts' \in SUBSET Emails, accounts \subseteq accounts',
           stage \in {"created", "found", "foundVerified"} => r.email \in accounts',
           stage = "foundVerified" => r.email \in verified,
           counts' \in [requests : Nat, edits : Nat, kills : Nat, swipes : Nat, failures : Nat]
    PROVE  AccountsInv'
<1> USE DEF AccountsInv
<1> DEFINE q == [r EXCEPT !.stage = stage]
<1>1. /\ requests' = [requests EXCEPT ![d] = (requests[d] \ {r}) \cup {q}]
      /\ UNCHANGED <<verified, mailed, records, puts, current, mainQueue, stack, editing, traps>>
    BY DEF Answer
<1>2. r \in Calls /\ Anchored(stack[d], r)
    BY DEF TypeInv, ScreenInv
<1>3. /\ q \in Calls /\ q.kind = r.kind /\ q.from = r.from /\ q.email = r.email
      /\ q.stage = stage
    BY <1>2 DEF Calls
<1> HIDE DEF q
<1>4. Anchored(stack[d], q)
    BY <1>2, <1>3 DEF Anchored
<1>5. /\ requests' \in [Devices -> SUBSET Calls]
      /\ \A e \in Devices : \A p \in requests'[e] : p \in requests[e] \/ (e = d /\ p = q)
    BY <1>1, <1>3 DEF TypeInv
<1>6. TypeInv'
    BY <1>1, <1>5 DEF TypeInv
<1>7. ScreenInv'
    BY <1>1, <1>4, <1>5 DEF ScreenInv
<1>8. AuthInv'
    <2>1. \A e \in Devices : Known(current[e])' /\ Known(editing[e])'
        BY <1>1 DEF AuthInv, Known
    <2>2. \A e \in Devices : \A p \in requests'[e] :
              /\ p.stage \in {"created", "found", "foundVerified"} => p.email \in accounts'
              /\ p.stage = "foundVerified" => p.email \in verified'
        BY <1>1, <1>3, <1>5 DEF AuthInv
    <2>3. \A e \in Devices : \A i \in 1 .. Len(mainQueue[e]) :
              mainQueue[e][i].ok => mainQueue[e][i].email \in accounts'
        BY DEF AuthInv
    <2> QED  BY <1>1, <2>1, <2>2, <2>3 DEF AuthInv
<1>9. SignedInOnTabs' /\ PutsInv'
    BY <1>1 DEF SignedInOnTabs, Top, PutsInv
<1>10. RecordHasAccount'
    BY <1>1 DEF RecordHasAccount
<1> QED
    BY <1>6, <1>7, <1>8, <1>9, <1>10

\* The server makes an account, looks one up or refuses; the network fails.
LEMMA ServerKeeps ==
    ASSUME AccountsInv, NEW d \in Devices, NEW r \in requests[d],
           \/ SignUpNewUser(d, r) \/ GetAccountInfo(d, r) \/ Refuse(d, r) \/ NetworkError(d, r)
    PROVE  AccountsInv'
<1>1. /\ r \in Calls /\ r.email \in Emails /\ accounts \in SUBSET Emails
      /\ counts \in [requests : Nat, edits : Nat, kills : Nat, swipes : Nat, failures : Nat]
      /\ TypeInv
    BY DEF AccountsInv, TypeInv, Calls
<1>2. CASE SignUpNewUser(d, r)
    BY <1>1, <1>2, AnswerKeeps DEF SignUpNewUser
<1>3. CASE GetAccountInfo(d, r)
    <2> DEFINE stage == IF r.email \in verified THEN "foundVerified" ELSE "found"
    <2>1. /\ stage \in {"found", "foundVerified"}
          /\ stage = "foundVerified" => r.email \in verified
        OBVIOUS
    <2>2. Answer(d, r, stage) /\ UNCHANGED <<accounts, counts>>
        BY <1>3 DEF GetAccountInfo
    <2>3. r.email \in accounts
        BY <1>3 DEF GetAccountInfo, AccountsInv, AuthInv
    <2> HIDE DEF stage
    <2> QED  BY <1>1, <2>1, <2>2, <2>3, AnswerKeeps
<1>4. CASE Refuse(d, r)
    BY <1>1, <1>4, AnswerKeeps DEF Refuse
<1>5. CASE NetworkError(d, r)
    <2>1. counts' \in [requests : Nat, edits : Nat, kills : Nat, swipes : Nat, failures : Nat]
        BY <1>1, <1>5, CountKeeps DEF NetworkError
    <2> QED  BY <1>1, <1>5, <2>1, AnswerKeeps DEF NetworkError
<1> QED
    BY <1>2, <1>3, <1>4, <1>5

\* The link in the mail is opened.
LEMMA VerifyEmailKeeps ==
    ASSUME AccountsInv, NEW e \in Emails, VerifyEmail(e)
    PROVE  AccountsInv'
<1> USE DEF AccountsInv
<1>1. /\ verified' = verified \cup {e} /\ e \in mailed
      /\ UNCHANGED <<accounts, mailed, records, puts, current, requests, mainQueue, stack,
                     editing, traps, counts>>
    BY DEF VerifyEmail, deviceVars
<1>2. TypeInv'
    BY <1>1 DEF TypeInv
<1>3. ScreenInv' /\ PutsInv' /\ SignedInOnTabs' /\ RecordHasAccount'
    BY <1>1 DEF ScreenInv, PutsInv, SignedInOnTabs, RecordHasAccount, Top
<1>4. AuthInv'
    BY <1>1 DEF AuthInv, Known
<1> QED
    BY <1>2, <1>3, <1>4

\* What a put makes of the records: a readable one stays readable.
LEMMA WriteKeeps ==
    ASSUME records \in [Emails -> SUBSET Fields], NEW p \in Puts,
           p.whole => Required \subseteq p.fields
    PROVE  /\ Write(records, p) \in [Emails -> SUBSET Fields]
           /\ \A e \in Emails :
                 /\ e # p.email => Write(records, p)[e] = records[e]
                 /\ Required \subseteq records[e] => Required \subseteq Write(records, p)[e]
<1>1. p.email \in Emails /\ p.fields \in SUBSET Fields
    BY DEF Puts
<1> DEFINE new == IF p.whole THEN p.fields ELSE records[p.email] \cup p.fields
<1>2. new \in SUBSET Fields /\ (Required \subseteq records[p.email] => Required \subseteq new)
    BY <1>1
<1>3. Write(records, p) = [records EXCEPT ![p.email] = new]
    BY DEF Write
<1> HIDE DEF new
<1> QED
    BY <1>1, <1>2, <1>3

\* The database applies a put.
LEMMA ApplyPutKeeps ==
    ASSUME AccountsInv, NEW d \in Devices, ApplyPut(d)
    PROVE  /\ AccountsInv'
           /\ \A e \in Emails : Required \subseteq records[e] => Required \subseteq records'[e]
<1> USE DEF AccountsInv
<1> DEFINE p == Head(puts[d])
<1>1. /\ puts[d] # <<>> /\ records' = Write(records, p)
      /\ puts' = [puts EXCEPT ![d] = Tail(puts[d])]
      /\ UNCHANGED <<accounts, verified, mailed, current, requests, mainQueue, stack, editing,
                     traps, counts>>
    BY DEF ApplyPut
<1>2. /\ puts[d] \in Seq(Puts) /\ p \in Puts /\ 1 \in 1 .. Len(puts[d]) /\ puts[d][1] = p
      /\ Tail(puts[d]) \in Seq(Puts)
      /\ \A i \in 1 .. Len(Tail(puts[d])) :
            i + 1 \in 1 .. Len(puts[d]) /\ Tail(puts[d])[i] = puts[d][i + 1]
    BY <1>1, TailProperties DEF TypeInv
<1>3. \A e \in Devices : \A i \in 1 .. Len(puts[e]) :
          /\ puts[e][i].email \in accounts
          /\ puts[e][i].whole => Required \subseteq puts[e][i].fields
    BY LenProperties DEF TypeInv, PutsInv, RecordHasAccount
<1>4. p.email \in accounts /\ (p.whole => Required \subseteq p.fields)
    BY <1>2, <1>3
<1> HIDE DEF p
<1>5. /\ records' \in [Emails -> SUBSET Fields]
      /\ \A e \in Emails :
            /\ e # p.email => records'[e] = records[e]
            /\ Required \subseteq records[e] => Required \subseteq records'[e]
    BY <1>1, <1>2, <1>4, WriteKeeps DEF TypeInv
<1>6. /\ puts' \in [Devices -> Seq(Puts)] /\ puts'[d] = Tail(puts[d])
      /\ \A e \in Devices \ {d} : puts'[e] = puts[e]
    BY <1>1, <1>2 DEF TypeInv
<1>7. \A e \in Devices : \A i \in 1 .. Len(puts'[e]) :
          /\ puts'[e][i].email \in accounts
          /\ puts'[e][i].whole => Required \subseteq puts'[e][i].fields
    <2>1. \A i \in 1 .. Len(puts'[d]) :
              /\ puts'[d][i].email \in accounts
              /\ puts'[d][i].whole => Required \subseteq puts'[d][i].fields
        <3> SUFFICES ASSUME NEW i \in 1 .. Len(Tail(puts[d]))
                     PROVE  /\ puts'[d][i].email \in accounts
                            /\ puts'[d][i].whole => Required \subseteq puts'[d][i].fields
            BY <1>6
        <3>1. i + 1 \in 1 .. Len(puts[d]) /\ puts'[d][i] = puts[d][i + 1]
            BY <1>2, <1>6
        <3> QED  BY <1>3, <3>1
    <2> QED  BY <1>3, <1>6, <2>1
<1>8. TypeInv'
    BY <1>1, <1>5, <1>6 DEF TypeInv
<1>9. ScreenInv' /\ SignedInOnTabs'
    BY <1>1 DEF ScreenInv, SignedInOnTabs, Top
<1>10. AuthInv'
    BY <1>1 DEF AuthInv, Known
<1>11. PutsInv' /\ RecordHasAccount'
    <2>1. \A e \in Devices : DOMAIN puts'[e] = 1 .. Len(puts'[e])
        BY <1>6, LenProperties
    <2> QED  BY <1>1, <1>4, <1>5, <1>7, <2>1 DEF PutsInv, RecordHasAccount
<1> QED
    BY <1>5, <1>8, <1>9, <1>10, <1>11

-------------------------------------------------------------------------------
\* The theorems

\* The invariant holds before the first step.
LEMMA InitEstablishes == Init => AccountsInv
<1> SUFFICES ASSUME Init PROVE AccountsInv
    OBVIOUS
<1> USE DEF Init
<1>1. TypeInv
    BY DEF TypeInv, Screens
<1>2. ScreenInv
    BY FirstShape DEF ScreenInv
<1>3. AuthInv /\ PutsInv /\ RecordHasAccount
    BY DEF AuthInv, PutsInv, RecordHasAccount, Known
<1>4. SignedInOnTabs
    BY DEF SignedInOnTabs, Top, Last
<1> QED
    BY <1>1, <1>2, <1>3, <1>4 DEF AccountsInv

\* Every step keeps the invariant.
LEMMA NextKeeps == AccountsInv /\ [Next]_vars => AccountsInv'
<1> SUFFICES ASSUME AccountsInv, [Next]_vars PROVE AccountsInv'
    OBVIOUS
<1>1. ASSUME NEW d \in Devices, NEW e \in Emails, LoginAction(d, e) \/ RegistrationAction(d, e)
      PROVE  AccountsInv'
    BY <1>1, AskKeeps DEF LoginAction, RegistrationAction
<1>2. ASSUME NEW d \in Devices, ViewDidAppear(d) PROVE AccountsInv'
    BY <1>2, ViewDidAppearKeeps
<1>3. ASSUME NEW d \in Devices, OpenRegistration(d) \/ RegistrationRefused(d) PROVE AccountsInv'
    BY <1>3, SheetOpens
<1>4. ASSUME NEW d \in Devices, SwipeDown(d) PROVE AccountsInv'
    BY <1>4, SwipeDownKeeps
<1>5. ASSUME NEW d \in Devices, AlertOk(d) PROVE AccountsInv'
    BY <1>5, AlertOkKeeps
<1>6. ASSUME NEW d \in Devices, SignOutAction(d) PROVE AccountsInv'
    BY <1>6, SignOutKeeps
<1>7. ASSUME NEW d \in Devices, OpenEdit(d) PROVE AccountsInv'
    BY <1>7, OpenEditKeeps
<1>8. ASSUME NEW d \in Devices, CloseEdit(d) PROVE AccountsInv'
    BY <1>8, CloseEditKeeps
<1>9. ASSUME NEW d \in Devices, Callback(d) PROVE AccountsInv'
    BY <1>9, LoginCallbackKeeps, RegistrationCallbackKeeps DEF Callback
<1>10. ASSUME NEW d \in Devices, UsersEvent(d) \/ Kill(d) PROVE AccountsInv'
    BY <1>10, ProcessEnds
<1>11. ASSUME NEW d \in Devices, AuthStep(d) \/ \E r \in requests[d] : NetworkError(d, r)
       PROVE  AccountsInv'
    BY <1>11, SignInFlowKeeps, ServerKeeps DEF AuthStep
<1>12. ASSUME NEW d \in Devices, ApplyPut(d) PROVE AccountsInv'
    BY <1>12, ApplyPutKeeps
<1>13. ASSUME NEW e \in Emails, VerifyEmail(e) PROVE AccountsInv'
    BY <1>13, VerifyEmailKeeps
<1>14. CASE UNCHANGED vars
    BY <1>14 DEF vars, serverVars, deviceVars, AccountsInv, TypeInv, ScreenInv, AuthInv, Known,
        PutsInv, SignedInOnTabs, RecordHasAccount, Top
<1> QED
    BY <1>1, <1>2, <1>3, <1>4, <1>5, <1>6, <1>7, <1>8, <1>9, <1>10, <1>11, <1>12, <1>13, <1>14
    DEF Next

\* The inductive invariant holds in every reachable state.
THEOREM Sound == Spec => []AccountsInv
BY InitEstablishes, NextKeeps, PTL DEF Spec

\* Every variable keeps its type, and every call under way points at a screen
\* that is there, whatever was opened and closed since (TypeOK).
THEOREM TypeCorrect == Spec => []TypeOK
<1>1. AccountsInv => TypeOK
    <2> SUFFICES ASSUME AccountsInv PROVE TypeOK
        OBVIOUS
    <2> USE DEF AccountsInv
    <2>1. \A d \in Devices : Len(stack[d]) \in 1 .. MaxDepth + 1 /\ Len(stack[d]) \in Nat
        BY ShapeDepth, AccountsAssumption DEF ScreenInv
    <2>2. ASSUME NEW d \in Devices, NEW r, Anchored(stack[d], r) PROVE r.from \in 0 .. Depth(d)
        <3>1. \A n \in Nat : 0 \in 0 .. n /\ \A i \in 1 .. n : i \in 0 .. n
            OBVIOUS
        <3> QED  BY <2>1, <2>2, <3>1 DEF Anchored, Depth
    <2>3. ASSUME NEW d \in Devices
          PROVE  /\ puts[d] \in Seq([email : Emails, fields : SUBSET Fields, whole : BOOLEAN])
                 /\ current[d] \in Users \cup {NoUser}
                 /\ \A r \in requests[d] :
                       /\ r.kind \in {"signIn", "create"} /\ r.email \in Emails
                       /\ r.from \in 0 .. Depth(d)
                       /\ r.stage \in {"sent", "created", "found", "foundVerified", "failed"}
                 /\ \A i \in DOMAIN mainQueue[d] : mainQueue[d][i].from \in 0 .. Depth(d)
                 /\ stack[d] \in Seq(Screens) /\ Depth(d) \in 1 .. MaxDepth + 1
                 /\ editing[d] \in Users \cup {NoUser}
        <3>1. \A r \in requests[d] :
                 /\ r.kind \in {"signIn", "create"} /\ r.email \in Emails
                 /\ r.from \in 0 .. Depth(d)
                 /\ r.stage \in {"sent", "created", "found", "foundVerified", "failed"}
            <4>1. \A r \in requests[d] : r \in Calls /\ r.from \in 0 .. Depth(d)
                BY <2>2 DEF TypeInv, ScreenInv
            <4> QED  BY <4>1 DEF Calls
        <3>2. \A i \in DOMAIN mainQueue[d] : mainQueue[d][i].from \in 0 .. Depth(d)
            <4>1. DOMAIN mainQueue[d] = 1 .. Len(mainQueue[d])
                BY LenProperties DEF TypeInv
            <4> QED  BY <4>1, <2>2 DEF ScreenInv
        <3> QED  BY <2>1, <3>1, <3>2 DEF TypeInv, Puts, Depth
    <2> QED  BY <2>3 DEF TypeOK, TypeInv
<1> QED
    BY <1>1, Sound, PTL

\* Whatever callbacks come late, somebody is signed in on the tab bar and in
\* the profile editor, so the forced unwrapping there never traps.
THEOREM SignedIn == Spec => []SignedInOnTabs
<1>1. AccountsInv => SignedInOnTabs
    BY DEF AccountsInv
<1> QED
    BY <1>1, Sound, PTL

\* No record is ever written for an e-mail that has no account.
THEOREM RecordsOwned == Spec => []RecordHasAccount
<1>1. AccountsInv => RecordHasAccount
    BY DEF AccountsInv
<1> QED
    BY <1>1, Sound, PTL

\* No step makes a readable record unreadable.
THEOREM StaysReadable == Spec => RecordStaysReadable
<1> DEFINE P == \A e \in Emails : Required \subseteq records[e] => Required \subseteq records'[e]
<1>1. ASSUME AccountsInv, [Next]_vars PROVE P
    <2>1. ASSUME UNCHANGED records PROVE P
        BY <2>1
    <2>2. ASSUME NEW d \in Devices, ApplyPut(d) PROVE P
        BY <1>1, <2>2, ApplyPutKeeps, SMTT(60)
    <2>3. CASE Next
        BY <2>1, <2>2, <2>3, ZenonT(60) DEF Next, LoginAction, RegistrationAction, Ask, ViewDidAppear,
            OpenRegistration, RegistrationRefused, SwipeDown, AlertOk, SignOutAction, OpenEdit,
            CloseEdit, Callback, LoginCallback, RegistrationCallback, UsersEvent, AuthStep,
            SignInFlow, SignUpNewUser, GetAccountInfo, Refuse, NetworkError, Answer,
            VerifyEmail, Kill, serverVars
    <2> QED  BY <1>1, <2>1, <2>3 DEF vars, serverVars
<1>2. AccountsInv /\ [Next]_vars => [P]_vars
    BY <1>1
<1> QED
    BY <1>2, Sound, PTL DEF Spec, RecordStaysReadable
-------------------------------------------------------------------------------
\* The way to the tab bar

\* Where the tab bars are in a stack of screens.
TabsAt(st) == {i \in DOMAIN st : st[i] = "tabs"}

\* Pushing another screen and popping one bring no new tab bar.
LEMMA TabsAtKeeps ==
    ASSUME NEW st, Shape(st)
    PROVE  /\ \A screen : screen # "tabs" => TabsAt(Append(st, screen)) \subseteq TabsAt(st)
           /\ TabsAt(Front(st)) \subseteq TabsAt(st)
           /\ TabsAt(Front(Front(st))) \subseteq TabsAt(st)
           /\ IsFiniteSet(TabsAt(st))
<1>1. st \in Seq(Screens) /\ Len(st) \in Nat /\ Len(st) >= 1 /\ DOMAIN st = 1 .. Len(st)
    BY LenProperties DEF Shape
<1>2. ASSUME NEW screen, screen # "tabs" PROVE TabsAt(Append(st, screen)) \subseteq TabsAt(st)
    <2> DEFINE S == Screens \cup {screen}
    <2>1. st \in Seq(S) /\ screen \in S
        BY <1>1
    <2> HIDE DEF S
    <2> DEFINE new == Append(st, screen)
    <2>2. /\ new \in Seq(S) /\ Len(new) = Len(st) + 1
          /\ \A i \in 1 .. Len(st) : new[i] = st[i]
          /\ new[Len(st) + 1] = screen
        BY <1>1, <2>1, AppendProperties
    <2>3. DOMAIN new = 1 .. Len(st) + 1
        BY <2>2, LenProperties
    <2> HIDE DEF new
    <2>4. \A n \in Nat : \A i \in 1 .. n + 1 : i \in 1 .. n \/ i = n + 1
        OBVIOUS
    <2>5. TabsAt(new) \subseteq TabsAt(st)
        BY <1>1, <1>2, <2>2, <2>3, <2>4 DEF TabsAt
    <2> QED  BY <2>5 DEF new
<1>3. \A s : s \in Seq(Screens) /\ Len(s) >= 1 =>
          /\ TabsAt(Front(s)) \subseteq TabsAt(s)
          /\ Front(s) \in Seq(Screens) /\ Len(Front(s)) = Len(s) - 1
    <2> SUFFICES ASSUME NEW s, s \in Seq(Screens), Len(s) >= 1
                 PROVE  /\ TabsAt(Front(s)) \subseteq TabsAt(s)
                        /\ Front(s) \in Seq(Screens) /\ Len(Front(s)) = Len(s) - 1
        OBVIOUS
    <2> DEFINE f == Front(s)
    <2>1. /\ f \in Seq(Screens) /\ Len(f) = Len(s) - 1
          /\ \A i \in 1 .. Len(s) - 1 : f[i] = s[i]
        BY FrontProperties
    <2> HIDE DEF f
    <2>2. DOMAIN f = 1 .. Len(s) - 1 /\ DOMAIN s = 1 .. Len(s) /\ Len(s) \in Nat
        BY <2>1, LenProperties
    <2>3. \A n \in Nat : \A i \in 1 .. n - 1 : i \in 1 .. n
        OBVIOUS
    <2>4. TabsAt(f) \subseteq TabsAt(s)
        BY <2>1, <2>2, <2>3 DEF TabsAt
    <2> QED  BY <2>1, <2>4 DEF f
<1>4. TabsAt(Front(Front(st))) \subseteq TabsAt(st)
    <2>1. CASE Len(Front(st)) >= 1
        BY <1>1, <1>3, <2>1
    <2>2. CASE ~(Len(Front(st)) >= 1)
        <3> DEFINE f == Front(st)
        <3>1. f \in Seq(Screens) /\ Len(f) \in Nat
            BY <1>1, <1>3, LenProperties
        <3>2. Len(f) = 0
            BY <2>2, <3>1
        <3>3. f = <<>>
            BY <3>1, <3>2, EmptySeq
        <3> HIDE DEF f
        <3>4. SubSeq(f, 1, Len(f) - 1) = <<>>
            BY <3>2, <3>3
        <3>5. TabsAt(Front(f)) = {}
            BY <3>4 DEF Front, TabsAt
        <3> QED  BY <3>5 DEF f
    <2> QED  BY <2>1, <2>2
<1>5. IsFiniteSet(TabsAt(st))
    <2>1. IsFiniteSet(1 .. Len(st))
        BY <1>1, FS_Interval
    <2>2. TabsAt(st) \subseteq 1 .. Len(st)
        BY <1>1 DEF TabsAt
    <2> QED  BY <2>1, <2>2, FS_Subset
<1> QED
    BY <1>1, <1>2, <1>3, <1>4, <1>5

\* A step brings a tab bar only to somebody whose e-mail is verified.
LEMMA TabsStep ==
    ASSUME AccountsInv, Next, NEW d \in Devices
    PROVE  \/ TabsAt(stack'[d]) \subseteq TabsAt(stack[d])
           \/ current'[d] # NoUser /\ current'[d].email \in verified'
<1> DEFINE P == \/ TabsAt(stack'[d]) \subseteq TabsAt(stack[d])
                \/ current'[d] # NoUser /\ current'[d].email \in verified'
<1>1. /\ stack \in [Devices -> Seq(Screens)]
      /\ \A screen : screen # "tabs" => TabsAt(Append(stack[d], screen)) \subseteq TabsAt(stack[d])
      /\ TabsAt(Front(stack[d])) \subseteq TabsAt(stack[d])
      /\ TabsAt(Front(Front(stack[d]))) \subseteq TabsAt(stack[d])
    BY TabsAtKeeps DEF AccountsInv, TypeInv, ScreenInv
<1>2. ASSUME UNCHANGED stack PROVE P
    BY <1>2
<1>3. ASSUME NEW c \in Devices, Restart(c) PROVE P
    <2>1. TabsAt(<<"appearing">>) = {}
        BY DEF TabsAt
    <2>2. stack'[d] = IF c = d THEN <<"appearing">> ELSE stack[d]
        BY <1>1, <1>3 DEF Restart
    <2> QED  BY <2>1, <2>2
<1>4. ASSUME NEW c \in Devices, NEW from, NEW screen, screen # "tabs", Present(c, from, screen)
      PROVE  P
    BY <1>1, <1>4 DEF Present
<1>5. ASSUME NEW c \in Devices, \/ stack' = [stack EXCEPT ![c] = Front(@)]
                                \/ stack' = [stack EXCEPT ![c] = Front(Front(@))]
      PROVE  P
    BY <1>1, <1>5
<1>6. ASSUME NEW c \in Devices, GoesIn(current[c]), current[c] # NoUser,
             UNCHANGED <<current, verified>>, \A e \in Devices \ {c} : stack'[e] = stack[e]
      PROVE  P
    BY <1>6 DEF AccountsInv, AuthInv, Known, GoesIn
<1>7. ASSUME NEW c \in Devices, ViewDidAppear(c) PROVE P
    <2> DEFINE shown == Append(Front(stack[c]), "login")
    <2>1. CASE current[c] # NoUser /\ GoesIn(current[c])
        BY <1>1, <1>6, <1>7, <2>1 DEF ViewDidAppear, serverVars
    <2>2. CASE ~(current[c] # NoUser /\ GoesIn(current[c]))
        <3>1. stack'[d] = IF c = d THEN shown ELSE stack[d]
            BY <1>1, <1>7, <2>2 DEF ViewDidAppear
        <3>2. TabsAt(shown) \subseteq TabsAt(stack[c])
            <4>1. Shape(stack[c]) /\ Last(stack[c]) = "appearing"
                BY <1>7 DEF AccountsInv, ScreenInv, ViewDidAppear, Top
            <4>2. stack[c] \in Seq(Screens) /\ Len(stack[c]) \in Nat /\ Len(stack[c]) >= 1
                BY <4>1, LenProperties DEF Shape
            <4> DEFINE f == Front(stack[c])
            <4>3. f \in Seq(Screens) /\ Len(f) = Len(stack[c]) - 1 /\ DOMAIN f = 1 .. Len(f)
                  /\ Len(f) \in Nat
                BY <4>2, FrontProperties, LenProperties
            <4>4. TabsAt(f) \subseteq TabsAt(stack[c])
                BY <4>1, TabsAtKeeps
            <4> HIDE DEF f
            <4>5. "login" \in Screens
                BY DEF Screens
            <4>6. /\ Append(f, "login") \in Seq(Screens)
                  /\ Len(Append(f, "login")) = Len(f) + 1
                  /\ \A i \in 1 .. Len(f) : Append(f, "login")[i] = f[i]
                  /\ Append(f, "login")[Len(f) + 1] = "login"
                BY <4>3, <4>5, AppendProperties
            <4>7. DOMAIN Append(f, "login") = 1 .. Len(f) + 1
                BY <4>6, LenProperties
            <4>8. \A n \in Nat : \A i \in 1 .. n + 1 : i \in 1 .. n \/ i = n + 1
                OBVIOUS
            <4>9. TabsAt(Append(f, "login")) \subseteq TabsAt(f)
                BY <4>3, <4>6, <4>7, <4>8 DEF TabsAt
            <4> QED  BY <4>4, <4>9 DEF f
        <3> QED  BY <3>1, <3>2
    <2> QED  BY <2>1, <2>2
<1>8. ASSUME NEW c \in Devices, LoginCallback(c) PROVE P
    <2> DEFINE cb == Head(mainQueue[c])
    <2>1. CASE Restart(c)
        BY <1>3, <2>1
    <2>2. CASE /\ ~(cb.ok /\ current[c] = NoUser)
               /\ Present(c, cb.from, IF cb.ok /\ GoesIn(current[c]) THEN "tabs" ELSE "alert")
               /\ UNCHANGED <<current, verified>>
        <3>1. CASE cb.ok /\ GoesIn(current[c])
            BY <1>1, <1>6, <2>2, <3>1 DEF Present
        <3>2. CASE ~(cb.ok /\ GoesIn(current[c]))
            BY <1>4, <2>2, <3>2
        <3> QED  BY <3>1, <3>2
    <2> QED  BY <1>8, <2>1, <2>2 DEF LoginCallback, Trap, serverVars
<1>9. ASSUME NEW c \in Devices, RegistrationCallback(c) PROVE P
    BY <1>3, <1>4, <1>9 DEF RegistrationCallback, Trap
<1>10. ASSUME NEW c \in Devices,
              \/ OpenRegistration(c) \/ RegistrationRefused(c) \/ SignOutAction(c) \/ OpenEdit(c)
       PROVE  P
    BY <1>4, <1>10 DEF OpenRegistration, RegistrationRefused, SignOutAction, OpenEdit
<1>11. ASSUME NEW c \in Devices, SwipeDown(c) \/ AlertOk(c) PROVE P
    BY <1>5, <1>11 DEF SwipeDown, AlertOk
<1>12. ASSUME NEW c \in Devices, CloseEdit(c) \/ UsersEvent(c) \/ Kill(c) PROVE P
    BY <1>3, <1>5, <1>12 DEF CloseEdit, UsersEvent, Kill, Trap
<1> HIDE DEF P
<1>13. P
    BY <1>2, <1>7, <1>8, <1>9, <1>10, <1>11, <1>12, ZenonT(60) DEF Next, LoginAction, RegistrationAction,
        Ask, Callback, AuthStep, SignInFlow, SignUpNewUser, GetAccountInfo, Refuse,
        NetworkError, Answer, VerifyEmail, ApplyPut, deviceVars
<1> QED
    BY <1>13 DEF P

\* Only somebody whose e-mail is verified at the server gets to the tab bar,
\* with a fresh sign-in, a late callback or the user the keychain has kept.
THEOREM VerifiedOnly == Spec => TabsNeedVerified
<1> DEFINE P == \A d \in Devices : TabBars(d)' > TabBars(d) =>
                    current'[d] # NoUser /\ current'[d].email \in verified'
<1>1. ASSUME AccountsInv, Next PROVE P
    <2> SUFFICES ASSUME NEW d \in Devices, TabBars(d)' > TabBars(d),
                        TabsAt(stack'[d]) \subseteq TabsAt(stack[d])
                 PROVE  FALSE
        BY <1>1, TabsStep
    <2>1. IsFiniteSet(TabsAt(stack[d]))
        BY <1>1, TabsAtKeeps DEF AccountsInv, ScreenInv
    <2>2. IsFiniteSet(TabsAt(stack'[d])) /\
          Cardinality(TabsAt(stack'[d])) <= Cardinality(TabsAt(stack[d]))
        BY <2>1, FS_Subset
    <2>3. Cardinality(TabsAt(stack[d])) \in Nat /\ Cardinality(TabsAt(stack'[d])) \in Nat
        BY <2>1, <2>2, FS_CardinalityType
    <2>4. TabBars(d) = Cardinality(TabsAt(stack[d])) /\ TabBars(d)' = Cardinality(TabsAt(stack'[d]))
        BY DEF TabBars, TabsAt
    <2> QED  BY <2>2, <2>3, <2>4
<1>2. AccountsInv /\ [Next]_vars => [P]_vars
    BY <1>1
<1> QED
    BY <1>2, Sound, PTL DEF Spec, TabsNeedVerified
===============================================================================
