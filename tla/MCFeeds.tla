-------------------------------- MODULE MCFeeds --------------------------------
(***************************************************************************)
(* A small instance of Feeds, on Ann's phone and a second device, in three *)
(* scenes.                                                                 *)
(*                                                                         *)
(* Users: ChatVC and the profile of ProfileVC, while Bob registers and Ann *)
(* edits her record.                                                       *)
(* Posts: ProfileVC with Ann's posts and FriendsProfileVC with Bob's,      *)
(* which she may leave again, while she posts on the phone and a tablet.   *)
(* Study: Ann, as the administrator, adds a subject and a teacher.         *)
(*                                                                         *)
(* The two feeds of ProfileVC share no location and no array, so each of   *)
(* the first two scenes opens the one it is about, as a controller.        *)
(***************************************************************************)
EXTENDS Feeds, TLC

MCObserves == "ChatVC" :> <<"everybody">> @@ "ProfileVC.profile" :> <<"me">> @@
              "ProfileVC.posts" :> <<"annsPosts">> @@ "FriendsProfileVC" :> <<"bobsPosts">> @@
              "StudyVC" :> <<"allSubjects", "allTeachers">>
MCKind == "everybody" :> "users" @@ "me" :> "profile" @@
          "annsPosts" :> "posts" @@ "bobsPosts" :> "posts" @@
          "allSubjects" :> "subjects" @@ "allTeachers" :> "teachers"
MCLooks == [s \in DOMAIN MCKind |-> IF MCKind[s] = "profile" THEN "users" ELSE MCKind[s]]
MCOwner == [s \in DOMAIN MCKind |-> "annPhone"]
MCWanted == [s \in DOMAIN MCKind |-> IF s = "bobsPosts" THEN "bob" ELSE "ann"]

MCLocOf == 1 :> "users" @@ 2 :> "users" @@ 3 :> "posts" @@ 4 :> "posts" @@
           5 :> "subjects" @@ 6 :> "teachers"
MCKeyOf == "bobJoins" :> 1 @@ "annEdits" :> 2 @@ "onTablet" :> 3 @@ "onPhone" :> 4 @@
           "algebra" :> 5 @@ "euler" :> 6
MCAuthor == [w \in DOMAIN MCKeyOf |-> IF w = "bobJoins" THEN "bob" ELSE "ann"]
MCWriter == [w \in DOMAIN MCKeyOf |->
                IF w \in {"bobJoins", "onTablet"} THEN "otherDevice" ELSE "annPhone"]
MCFrom == "bobJoins" :> Elsewhere @@ "annEdits" :> Elsewhere @@ "onTablet" :> Elsewhere @@
          "onPhone" :> "ProfileVC.posts" @@ "algebra" :> "StudyVC" @@ "euler" :> "StudyVC"

UsersScene == [controllers |-> {"ChatVC", "ProfileVC.profile"}, writes |-> {"bobJoins", "annEdits"}]
PostsScene == [controllers |-> {"ProfileVC.posts", "FriendsProfileVC"},
               writes |-> {"onPhone", "onTablet"}]
StudyScene == [controllers |-> {"StudyVC"}, writes |-> {"algebra", "euler"}]

AllScenes == {UsersScene, PostsScene, StudyScene}
StudyOnly == {StudyScene}
===============================================================================
