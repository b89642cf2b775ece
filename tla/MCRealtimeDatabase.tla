-------------------------- MODULE MCRealtimeDatabase --------------------------
(***************************************************************************)
(* Small instances of RealtimeDatabase.                                    *)
(*                                                                         *)
(* Two lists: Ann's device sends a message and edits a profile while both  *)
(* lists are open.  Same child: Ann's and Bob's devices edit the same      *)
(* field, and Bob looks at it.                                             *)
(***************************************************************************)
EXTENDS RealtimeDatabase, TLC

Lists == {"messages", "users"}

MCLocOf == "m1" :> "messages" @@ "u1" :> "users"
MCWriter == [w \in {"text", "name"} |-> "ann"] @@ "bobs" :> "bob"
MCKeyOf == "text" :> "m1" @@ "name" :> "u1" @@ "bobs" :> "u1"
MCOwner == [s \in {"chat", "people"} |-> "ann"] @@ "bobsList" :> "bob"
MCLooks == "chat" :> "messages" @@ [s \in {"people", "bobsList"} |-> "users"]

TwoLists == [clients |-> {"ann"}, screens |-> {"chat", "people"},
             writes |-> {"text", "name"}, kills |-> TRUE]
SameChild == [clients |-> {"ann", "bob"}, screens |-> {"bobsList"},
              writes |-> {"name", "bobs"}, kills |-> FALSE]
MCScenes == {TwoLists, SameChild}
===============================================================================
