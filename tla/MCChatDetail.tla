----------------------------- MODULE MCChatDetail -----------------------------
(***************************************************************************)
(* Ann and Bob talk to each other, each on a device of its own.  Bob's     *)
(* message gets the smaller key although Ann may have sent hers before:    *)
(* the clocks of two phones differ.  Ann's two fall into one millisecond.  *)
(* Any two of the three are sent.                                          *)
(***************************************************************************)
EXTENDS ChatDetail, TLC

MCOwner == "annBob" :> "annPhone" @@ "bobAnn" :> "bobPhone"
MCLooks == [s \in DOMAIN MCOwner |-> "messages"]
MCMy == "annBob" :> "ann" @@ "bobAnn" :> "bob"
MCPeer == "annBob" :> "bob" @@ "bobAnn" :> "ann"
MCSentOn == "hello" :> "annBob" @@ "again" :> "annBob" @@ "hi" :> "bobAnn"
MCWriter == [w \in DOMAIN MCSentOn |-> MCOwner[MCSentOn[w]]]
MCPushed == "hi"    :> [time |-> 1, rand |-> <<0, 0>>]
         @@ "hello" :> [time |-> 1, rand |-> <<0, 1>>]
         @@ "again" :> [time |-> 1, rand |-> <<1, 0>>]
MCKeyOf == "hi" :> 1 @@ "hello" :> 2 @@ "again" :> 3
MCLocOf == [k \in 1 .. 3 |-> "messages"]
===============================================================================
