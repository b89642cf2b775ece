------------------------------- MODULE SyncTree -------------------------------
(***************************************************************************)
(* The data the Realtime Database SDK hands to the app, as pure operators. *)
(*                                                                         *)
(* The app writes with `setValue` and reads whole locations ("messages",   *)
(* "users", "posts", ...) with `observe(.value)`.  What an observer is     *)
(* given is the SDK's copy of the server's data with the writes that are   *)
(* still pending laid over it, oldest first (FWriteTree, FViewProcessor).  *)
(*                                                                         *)
(* A write is a member of Writes: who makes it and under which key are     *)
(* constants, and what is stored under a key is the write that put it      *)
(* there.  A write's payload is therefore never spelled out.               *)
(***************************************************************************)
EXTENDS Naturals, Sequences, FiniteSets

CONSTANTS
    Clients,    \* running copies of the app
    Screens,    \* view controllers that call observe(.value)
    Owner,      \* the client a screen belongs to
    Looks,      \* the location a screen observes
    Locations,  \* the lists of the database
    Keys,       \* the children of all the lists
    LocOf,      \* the list a key is a child of
    Writes,     \* the setValue calls the app makes
    Writer,     \* the client that makes a write
    KeyOf,      \* the child a write sets
    NoWrite,    \* a key that no write has set
    NoData      \* a location of which no snapshot has arrived

ASSUME SyncTreeAssumption ==
    /\ Owner \in [Screens -> Clients]
    /\ Looks \in [Screens -> Locations]
    /\ LocOf \in [Keys -> Locations]
    /\ Writer \in [Writes -> Clients]
    /\ KeyOf \in [Writes -> Keys]
    /\ NoWrite \notin Writes
    /\ \A l \in Locations :
          NoData \notin [{k \in Keys : LocOf[k] = l} -> Writes \cup {NoWrite}]

KeysIn(l) == {k \in Keys : LocOf[k] = l}

\* What can be stored under the children of location l.
DataIn(l) == [KeysIn(l) -> Writes \cup {NoWrite}]

NoChildren(l) == [k \in KeysIn(l) |-> NoWrite]

WriteLoc(w) == LocOf[KeyOf[w]]

(***************************************************************************)
(* FWriteTree's layering: the writes of ws are laid over d in order, so a  *)
(* child shows the last of them that sets it.                              *)
(***************************************************************************)
Setting(ws, k) == {i \in DOMAIN ws : KeyOf[ws[i]] = k}

Latest(I) == CHOOSE i \in I : \A j \in I : j <= i

Layer(d, ws) ==
    [k \in DOMAIN d |->
        IF Setting(ws, k) = {} THEN d[k] ELSE ws[Latest(Setting(ws, k))]]

\* The server's data at location l after the first n writes of its log.
DataAt(log, n, l) == Layer(NoChildren(l), SubSeq(log, 1, n))

\* The members of a sequence.
In(ws) == {ws[i] : i \in DOMAIN ws}

(***************************************************************************)
(* FViewProcessor reports a value event only when the view has changed.    *)
(***************************************************************************)
Changed(old, new) == IF new # old THEN <<new>> ELSE <<>>
===============================================================================
