-------------------------------- MODULE KVStore --------------------------------
(***************************************************************************)
(* What a key-value store promises to the code that uses it, without logs, *)
(* memtables, tables or levels (include/leveldb/db.h and WriteOptions in   *)
(* include/leveldb/options.h): a write changes the store at one moment,    *)
(* for all of its keys together, and nothing else changes it but a crash,  *)
(* which may take back only updates that no synced write has confirmed.    *)
(***************************************************************************)
EXTENDS Naturals

VARIABLES
    store,  \* what can be read: the updates that decide the values of keys
    hist,   \* the updates made so far that have not been taken back
    safe,   \* the updates confirmed by a synced write
    up      \* whether the store is open

\* What can be read when the updates es were made: the newest one of every key,
\* unless it is a deletion.
Live(es) == {e \in es : ~e.del /\ \A d \in es : d.key = e.key => d.seq <= e.seq}

Init == hist = {} /\ safe = {} /\ up = FALSE

\* The updates of a step that adds some are newer than all others.
NewIsNewer == \A d \in hist, e \in hist' \ hist : d.seq < e.seq

\* A group of writes takes effect.
Commit ==
    /\ up /\ up'
    /\ hist \subseteq hist' /\ NewIsNewer
    /\ safe' \in {safe, safe \cup (hist' \ hist)}

Open == ~up /\ up' /\ UNCHANGED <<hist, safe>>

\* The store goes down.  Updates may be lost, unless they are safe, and a write
\* that was under way may turn out to have been made.
GoDown ==
    /\ ~up'
    /\ safe \subseteq hist' /\ UNCHANGED safe
    /\ NewIsNewer

Spec ==
    /\ Init /\ [][Commit \/ Open \/ GoDown]_<<hist, safe, up>>
    /\ [](store = Live(hist))

=============================================================================
