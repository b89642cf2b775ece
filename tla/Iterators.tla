------------------------------- MODULE Iterators -------------------------------
(***************************************************************************)
(* The iterator over the whole database (db/db_iter.cc) and the merging    *)
(* iterator underneath (table/merger.cc), as pure operators.               *)
(*                                                                         *)
(* The children of the merging iterator are the memtable and the tables,   *)
(* each of them a set of entries [key, seq, del] in the order of internal  *)
(* keys; C is the sequence of these sets.  They are told apart from one    *)
(* call to the next, since the memtable grows meanwhile.                   *)
(***************************************************************************)
EXTENDS InternalKeys, Sequences

\* Null when the child is not valid.
FirstOf(es) == IF es = {} THEN Null ELSE Smallest(es)
LastOf(es) == IF es = {} THEN Null ELSE Largest(es)

\* Seek, Next and Prev of one child.
SeekIn(es, t) == FirstOf({e \in es : ~Before(e, t)})
NextIn(es, e) == FirstOf({d \in es : Before(e, d)})
PrevIn(es, e) == LastOf({d \in es : Before(d, e)})

(***************************************************************************)
(* MergingIterator: m.pos is where the children are, m.cur the number of   *)
(* the current one, 0 when the iterator is not valid.                      *)
(***************************************************************************)
NewMerger(n) == [pos |-> [i \in 1 .. n |-> Null], cur |-> 0, forward |-> TRUE]

Current(m) == IF m.cur = 0 THEN Null ELSE m.pos[m.cur]

Valids(m) == {i \in DOMAIN m.pos : m.pos[i] # Null}

FindSmallest(m) ==
    [m EXCEPT !.cur = IF Valids(m) = {} THEN 0
                      ELSE CHOOSE i \in Valids(m) : \A j \in Valids(m) \ {i} :
                              Before(m.pos[i], m.pos[j])]

FindLargest(m) ==
    [m EXCEPT !.cur = IF Valids(m) = {} THEN 0
                      ELSE CHOOSE i \in Valids(m) : \A j \in Valids(m) \ {i} :
                              Before(m.pos[j], m.pos[i])]

MergeSeekToFirst(C, m) ==
    FindSmallest([m EXCEPT !.pos = [i \in DOMAIN C |-> FirstOf(C[i])],
                           !.forward = TRUE])

MergeSeekToLast(C, m) ==
    FindLargest([m EXCEPT !.pos = [i \in DOMAIN C |-> LastOf(C[i])],
                          !.forward = FALSE])

MergeSeek(C, m, t) ==
    FindSmallest([m EXCEPT !.pos = [i \in DOMAIN C |-> SeekIn(C[i], t)],
                           !.forward = TRUE])

\* A change of direction: the other children are positioned after the current
\* key, or before it.  The code makes two calls of each child, a Seek and a step from
\* there; here they see the same entries of a memtable that is being written: what
\* is inserted between them is newer than the iterator's sequence number.
TurnForward(C, m) ==
    IF m.forward THEN m
    ELSE [m EXCEPT !.forward = TRUE, !.pos = [i \in DOMAIN C |->
            IF i = m.cur THEN m.pos[i]
            ELSE LET s == SeekIn(C[i], Current(m))
                 IN  IF s = Current(m) THEN NextIn(C[i], s) ELSE s]]

\* Broken variant: the other children stay where they are.
TurnBackAlone(C, m) == [m EXCEPT !.forward = FALSE]

TurnBack(C, m) ==
    IF ~m.forward THEN m
    ELSE [m EXCEPT !.forward = FALSE, !.pos = [i \in DOMAIN C |->
            IF i = m.cur THEN m.pos[i]
            ELSE LET s == SeekIn(C[i], Current(m))
                 IN  IF s = Null THEN LastOf(C[i]) ELSE PrevIn(C[i], s)]]

MergeNext(C, m) ==
    FindSmallest([TurnForward(C, m) EXCEPT
                    !.pos[m.cur] = NextIn(C[m.cur], Current(m))])

MergePrev(C, m) ==
    FindLargest([TurnBack(C, m) EXCEPT
                    !.pos[m.cur] = PrevIn(C[m.cur], Current(m))])

(***************************************************************************)
(* DBIter.  A call is a first part and a loop; d.pc says which loop it is  *)
(* in and is "idle" between calls.  One step makes one call of the         *)
(* internal iterator.                                                      *)
(***************************************************************************)
NewDBIter(n, sequence) ==
    [pc |-> "idle", sequence |-> sequence, iter |-> NewMerger(n),
     forward |-> TRUE, valid |-> FALSE, saved |-> Null, value |-> Null,
     skipping |-> FALSE, found |-> FALSE]

\* key() and value(): the entry that the iterator is at.
AtEntry(d) == IF d.forward THEN Current(d.iter) ELSE d.value

Ended(d) == [d EXCEPT !.pc = "idle", !.valid = FALSE, !.saved = Null,
                      !.value = Null]

\* FindNextUserEntry, unless there is nothing left.
FindNext(d, skipping) ==
    IF Current(d.iter) = Null THEN Ended(d)
    ELSE [d EXCEPT !.pc = "next", !.skipping = skipping]

\* FindPrevUserEntry; found is whether value_type is not a deletion.
PrevEnd(d) ==
    IF d.found THEN [d EXCEPT !.pc = "idle", !.valid = TRUE]
    ELSE [Ended(d) EXCEPT !.forward = TRUE]

FindPrev(d) ==
    LET e == [d EXCEPT !.found = FALSE, !.forward = FALSE]
    IN  IF Current(d.iter) = Null THEN PrevEnd(e) ELSE [e EXCEPT !.pc = "prev"]

SeekToFirst(C, d) ==
    FindNext([d EXCEPT !.forward = TRUE, !.value = Null,
                       !.iter = MergeSeekToFirst(C, @)], FALSE)

SeekToLast(C, d) ==
    FindPrev([d EXCEPT !.value = Null, !.iter = MergeSeekToLast(C, @)])

Seek(C, d, key) ==
    FindNext([d EXCEPT !.forward = TRUE, !.value = Null, !.iter =
                MergeSeek(C, @, [key |-> key, seq |-> d.sequence])], FALSE)

IterNext(C, d) ==
    IF d.forward
    THEN FindNext([d EXCEPT !.saved = Current(d.iter).key], TRUE)
    ELSE FindNext([d EXCEPT !.forward = TRUE, !.iter =
                     IF Current(@) = Null THEN MergeSeekToFirst(C, @)
                     ELSE MergeNext(C, @)], TRUE)

IterPrev(C, d) ==
    IF d.forward
    THEN [d EXCEPT !.saved = Current(d.iter).key, !.pc = "back"]
    ELSE FindPrev(d)

\* One turn of the loop of FindNextUserEntry.
NextStep(C, d) ==
    LET e == Current(d.iter)
        seen == e.seq <= d.sequence
        hides == seen /\ e.del
        on == [d EXCEPT !.saved = IF hides THEN e.key ELSE @,
                        !.skipping = @ \/ hides,
                        !.iter = MergeNext(C, @)]
    IN  IF seen /\ ~e.del /\ ~(d.skipping /\ e.key <= d.saved)
        THEN [d EXCEPT !.pc = "idle", !.valid = TRUE, !.saved = Null]
        ELSE IF Current(on.iter) = Null THEN Ended(on) ELSE on

\* One turn of the loop by which Prev leaves the entries of its key.
BackStep(C, d) ==
    LET on == [d EXCEPT !.iter = MergePrev(C, @)]
    IN  IF Current(on.iter) = Null THEN Ended(on)
        ELSE IF Current(on.iter).key < d.saved THEN FindPrev(on)
        ELSE on

\* One turn of the loop of FindPrevUserEntry.
PrevStep(C, d) ==
    LET e == Current(d.iter)
        seen == e.seq <= d.sequence
        on == [d EXCEPT !.found = IF seen THEN ~e.del ELSE @,
                        !.saved = IF ~seen THEN @ ELSE IF e.del THEN Null ELSE e.key,
                        !.value = IF ~seen THEN @ ELSE IF e.del THEN Null ELSE e,
                        !.iter = MergePrev(C, @)]
    IN  IF seen /\ d.found /\ e.key < d.saved THEN PrevEnd(d)
        ELSE IF Current(on.iter) = Null THEN PrevEnd(on) ELSE on

IterStep(C, d) ==
    CASE d.pc = "next" -> NextStep(C, d)
      [] d.pc = "back" -> BackStep(C, d)
      [] d.pc = "prev" -> PrevStep(C, d)

=============================================================================
