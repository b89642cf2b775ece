------------------------------ MODULE VersionSet ------------------------------
(***************************************************************************)
(* The sorted tables of leveldb and the rules that arrange them in levels  *)
(* (db/version_set.cc, the drop rule of db/db_impl.cc), as pure operators. *)
(*                                                                         *)
(* T maps the number of a table file to the set of its entries; V maps a   *)
(* level to the set of the numbers of its files.  A file's size is the     *)
(* number of its entries, and its smallest and largest keys are read off   *)
(* its entries, since a table never changes once it is finished.           *)
(***************************************************************************)
EXTENDS InternalKeys, Sequences, FiniteSets, SequencesExt

CONSTANTS
    NumLevels,              \* config::kNumLevels
    MaxMemCompactLevel,     \* config::kMaxMemCompactLevel
    L0_CompactionTrigger,   \* config::kL0_CompactionTrigger
    MaxEntriesForLevel,     \* MaxBytesForLevel of every level above 0
    TargetFileSize,         \* options.max_file_size, in entries
    MaxGrandParentOverlap,  \* MaxGrandParentOverlapBytes, in entries
    ExpandedSizeLimit,      \* ExpandedCompactionByteSizeLimit, in entries
    MaxSequenceNumber       \* kMaxSequenceNumber

Levels == 0 .. NumLevels - 1

ASSUME VersionSetAssumption ==
    /\ NumLevels \in Nat /\ NumLevels >= 2
    /\ MaxMemCompactLevel \in 0 .. NumLevels - 1
    /\ L0_CompactionTrigger \in Nat \ {0}
    /\ MaxEntriesForLevel \in Nat \ {0}
    /\ TargetFileSize \in Nat \ {0}
    /\ MaxGrandParentOverlap \in Nat
    /\ ExpandedSizeLimit \in Nat
    /\ MaxSequenceNumber \in Nat

NoFiles == [l \in Levels |-> {}]

LiveFiles(V) == UNION {V[l] : l \in Levels}

Sorted(es) ==
    [i \in 1 .. Cardinality(es) |->
        CHOOSE e \in es : Cardinality({d \in es : Before(d, e)}) = i - 1]

\* TotalFileSize of the files fs.
Size(T, fs) == FoldSet(LAMBDA f, n : n + Cardinality(T[f]), 0, fs)

\* VersionSet::Builder::BySmallestKey.
BySmallestKey(T, f, g) ==
    LET a == Smallest(T[f])  b == Smallest(T[g])
    IN  Before(a, b) \/ (~Before(b, a) /\ f < g)

\* The files of a level in the order a Version keeps them.
FileList(T, fs) ==
    [i \in 1 .. Cardinality(fs) |->
        CHOOSE f \in fs :
            Cardinality({g \in fs : BySmallestKey(T, g, f)}) = i - 1]

(***************************************************************************)
(* FindFile: binary search for the first file of the list whose largest    *)
(* key is not before ikey; Len(list) + 1 when there is none.  The search   *)
(* is the code's, because it is only right when the list is sorted by its  *)
(* largest keys too.                                                       *)
(***************************************************************************)
FindFile(T, list, ikey) ==
    LET search[left \in 0 .. Len(list), right \in 0 .. Len(list)] ==
            IF left >= right THEN right
            ELSE LET mid == (left + right) \div 2
                 IN  IF Before(Largest(T[list[mid + 1]]), ikey)
                     THEN search[mid + 1, right]
                     ELSE search[left, mid]
    IN  search[0, Len(list)] + 1

(***************************************************************************)
(* Reading.                                                                *)
(***************************************************************************)
Covers(es, key) == Smallest(es).key <= key /\ key <= Largest(es).key

\* The files Version::Get searches, in order: the overlapping files of level
\* 0, newest first, then at most one file of every other level.
SearchOrder(T, V, key, snap) ==
    LET level0 == {f \in V[0] : Covers(T[f], key)}
        newestFirst == [i \in 1 .. Cardinality(level0) |->
            CHOOSE f \in level0 :
                Cardinality({g \in level0 : g > f}) = i - 1]
        inLevel(l) ==
            LET list == FileList(T, V[l])
                i == FindFile(T, list, [key |-> key, seq |-> snap])
            IN  IF i > Len(list) \/ key < Smallest(T[list[i]]).key
                THEN <<>> ELSE <<list[i]>>
    IN  newestFirst \o FlattenSeq([l \in 1 .. NumLevels - 1 |-> inLevel(l)])

\* Version::Get: the first file that has an entry decides.
VersionGet(T, V, key, snap) ==
    LET order == SearchOrder(T, V, key, snap)
        hits == {i \in DOMAIN order : TableGet(T[order[i]], key, snap) # Null}
    IN  IF hits = {} THEN Null
        ELSE TableGet(T[order[CHOOSE i \in hits : \A j \in hits : i <= j]],
                      key, snap)

\* GetStats: the file charged with a seek is the first one searched when more
\* than one was, Null otherwise.
SeekFile(T, V, key, snap) ==
    LET order == SearchOrder(T, V, key, snap)
    IN  IF Len(order) < 2 \/ TableGet(T[order[1]], key, snap) # Null
        THEN Null ELSE order[1]

LevelOf(V, f) == CHOOSE l \in Levels : f \in V[l]

(***************************************************************************)
(* Which files overlap a range of user keys.                               *)
(***************************************************************************)
Overlaps(es, lo, hi) == ~(Largest(es).key < lo) /\ ~(Smallest(es).key > hi)

\* SomeFileOverlapsRange: all the files of level 0, a binary search above.
OverlapInLevel(T, V, l, lo, hi) ==
    IF l = 0 THEN \E f \in V[0] : Overlaps(T[f], lo, hi)
    ELSE LET list == FileList(T, V[l])
             \* the earliest internal key of lo: no entry of lo is before it
             i == FindFile(T, list, [key |-> lo, seq |-> MaxSequenceNumber])
         IN  i <= Len(list) /\ ~(hi < Smallest(T[list[i]]).key)

\* Version::GetOverlappingInputs.  In level 0 a file that reaches past the
\* range widens it and the search starts again.
GetOverlappingInputs(T, V, l, lo, hi) ==
    LET within(a, b) == {f \in V[l] : Overlaps(T[f], a, b)}
        low(a, b) == Min({a} \cup {Smallest(T[f]).key : f \in within(a, b)})
        high(a, b) == Max({b} \cup {Largest(T[f]).key : f \in within(a, b)})
        range[n \in 0 .. 2 * Cardinality(V[l])] ==
            IF n = 0 THEN <<lo, hi>>
            ELSE LET r == range[n - 1]
                 IN  <<low(r[1], r[2]), high(r[1], r[2])>>
        widest == range[2 * Cardinality(V[l])]
    IN  IF l = 0 THEN within(widest[1], widest[2]) ELSE within(lo, hi)

\* VersionSet::GetRange, as user keys.
Entries(T, fs) == UNION {T[f] : f \in fs}
RangeLow(T, fs) == Smallest(Entries(T, fs)).key
RangeHigh(T, fs) == Largest(Entries(T, fs)).key

(***************************************************************************)
(* Version::PickLevelForMemTableOutput.                                    *)
(***************************************************************************)
\* Broken variant: the levels below are not looked at.
PickDeepestLevel(T, V, lo, hi) ==
    IF OverlapInLevel(T, V, 0, lo, hi) THEN 0 ELSE MaxMemCompactLevel

PickLevelForMemTableOutput(T, V, lo, hi) ==
    LET blocked(l) ==
            \/ OverlapInLevel(T, V, l + 1, lo, hi)
            \/ /\ l + 2 < NumLevels
               /\ Size(T, GetOverlappingInputs(T, V, l + 2, lo, hi))
                     > MaxGrandParentOverlap
        stops == {l \in 0 .. MaxMemCompactLevel :
                     l = MaxMemCompactLevel \/ blocked(l)}
    IN  IF OverlapInLevel(T, V, 0, lo, hi) THEN 0 ELSE Min(stops)

(***************************************************************************)
(* Choosing the inputs of a compaction.                                    *)
(***************************************************************************)
\* VersionSet::Finalize: the level with the best score, and whether the score
\* reaches 1 (level 0 counts files, the others entries).  Scores are compared
\* as fractions.
ScoreNum(T, V, l) == IF l = 0 THEN Cardinality(V[0]) ELSE Size(T, V[l])
ScoreDen(l) == IF l = 0 THEN L0_CompactionTrigger ELSE MaxEntriesForLevel

CompactionLevel(T, V) ==
    CHOOSE l \in 0 .. NumLevels - 2 :
        \A m \in 0 .. NumLevels - 2 :
            LET a == ScoreNum(T, V, l) * ScoreDen(m)
                b == ScoreNum(T, V, m) * ScoreDen(l)
            IN  a > b \/ (a = b /\ l <= m)

SizeCompaction(T, V) ==
    LET l == CompactionLevel(T, V) IN ScoreNum(T, V, l) >= ScoreDen(l)

\* AddBoundaryInputs: a file of the level that continues the user key at the
\* upper end of the inputs is taken along, and so on.
BoundaryFile(T, level, fs) ==
    LET last == Largest(Entries(T, fs))
        next == {f \in level : /\ Before(last, Smallest(T[f]))
                               /\ Smallest(T[f]).key = last.key}
    IN  IF next = {} THEN Null
        ELSE CHOOSE f \in next :
                \A g \in next \ {f} : Before(Smallest(T[f]), Smallest(T[g]))

AddBoundaryInputs(T, level, fs) ==
    LET grow[n \in 0 .. Cardinality(level)] ==
            IF n = 0 \/ fs = {} THEN fs
            ELSE LET s == grow[n - 1]  f == BoundaryFile(T, level, s)
                 IN  IF f = Null THEN s ELSE s \cup {f}
    IN  grow[Cardinality(level)]

\* The inputs in0 of level l with the files of the next level they overlap.
WithNextLevel(T, V, l, in0) ==
    [level |-> l, in0 |-> in0,
     in1 |-> GetOverlappingInputs(T, V, l + 1, RangeLow(T, in0),
                                               RangeHigh(T, in0))]

\* The attempt to take more files of level l ...
Expansion(T, V, c) ==
    WithNextLevel(T, V, c.level,
        AddBoundaryInputs(T, V[c.level],
            GetOverlappingInputs(T, V, c.level, RangeLow(T, c.in0 \cup c.in1),
                                                RangeHigh(T, c.in0 \cup c.in1))))

\* ... which is kept when it does not take more of the next level.
Prefer(T, e, c) ==
    IF /\ c.in1 # {}
       /\ Cardinality(e.in0) > Cardinality(c.in0)
       /\ Size(T, c.in1) + Size(T, e.in0) < ExpandedSizeLimit
       /\ Cardinality(e.in1) = Cardinality(c.in1)
    THEN e ELSE c

Grandparents(T, V, c) ==
    IF c.level + 2 >= NumLevels THEN {}
    ELSE GetOverlappingInputs(T, V, c.level + 2,
                              RangeLow(T, c.in0 \cup c.in1),
                              RangeHigh(T, c.in0 \cup c.in1))

SetupOtherInputs(T, V, l, fs) ==
    LET c == WithNextLevel(T, V, l, AddBoundaryInputs(T, V[l], fs))
    IN  Prefer(T, Expansion(T, V, c), c)

\* PickCompaction, once it has settled on file f of level l.
CompactionOf(T, V, l, f) ==
    SetupOtherInputs(T, V, l,
        IF l = 0 THEN GetOverlappingInputs(T, V, 0, Smallest(T[f]).key,
                                                    Largest(T[f]).key)
        ELSE {f})

\* VersionSet::CompactRange: all the files of level 0 in the range; above, a
\* prefix of them that reaches the target file size.
RangePrefix(T, V, l, lo, hi) ==
    LET inputs == FileList(T, GetOverlappingInputs(T, V, l, lo, hi))
        total(i) == Size(T, {inputs[j] : j \in 1 .. i})
    IN  {inputs[i] : i \in {j \in DOMAIN inputs : total(j - 1) < TargetFileSize}}

RangeInputs(T, V, l, lo, hi) ==
    IF l = 0 THEN GetOverlappingInputs(T, V, 0, lo, hi)
    ELSE RangePrefix(T, V, l, lo, hi)

IsTrivialMove(T, V, c) ==
    /\ Cardinality(c.in0) = 1
    /\ c.in1 = {}
    /\ Size(T, Grandparents(T, V, c)) <= MaxGrandParentOverlap

(***************************************************************************)
(* The loop of DBImpl::DoCompactionWork over the merged inputs.            *)
(***************************************************************************)
\* Compaction::IsBaseLevelForKey: no deeper level of the version the inputs
\* were picked from may hold the key.
IsBaseLevelForKey(T, V, l, key) ==
    \A m \in l + 2 .. NumLevels - 1 : \A f \in V[m] : ~Covers(T[f], key)

\* An entry is dropped when a newer one of its key is visible to every
\* snapshot, or when it is a deletion with nothing left underneath.
Drop(T, V, l, input, i, snap) ==
    LET e == input[i]
        prev == IF i > 1 /\ input[i - 1].key = e.key
                THEN input[i - 1].seq ELSE Null
    IN  IF prev # Null /\ prev <= snap THEN TRUE
        ELSE e.del /\ e.seq <= snap /\ IsBaseLevelForKey(T, V, l, e.key)

\* Compaction::ShouldStopBefore over the grandparents gp: how far e moves the
\* index and how many entries of grandparents it has passed.
Passed(T, gp, from, e) ==
    {i \in from .. Len(gp) : \A j \in from .. i : Before(Largest(T[gp[j]]), e)}

\* The entries of the output tables, one set per table.
Outputs(T, V, c, snap) ==
    LET input == Sorted(Entries(T, c.in0 \cup c.in1))
        gp == FileList(T, Grandparents(T, V, c))
        step(s, i) ==
            LET e == input[i]
                skip == Passed(T, gp, s.index, e)
                bytes == s.bytes + (IF s.seen
                                    THEN Size(T, {gp[j] : j \in skip}) ELSE 0)
                stop == bytes > MaxGrandParentOverlap
                done == IF stop /\ s.open # {} THEN Append(s.done, s.open)
                        ELSE s.done
                open == IF stop THEN {} ELSE s.open
                next == IF Drop(T, V, c.level, input, i, snap)
                        THEN open ELSE open \cup {e}
                full == Cardinality(next) >= TargetFileSize
            IN  [index |-> s.index + Cardinality(skip), seen |-> TRUE,
                 bytes |-> IF stop THEN 0 ELSE bytes,
                 done |-> IF full THEN Append(done, next) ELSE done,
                 open |-> IF full THEN {} ELSE next]
        end == FoldLeftDomain(step, [index |-> 1, seen |-> FALSE, bytes |-> 0,
                                     done |-> <<>>, open |-> {}], input)
    IN  IF end.open = {} THEN end.done ELSE Append(end.done, end.open)

(***************************************************************************)
(* Version edits (db/version_edit.h) and VersionSet::Builder.  Deletions   *)
(* of files are applied before additions, which take a number out of the   *)
(* deleted ones.                                                           *)
(***************************************************************************)
ApplyEdit(V, edit) ==
    [l \in Levels |->
        (V[l] \ {d[2] : d \in {x \in edit.deleted : x[1] = l}})
            \cup {a[2] : a \in {x \in edit.added : x[1] = l}}]

=============================================================================
