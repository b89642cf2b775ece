-------------------------------- MODULE MemTable --------------------------------
(***************************************************************************)
(* The way of a write through leveldb and the readers it meets.  A write   *)
(* group goes to the log, fragment by fragment (db/log_writer.cc), and     *)
(* then into the skip list of the memtable, link by link (db/skiplist.h,   *)
(* db/memtable.cc), before its sequence numbers are published.  Writers    *)
(* take turns (module LevelDB), readers do not wait for them: they search  *)
(* the list while it changes, and iterators (module Iterators) walk over   *)
(* the memtable and a table underneath.                                    *)
(*                                                                         *)
(* The file may be cut anywhere by a crash, and an append may fail after   *)
(* any number of bytes; both are looked at through the log reader.         *)
(***************************************************************************)
EXTENDS LogFormat, Iterators

CONSTANTS
    Keys,           \* user keys
    Batches,        \* the write groups: sequences of [key, del]
    RecordSize,     \* the size of a group's record in the log
    Tables,         \* what the table below may hold
    MaxHeight,      \* kMaxHeight
    Bounds,         \* the instances to explore, [writes, faults, readers]: how
                    \* many writes, how many failed appends, readers or not
    Raw             \* a link that has not been initialised

\* The entries of a memtable or a table, and head.
Entries == [key : Nat, seq : Nat, del : BOOLEAN]

ASSUME MemTableAssumption ==
    /\ Keys \subseteq Nat \ {0}
    /\ Batches \subseteq Seq([key : Keys, del : BOOLEAN])
    /\ Tables \subseteq SUBSET [key : Keys, seq : Nat, del : BOOLEAN]
    /\ \A t \in Tables : /\ IsFiniteSet(t)
                          /\ \A a, b \in t : a.seq = b.seq => a = b
    /\ RecordSize \in [Batches -> Nat \ {0}]
    /\ MaxHeight \in Nat \ {0}
    /\ Bounds \subseteq [writes : Nat, faults : Nat, readers : BOOLEAN]
    /\ Null \notin Entries /\ Raw \notin Entries \cup {Null}

VARIABLES
    bound,                  \* the instance, never changed
    file, block_offset,     \* the log, and where the writer believes to be
    records,                \* per AddRecord: its size, and the length of the
                            \* file behind it, 0 when it failed
    next,                   \* the links of a node, one per level
    max_heights,            \* the values max_height_ has had
    last_sequence,
    table,                  \* the entries of the table below
    w,                      \* the writer
    rd,                     \* a search of the skip list by a reader
    it, want                \* an iterator, and the entry it should be at

logging == <<file, block_offset, records>>
listing == <<next, max_heights>>
fixed == <<bound, table>>
reader == <<rd, it, want>>
vars == <<fixed, logging, listing, last_sequence, w, reader>>

\* The first node of the list; its key is never looked at.
head == [key |-> 0, seq |-> 0, del |-> FALSE]

Waiting == [pc |-> "idle", ok |-> TRUE, rec |-> 0, size |-> 0, from |-> 0,
            begin |-> TRUE, todo |-> <<>>, count |-> 0, node |-> Null,
            prev |-> <<>>, level |-> 0]
NoSearch == [pc |-> "none", op |-> "ge", target |-> Null, x |-> head,
             level |-> 0, known |-> {}]

Init ==
    /\ file = <<>> /\ block_offset = 0 /\ records = <<>>
    /\ next = [n \in {head} |-> [l \in 1 .. MaxHeight |-> Null]] /\ max_heights = {1}
    /\ bound \in Bounds /\ table \in Tables
    /\ last_sequence = Max({0} \cup {e.seq : e \in table})
    /\ w = Waiting
    /\ rd = NoSearch /\ it = Null /\ want = Null

(***************************************************************************)
(* The writer.                                                             *)
(***************************************************************************)
Write(b) ==
    /\ w.pc = "idle" /\ Len(records) < bound.writes
    /\ w' = [Waiting EXCEPT
                !.pc = "log", !.rec = Len(records) + 1,
                !.size = RecordSize[b], !.count = Len(b),
                !.todo = [i \in DOMAIN b |-> [key |-> b[i].key, del |-> b[i].del,
                                              seq |-> last_sequence + i]]]
    /\ UNCHANGED <<logging, listing, last_sequence, fixed, reader>>

\* The fragment that the loop of AddRecord is at.
ToEmit == Fragment(block_offset, w.rec, w.begin, w.from, w.size - w.from)

Bytes == Trailer(block_offset) \o Cells(ToEmit)

\* One turn of the loop, flushed to the system.
EmitPhysicalRecord ==
    LET left == w.size - w.from - ToEmit.len
    IN  /\ w.pc = "log"
        /\ file' = file \o Bytes
        /\ block_offset' = StartOf(block_offset) + HeaderSize + ToEmit.len
        /\ w' = [w EXCEPT !.begin = FALSE, !.from = @ + ToEmit.len,
                          !.pc = IF left > 0 THEN "log"
                                 ELSE IF w.todo # <<>> THEN "insert" ELSE "finish"]
        /\ records' = IF left > 0 THEN records
                      ELSE Append(records, [size |-> w.size, end |-> Len(file')])
        /\ UNCHANGED <<listing, last_sequence, fixed, reader>>

\* The records whose AddRecord has failed.
Failed(recs) == {r \in DOMAIN recs : recs[r].end = 0}

\* The flush fails after some of the bytes: the rest of the buffer is given up,
\* and block_offset_ moves on all the same.
EmitFails ==
    /\ w.pc = "log" /\ Cardinality(Failed(records)) < bound.faults
    /\ \E n \in 0 .. Len(Bytes) - 1 : file' = file \o SubSeq(Bytes, 1, n)
    /\ block_offset' = StartOf(block_offset) + HeaderSize + ToEmit.len
    /\ records' = Append(records, [size |-> w.size, end |-> 0])
    /\ w' = [w EXCEPT !.pc = "finish", !.ok = FALSE]
    /\ UNCHANGED <<listing, last_sequence, fixed, reader>>

\* The entries that are in the list: linked at the lowest level.
Linked == {n \in DOMAIN next \ {head} : next[n][1] # Raw}

\* The nodes that are linked at a level.
AtLevel(l) == {n \in DOMAIN next : l <= Len(next[n]) /\ next[n][l] # Raw}

\* The node before e at a level, as FindGreaterOrEqual finds it for the writer.
Predecessor(e, l) == Largest({n \in AtLevel(l) : Before(n, e)})

\* MemTable::Add, SkipList::Insert up to the new node: a random height, the
\* predecessors, and max_height_.
Insert(height) ==
    LET e == Head(w.todo)
    IN  /\ w.pc = "insert"
        /\ next' = [n \in DOMAIN next \cup {e} |->
                       IF n = e THEN [l \in 1 .. height |-> Raw] ELSE next[n]]
        /\ max_heights' = max_heights \cup
                          (IF height > Max(max_heights) THEN {height} ELSE {})
        /\ w' = [w EXCEPT !.pc = "link", !.todo = Tail(@), !.node = e,
                          !.level = 1, !.prev = [l \in 1 .. height |->
                              IF l > Max(max_heights) THEN head
                              ELSE Predecessor(e, l)]]
        /\ UNCHANGED <<logging, last_sequence, fixed, reader>>

\* Broken variant: the node is published first and gets its link afterwards.
LinkLevelLate ==
    LET p == w.prev[w.level]
        published == next[p][w.level] = w.node
        up == w.level < Len(next[w.node])
    IN  /\ w.pc = "link"
        /\ next' = IF published
                   THEN [next EXCEPT ![w.node][w.level] = FirstOf(
                            {n \in AtLevel(w.level) : Before(w.node, n)})]
                   ELSE [next EXCEPT ![p][w.level] = w.node]
        /\ w' = IF ~published THEN w
                ELSE [w EXCEPT !.level = @ + 1, !.pc = IF up THEN "link"
                         ELSE IF w.todo # <<>> THEN "insert" ELSE "finish"]
        /\ UNCHANGED <<logging, max_heights, last_sequence, fixed, reader>>

\* The node gets its link and is then published at one more level.
LinkLevel ==
    LET p == w.prev[w.level]
        up == w.level < Len(next[w.node])
    IN  /\ w.pc = "link"
        /\ next' = [next EXCEPT ![w.node][w.level] = next[p][w.level],
                                ![p][w.level] = w.node]
        /\ w' = [w EXCEPT !.level = @ + 1, !.pc = IF up THEN "link"
                              ELSE IF w.todo # <<>> THEN "insert" ELSE "finish"]
        /\ UNCHANGED <<logging, max_heights, last_sequence, fixed, reader>>

\* The end of DBImpl::Write.
Finish ==
    /\ w.pc = "finish"
    /\ last_sequence' = last_sequence + w.count
    /\ w' = Waiting
    /\ UNCHANGED <<logging, listing, fixed, reader>>

(***************************************************************************)
(* Searches of the skip list: FindGreaterOrEqual ("ge", for Get and Seek), *)
(* FindLessThan ("lt", for Prev) and FindLast ("last").  max_height_ is    *)
(* read without synchronisation, so that any earlier value may be seen.    *)
(***************************************************************************)
Search(op, target) ==
    /\ bound.readers /\ rd = NoSearch /\ it = Null
    /\ \E h \in max_heights :
          rd' = [pc |-> "search", op |-> op, target |-> target, x |-> head,
                 level |-> h, known |-> Linked]
    /\ UNCHANGED <<logging, listing, last_sequence, fixed, w, it, want>>

\* MemTable::Get of a key at the sequence number published last.
Get(key) == Search("ge", [key |-> key, seq |-> last_sequence])

Prev == \E n \in Linked : Search("lt", n)

FindLast == Search("last", Null)

\* One turn of the loop: one link is read.
SearchStep ==
    LET n == next[rd.x][rd.level]
        on == n # Null /\ (rd.op = "last" \/ Before(n, rd.target))
    IN  /\ rd.pc = "search"
        /\ rd' = IF on THEN [rd EXCEPT !.x = n]
                 ELSE IF rd.level > 1 THEN [rd EXCEPT !.level = @ - 1]
                 ELSE [rd EXCEPT !.pc = "found", !.level = 0,
                                 !.x = IF rd.op = "ge" THEN n ELSE @]
        /\ UNCHANGED <<logging, listing, last_sequence, fixed, w, it, want>>

EndSearch ==
    /\ rd.pc = "found"
    /\ rd' = NoSearch
    /\ UNCHANGED <<logging, listing, last_sequence, fixed, w, it, want>>

(***************************************************************************)
(* An iterator over the memtable and the table.                            *)
(***************************************************************************)
Children == <<Linked, table>>

\* What the iterator should show: of every key the newest entry at or below its
\* sequence number, unless that is a deletion.
Shown(d) ==
    LET es == {e \in Linked \cup table : e.seq <= d.sequence}
    IN  {e \in es : ~e.del /\ \A f \in es : f.key = e.key => f.seq <= e.seq}

NewIterator ==
    /\ bound.readers /\ it = Null /\ rd = NoSearch
    /\ it' = NewDBIter(2, last_sequence)
    /\ want' = Null
    /\ UNCHANGED <<logging, listing, last_sequence, fixed, w, rd>>

Position(d, e) ==
    /\ it # Null /\ it.pc = "idle"
    /\ it' = d /\ want' = e
    /\ UNCHANGED <<logging, listing, last_sequence, fixed, w, rd>>

CallSeekToFirst == Position(SeekToFirst(Children, it), FirstOf(Shown(it)))

CallSeekToLast == Position(SeekToLast(Children, it), LastOf(Shown(it)))

CallSeek(key) ==
    Position(Seek(Children, it, key),
             FirstOf({e \in Shown(it) : e.key >= key}))

CallNext ==
    /\ it # Null /\ it.valid
    /\ Position(IterNext(Children, it),
                FirstOf({e \in Shown(it) : e.key > want.key}))

CallPrev ==
    /\ it # Null /\ it.valid
    /\ Position(IterPrev(Children, it),
                LastOf({e \in Shown(it) : e.key < want.key}))

IteratorStep ==
    /\ it # Null /\ it.pc # "idle"
    /\ it' = IterStep(Children, it)
    /\ UNCHANGED <<logging, listing, last_sequence, fixed, w, rd, want>>

DeleteIterator ==
    /\ it # Null /\ it.pc = "idle"
    /\ it' = Null /\ want' = Null
    /\ UNCHANGED <<logging, listing, last_sequence, fixed, w, rd>>

Next ==
    \/ \E b \in Batches : Write(b)
    \/ EmitPhysicalRecord \/ EmitFails
    \/ \E h \in 1 .. MaxHeight : Insert(h)
    \/ LinkLevel \/ Finish
    \/ \E k \in Keys : Get(k) \/ CallSeek(k)
    \/ Prev \/ FindLast \/ SearchStep \/ EndSearch
    \/ NewIterator \/ CallSeekToFirst \/ CallSeekToLast
    \/ CallNext \/ CallPrev \/ IteratorStep \/ DeleteIterator

Spec == Init /\ [][Next]_vars

(***************************************************************************)
(* Properties.                                                             *)
(***************************************************************************)
\* The bytes of record r.
Whole(recs, r) == [i \in 1 .. recs[r].size |-> <<r, i>>]

\* The places where a crash may cut what has just been appended.
NewCuts == Len(file) .. Len(file')

\* The reader takes a record that the cut tears for the end of the file.
DropsTornTail(cut, recs) ==
    LET r == ReadRecords(cut)
        before == {i \in DOMAIN recs : recs[i].end <= Len(cut)}
    IN  /\ ~r.reported
        /\ r.out = [i \in 1 .. Cardinality(before) |-> Whole(recs, i)]

\* Wherever a crash cuts the file, and no append has failed, the reader returns
\* the records that end before the cut, and takes the torn one for the end of
\* the file and not for a corruption (the comments at kEof in log_reader.cc).
TornTailIsDropped ==
    [][file' # file /\ Failed(records') = {} =>
          \A n \in NewCuts : DropsTornTail(SubSeq(file', 1, n), records')]_vars

\* The reader returns acknowledged records only, and those before a failure.
ReadsBack(cut, recs) ==
    LET out == ReadRecords(cut).out
        acknowledged == DOMAIN recs \ Failed(recs)
        number(i) == out[i][1][1]
    IN  /\ \A i \in DOMAIN out :
              /\ out[i] # <<>> /\ number(i) \in acknowledged
              /\ out[i] = Whole(recs, number(i))
              /\ i > 1 => number(i - 1) < number(i)
        /\ \A r \in acknowledged :
              recs[r].end <= Len(cut) /\ (\A f \in Failed(recs) : r < f)
                  => \E i \in DOMAIN out : out[i] = Whole(recs, r)

\* After a failed append the writer goes on at a place where the file is not.
\* Whatever the reader makes of that, it returns acknowledged records only, whole
\* and in their order, never one put together from two, and all those from
\* before the failure (the checksum and the fragment types of log_reader.cc).
NothingInvented ==
    [][file' # file =>
          \A n \in NewCuts : ReadsBack(SubSeq(file', 1, n), records')]_vars

\* A search that runs while nodes are being linked reads initialised links only
\* and ends at the right node: it misses no entry that was in the list when it
\* began, and a Get finds the newest entry it may see (db/skiplist.h, "reads
\* progress without any internal locking or synchronization").
SearchesAreRight ==
    /\ rd.pc = "search" => next[rd.x][rd.level] # Raw
    /\ rd.pc = "found" =>
          CASE rd.op = "ge" ->
                 /\ rd.x # Null => rd.x \in Linked /\ ~Before(rd.x, rd.target)
                 /\ LET k == rd.target.key
                    IN  TableGet(rd.known, k, rd.target.seq) =
                            IF rd.x # Null /\ rd.x.key = k THEN rd.x ELSE Null
            [] rd.op = "lt" ->
                 /\ Before(rd.x, rd.target)
                 /\ \A e \in rd.known : ~(Before(rd.x, e) /\ Before(e, rd.target))
            [] OTHER -> \A e \in rd.known : ~Before(rd.x, e)

\* Between two calls the iterator is where a cursor over the updates at its
\* sequence number would be, however Next, Prev and Seek follow each other and
\* whatever has been inserted since (the changes of direction in db_iter.cc and
\* merger.cc).
IteratorIsCursor ==
    it # Null /\ it.pc = "idle" =>
        /\ it.valid <=> want # Null
        /\ it.valid => AtEntry(it) = want
        /\ it.valid /\ ~it.forward => it.saved = want.key
=============================================================================
