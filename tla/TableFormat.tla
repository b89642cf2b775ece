------------------------------ MODULE TableFormat ------------------------------
(***************************************************************************)
(* Table files of leveldb (table/block_builder.cc, table/block.cc,         *)
(* table/table_builder.cc, table/filter_block.cc, util/comparator.cc), as  *)
(* pure operators: how entries are packed into blocks with an index and a  *)
(* filter, and how they are found again.                                   *)
(*                                                                         *)
(* An internal key is a record [key, seq]: a sequence of bytes and a       *)
(* sequence number.  What is stored under a key is not modelled.  Places   *)
(* in a block are numbers of entries instead of offsets, which keeps their *)
(* order; blocks have offsets in the file, since filters go by them.       *)
(***************************************************************************)
EXTENDS Integers, Sequences, SequencesExt

CONSTANTS
    MaxByte,                \* 0xff
    MaxSequenceNumber,      \* kMaxSequenceNumber
    RestartInterval,        \* options.block_restart_interval
    BlockSize,              \* options.block_size
    FilterBase,             \* kFilterBase
    Null

ASSUME TableFormatAssumption ==
    /\ MaxByte \in Nat /\ MaxSequenceNumber \in Nat
    /\ RestartInterval \in Nat \ {0}
    /\ BlockSize \in Nat /\ FilterBase \in Nat \ {0}

(***************************************************************************)
(* Keys.                                                                   *)
(***************************************************************************)
\* Slice::compare: bytewise, a prefix first.
BytesBefore(a, b) ==
    \E i \in DOMAIN b :
        /\ \A j \in 1 .. i - 1 : j <= Len(a) /\ a[j] = b[j]
        /\ i > Len(a) \/ a[i] < b[i]

\* InternalKeyComparator::Compare.
Before(a, b) == BytesBefore(a.key, b.key) \/ (a.key = b.key /\ a.seq > b.seq)

\* How many bytes two strings share at their beginning.
Common(a, b) ==
    Max({n \in 0 .. Min({Len(a), Len(b)}) : \A i \in 1 .. n : a[i] = b[i]})

\* The bytes of an internal key; the eight bytes of sequence number and type are
\* one cell that no byte of a user key equals.
Bytes(k) == Append(k.key, MaxByte + 1 + k.seq)
KeyOfBytes(b) == [key |-> Front(b), seq |-> Last(b) - MaxByte - 1]

\* BytewiseComparatorImpl::FindShortestSeparator and FindShortSuccessor.
ShortestSeparator(start, limit) ==
    LET d == Common(start, limit) + 1
    IN  IF d > Min({Len(start), Len(limit)}) THEN start
        ELSE IF start[d] < MaxByte /\ start[d] + 1 < limit[d]
        THEN Append(SubSeq(start, 1, d - 1), start[d] + 1) ELSE start

ShortSuccessor(s) ==
    LET at == {i \in DOMAIN s : s[i] # MaxByte}
    IN  IF at = {} THEN s
        ELSE Append(SubSeq(s, 1, Min(at) - 1), s[Min(at)] + 1)

\* InternalKeyComparator: the short key is taken when it is really shorter and
\* behind, with the number that sorts before every entry of that user key.
Shortened(k, tmp) ==
    IF Len(tmp) < Len(k.key) /\ BytesBefore(k.key, tmp)
    THEN [key |-> tmp, seq |-> MaxSequenceNumber] ELSE k

FindShortestSeparator(k, limit) == Shortened(k, ShortestSeparator(k.key, limit.key))
FindShortSuccessor(k) == Shortened(k, ShortSuccessor(k.key))

(***************************************************************************)
(* BlockBuilder.                                                           *)
(***************************************************************************)
EmptyBlock == [entries |-> <<>>, restarts |-> <<1>>, counter |-> 0, last_key |-> <<>>]

AddToBlock(block, k, value, interval) ==
    LET key == Bytes(k)
        restart == block.counter >= interval
        shared == IF restart THEN 0 ELSE Common(block.last_key, key)
    IN  [entries |-> Append(block.entries, [shared |-> shared, value |-> value,
                        delta |-> SubSeq(key, shared + 1, Len(key))]),
         restarts |-> IF restart THEN Append(block.restarts, Len(block.entries) + 1)
                      ELSE block.restarts,
         counter |-> IF restart THEN 1 ELSE block.counter + 1,
         last_key |-> key]

\* CurrentSizeEstimate, in cells.
SizeEstimate(block) ==
    FoldLeft(LAMBDA n, e : n + 1 + Len(e.delta), Len(block.restarts), block.entries)

(***************************************************************************)
(* Block::Iter.  current is the entry it is at, one past the last when it  *)
(* is not valid; next is where value_ ends, and so where ParseNextKey goes *)
(* on; key is key_.                                                        *)
(***************************************************************************)
EndOf(block) == Len(block.entries) + 1

Invalid(block) == [current |-> EndOf(block), next |-> EndOf(block), key |-> <<>>,
                   restart_index |-> Len(block.restarts) + 1]

Valid(block, it) == it.current < EndOf(block)

SeekToRestartPoint(block, i) ==
    [Invalid(block) EXCEPT !.next = block.restarts[i], !.restart_index = i]

ParseNextKey(block, it) ==
    IF it.next >= EndOf(block) THEN Invalid(block)
    ELSE LET e == block.entries[it.next]
         IN  [current |-> it.next, next |-> it.next + 1,
              key |-> SubSeq(it.key, 1, e.shared) \o e.delta,
              restart_index |-> Max({it.restart_index} \cup
                  {i \in it.restart_index + 1 .. Len(block.restarts) :
                      block.restarts[i] < it.next})]

\* The loops around ParseNextKey: it is called once, and again until stop holds
\* or there is nothing left.
ParseUntil(block, it, stop(_)) ==
    LET parse[n \in 1 .. EndOf(block)] ==
            IF n = 1 THEN ParseNextKey(block, it)
            ELSE LET p == parse[n - 1]
                 IN  IF ~Valid(block, p) \/ stop(p) THEN p
                     ELSE ParseNextKey(block, p)
    IN  parse[EndOf(block)]

BlockSeekToFirst(block) == ParseNextKey(block, SeekToRestartPoint(block, 1))

BlockSeekToLast(block) ==
    ParseUntil(block, SeekToRestartPoint(block, Len(block.restarts)),
               LAMBDA p : p.next >= EndOf(block))

BlockPrev(block, it) ==
    LET before == {i \in 1 .. it.restart_index : block.restarts[i] < it.current}
    IN  IF before = {} THEN Invalid(block)
        ELSE ParseUntil(block, SeekToRestartPoint(block, Max(before)),
                        LAMBDA p : p.next >= it.current)

\* Binary search for the last restart point with a key before the target.
RestartBefore(block, target) ==
    LET at(i) == KeyOfBytes(block.entries[block.restarts[i]].delta)
        search[left \in DOMAIN block.restarts, right \in DOMAIN block.restarts] ==
            IF left >= right THEN left
            ELSE LET mid == (left + right + 1) \div 2
                 IN  IF Before(at(mid), target) THEN search[mid, right]
                     ELSE search[left, mid - 1]
    IN  search[1, Len(block.restarts)]

BlockSeek(block, target) ==
    ParseUntil(block, SeekToRestartPoint(block, RestartBefore(block, target)),
               LAMBDA p : ~Before(KeyOfBytes(p.key), target))

(***************************************************************************)
(* TableBuilder and FilterBlockBuilder.  A filter is the set of the user   *)
(* keys it was made of: the policy may take a key for one of them, never   *)
(* the other way round.                                                    *)
(***************************************************************************)
NewTable == [blocks |-> <<>>, offsets |-> <<>>, offset |-> 0, data |-> EmptyBlock,
             index |-> EmptyBlock, last_key |-> Null, pending |-> FALSE,
             filters |-> <<>>, keys |-> {}]

\* StartBlock: GenerateFilter until the filter of the block's offset is next.
StartBlock(t) ==
    LET n == t.offset \div FilterBase
    IN  IF n <= Len(t.filters) THEN t
        ELSE [t EXCEPT !.keys = {}, !.filters = @ \o
                [i \in 1 .. n - Len(@) |-> IF i = 1 THEN t.keys ELSE {}]]

\* The entry of the index for the block written last.
AddIndex(t, k) ==
    IF ~t.pending THEN t
    ELSE [t EXCEPT !.index = AddToBlock(@, k, Len(t.blocks), 1), !.pending = FALSE]

Flush(t) ==
    IF t.data = EmptyBlock THEN t
    ELSE StartBlock([t EXCEPT !.blocks = Append(@, t.data), !.data = EmptyBlock,
                        !.offsets = Append(@, t.offset), !.pending = TRUE,
                        !.offset = @ + SizeEstimate(t.data) + 1])

Add(t, k) ==
    LET u == AddIndex(t, IF t.pending THEN FindShortestSeparator(t.last_key, k) ELSE Null)
        v == [u EXCEPT !.keys = @ \cup {k.key}, !.last_key = k,
                       !.data = AddToBlock(@, k, Null, RestartInterval)]
    IN  IF SizeEstimate(v.data) >= BlockSize THEN Flush(v) ELSE v

Finish(t) ==
    LET u == Flush(t)
        v == IF u.keys = {} THEN u
             ELSE [u EXCEPT !.filters = Append(@, u.keys), !.keys = {}]
    IN  AddIndex(v, IF v.pending THEN FindShortSuccessor(v.last_key) ELSE Null)

\* The entries in the order in which a builder is given them.
Sorted(es) == SetToSortSeq(es, Before)

Built(es) == Finish(FoldLeft(Add, NewTable, Sorted(es)))

\* FilterBlockReader::KeyMayMatch for block number n.
KeyMayMatch(t, n, key) ==
    LET i == t.offsets[n] \div FilterBase + 1
    IN  i <= Len(t.filters) => key \in t.filters[i]

=============================================================================
