------------------------------- MODULE LogFormat -------------------------------
(***************************************************************************)
(* The format of leveldb's logs and MANIFESTs (db/log_writer.cc and        *)
(* db/log_reader.cc), as pure operators.                                   *)
(*                                                                         *)
(* A file is a sequence of cells, one for each byte.  It is cut into       *)
(* blocks; a logical record is cut into fragments that each lie within one *)
(* block, behind a header.  What a cell of a header or of a payload stands *)
(* for is the fragment it belongs to and its place in it, which is all     *)
(* that the length, the type and the checksum of the header tell apart.    *)
(***************************************************************************)
EXTENDS Integers, Sequences, SequencesExt

CONSTANTS
    BlockSize,      \* kBlockSize
    HeaderSize      \* kHeaderSize

ASSUME LogFormatAssumption ==
    /\ BlockSize \in Nat /\ HeaderSize \in Nat \ {0}
    /\ HeaderSize < BlockSize

\* No fragment: the bytes of a trailer, kBadRecord.
Bad == [rec |-> 0, type |-> "bad", from |-> 0, len |-> 0]

Zero == [frag |-> Bad, at |-> 0]

\* What EmitPhysicalRecord appends for fragment f.
Cells(f) == [i \in 1 .. HeaderSize + f.len |-> [frag |-> f, at |-> i]]

(***************************************************************************)
(* One turn of the loop of Writer::AddRecord, at block_offset_ off: the    *)
(* trailer that fills the block when no header fits, and the next fragment *)
(* of record rec, of which left bytes from position from are to go.        *)
(***************************************************************************)
\* Broken variant: the block is left without its trailer.
NoTrailer(off) == <<>>

Trailer(off) ==
    IF BlockSize - off < HeaderSize
    THEN [i \in 1 .. BlockSize - off |-> Zero] ELSE <<>>

StartOf(off) == IF BlockSize - off < HeaderSize THEN 0 ELSE off

FragmentType(begin, end) ==
    CASE begin /\ end -> "full" [] begin -> "first" [] end -> "last"
      [] OTHER -> "middle"

Fragment(off, rec, begin, from, left) ==
    LET len == Min({left, BlockSize - StartOf(off) - HeaderSize})
    IN  [rec |-> rec, type |-> FragmentType(begin, left = len),
         from |-> from, len |-> len]

(***************************************************************************)
(* Reader::ReadPhysicalRecord over the cells of one block.  The last block *)
(* of a file may be short; a header or a payload it cuts off is the end of *)
(* the file.  A header that is no header, a length that leaves the block   *)
(* or a payload that does not fit the checksum drops the rest of the       *)
(* block.                                                                  *)
(***************************************************************************)
ReadBlock(block) ==
    LET room(o) == Len(block) - o
        header(o) == block[o + 1].frag
        isHeader(o) == /\ header(o) # Bad
                       /\ \A i \in 1 .. HeaderSize :
                             block[o + i] = [frag |-> header(o), at |-> i]
        size(o) == HeaderSize + header(o).len
        matches(o) == \A i \in HeaderSize + 1 .. size(o) :
                         block[o + i] = [frag |-> header(o), at |-> i]
        read[o \in 0 .. Len(block)] ==
            IF room(o) < HeaderSize THEN <<>>
            ELSE IF ~isHeader(o) THEN <<Bad>>
            ELSE IF size(o) > room(o)
            THEN IF Len(block) = BlockSize THEN <<Bad>> ELSE <<>>
            ELSE IF ~matches(o) THEN <<Bad>>
            ELSE <<header(o)>> \o read[o + size(o)]
    IN  read[0]

Block(file, k) == SubSeq(file, k * BlockSize + 1, Min({(k + 1) * BlockSize, Len(file)}))

PhysicalRecords(file) ==
    FlattenSeq([k \in 1 .. Len(file) \div BlockSize + 1 |->
                  ReadBlock(Block(file, k - 1))])

\* The bytes of a fragment, as places in its record.
Content(f) == [i \in 1 .. f.len |-> <<f.rec, f.from + i>>]

(***************************************************************************)
(* Reader::ReadRecord, called until the end of the file: the records it    *)
(* returns, as the bytes they are made of, and whether it may have         *)
(* reported a corruption.  inside is in_fragmented_record.                 *)
(***************************************************************************)
NothingRead == [inside |-> FALSE, scratch |-> <<>>, out |-> <<>>,
                reported |-> FALSE]

\* A record that has begun and not ended is dropped, with a report.
Partial(s) == s.inside /\ s.scratch # <<>>

Returned(s, bytes) ==
    [s EXCEPT !.inside = FALSE, !.scratch = <<>>, !.out = Append(@, bytes)]

\* Broken variant: what was left of the record before is kept.
FirstFragmentAppends(s, p) ==
    [s EXCEPT !.inside = TRUE, !.scratch = @ \o Content(p),
              !.reported = @ \/ Partial(s)]

FirstFragment(s, p) ==
    [s EXCEPT !.inside = TRUE, !.scratch = Content(p),
              !.reported = @ \/ Partial(s)]

ReadFragment(s, p) ==
    CASE p.type = "bad" ->
           [s EXCEPT !.inside = FALSE, !.scratch = <<>>, !.reported = TRUE]
      [] p.type = "full" ->
           [Returned(s, Content(p)) EXCEPT !.reported = @ \/ Partial(s)]
      [] p.type = "first" -> FirstFragment(s, p)
      [] p.type = "middle" ->
           IF s.inside THEN [s EXCEPT !.scratch = @ \o Content(p)]
           ELSE [s EXCEPT !.reported = TRUE]
      [] OTHER ->
           IF s.inside THEN Returned(s, s.scratch \o Content(p))
           ELSE [s EXCEPT !.reported = TRUE]

ReadRecords(file) == FoldLeft(ReadFragment, NothingRead, PhysicalRecords(file))

=============================================================================
