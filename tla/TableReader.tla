------------------------------ MODULE TableReader ------------------------------
(***************************************************************************)
(* Threads that read table files of leveldb at the same time               *)
(* (db/table_cache.cc, table/table.cc, table/two_level_iterator.cc): Get   *)
(* and iterators, on top of the format of module TableFormat.  Open tables *)
(* and blocks that have been read are shared through two caches (module    *)
(* LRUCache), the only state the threads have in common.                   *)
(*                                                                         *)
(* An action of a reader goes as far as its next Lookup or Insert.  An     *)
(* entry is inserted later than it was missed, so that two readers may     *)
(* open the same table or read the same block.  The Release of what a      *)
(* reader gives up takes the shard's mutex once more, but is part of the   *)
(* action: until then the entry has this reader's reference and nobody     *)
(* else looks at the count.                                                *)
(***************************************************************************)
EXTENDS TableFormat

CONSTANTS
    Readers,        \* the threads
    Uncached,       \* those that read with fill_cache = false
    Targets,        \* the internal keys that are looked for
    Scenes,         \* the instances to explore: the entries of each file, the
                    \* readers, how many calls they make, whether reads may fail,
                    \* whether the options have a filter_policy
    TableCapacity,  \* of the table cache, in tables
    BlockCapacity   \* of the block cache, in cells

ASSUME TableReaderAssumption ==
    /\ IsFiniteSet(Readers) /\ Uncached \subseteq Readers
    /\ Null \notin Nat
    /\ TableCapacity \in Nat /\ BlockCapacity \in Nat
    /\ \A s \in Scenes : /\ s.calls \in Nat /\ s.readers \subseteq Readers
                          /\ s.faults \in BOOLEAN /\ s.filter_policy \in BOOLEAN

VARIABLES
    scene,          \* never changes
    tables,         \* the files: number -> what TableBuilder wrote
    gone,           \* the files that have been deleted
    table_cache,    \* file -> [file, cache_id, filter], the open tables
    block_cache,    \* <<cache_id, block>> -> <<file, block>>
    last_id,        \* ShardedLRUCache::NewId of the block cache
    rd,             \* per reader: what it is doing
    calls

fixed == <<scene, tables>>
vars == <<fixed, gone, table_cache, block_cache, last_id, rd, calls>>

Cache == INSTANCE LRUCache

(***************************************************************************)
(* A reader: op is "get" or the last call of its iterator; table its       *)
(* handle of the open table; index the iterator of the index block; block  *)
(* the block that data_iter_ is in, Null when it has none; data its place  *)
(* there; handle its handle of the cached block; bad whether data_iter_ is *)
(* an error iterator; saved whether an earlier one was (status_); pos how  *)
(* the block that is awaited is to be entered; want what the reference     *)
(* says.                                                                   *)
(***************************************************************************)
Idle == [pc |-> "idle", op |-> "none", file |-> Null, target |-> Null, table |-> Null,
         index |-> Null, block |-> Null, data |-> Null, handle |-> Null,
         bad |-> FALSE, saved |-> FALSE, pos |-> "seek", want |-> Null]

Init ==
    /\ scene \in Scenes
    /\ tables = [f \in DOMAIN scene.files |-> Built(scene.files[f])]
    /\ gone = {} /\ last_id = 0 /\ calls = 0
    /\ table_cache = Cache!NewCache(TableCapacity)
    /\ block_cache = Cache!NewCache(BlockCapacity)
    /\ rd = [r \in Readers |-> Idle]

Table(x) == tables[x.file]
Block(x, n) == Table(x).blocks[n]
IndexBlock(x) == Table(x).index
IndexValid(x) == Valid(IndexBlock(x), x.index)

\* The block that the index iterator points to.
Target(x) == IndexBlock(x).entries[x.index.current].value

DataValid(x) == x.block # Null /\ ~x.bad /\ Valid(Block(x, x.block), x.data)

\* key() of the iterator.
KeyAt(x) == KeyOfBytes(x.data.key)

\* status() of the iterator.
Ok(x) == ~x.saved /\ ~(x.block # Null /\ x.bad)

\* A data iterator is deleted: ReleaseBlock, when its block is a cached one.
Drop(c, h) == IF h = Null THEN c ELSE Cache!Release(c, h)

(***************************************************************************)
(* TwoLevelIterator.                                                       *)
(***************************************************************************)
Enter(x, n) ==
    CASE x.pos = "seek" -> BlockSeek(Block(x, n), x.target)
      [] x.pos = "first" -> BlockSeekToFirst(Block(x, n))
      [] x.pos = "last" -> BlockSeekToLast(Block(x, n))

Forward(x) == x.op \in {"seek", "first", "next"}

\* Broken variant: the status of the iterator that is replaced is forgotten.
NoBlockForgets(x) == [x EXCEPT !.pc = "idle", !.block = Null, !.data = Null,
                               !.handle = Null, !.bad = FALSE]

\* SetDataIterator(nullptr).
NoBlock(x) == [x EXCEPT !.pc = "idle", !.saved = ~Ok(x), !.block = Null, !.data = Null,
                        !.handle = Null, !.bad = FALSE]

\* InitDataBlock, when the block is another one.
Await(x) == IF IndexValid(x) THEN [x EXCEPT !.pc = "lookup"] ELSE NoBlock(x)

\* SkipEmptyDataBlocksForward and Backward: on to the next block when there is
\* nothing left in this one.
Skip(x) ==
    IF DataValid(x) THEN [x EXCEPT !.pc = "idle"]
    ELSE IF ~IndexValid(x) THEN NoBlock(x)
    ELSE Await([x EXCEPT
            !.index = IF Forward(x) THEN ParseNextKey(IndexBlock(x), @)
                      ELSE BlockPrev(IndexBlock(x), @),
            !.pos = IF Forward(x) THEN "first" ELSE "last"])

\* InitDataBlock and the loop behind it, once the index iterator has moved.
Arrive(x) ==
    IF IndexValid(x) /\ x.block # Null /\ x.block = Target(x)
    THEN Skip(IF x.bad THEN x ELSE [x EXCEPT !.data = Enter(x, x.block)])
    ELSE Await(x)

(***************************************************************************)
(* TableCache: FindTable, NewIterator and Get.                             *)
(***************************************************************************)
FirstOf(es) == IF es = {} THEN Null ELSE CHOOSE e \in es : \A d \in es \ {e} : Before(e, d)
LastOf(es) == IF es = {} THEN Null ELSE CHOOSE e \in es : \A d \in es \ {e} : Before(d, e)

\* The entry a Get is looking for: the newest of its user key at or below the
\* sequence number.
Expected(f, t) == FirstOf({e \in scene.files[f] : e.key = t.key /\ ~Before(e, t)})

Begin(r, x) ==
    /\ r \in scene.readers /\ rd[r] = Idle /\ calls < scene.calls
    /\ x.file \notin gone
    /\ rd' = [rd EXCEPT ![r] = [x EXCEPT !.pc = "find"]]
    /\ calls' = calls + 1
    /\ UNCHANGED <<fixed, gone, table_cache, block_cache, last_id>>

Get(r, f, t) ==
    Begin(r, [Idle EXCEPT !.op = "get", !.file = f, !.target = t, !.want = Expected(f, t)])

NewIterator(r, f) == Begin(r, [Idle EXCEPT !.op = "new", !.file = f])

\* The table is there, with its filter or without: the beginning of InternalGet, or
\* the new iterator.
WithTable(x, filter) ==
    LET y == [x EXCEPT !.index = BlockSeek(IndexBlock(x), x.target)]
    IN  IF x.op = "new" THEN [x EXCEPT !.pc = "idle", !.index = Invalid(IndexBlock(x))]
        ELSE IF IndexValid(y) /\ (filter => KeyMayMatch(Table(y), Target(y), y.target.key))
        THEN [y EXCEPT !.pc = "lookup"] ELSE [y EXCEPT !.pc = "got"]

FindTable(r) ==
    LET x == rd[r]
        found == Cache!Lookup(table_cache, x.file)
    IN  /\ x.pc = "find"
        /\ table_cache' = found.cache
        /\ rd' = [rd EXCEPT ![r] =
              IF found.handle = Null THEN [x EXCEPT !.pc = "open"]
              ELSE WithTable([x EXCEPT !.table = found.handle],
                             found.cache.handles[found.handle].value.filter)]
        /\ UNCHANGED <<fixed, gone, block_cache, last_id, calls>>

\* ReadMeta: a filter needs a policy and a filter block that can be read; its errors
\* are not the table's.
ReadMeta == {scene.filter_policy} \cup (IF scene.faults THEN {FALSE} ELSE {})

\* Table::Open, and the new table is inserted.
OpenTable(r) ==
    LET x == rd[r]
        new(filter) == Cache!Insert(table_cache, x.file,
                           [file |-> x.file, cache_id |-> last_id + 1, filter |-> filter], 1)
    IN  /\ x.pc = "open"
        /\ last_id' = last_id + 1
        /\ \E filter \in ReadMeta :
              /\ table_cache' = new(filter).cache
              /\ rd' = [rd EXCEPT ![r] =
                           WithTable([x EXCEPT !.table = new(filter).handle], filter)]
        /\ UNCHANGED <<fixed, gone, block_cache, calls>>

\* The file cannot be read; errors are not cached.
OpenFails(r) ==
    /\ scene.faults /\ rd[r].pc = "open"
    /\ rd' = [rd EXCEPT ![r] = Idle]
    /\ UNCHANGED <<fixed, gone, table_cache, block_cache, last_id, calls>>

(***************************************************************************)
(* Table::BlockReader.                                                     *)
(***************************************************************************)
CacheKey(x) == <<table_cache.handles[x.table].value.cache_id, Target(x)>>

\* The block has been found or read, or not: a Get looks for its key, an
\* iterator replaces its data iterator and goes on.
WithBlock(x, handle, bad) ==
    LET y == [x EXCEPT !.saved = ~Ok(x), !.block = Target(x), !.handle = handle,
                       !.bad = bad, !.data = IF bad THEN Null ELSE Enter(x, Target(x))]
    IN  IF x.op = "get" THEN [y EXCEPT !.pc = "got"] ELSE Skip(y)

\* The step with the block of this handle, which SetDataIterator puts in the place
\* of the one before; when there was nothing left in it, it goes as well.
StepWithBlock(r, c, handle, bad) ==
    LET x == WithBlock(rd[r], handle, bad)
    IN  /\ rd' = [rd EXCEPT ![r] = x]
        /\ block_cache' = LET d == Drop(c, rd[r].handle)
                          IN  IF x.handle = Null THEN Drop(d, handle) ELSE d
        /\ UNCHANGED <<fixed, gone, table_cache, last_id, calls>>

LookupBlock(r) ==
    LET found == Cache!Lookup(block_cache, CacheKey(rd[r]))
    IN  /\ rd[r].pc = "lookup"
        /\ IF found.handle # Null THEN StepWithBlock(r, found.cache, found.handle, FALSE)
           ELSE /\ rd' = [rd EXCEPT ![r].pc = "read"]
                /\ UNCHANGED <<fixed, gone, table_cache, block_cache, last_id, calls>>

ReadBlock(r) ==
    LET x == rd[r]
        new == Cache!Insert(block_cache, CacheKey(x), <<x.file, Target(x)>>,
                            SizeEstimate(Block(x, Target(x))))
    IN  /\ x.pc = "read"
        /\ IF r \in Uncached THEN StepWithBlock(r, block_cache, Null, FALSE)
           ELSE StepWithBlock(r, new.cache, new.handle, FALSE)

ReadFails(r) ==
    /\ scene.faults /\ rd[r].pc = "read"
    /\ StepWithBlock(r, block_cache, Null, TRUE)

\* Get is over.
Return(r) ==
    /\ rd[r].pc = "got"
    /\ rd' = [rd EXCEPT ![r] = Idle]
    /\ block_cache' = Drop(block_cache, rd[r].handle)
    /\ table_cache' = Cache!Release(table_cache, rd[r].table)
    /\ UNCHANGED <<fixed, gone, last_id, calls>>

(***************************************************************************)
(* The calls of an iterator.                                               *)
(***************************************************************************)
Usable(r) == rd[r].pc = "idle" /\ rd[r].table # Null

Call(r, x) ==
    /\ Usable(r) /\ calls < scene.calls
    /\ rd' = [rd EXCEPT ![r] = x]
    /\ block_cache' = IF x.handle = Null THEN Drop(block_cache, rd[r].handle) ELSE block_cache
    /\ calls' = calls + 1
    /\ UNCHANGED <<fixed, gone, table_cache, last_id>>

Seek(r, t) ==
    Call(r, Arrive([rd[r] EXCEPT !.op = "seek", !.pos = "seek", !.target = t,
              !.index = BlockSeek(IndexBlock(rd[r]), t),
              !.want = FirstOf({e \in scene.files[rd[r].file] : ~Before(e, t)})]))

SeekToFirst(r) ==
    Call(r, Arrive([rd[r] EXCEPT !.op = "first", !.pos = "first",
              !.index = BlockSeekToFirst(IndexBlock(rd[r])),
              !.want = FirstOf(scene.files[rd[r].file])]))

SeekToLast(r) ==
    Call(r, Arrive([rd[r] EXCEPT !.op = "last", !.pos = "last",
              !.index = BlockSeekToLast(IndexBlock(rd[r])),
              !.want = LastOf(scene.files[rd[r].file])]))

IterNext(r) ==
    /\ Usable(r) /\ DataValid(rd[r])
    /\ Call(r, Skip([rd[r] EXCEPT !.op = "next",
                 !.data = ParseNextKey(Block(rd[r], rd[r].block), @),
                 !.want = FirstOf({e \in scene.files[rd[r].file] : Before(KeyAt(rd[r]), e)})]))

IterPrev(r) ==
    /\ Usable(r) /\ DataValid(rd[r])
    /\ Call(r, Skip([rd[r] EXCEPT !.op = "prev",
                 !.data = BlockPrev(Block(rd[r], rd[r].block), @),
                 !.want = LastOf({e \in scene.files[rd[r].file] : Before(e, KeyAt(rd[r]))})]))

DeleteIterator(r) ==
    /\ Usable(r)
    /\ rd' = [rd EXCEPT ![r] = Idle]
    /\ block_cache' = Drop(block_cache, rd[r].handle)
    /\ table_cache' = Cache!Release(table_cache, rd[r].table)
    /\ UNCHANGED <<fixed, gone, last_id, calls>>

\* Broken variant: the table of the deleted file stays in the cache.
EvictKeeps(f) ==
    /\ f \notin gone /\ \A r \in Readers : rd[r].file # f
    /\ gone' = gone \cup {f}
    /\ UNCHANGED <<fixed, table_cache, block_cache, last_id, rd, calls>>

\* DeleteObsoleteFiles: nobody reads the file any more.
Evict(f) ==
    /\ f \notin gone /\ \A r \in Readers : rd[r].file # f
    /\ gone' = gone \cup {f}
    /\ table_cache' = Cache!Erase(table_cache, f)
    /\ UNCHANGED <<fixed, block_cache, last_id, rd, calls>>

Next ==
    \/ \E r \in Readers :
          \/ \E f \in DOMAIN tables : NewIterator(r, f) \/ \E t \in Targets : Get(r, f, t)
          \/ FindTable(r) \/ OpenTable(r) \/ OpenFails(r)
          \/ LookupBlock(r) \/ ReadBlock(r) \/ ReadFails(r) \/ Return(r)
          \/ \E t \in Targets : Seek(r, t)
          \/ SeekToFirst(r) \/ SeekToLast(r) \/ IterNext(r) \/ IterPrev(r)
          \/ DeleteIterator(r)
    \/ \E f \in DOMAIN tables : Evict(f)

Spec == Init /\ [][Next]_vars

(***************************************************************************)
(* Properties.                                                             *)
(***************************************************************************)
CachedIn(c) == {h \in DOMAIN c.handles : c.handles[h].in_cache}

\* An entry is in the cache if and only if it is in the hash table and in one of
\* the two lists.
ListsAgree(c) ==
    /\ CachedIn(c) = {c.table[k] : k \in DOMAIN c.table}
    /\ CachedIn(c) = ToSet(c.lru) \cup c.in_use
    /\ \A i \in DOMAIN c.lru : c.handles[c.lru[i]].refs = 1

\* Nobody is left with a table or a block that has been freed or replaced, and
\* nothing stays in memory that nobody can reach: an entry has one reference for
\* every reader that holds it and one for the cache.  This includes entries that
\* were replaced while in use (Ref, Unref and FinishErase of cache.cc).
RefsAreHolders ==
    /\ ListsAgree(table_cache) /\ ListsAgree(block_cache)
    /\ \A r \in Readers :
          LET x == rd[r]
          IN  /\ x.table # Null => /\ x.table \in DOMAIN table_cache.handles
                                   /\ table_cache.handles[x.table].value.file = x.file
              /\ x.handle # Null => /\ x.handle \in DOMAIN block_cache.handles
                                    /\ block_cache.handles[x.handle].value = <<x.file, x.block>>
    /\ \A h \in DOMAIN table_cache.handles :
          table_cache.handles[h].refs = Cardinality({r \in Readers : rd[r].table = h})
                                        + (IF table_cache.handles[h].in_cache THEN 1 ELSE 0)
    /\ \A h \in DOMAIN block_cache.handles :
          block_cache.handles[h].refs = Cardinality({r \in Readers : rd[r].handle = h})
                                        + (IF block_cache.handles[h].in_cache THEN 1 ELSE 0)

\* Each cache is charged for what is in it, once: entries that two readers insert
\* one after the other, the first of them still in use, included (Insert and
\* FinishErase of cache.cc).
CachesAreCharged ==
    LET charge(c) == FoldSet(LAMBDA h, n : n + c.handles[h].charge, 0, CachedIn(c))
    IN  table_cache.usage = charge(table_cache) /\ block_cache.usage = charge(block_cache)

\* A deleted file is not kept open (TableCache::Evict).
DeletedFilesAreClosed ==
    \A h \in DOMAIN table_cache.handles : table_cache.handles[h].value.file \notin gone

\* What is read is right (Table::InternalGet, TwoLevelIterator, SetDataIterator).  A
\* Get that meets no error finds the newest entry of its key at or below its
\* sequence number, through the index, whose keys are shortened, the filters, where
\* there are any, and the restart points.  Between two calls an iterator whose status is ok is at the
\* entry it should be at: an unreadable block may be skipped but never silently,
\* and the blocks cached by others are the right ones.
ReadsAreRight ==
    \A r \in Readers :
       LET x == rd[r]
           get == x.pc = "got" /\ ~x.bad
           iterator == Usable(r) /\ Ok(x) /\ x.op # "new"
           found == DataValid(x) /\ (get => KeyAt(x).key = x.target.key)
       IN  get \/ iterator => x.want = IF found THEN KeyAt(x) ELSE Null
=============================================================================
