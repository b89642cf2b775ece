-------------------------------- MODULE LevelDB --------------------------------
(***************************************************************************)
(* The database object of leveldb (db/db_impl.cc with LogAndApply and      *)
(* Recover of db/version_set.cc): client threads that queue their writes   *)
(* and commit them in groups, the switch to a new memtable and log, the    *)
(* background thread that writes tables, merges levels and deletes files,  *)
(* readers and snapshots, crashes of the process and of the machine, and   *)
(* the recovery that follows.                                              *)
(*                                                                         *)
(* One mutex protects everything in memory.  An action is what a thread    *)
(* does between taking the mutex and giving it up, or one operation on a   *)
(* file made while the mutex is not held.  The files are kept apart from   *)
(* the memory, and a crash keeps only what has reached them.               *)
(*                                                                         *)
(* A file of records (a log, a MANIFEST) is a sequence of whole records;   *)
(* module LogFormat shows that a torn tail is dropped by the reader.       *)
(***************************************************************************)
EXTENDS VersionSet

CONSTANTS
    Threads,                \* client threads that write
    Readers,                \* client threads that read
    Batches,                \* the write batches: sequences of [key, del]
    SyncModes,              \* the values of WriteOptions::sync in use
    WriteBufferSize,        \* options.write_buffer_size, in entries
    MaxGroupSize,           \* max_size of BuildBatchGroup, in entries
    L0_StopWritesTrigger,   \* config::kL0_StopWritesTrigger
    MaxKey,                 \* the user keys are 1 .. MaxKey
    Faults,                 \* whether operations on files may fail
    Compactor,              \* the thread that calls CompactRange
    MaxWrites, MaxRestarts, MaxRanges, MaxReads   \* bounds of the model

Keys == 1 .. MaxKey

ASSUME LevelDBAssumption ==
    /\ Batches \subseteq Seq([key : Keys, del : BOOLEAN])
    /\ SyncModes \subseteq BOOLEAN
    /\ WriteBufferSize \in Nat
    /\ MaxGroupSize \in Nat \ {0}
    /\ L0_CompactionTrigger <= L0_StopWritesTrigger
    /\ Compactor \notin Threads
    /\ Null \notin Threads \cup Readers

VARIABLES
    \* files
    logs,            \* write-ahead logs: number -> [recs, synced, torn]
    tables,          \* table files: number -> entries
    descriptor,      \* MANIFEST files: number -> [base, tail]
    CURRENT,         \* the number of the MANIFEST in force
    \* memory, protected by mutex_
    db,              \* "down", "opening", "open" or "closing"
    mem, imm,        \* mem_, imm_: entries
    logfile_number,
    next_file, last_sequence, log_number, manifest_number,  \* VersionSet
    current,         \* the current version: level -> files
    file_to_compact, \* of the current version
    pending_outputs, bg_error, scheduled,
    bg,              \* what the background thread is doing
    compact,         \* its CompactionState, or Null
    manual,          \* manual_compaction_, or Null
    range,           \* the progress of the Compactor's CompactRange
    writers, wr,     \* the queue of writers, and what each of them wants
    lead,            \* the write group in progress
    snapshots, pins, \* per reader: its snapshot, what its Get or iterator holds
    \* history
    hist,            \* the updates the database holds
    synced,          \* the updates acknowledged by a sync write to a log in
                     \* which no append had failed
    issued, restarts, ranges, reads

files == <<logs, tables, descriptor, CURRENT>>
numbers == <<next_file, last_sequence, log_number, manifest_number>>
version == <<current, file_to_compact>>
memtables == <<mem, imm, logfile_number>>
background == <<bg, compact, pending_outputs>>
ranging == <<manual, range, ranges>>
writing == <<writers, wr, lead>>
reading == <<snapshots, pins, reads>>
history == <<hist, synced, issued, restarts>>

vars == <<files, numbers, version, memtables, background, ranging, writing,
          reading, history, db, bg_error, scheduled>>

Idle == [st |-> "idle", batch |-> Null, sync |-> FALSE, force |-> FALSE]
NoGroup == [pc |-> "none", n |-> 0, upd |-> {}, ok |-> TRUE, failed |-> FALSE]
Resting == [pc |-> "idle", num |-> 0, edit |-> Null, what |-> "none"]
NoRange == [st |-> "idle", level |-> 0, max |-> 0, lo |-> 0]

With(f, n, v) == (n :> v) @@ f

\* A log: its records, how many of them a sync has covered, and how many there
\* were when an append failed first.
NewLog == [recs |-> <<>>, synced |-> 0, torn |-> Null]

\* The records that the log reader finds for certain (module MemTable).
Sound(log) == IF log.torn = Null THEN Len(log.recs) ELSE log.torn

LogEntries(log) == UNION {log.recs[i] : i \in DOMAIN log.recs}

\* VersionSet::Recover: what the edits of a MANIFEST amount to.
Replay(base, tail) ==
    FoldLeft(LAMBDA s, e : [files |-> ApplyEdit(s.files, e), log |-> e.log,
                            next |-> e.next, seq |-> e.seq], base, tail)

Recovered == Replay(descriptor[CURRENT].base, descriptor[CURRENT].tail)

\* The state that NewDB leaves: an empty MANIFEST 1.
Init ==
    /\ logs = <<>> /\ tables = <<>> /\ CURRENT = 1
    /\ descriptor = (1 :> [base |-> [files |-> NoFiles, log |-> 0, next |-> 2,
                                     seq |-> 0], tail |-> <<>>])
    /\ db = "down" /\ mem = {} /\ imm = Null /\ logfile_number = 0
    /\ next_file = 2 /\ last_sequence = 0 /\ log_number = 0
    /\ manifest_number = 0
    /\ current = NoFiles /\ file_to_compact = Null
    /\ pending_outputs = {} /\ bg_error = FALSE /\ scheduled = FALSE
    /\ bg = Resting /\ compact = Null /\ manual = Null /\ range = NoRange
    /\ writers = <<>> /\ wr = [t \in Threads \cup {Compactor} |-> Idle]
    /\ lead = NoGroup
    /\ snapshots = [r \in Readers |-> Null] /\ pins = [r \in Readers |-> Null]
    /\ hist = {} /\ synced = {}
    /\ issued = 0 /\ restarts = 0 /\ ranges = 0 /\ reads = 0

\* Files are deleted with the mutex held: nobody else gets in meanwhile.
MutexFree == db \in {"open", "closing"} /\ bg.pc # "delete"

\* Broken variant: a full memtable is no reason.
MaybeScheduleNoFlush(sch, err, im, man, T, V, seek) ==
    \/ sch
    \/ /\ db # "closing" /\ ~err
       /\ man # Null \/ SizeCompaction(T, V) \/ seek # Null

\* What background_compaction_scheduled_ is after MaybeScheduleCompaction.
MaybeSchedule(sch, err, im, man, T, V, seek) ==
    \/ sch
    \/ /\ db # "closing" /\ ~err
       /\ im # Null \/ man # Null \/ SizeCompaction(T, V) \/ seek # Null

(***************************************************************************)
(* Writing (DBImpl::Write).                                                *)
(***************************************************************************)
Enqueue(t, b, s, force) ==
    /\ wr[t] = Idle
    /\ writers' = Append(writers, t)
    /\ wr' = [wr EXCEPT ![t] = [st |-> "queued", batch |-> b, sync |-> s,
                                force |-> force]]

Write(t, b, s) ==
    /\ db = "open" /\ MutexFree /\ issued < MaxWrites
    /\ Enqueue(t, b, s, FALSE)
    /\ issued' = issued + 1
    /\ UNCHANGED <<files, numbers, version, memtables, background, ranging,
                   lead, reading, hist, synced, restarts, db, bg_error,
                   scheduled>>

AtFront(t) ==
    /\ db = "open" /\ MutexFree
    /\ writers # <<>> /\ Head(writers) = t /\ lead.pc = "none"

\* TEST_CompactMemTable does not wait for the flush when its Write has failed.
Returned(ts, ok) ==
    range' = IF Compactor \in ts /\ ~ok THEN [range EXCEPT !.st = "level"]
             ELSE range

\* The writer leaves the queue alone.
ReturnAlone(t, ok) ==
    /\ writers' = Tail(writers)
    /\ wr' = [wr EXCEPT ![t] = Idle]
    /\ Returned({t}, ok)
    /\ UNCHANGED <<lead, hist, synced>>

HasRoom(t) == ~wr[t].force /\ Cardinality(mem) <= WriteBufferSize

BatchSize(i) == LET b == wr[writers[i]].batch IN IF b = Null THEN 0 ELSE Len(b)

GroupSize(n) == FoldSet(LAMBDA i, s : s + BatchSize(i), 0, 1 .. n)

Fits(i) == BatchSize(i) > 0 => GroupSize(i) <= MaxGroupSize

\* BuildBatchGroup: the followers the first writer takes along.  A sync write
\* is not handled by a leader that does not sync.
Joins(i) == Fits(i) /\ (wr[writers[i]].sync => wr[Head(writers)].sync)

BuildBatchGroup ==
    Max({n \in 1 .. Len(writers) : \A i \in 2 .. n : Joins(i)})

Updates(n) ==
    LET batch(i) == LET b == wr[writers[i]].batch
                    IN  IF b = Null THEN <<>> ELSE b
        ops == FlattenSeq([i \in 1 .. n |-> batch(i)])
    IN  {[key |-> ops[i].key, seq |-> last_sequence + i, del |-> ops[i].del] :
            i \in DOMAIN ops}

\* There is room: a writer with a batch leads a group, one without returns.
LeadGroup(t) ==
    IF wr[t].batch = Null THEN ReturnAlone(t, TRUE)
    ELSE /\ lead' = [pc |-> "log", n |-> BuildBatchGroup, ok |-> TRUE,
                     upd |-> Updates(BuildBatchGroup), failed |-> FALSE]
         /\ UNCHANGED <<writers, wr, range, hist, synced>>

StartGroup(t) ==
    /\ AtFront(t) /\ ~bg_error /\ HasRoom(t)
    /\ LeadGroup(t)
    /\ UNCHANGED <<files, numbers, version, memtables, background, manual,
                   ranges, reading, issued, restarts, db, bg_error, scheduled>>

\* MakeRoomForWrite yields an earlier background error.
MakeRoomFails(t) ==
    /\ AtFront(t) /\ bg_error
    /\ ReturnAlone(t, FALSE)
    /\ UNCHANGED <<files, numbers, version, memtables, background, manual,
                   ranges, reading, issued, restarts, db, bg_error, scheduled>>

MustSwitch(t) ==
    /\ AtFront(t) /\ ~bg_error /\ ~HasRoom(t)
    /\ imm = Null
    /\ Cardinality(current[0]) < L0_StopWritesTrigger

\* MakeRoomForWrite switches to a new memtable and a new log, and then finds
\* room.
SwitchMemTable(t) ==
    /\ MustSwitch(t)
    /\ logs' = With(logs, next_file, NewLog)
    /\ logfile_number' = next_file
    /\ next_file' = next_file + 1
    /\ imm' = mem /\ mem' = {}
    /\ scheduled' = MaybeSchedule(scheduled, bg_error, imm', manual, tables,
                                  current, file_to_compact)
    /\ LeadGroup(t)
    /\ UNCHANGED <<tables, descriptor, CURRENT, last_sequence, log_number,
                   manifest_number, version, background, manual, ranges,
                   reading, issued, restarts, db, bg_error>>

\* The new log cannot be created: the number is given back, the write fails.
SwitchFails(t) ==
    /\ Faults /\ MustSwitch(t)
    /\ ReturnAlone(t, FALSE)
    /\ UNCHANGED <<files, numbers, version, memtables, background, manual,
                   ranges, reading, issued, restarts, db, bg_error, scheduled>>

\* log_->AddRecord, without the mutex.  A record that fails is not readable, and
\* those behind it in the same log need not be: the writer has lost its place.
AddRecord(ok) ==
    /\ lead.pc = "log"
    /\ lead' = [lead EXCEPT !.ok = ok, !.pc =
                   IF ~ok THEN "finish"
                   ELSE IF wr[Head(writers)].sync THEN "sync" ELSE "insert"]
    /\ logs' = IF ok THEN [logs EXCEPT ![logfile_number].recs =
                              Append(@, lead.upd)]
               ELSE [logs EXCEPT ![logfile_number].torn =
                              Sound(logs[logfile_number])]
    /\ UNCHANGED <<tables, descriptor, CURRENT, numbers, version, memtables,
                   background, ranging, writers, wr, reading, history, db,
                   bg_error, scheduled>>

\* logfile_->Sync, without the mutex.
SyncLog(ok) ==
    /\ lead.pc = "sync"
    /\ lead' = [lead EXCEPT !.ok = ok, !.failed = ~ok,
                            !.pc = IF ok THEN "insert" ELSE "finish"]
    /\ logs' = IF ok THEN [logs EXCEPT ![logfile_number].synced =
                              Len(logs[logfile_number].recs)]
               ELSE logs
    /\ UNCHANGED <<tables, descriptor, CURRENT, numbers, version, memtables,
                   background, ranging, writers, wr, reading, history, db,
                   bg_error, scheduled>>

\* WriteBatchInternal::InsertInto, without the mutex.
InsertInto ==
    /\ lead.pc = "insert"
    /\ lead' = [lead EXCEPT !.pc = "finish"]
    /\ mem' = mem \cup lead.upd
    /\ UNCHANGED <<files, numbers, version, imm, logfile_number, background,
                   ranging, writers, wr, reading, history, db, bg_error,
                   scheduled>>

\* The leader publishes the sequence number and wakes its group.
FinishGroup ==
    /\ lead.pc = "finish" /\ MutexFree
    /\ last_sequence' = last_sequence + Cardinality(lead.upd)
    /\ bg_error' = (bg_error \/ lead.failed)
    /\ LET group == {writers[i] : i \in 1 .. lead.n}
       IN  /\ wr' = [t \in DOMAIN wr |-> IF t \in group THEN Idle ELSE wr[t]]
           /\ Returned(group, lead.ok)
           /\ synced' = IF /\ lead.ok /\ logs[logfile_number].torn = Null
                           /\ \E t \in group : wr[t].sync
                        THEN synced \cup lead.upd ELSE synced
    /\ writers' = SubSeq(writers, lead.n + 1, Len(writers))
    /\ lead' = NoGroup
    /\ hist' = IF lead.ok THEN hist \cup lead.upd ELSE hist
    /\ UNCHANGED <<files, next_file, log_number, manifest_number, version,
                   memtables, background, manual, ranges, reading, issued,
                   restarts, db, scheduled>>

(***************************************************************************)
(* Reading (DBImpl::Get, NewIterator, snapshots).  A reader holds on to    *)
(* the memtables and the version it found; what is added to its memtable   *)
(* afterwards has larger sequence numbers than it looks at.                *)
(***************************************************************************)
GetSnapshot(r) ==
    /\ db = "open" /\ MutexFree /\ snapshots[r] = Null /\ reads < MaxReads
    /\ snapshots' = [snapshots EXCEPT ![r] = last_sequence]
    /\ reads' = reads + 1
    /\ UNCHANGED <<files, numbers, version, memtables, background, ranging,
                   writing, pins, history, db, bg_error, scheduled>>

ReleaseSnapshot(r) ==
    /\ db = "open" /\ MutexFree /\ snapshots[r] # Null /\ pins[r] = Null
    /\ snapshots' = [snapshots EXCEPT ![r] = Null]
    /\ UNCHANGED <<files, numbers, version, memtables, background, ranging,
                   writing, pins, reads, history, db, bg_error, scheduled>>

\* Get or NewIterator takes its references.
BeginRead(r) ==
    /\ db = "open" /\ MutexFree /\ pins[r] = Null /\ reads < MaxReads
    /\ pins' = [pins EXCEPT ![r] =
                  [mem |-> mem, imm |-> imm, files |-> current,
                   snap |-> IF snapshots[r] # Null THEN snapshots[r]
                            ELSE last_sequence]]
    /\ reads' = reads + 1
    /\ UNCHANGED <<files, numbers, version, memtables, background, ranging,
                   writing, snapshots, history, db, bg_error, scheduled>>

\* The lookup: the memtable, the immutable memtable, the tables.
Lookup(m, i, T, V, key, snap) ==
    LET inMem == TableGet(m, key, snap)
        inImm == IF i = Null THEN Null ELSE TableGet(i, key, snap)
    IN  IF inMem # Null THEN inMem
        ELSE IF inImm # Null THEN inImm ELSE VersionGet(T, V, key, snap)

\* Get of a key ends.  When it had to search a second file and the first one
\* has used up its allowed seeks, UpdateStats asks for a compaction of it: how
\* many seeks are left is not modelled.
EndRead(r, key) ==
    LET p == pins[r]
        seek == SeekFile(tables, p.files, key, p.snap)
        searched == /\ TableGet(p.mem, key, p.snap) = Null
                    /\ p.imm # Null => TableGet(p.imm, key, p.snap) = Null
    IN  /\ db = "open" /\ MutexFree /\ p # Null
        /\ pins' = [pins EXCEPT ![r] = Null]
        /\ \/ UNCHANGED <<file_to_compact, scheduled>>
           \/ /\ searched /\ seek # Null
              /\ p.files = current /\ file_to_compact = Null
              /\ file_to_compact' = seek
              /\ scheduled' = MaybeSchedule(scheduled, bg_error, imm, manual,
                                            tables, current, seek)
        /\ UNCHANGED <<files, numbers, current, memtables, background,
                       ranging, writing, snapshots, reads, history, db,
                       bg_error>>

\* An iterator now and then charges a seek to the first of the files it has to
\* look at for a key (DBImpl::RecordReadSample).
RecordReadSample(r, key) ==
    LET order == SearchOrder(tables, current, key, MaxSequenceNumber)
    IN  /\ db = "open" /\ MutexFree /\ pins[r] # Null
        /\ file_to_compact = Null /\ Len(order) >= 2
        /\ file_to_compact' = order[1]
        /\ scheduled' = MaybeSchedule(scheduled, bg_error, imm, manual, tables,
                                      current, order[1])
        /\ UNCHANGED <<files, numbers, current, memtables, background,
                       ranging, writing, reading, history, db, bg_error>>

(***************************************************************************)
(* The background thread (BackgroundCall, BackgroundCompaction).           *)
(***************************************************************************)
\* Broken variant: the call that finds the database closing leaves the flag.
ReadyWhileOpen == scheduled /\ bg.pc = "idle" /\ db = "open"

\* BackgroundCall gets the mutex.
Ready == scheduled /\ bg.pc = "idle" /\ db \in {"open", "closing"}

\* The end of BackgroundCall.
EndCall ==
    /\ bg' = Resting
    /\ scheduled' = MaybeSchedule(FALSE, bg_error', imm', manual', tables',
                                  current', file_to_compact')

\* What BackgroundCall and BackgroundCompaction decide to do: no more work while
\* shutting down or after an error, a memtable before a compaction that was
\* asked for, and that before one of their own choice.
MustQuit == Ready /\ (db = "closing" \/ bg_error)
MustFlush == Ready /\ ~MustQuit /\ imm # Null
MustServe == Ready /\ ~MustQuit /\ imm = Null /\ manual # Null
MayChoose == Ready /\ ~MustQuit /\ imm = Null /\ manual = Null

BackgroundQuits ==
    /\ MustQuit
    /\ UNCHANGED <<files, numbers, version, memtables, compact,
                   pending_outputs, ranging, writing, reading, history, db,
                   bg_error>>
    /\ EndCall

\* WriteLevel0Table takes a number for the table and gives up the mutex.
StartTable ==
    /\ bg' = [pc |-> "build", num |-> next_file, edit |-> Null,
              what |-> "flush"]
    /\ next_file' = next_file + 1
    /\ pending_outputs' = pending_outputs \cup {next_file}
    /\ UNCHANGED <<files, last_sequence, log_number, manifest_number, version,
                   memtables, ranging, writing, reading, history, db,
                   bg_error, scheduled>>

BackgroundFlush ==
    /\ MustFlush
    /\ StartTable
    /\ UNCHANGED compact

\* CompactMemTable is over: the thread goes back to the compaction it had
\* interrupted, or the call ends.
EndFlush ==
    IF compact = Null THEN EndCall
    ELSE bg' = [Resting EXCEPT !.pc = "compact"] /\ UNCHANGED scheduled

Edit(added, deleted, log) ==
    [added |-> added, deleted |-> deleted, log |-> log, next |-> next_file,
     seq |-> last_sequence]

\* BuildTable has written and synced the table; an empty memtable makes none.
\* The version edit is prepared and LogAndApply gives up the mutex again.
BuildTable ==
    /\ bg.pc = "build" /\ db = "open"
    /\ pending_outputs' = pending_outputs \ {bg.num}
    /\ tables' = IF imm = {} THEN tables ELSE With(tables, bg.num, imm)
    /\ LET level == PickLevelForMemTableOutput(tables', current,
                        Smallest(imm).key, Largest(imm).key)
           added == IF imm = {} THEN {} ELSE {<<level, bg.num>>}
       IN  bg' = [bg EXCEPT !.pc = "manifest",
                            !.edit = Edit(added, {}, logfile_number)]
    /\ UNCHANGED <<logs, descriptor, CURRENT, numbers, version, memtables,
                   compact, ranging, writing, reading, history, db, bg_error,
                   scheduled>>

\* The table could not be written and is removed, or the database is being
\* closed and the table is left behind.
BuildTableFails ==
    /\ bg.pc = "build" /\ (Faults \/ db = "closing")
    /\ pending_outputs' = pending_outputs \ {bg.num}
    /\ tables' \in {tables} \cup
         (IF db = "closing" /\ imm # {} THEN {With(tables, bg.num, imm)} ELSE {})
    /\ bg_error' = TRUE
    /\ UNCHANGED <<logs, descriptor, CURRENT, numbers, version, memtables,
                   compact, ranging, writing, reading, history, db>>
    /\ EndFlush

\* Broken variant: snapshots are forgotten.
NewestSequence == last_sequence

\* compact->smallest_snapshot.
SmallestSnapshot ==
    Min({last_sequence} \cup {snapshots[r] : r \in
                                {q \in Readers : snapshots[q] # Null}})

\* DoCompactionWork begins and gives up the mutex.
StartCompaction(c, isManual) ==
    /\ compact' = [level |-> c.level, in0 |-> c.in0, in1 |-> c.in1,
                   files |-> current, outs |-> {}, manual |-> isManual,
                   parts |-> Outputs(tables, current, c, SmallestSnapshot),
                   turns |-> Cardinality(Entries(tables, c.in0 \cup c.in1)),
                   end |-> Largest(tables[Last(FileList(tables, c.in0))]).key]
    /\ bg' = [Resting EXCEPT !.pc = "compact"]

\* A file moves to the next level as it is.
TrivialMove(c) ==
    /\ bg' = [Resting EXCEPT !.pc = "manifest", !.what = "move",
                !.edit = Edit({<<c.level + 1, f>> : f \in c.in0},
                              {<<c.level, f>> : f \in c.in0}, log_number)]
    /\ UNCHANGED compact

\* PickCompaction: a level that is too large before a file with too many
\* seeks.  Any file of the level may be next (compact_pointer_).
Candidates ==
    IF SizeCompaction(tables, current)
    THEN LET l == CompactionLevel(tables, current)
         IN  {<<l, f>> : f \in current[l]}
    ELSE IF file_to_compact # Null
    THEN {<<LevelOf(current, file_to_compact), file_to_compact>>} ELSE {}

BackgroundCompaction ==
    /\ MayChoose
    /\ UNCHANGED <<files, numbers, version, memtables, pending_outputs,
                   ranging, writing, reading, history, db, bg_error>>
    /\ \/ /\ Candidates = {} /\ UNCHANGED compact
          /\ EndCall
       \/ /\ \E p \in Candidates :
                LET c == CompactionOf(tables, current, p[1], p[2])
                IN  IF IsTrivialMove(tables, current, c) THEN TrivialMove(c)
                    ELSE StartCompaction(c, FALSE)
          /\ UNCHANGED scheduled

\* The prioritised flush inside the loop of DoCompactionWork: at most one for
\* each entry the loop looks at, and also after an error.
FlushWithinCompaction ==
    /\ bg.pc = "compact" /\ db = "open" /\ imm # Null /\ compact.turns > 0
    /\ compact' = [compact EXCEPT !.turns = @ - 1]
    /\ StartTable

\* An output table is opened, filled, synced and closed.  The shutdown flag is
\* read without the mutex: the last table, and the installation, may still
\* happen while the database is being closed.
FinishCompactionOutputFile ==
    /\ bg.pc = "compact" /\ compact.parts # <<>>
    /\ db = "open" \/ Len(compact.parts) = 1
    /\ tables' = With(tables, next_file, Head(compact.parts))
    /\ compact' = [compact EXCEPT !.parts = Tail(@),
                                  !.outs = @ \cup {next_file}]
    /\ pending_outputs' = pending_outputs \cup {next_file}
    /\ next_file' = next_file + 1
    /\ UNCHANGED <<logs, descriptor, CURRENT, last_sequence, log_number,
                   manifest_number, version, memtables, bg, ranging, writing,
                   reading, history, db, bg_error, scheduled>>

\* InstallCompactionResults.
InstallCompactionResults ==
    /\ bg.pc = "compact" /\ compact.parts = <<>>
    /\ bg' = [Resting EXCEPT !.pc = "manifest", !.what = "compaction",
                !.edit = Edit({<<compact.level + 1, f>> : f \in compact.outs},
                              {<<compact.level, f>> : f \in compact.in0} \cup
                              {<<compact.level + 1, f>> : f \in compact.in1},
                              log_number)]
    /\ UNCHANGED <<files, numbers, version, memtables, compact,
                   pending_outputs, ranging, writing, reading, history, db,
                   bg_error, scheduled>>

\* The end of a manual compaction: what is left of the range comes next, or
\* nothing after an error.
EndManual(ok) ==
    /\ manual' = IF compact.manual THEN Null ELSE manual
    /\ range' = IF ~compact.manual THEN range
                ELSE IF ok THEN [range EXCEPT !.st = "level",
                                              !.lo = compact.end]
                ELSE NoRange
    /\ UNCHANGED ranges

\* The thread that asked for a manual compaction has cancelled it meanwhile:
\* BackgroundCompaction goes through a null manual_compaction_.
ManualGone == compact # Null /\ compact.manual /\ manual = Null

\* An output could not be written, or the database is being closed.  The call
\* of DeleteObsoleteFiles that follows finds the error and deletes nothing.
CompactionFails ==
    /\ bg.pc = "compact" /\ ~ManualGone
    /\ (Faults /\ compact.parts # <<>>) \/ db = "closing"
    /\ bg_error' = TRUE
    /\ pending_outputs' = pending_outputs \ compact.outs
    /\ compact' = Null
    /\ EndManual(FALSE)
    /\ bg' = [Resting EXCEPT !.pc = "delete", !.what = "compaction"]
    /\ UNCHANGED <<files, numbers, version, memtables, writing, reading,
                   history, db, scheduled>>

(***************************************************************************)
(* VersionSet::LogAndApply, once the record is being written: the edit     *)
(* reaches the MANIFEST and is installed, or the write or the sync fails   *)
(* and nobody knows whether the record is there.                           *)
(***************************************************************************)
Installed ==
    /\ descriptor' = [descriptor EXCEPT ![CURRENT] =
                        [base |-> Replay(@.base, Append(@.tail, bg.edit)),
                         tail |-> <<>>]]
    /\ current' = ApplyEdit(current, bg.edit)
    /\ file_to_compact' = Null
    /\ log_number' = bg.edit.log

LogAndApply ==
    /\ bg.pc = "manifest" /\ ~(bg.what = "compaction" /\ ManualGone)
    /\ Installed
    /\ UNCHANGED <<logs, tables, CURRENT, next_file, last_sequence,
                   manifest_number, mem, logfile_number, writing, reading,
                   history, db, bg_error>>
    /\ CASE bg.what = "flush" ->
                /\ imm' = Null
                /\ bg' = [bg EXCEPT !.pc = "delete", !.edit = Null]
                /\ UNCHANGED <<compact, pending_outputs, ranging, scheduled>>
         [] bg.what = "move" ->
                /\ UNCHANGED <<imm, compact, pending_outputs, ranging>>
                /\ EndCall
         [] OTHER ->
                /\ bg' = [bg EXCEPT !.pc = "delete", !.edit = Null]
                /\ pending_outputs' = pending_outputs \ compact.outs
                /\ compact' = Null
                /\ EndManual(TRUE)
                /\ UNCHANGED <<imm, scheduled>>

LogAndApplyFails ==
    /\ Faults /\ bg.pc = "manifest"
    /\ ~(bg.what = "compaction" /\ ManualGone)
    /\ bg_error' = TRUE
    /\ \/ UNCHANGED descriptor
       \/ descriptor' = [descriptor EXCEPT ![CURRENT].tail =
                            Append(@, bg.edit)]
    /\ UNCHANGED <<logs, tables, CURRENT, numbers, version, memtables,
                   writing, reading, history, db>>
    /\ CASE bg.what = "flush" ->
                /\ UNCHANGED <<compact, pending_outputs, ranging>>
                /\ EndFlush
         [] bg.what = "move" ->
                /\ UNCHANGED <<compact, pending_outputs, ranging>>
                /\ EndCall
         [] OTHER ->
                /\ pending_outputs' = pending_outputs \ compact.outs
                /\ compact' = Null
                /\ EndManual(FALSE)
                /\ bg' = [bg EXCEPT !.pc = "delete", !.edit = Null]
                /\ UNCHANGED scheduled

FilesInUse ==
    LiveFiles(current)
    \cup (IF compact = Null THEN {} ELSE LiveFiles(compact.files))

\* VersionSet::AddLiveFiles: the files of every version somebody refers to.
ReferencedFiles ==
    FilesInUse
    \cup UNION {LiveFiles(pins[r].files) : r \in {q \in Readers : pins[q] # Null}}

\* Which files DeleteObsoleteFiles keeps.
KeepLog(n) == n >= log_number
KeepTable(n) == n \in pending_outputs \cup ReferencedFiles
KeepDescriptor(n) == n >= manifest_number

DeleteTheRest ==
    /\ logs' = RestrictDomain(logs, KeepLog)
    /\ tables' = RestrictDomain(tables, KeepTable)
    /\ descriptor' = RestrictDomain(descriptor, KeepDescriptor)

\* After an error nobody knows whether a version was installed.
Deletion ==
    IF bg_error THEN UNCHANGED <<logs, tables, descriptor>> ELSE DeleteTheRest

DeleteObsoleteFiles ==
    /\ bg.pc = "delete" /\ bg.what # "open"
    /\ Deletion
    /\ UNCHANGED <<CURRENT, numbers, version, memtables, compact,
                   pending_outputs, ranging, writing, reading, history, db,
                   bg_error>>
    /\ IF bg.what = "flush" THEN EndFlush ELSE EndCall

(***************************************************************************)
(* CompactRange over all keys, called by the Compactor: the memtable is    *)
(* flushed, then every level in turn is compacted piece by piece.          *)
(***************************************************************************)
CompactRange ==
    /\ db = "open" /\ MutexFree /\ range = NoRange /\ ranges < MaxRanges
    /\ range' = [st |-> "begin", level |-> 0, lo |-> 0,
                 max |-> Max({1} \cup {l \in 1 .. NumLevels - 1 :
                                          current[l] # {}})]
    /\ ranges' = ranges + 1
    /\ UNCHANGED <<files, numbers, version, memtables, background, manual,
                   writing, reading, history, db, bg_error, scheduled>>

\* TEST_CompactMemTable: a Write without a batch.
FlushForRange ==
    /\ db = "open" /\ MutexFree /\ range.st = "begin"
    /\ range' = [range EXCEPT !.st = "flush"]
    /\ Enqueue(Compactor, Null, FALSE, TRUE)
    /\ UNCHANGED <<files, numbers, version, memtables, background, manual,
                   ranges, lead, reading, history, db, bg_error, scheduled>>

\* Broken variant: the error is not looked at.
ImmWritten == imm = Null

\* TEST_CompactMemTable returns.
FlushSettled == imm = Null \/ bg_error

RangeFlushed ==
    /\ db = "open" /\ MutexFree /\ range.st = "flush"
    /\ wr[Compactor] = Idle /\ FlushSettled
    /\ range' = [range EXCEPT !.st = "level"]
    /\ UNCHANGED <<files, numbers, version, memtables, background, manual,
                   ranges, writing, reading, history, db, bg_error,
                   scheduled>>

\* TEST_CompactRange asks the background thread for the level.
RequestLevel ==
    /\ db = "open" /\ MutexFree /\ range.st = "level"
    /\ ~bg_error /\ manual = Null
    /\ manual' = [level |-> range.level, lo |-> range.lo]
    /\ range' = [range EXCEPT !.st = "wait"]
    /\ scheduled' = MaybeSchedule(scheduled, bg_error, imm, manual', tables,
                                  current, file_to_compact)
    /\ UNCHANGED <<files, numbers, version, memtables, background, ranges,
                   writing, reading, history, db, bg_error>>

\* After a background error TEST_CompactRange cancels its request.
CancelRange ==
    /\ db = "open" /\ MutexFree /\ range.st \in {"level", "wait"} /\ bg_error
    /\ manual' = Null /\ range' = NoRange
    /\ UNCHANGED <<files, numbers, version, memtables, background, ranges,
                   writing, reading, history, db, bg_error, scheduled>>

\* BackgroundCompaction serves the request: nothing left of the level, or one
\* more compaction.
BackgroundManual ==
    /\ MustServe
    /\ LET in0 == RangeInputs(tables, current, manual.level, manual.lo, MaxKey)
           rest == range.level + 1
       IN  IF in0 # {}
           THEN /\ StartCompaction(SetupOtherInputs(tables, current,
                                                    manual.level, in0), TRUE)
                /\ UNCHANGED <<ranging, scheduled, files, version, memtables,
                               bg_error>>
           ELSE /\ manual' = Null
                /\ range' = IF rest < range.max
                            THEN [range EXCEPT !.st = "level", !.level = rest,
                                               !.lo = 0]
                            ELSE NoRange
                /\ UNCHANGED <<compact, ranges, files, version, memtables,
                               bg_error>>
                /\ EndCall
    /\ UNCHANGED <<numbers, pending_outputs, writing, reading, history, db>>

(***************************************************************************)
(* Opening (DB::Open, DBImpl::Recover, RecoverLogFile).                    *)
(***************************************************************************)
\* The tables that a log is turned into: the memtable is written out whenever
\* it has grown past the write buffer, and at the end of the log.
InsertRecords(log) ==
    LET add(a, rec) ==
            LET m == a.mem \cup rec
            IN  IF Cardinality(m) > WriteBufferSize
                THEN [mem |-> {}, out |-> Append(a.out, m)]
                ELSE [mem |-> m, out |-> a.out]
    IN  FoldLeft(add, [mem |-> {}, out |-> <<>>], log.recs)

TablesOfLog(log) ==
    LET end == InsertRecords(log)
    IN  IF end.mem = {} THEN end.out ELSE Append(end.out, end.mem)

\* Recover, in the order in which the logs were generated.  next is the next
\* file number, made is what has been built so far.
RecoverEach(ns, next) ==
    LET step(a, n) ==
            LET parts == TablesOfLog(logs[n])
            IN  [next |-> Max({a.next + Len(parts), n + 1}),
                 made |-> [i \in a.next .. a.next + Len(parts) - 1 |->
                              parts[i - a.next + 1]] @@ a.made]
    IN  FoldLeft(step, [next |-> next, made |-> <<>>],
                 SetToSortSeq(ns, <))

\* Broken variant: off by one.
RecoverLogsBehind(from, next) == RecoverEach({n \in DOMAIN logs : n > from}, next)

RecoverLogs(from, next) == RecoverEach({n \in DOMAIN logs : n >= from}, next)

\* versions_->Recover and Recover: the version of the MANIFEST, the logs that
\* are newer than it as tables of level 0, a new log, a new MANIFEST that
\* CURRENT does not point to yet.
Recover ==
    LET s == Recovered
        r == RecoverLogs(s.log, s.next + 1)
        old == UNION {LogEntries(logs[n]) : n \in
                        {m \in DOMAIN logs : m >= s.log}}
        seq == Max({s.seq} \cup {e.seq : e \in old})
        V == [s.files EXCEPT ![0] = @ \cup DOMAIN r.made]
    IN  /\ db = "down"
        /\ LiveFiles(s.files) \subseteq DOMAIN tables \cup DOMAIN logs
        /\ db' = "opening"
        /\ tables' = r.made @@ tables
        /\ logs' = With(logs, r.next, NewLog)
        /\ logfile_number' = r.next
        /\ next_file' = r.next + 1
        /\ last_sequence' = seq
        /\ log_number' = s.log
        /\ manifest_number' = s.next
        /\ current' = V
        /\ descriptor' = With(descriptor, s.next,
              [base |-> [files |-> V, log |-> r.next, next |-> r.next + 1,
                         seq |-> seq], tail |-> <<>>])
        /\ UNCHANGED <<CURRENT, file_to_compact, mem, imm, background,
                       ranging, writing, reading, history, bg_error,
                       scheduled>>

\* SetCurrentFile: the rename that makes the new MANIFEST count.
SetCurrentFile ==
    /\ db = "opening" /\ bg.pc = "idle"
    /\ CURRENT' = manifest_number
    /\ log_number' = logfile_number
    /\ bg' = [Resting EXCEPT !.pc = "delete", !.what = "open"]
    /\ UNCHANGED <<logs, tables, descriptor, next_file, last_sequence,
                   manifest_number, version, memtables, compact,
                   pending_outputs, ranging, writing, reading, history, db,
                   bg_error, scheduled>>

\* DB::Open deletes what is obsolete and schedules a compaction if needed.
FinishOpen ==
    /\ bg.pc = "delete" /\ bg.what = "open"
    /\ Deletion
    /\ db' = "open" /\ bg' = Resting
    /\ scheduled' = MaybeSchedule(FALSE, bg_error, imm, manual, tables',
                                  current, file_to_compact)
    /\ UNCHANGED <<CURRENT, numbers, version, memtables, compact,
                   pending_outputs, ranging, writing, reading, history,
                   bg_error>>

(***************************************************************************)
(* Closing and crashing.                                                   *)
(***************************************************************************)
\* ~DBImpl: nobody uses the database any more; the background thread is told
\* to stop and waited for.
Close ==
    /\ db = "open" /\ MutexFree /\ restarts < MaxRestarts
    /\ writers = <<>> /\ range = NoRange
    /\ \A r \in Readers : pins[r] = Null /\ snapshots[r] = Null
    /\ db' = "closing"
    /\ restarts' = restarts + 1
    /\ UNCHANGED <<files, numbers, version, memtables, background, ranging,
                   writing, reading, hist, synced, issued, bg_error,
                   scheduled>>

Forget ==
    /\ db' = "down" /\ mem' = {} /\ imm' = Null /\ logfile_number' = 0
    /\ next_file' = 2 /\ last_sequence' = 0 /\ log_number' = 0
    /\ manifest_number' = 0 /\ current' = NoFiles /\ file_to_compact' = Null
    /\ pending_outputs' = {} /\ bg_error' = FALSE /\ scheduled' = FALSE
    /\ bg' = Resting /\ compact' = Null /\ manual' = Null /\ range' = NoRange
    /\ writers' = <<>> /\ wr' = [t \in DOMAIN wr |-> Idle] /\ lead' = NoGroup
    /\ snapshots' = [r \in Readers |-> Null]
    /\ pins' = [r \in Readers |-> Null]
    /\ UNCHANGED <<ranges, reads, issued>>

\* What is on disk: the tables of the MANIFEST and the logs it does not cover.
OnDisk(L, T, s) ==
    UNION {T[f] : f \in LiveFiles(s.files) \cap DOMAIN T}
    \cup UNION {LogEntries(L[n]) : n \in {m \in DOMAIN L : m >= s.log}}

\* Files after a crash.  The edit being written may have reached the MANIFEST.
\* When the machine goes down, each log and the MANIFEST may lose the records
\* that no sync has covered, from the end; when only the process does, nothing
\* written is lost (every record is flushed to the system).  What stands behind
\* a failed append may be unreadable in either case.
Survivors(log, machine) ==
    LET floor == IF machine THEN Min({log.synced, Sound(log)}) ELSE Sound(log)
    IN  {kept \in SUBSET DOMAIN log.recs :
            /\ 1 .. floor \subseteq kept
            /\ \A j \in kept : \A i \in 1 .. j : i <= Sound(log) => i \in kept}

CutLogs(machine) ==
    LET any == UNION {Survivors(logs[n], machine) : n \in DOMAIN logs}
    IN  {cut \in [DOMAIN logs -> any] :
            \A n \in DOMAIN logs : cut[n] \in Survivors(logs[n], machine)}

TailsAfter(machine) ==
    LET tail == descriptor[CURRENT].tail
        whole == {tail} \cup
            (IF bg.pc = "manifest" THEN {Append(tail, bg.edit)} ELSE {})
    IN  IF machine THEN UNION {{SubSeq(t, 1, i) : i \in 0 .. Len(t)} : t \in whole}
        ELSE whole

\* A file that has survived the machine is on disk.
CrashedLog(log, kept, machine) ==
    LET order == SetToSortSeq(kept, <)
    IN  [NewLog EXCEPT
            !.recs = [i \in DOMAIN order |-> log.recs[order[i]]],
            !.synced = IF machine THEN Len(order)
                       ELSE Cardinality(kept \cap 1 .. log.synced)]

\* The records of history that the files no longer hold are lost; updates that
\* were never acknowledged but reached a log are found.
AfterCrash(machine) ==
    \E cut \in CutLogs(machine), tail \in TailsAfter(machine) :
        LET s == Replay(descriptor[CURRENT].base, tail)
            kept == OnDisk(logs', tables, s)
            edits == descriptor[CURRENT].tail
            \* what was there before edits were lost
            older == IF Len(tail) > Len(edits) THEN {}
                     ELSE OnDisk(logs, tables, Recovered)
            gone == (older \cup OnDisk(logs, tables, s)) \ kept
        IN  /\ logs' = [n \in DOMAIN logs |->
                          CrashedLog(logs[n], cut[n], machine)]
            /\ descriptor' = [descriptor EXCEPT ![CURRENT] =
                                IF machine THEN [base |-> s, tail |-> <<>>]
                                ELSE [@ EXCEPT !.tail = tail]]
            /\ hist' = (hist \ gone) \cup kept
            /\ UNCHANGED <<tables, CURRENT, synced>>
            /\ Forget

\* The end of ~DBImpl: the files stay as they are.  A write that failed may be
\* in a log, and the next open will find it.
CloseDone ==
    /\ db = "closing" /\ ~scheduled
    /\ AfterCrash(FALSE)
    /\ UNCHANGED restarts

Crash(machine) ==
    /\ machine \/ db # "down"
    /\ restarts < MaxRestarts
    /\ restarts' = restarts + 1
    /\ AfterCrash(machine)

\* BackgroundCompaction uses the null manual_compaction_: the process dies.
NullManual ==
    /\ ManualGone
    /\ \/ bg.pc = "manifest" /\ bg.what = "compaction"
       \/ bg.pc = "compact" /\ (db = "closing" \/ Faults)
    /\ AfterCrash(FALSE)
    /\ UNCHANGED restarts

Next ==
    \/ \E t \in Threads, b \in Batches, s \in SyncModes : Write(t, b, s)
    \/ \E t \in Threads \cup {Compactor} :
          \/ MakeRoomFails(t) \/ SwitchMemTable(t) \/ SwitchFails(t)
          \/ StartGroup(t)
    \/ \E ok \in IF Faults THEN BOOLEAN ELSE {TRUE} : AddRecord(ok) \/ SyncLog(ok)
    \/ InsertInto \/ FinishGroup
    \/ \E r \in Readers : \/ GetSnapshot(r) \/ ReleaseSnapshot(r)
                          \/ BeginRead(r)
                          \/ \E k \in Keys : EndRead(r, k) \/ RecordReadSample(r, k)
    \/ BackgroundQuits \/ BackgroundFlush \/ BuildTable \/ BuildTableFails
    \/ BackgroundCompaction \/ FlushWithinCompaction
    \/ FinishCompactionOutputFile \/ InstallCompactionResults
    \/ CompactionFails \/ LogAndApply \/ LogAndApplyFails
    \/ DeleteObsoleteFiles
    \/ CompactRange \/ FlushForRange \/ RangeFlushed \/ RequestLevel \/ CancelRange
    \/ BackgroundManual
    \/ Recover \/ SetCurrentFile \/ FinishOpen
    \/ Close \/ CloseDone
    \/ \E machine \in BOOLEAN : Crash(machine)
    \/ NullManual

Spec == Init /\ [][Next]_vars

(***************************************************************************)
(* Fairness: the first writer of the queue, the background thread, the     *)
(* caller of CompactRange and the one that opens or closes the database    *)
(* are scheduled for ever.  Each line says of one of them that it does not *)
(* stay able to go on without doing so: the predicate is the disjunction   *)
(* of the guards of the thread's actions, so that the line follows from    *)
(* WF_vars of the disjunction of these actions.  TLC evaluates it without  *)
(* ENABLED.                                                                *)
(***************************************************************************)
WriterReady ==
    \/ lead.pc \in {"log", "sync", "insert"}
    \/ lead.pc = "finish" /\ MutexFree
    \/ \E t \in Threads \cup {Compactor} :
          /\ AtFront(t)
          /\ bg_error \/ HasRoom(t) \/ MustSwitch(t)

BackgroundReady ==
    \/ MustQuit \/ MustFlush \/ MustServe \/ MayChoose
    \/ bg.pc # "idle" /\ db \in {"open", "closing"}

RangeReady ==
    /\ db = "open" /\ MutexFree
    /\ \/ range.st = "begin"
       \/ range.st = "flush" /\ wr[Compactor] = Idle /\ FlushSettled
       \/ range.st = "level" /\ (bg_error \/ manual = Null)
       \/ range.st = "wait" /\ bg_error

Fairness ==
    /\ <>[]WriterReady => []<><<TRUE>>_<<lead, wr>>
    /\ <>[]BackgroundReady => []<><<TRUE>>_<<bg, compact, scheduled>>
    /\ <>[]RangeReady => []<><<TRUE>>_<<range>>
    /\ <>[](db = "opening" \/ (db = "closing" /\ ~scheduled))
          => []<><<TRUE>>_<<db, bg>>

FairSpec == Spec /\ Fairness

(***************************************************************************)
(* Properties.                                                             *)
(***************************************************************************)
\* The update a read of key at sequence number snap must see.
Expected(key, snap) == TableGet(hist, key, snap)

\* What a read sees as the application does: a deletion is the same as nothing.
Seen(e) == IF e = Null THEN Null ELSE IF e.del THEN Null ELSE e

\* While the database is open, a lookup at the current sequence number and at
\* every snapshot that is held finds the update it should: no flush, move,
\* merge, deletion of files or recovery loses, hides or revives an update, and
\* no update of a group is visible before all of them are (Get, Version::Get).
ReadsCorrect ==
    db \in {"open", "closing"} =>
        \A k \in Keys :
            \A s \in {last_sequence} \cup
                     {snapshots[r] : r \in {q \in Readers : snapshots[q] # Null}} :
                Seen(Lookup(mem, imm, tables, current, k, s))
                    = Seen(Expected(k, s))

\* A Get or an iterator that took its references earlier still finds every file
\* of its version and reads what it should, however much was compacted and
\* deleted since (Version::Ref, AddLiveFiles, DeleteObsoleteFiles).
PinnedReads ==
    \A r \in Readers : pins[r] # Null =>
        LET p == pins[r]
        IN  /\ LiveFiles(p.files) \subseteq DOMAIN tables
            /\ \A k \in Keys :
                  Seen(Lookup(p.mem, p.imm, tables, p.files, k, p.snap))
                      = Seen(Expected(k, p.snap))

\* Above level 0 the files of a level do not overlap, which FindFile's binary
\* search and the rule "a smaller level decides" rest on (the check at the end
\* of VersionSet::Builder::SaveTo).
LevelsDisjoint ==
    \A l \in 1 .. NumLevels - 1 : \A f, g \in current[l] :
        f # g => \/ Before(Largest(tables[f]), Smallest(tables[g]))
                 \/ Before(Largest(tables[g]), Smallest(tables[f]))

\* Whatever moment a crash picks, the MANIFEST in force is there and every
\* table it names is on disk, so the next open does not end in "missing files"
\* (DBImpl::Recover; pending_outputs_ and bg_error_ in DeleteObsoleteFiles); and
\* every table has a smallest and a largest key.
NothingMissing ==
    /\ CURRENT \in DOMAIN descriptor
    /\ \A tail \in TailsAfter(TRUE) :
          LiveFiles(Replay(descriptor[CURRENT].base, tail).files)
              \subseteq DOMAIN tables
    /\ \A n \in DOMAIN tables : tables[n] # {}

\* Whenever the process dies, and no append to a log had failed, the files hold
\* every acknowledged update, synced or not, and the next open reads them as they
\* are read now (the note on WriteOptions::sync: "if it is just the process that
\* crashes ... no writes will be lost").
ProcessCrashLosesNothing ==
    LET newest == Max({0} \cup {e.seq : e \in hist})
    IN  (\A n \in DOMAIN logs : logs[n].torn = Null) => \A tail \in TailsAfter(FALSE), k \in Keys :
           Seen(TableGet(OnDisk(logs, tables,
                                Replay(descriptor[CURRENT].base, tail)),
                         k, newest))
               = Seen(Expected(k, newest))

\* A write that waits in the queue returns, however the writers are grouped,
\* whether it has to wait for a memtable to be written or for level 0 to
\* shrink, and whatever fails meanwhile (the condition variables of Write and
\* MakeRoomForWrite; every error has to wake the waiting threads).
WritesReturn ==
    \A t \in Threads \cup {Compactor} : wr[t].st = "queued" ~> wr[t].st = "idle"

\* CompactRange comes to an end (the loops of TEST_CompactMemTable and
\* TEST_CompactRange).
RangesEnd == range # NoRange ~> range = NoRange

\* Closing comes to an end (~DBImpl waits for the background thread).
CloseEnds == db = "closing" ~> db = "down"

\* What can be read: of the open database, or of the one that the next open
\* will make of the files.
Found ==
    IF db \in {"open", "closing"}
    THEN {Lookup(mem, imm, tables, current, k, last_sequence) : k \in Keys}
            \ {Null}
    ELSE OnDisk(logs, tables, Recovered)

Readable ==
    {e \in Found : ~e.del /\ \A d \in Found : d.key = e.key => d.seq <= e.seq}

Abstract == INSTANCE KVStore WITH
    store <- Readable, safe <- synced, up <- db \in {"open", "closing"}

\* The database is a key-value store: its writes take effect at one moment and
\* as a whole, flushes, compactions, deletions of files, recoveries and failures
\* do not show, and a crash takes back unsynced writes only (KVStore).
ImplementsKVStore == Abstract!Spec

=============================================================================
