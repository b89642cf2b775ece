# A verification project for the KBTU chat and social network app

The repository is an iOS app (`src/Firebase/FinalProject/FinalProject`, Swift)
for the students of a university: accounts, conversations, profiles with posts,
news, a list of subjects and teachers. Everything it stores is in a Firebase
Realtime Database; the Firebase SDK is vendored under `Pods/` (Objective-C), and
the app's correctness rests on it: what the screens show is what the SDK
delivers, in the order in which it delivers it. Also vendored is leveldb
(C++), the key-value store under the SDK's persistence. The project models all
three: the app's own screens, the part of the SDK they use, and the core of
leveldb.

The app never turns disk persistence on, so leveldb runs only in a build that
does (`FLevelDBStorageEngine` of the database client). It is modelled for its own
sake: it is the largest body of code in the repository with concurrency, crashes
and recovery in it, and what it promises is what pending writes would rest on.

Paths below are relative to `src/Firebase/FinalProject/`; `RTDB` is
`Pods/FirebaseDatabase/FirebaseDatabase/Sources`, `Auth` is
`Pods/FirebaseAuth/FirebaseAuth/Sources/Auth`, `LDB` is `Pods/leveldb-library`.

## Inventory

| Component | State | Operations | Talks to | Model |
|---|---|---|---|---|
| Realtime Database client (`RTDB/Core/FPersistentConnection.m`, `FRepo.m`, `FSyncTree.m`, `FWriteTree.m`, `RTDB/FViewProcessor.m`) | connection state, listens, outstanding puts, held-back answers, server cache, pending writes, event registrations | observe, setValue, connect, authenticate, restoreState, answers and pushes of the server, onDisconnect | the server over a connection; the screens through blocks on the main queue | `RealtimeDatabase`, abstractly `Replica`, data in `SyncTree` |
| Key generator (`RTDB/Utilities/FNextPushId.m`) | last time and random characters | get | childByAutoId | `PushId`, its state in `ChatDetail` |
| Conversation screen (`ChatDetailVC.swift`, `Message.swift`) | `allMessages` | viewDidLoad, send_action, observer block | the SDK | `ChatDetail` |
| List screens (`ChatVC`, `FriendsVC`, `ProfileVC`, `FriendsProfileVC`, `HomeVC`, `StudyVC` and their models) | an array per observer, the selected segment | viewDidLoad, newPost_action, writeNew, add_action, segmented_action, observer blocks, cellForRowAt | the SDK; they open the conversation screen by row | `Feeds` |
| Accounts (`LoginVC`, `RegistrationVC`, `SettingsVC`, `EditProfileVC`, `User.swift`) | the stack of screens, the captured user | log-in, registration, sign-out, edit, and their callbacks | FIRAuth, the SDK (`users`) | `Accounts` |
| Authentication client (`Auth/FIRAuth.m`) | current user (kept in the keychain), calls under way | signIn, createUser, signOut, the decorated callback | the Authentication server; the main queue | `Accounts` |
| Navigation (storyboard, `MainTabBarVC`, back button of `ChatDetailVC`) | presented and pushed controllers | segues, present, dismiss, pop | all screens | parts in `Accounts` and `Feeds` |
| leveldb's database object (`LDB/db/db_impl.cc`, `write_batch.cc`, `snapshot.h`, `builder.cc`, `filename.cc`) | queue of writers, memtables, snapshots, background thread, error state, all files | Write, Get, snapshots, iterators, CompactRange, flush, compaction, deletion of files, open, close | the file system; `VersionSet`; client threads | `LevelDB`, abstractly `KVStore` |
| leveldb's versions (`LDB/db/version_set.cc`, `version_edit.cc`, `dbformat.*`) | the files of every level, MANIFEST, CURRENT | lookup order, picking and expanding a compaction, LogAndApply, Recover | the database object | `VersionSet` (rules), `LevelDB` (state), `InternalKeys` |
| leveldb's log (`LDB/db/log_writer.cc`, `log_reader.cc`) | offset in a block | AddRecord, ReadRecord | log and MANIFEST files | `LogFormat`, driven by `MemTable` |
| leveldb's memtable and iterators (`LDB/db/memtable.cc`, `skiplist.h`, `db_iter.cc`, `LDB/table/merger.cc`) | the links of the skip list, positions and directions | Add, Get, Seek, SeekToFirst, SeekToLast, Next, Prev | one writer, any reader, without a lock | `MemTable`, `Iterators` |
| leveldb's tables and caches (`LDB/table/*`, `LDB/db/table_cache.cc`, `LDB/util/cache.cc`, `comparator.cc`) | blocks, index, filters; cached tables and blocks with their references | building a table, Get, iterators, Evict | reader threads share the caches | `TableFormat`, `LRUCache`, `TableReader` |
| Detail screens, cells, delegates, avatar upload, leveldb's repair, environment and encodings, other pods | none that matters | - | - | not modelled |

What is hard about it:

* *Three queues.* The app runs on the main queue, the database on a queue of its
  own, FIRAuth on a third. A tap can fall between the making of a snapshot and
  its arrival; a callback looks at a state that is not the one its call saw.
* *An unreliable connection.* A put can be applied and its answer lost; it is
  then sent again. Answers can be newer than the data the client has.
* *Operations of several steps.* A sign-up makes an account and then writes a
  record; an edit is five writes. The process may end, or the screen disappear,
  between any two of them. Nothing pending is on disk.
* *Forced unwrapping.* `!` and array indices assert facts about other queues'
  state; a false assertion ends the process.
* *Observers that are never removed*, and two observers behind one table.
* *leveldb's mutex is given up in the middle of things*: while the log is
  written, while tables are built and merged. What was decided before may no
  longer be right after.
* *Readers take no lock*: they walk a skip list that is being linked, and read
  from versions, tables and blocks that were replaced long ago.
* *Crashes.* A log is cut anywhere, a MANIFEST ends in half an edit, and
  recovery itself may be cut short by the next crash. Every file operation may
  fail, and half of what failed may be on disk.

The list with source lines is under `hazards` in `PROJECT.json`, each with the
properties that would catch it going wrong. In three of them the code does what the hazard
says, and no line of it promises otherwise: a sign-up that fails after the account
was made leaves it without a record (`FIRAuth.m:1091`), the list of users grows with
every change (`ChatVC.swift:41`), and a clock that goes back puts a later message before
an earlier one (`FRepo.m:616`). The properties named there say what holds beside
it. Two that the properties leave out:

* The back button of ChatDetailVC presents a new tab bar on top of the
  conversation, so controllers and observers pile up until the process ends.
  Harmless to the data, and the code states no bound.
* After a failed append to the MANIFEST (`version_set.cc:849`) the same writer goes on with
  the edit of a flush nested in a compaction, whose record the next open may
  report as corruption. The model appends that edit as readable.

## Modules

### The app and the SDK

`SyncTree` holds the data operators: pending writes laid over the server's data
(`Layer`, from `FWriteTree`), the server's data after a prefix of its log
(`DataAt`), a value event only when the view changed (`Changed`). A write is a
constant with a writer and a key; what a child stores is the write that put it
there.

`Replica` is the abstract specification of the SDK: a client sees each location
as of a growing prefix of one server log, under its own unsettled writes, which
settle in order, and events reach a screen in order. A write stays pending until
the client's copy includes it or it was refused.

`RealtimeDatabase` is the detailed one. One action per handler of the SDK's
serial queue: `Observe`, `SetValue`, `TryScheduleReconnect`, `OnReady`,
`OnAuthResponse`, `RestoreState` (part of it), `OnListenResponse`,
`OnPutResponse`, `AckPuts`, `OnSnapshot`, `OnUpdate`, `OnDisconnect`, plus
`FireEvent` (a block on the main queue), `Kill`, and the server (`Serve*`,
external). `R == INSTANCE Replica WITH pending <- allWrites, pos <- cachePos,
kills <- faults.kills` is the refinement mapping; `cachePos` is a history
variable that says which prefix `serverCache` shows.

`ChatDetail` and `Feeds` put the screens on top of `Replica` (`DB == INSTANCE
Replica`). The app's calls wait in `queued` for the SDK's queue; snapshots wait in
`events` for the main queue. In `Feeds` a screen of `Replica` is one observe
call, a controller has one or two of them; a popped controller is gone while its
observers stay. Since `RealtimeDatabase` implements `Replica` (`Refines`), what is shown of
the screens over `Replica` holds over the detailed client.

`PushId` is `FNextPushId.get` as a function from the last key, the clock and the
random digits to the next key; `KeysAscend` compares any number of calls in a row
with the order of the keys they return. `ChatDetail` extends it and keeps the
generator's static variables for each process (`lastPush`); `send_action` asks it
for a key (`ChildByAutoId`), and a new process starts with a new one. Which key a
message has is a constant (`Pushed`, the generator's state when it gave the key, and
`KeyOf`, the key's place in their order), so that a message is only sent when the
generator can give it that key. `sent`, a history, is what a running process has sent,
in order. Posts, news and subjects take keys from the same generator on their
screens; they are not in this module, so a message in the model follows the last
message and not a post made in between.

`Accounts` is independent of `Replica`: it needs only that a device's writes to
`users` reach the server in order or are lost with the process, which is what
`puts` models. `stack` is the chain of presented screens; UIKit refuses to
present on a screen that already presents one (`Present`). `Trap` is the end of the
process at a forced unwrapping of nil.

### leveldb

`InternalKeys` orders entries: by user key, newer updates first. An entry is
`[key, seq, del]`; a sequence number is used once, so it stands for the value too.

`VersionSet` has the rules as pure operators: in which order files are searched,
where a flushed table goes (`PickLevelForMemTableOutput`), which files a
compaction takes and how its inputs are expanded, which entries it drops, where
its output is cut, what a version edit does.

`LevelDB` is the state machine. An action is what a thread does between taking
the mutex and giving it up, or one operation on a file while nobody holds it.

| In the code | In the model |
|---|---|
| `DBImpl::Write`, `MakeRoomForWrite`, `BuildBatchGroup` | `Write`, `SwitchMemTable`, `SwitchFails`, `MakeRoomFails`, `StartGroup`, `AddRecord`, `SyncLog`, `InsertInto`, `FinishGroup` |
| `Get`, `NewIterator`, snapshots, `RecordReadSample` | `GetSnapshot`, `ReleaseSnapshot`, `BeginRead`, `EndRead`, `RecordReadSample` |
| `BackgroundCall`, `CompactMemTable`, `WriteLevel0Table` | `BackgroundFlush`, `BuildTable`, `BuildTableFails`, `BackgroundQuits` |
| `BackgroundCompaction`, `DoCompactionWork` | `BackgroundCompaction`, `FlushWithinCompaction`, `FinishCompactionOutputFile`, `InstallCompactionResults`, `CompactionFails` |
| `VersionSet::LogAndApply`, `DeleteObsoleteFiles` | `LogAndApply`, `LogAndApplyFails`, `DeleteObsoleteFiles` |
| `CompactRange`, `TEST_CompactRange`, `TEST_CompactMemTable` | `CompactRange`, `FlushForRange`, `RangeFlushed`, `RequestLevel`, `CancelRange`, `BackgroundManual`, `NullManual` |
| `DB::Open`, `DBImpl::Recover`, `VersionSet::Recover` | `Recover`, `SetCurrentFile`, `FinishOpen` |
| `~DBImpl`; the end of process or machine | `Close`, `CloseDone`; `Crash` |

The files (`logs`, `tables`, `descriptor`, `CURRENT`) are kept apart from the
memory; a crash keeps what has reached them, and a crash of the machine only what was
synced. `hist` and `synced` are history variables: the updates made, and those a
synced write has confirmed. `NullManual` is the end of the process at
`manual_compaction_`, which `TEST_CompactRange` may have set to null
(`db_impl.cc:755`).

`KVStore` is what a store promises to its user: a write changes it at one moment,
for all its keys together; only a crash takes something back, and never what a
synced write has confirmed. `LevelDB` implements it
(`ImplementsKVStore`).

`LogFormat` writes and reads a log cell by cell, with fragments, headers and
trailers. `MemTable` sends write groups through it and then, link by link, into
the skip list, while searches and an iterator run; every prefix of the file is
read back as after a crash. `Iterators` has the merging and the database
iterator as functions of the children they look at. So `LevelDB` may treat a log
as a sequence of whole records and a lookup in a memtable as one step.

`TableFormat` builds a table from entries (prefix compression, restart points,
blocks, index with shortened keys, filters) and searches it. `LRUCache` is one
shard of the cache. `TableReader` has readers that race over both caches while
files are deleted and reads fail. A table has a filter when there is a filter policy
and its block could be read (`ReadMeta`); without one every Get reads a block. So `LevelDB` may treat a table as a set.

Two places take two calls in one step. An iterator that moves to another block
releases the old one in the step in which it gets the new one
(`two_level_iterator.cc:156-158`): nobody but the iterator holds that reference, and a
release by itself would only add states in which it is still held. The merging
iterator that changes its direction seeks a child and then moves it by one
(`merger.cc:67-71`, `93-100`): an entry that is inserted between the two is newer than the
iterator's sequence number and is skipped by it either way.

`MC*` modules give the constants small values for TLC. `*Proofs` hold the
theorems. Definitions called "Broken variant" are what the properties are
tested with; they are no part of a specification.

## Runs

| Run | Asks | Bounds |
|---|---|---|
| `rtdb` | Does the client implement `Replica`? Is a pending put always tracked, are resent writes never reordered, does every write settle and every screen converge? | two scenes: one device with two lists, two writes, one kill; two devices that write one child; one lost connection; 327k states |
| `chat` | No doubled or foreign row; a settled table is the SDK's view; a row an old snapshot removed is on its way back; messages of one process stand in the order of sending; all tables end up as the server has the conversation | two devices with a screen each, any two of three messages, two of them in one millisecond, three writes on the server, one kill; keys of two time and two random digits to base 2; 223k states |
| `accounts` | Whoever is on the tab bar is signed in and got there with a verified e-mail; records belong to accounts and stay readable; an account gets its record unless the process ends or a call fails | one phone, two people, three calls, one edit, kill, swipe, failure; 699k states |
| `feeds` | A feed at rest is what the view holds (everybody; the last edit of the profile; one person's posts, newest first; subjects and teachers), and all feeds end up right | three scenes: list and profile; two profiles, one may be left; StudyVC; two devices, two writes, one kill each; 129k states |
| `leveldb_recovery` | Is it a `KVStore`? Are all tables the MANIFEST names there, whenever the crash comes? Does a crash of the process alone lose nothing? | two writers (symmetric), three writes of two kinds, synced or not, two restarts, failing files; 708k states |
| `leveldb_compaction` | Do the levels stay disjoint, and does every lookup, now, at a snapshot and in a held version, find the right update? | one writer, four writes, one reader with snapshots, three levels; 766k states |
| `leveldb_ranges` | Does every write return, do CompactRange and close end, are reads right in between? | two writers, three synced writes, one CompactRange, one restart, failing files; 665k states |
| `memtable` | Do lock-free searches and the iterator see what they should? Does the log reader drop what a crash tore, and never put a record together from two? | three writes with readers; three writes with up to two failed appends; list of height 2; blocks of 5 cells; 778k states |
| `tables` | Are lookups and iterators right for every small table, and in a race (`ReadsAreRight`)? Does a cached entry live exactly as long as somebody holds it, is each cache charged for what is in it, and is a deleted file closed? | 63 tables of up to six entries with one reader, with and without filters and failing reads; two readers over two files without filters and with failing reads, caches of one table and about one block; 1.19M states |

Three runs show a disagreement between an assertion in the code and what the code
does (`findings` in `PROJECT.json`):

* `accounts_records`: `value["email"]!` in UserModel, for a record that only
  EditProfileVC wrote.
* `feeds_study_rows`: `allSubjects[indexPath.row]` in StudyVC, in a row of the
  teachers.
* `leveldb_range_overlap`: the files of level 1 overlap, which
  `VersionSet::Builder` asserts they do not. A crash leaves two tables at level 0;
  `CompactRange` merges them without the mutex; a flush in the middle of it looks
  at a version in which the output is not yet there, and puts its table at
  level 1 between the keys of the inputs. In a build without assertions a
  lookup can then miss a key.

Two more forced unwrappings can fail and are reachable as `Trap` in `Accounts`:
`self!` in RegistrationVC's callback (`RegistrationVC.swift:57`) with the sheet gone, and
`currentUser!` in LoginVC's callback (`LoginVC.swift:45`) after a sign-out.

*Why these bounds.* Two writes are enough for each of the orders in question
about screens: before, between, after a snapshot, an answer, a lost connection,
and the same child from two devices. One lost connection puts a put on either side of the
server's applying it; one kill puts the end of the process between any two
steps. `MaxLog` leaves room for a write applied twice. In `chat` one phone's two
messages get their keys in one millisecond, the second one with a carry, and the other phone's
message sorts before both; `MaxSent` limits the run to two of the three. In `Accounts` three calls
are a sign-up and two overlapping sign-ins, the shortest way to a stale callback;
`MaxDepth` limits how often screens can be piled up. The safety properties of `Accounts` were
also explored once with four calls (15.8 million states) without a violation.

In leveldb every batch overfills the memtable (`WriteBufferSize = 0`) and a level is full with
two entries, so that three writes already reach a flush behind another one and
four a merge into level 2. Two restarts put a crash into the recovery from a
crash. In `leveldb_ranges` all batches write the same two keys: every flushed
table overlaps every other, a flush never goes below a compaction's inputs, and the
overlap of `leveldb_range_overlap`, which needs three keys, cannot arise; the run
is about progress, and about the order of updates within the range. In `memtable` the two
record sizes make fragments that end at, one before and two before the end of a
block. In `tables` the entries share prefixes, end in the largest byte, or
differ in their sequence number only.

Deadlock checking is off: an app in which nobody taps, or a database nobody
writes to, has simply come to rest.

*Fairness.* Weak fairness on the main queue's blocks, the SDK's queue, the retry
timer and the server's answers: serial dispatch queues run what was put on them,
`tryScheduleReconnect` always schedules again, and the server is assumed to
answer. No fairness on anything a user does, on lost connections or on kills;
these are bounded, so a connection finally stays. Over `Replica` this becomes
fairness of `Settle` and of `Advance` to the end of the log. In `LevelDB`: the first writer of
the queue, the background thread, the thread in CompactRange and opening or
closing do not stop for ever while they can go on, as threads of the operating system
do not; none on new calls or on failures. In `ChatDetail`, `Feeds` and `LevelDB` fairness is
written as "from some time on ready, then the variables of the step change again
and again", which follows from weak fairness of the actions it stands for and
spares TLC evaluating their ENABLED.

## Proofs

Everything below is proved for any values of the constants that satisfy the named
assumptions: `SyncTreeAssumption` (the constants' types), `ChatAssumption`
(finitely many messages, different messages have different keys, and the order of
keys is that of their characters),
`FeedsAssumption` (a feed belongs to one controller and a controller to one device,
keys are numbers, finitely many writes), `BoundsAssumption` (the bounds are
numbers), those of `Accounts`, `PushIdAssumption` (there is at least one digit of
each kind), `TableReaderAssumption` (finitely many readers, capacities are numbers,
no handle is the null pointer) and `MemTableAssumption` (keys are numbers above that of
`head`, a table is finite and no two of its entries have the same sequence number, which
every update gets for itself). The bounds on kills, requests and log length
are constants too, so they limit nothing.

**`SyncTreeProofs`** has the lemmas on layering and on sequences of writes:
`Latest` picks a last member; a child shows the last write that sets it, or the
data (`LayerShows`, `LayerHides`); laying one more write on top, or taking away the
oldest, changes the view of its own child only; what `DataAt` shows is in the
log (`DataAtSource`, `DataAtOwn`).

**`ReplicaProofs`** proves what follows from the SDK's promises: `ReplicaSound`,
`Spec => []ReplicaInv`. `ReplicaInv` is the conjunction of `SdkInv` (types;
everything in the log, pending or in a snapshot was issued), `ToldInv` (the last
snapshot on its way to a screen is the client's view of now; a screen that does
not observe has none), `OwnInv` (a write is pending once, with its writer) and
`FateInv` (a write that a snapshot on its way shows is in the view or refused).
`ToldInv` needs that every action that changes a view raises exactly one event
with the new view (`RaiseTells`); `FateInv` needs that a write stops being
pending only when the copy of the data includes it (`KeptStays`), which is the
condition in `Settle` and `Advance`. `StepTells` and `NothingTaken` are the two facts
about a step that the screens need.

**`RealtimeDatabaseProofs`** proves that the detailed client keeps those promises: `ClientSound` (`Spec => []ClientInv`) and from it
`TypeCorrect`, `Tracked` (`PendingIsTracked`), the action property `AcceptedOnTop`
(`AcceptedWriteIsOnTop`) and `Refines` (`Spec /\ []LogFits => ImplementsReplica`,
where `LogFits` says that the log is not longer than `Replica`'s bound `MaxLog`).
The client takes a write for settled when its answer arrives and no listen is
unanswered. That this is late enough is what `ClientInv` is about; for each client
it says:

* nothing is under way without a connection, and the token goes first (`Handshake`);
* the count of unanswered listens is the number of listens and of their answers
  under way, and a connected client has asked for every location its screens look
  at (`Listens`, `ObserveInv`);
* a pending write is held back or outstanding, in the order of the calls, and
  every outstanding put of a connected client is on its way exactly once, answered
  ones first (`PendingInv`, `Flight`), so an answer is always that of the oldest put;
* the data under way continues the copy the client has, position by position, up to
  the present where the server knows of a listen (`Stream`, `Caught`): an update is
  never applied to a copy that misses an earlier one;
* when an answer is at the head, the data has its write or a listen is unanswered
  (`AnswerInv`), and all data still under way has every settled write (`SettledInv`).

The last one is the condition of `Replica`'s `Advance`: without it a snapshot of an
old listen could take a settled message off the screen. The first half of the module
has these facts about one connection as lemmas on two queues and a log, one per
message or request that is added or taken; the second half has one lemma per handler.
`Refines` then maps each handler to an action of `Replica`: `OnSnapshot` and
`OnUpdate` to `Advance` (or to nothing, when the data is not newer), `AckPuts` and an
answer that is not held back to `Settle`, `ServePut` to `Apply`, the calls of the app
and `Kill` to their own, all else to no step. `AcceptedOnTop` needs in addition that
outstanding puts are in the order of the calls (`Ordered`).

**`ChatDetailProofs`** first shows that the screens use the SDK as `Replica`
allows (`SdkSpec`), so `ReplicaInv` holds below them, then:

* `Soundness`: `Spec => []SoundInv`, and from it `TypeCorrect` (`TypeOK`) and
  `RowsSound` (`RowsAreSound`: no table shows a message twice or one of another
  conversation);
* `TablesSound`: `Spec => []TableInv`, and from it `TablesMatch`
  (`TableMatchesView`) and the action property `RowsReturn`
  (`VanishedRowReturns`).

`RowsAreSound` is not inductive: `send_action` appends a message, and nothing in the
property itself says that it is not in the table yet. It is not, because every
row is a message that was issued or waits for the queue (`RowsSent`), and that
survives a snapshot only if snapshots contain issued messages only (`SdkInv`).
`TableMatchesView` needs more: before a screen observes, its rows are its own
messages and wait behind its observe call (`QueueInv`, `RowsInv`), because a row
whose setValue ran before the screen observes might be of a write that is settled
and refused without the screen being told; and a row of an observing screen has
not been lost (`Kept`), because otherwise the snapshot that would take it away
might already have gone by.

It also proves `KeysCorrect` (`KeysAscend(n)` for every `n`), and `SentInOrder`
(`OwnRowsInOrder`): on no table, of either side, does a message stand below a later
one of the same process, as long as that process's clock did not go back and the
digits of a millisecond lasted while it sent them (`Steady`). Both conditions are
real: the offset of the server's clock may change while the app runs (`FRepo.m:616`),
and then nothing keeps the order.

`OwnRowsInOrder` is part of `KeyInv` (`KeysSound`), which says what it rests on: the
generator is where the last message left it (`LastInv`), so the next key is later than
the last one (`NextKeyIsLater`), and with it than all keys before it (`AscendInv`);
what a process has sent is its own and has not been taken back from the SDK or its
queue (`SentInv`), so a message that is being sent is not in `sent` already. A table made by a snapshot is then in
order because it is ordered by key, and a row that `send_action` appends is the latest
of its process.

For the keys themselves: for two times, the loop divides both until what is
left is equal, at the latest after the last round if both fit (`RestEnds`); the
quotients keep their order (`RestOrder`), so the last round in which they differ
gives a smaller digit to the earlier time, and all digits in front of it are
equal (`TimesAscend`). For one time, the digit that is counted up is the first that
differs (`CountsUp`), unless all were at their maximum, which `NoOverrun` excludes
because the code then writes in front of the array.

**`FeedsProofs`** does the same for the list screens: `FeedsSound`
(`Spec => []FeedsInv`), `TypeCorrect` and `FeedsMatch` (`FeedMatchesView`). `FeedsInv` adds to the
SDK's invariants that the calls in a device's queue are of its own feeds, whose
controllers are open: without it, the death of one of two processes could leave an
observer without its controller. The arrays are given by `CHOOSE` (`InOrder`,
`Reversed`); that a list in key order exists for every snapshot is proved from
well-founded induction on its size (`AllSortable`).

**`AccountsProofs`** proves `Sound` (`Spec => []AccountsInv`), `TypeCorrect`,
`SignedIn` (`SignedInOnTabs`), `RecordsOwned` (`RecordHasAccount`) and the action
properties `StaysReadable` (`RecordStaysReadable`) and `VerifiedOnly`
(`TabsNeedVerified`). `SignedInOnTabs` is not inductive: a late callback of a
failed or repeated sign-in could replace the user under a tab bar. That it does
not depends on which screen can be on which (`Shape`) and on where the callback
was made: `Anchored` says that the log-in screen or registration sheet a call
came from is still at its place in the stack, or that the sheet is known to be
gone. `AuthInv` says that "verified" is believed only of e-mails that are, and
`PutsInv` that a put that replaces a record has every field a screen reads.

**`TableReaderProofs`** proves `RefsCorrect` (`RefsAreHolders`) and `ClosedCorrect`
(`DeletedFilesAreClosed`) from one invariant, `HoldersInv`. It says of each cache
that it is `Sound` for the number of readers that hold an entry: references are
holders plus one while cached, the hash table and the two lists hold exactly the
cached entries, each under its key, an entry is in `lru` exactly if it has no
holder. `RefsAreHolders` is not inductive without the keys: `Evict` erases by key and
would take away some other entry. Of the readers it says that the handle a reader
has is of its own file and block, which a lookup by `cache_id` and block number
only gives if the key of a cached block tells its file, so two tables with one
`cache_id` are of one file, and ids are smaller than the next one; and that no reader is at
work on a deleted file, so that the cache alone can hold its table when it is
deleted. There is a lemma for each operator of `LRUCache` (`RefSound`, `UnrefSound`,
`FinishEraseSound`, `InsertSound`, ...), among them one for the loop that evicts
(`EvictOldestSound`).

**`MemTableProofs`** proves `SearchesCorrect` (`SearchesAreRight`) and
`IteratorCorrect` (`IteratorIsCursor`).

For the skip list, `ListInv` says that the nodes linked at a level are a chain in
the order of internal keys and are all linked at the level below (`ChainInv`); that a
height is announced before a node has it (`HeightsInv`); that the only links without a
value are those of the node being linked, from `w.level` up, and that `w.prev` is
there still the last node before it (`LinkInv`, `RawInv`), since writers take turns;
and that new entries have sequence numbers above `last_sequence` (`WriterInv`).
`SearchesAreRight` is not inductive: a search must be known to be at a node before its
target that is linked at its level, and the entries it did not know of when it began
must be too new for it (`Searching`). Every step of the writer only lets the levels
grow, by entries newer than `last_sequence` (`Grows`), which is all that readers and
iterators need to know about it (`SearchGoesOn`, `IteratorGoesOn`).

For the iterator, `CursorInv` has one invariant for each loop of `db_iter.cc`
(`NextLoop`, `BackLoop`, `PrevLoop`) and one for the time between calls (`Between`), all
relative to `Visible`, the entries at or below its number: what the loop has not passed
yet, with the key it skips or the value it has saved, still has the wanted entry as
its first or last one. When the direction is reversed, `Between` says where the
merging iterator is: at the entry shown going forward, before all entries of its key
going back. `MergerForward` and `MergerBack` say of `merger.cc` that the other child is
at its next entry *up to entries that cannot be seen*: the memtable grows during a
call, so a child may or may not stop at a new entry. `TableInv` says that the table is
older than the memtable. There is a lemma for each operator of `Iterators`; they are
about any two finite sets of entries with an order (`Family`), so they do not depend
on the skip list.

*Loops.* The library's induction theorems take an operator and cannot be used with
these provers. Where a loop has to be proved about, `Induction` is stated for sets
(a set of numbers that has 0 and with n also n + 1 has them all), and that the
recursive function which models the loop exists is proved from it (`LoopExists`,
`RoundsExist`).

There is one lemma per action in each of these modules, and each inductive
invariant was checked with TLC on the instance of the run before it was proved.

Only model-checked:

* all liveness, which is out of the prover's reach;
* `CachesAreCharged`, a sum over the entries of a cache by a fold;
* `ReadsAreRight`, which would need the searches of `TableFormat` proved right for
  every table;
* `TornTailIsDropped` and `NothingInvented`: the log reader is a fold over the bytes of
  any prefix of a file, and what it returns would have to be proved by induction over
  the data;
* `LevelDB` with its refinement of `KVStore`: merging, replaying a log and reading
  through the levels are nested folds, and what `LevelsDisjoint` and `ReadsCorrect` say
  does not hold for all constants (see `leveldb_range_overlap`).

## Assumptions about what is not in the repository

* The server handles the requests of one connection in order and sends the data
  before the answer. A request under way when a connection is lost was handled
  before, or never is.
* A listen whose hash matches lets the server leave the data out; the model
  sends the equal data again.
* The auth token is fetched before a connection opens (folded into
  `TryScheduleReconnect`); a refused token looks like a lost connection.
* UIKit presents only on a screen that presents nothing, calls prepare before
  didSelectRow, and frees a popped controller.
* The Authentication server makes an account at most once per e-mail.
* Operations on directories (create, rename, delete) survive a crash of the
  machine; the contents of files only up to their last sync.
* A failed append leaves any part of a record behind; an I/O error while the
  database is being opened is like a crash.

Left open in leveldb, so that the results hold for any choice: which file a
level's compaction begins with (`compact_pointer_`), when a file has used up its
seeks, and the random heights of the skip list. The one-millisecond slowdown of writes is left
out. A filter, where there is one, is the set of its keys, without false positives, so
that a Get of an absent user key reads a block only without one; the hash table of
the cache is a function; `max_height_` is read relaxed, so a search may start
too low or too high.

## Not modelled

Of the database client: refused listens, merges, transactions, onDisconnect
writes, gets, filtered queries and disk persistence (the app uses none of them);
successor and predecessor of push ids; token refresh and forced sign-out of
FIRAuth; spinners, animations, texts, dates, images, search bars that only
print; the detail screens, the cells and the web view, which have no state of
their own; the unfinished upload. In `Feeds` a child holds its last write as a
whole; that an edit is five writes of one field each is modelled in `Accounts`.

Of leveldb: `reuse_logs` and `paranoid_checks`, both off; reading a log from an
initial offset, which nobody asks for; blocks that are corrupt without a read
error; the arena; GetProperty and GetApproximateSizes, which only report; repair, which is a
tool nobody calls; the environment, which the crash and failure actions stand
for; the C interface; varint, CRC, hash and Bloom filter, pure functions over
bytes from which the models abstract.

All other vendored pods. They are reached only through the two clients, and most of
their C-family lines are Objective-C headers, which declare and do not compute:
of the 58,000 lines in .c, .cc and .h files leveldb has about 16,000, its
headers, utilities and comments included. The app and the SDK's logic are Swift and
Objective-C (.m). nanopb encodes the reports of FirebaseCore's logging, a format
and no protocol.

## Plan

Done: the models listed above, and the theorems about the app's screens, the
accounts, the keys, `Replica` and the client that implements it, and the caches, the
skip list and the iterator of leveldb.

Theorems, in this order: of `LevelDB`, that no table of the MANIFEST in force is
deleted (`NothingMissing`); `CachesAreCharged`.

Models: the connection handshake in more detail (token fetch, refused auth, the
back-off of `FIRRetryHelper`); a larger instance of `leveldb_compaction` with two
readers.
