# Verification of Staqtapp 1X

TLA+ models of the Staqtapp 1X storage engine (`src/src/staqtapp`), the TLC
configurations that check them on small instances, and theorems that TLAPS
proves for every instance. Line numbers refer to `src/src/staqtapp` unless a path
says otherwise.

## 1. The system

Staqtapp keeps variables in one text file per VFS. Everything else is derived
from that file or protects it.

| Component | State it keeps | Operations | Interacts with |
|---|---|---|---|
| Write transaction engine (`transaction.py`) | the VFS file, `.bak`, the lock file, temporary files | `mutate`, `repair_mutate`, `restore_backup`, `restore_revision`, `atomic_replace_plan` | called by every writer; calls the revision store before and after a replacement |
| Revision store (`revisions.py`) | `objects/<digest>.sqtpp`, `timeline.json` | `ensure_current_recorded`, `record_current`, `list_revisions`, `prune_revisions` | the engine (under the lock); the API (without it) |
| Record operations (`engine.py`, `model.py`) | the parsed image: records, locks, histories, the most-recent list | `addvar` .. `stalkvar`, and their copies in `_apply_transaction_call` | parser and serializer; the transaction engine |
| Parser, serializer (`parser.py`) | none | `parse_vfs_source`, `serialize_mutation_plan` | record operations, recovery |
| Write batching (`batching.py`) | `_pending`, `_inflight`, timers, statistics | `enqueue`, `flush_key`, `flush_all`, `configure` | API calls enqueue or flush; commits through `run_transaction_calls` |
| Public API (`api.py`) | none of its own | dispatch to engine, batches, process pools; failures become values | everything |
| Integrity map, surgical repair (`integrity.py`, `recovery.py`) | `<vfs>.integrity.json` | `publish_map`, `verify_map`, `repair_vfs` | the writers publish maps; repair reads the revision store |
| Snapshots, read cache, sidecar index (`snapshot.py`, `engine.py:81-117`) | mmaps, `.sqti` files, an in-memory cache | lookups, index building | readers; invalidated by writers |
| Maintenance (`maintenance.py`) | none | `optimize`, `compact`, the sweep of temporary files | revision store, snapshots, maps |
| Creation and selection (`config.py`, `engine.make_vfs`) | the selected path (thread-local and a settings file) | `makevfs`, `setpath`, contexts | all |
| Codecs (`codec.py`, `typed_values.py`) | none | payload and typed-value encoding, range decoding | record operations |

| Legacy oracle (`legacy/original.py`) | one `.sqtpp` file, a settings file, one lock of the package | the calls of release 1.2, as edits of the file's text | no production module; the files it leaves are what the engine opens, its answers what a migration compares |

Not part of the engine's logic: the JSON backend choice, diagnostics (a bounded
ring), the command line, the error classes, and the benchmark tools.

**What is hard here.** Several processes share one file through a lock that not
every operation takes (`prune_revisions`, `list_files`, `list_revisions` and map
publication do not); a call can die between any two file-system steps; the file can
be replaced or damaged by others; batches move between caller threads and timer
threads, and are committed outside the mutex that guards them; the same
mutation exists twice, for direct calls and for transactions; maps,
histories and locks name things that later calls remove or rename. `PROJECT.json`
lists each hazard with its line and the properties that watch it.

**What makes a component correct.**
- Engine and store: whatever is displaced was stored first; a named revision can be
  read back; an object holds the bytes its name digests; a replacement was
  prepared from what it replaces; every call ends and the lock becomes free.
- Batching: an accepted mutation is committed exactly once or reported; a batch is
  one transaction; `flush_writes` is a durability barrier; order and
  read-your-writes as documented.
- Record operations: the committed file parses; histories, the most-recent list and
  lock entries agree with the variables; locks hold.
- Repair: leaves every record as one map describes it, never of several revisions;
  does not take committed data for damage.
- Reading: a snapshot addresses the bytes it was made of; a reader sees what was
  committed before its call; the cache keeps its limits; a lookup finds a name
  whatever the hashes are; ranges and chunks are exact.
- Dispatch: one answer for each call, at its place; a call runs once, unless the pool
  failed; no call works on the selection of another; a VFS is made once.
- Codecs: what is encoded comes back, in one form only, on one line.
- Legacy: a call touches what it names; the file stays one that the engine opens; old and
  new calls agree where the documents say so.

## 2. Plan

Order of work, most important behaviour first; items 1 to 9 are done.

1. `RevisionStore` (abstract) and `VfsCommit` (detailed), refinement.
2. `VfsCommit_proofs`.
3. `AcceptedWrites` (abstract) and `WriteBatching` (detailed), `WriteBatching_proofs`,
   refinement.
4. `VFSImage` and `VFSImage_proofs`.
5. `SurgicalRepair` and `SurgicalRepair_proofs`.
6. `SnapshotCache`: the read cache and the sidecar beside commits, optimize and repair;
   `SnapshotCache_proofs`.
7. `Selection` and `CallDispatch`: creation, selection, process pools;
   `CallDispatch_proofs`.
8. `SnapshotIndex`, `Payloads`, `TypedValues`, `SpanPlan`: the pure algorithms; `Algorithms`
   puts them beside each other, `Algorithms_proofs`.
9. `LegacyImage`: the calls of 1.2, beside `VFSImage`; `LegacyImage_proofs`.
10. The sweep of temporary files beside their unlocked writers (`maintenance.py:93-119`),
    composed with the store.
11. Fork in the batching process (`batching.py:341-353`): one surviving thread and a copied
    lock.
12. Migration (`engine.py:653-692`) from the files of `LegacyImage`.

Abstract specifications worth adding: an atomic VFS with a map, implemented by
`SurgicalRepair` for serial calls; reading as a register that returns a value not older than
the call, implemented by `SnapshotCache` but for `MetTwo`.

## 3. Modules

### `RevisionStore`, `VfsCommit`

`RevisionStore` is what the store promises, without files or locks: a head that is
displaced only when it is kept, and a set of kept revisions that retention
shrinks but never below the head.

`VfsCommit` is the protocol. A content stands for bytes and their SHA-256; a stamp
for `(device, inode, size, mtime_ns)`. Each step of a process is what lies between two
accesses to shared files.

| Model | Code |
|---|---|
| `lock`, `Acquire`, `Release` | `InterProcessFileLock`, `vfs_write_lock` (`transaction.py:145-188`) |
| `OpenSource`, `CheckMapped` | `_mapped_consistent_revision` (121-142) |
| `TakeDigest` .. `AppendRevision` | `ensure_current_recorded`, `record_current`, `_store_object` (`revisions.py:48-154`) |
| `MakePlan`, `Precheck`, `InstallBackup`, `Recheck`, `Replace` | `mutate`, `atomic_replace_plan` (`transaction.py:231-309`) |
| `CopyBackup`, `Revalidate` | `restore_backup`, `restore_revision` (327-366) |
| `PruneLoad` .. `UnlinkObject` | `prune_revisions` (`revisions.py:178-195`); kind `compact` takes the lock, kind `prune` does not |
| `Fail`, `Crash`, `Foreign` | an I/O error, a process death, a program that replaces the file without the lock |

A call has one of seven kinds; `Kinds` selects those of an instance.

### `WriteBatching`

One process: application threads and timers run the same `flush_key`. What happens
under `_lock` is one step (`Check`, `AppendCall`, `Take`, `Claim`, `Publish`); the
commit is another (`CommitBatch` or `RejectBatch`), outside `_lock`, as in
`_run_batch`. Mutations are numbered in call order; `log` is what each VFS holds.
`Barrier` is the flush that reads and transactions make, `Recover` the absence of one in
`recover_vfs` and `rollback_revision`, `FlushAll` .. `FlushReturns` are `flush_writes`,
`Enable` and asks `disable`/`enable` are `configure`. The byte threshold behaves as
the operation threshold and is folded into it.

`AcceptedWrites` is what this promises to callers, without threads, timers or batches: an
accepted write stands in the queue of its VFS until the queue is taken as a whole, and what was
taken is applied in one piece, in order, or given up and reported. `Promise` in `WriteBatching`
maps `_pending` to the queue, `_inflight` to what is taken, and batches reported as failed
to what is lost.

### `VFSImage`

The image that a call parses, changes and commits: `recs` (an ordered list, as a
file can hold two records of one name), `locks`, `hist` (stalk histories), `recent`
(the `___SQTPP___MRSV___` list). `AddVar` .. `Stalk` are the calls; an operator has no
result when the call raises. `DirectResults` is what the direct functions do
and `OverlayResults` what `_apply_transaction_call` does: the two are different code
and differ for `set_value`, `renamevar_stx` and `removevar`. `Open`, `Apply`, `Commit`,
`Abort` are `run_transaction_calls`. A commit is atomic here.

### `SurgicalRepair`

A file is made of pieces, each a value and the damage done to it (`wear`, the set of the
events that hit it, so that equal pieces are equal bytes). `recs` are the records. The `frame`
is every structural region of the map that a repair insists on (prefix, lock section, histories,
all sizes). The `rest` is where the records lie, and the bytes in no leaf region: the `null`
head, line ends, opaque lines and terminator, which only the aggregate `tqpt-body` covers, and
the closing markers, which nothing covers. A map stands for the state whose regions it digests.

`Commit`, `Refuse`, `Build`, `Publish` are a committing call: the map is built and published
after the lock is released, also by a refused direct call, and not at all by a transaction.
`Install` is what it commits: a record in its place, another frame or layout (each may change
alone: a transaction whose lengths make up for each other moves records and keeps all sizes), a
revision, or the backup. `LoadMap`, `ReadRaw`, `Choose`, `Fix` are `repair_vfs`: load, analyse,
find trusted bytes in revisions, patch under the lock if the file is still the analysed one.
`Repairable` is `_repair_regions`: the frame is the map's and some record failed, whatever
else of the body is damaged (`recovery.py:41-43`). So `Fix` commits the rest as it is, or a
mixture where the records had moved (`Remains`), and the file may then be refused
(`BuildFails`).

`DamageFile` changes bytes of any set of records, of the frame and of the rest at once;
`DamageObject` damages a revision. Whether a damaged file opens, and which records it then
shows, depends on the bytes. The model leaves both open at each reading: `BuildFails`,
`Refuse` and `NoCandidate` are possible beside the successful step, and of a map made of a
damaged file any subset of the differing records may be found failed (`Failed`). A map that is
missing or malformed only ends the repair (`load_map`) and is left out.

### `SnapshotCache`

The file is the sequence of its generations; the identity that `stat` returns is the number
of the generation. `Program` gives each call the steps it takes on the file, the sidecar
and the cache, in the order of the code: `stat`, `lookup`, `map`, `index`, `save`, `restat`,
`file` are `_read_snapshot` and `MappedVFS.__init__`, `drop` is `_invalidate_read_cache`,
`unlink` the removal of the sidecar, `parse`, `canon`, `compare` are `optimize_vfs`. Steps of
threads and processes interleave. The cache is one sequence for each process, least
recently used first. A process that is killed is a thread that takes no more steps. A
commit is one replacement here.

### `Selection`, `CallDispatch`

`Selection` has the VFS files (whole, partial, absent), the settings file, and the
selection of each process: `make_vfs` with `os.link` or, where that fails, an
exclusive open and a write in place (`Exclusive`, `Write`), `select_vfs`, `Crash`.
`CallDispatch` EXTENDS it with `map_api_calls`: the list is cut into chunks, workers take
chunks, run their calls, and send answers; a worker may be killed and is replaced by a new
one without a selection; an answer that cannot be sent fails the pool and the list
runs again in the caller. What `multiprocessing.Pool` does is marked external.

### `SnapshotIndex`, `Payloads`, `TypedValues`, `SpanPlan`, `Algorithms`

`SnapshotIndex` is the scan of a body for records and the binary search of `_lookup_slot`, one
state for each probe. `Payloads` has the text envelope, the run-length code of a core value, and
the arithmetic of ranges and chunks over base64 quartets; `TypedValues` the typed-value
codec with its limits and order; `SpanPlan` the application of replacements to a source. The
last three are functions of their input. `Algorithms` has one state for each input up to the
bounds and runs the search beside them; `MCAlgorithms` adds the typed values, which only TLC
looks at since `TypedValues` needs RECURSIVE operators.

### `LegacyImage`

A file of 1.2 is its records, the lines of its lock section, its histories, and whether the
lock section ends in a colon too many. Each call of `legacy/original.py` reads the file, edits
the text and replaces it under one lock, so that it is one step; only the first `stalkvar`
of a file replaces it twice (`Cut` is a crash in between). The edits keep their reach: a
pattern without an anchor meets every name that ends in the variable's, `str.replace` meets
all equal records. `Accepted` is what `parser.py` takes. `New == INSTANCE VFSImage WITH ...`
reads the file as an image of the new engine, and `OracleAgrees` compares the calls.

Left out: `appvar` with an empty list of locks, `lockvar` on items of histories (dark
variables), stalking an item or two names of which one ends in the other, edits of a lock
section with the stray colon, item numbers of two digits, and lambdas, SMV trees, the
registry and generators.

## 4. What the runs check

`MC*` modules only name model values, sets and symmetry, and `MCAlgorithms` the typed values. Properties are conjunctions of named parts (`SectionsBacked`, `SnapshotsTrue`,
`ListAnswered`, `OthersUntouched`, ...), each part with its own comment in the module and most
with a mutant of their own; the type invariant is a part of one of them, except in
`SurgicalRepair` and `SnapshotIndex`, where no run lists it and it is proved for every instance
(section 5).

| Run | Instance | Shows |
|---|---|---|
| `commit_store` | 2 processes, mutate and compact, 3 calls, 1 fault, keep 1 or 2 | displaced, current and named states stay stored; the head is the newest entry when nobody is inside; entries are appended or forgotten, never rewritten; refinement of `RevisionStore` |
| `commit_faults` | 2 processes, mutate, repair, restore_backup, rollback, listfiles; 2 calls, 1 fault, 1 foreign write | named revisions exist; objects intact; a commit is prepared from what it displaces; every call returns |
| `commit_prune_race` | writer and unlocked prune | violation, see section 6 |
| `batch_threads` | 2 threads, 1 timer, 1 VFS, 4 mutations, batches of 2, 1 failure | nothing lost or repeated; batches whole; flush is a barrier; batches bounded; reads leave nothing of theirs queued; a call is overtaken only while its batch is in flight |
| `batch_liveness` | 2 threads, 2 VFS, transactions, recoveries, batching switched off and on | every queued mutation is committed or its batch reported failed; refinement of `AcceptedWrites` |
| `image_calls` | 2 names, 2 payloads, 3 lock operations, 5 commits, transactions of 2 calls | the file parses; histories, most-recent list and lock entries agree with the variables; locks hold call by call |
| `image_collision` | 2 names, 6 commits | violation |
| `repair_damage` | 2 processes, 7 kinds of calls, 3 calls, 1 damage, 1 crash | a repair leaves frame, places and records as mapped, whatever is damaged beside them; serial calls: no false alarm, committed records stay |
| `read_cache` | 2 processes, 3 threads (reader, mixed, writer), 3 generations, 4 calls, cache of 2 entries | spans and bytes are of one generation; a snapshot is filed under its own generation unless two replacements met its read; reads are recent; the account of the cache; optimize keeps content and is alarmed only by others |
| `read_algorithms` | 5 names with 3 hashes; bodies of 5 lines, texts of 3 marks, 8 bits, 14 bytes, values of 3 levels, 3 replacements | each algorithm against its definition |
| `call_dispatch` | caller, another process, 2 workers, 2 VFS, lists of 3 calls in chunks of 2, 1 killed worker | one answer for each call; no second run without a failed pool; calls work on their VFS; a VFS is not overwritten; map returns unless a chunk was lost |
| `legacy_files` | names `a`, `b`, `cb`, 2 payloads, 3 calls and every call after them, 1 crash | what a call leaves alone; when the file stays acceptable; histories keep their records; old and new calls agree |

**Why the bounds are enough to be interesting.** Every race named in the hazards is
between two actors, so two processes or threads meet it; three calls let two overlap
after a first has left state behind; one fault suffices because every property is
about the state right after it and the recovery from it; contents, payloads and
names come in twos or threes because a property only asks whether two are equal. Four
mutations fill two batches of two, so that two can be in flight at once. Five commits of
`image_calls` cover add, stalk, rename, re-add and stalk again. One damage event may
hit any pieces of a file at once, so that records and the bytes between them are damaged
together. Counters (`MaxCalls`, `MaxFaults`, `MaxForeign`, `MaxIssued`,
`MaxAsked`, `MaxCommits`, `MaxBatch`, `MaxDamage`, `MaxCrashes`, `MaxGens`, `MaxDeaths`,
`MaxUses`, `MaxCuts`) stand in guards and bound only how often the environment acts. Three
generations let two replacements fall into one read, which is the case the second `stat` of
`_read_snapshot` does not cover. Chunks of two in a list of three give a full and a short
chunk, so that answers can come back in the other order. The names `b` and `cb` are there
because one ends in the other. The properties of `legacy_files` look at every call that may come
next, so that three calls and one more are covered. Fourteen bytes are
four quartets and one partial.

**Instances that leave calls out.** `image_calls` uses plain names only and makes
`renamevar_stx` and `removevar` directly, not in transactions: with a name like `b_1`,
or with those transactions, the code breaks the properties (section 6), and the run says
what holds otherwise (`NoItemNamed`, `NoBatchedMoves`, which the theorems about `VFSImage`
assume too). `commit_store` leaves out repairs and foreign writes, since those
put a state at the path that the store does not know yet.

**Symmetry** is used in `commit_store`, `commit_prune_race` and `repair_damage` (processes,
contents, names, payloads, frames, layouts), where no property is a liveness property and no
constant distinguishes them. `repair_damage` also has a view that leaves out the local variables
of calls that have ended, and what only such calls would still read.

**Fairness.** `commit_faults` and `batch_liveness` assume weak fairness of the steps of
a call that has begun (an operating system runs every thread) and of timers (a
`threading.Timer` fires). Nothing is assumed of callers: no call need ever start. A
process that has died takes no steps and the kernel frees its lock, so lock
acquisition needs weak fairness per process only; with the finitely many calls of an
instance nobody can be overtaken for ever. `Quiescent` is the stutter of a state in which
no call runs. `call_dispatch` assumes weak fairness of the caller and of the workers that
live (`Returns`). `CHECK_DEADLOCK FALSE` stands where calls
are bounded and all may have returned.

## 5. What is proved

All theorems hold for every value of the constants that satisfies the module's named
assumptions, and no run's bound enters them. A further hypothesis is part of the theorem and
explained here. The `_proofs` modules are all proved by `tlapm`, to the last leaf.

`VfsCommit_proofs`, for any processes, contents and bounds:

- `TypeOKHolds`, `ObjectsStayIntact`: no assumption beyond `ConstantsOK`. `TypeOK` is not
  inductive: `restore_backup` needs that a `.bak` seen before the lock is still there
  (`BackupStays`). `ObjectsIntact` needs `CopyVerified`: bytes waiting to be linked were
  hashed.
- `LockedTimelineBacked`: if `Kinds \subseteq LockedKinds`. The inductive invariant is
  `CommitInv`: only the lock holder is past the lock (`OneInside`) and knows at each
  step what it is about to rely on (`InsideKnows`). The assumption cannot be
  dropped: `commit_prune_race` is the counterexample.
- `UnprunedTimelineBacked`: the same property without the lock but without retention
  (`Kinds \cap {"prune", "compact"} = {}`): the copy of the timeline that an unlocked observer
  is about to write may be old, but names stored objects only (`BackedInv`).
- `CommitsArePrepared`: `CommitIsPrepared` under either hypothesis above. `LockInv` says who
  holds the lock at which step; `SourceInv` that, as long as the metadata of the mapped file match,
  the file is that one, `.bak` has its content before the last check, and what a mutation
  displaces is stored. It rests on stamps that never come back: an in-place change that keeps
  `mtime_ns` and size is not in the model.
- `HeadStaysCurrent`: `HeadIsCurrent` for mutate, repair and compact without foreign writers.
  `HeadsInv` says what the holder of the lock records, and that until a fault a file that is not
  the head is being recorded by the call that replaced it. With `rollback` or
  `restore_backup` in its place, or a foreign writer, a state stays unrecorded until the next
  call, which is the design.
- `TimelineIsNotRewritten`: `TimelineAppendsOrForgets` if `Kinds \subseteq LockedKinds`, from
  `CommitInv` and `ForgetsOldest`; an unlocked `list_files` breaks it (section 6).
- `StoreInvariant` and `Refinement`: if `Kinds \subseteq {"mutate", "compact"}` and
  `MaxForeign = 0`. `StoreInv` adds what the holder knows of the head (`HeadKnown`);
  each step then keeps, commits, forgets or stutters in `RevisionStore`.

`VFSImage_proofs`, for any names, payloads, lock operations, and numbers of calls:

- `ImageInvariant`, and from it `FilesAlwaysParse`, `SectionsStayBacked`, `LocksAreRespected`. The
  properties are not inductive, since a rename or an addition can only collide with a name that
  nobody expects. `ImageInv` says of the committed image and of the overlay (`Tidy`) that every name
  is a caller's or an item's, the history of a name is that name with 1, 2, ..., n, all with
  records, and the most-recent list has each item once, and that locks are on callers'
  names. One lemma for each call shows that its results are tidy and keep what is locked.
- Both hypotheses are needed. `NoItemNamed`: no caller's name is another's with a
  number (`b_1` beside `b`); `addvar a`, `stalkvar a`, `addvar b_1`, `renamevar a b` commits a file
  that does not parse. `NoBatchedMoves`: `renamevar_stx` and `removevar` are not called inside
  transactions; `image_collision` is the counterexample (section 6).

`SurgicalRepair_proofs`, for any processes, variables, damage and crashes:

- `TypeOKHolds`.
- `RepairsLeaveAsMapped`: a repair leaves the frame, the places and the records as the map it
  loaded has them, and the whole file if the rest is the map's. Nothing is assumed of the
  rest. The inductive invariant `RepairInv` says that after the analysis the bytes read have
  the map's frame and the failed records are known, and that after the choice the wanted ones
  are the map's: a trusted candidate agrees with the map on a failed region, and a record
  that has not failed agrees already. The digest comparison under the lock closes the
  argument. For the map of a damaged body, which may lack regions, the theorem says less: each
  record is the map's or the one that was there, if the records have not moved.
- `HealthyFilesPass`, `RepairsKeepCommitted`: of calls that do not overlap, are not
  transactions, complete and publish (`serial`). `SerialInvariant` says that the file is the
  last commit worn by damage, and that the map lies between the two, or the call that is about
  to publish is the only one under way. Neither needs the committed file to be sound: a
  repair may commit a damaged one. A map of a damaged file (a refused call publishes one) is
  why equality with the last commit is not invariant. A call that cannot build its map, because
  the file it committed is refused, ends `serial`.

`SnapshotCache_proofs`, for any processes, threads, calls, weights and limits:

- `CachedSnapshotsTrue` and `ReadsAreRecent`: `Stage` says of every thread, by the steps it has
  left, how the generations it has seen are ordered; a second `stat` that agrees with the first
  leaves the one case of two replacements (`MetTwo`). Entries are then honest (`EntryInv`).
- `CacheIsAccounted`: the account is the weight of the entries, a sum over a sequence. What
  dropping, appending and evicting do to that sum is proved by induction over the
  sequence (lemmas `Induction`, `WeightIsSum` and those after them).
- `OptimizingKeepsContent`: `ContentInv` says that the content of a generation is that of its commit, and
  where an optimization saw a difference, somebody has committed since.

`WriteBatching_proofs`, for any number of threads, timers and VFS files, any batch size and
any bounds; the assumptions are those of `BatchConstantsOK`:

- `BaseHolds`: `TypeOK` is not inductive, because a new batch needs a number. `IdInv` says that
  batch numbers are those of batches that exist and that a batch is looked for where it is;
  `OpInv` that a mutation a thread still carries is its own and in no batch, and that no
  more batches were made than mutations appended. `RoomForBatch` follows, and with it
  the types.
- `BatchesBounded`: a queued batch is below `batch_max_operations` but for the calls of the
  threads that have appended and are on their way to claim it (`Extra`); each of them is on
  its way once.
- `ReadsSeeOwnCalls`: from its flush to its read a thread has nothing queued for that VFS
  (`ReadInv`); what others do cannot queue anything of it (`OwnQueuedFalls`).
- `NothingIsLostOrRepeated`: every batch is queued, held by the one agent that claimed
  it, given up or committed (`WhereInv`), and the batches, what is committed and what
  threads carry have no mutation in common (`OnceInv`). It rests on `_take_batch` moving a
  batch from `_pending` to `_inflight` in one critical section.
- `SuccessMeansDurable`: until `flush_all` has waited, every mutation it owes is durable, in a batch it
  will still meet, or the count of failures has grown (`FlushInv`); `BatchGoesOn` says what one
  step can do to a batch.
- `BatchesAreTransactions`: a batch is in the log as a whole, its mutations next to each other
  (`WholeInv`), or not at all.
- `BatchingKeepsThePromise`: `WriteBatching` implements `AcceptedWrites`. Steps on batches
  are steps on queues and groups, all others stutter; it needs that a batch given up is no
  longer anywhere else and that a mutation is accepted once, the invariants of
  `NothingIsLostOrRepeated` and `GivenUpInv`.
- `CallsKeepTheirOrder`: calls of one thread stand in batches, and batches on the queue, in the
  order in which they were made (`OrderInv`), so that a passed call is in flight or given up
  (`PassInv`). The hypothesis `NoBypass` (nobody asks `recover` or `disable`) is needed: `recover_vfs`
  does not flush (section 6), and `configure(write_batching=False)` may clear the flag while a
  call that has seen it set is still to be appended; TLC has traces of both.

`CallDispatch_proofs`, for any processes, workers, VFS names and lists of calls (assumed to be
well-formed records and not empty, since `api.py:251-252` answers an empty list itself,
`DispatchConstantsOK`):

- `FilesAlwaysStand`: whatever is selected can be opened and no file is overwritten. The
  inductive invariant says that what is about to be persisted as the selection is a whole
  file, and that a file that is not whole yet is filled only by the process that created it.
- `EveryCallIsAnswered`: a chunk is in one hand, arrived or waiting; in a hand, the calls before
  the next one have run once and the others not; and the caller's own run answers a prefix of
  the list (`ListInv`). That the chunks partition the list (`OneChunk`, `SomeChunk`) carries it.
- `CallsWorkWhereTheyShould`: what a worker or the caller has selected is nothing, the caller's
  selection, or one persisted or asked for since (`RecentSelections`).

`Algorithms_proofs`, for any names, hash function, file, marks and bounds, so that what it says of
a run holds of every input:

- `TypeOKHolds`, and `LookupIsCorrect`: a lookup that ends found the slot of the name, or
  there is none. The inductive invariant (`SearchInvariant`) says that hashes before
  `lo` are smaller than the wanted one and hashes from `hi` on are not, and then that every
  slot of the wanted hash that was passed has another name. It rests on the table being
  sorted.
- `ScansAgree`, `ScansAlwaysAgree`: the scan, which counts the lines in the gaps between records,
  and the parser, which looks at every line, see the same opaque lines: each of them lies in
  the gap before the first record behind it. That both refuse repeated names is not needed.
- `RangesAreExact`, `ChunksAreExact`, `RangesAlwaysExact`: the quartets between `QuartetStart` and
  `QuartetEnd` hold the bytes of the range, at the offset at which they are cut (lemmas
  `SizeDecodes`, `StartQuartet`, `EndQuartet`, `SliceWithin`); the chunks of a value follow each
  other, all but the last full and none empty, and put together they are the value.
- `CoreVariablesSurvive`, `JoinedTextsDecode`, `PayloadsAlwaysRoundTrip`: of run-length pairs, the
  runs taken off the front and the rest that is still to be coded are the list at every step;
  of texts, no mark that ends an envelope is left in an encoded text, so that the first end
  behind a begin is its own, also where two envelopes stand side by side.
- `PlansAlwaysEdit`: the plan of a list of replacements writes the edited file. Sorting is stable
  (`OrderedLists`, from the existence of an ordering permutation), so that what is put in front of
  one byte keeps its order (`SameInsertions`); going through the file byte by byte, the edited
  file and the assembly have written the same when the assembly stands at the first
  replacement that starts behind that byte (`SplitAt`, `InsertStep`, `KeptStep`, `EditsAgree`); the
  plan and the assembly agree piece by piece (`PlanWrites`), and the size is a sum (`SizeAnnounced`).
  Replacements whose bytes are apart are accepted in any order (`SeparateAccepted`).

`LegacyImage_proofs`, for any names, payloads, lock operations and numbers of calls, items and
crashes; callers' names and lock operations are finite sets, and the other assumptions are those
of `LegacyConstantsOK` (the mark of a joined history is in no caller's name and is no number):

- `FilesKeepTheirForm`: records, lock lines and histories are what the types say, the lock section
  has a line, and a history has only items of its own name (`FileOK`). One lemma for each call
  says what is left of a file by it (`AddForm` to `StalkForm`); the others rest on these.
- `OthersAreUntouched`: what is left of the records when those the call is about are left
  out is the same before and after, and so for the locks. The lemmas on `Only` say when leaving out,
  adding, replacing and putting together commute; `CollapsedKeeps` that halving runs of empty lines
  meets no record. The inductive invariant `FileInv` adds that every lock names an operation, that
  there is one record of the item added last (`LocksOK`), and what names look like (`NamesOK`).
- `HistoriesKeepTheirRecords`: items leave a history together with what is found for them, which
  is their own record (`ItemsAre`). The hypothesis `NamesEndNoItem` is needed: a variable named `1`
  would be met in every `b_1`.
- `CollisionsAlone`: a file is accepted iff the records that the parser sees and the lock
  records have different names and no colon is left over (`AcceptedIs`); each call keeps the two
  apart unless it collides (`CallGoesOn`). A renamed variable takes all names that end in its
  own along; two of them stay different because an ending replaced by the same text leaves
  different beginnings (`EndInOne`).
- `OracleAlwaysAgrees`: on a file that both engines accept, the legacy call and the new one both
  refuse, or what the first leaves is, as an image, a result of the second. The image has
  the records that the parser sees, in their order (`ImageIs`, `SeenNames`); in an accepted file
  each name has one record and one lock record, and the image's locks are what the lines say
  (`LocksAre`). An edit of the one record that a call meets is an edit at its place in the image
  (`PlainIs`, `OnlyAt`, `OnlyRemoved`), and each edit of the lock lines drops, puts or moves one
  set of locks (`LocksDropped`, `LocksPut`, `LocksMoved`). One lemma for each call (`AddVarAgrees` to
  `LockDelAgrees`) compares the two engines; `CallAgrees` puts them together, and `CallGoesOn`
  gives that the file left is accepted too. The hypotheses are those of `OracleAgrees` itself:
  no name is entered twice (`Collides`) and the call is one that both engines have in the same
  sense (`Comparable`); which values `joinvars` gives is the free choice of `VFSImage`.

Induction over data is used where it was needed (`SnapshotCache_proofs`, `Algorithms_proofs`,
`LegacyImage_proofs`): the library's induction theorems take an operator as a parameter, which
the provers here cannot instantiate, so that the lemma `CountUp` says it of a set of numbers,
from the least element of its complement, and `RecursionExists` that a function given by a step
is defined. `FlattenSeq`, the fold that sequences are put together with, is then its list of
partial results (`FlattenIs`).

Only model-checked:

- liveness (`EveryCallReturns`, `QueuedIsResolved`, `Returns`): fairness and ENABLED are beyond
  this version of TLAPS;
- of the algorithms, `TypedValuesRoundTrip`, which is about RECURSIVE operators.

Every run satisfies the hypotheses of the theorems about its properties, so that nothing is only
checked there that a theorem excludes; `commit_prune_race` and `image_collision` are the
instances that do not, and fail.

## 6. Where code and documentation disagree

With a run of their own:

- `commit_prune_race`: `prune_revision_history` (`engine.py:742`) takes no lock although
  `docs/RELEASE_NOTES_1_5_1.md:13` says pruning is serialized against writers; the
  timeline can come to name a deleted object.
- `image_collision`: a rename derives the item names of a history without looking whether
  they exist (`engine.py:455`) and commits a file that no longer parses. The trace:
  add and stalk `a`, remove `a` in a transaction (its item `a_1` stays), add and stalk `b`,
  rename `b` to `a`. Adding `a`, stalking it, adding `b_1` and renaming `a` to `b` does the
  same without a transaction. `recover_vfs` restores the state before.

Seen while modelling, without a run:

- A younger batch can be committed before an older one in flight (`batching.py:194`);
  `RELEASE_NOTES_1.5.2.md:19` promises call order. `OvertakenOnlyInFlight` says that nothing
  else reorders calls.
- The flush before a read does not wait for a batch in flight (`batching.py:254`), against
  `docs/WRITE_BATCHING_1_5.md:16`; `flush_all` does wait.
- A repair tolerates a failed `tqpt-body` as soon as any record failed (`recovery.py:41-43`),
  not "only when fully explained by localized record failures"
  (`docs/RELEASE_NOTES_1_4_8.md:9`): with a payload and a line end damaged it restores the
  payload, reports success and leaves two records run together; with a payload and the `null`
  head damaged it commits a file that does not parse and then raises. `Fix` does both, and
  `RecordsAsMapped` is stated so that it excludes neither. Damage in no region at all is
  reported as no corruption even when the file does not parse.
- After a transaction whose lengths make up for each other, no region but records and
  `tqpt-body` fails, so a repair of the undamaged file writes old records over the moved ones
  (`Remains`, `Mixed`).
- `run_transaction_calls` publishes no map (`engine.py:938`), so a repair of the healthy file
  reverts the transaction, against `docs/RELEASE_NOTES_1_4_8.md:9`. A death between commit
  and publication, and maps published in another order than the commits, do the same.
- A refused direct call publishes a map of the file as it is (`engine.py:188-193`); damage done
  before is then reported as healthy, against `docs/RELEASE_NOTES_1_4_7.md:13`.
- Two replacements during one read file an old snapshot under a new key
  (`engine.py:98-104`, `MetTwo`): it is served until the next invalidation in that process.
- A worker that is killed with a chunk in its hands leaves `map_api_calls` waiting for ever
  (`api.py:260`), although the comment at `api.py:263` says a failure of the pool must not halt
  the controller. Forked workers that batch lose what they queued when the pool is
  terminated.
- `addvar` of a value that is an envelope already and contains a newline (`codec.py:44`) writes a
  record that the scan does not find again.
- `vardata_stx` looks for a literal of the pattern in the encoded payload first
  (`engine.py:512-518`) and misses matches that only the decoded text has.
- Temporary files of the sidecar (`.<name>.sqti.*.tmp`) are in no pattern of the sweep
  (`maintenance.py:95-101`).
- `vardata_stx`, `findvar_stx`, `locklist`, `keyvar`, `lockvar`, `lockdel`, `stalkvar`,
  `corevar`, `iter_value` and `read_index_info` do not flush first either.
- Legacy, against `docs/COMPATIBILITY_MATRIX.md:5` (files of 1.2 are read): a second `lockvar` of
  the variable whose record is on the first line duplicates the record
  (`legacy/original.py:2806`), `appvar` with a lock leaves `::` (986), and `joinvars`,
  `renamevar_stx` and `stalkvar` enter names that exist (1103, 1131, 1826): the new parser
  refuses the file. `lockvar` wipes the lock section while it still says null (2088, 2854),
  the most-recent entry with it.
- Legacy: `stalkvar` with the root's value drops the history and leaves its records, so that the
  next `stalkvar` makes a second `a_1`; `renamevar_stx` of a root with a positive number
  always ends in an IndexError (1170); `changevar` ignores locks; `makevfs`
  overwrites a file.
- `restore_backup` displaces a state that was not recorded (`transaction.py:327`), against
  `docs/RELEASE_NOTES_1_4_4.md:5`.
- `list_files` records without the lock (`engine.py:287`) and can overwrite a timeline
  entry written meanwhile, against `docs/REVISION_MODEL_1_4.md:12`.
- A batch whose commit succeeded and whose map or index failed is reported as failed
  (`batching.py:219-222`), against `RELEASE_NOTES_1.5.2.md:24`.
- `recover_vfs` and `rollback_revision` do not flush first (`api.py:414`), against
  `RELEASE_NOTES_1.5.2.md:22`.
- `removevar` in a transaction has none of the history guards (`engine.py:912-920`
  beside 475-478): the items stay as plain variables and in the most-recent list, and a
  new variable of that name cannot be stalked.
- `renamevar_stx` in a transaction does not rename in the most-recent list
  (`engine.py:889-910` beside 464-465).
- Renaming a stalked root ignores the locks of its items and leaves their lock entries
  behind under the old names.

## 7. What is not modelled

- Byte layout: formatting, spans, replacement plans and the streaming writer are
  abstracted to one new content; fsync order is not modelled (a crash loses no
  completed replacement).
- Reading calls, except where they flush or record; searching.
- `os.fork` in the batching process (`batching.py:341-353`) and the atexit flush.
- The sweep of temporary files, fork in the batching process and migration (items 10 to 12 of
  the plan). A writer whose temporary file is swept fails at `os.replace` and reports it.
- The binary layout of the sidecar, base64 itself, the decimal forms of numbers.
- Of the legacy source what `LegacyImage` names as left out: trees, lambdas, dark variables, the
  registry, generators, terminal output.
- JSON backends, diagnostics, command line, benchmarks: no state that
  another component depends on.
