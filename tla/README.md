# TRI-SYNC: models and proofs

TLA+ modules that model TRI-SYNC (the Rust crate under `src/`), TLC
configurations that check them on small instances, and TLAPS proofs of what
holds for all instances. File and line numbers below refer to `src/`.

## 1. The system

TRI-SYNC keeps the state of a tenant ("namespace") as an append-only log of
hash-chained events. State is never stored as such: it is rebuilt by replaying
the log, and `TICK_SEAL` events in the log carry the digest of the state at
their point so that replays can be compared.

| Component | State it keeps | Operations | Interacts with |
|---|---|---|---|
| Filesystem event log, writers (`src/event_log.rs`, `src/main.rs`) | segment files, `catalog.json`, `.lock`; in memory a catalog, a `BufWriter` | `tail_metadata`, `append`, `append_batch` (roll, write, flush, catalog) | other processes, through the files and the OS lock |
| Filesystem event log, readers | a catalog in memory, the events read so far | `load`, `load_header`, `next_sequence` | writers, through the files, without the lock |
| Legacy layout and migration | one log file, `.migrating` copies | `load_legacy_events`, `migrate_legacy_log_under_lock` | readers without the lock, kills |
| Snapshot cache | `<log>.snapshots/<root>.snapshot.bin` | `persist_snapshot_for_root`, `load_snapshot_for_root` | written after the lock is released, read by `verify` |
| Events (`src/event.rs`, `digest.rs`, `canonical_json.rs`) | none | build, digest, validate | the log, the replay engine |
| Replay engine and verification (`src/replay.rs`) | state map, expected sequence and digest, ticks, seal times | `replay`, `replay_with_snapshot`, `verify_events_with_snapshot` | loaded events, cached snapshots |
| State map (`src/state_map.rs`) | typed values by key | `set`, `delete`, `diff`, encodings; `TransactionalStateMap::apply_batch` | replay; threads, through a mutex |
| In-memory backend (`src/backend.rs`) | a vector behind a mutex | `append`, `append_batch`, `load`, `next_sequence` | threads |
| License gate (`src/license.rs`) | none | `require_enterprise`, `current_mode`: look in the environment, the home directory and the project, then check by the clock, twice | the commands that ask for it; whoever edits the license files |
| Command line (`src/main.rs`, `src/error.rs`) | none | gate, input, tail, build, append; load and judge; exit code | everything |
| Encodings (`decimal.rs`, `key.rs`, `hex.rs`, binary maps and snapshots) | none | canonicalize, validate, encode, decode | everything |

Processes interact in three ways: through the files of one log (any number of
CLI processes), through the OS lock on `<log>.lock`, which only the append
holds, and through digests, which let one component check what another wrote.

What is hard to get right here:

- **Interleaving.** A command reads the tail of the log without the lock, builds
  a batch on it, and appends it under the lock; what it read may be stale
  (`src/main.rs:183`). Loads never take the lock and read several files in turn.
- **Kills.** One append is up to six separate file operations (header, old
  segment, catalog, lines, newline, catalog), and a process may die between any two.
- **Buffers.** Lines pass through a `BufWriter` that writes when it is full, when
  it is flushed, and when it is dropped on an error return.
- **Stale descriptions.** The catalog is a cache of what the segment files hold;
  each open reconciles its last entry with the last file.
- **Order of checks.** The replay loop has six checks whose order decides which
  of them can ever fire.
- **Work after the unlock.** The snapshots of a batch are written when the lock is
  free again, in place, one file per root, with errors that reach the caller
  although the batch is in the log.
- **Checks at several times.** The license gate looks for a file, reads it and
  looks at the clock twice; each may have changed since.
- **One value, one text.** Digests are over texts and bytes, so what is equal must
  be written alike, and what is read back must be what was written.
- **Two ways to one answer.** Verification from a checkpoint must agree with
  replay from the first event.

What makes each component correct:

| Component | Correct when | Where stated |
|---|---|---|
| writers | the files hold one hash chain without gaps, of one tenant; what was confirmed stays; the catalog says what the files hold; nothing written is rewritten; the lock is always released | `EventLog` |
| readers | a load returns a prefix of the log no older than its start, and does not fail because others append | `LogReaders` |
| the log as a whole | it refines an append-only sequence | `AbstractLog`, `DurableLog` |
| replay | the state is the last write of each key, types hold between deletes, seals commit to the state, clocks go forward | `Replay` |
| checkpoints | verification from a checkpoint accepts the same logs with the same state | `Replay` |
| migration | it cannot be seen in the log, whatever is killed; its catalog tells what its segments hold, as far as a kill can leave it; a reader never gets part of a log | `Migration` |
| snapshot cache | it changes no verdict of verification, hides no damage after the checkpoint, serves what was acknowledged; an append it makes return an error is in the log all the same | `SnapshotCache` |
| transactional map | the map is the committed calls one after the other; a snapshot is between two of them; a panic shows nothing of a batch | `SharedMap` |
| in-memory backend | the same abstract log as the files; the same answers as the file backend | `MemoryBackend` |
| license gate | nothing licensed happens without a genuine document in force that grants it; the first source wins | `License`, `Cli` |
| command line | the exit code tells what is in the log | `Cli` |
| encodings | equal numbers have one text; a key has one tenant; what decodes is what would be written; a value comes back from the log | `Decimal`, `Keys`, `BinaryMap`, `EventValue`, `Encodings` |

## 2. The modules

| Module | Models | Source |
|---|---|---|
| `Segments` | events, segment files, the catalog, and the functions on them (reconcile, guards, roll, record) | `src/event_log.rs`, `src/event.rs`, `src/main.rs` |
| `EventLog` | the write path: unlocked tail read, lock, append in I/O steps, error returns, kills | `src/event_log.rs:158-556`, `src/main.rs:161-316` |
| `AbstractLog` | the promise: one numbered sequence that only grows at its end | `SPEC.md` 7.1, 7.4 |
| `DurableLog` | the refinement mapping from the files to `AbstractLog` | |
| `LogReaders` | loads without the lock | `src/event_log.rs:208-219`, `558-574`, `761-780` |
| `Migration` | a log in the single-file layout and the first appends to it: every file operation of the migration, every write of the appends, kills, readers | `src/event_log.rs:208-458`, `576-668`, `821-873` |
| `StateMap` | the state map: typed keys, writes, deletes, batches on a staged copy | `src/state_map.rs`, `src/replay.rs:213-378` |
| `Engine` | events, one iteration of the replay loop, starting from a snapshot, verification from a checkpoint | `src/event.rs`, `src/replay.rs` |
| `Replay` | logs of any events, replayed from the first one and from a checkpoint (extends `Engine`) | `src/replay.rs` |
| `SnapshotCache` | the snapshots written after the unlock, read by `verify` (extends `Engine`) | `src/event_log.rs:158-207`, `464-503`, `src/main.rs` |
| `SharedMap` | `TransactionalStateMap` and its mutex (extends `StateMap`) | `src/state_map.rs:65-144` |
| `MemoryBackend` | `InMemoryBackend`, a second implementation of `AbstractLog`, next to the catalog of the first (extends `Segments`) | `src/backend.rs` |
| `License`, `Cli` | what a license document is worth; processes that each run one command, the lookup of the license, the clock, the exit codes | `src/license.rs`, `src/main.rs`, `src/error.rs` |
| `Decimal`, `Keys`, `BinaryMap`, `EventValue` | pure functions: canonical decimals, namespaces and keys, the binary form of maps and snapshots, a value's way through an event | `src/decimal.rs`, `src/key.rs`, `src/state_map.rs`, `src/event.rs`, `src/canonical_json.rs` |
| `Encodings` | every text up to a length, and snapshot files that get damaged, put to those functions | |
| `SegmentsProofs`, `EventLogProofs` | proofs about the functions on segments; about the writers, their refinement of `AbstractLog`, and the readers | |
| `StateMapProofs`, `ReplayProofs`, `SnapshotCacheProofs` | proofs about the state map, replay, the snapshot cache | |
| `BackendProofs` | proofs about the in-memory backend and the migration | |
| `MapProofs` | proofs about what a state map holds: the shared map, keys, decimals, values and binary forms | |
| `CliProofs` | proofs about the command line | |
| `MCEventLog`, `MCDurableLog`, `MCLogReaders`, `MCMigration`, `MCReplay`, `MCSnapshotCache`, `MCSharedMap`, `MCMemoryBackend`, `MCCli`, `MCEncodings` | instances for TLC | |

`PROJECT.json` maps each definition to the lines it stands for.

### The event log

State of `EventLog`: `files` and `catalog` are the disk; `lock` is the OS lock;
`pc`, `mem`, `batch`, `pos`, `out`, `buf`, `owed` are one process's control
point and memory; `acked` and `crashes` are history. An action is what happens
between two points at which another process can see or end something:

| Code | Actions |
|---|---|
| `tail_metadata` and the command around it | `ReadTail` (catalog), then `BuildBatch`, `ReturnTail` or `ReadTailFails` (active file) |
| `lock_exclusive` | `AcquireLock` |
| `read_catalog_reconciled_optional` | `OpenLog`, `OpenFails` |
| guards of the loop | `Reject`; the error return is `DropWriter`, since dropping the `BufWriter` writes it out |
| `roll_segment_if_needed` and what follows | `RollSegment` (new header file), `FlushRolled` (old writer), `WriteRolledCatalog` |
| `writeln!` | `PutLine` (stays in the buffer), `PutLargeLine` (line written, newline left behind), `Spill` (buffer full) |
| final flush and catalog | `FlushBatch`, `WriteCatalog`, `Unlock` |
| process killed | `Crash` |

A digest is modelled as the history it commits to, so that two digests are
equal exactly when everything they hash is equal: the model assumes SHA-256
does not collide, and nothing else. `sound` says whether an event's stored
digest is that of its other fields. A line is one event plus whether its newline
has reached the file; two lines joined by a missing newline are what a scan
cannot parse. One write(2), one rename, and the reading of one file are atomic;
data that was handed to the OS survives a kill (the model is of processes that
die, not of machines that lose power).

### The old layout

`Migration` has the same processes and the same lock, before the log is in
segments: `path` is the one file, `tmpFiles` and `tmpCatalog` the copy being
made, `files` and `catalog` what is renamed into place. `SkipMigration` to
`RenameLog` are the file operations of `migrate_legacy_log_under_lock` in the
order of the code. Of the append that follows, each write to the disk is a step,
with kills between: the header of a new segment (`RollSegment`), the catalog that
names it (`WriteRolledCatalog`), the flushed line (`PutFirst`, `PutLine`), the catalog
(`WriteCatalog`). A line is written whole and a load of the new layout is one step
here, since `EventLog` and `LogReaders` have their parts. `Log` is what a load would return
at once, in whichever layout the log is, and `KeepsLog` says that it only ever
changes as `AbstractLog` allows.

### Replay

State of `Replay`: `log` is what has been replayed so far, `full` the engine that
started at the first event, `at` the position of the checkpoint and `tail` the
engine that started after it. `Feed` is one iteration of the loop, for both
engines; `Resume` is the choice of a checkpoint at the last event. Digests are
histories again, and a state root is the map it commits to. `Advance` has the
checks in the code's order: namespace, sequence number, previous digest, own
digest (with key validation), duplicates, seal time, tick, application. Events
come from outside: with `Forging` they may be repeated, misplaced or forged, and
so cover logs no append would write.

### The snapshot cache

State of `SnapshotCache`: `log` and `files` are the disk, a snapshot file being
two halves, the least that can be torn; `writer` and `verifier` are the processes;
`acked` is history. A writer appends a batch in one step (`AppendBatch`; `EventLog`
has its steps), and then, without the lock, goes through the seals of the batch:
`Persist` loads and replays the log up to the first seal of the root, `Truncate`,
`WriteFirst` and `WriteSecond` are `fs::write`, `Acknowledge` is the return of
`append_batch`. It returns an error if the replay fails or finds another root (pc
"refused"), or if the load, `create_dir_all` or `fs::write` fails (`PersistFails`, pc
"failed", from any point on the way and with the file as it then is); the events
are in the log by then, and nothing takes them out again (`GiveUp`). Other
writers do the same to the same file meanwhile. A verifier loads the log, then
the file; `VerifyEvents` is what it does with the two. `DamageLine` breaks a line of
the log, `DiscardLog` removes the log but not the snapshots beside it, `Crash` is
a kill.

### The shared map

`SharedMap` has the threads, the mutex (`holder`, `poisoned`) and the map. The
closure of `apply_batch` is taken apart: each of its operations is a step
(`StageOp`), of any tenant and on any key, may fail, and need not end the
closure; it ends by `Commit`, `Abandon` or `Panic`. A caller of `lock` edits the
map itself (`EditOp`), and what it has done stays if it panics. `history` is the
calls that took effect.

### The in-memory backend

A call holds the mutex from its beginning to its end, hence is one step; what
interleaves is the reading of the tail, the building of a batch on it and the
handing over, whole (`AppendBatch`) or event by event (`AppendEach`, the default
method of the trait). `twin` is the catalog of a file backend that is given the
same calls, so that the run compares the two implementations of the trait.

### The command line and the license gate

A process of `Cli` runs one command. `LookInline`, `LookFile` (twice), `ReadFile`,
`ParseDocument` and `VerifyDocument` are the steps of the lookup, between which
`EditLicense` changes files and `TimePasses` moves the clock; then come `ReadInput`,
`BuildOnTail` and `AppendEvents`, or `LoadAndJudge`. The log is the abstract
sequence, an append or a load is one step. `began` and `steady` are history.

### Encodings

A text is a sequence of one-character strings, a binary file one of bytes. Texts
are written symbol by symbol from small alphabets that have each character the
code treats on its own; snapshot files start whole and are changed, cut off or
added to. Widths are abstracted: a length, a sequence number, a time is one byte,
a UTF-8 character one byte, with one byte that is none. A byte is any number
(`Byte`), so no length overflows its field. The number a decimal stands for is its sign
and its digit at each power of ten (`SameNumber`); the algorithms over texts are
recursive functions, one turn for each symbol or entry, as the loops of the code are.

## 3. The runs

Every run below passes unless it is listed under findings. State counts are
distinct states.

| Run | What it asks | Instance | States |
|---|---|---|---|
| `EventLog_crash` | all safety of the write path | 2 writers, batches of up to 2, log of up to 3, segments of 2 lines or 3 bytes, one kill | 632 000 |
| `DurableLog` | refinement of `AbstractLog`; the lock is released | 2 tenants, 2 fair writers, large lines, one kill | 247 000 |
| `LogReaders` | loads are prefixes, fresh, and fail only on a torn line or behind an empty first segment | 2 writers, 1 reader, lines of two sizes, batches of 2, one kill | 1 546 000 |
| `Migration` | the migration cannot be seen; its catalog tells what the segments hold; loads get all of a prefix or nothing | 2 writers, 1 reader, old logs of 1 or 2 events, two kills | 439 000 |
| `Replay_state` | state, types and roots | logs of 3 events (up to 6 operations), 2 keys, 2 types, batches of 0 to 2 | 485 000 |
| `Replay_chain` | clocks; checkpoints agree with replay; typing; no duplicate is ever found | logs of 4 events, ticks 0 to 2, two seal times or none, any event misplaced, repeated, forged or of another tenant | 3 293 000 |
| `SnapshotCache` | the cache changes no verdict, hides no damage, serves what was acknowledged, and costs a refused append nothing else | 2 writers, 1 verifier, 2 roots, logs of 3 events, batches with up to two seals, one kill, failed call, damaged line or discarded log | 259 000 |
| `SharedMap` | batches are serial, snapshots linear | 3 threads, 3 calls, closures of 2 operations | 80 000 |
| `MemoryBackend` | refinement of `AbstractLog`; agreement with the file backend | 2 threads, 2 tenants, batches of 2, log of 4 | 16 000 |
| `Cli` | the gate, the order of the sources, the exit codes | 2 processes, 9 commands, 3 clock values, one edit of a file | 2 471 000 |
| `Encodings` | canonical decimals, keys, binary forms, values that come back | decimals of 6 symbols, keys of 8, strings of 4, bytes of 3, maps of 6, snapshots with 2 damages; limits of 4 digits | 313 000 |

Bounds, and why they suffice:

- `Writers`: two processes show every pairwise race; a third adds only another
  process that waits. They are symmetric, and the run that uses symmetry has no
  liveness property.
- `MaxBatch` 2, `MaxSeq` 3, `MaxEvents` 2, `MaxBytes` 3: a batch can roll in its
  middle, fail in its middle, fill a segment by count or by size, and start on a
  segment another process left empty, half full or full.
- `MaxLegacy` 2: the copy opens a segment and adds to one; two kills let a migration
  find what another left behind, twice, or an append meet the catalog that a kill
  between line and catalog left behind its segment.
- `MaxCrashes` 1: the state after a kill is a state the next process starts
  from, and recovery is checked from every such state, with an append after it.
- `MaxLen` and `MaxBatch` of `Replay`: three events with batches of none to two reach every pattern of
  write, delete and write of one key within and across batches; four reach a
  regression hidden behind a checkpoint, with events on both sides. What the
  proofs establish needs no bound.

- `SnapshotCache`: two writers race on one file; with three events a root can be
  sealed twice, by one batch or by two, with the state changed in between or
  left alike by another history.
- `SharedMap`: of three calls one can be a snapshot that was asked for before and
  is served after the two others; two operations let a closure fail in its middle.
- `Cli`: a command passes the gate while another is in it, a document expires or
  is swapped between its two checks, and the other process appends between tail
  and append. One edit is enough for a file to vanish between look and read.
- `Encodings`: six symbols are the shortest decimals with a sign, a point, an
  exponent and a leading and a trailing zero; the limits of the code (digits,
  lengths of namespaces and keys) are scaled down so that texts on both sides of
  each are reached.

Deadlock is not checked for `Replay` (a log ends, and a replay that met an error
is over), nor where the bounded calls, commands or texts come to an end:
`SnapshotCache`, `SharedMap`, `MemoryBackend`, `Cli` and `Encodings`. It is checked for
every run of the file log, where a stuck process would be one.

Each property of a passing run is there because some plausible bug breaks it: the
modules hold, beside a definition, the mutated form that a run must reject
(`Reconcile_TrustsCatalog`, `FlushRolled_Drops`, `Believed_UncheckedSeal`, `StageOp_InPlace`, ...).

Fairness: `DurableLog` assumes `WF_vars(Step(w))` for each writer, that is, a
process that can go on goes on, which is what an OS scheduler gives a thread that
does not block. `ReadTail` (starting a command) and `Crash` are not fair.
No strong fairness of the lock is assumed, so nothing is claimed about a waiting
process ever getting it.

## 4. Findings

One run ends in a counterexample, against the sentences quoted in `PROJECT.json`:

| Run | What happens |
|---|---|
| `Encodings_null` | A write of null is accepted by the append and put into its line as `"value":null`, which is read back as no value at all: every replay of the log ends there with an error (`src/event.rs:446`, `:494`). |

The following disagreements were met while modelling. Each is what the code does;
where a property had to make room for it, the exception is named in the property.

- A line of 8 KiB or more reaches the file before its newline. A process killed
  in between leaves a file that the next append makes unreadable, for good
  (`src/event_log.rs:422`); `LoadSucceeds` excepts it.
- After a kill between header and first line, the empty segment is reused for
  another event, and `first_digest` of its entry names one that was never written
  (`src/event_log.rs:542`).
- An empty first segment with a second one behind it looks like an overlap, and
  every load fails (`src/event_log.rs:541`); `LoadSucceeds` excepts it.
- The snapshot of a seal is written when its events are durable and the lock is
  free, and an error there is the error of the append: `append_batch` returns `Err`
  although all of the batch is in the log, so that a retry is a sequence
  collision (`src/event_log.rs:191`, the errors of `:464`, `:500` and `:501`).
  `RefusedIsAppended` states this, and that the log lacks nothing but the snapshot.
- A load that looks for the catalog before a migration and for the old file after
  it returns an empty log (`src/event_log.rs:577`); hence "or no event at all" in
  `LoadAllOrNothing`.
- An idempotent event delivered twice ends the replay instead of being skipped
  (`src/replay.rs:92`, `SPEC.md:480`): the detection is behind a check it can never
  pass (`NeverDuplicate`).
- A checkpoint sealed at tick 0 forgets the ticks before it, so verification
  accepts what replay rejects (`src/replay.rs:71`); `CheckpointSound` asks for a
  positive tick.
- No command looks at the ticks in the log before it appends: `apply --tick 2` and
  then `apply --tick 1` both exit with 0, and from then on `verify` and `replay` exit
  with 6 (`Replays` in `Cli` has this; `ExitTellsTruth` speaks of the log, not of what
  a later replay of it says).
- `prev_segment` hashes the catalog's entry of the preceding segment and not the
  header line its file begins with (`src/event_log.rs:528`, `SPEC.md:393`); `SegmentLinks`
  states what does hold.
- A batch rejected in its middle leaves its first events in the log although no
  catalog was written for them (`src/event_log.rs:336`, `architecture.md:15`);
  `TailRecovered` covers the next open. The in-memory backend does the same, and
  `SoundBatchesWhole` says that only the batch itself can be the cause.
- A delete between two writes lets a key change its type (`src/state_map.rs:272`,
  `invariants.md:20`); `TypesHeld` states what does hold.
- An event of a tick already sealed is applied (`src/replay.rs:186`, `SPEC.md:739`).

## 5. The proofs

TLAPS proves the following for every value of the constants, under the named
assumptions of the modules (`SizeAssumption`, `LimitAssumption`,
`NamespaceAssumption`, `WriterAssumption`, ... for the log;
`TypeOfAssumption`, `NoneAssumption`, `KindAssumption`, `OpAssumption`,
`ClockAssumption`, `LengthAssumption` for replay; `ShapeAssumption`,
`CacheOpAssumption`, `NoSnapshotAssumption` for the snapshot cache;
`CommandAssumption`, `EarlierAssumption`, `FilesAssumption` for the command line).
They say what the constants are (sizes are positive, the value that stands for
"nothing" is none of the things it could be mistaken for); TLC evaluates all of
them on the instances. Each inductive invariant was an invariant of a TLC run
before it was proved.

### The write path (`EventLogProofs`, `SegmentsProofs`)

For any number of writers, tenants, batches, segment limits and kills:

| Theorem | States |
|---|---|
| `TypeCorrect` | `TypeOK` |
| `AppendInvariant` | `SafeInv`, the inductive invariant |
| `SegmentsStayContiguous`, `ChainUnbroken`, `SealedStayExact`, `SegmentsStayLinked`, `TailAlwaysRecovered`, `AckedStayDurable` | the six safety invariants of `EventLog_crash` |
| `LogOnlyGrows` | `AppendOnly`, of every step |
| `LogRefinesAbstract` | `ImplementsAbstractLog`: every step of the files is a step of `AbstractLog` or a stutter |

`TypeOK` is not inductive: an entry is updated at `active`, a file is read at an
entry's id, a batch at `pos`, and nothing in `TypeOK` says these exist. `TypeInv`
adds, per control point, that the active entry is an entry, that its file exists
and that the position is in the batch (`PositionOK`).

None of the safety properties is inductive either. `SafeInv` is

- `LockInv`: who is past `AcquireLock` and before the unlock holds the lock, so
  that of the other writers nothing but the tail they read is of interest;
- `DiskInv`, which is `OnDisk` of the catalog and what the files hold: the events
  are one chain, cut where the segments start, and every entry but the last says
  what its file holds. The last may lag behind, as far as a kill can leave it, and
  not if its file is empty, since `Reconcile` takes that entry's word for the tail;
- `HolderInv`, per control point of the holder: the catalog in its memory is
  `Exact`, right in every field, about what the files *will* hold once its
  `BufWriter` is flushed (`View`), has at most one segment more than the one on
  disk, and the event about to be put has passed the guards;
- `AckInv`: the events of the batch the loop is past are in that view, and on
  file once the catalog is written; hence what is acknowledged is on file.

The work is in lemmas about the functions of `Segments`, which know nothing of
processes: `ReconcileExact` (from `OnDisk`, an open makes an `Exact` catalog),
`RolledExact` and `RecordedExact` (a roll and a line keep it exact), each of the
next catalog `Follows` the last one. Then there is one lemma per action. A flush
moves what is in the buffer to the files and leaves the view alone; that the kill of a
holder leaves `OnDisk` is that the invariant says so at each of its control points.

The refinement maps the files to the concatenation of what their segments hold,
which is a fold; `FlattenSeqIs` characterizes it by the positions its parts start at
(`CutAt`), `LogOf` relates it to the catalog, and `DurableStep` says that a step whose
segments grow (`Grows`, the body of `AppendOnly`) makes the log a longer one with the
same beginning.

### The readers (`EventLogProofs`)

`LoadsArePrefixes`, `LoadsAreFresh` and `LoadsFailOnDamage` state the three
properties of `LogReaders` for any number of readers beside any number of
writers; `LoadsLeaveTheLog` says `RSpec => Spec`, so that all of the above
holds with readers too. `ReadersInv` adds to `SafeInv`, per reader: the catalog it
began with is a beginning of the one on disk (`Follows`), its last segment holds the end of
the log as it was when the load began (`floor`), it has read exactly the events before
the segment it is at, and what it has read is a prefix. What lets a load fail
(`Excused`) stays once it is so (`ExcuseStays`): nobody completes a line that has
another behind it.

### The old layout and its migration (`BackendProofs`)

`CatalogAlwaysTells`, `LoadsAllOrNothing` and `MigrationKeepsLog` state the three
properties of the run for an old log of any length, any number of writers and
readers, any segment limits and any number of kills; `MigrationTypeCorrect` is
`TypeOK`. None of the three is inductive: they speak of the catalog once it is in
place, and what makes it right is what was copied before there was one.
`MigrationInv` is

- `DiskInv`: the old file is one chain; a catalog in place is `Kept`, that is, knows
  all of the old file, and is `OnDisk` and `Behind`: exact on every sealed segment,
  and on the active one right about the lines it counts, as far as a kill between
  line and catalog can leave it; without a catalog the old file is there; and what
  the old file holds is the beginning of the log's `History`. `History` is the digest
  the catalog has once it is reconciled, or the old file's events: since digests are
  histories, `PublishedChain` shows it to be what a load of the segments returns
  (`LogIsHistory`), and the proof never looks into the files again to say that the
  log has not changed;
- `WriterInv`, with the holder's `Progress` per control point: the temporary segments
  hold the first `pos - 1` events of the old file, then all of them (`CopyOf`), then
  the segments in place do, while nothing is published; from the roll to the last
  catalog of an append, the catalog in memory is `Solid`, exact about the files, and
  its head is the `History` (`Written`);
- `ReaderInv`: who is about to load segments finds a catalog, who is about to load
  the old file finds all of what the log was when it looked, or no file.

A copied event gives a `Published` catalog of one event more, and a published one is
`Solid` (`PublishedSolid`). An open makes a `Kept` catalog `Solid` (`KeptReconciled`), a
roll and a line keep it so (`RolledSolid`, `RecordedSolid`), and the catalog on the disk
stays `Kept` beside the header (`KeptBeside`) and behind the line (`KeptBehind`). Each
action is shown to be a `DiskStep` (the log is not shortened, a catalog in place stays,
no file it names goes away), which is all that the other processes' states depend on
(`OtherWriterInv`, `ReaderKept`). Which files a kill leaves behind is of no account,
because `DiskInv` does not speak of the temporary ones.

### The in-memory backend (`BackendProofs`)

`BackendsAlwaysAgree`, `SoundBatchesStayWhole` and `MemoryIsAbstractLog`: for any number
of threads and batches of any length. The invariant `MemInv` relates the vector and
the catalog beside it (`Twins`: the vector is one chain, the catalog ends where it
does, and every place is in a segment), and holds per thread that its batch is
`Successive`, each event built on the one before, and that what it is about to
confirm is in the vector. `Taken`, the fold over a batch that both backends take, is
characterized event by event (`Handed`, by `NumberInduction`): as long as both have the same
tail they judge an event alike, and a `Successive` batch that is cut at an event is
cut for its own digest.

### Replay (`ReplayProofs`, `StateMapProofs`)

- **`CheckpointsComplete`** and **`CheckpointsSound`**: verification
  from a checkpoint accepts what replay accepts, with the same state; at a
  positive tick it accepts nothing else. The invariant `Inv` relates the two
  engines (`Alike`: all fields but `seen` and the tick agree, and the tail's tick
  is not ahead) and the engine to the log's last event (`AtLast`); `Advance` is
  shown to keep two engines alike, forwards from the full engine and, when their
  ticks agree, backwards from the tail.
- **`DuplicatesNeverFound`**: no log whatever makes the duplicate
  detection fire, because a digest commits to its depth in the chain (`Sane`:
  the head is as long as the sequence number, the digests seen no longer).
- **`TypesHold`**: typing of both engines, and the checkpoint is a
  position of the log.
- **`MapsAreLastWrites`**, **`TypesAlwaysHeld`**, **`SealsAlwaysCommit`** and
  **`ClocksAlwaysForward`**: the four content properties, for logs of any length and
  batches of any size (any `MaxBatch`), empty ones included. Their invariant `ContentInv` speaks of a log that replays: `History`
  relates the map to the *positions* of operations (event, place in it), each key
  having the value of the last write after its last delete, and two operations
  of one key having one type unless a delete is between them; `Fits` relates each
  event to the engine and `InOrder` any two events. `OneMore` is one operation more;
  a batch is an induction over it (`EventHistory`), a log one over `Feed`.
- `StateMapProofs` has what a batch of any length does to a map (`AfterOpsType`,
  `AfterNoOps`, `AfterOneMore`). The library's induction theorems take an operator
  as a parameter; `Induction` there states induction for a set of numbers instead,
  proved from the least element of a set (`LeastNumber`), which the library's
  `WFMin` gives.

### The snapshot cache (`SnapshotCacheProofs`)

`CacheAlwaysTransparent`, `DamageAlwaysNoticed`, `SnapshotsAgree`,
`AckedAlwaysServed` and `RefusedAlwaysAppended` state the five properties of the run
for any number of writers and verifiers, any batches, kills, failed calls and damage. The invariant
`CacheInv`:

- the log is `Proper`, damaged or not: each event's digest commits to those
  before it. Hence a snapshot, which has the digest it was taken at, says all by
  itself which events it stands for (`Committed`);
- each half of each file is nothing or `Kept`: a snapshot that replay of the events it
  commits to gives. `Kept` does not mention the log, which is why a log that was
  thrown away leaves nothing harmful behind. That verification from such a
  snapshot changes no verdict (`SnapshotChangesNothing`) is the heart of
  `CacheTransparent`: if its digest matches the checkpoint's, the events it commits
  to are those of the log;
- a writer's roots still to write are of its batch and the others are `Served`
  (`BatchOK`); the snapshot in its hand is that of the first seal of the root, and
  its first half is in the file at `second` if the root is sealed once
  (`SnapOK`);
- no event is of two batches under way or of one and of what is acknowledged
  (`Apart`, `Free`). Without it another writer could cut to nothing, as the file of its own
  seal, what an acknowledged seal is served from;
- the batch of a writer that returned an error is in the log (`EndOK`); if what the
  replay found was the reason, the log does not replay, and what does not replay
  never does again (`Broken`, kept by `Grown`).

That the roots of a refused batch verify if the log replays is `ReplayVerifies`: the
snapshot left changes nothing, and the engine that starts at the seal is `Alike` the
one that came there from the first event, but for what it has seen (which never
matters, `NeverSeen`) and a clock that is not ahead, so that it takes every event the
other takes (`RestReplays`).

A step of a writer at a file touches one root; one that changes the log makes it
`Grown`, by a batch or by damage, and one lemma each says what that keeps.
`SealedRoots` is a recursive function, characterized by `SealedRootsAre`.

### The state map and its encodings (`MapProofs`)

- **`MapSerial`** and **`SnapshotsLinear`**: for any number of threads
  and closures of any length. `BatchesSerial` alone is not inductive: a commit puts
  a copy in place, so the invariant adds that the copy of a batch under way is the
  map with the operations that succeeded so far, and that who is inside has the
  lock (`ThreadOK`). One lemma for the steps that leave the map alone (`Quiet`), one
  for the end of a call (`Leave`), one for an edit (`Edit`).
- **`KeysHaveOneOwner`**: for texts of any length and any limits, a key belongs to one
  namespace, because a namespace has no separator in it and what follows it in a key
  is one.
- **`DecimalsAreCanonical`**: for texts of any length over any alphabet, and any digit limit.
  A text that is accepted is taken apart (`AcceptedParts`), its leading zeros go
  (`Strips`), its exponent is written out in one of three ways (`WritesWhole`,
  `WritesPointInside`, `WritesPointInFront`) and the zeros behind are trimmed
  (`TrimsToPlain`), and none of that changes the digit at any power of ten
  (`SameDigits`). That the result is accepted and stays what it is needs no second
  walk through the algorithm: two plain spellings with the same digits are
  the same (`OneSpelling`), and canonicalizing a plain spelling gives a plain
  spelling with the same digits.
- **`EncodingsAreCanonical`**: for bytes of any length. The decoder of maps has read, after
  k turns, entries whose binary form is what it has passed (`ReadsOneMore`), so
  what it accepts is what `to_binary` writes (`MapReads`, `SnapshotReads`). No file that
  is cut off or added to is accepted, because a binary map says how long it is:
  of two maps neither's form begins with the other's (`MapEnds`, `SnapshotEnds`). Strings come
  back because the reader and the writer stay in step (`StaysInStep`), bytes because
  their hex digits do (`HexReadsBack`).

The last two are about recursive functions. What such a function is follows from its
equation once it is known to exist, and `RecursionExists` builds it value by value; the
induction behind that, and behind each walk over a text, is `Induction` of
`StateMapProofs`. The only assumptions are that the files began as snapshots
(`SnapshotsAssumption`), that texts of bytes are of bytes (`AlphabetAssumption`) and
that the digit limit is positive (`DigitsAssumption`).

### The command line (`CliProofs`)

- **`GateHolds`**, **`SourcesInOrder`**, **`ExitCodesTrue`**: for any number of
  processes, commands and batches of any length, any edits and any clock. Each
  has its own invariant of one process, by control point: what its document has
  passed so far, and when (`GateKept`); which sources it has looked at in vain
  (`SourceKept`); which of its events are in the log (`TruthKept`); `Typed` holds
  them together.

### Only model-checked

- `LockReleased`, and liveness in general: fairness is outside the prover.
- `EventReadsBack`, which a null violates; of every other value the proof of
  `CanonicalEncodings` says the same.

## 6. What is not modelled, and why

- Power failure: the code never calls fsync, so nothing could be promised.
- Failing writes, full disks and permissions: of what `append_batch` does for a
  snapshot every call may fail (`PersistFails`). On the way to a durable batch an
  error return is modelled (`Reject`, `DropWriter`) with the guards as its cause, but
  no call to the OS fails; in particular the catalog write after the flush
  (`src/event_log.rs:453`) does not, so that `ExitTellsTruth` of `Cli` speaks of
  runs in which it succeeds.
- The clock of the license gate only goes forward.
- The runs of `EventLog` have one namespace (`DurableLog` has two), since tenants
  matter to the guards alone; `LoadAllOrNothing` of `Migration` excepts the empty load
  named under findings.
- In `Cli` an append or a load is one step, in `SnapshotCache` the append; `EventLog` and
  `LogReaders` have their steps.
- `load_header`, which reads the catalog and one entry, and the rejected `export`
  formats, `digest` and `example`: they touch no state.
- The rest of the canonical form (order of object keys, arrays, metadata),
  `normalize_hex`, `diff` and value digests of maps, the JSON of maps: pure functions
  whose results nothing in the models tells apart from what they were given.
- `error.rs` apart from the exit codes is the wording and classification of
  messages, and `errors.rs` is used by nothing.
- The wasm stub, the TypeScript client, the examples, the benchmark test.

