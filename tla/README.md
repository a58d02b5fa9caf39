# TLA+ models of pgmicro's transactional core

pgmicro is an SQLite-compatible database engine in Rust with a PostgreSQL
dialect. Its core is the crate `core/`; this project models the parts of it in
which several transactions, threads or crashes meet: the multi-version store
(MVCC) with its checkpoint and recovery, the write-ahead log with its readers,
writers and checkpoints, and the savepoints of the pager.

## 1. The system

### Components

| Component | Source | State it keeps | Operations | Status |
|---|---|---|---|---|
| MVCC store | `core/mvcc/database/mod.rs` | transactions (`txs`), finalized states, version chains of rows and index keys, exclusive transaction, watermarks, shared header | begin, begin exclusive, read, insert, update, delete, commit state machine, rollback, savepoints, row-id allocation | modelled but for savepoints and row ids |
| Clock | `core/mvcc/clock.rs` | one counter under a lock | begin and commit timestamps | modelled |
| MVCC cursor | `core/mvcc/cursor.rs` | position over chain and B-tree | seek, next, insert, delete, exists | point operations modelled |
| Logical log | `core/mvcc/persistent_storage/logical_log.rs` | file, owned offset, running CRC | append, sync, truncate, read back | modelled but for the byte format |
| MVCC checkpoint and GC | `core/mvcc/database/checkpoint_state_machine.rs`, GC in `mod.rs` | checkpoint boundary, staged rows | write committed versions to the B-tree, commit, truncate log, collect garbage | modelled for table rows |
| Recovery | `mod.rs`, `maybe_complete_interrupted_checkpoint`, `maybe_recover_logical_log` | | completion of an interrupted checkpoint, replay of the log over the database file | modelled for table rows |
| WAL | `core/storage/wal.rs` | frames, read marks, locks, frame cache, header generation | read and write transactions, append, spill, checkpoint in four modes, restart, truncate, recovery scan | modelled for one process |
| Multi-process WAL | `core/storage/shared_wal_coordination.rs` | shared-memory header, slots | same, across processes | planned (6) |
| Pager, subjournal, page cache | `core/storage/pager.rs`, `page_cache.rs`, `subjournal.rs` | dirty pages, savepoint stack, cache with SIEVE eviction, commit and checkpoint state machines | begin, commit, rollback, savepoints, spill, evict, checkpoint | modelled but for the free list, auto-vacuum and page 1 |
| B-tree, on-disk format | `core/storage/btree.rs`, `sqlite3_ondisk.rs`, `encryption.rs`, `checksum.rs` | pages | insert, delete, balance | not modelled: sequential, byte level |
| Word lock, busy handler | `core/fast_lock.rs`, `core/busy.rs` | lock word; retry count | lock, unlock; delay | not modelled; the lock words of the WAL are in WalFile |
| LISTEN / NOTIFY | `core/pg_listen.rs` | channels, per-session queues | listen, notify, deliver at commit | planned (5) |
| Virtual machine | `core/vdbe/` | program counter, cursors | execute, halt, abort | transactions, statements, savepoints, commit and abort |
| In-place VACUUM | `core/vdbe/vacuum.rs` | locks held, copy of the database | lock, copy, publish, checkpoint, clean up | its locks, commit and checkpoint modelled |
| Connections | `core/connection.rs`, `core/lib.rs` | transaction state, schema copy | prepare, execute, close | autocommit, transaction state, violation counter |
| Query translation, parsers, PostgreSQL catalog, roles, COPY, incremental views, JSON, functions | `core/translate`, `parser`, `parser_pg`, `core/pg_*.rs`, `core/incremental`, ... | none shared | compile SQL | not modelled: pure or sequential |
| Wire server, CLI, bindings, I/O backends | `cli/`, `bindings/`, `sqlite3/`, `core/io` | sockets, files | I/O | not modelled: pure I/O |
| Sync engine | `sync/engine` | local change log, remote revision | push, pull, rebase | planned (6) |

### How they interact, and what is hard

A connection runs a bytecode program. Its first access opens an MVCC
transaction; its cursors read version chains merged with the B-tree of the
database file; `Halt` drives the commit state machine, which yields at every
I/O and is driven again by whoever steps the statement. Nothing protects the
store as a whole: transactions share lock-free maps, a lock per chain, atomic
counters and one commit lock. The hard behaviours are

* **speculation**: a reader may use the versions of a transaction that is still
  Preparing; it registers a *commit dependency* and must not commit before that
  transaction did, nor after it rolled back (Hekaton, register-and-report);
* **first committer wins**: validation runs without any global lock, between
  transactions that are all Preparing;
* **a commit is not atomic**: state change, rewriting the chains, notifying,
  unlocking, publishing header and watermarks and leaving the map are separate
  steps, and others run between them;
* **a commit may be dropped** at any of its yields: closing a connection or
  resetting a statement rolls it back, also after its frame has been written;
* **two kinds of transactions**: `BEGIN` becomes exclusive at its first write
  and holds the commit lock from then on; `BEGIN CONCURRENT` does not;
* **two durable places**: the logical log and the database file with its WAL,
  between which a checkpoint moves rows and may crash at any step.

Without MVCC a transaction is the pager's: it reads pages through a snapshot of
the WAL and appends frames under a write lock. Here the hard behaviours are

* **locks that are only tried**: metadata is copied without a lock, a read mark is
  chosen, then locked, then everything is compared again; a path that fails half
  way has to give back exactly what it took;
* **a log that starts over**: a writer or a checkpoint restarts a backfilled log
  while others still hold slots, snapshots and cached pages of the old one;
* **pages in four places**: page cache, log, subjournal, database file; a dirty page
  is spilled, evicted, read back, taken back and written again within one
  transaction;
* **nested taking back**: statements inside named savepoints, each with its part of
  one subjournal, and an error path that decides how much is undone.

What makes the components correct: committed reads come from one snapshot
(`SnapshotReads`), overlapping writers of a row do not both commit
(`FirstCommitterWins`), unique keys stay unique, nobody waits for a report that
never comes (`CounterExact`, `CommitsEnd`), the log holds exactly the committed
transactions in an order that replays to the same state; for checkpoint and
recovery: no committed row is lost or resurrected by a crash; for the WAL:
readers see the frames of their snapshot only and no frame in use is
overwritten (`ReadersSeeTheirSnapshot`), no commit is lost or torn
(`CurrentIsLastCommit`), no lock leaks (`LockWordsMatchHolders`); for savepoints: a
transaction sees what it wrote and did not take back (`SeesItsImage`).

## 2. Plan

1. **MvStore** (done): the store, its commit and rollback; every safety property is
   checked and proved.
2. **MvCheckpoint** and **DurableRows** (done): checkpoint state machine, garbage
   collection, crash and recovery; the abstract specification of durable rows,
   and the refinement.
3. **WalFile**, **FrameCache** and **SnapshotStore** (done): read marks, writers,
   checkpoints, restart, VACUUM, crash and recovery of the WAL; abstract
   specification: a sequence of committed images; and the refinement. The locks
   are proved for every instance; what readers and checkpoints find in the files,
   and the refinement, for every instance without crashes and racing checkpoints.
4. **PagerSavepoints** (done): the subjournal and the statements that drive it; its
   safety properties are proved.
5. **Savepoints** of MVCC transactions, row-id allocator, LISTEN/NOTIFY.
6. **Shared-memory WAL coordination** and the sync engine.

## 3. MvStore

### State and actions

`MvStore.tla` keeps the fields of `MvStore` and `Transaction` under their own
names. `versions[r]` is the chain of a row or of an index key; a row's contents
are the statement that wrote them, `<<transaction, number>>`. `pc[t]` is where
the thread of a transaction is: it cuts `CommitState::step` and `rollback_tx`
wherever another thread can see the difference; `todo[t]` are the rows a loop over
the write set has still to visit. `dependents` and `informed` are the local
variables of the two notify loops. `wrote` and `reads` are history: the last
write to a row, and every read with the value it returned.

| Action(s) | Code |
|---|---|
| `begin_tx`, `begin_exclusive_tx`, `upgrade_to_exclusive`, `acquire_exclusive_tx`, `acquire_pager_commit_lock` | `begin_tx`, `begin_exclusive_tx` cut at its two locks |
| `read_visible`, `read_btree`, `update`, `insert`, `delete`, `insert_tombstone`, `write_conflict`, `with_header_mut` | statements through the cursor: chain first, then the B-tree row if no version invalidates it |
| `commit_initial`, `commit_check_exclusive`, `commit_validate*` | `Initial`, `Commit` |
| `wait_for_dependencies`, `wait_recheck_abort_now`, `commit_read_only`, `build_committed_log_record` | `WaitForDependencies` and the read-only path |
| `begin_commit_logical_log`, `sync_logical_log`, `commit_end` ... `commit_release_exclusive` | the log states and the ordered steps of `CommitEnd` |
| `abandon`, `rollback_tx`, `rollback_*` | `ROLLBACK`, errors, dropped commits; `rollback_tx` step by step |

A statement on one row is one step, because an Active transaction's versions are
invisible to others and the chain is read under its lock. One gap inside a
statement matters and is kept: a transaction found Preparing may enter
`rollback_tx` before the reader registers; `register_commit_dependency` lets any reader
find it Aborted while its `pc` is `rollback`. An index key is a row whose
`ConflictSet` holds every key with the same columns.

Left out: savepoints (hence the branch of `WaitForDependencies` for an empty log
record), checkpoint and GC (section 4; here a behaviour lies between two
stop-the-world checkpoints; `blocking_checkpoint_lock` is therefore free), the row-id
allocator, row contents, logging and metrics.

### Runs

| Run | Instance | Shows |
|---|---|---|
| `two_rows` | 2 CONCURRENT transactions, 2 statements each, 2 rows, one of them in the database file, 1 abandoned | all safety properties below |
| `three_txns` | 3 transactions, 1 statement, 2 keys of a unique index with equal columns | chains of dependents, three-way validation, `UniqueIndexHolds` |
| `exclusive` | one BEGIN transaction (schema and header writer) against a CONCURRENT one | snapshot and validation across the two modes; fires every step of an exclusive transaction |
| `liveness` | 2 transactions, 2 statements, 1 abandoned, weak fairness | `CommitsEnd` |

* `SnapshotReads`: each value a committed transaction read is its own last write
  or what the latest committer before its begin left.
* `FirstCommitterWins`: two committed writers of one row did not overlap.
* `UniqueIndexHolds`: no two equal keys exist at one timestamp.
* `CounterExact`, `DependentsDrained`: the register-and-report protocol.
* `NoDanglingTxID`, `CommittedVersionsStay`: the chains under row-by-row rewrite
  and undo; a committed creation (row and begin timestamp) and a committed deletion
  (both timestamps) stay in the chain.
* `LogWriterAlone`, `OwnedFramesAreCommitted`, `LogOrdersWriters`: the log with
  abandoned commits. The first two, and `CounterExact`, are listed for one run
  only; all of these are proved for every instance.
* `CommitsEnd`: a Preparing transaction ends.

*Bounds.* Two transactions are enough for every pairwise race (validation,
speculation, lock, undo), three for chains of dependencies and for two
dependents of one transaction. Two statements let a transaction read, then
write, or write twice; two rows let the row-by-row loops be caught half way. The
clock, chains and log are bounded by the number of transactions and statements.
`MaxAbandoned` bounds only rollbacks by the user's will; those forced by a
conflict or a dependency are not bounded. Transactions of one kind are symmetric.

*Fairness.* Weak fairness of the steps of a started commit or rollback and of a
started `begin_exclusive_tx`: the statement's caller keeps stepping it or drops
it (then `rollback_tx` runs in the same call). Statements, begin and commit
requests are the user's and have none. The liveness run has no exclusive
transaction, for the reason the first finding gives.

### What the code does that its comments exclude

| Run or configuration | Property | In short |
|---|---|---|
| `deadlock` | `WaitGraphAcyclic` | exclusive transaction and Preparing commit wait for each other |
| `MvStoreLogImage.cfg` | `LogHoldsCommittedImage` | a row updated by a dependent is logged as deleted by its creator |

`deadlock` is a run of `PROJECT.json`, with a finding that quotes the sentence of
the repository it contradicts. The configurations named here and below that are not
runs are kept beside them: TLC finds the violation of the property in seconds
(`tlc -config MvStoreLogImage.cfg MCMvStore`). Section 7 lists what else there is.

### Proofs

`MvStoreProofs.tla` proves, for every finite set of transactions, every set of
rows and every value of the other constants (assumption `MvStoreAssumption`):

* `StoreTypeCorrect`: type correctness of all variables but the log's contents (those
  follow below: `TypesAreCorrect`);
* `CounterIsExact`: `Spec => []CounterExact`;
* `LogWriterIsAlone`: `Spec => []LogWriterAlone`;
* `LogHoldsTheCommitted`: `Spec => []OwnedFramesAreCommitted`.

`CounterExact` is not inductive. `DependencyInv` adds the types (a counter could
otherwise leave `Nat`), `PcMatchesState` (a transaction that can be registered
with is Preparing and in `txs`), `NotifyingOnly` (drained dependents exist only
in the notify loops, when the set gets no new members, so no debt is counted
twice) and `UnbornOwedNothing`. Every action is then one of: it registers
(`RegisterExact`), pays a debt (`PayExact`), moves the set into the loop
(`TakeExact`), ends a transaction, or touches no debt (`Quiet`).
`CommitLogInv` adds `LockInv` (lock and flags agree; an exclusive transaction
that may still commit holds the lock, which is why `BeginCommitLogicalLog` need
not take it) and `LogInv` (owned frames are the committed writers, an unowned
frame belongs to the lock's holder).

`MvChainProofs.tla` proves of the version chains, under the same assumption:

* `ChainsResolve`: `Spec => []NoDanglingTxID`;
* `DependentsAreDrained`: `Spec => []DependentsDrained`;
* `CommittedVersionsAreKept`: `Spec => CommittedVersionsStay`.

None of the three is inductive, and they need each other. `ChainInv` adds to
`CommitLogInv`:

* `Tagged`: whoever has its TxID in the chain of a row is in `txs`, has the row in
  its write set and, once it rewrites or undoes row by row, has the row still to
  visit (`NoDanglingTxID` follows);
* `WritersOwe`: only writers that have not taken their `commit_dep_set` have anybody
  in it; a dependency is registered on a transaction whose TxID was met in a chain,
  so this needs `Tagged` (`DependentsDrained` follows);
* `Settled`: behind `WaitForDependencies` nobody owes the commit a report and its
  `abort_now` is not set; entering it is where `CounterExact` is used;
* `RewriterAlone`: a commit that stamps its versions or notifies holds the pager
  commit lock;
* `EndedSpeculatively`: who ends a version whose creator has not stamped it yet is
  a dependent of the creator, was told to abort, or the creator is stamping;
* `StampedInOrder`: an end is a timestamp only if the begin is no TxID any more.

The last is what the dependency protocol is for. A commit that stamps an end is
`Settled` and alone, so none of the three alternatives of `EndedSpeculatively`
remains: the creator has stamped the begin before. Hence a version with an end
timestamp holds nobody's TxID, and neither a rewrite nor an undo changes it. That a
begin timestamp stays is easier: a later deleter changes only the end
(`CreationsKept`), and its rollback clears the begin only of what it created. The
steps fall into three kinds: the chains stay (`MayTagKept`, `SpeculationKept`), a
statement writes (`WrittenChain`: `insert_version_raw` and `set_end`, element by
element), a commit or rollback visits a row (`VisitedChain`).

Three more theorems rest on `ChainInv`:

* `TypesAreCorrect`: `Spec => []TypeOK`, log records and frames included;
* `TheFirstCommitterWins`: `Spec => []FirstCommitterWins`;
* `LogIsInWriteOrder`: `Spec => []LogOrdersWriters`.

The first needs to know what `build_committed_log_record` folds together. A fold over a
sequence is unfolded one element at a time (`CollectSteps`, `RecordsTyped`); that the
result of every prefix is typed follows from the fact that no prefix can be the
first that is not (`Extrema`), which takes the place of an induction.

`FirstCommitterWins` speaks of pairs of transactions, the code of one version at a time.
`CommitterInv` connects them:

* `WritesRegistered`, `ClockInv`: a write set is what was written; timestamps given out
  are distinct and below the clock;
* `Marks`: a transaction that may still commit has left its TxID, or its end timestamp,
  in a version of each row it wrote;
* `OrderedStamps`: along a version's life, begin and end belong to transactions in the
  order of their timestamps;
* `Seal`: who has validated a row (`Validated`) has met the mark of everybody with an
  earlier end timestamp that wrote the row, or a key that conflicts with it; such a
  writer ended before the other began, or it is `Doomed` (Preparing, and told to abort
  or about to be) and never gets past `WaitForDependencies`.

`LogIsInWriteOrder` adds `Waiting`: if the later of two writers of a row has validated
while the earlier is Preparing, the earlier is doomed or the later awaits its report
(`Awaits`). `Settled` then says that the later writer reaches the log only when the
earlier one has its frame there (`LogInOrder`), and a frame's rows are in the write set
of its owner (`ChainIds`, `RecordIds`, `FrameIds`).

Two theorems say that the store is what its users take it for:

* `ReadsAreSnapshotReads`: `Spec => []SnapshotReads`;
* `TheUniqueIndexHolds`: `Spec => []UniqueIndexHolds`.

`SnapshotReads` speaks of transactions that have committed, but a read happens long
before, on chains in which Preparing transactions have left their TxIDs and of which
nobody knows who will commit. So `SnapshotInv` judges chains and reads against every
set of transactions that could still all commit (`MayCommit(C)`: it holds the committed
ones and none that rolls back, everybody a member still waits for is a member, and two
members that wrote one row did not overlap). Steps only make fewer sets possible
(`MayCommitBefore`): a dependency registered, a rollback, a failed validation each
remove some.

* `ChainsFollow`: in the chain of a row, what a member of C left last is in exactly one
  version it created and did not end, and whoever of C wrote the row later has ended
  that version, or somebody of C between the two has (`Follows`).
* `ReadsRight`: a read is the reader's own last write, or what the last member of C
  before its begin left, or the row of the database file (`ReadIs`). The dependencies a
  lookup registers are what makes this true: a version that the reader sees, or that
  hides another from it, comes from a committed transaction or from one it now waits
  for, which is in every C the reader is in (`VersionIsRight`, `AbsenceIsRight`). Later
  steps do not change what the snapshot has (`SnapshotKept`).

The committed transactions are such a set (`CommittedMayCommit`, from `Seal`), and for
that set `ReadIs` is `SnapshotReads`.

`UniqueIndexHolds` adds `KeysFree`: who wrote a key and not the conflicting one had the
first in its snapshot or lacked the second; who left both had both. Take the least
timestamp at which two conflicting keys exist together, and the last writer of either
before it. `Seal`, for conflicting keys, says that the other key was as it is now when
that writer began; with `KeysFree` both keys existed at that earlier timestamp. The
assumption this needs (`UniqueKeysAssumption`) is that to share the indexed columns is
mutual and that the database file does not start out with two such keys.

Only model-checked: `CommitsEnd` (liveness).

## 4. MvCheckpoint and DurableRows

### What is modelled

A commit is durable once its frame is in the logical log. A checkpoint takes
`blocking_checkpoint_lock` for writing, writes the committed versions and the
new replay boundary to B-tree pages in one pager transaction (so: to the WAL),
backfills the WAL into the database file, syncs it, truncates the log, then the
WAL, and drops the versions it no longer needs. A bootstrap completes what a
crash interrupted and replays the frames past the boundary. `MvCheckpoint.tla`
has all of it, with failures of every step and crashes between any two.

*Grain.* Every transaction holds the lock for reading from `begin_tx` to
`remove_tx`, so a checkpoint never sees a chain with a TxID in it. What
transactions do to each other is MvStore's matter; here one is four steps:
`run_tx` (begin, statements, timestamp), `log_tx` (frame at the owned offset),
`commit_end` (sync, offset, chains) and `publish` (watermark, `remove_tx`);
`rollback_tx` may come before the frame or after it.

*Files.* `log`, `wal` and `db` are what the process reads back, `log_synced`,
`wal_synced` and `db_synced` what the last fsync made certain. A crash keeps
either content of log and WAL, perhaps with a torn last frame, and for every page
of the database file its old or its new content. The CRC chain is a bit of each
frame, `valid`: whether `running_crc` continued the bytes before it. A page holds
one row: rows on different pages can be separated by a partial backfill or a
crash, which is the harder case. Writing the log header is atomic (56 bytes at
offset 0, in one sector).

| Action(s) | Code |
|---|---|
| `run_tx`, `log_tx`, `commit_end`, `publish`, `rollback_tx` | `begin_tx` ... `CommitEnd`, `remove_tx`; `rollback_tx` |
| `new` | `CheckpointStateMachine::new`: reads the old boundary, without the lock |
| `acquire_lock`, `acquire_busy` | `AcquireLock`, with `collect` as the two collect functions and the metadata row |
| `write_rows`, `delete_not_found` | `BeginPagerTxn` and the row states; a delete that finds no row is Corrupt |
| `prepare_wal_start`, `prepare_wal_finish`, `commit_pager_txn` | `CommitPagerTxn`, through the pager's commit |
| `checkpoint_wal`, `sync_db_file`, `truncate_logical_log`, `fsync_logical_log`, `truncate_wal`, `sync_wal` | the states of the same names |
| `finalize` | `Finalize`, with both garbage collections |
| `io_error` | the error path of `step`, with what each state leaves half done |
| `crash` | the environment |
| `nothing_to_complete`, `reject`, `backfill_wal`, `sync_backfilled`, `update_header`, `truncate_completed_wal` | `maybe_complete_interrupted_checkpoint`, cut at its file operations |
| `recover` | `maybe_recover_logical_log` |
| `reopen` | the user opening a database again that was refused |

Left out: the steps of the first bootstrap of a database (`Init` is what it leaves),
`sqlite_schema` rows with the B-trees they create and destroy, index
rows (their replay always leaves a tombstone), the database header, in-memory and
read-only databases, encryption, `SyncMode` other than Full. The locks and
readers of the WAL do not matter under the blocking lock. `gc_version_chain` runs
only under that lock, so `lwm` is always `u64::MAX`; its rules for older snapshots
are written down but not exercised.

### The abstract specification

`DurableRows.tla` says what a user of the store may rely on: `contents` changes
only by `Settle`, when the writes of one transaction take effect, all at once.
Between `log_tx` and the end of the commit its writes are `unsettled`: a crash may
find them or lose them. Under the refinement mapping `contents` is, while the
store is up, what a new transaction would read (chains over pages), and before
that what a bootstrap would make of the files; `ImplementsDurableRows` is the
abstract `Spec` as a property. Every step of a checkpoint, each failure of it,
garbage collection, a crash and each step of the bootstrap has to be a stutter of
it or settle the one interrupted commit.

### Runs

| Run | Instance | Shows |
|---|---|---|
| `ckpt_failures` | 2 rows, 3 commits, 1 checkpointer, any 2 steps fail | retries of half-done checkpoints |
| `ckpt_crashes` | 2 rows, 3 commits, 1 checkpointer, 2 crashes, 1 failure before a commit | crash at every step, of the bootstrap too |
| `ckpt_contention` | 2 rows, 3 commits by 2 connections, 2 checkpointers | the lock against transactions and other checkpoints |

`CkptLogReplay.cfg` (no checkpointer, 2 failures, 2 crashes) is a further passing
instance: commits that fail after they wrote their frame, then crashes.

* `ImplementsDurableRows`: as above.
* `PagerCaughtUp`: once the pager transaction is committed, the pages alone say
  what chains and pages said together, so log and chains may go.
* `DeletesFindTheirRow`: no checkpoint stops at a delete of a row that is not
  there; it would stop every later one too.
* `CollectedStaysCurrent`: what was collected under the lock stays what would be
  collected.
* `BoundaryAgrees`, `BoundaryAdvances`, `ClockAhead`: boundary in memory and in
  the files, and the clock (past the files and past the versions), across failures
  and restarts.

*Bounds.* Three commits let a row be inserted, updated and deleted, or deleted
and inserted again, across checkpoints; two rows, one of them in the database
file at the start, let a partial backfill separate them. Two crashes put one into
the bootstrap after another; two failures a failing retry. Checkpoints are not
bounded. `ckpt_crashes` allows failures only up to the pager commit: section 7 starts
where it ends.

### What the code does that its comments exclude

| Configuration | Property | In short |
|---|---|---|
| `CkptRejected.cfg` | `BootstrapSucceeds` | a crash between log fsync and WAL truncation leaves files that no bootstrap accepts |
| `CkptWatermark.cfg` | `DeletesFindTheirRow` | the watermark that moved back becomes the boundary; the next checkpoint is Corrupt |

### Proofs

`MvCheckpointProofs.tla` proves `CheckpointIsIsolated`, for any sets of rows,
connections and checkpointers and any number of failures and crashes: a
checkpoint in one of its phases is the only holder of the lock, and
`CollectedStaysCurrent` holds. The inductive invariant `LockInv` adds that the
records keep their fields (`Shapes`) and that nobody runs before the bootstrap is
over (`NobodyBeforeBoot`); every action is then a transaction's step
(`TransactionStep`), a checkpoint going on (`GoesOn`) or ending (`Ends`), a crash,
or a step of the bootstrap.

The replay boundary is the subject of three more theorems:

* `BoundariesAgree`: `Spec => []BoundaryAgrees`;
* `ClockIsAhead`: `Spec => []ClockAhead`, of the files and of the versions in memory;
* `BoundaryNeverGoesBack`: `Spec => BoundaryAdvances`, if `"SyncDbFile" \notin FailAt`.

The first two hold for any constants, so with several checkpointers too, although
`new` reads the old boundary before it has the lock. Their inductive invariant is
`BoundInv`, on top of `LockInv`. It says of a checkpoint that waits for the lock that
its old boundary is the one in force, or the watermark has reached the one in force
(`BoundaryOf`): what another checkpoint committed in between was published before,
and every transaction open since then has a later timestamp (`ClockPast`). So the
boundary a checkpoint takes under the lock is never below the one in force, a
checkpoint that does not write the metadata page keeps that one, and one that has
committed has the one in force. The rest is what a step of the log writer, the WAL
and the bootstrap need of each other: the owned frames are in the file and the frame
of an open commit lies just behind (`LogWriter`), after the backfill the WAL is not
read (`BoundaryOf`), and a bootstrap has the boundary in the database file before it
empties the WAL (`BootFiles`).

`BoundaryAdvances` is about crashes, and needs what the disk holds: `FilesInv`. Both
images of the WAL, the one read and the one on the disk, hold no older boundary than
the one in force (`WalAhead`); where the WAL is read, both hold it (`WalHolds`); and as
long as the page of the boundary is not synced, both still hold it and either the WAL
is read or the next step is the sync (`Unsynced`). The hypothesis is necessary: when
that sync fails, the checkpoint tried next has nothing to backfill, skips the sync and
empties the WAL, and a crash brings the old boundary back (section 7); TLC finds that
behaviour when `SyncDbFile` is in `FailAt` and crashes are allowed.

`BoundInv` and `FilesInv` were checked by TLC with two checkpointers, failures and
crashes before they were proved. `Extrema.tla` has the lemmas they need about `Min`
and `Max` of a set of numbers.

`CheckpointTypes` proves `Spec => []TypeOK`, and with it the half of `ClockAhead` about
versions: the chains are typed by the clock (every timestamp in a chain is below it).
Replay is where this is hard. A bootstrap folds over the frames of the log, over the
rows of a frame and over the chain of a row, and the clock is set from the same
frames only afterwards; the bound therefore goes through the folds as a parameter
(`FoldExists`, `FoldTyped` of `Extrema`), and garbage collection, which keeps some
versions of a chain in their order (`retain`), is typed by `Ranks`.

Only model-checked: `PagerCaughtUp` and `DeletesFindTheirRow`, which are false for some
values of the constants (`CkptWatermark.cfg`: two committing connections), and the
refinement of `DurableRows`, which is false with the failures of section 7.

## 5. WalFile and SnapshotStore

### What is modelled

Every connection owns a `WalFile` with its local snapshot; all share
`WalFileShared`: `shared` (the metadata), `frame_cache` (page to frames, with the
operators of `FrameCache.tla`), `slot` (the read marks with their lock words) and
`lock` (write, checkpoint and vacuum lock). `pc[c]` is where a connection is; the
code is cut wherever another thread can run between two loads, locks or I/Os. A
page's content is the number of the transaction that wrote it. `wal` and `db` are
the files as the process reads them, `wal_disk` and `db_disk` what a crash may
leave. `history`, `durable`, `doubt` and `view` observe: committed images, how many
of them must survive, an image written but not published, and the image a reader
began at.

| Action(s) | Code |
|---|---|
| `BeginRead`, `ChooseMark`, `LockMark`, `RetryRead`, `EndRead` | `try_begin_read_tx`: vacuum lock and copy of the metadata, choice of a slot, its lock with the comparison after it |
| `ReadPage` | `read_page`, with the frame and epoch tag of the cached page |
| `BeginWriteTx`, `TryRestartLog`, `Modify`, `SpillPage` | `begin_write_tx`, `try_restart_log_before_write`, `add_dirty`, `append_frames_vectored` |
| `PrepareWal`, `PrepareWalSync`, `WriteFrames`, `SyncWal`, `WalCommitDone`, `EndCommit` | the states of `commit_dirty_pages_inner`, then `commit_tx` |
| `Rollback`, `CommitFails` | `rollback_tx`; a failed write or fsync, aborted the same way |
| `Checkpoint`, `SkipAutoCheckpoint`, `AcquireGuard`, `CheckpointBusy`, `ScanMark`, `ListFrames`, `Backfill`, `DetermineResult`, `FinalizeWal` | `WalFile::checkpoint_inner`: metadata read before the guard, marks scanned one at a time, pages copied in any order |
| `SyncDbFile`, `PublishBackfill`, `TruncateWal`, `SyncTruncatedWal`, `FinishCheckpoint`, `CheckpointFails` | the phases of `Pager::checkpoint_inner` and `cleanup_after_checkpoint_failure` |
| `BeginVacuum`, `BeginVacuumTx`, `VacuumBusy`, `EndVacuumCommit` | the locks of in-place VACUUM, its commit and its Truncate checkpoint |
| `Crash` | the environment, then `build_shared_wal` and the recovery scan |

Simplifications: the module's head lists them (checksums, growth of the database,
eviction). Also left out: `wal_insert_frame` and `changed_pages_after` of the sync
engine, the upper bounds of Passive and Truncate checkpoints it uses, and
`cacheflush`.

`SnapshotStore.tla` is what the layers above rely on: a sequence of committed
images; a reader has one image from begin to end; a commit appends one image; a
crash keeps all that were durable, and a prefix or the one in doubt of the rest.
Under the mapping the last committed image is what frame cache, log and database
file give a new reader, and a reader's image is what its lookups find; so each
checkpoint step, restart, spill, failure and recovery has to be a stutter
(`ImplementsSnapshotStore`).

### Runs

| Run | Instance | Shows |
|---|---|---|
| `wal_snapshots` | 2 connections that write, 2 pages, 2 marks, spills, page cache, automatic and Full checkpoints, one failing database fsync | readers, restart and checkpoints against each other |
| `wal_crashes` | a writer with all four modes and VACUUM, a reader, 1 failure, 1 crash | crash and failure at every step; the refinement |

* `ReadersSeeTheirSnapshot`: any page read now, from cache, log or file, is the one of
  the commit the transaction began at (its own pages: as it wrote them).
* `CurrentIsLastCommit`: what a new reader would be given is the last commit.
* `LockWordsMatchHolders`: reader counts and writer bits are the sum of what
  connections hold.
* `CachedTagsAreTrue`: a page that a checkpoint would copy from the cache instead of
  a frame is that frame.
* `HeldMarksStay`: no mark moves under a reader.
* `VacuumAlone`: nobody reads, writes or checkpoints beside VACUUM's transaction.

*Bounds.* Two transactions on two pages: one commit the reader began at and one
that came after it; the second page tears an image. Two marks let two readers hold
different frames. Three frames hold a spilled frame and a two-page commit. One
checkpoint of a kind beside the automatic ones; a failure and a crash each once.
The code has four marks besides slot 0 and treats all but the first alike.
Restart and Truncate checkpoints are run by the only writer, a partial checkpoint by
the only checkpointer: the next table says why.

*Deadlock* is checked: every connection can always end what it is doing. There is
no fairness, and no liveness property: every lock is tried and a busy one is
reported to the caller.

### What the code does that its comments exclude

| Configuration | Property | In short |
|---|---|---|
| `WalNormal.cfg` | `CurrentIsLastCommit` | with `synchronous=NORMAL` a checkpoint copies frames that were never synced, though `wal.rs:4405` says "fsync WAL if there are unapplied frames" and `pager.rs:3818` that NORMAL "still fsyncs on checkpoint"; a crash in the middle leaves half of a transaction |
| `WalRespill.cfg` | `FrameCacheTrue` | `prepare_frames` writes over the frames the transaction has spilled (`wal.rs:3996`); after a second spill of a page a stale entry of the frame cache names a frame of another page (`wal.rs:2622`: "Frame cache maps a Page to all the frames it has stored in WAL") |
| `WalPublishRace.cfg` | `BackfillsWithinLog` | a partial Passive checkpoint stores `nbackfills` after its guard is gone (`pager.rs:4328`), over a log restarted in between; `wal.rs:4756` asserts "backfills can't be more than max_frame" |

### Proofs

`WalFileProofs.tla` proves, for any connections, pages, marks and modes and any
number of frames, checkpoints, failures and crashes (the assumptions of `WalFile`):

* `LocksAreAccountedFor`: `Spec => []LockWordsMatchHolders`;
* `VacuumRunsAlone`: `Spec => []VacuumAlone`;
* `ReadMarksAreStable`: `Spec => HeldMarksStay`.

The inductive invariant is `LockInv`, which TLC checked on both instances before it
was proved: the types of locks and connections (`LockTypes`); what a connection
holds is determined by its place in the code and its local state (`HeldByPc`); the
lock word of every slot counts the readers there, and a writer bit belongs to who
is at a place that holds it (`ReadMarkWords`); the same for the write, checkpoint and
vacuum locks (`LockWords`). `LockWordsMatchHolders` alone is not inductive: it does
not say that the connection about to release a lock is one of those counted. Every
action then takes a lock, gives one back, or leaves holders and words alone; the
counting is in a few lemmas about the set of holders with one connection more or
less. `HeldMarksStay` follows because a step that stores to a mark
finds its lock word free or holds its writer bit, and `ReadMarkWords` says that
nobody reads there.

`WalLogProofs.tla` proves what readers, writers and checkpoints find in the files, for
any connections, pages and marks and any number of frames, transactions, checkpoints
and failures,

* `ReadersAreIsolated`: `Spec => []ReadersSeeTheirSnapshot`;
* `NoCommitIsLost`: `Spec => []CurrentIsLastCommit`;
* `TagsNameTheirContent`: `Spec => []CachedTagsAreTrue`;
* `LookupsFindTheirPage`: `Spec => [](FrameCacheTrue /\ BackfillsWithinLog)`;
* `TheLogIsASnapshotStore`: `Spec => ImplementsSnapshotStore`;

under three hypotheses, which `wal_snapshots` satisfies:

* `~Respill` and `OneCheckpointer`: the table above shows what happens without them
  (a page spilled twice, two checkpointers), section 7 what a Restart or Truncate
  checkpoint of a connection that is not the only writer meets between its load of
  the metadata and its guard. `OneCheckpointer` leaves one connection that
  checkpoints or vacuums beside any number that write and read, and asks that it be
  the only writer if its modes restart the log; the automatic restart by any writer
  (`TryRestartLog`) is always included.
* `MaxCrashes = 0`: recovery is the subject of `wal_crashes` only.

The inductive invariant is `LockInv /\ WalInv`; TLC checked it on both instances and
on two mixed ones before it was proved. `WalInv` speaks of the image the present log
was *started on* (`base`, existentially quantified: no variable holds it once a
checkpoint has begun to write over it). A frame is a *boundary* if lookups bounded by
it find frames of the right page. Then:

* `LogInv`: the published frames over `base` are the last commit, and the database
  file has every page whose last frame is backfilled (`FileServes`);
* `ReadInv`: the frames up to a reader's last one, over `base`, are the image it began
  at, and the file has every page whose last such frame the reader passes over;
* `SpillInv`, `WriteInv`: frames behind the published ones belong to pages the one
  writer has spilled; when it comes to publish, they are its pages in rank order;
* `CkptInv`: what a checkpoint has listed is still to be copied or copied (`Copied`),
  up to a frame that no reader is behind: of the readers whose mark has been scanned
  at once, of the others because a mark that is held does not move;
* `PickInv`: a reader between choice and lock of its mark either finds the log
  restarted (`seq`) or has a boundary of this one;
* `CacheInv`: a clean page's tag names its frame, and the cache has the pages of the
  reader's image, or of the last commit if its snapshot says that it is not stale.

`base` stays until the log is restarted; then everything is backfilled, nobody reads
from the log, and the last commit, which the file holds, is the next `base`. The
theorems the runs check follow: `CurrentIsLastCommit` is not inductive, because
a checkpoint that writes over the file says nothing about which of the overwritten
pages are still in the log for whom.

The refinement needs one more invariant, `StoreInv` (checked by TLC on the two mixed
instances first): a writer whose frames are in the
file still sees, in the pages it did not write, the image it began at, and what is in
doubt between the write of its frames and their publication is the image it will
publish. The first half is `ReadersSeeTheirSnapshot` carried past the point where that
property ends: the write lock keeps others from publishing, and of the database file a
checkpoint writes only pages that have a frame the writer finds first (`Undisturbed`).
With it the mapped variables are `history` and, per reader, the image of `history` it
began at (`Mapped`); `StepMaps` then goes through the actions: choosing a mark, the
steps of a checkpoint, a restart of the log and the start and end of VACUUM stutter,
`LockMark` is `Begin`, `WriteFrames` is `Write`, a spill `Forget`, `WalCommitDone`
`Commit`, and the ways to end are `End` or `Abort`.

Only model-checked: recovery (the `Crash` steps of the refinement, and the properties
after them); and the bounds in `TypeOK` (with `Respill` it is false: a checkpoint may
copy the frame of another page).

## 6. PagerSavepoints

### What is modelled

One connection runs statements in autocommit mode or in a transaction, inside named
savepoints; its page cache spills and evicts under it, other connections commit. A
page's content is a number, the header's is the size of the database. `savepoints`
is the stack with the offsets of each savepoint in `subjournal`, its bitmap of pages
already saved, the size of the database and the last frame when it was opened.
`image` is what the transaction must see and `marks` what it was at each savepoint.

| Action(s) | Code |
|---|---|
| `Begin`, `BeginRead`, `BeginAutoCommit`, `BeginStatement` | `op_auto_commit`, `op_transaction`, `begin_statement` |
| `ReadPage`, `WritePage`, `AllocatePage`, `SpillPage`, `EvictPage`, `CountViolations` | `read_page`, `add_dirty` with `subjournal_page_if_required`, `allocate_page`, `try_spill_dirty_pages`, `evict_one`, `op_fk_counter` |
| `ReleaseStatement`, `AutoCommit`, `AbortStatement`, `AbortTransaction`, `FailRead` | `halt`, `end_statement` and `abort`, for each conflict clause and kind of error |
| `Commit`, `Rollback`, `Savepoint`, `ReleaseNamed`, `RollbackToNamed` | `op_auto_commit`, `op_savepoint`, `rollback_to_snapshot` |
| `OtherCommit` | the frames another connection publishes |

Left out: pages taken from the free list, attached databases, triggers, statements
that need no statement savepoint, two statements of one connection at a time.

### Run

`savepoints`: 3 pages (2 in the beginning), two named savepoints of one name, 2
changes, 3 frames, 2 spills or evictions.

* `SeesItsImage`: whatever was spilled, evicted, released and taken back, a page
  read is the one the transaction wrote last and did not take back; the counter of
  deferred violations goes with it.
* `CommittedIsShared`: the others find the last commit.
* `SavepointsNest`: the savepoints partition the subjournal; a statement savepoint
  exists exactly while a statement owns it.
* `DirtyPagesExist`: no page dropped by a rollback is written by the commit.

*Bounds.* Two savepoints of one name make `rposition` matter and give each a parent
or a child; a third level is the statement's. Two changes hit the same page before
and after a savepoint, or two pages. The two switches `EvictRestored` and
`StaleSavepoints` are off here and turned on, one each, by what follows.

### What the code does that its comments exclude

| Run or configuration | Property | In short |
|---|---|---|
| `sp_evict` | `SeesItsImage` | a page put back by a rollback is clean in the cache and in no file; when it is evicted, an earlier write of the same transaction is lost |
| `SavepointPops.cfg` | `FrameCacheComplete` | SAVEPOINT, a commit by another connection, ROLLBACK TO: the committed frames leave the shared frame cache, the case `pager.rs:2807` warns of |

### Proofs

`FrameCacheProofs.tla` holds the lemmas about the frame cache both components use
(the counting they need, `Ranks`, is in `Extrema.tla`): what `LatestFrame` finds after `Cached` and `RolledBack`, and that a rollback to a
frame changes no lookup up to it. `PagerSavepointsProofs.tla` proves, for every value
of the constants, the two switches included,

* `SavepointsAlwaysNest`: `Spec => []SavepointsNest`.

`NestInv` strengthens it: every savepoint ends before *any* later one starts (not
only the next: `RollbackToNamed` and `ReleaseNamed` remove several), the first starts
at 0, and a statement savepoint exists exactly while a statement runs in an explicit
transaction.

The second half of the module proves, for every size of the database, every nesting of
savepoints and every bound, under the hypothesis `Strict` (both switches are off),

* `TransactionsSeeTheirImage`: `Spec => []SeesItsImage`;
* `CommitsAreShared`: `Spec => []CommittedIsShared`;
* `CommitsWriteExistingPages`: `Spec => []DirtyPagesExist`;
* `PagerTypes`: `Spec => []TypeOK`.

`Strict` is needed: with either switch on, the table above shows the violation.

The argument. The savepoints and, above them, the present state are *levels*; at each
the transaction saw an image, the subjournal ended at an offset (`Pos`) and the log
at a frame (`Wal`). `LevelInv` says for any two levels `a < b` and each page that
existed at `a` (`Between`): either the page is in the subjournal between the two
offsets, and its *first* entry there is its content at `a`; or it is not, and image and
files say the same at both. This is what `rollback_to_snapshot` relies on when it puts
back first entries and leaves all other pages alone. It has to be stated for all pairs:
a release merges two levels, a rollback removes many, and neither could be
reasoned about from neighbours. The other parts of `ImageInv`:
`LogInv` (frames past the last published one belong to the writer and to its dirty
pages, so a rollback of the frame cache loses no commit), `CacheInv` (a cached page is
dirty, or what the files hold), `DirtyInv` (everything journaled is still dirty, so
what a rollback puts back is written by the commit), `Flat` (outside a write
transaction all savepoints are at the last commit), `Bitmaps` (a page in a savepoint's
bitmap has an entry in its part of the subjournal), `Counter`, and sizes. TLC checked
each part on the instance of the run first. Per action there is one lemma
(`ImageWritePage`, `ImageSpillPage`, ...); they rest on three about levels: levels that
are some of the old ones (`LevelsMapped`: open, release, rollback), a change at the top
(`LevelsEdited`), and all levels equal (`LevelsFresh`).

## 7. What else the models show

Outside the bounds of the passing runs the models reach the following, each
checked with TLC on one row or two and left out of the list of runs, which keeps
to one run for each question:

* `last_committed_tx_ts` moves back: it is stored after the commit lock was
  released (`mod.rs:1921`). `CkptWatermark.cfg` shows what follows from it.
* `build_committed_log_record` copies versions whose begin is the TxID of another
  transaction; when that one has left `txs`, the next `insert_version_raw` into
  the record fails its `expect` (`mod.rs:4235`).
* `EndCommitLogicalLog` and `CommitEnd` install the header copy of every committer
  (`mod.rs:1853`, `1917`): a CONCURRENT writer that began before a header update
  takes it out again.
* A writer that passes the schema check of `Initial` (`mod.rs:1536`) before the
  schema transaction has stored its timestamp commits after it.
* The old boundary of a checkpoint is read before the lock is taken
  (`checkpoint_state_machine.rs:280`). If another checkpoint commits its pager
  transaction in between and fails later, the second one does not see that a row
  is in the database file by now, and drops its delete.
* `SyncDbFile` is skipped when nothing was backfilled
  (`checkpoint_state_machine.rs:1477`), also by the retry of a checkpoint whose
  fsync failed; log and WAL are then truncated over pages that were not synced.
* `LogicalLog::truncate` (`logical_log.rs:825`) replaces salt and `running_crc`
  before the file operation. If that fails, later frames do not chain and a
  bootstrap drops them.
* The logged `btree_resident` of a delete is the one of the version it ended. If a
  checkpoint has moved the row to the database file and failed after its pager
  commit, the delete is replayed as a tombstone of a row that is not there
  (`mod.rs:4948`), the next checkpoint drops it, and the row comes back. An
  abandoned frame that a crash settles leads to the same, which is why
  `ckpt_crashes` has no failures after `log_tx`.

In the WAL and the pager, read off the code while modelling:

* A Restart or Truncate checkpoint loads `nbackfills` before its guard
  (`wal.rs:4408`). If a writer restarts the log and commits in that window, the
  checkpoint lists frames from the old `nbackfills` on and restarts the log over
  frames it has not copied.
* Restart and Truncate checkpoints restart the log before the database file is
  synced; a failed fsync releases the guard with the log already restarted.
* With `synchronous=OFF` a Passive checkpoint never publishes `nbackfills`.
* `wal_insert_end` (`connection.rs:1636`) rolls back after `end_write_tx`, the order
  `pager.rs:2807` forbids.
* `op_savepoint` does not look for running write statements: the end of a statement
  that was open at `SAVEPOINT` finds a named savepoint on top and does nothing.
* The error of a read statement in a transaction that has not written ends the
  transaction and leaves its savepoints (`FailRead`); `execute.rs:3944` warns of
  what a later ROLLBACK TO does with them.
* FAIL in autocommit mode commits without looking at deferred violations and leaves
  their counter (`execute.rs:2957`); a generic error rolls the transaction back and
  leaves the counter of the statement's start.

## 8. Not modelled

* Byte formats, checksums and encryption; the B-tree and the free list: sequential
  code over pages, without interleaving.
* SQL compilation, functions, catalog, parsers, wire protocol: pure or sequential.
* Shared-memory coordination of several processes, the sync engine, LISTEN/NOTIFY:
  planned, see section 2.
* Liveness of the WAL (there is nothing to wait for), and proofs of liveness or of
  what a fold computes beyond its type: they stay with TLC.
