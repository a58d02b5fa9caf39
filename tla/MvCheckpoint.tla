---------------------------- MODULE MvCheckpoint ----------------------------
(***************************************************************************)
(* The life of committed versions: the logical log a commit is made        *)
(* durable in, the stop-the-world checkpoint that moves versions through   *)
(* the WAL into the database file, garbage collection, crashes, and the    *)
(* bootstrap that puts the store together again from the three files.      *)
(* (core/mvcc/database/checkpoint_state_machine.rs, the garbage collection *)
(* and recovery of core/mvcc/database/mod.rs, and the log writer of        *)
(* core/mvcc/persistent_storage/logical_log.rs.)                           *)
(*                                                                         *)
(* Grain.  Every transaction holds blocking_checkpoint_lock from begin_tx  *)
(* to remove_tx, so a checkpoint never sees a version that still carries a *)
(* TxID; MvStore models what happens among transactions, and here one is   *)
(* four steps: it writes and takes its timestamp, appends its frame, ends  *)
(* the commit, publishes.  The checkpoint and the bootstrap are cut after  *)
(* every change of a file and at every point where they may fail.          *)
(*                                                                         *)
(* Files.  A file is what the process reads back (log, wal, db) and what   *)
(* the disk is known to hold since the last fsync (log_synced, ...).       *)
(* SyncMode is Full: every fsync in the code is done.  A page holds one    *)
(* row: what two rows on different pages can suffer is kept.               *)
(*                                                                         *)
(* Left out: sqlite_schema rows and the B-trees they create and destroy,   *)
(* the database header, in-memory and read-only databases, encryption.     *)
(***************************************************************************)
EXTENDS Integers, Sequences, FiniteSets, SequencesExt

CONSTANTS
    Rows,
    Meta,            \* the page of __turso_internal_mvcc_meta
    Conns,           \* connections that write
    Nobody,          \* no connection
    Checkpointers,   \* connections that checkpoint
    BtreeRows,       \* the rows the database file holds at the start
    FailAt,          \* the steps that may fail
    MaxTs,           \* bound: the last commit timestamp
    MaxFailures,     \* bound: failed steps
    MaxCrashes       \* bound: crashes

(* The states of the checkpoint that hold blocking_checkpoint_lock, in      *)
(* their order, and the steps that may fail: those, and a transaction that  *)
(* is rolled back before ("active") or after ("logged") it wrote its frame. *)
Phases == {"BeginPagerTxn", "CommitPagerTxn", "CheckpointWal", "SyncDbFile",
           "TruncateLogicalLog", "FsyncLogicalLog", "TruncateWal", "SyncWal", "Finalize"}

ASSUME MvCheckpointAssumption ==
    /\ Meta \notin Rows
    /\ Nobody \notin Conns
    /\ BtreeRows \subseteq Rows
    /\ FailAt \subseteq (Phases \ {"Finalize"}) \cup {"active", "logged"}
    /\ MaxTs \in Nat /\ MaxFailures \in Nat /\ MaxCrashes \in Nat

VARIABLES
    boot,                  \* "up", or how far the bootstrap has come
    clock,                 \* the next timestamp
    tx,                    \* the transaction of every connection
    commit_lock,           \* pager_commit_lock
    versions,              \* the version chain of every row
    last_committed_tx_ts,
    durable_txid_max,
    ckpt,                  \* the checkpoint of every checkpointer
    log, log_synced,       \* the logical log: its header, its frames
    log_offset,            \* frames the writer owns
    log_chained,           \* whether running_crc continues the bytes before the offset
    wal, wal_synced,       \* pages of the committed frames of the WAL
    wal_restarted,         \* empty or all backfilled: the next commit starts the WAL again
    db, db_synced,         \* pages of the database file
    abandoned,             \* history: commits that failed after writing their frame
    failures, crashes

txVars == <<clock, tx, commit_lock, last_committed_tx_ts>>
logVars == <<log, log_synced, log_offset, log_chained>>
walVars == <<wal, wal_synced, wal_restarted>>
dbVars == <<db, db_synced>>
countVars == <<abandoned, failures, crashes>>
vars == <<boot, txVars, versions, durable_txid_max, ckpt, logVars, walVars, dbVars,
          countVars>>

-----------------------------------------------------------------------------
(* Values, versions, frames.  A row written by the commit at ts has the     *)
(* value ts.  None, in begin and end, is 0.                                 *)

Pages == Rows \cup {Meta}

Absent == -1
BtreeValue == 0
Value == -1 .. MaxTs

None == 0

RowVersion ==
    [begin : 0 .. MaxTs, end : 0 .. MaxTs, row : Value, btree_resident : BOOLEAN]

NoTx == [state |-> "idle", ts |-> 0, writes |-> [r \in Rows |-> "keep"]]

NoCheckpoint ==
    [state |-> "idle", old |-> 0, new |-> 0, writes |-> <<>>, backfilled |-> FALSE]

EmptyLog == [header |-> FALSE, frames |-> <<>>]

(* The page the pager reads: from the WAL unless it was restarted.          *)
Page(p) == IF p \in DOMAIN wal /\ ~wal_restarted THEN wal[p] ELSE db[p]

(* The pages of one file laid over those of another.                        *)
over(above, below) ==
    [p \in DOMAIN above \cup DOMAIN below |-> IF p \in DOMAIN above THEN above[p] ELSE below[p]]

-----------------------------------------------------------------------------
(* Reading: the versions a snapshot sees, and the row of the database file  *)
(* where no version hides it.                                               *)

is_visible_to(ts, rv) ==
    /\ rv.begin # None /\ ts > rv.begin
    /\ rv.end = None \/ ts < rv.end

is_btree_invalidating_version(ts, rv) ==
    is_visible_to(ts, rv) \/ (rv.end # None /\ ts > rv.end)

Hidden(ts, chain) == \E i \in DOMAIN chain : is_btree_invalidating_version(ts, chain[i])

Read(ts, chain, btree_row) ==
    LET seen == {i \in DOMAIN chain : is_visible_to(ts, chain[i])}
    IN  IF seen # {} THEN chain[Max(seen)].row
        ELSE IF Hidden(ts, chain) THEN Absent ELSE btree_row

Contents == [r \in Rows |-> Read(clock, versions[r], Page(r))]

-----------------------------------------------------------------------------
(* Version chains.                                                          *)

(* Vec::retain, Iterator::filter: the elements at the indices I, in order.  *)
retain(s, I) ==
    [n \in 1 .. Cardinality(I) |-> s[CHOOSE i \in I : Cardinality(I \cap 1 .. i) = n]]

insert_version_raw(chain, rv) ==
    LET before == {i \in DOMAIN chain : chain[i].begin <= rv.begin}
    IN  InsertAt(chain, (IF before = {} THEN 0 ELSE Max(before)) + 1, rv)

(* The chain of row r after a transaction wrote it at ts: it ends the       *)
(* version it sees; an upsert adds one, marked btree_resident if it takes   *)
(* the place of a row that only the database file holds; a delete of such   *)
(* a row leaves a tombstone.                                                *)
written(r, ts, write) ==
    LET chain == versions[r]
        current == {i \in DOMAIN chain : is_visible_to(ts, chain[i])}
        resident == ~Hidden(ts, chain) /\ Page(r) # Absent
        ended == IF current = {} THEN chain ELSE [chain EXCEPT ![Max(current)].end = ts]
    IN  CASE write = "keep" -> chain
          [] write = "upsert" ->
               insert_version_raw(ended, [begin |-> ts, end |-> None, row |-> ts,
                                          btree_resident |-> resident])
          [] write = "delete" /\ current # {} -> ended
          [] write = "delete" /\ current = {} ->
               insert_version_raw(chain, [begin |-> None, end |-> ts, row |-> Absent,
                                          btree_resident |-> TRUE])

touched(ts, rv) == rv.begin = ts \/ rv.end = ts

rollback_row_version(ts, rv) ==
    IF rv.begin = ts THEN [rv EXCEPT !.begin = None, !.end = None]
    ELSE IF rv.end = ts THEN [rv EXCEPT !.end = None] ELSE rv

(* Garbage collection of one chain.                                         *)
has_current(chain) == \E i \in DOMAIN chain : chain[i].end = None /\ chain[i].begin # None

superseded(chain, lwm, ckpt_max, rv) ==
    /\ rv.end # None /\ rv.end <= lwm
    /\ has_current(chain) \/ rv.end <= ckpt_max

gc_version_chain(chain, lwm, ckpt_max) ==
    LET live == retain(chain, {i \in DOMAIN chain : chain[i].begin # None \/ chain[i].end # None})
        kept == retain(live, {i \in DOMAIN live : ~superseded(live, lwm, ckpt_max, live[i])})
    IN  IF /\ Len(kept) = 1
           /\ kept[1].begin # None /\ kept[1].end = None
           /\ kept[1].begin <= ckpt_max /\ kept[1].begin < lwm
        THEN <<>> ELSE kept

-----------------------------------------------------------------------------
(* What the first bootstrap of a database leaves: a durable log header, the *)
(* metadata table with boundary 0, and everything backfilled.               *)
Init ==
    /\ boot = "up"
    /\ clock = 1
    /\ tx = [c \in Conns |-> NoTx]
    /\ commit_lock = Nobody
    /\ versions = [r \in Rows |-> <<>>]
    /\ last_committed_tx_ts = 0
    /\ durable_txid_max = 0
    /\ ckpt = [k \in Checkpointers |-> NoCheckpoint]
    /\ log = [header |-> TRUE, frames |-> <<>>] /\ log_synced = log
    /\ log_offset = 0
    /\ log_chained = TRUE
    /\ wal = <<>> /\ wal_synced = wal
    /\ wal_restarted = TRUE
    /\ db = [p \in Pages |-> CASE p = Meta -> 0
                               [] p \in BtreeRows -> BtreeValue
                               [] OTHER -> Absent]
    /\ db_synced = db
    /\ abandoned = {}
    /\ failures = 0 /\ crashes = 0

(* blocking_checkpoint_lock: every open transaction has it for reading, a   *)
(* checkpoint in one of its phases for writing.                             *)
Reading(c) == tx[c].state # "idle"
Holds(k) == ckpt[k].state \in Phases

-----------------------------------------------------------------------------
(* Transactions.                                                            *)

(* The rows that an uncommitted transaction wrote: nobody else may write    *)
(* them before it ends.                                                     *)
Locked(c) == {r \in Rows : tx[c].state \in {"active", "logged"} /\ tx[c].writes[r] # "keep"}

read_lock_free == \A k \in Checkpointers : ~Holds(k)

(* begin_tx, the statements, and the commit timestamp.                      *)
run_tx(c, writes) ==
    /\ boot = "up" /\ ~Reading(c) /\ clock <= MaxTs
    /\ read_lock_free
    /\ \E r \in Rows : writes[r] # "keep"
    /\ \A r \in Rows : writes[r] # "keep" => \A d \in Conns : r \notin Locked(d)
    /\ \A r \in Rows : writes[r] = "delete" => Contents[r] # Absent
    /\ tx' = [tx EXCEPT ![c] = [state |-> "active", ts |-> clock, writes |-> writes]]
    /\ clock' = clock + 1
    /\ UNCHANGED <<boot, commit_lock, last_committed_tx_ts, versions, durable_txid_max, ckpt,
                   logVars, walVars, dbVars, countVars>>

(* serialize_op_entry: a version with an end is a delete.                   *)
(* (Mutant: the flag is not written.)                                       *)
serialize_without_flags(rv) ==
    [delete |-> rv.end # None, row |-> IF rv.end # None THEN Absent ELSE rv.row,
     btree_resident |-> FALSE]

serialize_op_entry(rv) ==
    [delete |-> rv.end # None, row |-> IF rv.end # None THEN Absent ELSE rv.row,
     btree_resident |-> rv.btree_resident]

Frame(c) ==
    LET chain(r) == written(r, tx[c].ts, tx[c].writes[r])
        ops(r) == retain(chain(r), {i \in DOMAIN chain(r) : touched(tx[c].ts, chain(r)[i])})
    IN  [ts |-> tx[c].ts, valid |-> log_chained,
         ops |-> [r \in Rows |-> [i \in DOMAIN ops(r) |-> serialize_op_entry(ops(r)[i])]]]

(* (Mutant: the frame of an abandoned commit is not overwritten.)           *)
all_frames == log.frames

owned_frames == SubSeq(log.frames, 1, log_offset)

(* BeginCommitLogicalLog: under the commit lock, the frame goes to the      *)
(* owned offset, over what a failed commit left there; at offset 0 the      *)
(* header goes with it.                                                     *)
log_tx(c) ==
    /\ tx[c].state = "active"
    /\ commit_lock = Nobody
    /\ log' = [header |-> TRUE, frames |-> Append(owned_frames, Frame(c))]
    /\ tx' = [tx EXCEPT ![c].state = "logged"]
    /\ commit_lock' = c
    /\ UNCHANGED <<boot, clock, last_committed_tx_ts, versions, durable_txid_max, ckpt,
                   log_synced, log_offset, log_chained, walVars, dbVars, countVars>>

(* SyncLogicalLog and CommitEnd up to unlock_commit_lock_if_held.           *)
commit_end(c) ==
    /\ tx[c].state = "logged"
    /\ log_synced' = log
    /\ log_offset' = log_offset + 1
    /\ versions' = [r \in Rows |-> written(r, tx[c].ts, tx[c].writes[r])]
    /\ tx' = [tx EXCEPT ![c].state = "publish"]
    /\ commit_lock' = Nobody
    /\ UNCHANGED <<boot, clock, last_committed_tx_ts, durable_txid_max, ckpt, log, log_chained,
                   walVars, dbVars, countVars>>

(* The rest of CommitEnd: the watermark, by a plain store, and remove_tx.   *)
publish(c) ==
    /\ tx[c].state = "publish"
    /\ last_committed_tx_ts' = tx[c].ts
    /\ tx' = [tx EXCEPT ![c] = NoTx]
    /\ UNCHANGED <<boot, clock, commit_lock, versions, durable_txid_max, ckpt, logVars, walVars,
                   dbVars, countVars>>

(* rollback_tx: of the user's will, or because the fsync of the log failed. *)
(* The frame is then left past the owned offset, on the disk or not.        *)
rollback_tx(c) ==
    /\ tx[c].state \in FailAt
    /\ failures < MaxFailures /\ failures' = failures + 1
    /\ versions' = [r \in Rows |->
         LET chain == written(r, tx[c].ts, tx[c].writes[r])
         IN  [i \in DOMAIN chain |-> rollback_row_version(tx[c].ts, chain[i])]]
    /\ \/ /\ tx[c].state = "logged"
          /\ log_synced' \in {log, log_synced}
          /\ abandoned' = abandoned \cup {tx[c].ts}
          /\ commit_lock' = Nobody
       \/ tx[c].state = "active" /\ UNCHANGED <<log_synced, abandoned, commit_lock>>
    /\ tx' = [tx EXCEPT ![c] = NoTx]
    /\ UNCHANGED <<boot, clock, last_committed_tx_ts, durable_txid_max, ckpt, log, log_offset,
                   log_chained, walVars, dbVars, crashes>>

-----------------------------------------------------------------------------
(* The checkpoint.                                                          *)

(* CheckpointStateMachine::new, before the lock is taken.                   *)
new(k) ==
    /\ boot = "up" /\ ckpt[k].state = "idle"
    /\ ckpt' = [ckpt EXCEPT ![k] =
                   [state |-> "AcquireLock", old |-> durable_txid_max, new |-> durable_txid_max,
                    writes |-> <<>>, backfilled |-> FALSE]]
    /\ UNCHANGED <<boot, txVars, versions, durable_txid_max, logVars, walVars, dbVars,
                   countVars>>

(* maybe_get_checkpointable_versions.  While the chain is walked, a version *)
(* may show that the row is in the database file (old or resident), and one *)
(* that it is not any more: the last to show either decides.                *)
(* (Mutant: rows that MVCC found in the database file are not looked for.)  *)
checkpointed_before(old, rv) == rv.begin # None /\ rv.begin <= old

in_db_file(old, rv) == rv.btree_resident \/ (rv.begin # None /\ rv.begin <= old)
left_db_file(old, rv) == rv.end # None /\ rv.end <= old

exists_in_db_file(old, chain, i) ==
    LET telling == {j \in 1 .. i : in_db_file(old, chain[j]) \/ left_db_file(old, chain[j])}
    IN  telling # {} /\ ~left_db_file(old, chain[Max(telling)])

should_checkpoint(old, chain, i) ==
    \/ chain[i].end = None /\ chain[i].begin # None /\ (old = 0 \/ chain[i].begin > old)
    \/ chain[i].end # None /\ exists_in_db_file(old, chain, i)

checkpointable(old, chain) == {i \in DOMAIN chain : should_checkpoint(old, chain, i)}

(* The rows to write, the last checkpointable version of each, and with     *)
(* them the new boundary (maybe_stage_mvcc_metadata_write).                 *)
row_writes(old, chains) ==
    [r \in {r \in Rows : checkpointable(old, chains[r]) # {}} |->
       LET rv == chains[r][Max(checkpointable(old, chains[r]))]
       IN  IF rv.end # None THEN Absent ELSE rv.row]

collect(old, boundary, chains) ==
    IF boundary <= old THEN row_writes(old, chains)
    ELSE over([p \in {Meta} |-> boundary], row_writes(old, chains))

(* (Mutant: the boundary follows the watermark, back if need be.)           *)
committed_max(old) == last_committed_tx_ts

new_boundary(old) == Max({old, last_committed_tx_ts})

(* (Mutant: the lock is taken for reading.)                                 *)
no_open_transaction == \A c \in Conns : ~Reading(c)

checkpoint_lock_free == (\A c \in Conns : ~Reading(c)) /\ read_lock_free

acquire_lock(k) ==
    /\ ckpt[k].state = "AcquireLock"
    /\ checkpoint_lock_free
    /\ LET old == ckpt[k].old
           boundary == new_boundary(old)
           writes == collect(old, boundary, versions)
       IN  ckpt' = [ckpt EXCEPT ![k] =
                      [state |-> IF writes = <<>> THEN "CheckpointWal" ELSE "BeginPagerTxn",
                       old |-> old, new |-> boundary, writes |-> writes, backfilled |-> FALSE]]
    /\ UNCHANGED <<boot, txVars, versions, durable_txid_max, logVars, walVars, dbVars,
                   countVars>>

acquire_busy(k) ==
    /\ ckpt[k].state = "AcquireLock"
    /\ ~checkpoint_lock_free
    /\ ckpt' = [ckpt EXCEPT ![k] = NoCheckpoint]
    /\ UNCHANGED <<boot, txVars, versions, durable_txid_max, logVars, walVars, dbVars,
                   countVars>>

(* BeginPagerTxn, and the rows written to the B-tree in that transaction.   *)
(* A delete whose row is not there is Corrupt, and the checkpoint fails.    *)
missing(k) == {r \in DOMAIN ckpt[k].writes : ckpt[k].writes[r] = Absent /\ Page(r) = Absent}

Step(k, from, to) == ckpt[k].state = from /\ ckpt' = [ckpt EXCEPT ![k].state = to]

write_rows(k) ==
    /\ missing(k) = {}
    /\ Step(k, "BeginPagerTxn", "CommitPagerTxn")
    /\ UNCHANGED <<boot, txVars, versions, durable_txid_max, logVars, walVars, dbVars,
                   countVars>>

delete_not_found(k) ==
    /\ ckpt[k].state = "BeginPagerTxn" /\ missing(k) # {}
    /\ ckpt' = [ckpt EXCEPT ![k] = NoCheckpoint]
    /\ UNCHANGED <<boot, txVars, versions, durable_txid_max, logVars, walVars, dbVars,
                   countVars>>

(* CommitPagerTxn.  The first commit after a restart of the WAL writes a    *)
(* new WAL header, which invalidates the old frames, and syncs it; the      *)
(* commit appends its frames and syncs them; the boundary advances in       *)
(* memory.                                                                  *)
prepare_wal_start(k) ==
    /\ ckpt[k].state = "CommitPagerTxn" /\ wal_restarted /\ wal # <<>>
    /\ wal' = <<>>
    /\ UNCHANGED <<boot, txVars, versions, durable_txid_max, ckpt, logVars, wal_synced,
                   wal_restarted, dbVars, countVars>>

prepare_wal_finish(k) ==
    /\ ckpt[k].state = "CommitPagerTxn" /\ wal_restarted /\ wal = <<>>
    /\ wal_synced' = wal
    /\ wal_restarted' = FALSE
    /\ UNCHANGED <<boot, txVars, versions, durable_txid_max, ckpt, logVars, wal, dbVars,
                   countVars>>

(* (Mutant: the commit is not synced.)                                      *)
leave_frames == UNCHANGED wal_synced

sync_frames == wal_synced' = wal'

(* (Mutant: the boundary advances only when the checkpoint is over.)        *)
advance_later(k) == UNCHANGED durable_txid_max

advance_boundary(k) == durable_txid_max' = ckpt[k].new

commit_pager_txn(k) ==
    /\ ~wal_restarted
    /\ Step(k, "CommitPagerTxn", "CheckpointWal")
    /\ wal' = over(ckpt[k].writes, wal)
    /\ sync_frames
    /\ advance_boundary(k)
    /\ UNCHANGED <<boot, txVars, versions, logVars, wal_restarted, dbVars, countVars>>

(* CheckpointWal: backfill what was not yet, restart the WAL in memory.     *)
(* (Mutant: a checkpoint without writes of its own does not backfill.)      *)
backfills_own_writes(k) == wal # <<>> /\ ~wal_restarted /\ ckpt[k].writes # <<>>

backfills(k) == wal # <<>> /\ ~wal_restarted

checkpoint_wal(k) ==
    /\ ckpt[k].state = "CheckpointWal"
    /\ db' = IF backfills(k) THEN over(wal, db) ELSE db
    /\ ckpt' = [ckpt EXCEPT ![k].state = "SyncDbFile", ![k].backfilled = backfills(k)]
    /\ wal_restarted' = TRUE
    /\ UNCHANGED <<boot, txVars, versions, durable_txid_max, logVars, wal, wal_synced,
                   db_synced, countVars>>

(* SyncDbFile: skipped when this checkpoint backfilled nothing.             *)
(* (Mutant: as with synchronous=off.)                                       *)
skip_sync(k) == db_synced

synced_db_file(k) == IF ckpt[k].backfilled THEN db ELSE db_synced

sync_db_file(k) ==
    /\ Step(k, "SyncDbFile", "TruncateLogicalLog")
    /\ db_synced' = synced_db_file(k)
    /\ UNCHANGED <<boot, txVars, versions, durable_txid_max, logVars, walVars, db, countVars>>

(* TruncateLogicalLog: a new salt, the file empty, the writer at its start. *)
(* (Mutant: the offset stays.)                                              *)
keep_offset == log_chained' = TRUE /\ UNCHANGED log_offset

reset_writer == log_chained' = TRUE /\ log_offset' = 0

truncate_logical_log(k) ==
    /\ Step(k, "TruncateLogicalLog", "FsyncLogicalLog")
    /\ log' = EmptyLog
    /\ reset_writer
    /\ UNCHANGED <<boot, txVars, versions, durable_txid_max, log_synced, walVars, dbVars,
                   countVars>>

fsync_logical_log(k) ==
    /\ Step(k, "FsyncLogicalLog", "TruncateWal")
    /\ log_synced' = log
    /\ UNCHANGED <<boot, txVars, versions, durable_txid_max, log, log_offset, log_chained,
                   walVars, dbVars, countVars>>

truncate_wal(k) ==
    /\ Step(k, "TruncateWal", "SyncWal")
    /\ wal' = <<>>
    /\ UNCHANGED <<boot, txVars, versions, durable_txid_max, logVars, wal_synced,
                   wal_restarted, dbVars, countVars>>

sync_wal(k) ==
    /\ Step(k, "SyncWal", "Finalize")
    /\ wal_synced' = wal
    /\ UNCHANGED <<boot, txVars, versions, durable_txid_max, logVars, wal, wal_restarted,
                   dbVars, countVars>>

(* compute_lwm: the oldest open snapshot, u64::MAX when there is none.      *)
compute_lwm ==
    LET open == {tx[c].ts : c \in {c \in Conns : tx[c].state \in {"active", "logged"}}}
    IN  IF open = {} THEN MaxTs + 1 ELSE Min(open)

(* Finalize: gc_checkpointed_versions on the rows written, then             *)
(* drop_unused_row_versions on every row, and unlock.                       *)
finalize(k) ==
    /\ ckpt[k].state = "Finalize"
    /\ durable_txid_max' = ckpt[k].new
    /\ versions' = [r \in Rows |->
         LET gc(chain) == gc_version_chain(chain, compute_lwm, ckpt[k].new)
         IN  IF r \in DOMAIN ckpt[k].writes THEN gc(gc(versions[r])) ELSE gc(versions[r])]
    /\ ckpt' = [ckpt EXCEPT ![k] = NoCheckpoint]
    /\ UNCHANGED <<boot, txVars, logVars, walVars, dbVars, countVars>>

(* step's error path, cleanup_after_external_io_error: the pager            *)
(* transaction is rolled back, the lock released.  What the phase that      *)
(* failed leaves behind: a backfill done in part; a log whose writer has    *)
(* a new salt and, if the file could not be truncated at once, the old      *)
(* offset; an fsync that reached the disk or not.  Frames the WAL does not  *)
(* count may be on the disk with their commit mark.                         *)
failed_commit(k) ==
    wal_synced' \in IF ckpt[k].state = "CommitPagerTxn"
                    THEN {wal_synced, IF wal_restarted THEN wal ELSE over(ckpt[k].writes, wal)}
                    ELSE {wal_synced}

failed_backfill(k) ==
    IF ckpt[k].state = "CheckpointWal" /\ ~wal_restarted
    THEN \E done \in SUBSET (DOMAIN wal) :
           db' = [p \in Pages |-> IF p \in done THEN wal[p] ELSE db[p]]
    ELSE db' = db

failed_truncate(k) ==
    IF ckpt[k].state = "TruncateLogicalLog"
    THEN \/ log_chained' = (log_offset = 0) /\ UNCHANGED log_offset
         \/ reset_writer
    ELSE UNCHANGED <<log_offset, log_chained>>

failed_fsync(k) ==
    log_synced' \in IF ckpt[k].state = "FsyncLogicalLog" THEN {log, log_synced} ELSE {log_synced}

io_error(k) ==
    /\ Holds(k) /\ ckpt[k].state \in FailAt
    /\ failures < MaxFailures /\ failures' = failures + 1
    /\ failed_commit(k)
    /\ failed_backfill(k)
    /\ failed_truncate(k)
    /\ failed_fsync(k)
    /\ ckpt' = [ckpt EXCEPT ![k] = NoCheckpoint]
    /\ UNCHANGED <<boot, txVars, versions, durable_txid_max, log, wal, wal_restarted, db_synced,
                   abandoned, crashes>>

-----------------------------------------------------------------------------
(* Crashes and the bootstrap.                                               *)

(* The memory is lost.  Of what was written since the last fsync, the disk  *)
(* may hold anything: either log, or one whose last frame is torn; either   *)
(* WAL; every page as it was or as it is.                                   *)
Torn == {[log EXCEPT !.frames[Len(log.frames)].valid = FALSE] :
           c \in {c \in Conns : tx[c].state = "logged"}}

crash ==
    /\ crashes < MaxCrashes /\ crashes' = crashes + 1
    /\ boot' = "down"
    /\ log' \in {log, log_synced} \cup Torn /\ log_synced' = log'
    /\ wal' \in {wal, wal_synced} /\ wal_synced' = wal'
    /\ \E lost \in SUBSET {p \in Pages : db[p] # db_synced[p]} :
         db' = [p \in Pages |-> IF p \in lost THEN db_synced[p] ELSE db[p]]
    /\ db_synced' = db'
    /\ wal_restarted' = (wal' = <<>>)
    /\ clock' = 1 /\ last_committed_tx_ts' = 0 /\ durable_txid_max' = 0
    /\ tx' = [c \in Conns |-> NoTx] /\ commit_lock' = Nobody
    /\ ckpt' = [k \in Checkpointers |-> NoCheckpoint]
    /\ versions' = [r \in Rows |-> <<>>]
    /\ log_offset' = 0 /\ log_chained' = TRUE
    /\ abandoned' = {}
    /\ UNCHANGED failures

BootFrame == <<txVars, versions, durable_txid_max, ckpt, log_offset, log_chained, countVars>>

(* maybe_complete_interrupted_checkpoint, by the frames of the WAL and the  *)
(* header of the log: nothing to complete; refuse; or backfill the WAL,     *)
(* sync the database file, rewrite the log's header, truncate the WAL.      *)
nothing_to_complete ==
    /\ boot = "down" /\ wal = <<>>
    /\ boot' = "replay"
    /\ UNCHANGED <<log, log_synced, walVars, dbVars, BootFrame>>

reject ==
    /\ boot = "down" /\ wal # <<>> /\ ~log.header
    /\ boot' = "rejected"
    /\ UNCHANGED <<log, log_synced, walVars, dbVars, BootFrame>>

reopen ==
    /\ boot = "rejected"
    /\ boot' = "down"
    /\ UNCHANGED <<log, log_synced, walVars, dbVars, BootFrame>>

backfill_wal ==
    /\ boot = "down" /\ wal # <<>> /\ log.header
    /\ boot' = "sync_db"
    /\ db' = over(wal, db)
    /\ UNCHANGED <<log, log_synced, walVars, db_synced, BootFrame>>

sync_backfilled ==
    /\ boot = "sync_db"
    /\ boot' = "update_header"
    /\ db_synced' = db
    /\ UNCHANGED <<log, log_synced, walVars, db, BootFrame>>

update_header ==
    /\ boot = "update_header"
    /\ boot' = "truncate_wal"
    /\ log' = [log EXCEPT !.header = TRUE] /\ log_synced' = log'
    /\ UNCHANGED <<walVars, dbVars, BootFrame>>

truncate_completed_wal ==
    /\ boot = "truncate_wal"
    /\ boot' = "replay"
    /\ wal' = <<>> /\ wal_synced' = wal' /\ wal_restarted' = TRUE
    /\ UNCHANGED <<log, log_synced, dbVars, BootFrame>>

(* next_record: the frames up to the first whose checksum does not chain.   *)
first_invalid(file) == SelectInSeq(file.frames, LAMBDA f : ~f.valid)

valid_frames(file) ==
    IF first_invalid(file) = 0 THEN file.frames ELSE SubSeq(file.frames, 1, first_invalid(file) - 1)

(* One operation of a frame, replayed onto the chain of its row.            *)
replay_op(ts, chain, op) ==
    LET current == {i \in DOMAIN chain : /\ chain[i].end = None
                                         /\ chain[i].begin # None /\ chain[i].begin < ts}
    IN  CASE ~op.delete ->
               insert_version_raw(chain, [begin |-> ts, end |-> None, row |-> op.row,
                                          btree_resident |-> op.btree_resident])
          [] op.delete /\ current # {} -> [chain EXCEPT ![Max(current)].end = ts]
          [] op.delete /\ current = {} ->
               insert_version_raw(chain, [begin |-> None, end |-> ts, row |-> Absent,
                                          btree_resident |-> op.btree_resident])

replay(frames, r) ==
    LET replay_frame(chain, f) ==
          FoldLeft(LAMBDA acc, op : replay_op(f.ts, acc, op), chain, f.ops[r])
    IN  FoldLeft(replay_frame, <<>>, frames)

(* (Mutant: the clock starts at the boundary, whatever was replayed.)       *)
clock_after_boundary(boundary, seen) == boundary + 1

reset_clock(boundary, seen) == seen + 1

(* maybe_recover_logical_log: frames past the boundary in the metadata      *)
(* table are replayed, clock and watermark follow the last timestamp seen,  *)
(* and the writer goes on after the last valid frame.                       *)
recover ==
    LET boundary == db[Meta]
        frames == valid_frames(log)
        newer == retain(frames, {i \in DOMAIN frames : frames[i].ts > boundary})
        seen == Max({boundary} \cup {frames[i].ts : i \in DOMAIN frames})
    IN  /\ boot = "replay"
        /\ boot' = "up"
        /\ versions' = [r \in Rows |-> replay(newer, r)]
        /\ durable_txid_max' = boundary
        /\ clock' = reset_clock(boundary, seen)
        /\ last_committed_tx_ts' = IF log.frames = <<>> THEN 0 ELSE seen
        /\ log_offset' = Len(frames) /\ log_chained' = TRUE
        /\ UNCHANGED <<tx, commit_lock, ckpt, log, log_synced, walVars, dbVars, countVars>>

-----------------------------------------------------------------------------
Transaction(c) ==
    \/ \E writes \in [Rows -> {"keep", "upsert", "delete"}] : run_tx(c, writes)
    \/ log_tx(c) \/ commit_end(c) \/ publish(c) \/ rollback_tx(c)

Checkpoint(k) ==
    \/ new(k) \/ acquire_lock(k) \/ acquire_busy(k)
    \/ write_rows(k) \/ delete_not_found(k) \/ prepare_wal_start(k)
    \/ prepare_wal_finish(k) \/ commit_pager_txn(k)
    \/ checkpoint_wal(k) \/ sync_db_file(k) \/ truncate_logical_log(k) \/ fsync_logical_log(k)
    \/ truncate_wal(k) \/ sync_wal(k) \/ finalize(k) \/ io_error(k)

Bootstrap ==
    \/ nothing_to_complete \/ reject \/ reopen \/ backfill_wal \/ sync_backfilled
    \/ update_header \/ truncate_completed_wal \/ recover

Next ==
    \/ \E c \in Conns : Transaction(c)
    \/ \E k \in Checkpointers : Checkpoint(k)
    \/ crash
    \/ Bootstrap

Spec == Init /\ [][Next]_vars

-----------------------------------------------------------------------------
(* Properties.                                                              *)

FrameType ==
    [ts : 1 .. MaxTs, valid : BOOLEAN,
     ops : [Rows -> Seq([delete : BOOLEAN, row : Value, btree_resident : BOOLEAN])]]

IsLog(file) == file.header \in BOOLEAN /\ \A i \in DOMAIN file.frames : file.frames[i] \in FrameType
IsPages(file) == DOMAIN file \subseteq Pages /\ \A p \in DOMAIN file : file[p] \in Value

TypeOK ==
    /\ boot \in {"up", "down", "rejected", "sync_db", "update_header", "truncate_wal", "replay"}
    /\ clock \in 1 .. MaxTs + 1
    /\ \A c \in Conns : /\ tx[c].state \in {"idle", "active", "logged", "publish"}
                        /\ tx[c].ts \in 0 .. MaxTs
                        /\ tx[c].writes \in [Rows -> {"keep", "upsert", "delete"}]
    /\ commit_lock \in Conns \cup {Nobody}
    /\ \A r \in Rows : \A i \in DOMAIN versions[r] : versions[r][i] \in RowVersion
    /\ last_committed_tx_ts \in 0 .. MaxTs /\ durable_txid_max \in 0 .. MaxTs
    /\ \A k \in Checkpointers : /\ ckpt[k].state \in Phases \cup {"idle", "AcquireLock"}
                                /\ IsPages(ckpt[k].writes)
    /\ IsLog(log) /\ IsLog(log_synced)
    /\ log_offset \in 0 .. Len(log.frames)
    /\ IsPages(wal) /\ IsPages(wal_synced) /\ IsPages(db) /\ DOMAIN db = Pages

(* What a bootstrap would make of the files: the pages, and over them the   *)
(* newest valid frame past the boundary.                                    *)
Effect(f) ==
    [r \in {r \in Rows : f.ops[r] # <<>>} |->
       LET rows == {op.row : op \in ToSet(f.ops[r])} IN Max(rows)]

DurableContents ==
    [r \in Rows |->
       LET newer == {f \in ToSet(valid_frames(log)) : f.ts > Page(Meta) /\ r \in DOMAIN Effect(f)}
       IN  IF newer = {} THEN Page(r)
           ELSE Effect(CHOOSE f \in newer : \A g \in newer : g.ts <= f.ts)[r]]

(* The frames of commits that nobody was told about.                        *)
Unsettled ==
    LET pending == abandoned \cup {tx[c].ts : c \in {c \in Conns : tx[c].state = "logged"}}
        files == ToSet(log.frames) \cup ToSet(valid_frames(log_synced))
    IN  {Effect(f) : f \in {f \in files : f.ts \in pending}}

Durable ==
    INSTANCE DurableRows
    WITH contents <- IF boot = "up" THEN Contents ELSE DurableContents,
         unsettled <- IF boot = "up" THEN Unsettled ELSE {}

(* What the store promises: the rows change only when a transaction's       *)
(* writes take effect, all at once.  No step of a checkpoint, no failure of *)
(* one, no garbage collection, crash or bootstrap changes a row, except     *)
(* that a crash may settle the commit it interrupted.                       *)
ImplementsDurableRows == Durable!Spec

(* From the commit of the pager transaction to the end of the checkpoint,   *)
(* the pages alone say what the version chains and the pages said together. *)
PagerCaughtUp ==
    \A k \in Checkpointers :
      ckpt[k].state \in Phases \ {"BeginPagerTxn", "CommitPagerTxn"} =>
        /\ \A r \in Rows : Page(r) = Contents[r]
        /\ \A r \in Rows : \A i \in DOMAIN versions[r] :
             versions[r][i].begin <= Page(Meta) /\ versions[r][i].end <= Page(Meta)

(* What a checkpoint collected when it took the lock is what it would       *)
(* collect at every later step until it ends: no transaction and no other   *)
(* checkpoint touches a chain under it.                                     *)
CollectedStaysCurrent ==
    \A k \in Checkpointers :
      Holds(k) => ckpt[k].writes = collect(ckpt[k].old, ckpt[k].new, versions)

(* A checkpoint deletes a row of the B-tree only when it is there: a delete *)
(* that finds no row is Corrupt, and every later checkpoint fails on it.    *)
DeletesFindTheirRow ==
    \A k \in Checkpointers : ckpt[k].state = "BeginPagerTxn" => missing(k) = {}

(* The boundary in memory, from which a checkpoint judges what the database *)
(* file holds, is the one in the metadata table, from which a bootstrap     *)
(* judges what to replay: after failures and restarts too.                  *)
BoundaryAgrees == boot = "up" => durable_txid_max = Page(Meta)

(* The replay boundary of the files never goes back, at a crash neither.    *)
BoundaryAdvances == [][Page(Meta)' >= Page(Meta)]_vars

(* No timestamp is given out again: the clock is past the boundary, every   *)
(* frame that a bootstrap would replay, and every version.                  *)
ClockPastFiles ==
    boot = "up" =>
      /\ clock > Page(Meta)
      /\ \A i \in DOMAIN valid_frames(log) : clock > log.frames[i].ts

ClockPastVersions ==
    boot = "up" => \A r \in Rows : \A i \in DOMAIN versions[r] :
                     clock > versions[r][i].begin /\ clock > versions[r][i].end

ClockAhead == ClockPastFiles /\ ClockPastVersions

(* The bootstrap never refuses the files that a crash left.                 *)
BootstrapSucceeds == boot # "rejected"

=============================================================================
