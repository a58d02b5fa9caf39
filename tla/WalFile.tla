------------------------------- MODULE WalFile -------------------------------
(****************************************************************************)
(* The write-ahead log of the pager: core/storage/wal.rs (WalFile, the      *)
(* in-process coordination backend and WalFileShared), the commit, spill    *)
(* and checkpoint drivers of core/storage/pager.rs, the recovery scan of    *)
(* core/storage/sqlite3_ondisk.rs and the WAL side of in-place VACUUM       *)
(* (core/vdbe/vacuum.rs).                                                   *)
(*                                                                          *)
(* Every connection owns a WalFile with a local snapshot of the shared      *)
(* metadata; all of them share WalFileShared: the metadata, the frame cache *)
(* (page -> frames) and the lock words.  Locks are only ever TRIED, and     *)
(* what is loaded without one is validated after the lock is taken: each    *)
(* of those points is a step of its own here.                               *)
(*                                                                          *)
(* Simplifications:                                                         *)
(*  - a page's content is the number of the transaction that wrote it; a    *)
(*    frame is the page it holds, that content, and the commit flag;        *)
(*  - last_checksum is determined by the sequence number, the frames and    *)
(*    whether the header of this generation has been prepared (hdr);        *)
(*  - frames behind an overwritten one no longer match the checksum chain   *)
(*    and are dropped from the file at once;                                *)
(*  - database growth (database_size, truncation of the database file) and  *)
(*    page-cache eviction are left out.                                     *)
(****************************************************************************)
EXTENDS FrameCache, FiniteSets, SequencesExt

CONSTANTS
    Pages,          \* page numbers, in the order the dirty-page bitmap yields
    Conns,          \* connections of the process
    Writers,        \* connections that begin write transactions
    Checkpointers,  \* connections that run checkpoints
    Vacuumers,      \* connections that run VACUUM
    Spillers,       \* connections whose page cache is small enough to spill
    Caching,        \* connections whose page cache is modelled
    Modes,          \* modes of the explicit checkpoints
    AutoCheckpoint, \* whether commits end with an automatic checkpoint
    Slots,          \* read-mark slots besides slot 0 (the code has 4)
    SyncMode,       \* PRAGMA synchronous: "Off", "Normal" or "Full"
    Respill,        \* whether a page may be spilled again in a transaction
    FailAt,         \* steps whose I/O may fail
    MaxTxn,         \* bound on write transactions
    MaxFrames,      \* bound on the frames of the log
    MaxCheckpoints, \* bound on explicit checkpoints
    MaxFailures,    \* bound on I/O failures
    MaxCrashes      \* bound on crashes

ASSUME PagesAssumption == IsFiniteSet(Pages) /\ Pages # {} /\ Pages \subseteq Nat \ {0}
ASSUME ConnsAssumption ==
    /\ IsFiniteSet(Conns)
    /\ Writers \subseteq Conns /\ Checkpointers \subseteq Conns
    /\ Vacuumers \subseteq Conns /\ Spillers \subseteq Conns /\ Caching \subseteq Conns
ASSUME BoundsAssumption ==
    /\ Slots \in Nat \ {0} /\ MaxTxn \in Nat /\ MaxFrames \in Nat
    /\ MaxCheckpoints \in Nat
    /\ MaxFailures \in Nat /\ MaxCrashes \in Nat
ASSUME ModesAssumption ==
    /\ Modes \subseteq {"Passive", "Full", "Restart", "Truncate"}
    /\ SyncMode \in {"Off", "Normal", "Full"}
    /\ {AutoCheckpoint, Respill} \subseteq BOOLEAN
    /\ FailAt \subseteq {"frames", "walsync", "backfill", "dbsync", "truncate"}

VARIABLES
    shared,       \* WalSharedMetadata and the checkpoint epoch
    frame_cache,  \* page -> its frames, in the order they were cached
    slot,         \* read_locks[0..Slots]: [writer, readers, mark]
    lock,         \* write_lock, checkpoint_lock, vacuum_lock: [writer, readers]
    pc,           \* where a connection is
    snap,         \* the connection's local WalSnapshot (nb = min_frame - 1)
    guard,        \* max_frame_read_lock_index, or NO_LOCK_HELD
    pick,         \* slot, mark and snapshot of a read transaction being begun
    tx,           \* the write transaction: [id, dirty, spilled, vacuum]
    ckpt,         \* ongoing_checkpoint and the pager's checkpoint_state
    cache,        \* page cache of the Caching connections
    wal,          \* the WAL file: [gen, frames]; gen = NoHeader: no header
    wal_disk,     \* the WAL file as of its last fsync
    db,           \* the database file
    db_disk,      \* page -> contents a crash may leave in the database file
    history,      \* committed images, oldest first (observation)
    durable,      \* how many of them a crash must preserve (observation)
    doubt,        \* images in the WAL file whose commit was not published
    view,         \* image in history a reader began at (observation)
    txns, ckpts, failures, crashes   \* counters of the bounds

mem == <<shared, frame_cache, slot, lock, pc, snap, guard, pick, tx, ckpt, cache>>
files == <<wal, wal_disk, db, db_disk>>
ghosts == <<history, durable, doubt, view>>
bounds == <<txns, ckpts, failures, crashes>>
vars == <<mem, files, ghosts, bounds>>

NO_LOCK_HELD == Slots + 1
READMARK_NOT_USED == MaxFrames + 1   \* u32::MAX: above every frame number
NoHeader == MaxTxn + MaxCheckpoints + 1   \* no checkpoint_seq of the model
NoPage == [ver |-> 0, frame |-> 0, epoch |-> 0, dirty |-> FALSE, used |-> FALSE]
TAG_UNSET == 0                       \* no frame has number 0

Images == [Pages -> 0..MaxTxn]

-----------------------------------------------------------------------------
(* TursoRwLock: an atomic word with a writer bit, a reader count and (for   *)
(* the read marks) a value.                                                 *)

\* write(): the exclusive lock can be had
Free(l) == ~l.writer /\ l.readers = 0
\* read(): it can be shared
CanShare(l) == ~l.writer
Shared(l) == [l EXCEPT !.readers = @ + 1]
Exclusive(l) == [l EXCEPT !.writer = TRUE]
\* unlock() of whichever lock is held (Mutant: always the shared one.)
UnlockShared(l) == [l EXCEPT !.readers = @ - 1]
Unlock(l) == IF l.writer THEN [l EXCEPT !.writer = FALSE]
                         ELSE [l EXCEPT !.readers = @ - 1]

\* the slots 1..n, in the order every loop over them takes
Marks == 1..Slots

-----------------------------------------------------------------------------
(* Snapshots and lookups.                                                   *)

\* load_snapshot(): the shared metadata a connection copies
Snapshot(s) == [max |-> s.max, nb |-> s.nb, seq |-> s.seq, tx |-> s.tx, hdr |-> s.hdr]

\* The content frame f has for a reader of page p.  The frame's page number is
\* not looked at when a frame is read: another page's content is garbage.
Garbage == MaxTxn + 1
FrameContent(w, f, p) ==
    IF f \in DOMAIN w.frames /\ w.frames[f].page = p THEN w.frames[f].ver ELSE Garbage

\* WalFile::find_frame and read_page_no_cache, through connection c's snapshot
\* (Mutant: up to the last published frame.)
FindNewestFrame(c, p) == LatestFrame(frame_cache, p, snap[c].nb + 1, shared.max)
FindFrame(c, p) ==
    IF guard[c] = 0 /\ snap[c].max < snap[c].nb + 1
    THEN 0
    ELSE LatestFrame(frame_cache, p, snap[c].nb + 1, snap[c].max)

ReadContent(c, p) ==
    LET f == FindFrame(c, p) IN IF f = 0 THEN db[p] ELSE FrameContent(wal, f, p)

\* What a page read by connection c returns: its page cache, else the files
PageSeen(c, p) == IF cache[c][p].used THEN cache[c][p].ver ELSE ReadContent(c, p)

\* cache_get_for_checkpoint: the cached copy stands for frame f of this epoch
\* (Mutant: of any epoch.)
ValidInAnyEpoch(pg, f) == pg.used /\ ~pg.dirty /\ pg.frame = f
ValidForCheckpoint(pg, f) ==
    pg.used /\ ~pg.dirty /\ pg.frame = f /\ pg.epoch = shared.epoch

-----------------------------------------------------------------------------
EmptySlots == [i \in 0..Slots |->
    [writer |-> FALSE, readers |-> 0,
     mark |-> IF i < 2 THEN 0 ELSE READMARK_NOT_USED]]
EmptyLocks == [l \in {"write", "checkpoint", "vacuum"} |-> [writer |-> FALSE, readers |-> 0]]
NoTx == [id |-> 0, dirty |-> {}, spilled |-> {}, vacuum |-> FALSE]
NoCheckpoint == [mode |-> "Passive", auto |-> FALSE, old |-> 0, max |-> 0, scan |-> 1,
                 todo |-> {}, all |-> FALSE, held |-> "none"]
NoSnapshot == [max |-> 0, nb |-> 0, seq |-> 0, tx |-> 0, hdr |-> FALSE]
NoPick == [slot |-> NO_LOCK_HELD, mark |-> 0, snap |-> NoSnapshot]
EmptyCache == [p \in Pages |-> NoPage]

\* build_shared_wal: a database opened with an empty WAL file
Init ==
    /\ shared = [max |-> 0, nb |-> 0, seq |-> 0, tx |-> 0, hdr |-> FALSE,
                 init |-> FALSE, epoch |-> 0]
    /\ frame_cache = [p \in Pages |-> <<>>]
    /\ slot = EmptySlots /\ lock = EmptyLocks
    /\ pc = [c \in Conns |-> "idle"]
    /\ snap = [c \in Conns |-> NoSnapshot]
    /\ guard = [c \in Conns |-> NO_LOCK_HELD]
    /\ pick = [c \in Conns |-> NoPick]
    /\ tx = [c \in Conns |-> NoTx]
    /\ ckpt = [c \in Conns |-> NoCheckpoint]
    /\ cache = [c \in Conns |-> EmptyCache]
    /\ wal = [gen |-> NoHeader, frames |-> <<>>] /\ wal_disk = wal
    /\ db = [p \in Pages |-> 0] /\ db_disk = [p \in Pages |-> {0}]
    /\ history = <<db>> /\ durable = 1 /\ doubt = {}
    /\ view = [c \in Conns |-> 1]
    /\ txns = 0 /\ ckpts = 0 /\ failures = 0 /\ crashes = 0

-----------------------------------------------------------------------------
(* Read transactions: WalFile::try_begin_read_tx.                           *)

\* The vacuum lock can be shared (Mutant: it is not looked at.)
ReadsDuringVacuum == TRUE
ReadsAllowed == CanShare(lock["vacuum"])

\* The vacuum lock is taken shared, then the shared metadata is copied without
\* a read lock.  A fully backfilled log is read through slot 0.
BeginRead(c) ==
    /\ pc[c] = "idle"
    /\ ReadsAllowed
    /\ lock' = [lock EXCEPT !["vacuum"] = Shared(@)]
    /\ LET s == Snapshot(shared)
           dbfile == s.max = s.nb
       IN  /\ pick' = [pick EXCEPT ![c] =
                  [slot |-> IF dbfile THEN 0 ELSE NO_LOCK_HELD, mark |-> 0, snap |-> s]]
           /\ pc' = [pc EXCEPT ![c] = IF dbfile THEN "lock" ELSE "choose"]
    /\ UNCHANGED <<shared, frame_cache, slot, snap, guard, tx, ckpt, cache>>
    /\ UNCHANGED <<files, ghosts, bounds>>

\* The highest mark that is not above the snapshot, unless it is lower and some
\* slot is free: then that slot's mark is set to the snapshot.
ChooseMark(c) ==
    /\ pc[c] = "choose"
    /\ LET max  == pick[c].snap.max
           fit  == {i \in Marks : slot[i].mark # READMARK_NOT_USED /\ slot[i].mark \in 1..max}
           best == {i \in fit : \A j \in fit : slot[j].mark <= slot[i].mark}
           free == {i \in Marks : Free(slot[i])}
           low  == best = {} \/ slot[Min(best)].mark < max
       IN  IF low /\ free # {}
           THEN /\ slot' = [slot EXCEPT ![Min(free)].mark = max]
                /\ pick' = [pick EXCEPT ![c].slot = Min(free), ![c].mark = max]
           ELSE /\ pick' = [pick EXCEPT ![c].slot = IF best = {} THEN NO_LOCK_HELD ELSE Min(best),
                                        ![c].mark = IF best = {} THEN 0 ELSE slot[Min(best)].mark]
                /\ UNCHANGED slot
    /\ pc' = [pc EXCEPT ![c] = "lock"]
    /\ UNCHANGED <<shared, frame_cache, lock, snap, guard, tx, ckpt, cache>>
    /\ UNCHANGED <<files, ghosts, bounds>>

\* The slot is locked shared; the snapshot and the mark must still be the ones
\* that were picked.  (Mutant: the snapshot is not compared again.)
ValidatedByMark(c) ==
    LET k == pick[c] IN
    /\ k.slot # NO_LOCK_HELD
    /\ CanShare(slot[k.slot])
    /\ k.slot = 0 \/ slot[k.slot].mark = k.mark
Validated(c) ==
    LET k == pick[c] IN
    /\ k.slot # NO_LOCK_HELD
    /\ CanShare(slot[k.slot])
    /\ Snapshot(shared) = k.snap
    /\ k.slot = 0 \/ slot[k.slot].mark = k.mark

\* The read transaction begins; pager.begin_read_tx empties the page cache when
\* the database changed since this connection's last transaction.
LockMark(c) ==
    /\ pc[c] = "lock"
    /\ Validated(c)
    /\ slot' = [slot EXCEPT ![pick[c].slot] = Shared(@)]
    /\ guard' = [guard EXCEPT ![c] = pick[c].slot]
    /\ snap' = [snap EXCEPT ![c] = pick[c].snap]
    /\ cache' = IF snap[c] # pick[c].snap THEN [cache EXCEPT ![c] = EmptyCache] ELSE cache
    /\ view' = [view EXCEPT ![c] = Len(history)]
    /\ pick' = [pick EXCEPT ![c] = NoPick]
    /\ pc' = [pc EXCEPT ![c] = "read"]
    /\ UNCHANGED <<shared, frame_cache, lock, tx, ckpt, files>>
    /\ UNCHANGED <<history, durable, doubt, bounds>>

\* TryBeginReadResult::Retry: the vacuum guard is dropped and the loop of
\* begin_read_tx starts over (or gives up as Busy).
RetryRead(c) ==
    /\ pc[c] = "lock"
    /\ ~Validated(c)
    /\ lock' = [lock EXCEPT !["vacuum"] = Unlock(@)]
    /\ pick' = [pick EXCEPT ![c] = NoPick]
    /\ pc' = [pc EXCEPT ![c] = "idle"]
    /\ UNCHANGED <<shared, frame_cache, slot, snap, guard, tx, ckpt, cache>>
    /\ UNCHANGED <<files, ghosts, bounds>>

\* Between transactions the local snapshot only serves to tell whether the page
\* cache is still good
Retained(c, s) == IF c \in Caching THEN s ELSE NoSnapshot

EndRead(c) ==
    /\ pc[c] = "read"
    /\ slot' = [slot EXCEPT ![guard[c]] = Unlock(@)]
    /\ lock' = [lock EXCEPT !["vacuum"] = Unlock(@)]
    /\ snap' = [snap EXCEPT ![c] = Retained(c, @)]
    /\ guard' = [guard EXCEPT ![c] = NO_LOCK_HELD]
    /\ pc' = [pc EXCEPT ![c] = "idle"]
    /\ view' = [view EXCEPT ![c] = 1]
    /\ UNCHANGED <<shared, frame_cache, pick, tx, ckpt, cache>>
    /\ UNCHANGED <<files, history, durable, doubt, bounds>>

\* read_page: the page is read through the snapshot and enters the page cache,
\* tagged with its frame and the checkpoint epoch when it came from the WAL.
ReadPage(c, p) ==
    /\ pc[c] \in {"read", "write"}
    /\ c \in Caching /\ ~cache[c][p].used
    /\ LET f == FindFrame(c, p)
       IN  cache' = [cache EXCEPT ![c][p] =
               [ver |-> ReadContent(c, p), frame |-> f,
                epoch |-> IF f = 0 THEN 0 ELSE shared.epoch, dirty |-> FALSE, used |-> TRUE]]
    /\ UNCHANGED <<shared, frame_cache, slot, lock, pc, snap, guard, pick, tx, ckpt>>
    /\ UNCHANGED <<files, ghosts, bounds>>

-----------------------------------------------------------------------------
(* Write transactions.                                                      *)

\* begin_write_tx: the write lock, and a snapshot that is still current (else
\* BusySnapshot: the lock is released again and nothing has changed).
BeginWriteTx(c) ==
    /\ pc[c] = "read" /\ c \in Writers
    /\ txns < MaxTxn
    /\ Free(lock["write"])
    /\ Snapshot(shared) = snap[c]
    /\ lock' = [lock EXCEPT !["write"] = Exclusive(@)]
    /\ txns' = txns + 1
    /\ tx' = [tx EXCEPT ![c] = [NoTx EXCEPT !.id = txns + 1]]
    /\ pc' = [pc EXCEPT ![c] = "restart"]
    /\ UNCHANGED <<shared, frame_cache, slot, snap, guard, pick, ckpt, cache>>
    /\ UNCHANGED <<files, ghosts, ckpts, failures, crashes>>

\* restart_wal_header: the next generation of the log, nothing of it prepared
RestartedHeader(s) ==
    [s EXCEPT !.max = 0, !.nb = 0, !.seq = @ + 1, !.hdr = FALSE, !.init = FALSE]
RestartedMarks(sl) ==
    [i \in 0..Slots |-> [sl[i] EXCEPT !.mark = IF i < 2 THEN 0 ELSE READMARK_NOT_USED]]

\* begin_restart takes slots 1..n in order and clears their marks; the first
\* busy one makes it fail, with the marks before it already cleared.
BusySlots == {i \in Marks : ~Free(slot[i])}
ClearedPrefix ==
    [i \in 0..Slots |-> IF i \in Marks /\ i < Min(BusySlots)
                        THEN [slot[i] EXCEPT !.mark = READMARK_NOT_USED] ELSE slot[i]]

\* try_restart_log_before_write: a writer that reads from the database file
\* only restarts a fully backfilled log, if it is the only reader of slot 0.
CanRestartLog(c) ==
    /\ guard[c] = 0
    /\ shared.nb > 0 /\ shared.max = shared.nb
    /\ slot[0].readers = 1 /\ ~slot[0].writer

TryRestartLog(c) ==
    /\ pc[c] = "restart"
    /\ pc' = [pc EXCEPT ![c] = "write"]
    /\ CASE CanRestartLog(c) /\ BusySlots = {} ->
            /\ shared' = [RestartedHeader(shared) EXCEPT !.epoch = @ + 1]
            /\ frame_cache' = [p \in Pages |-> <<>>]
            /\ slot' = RestartedMarks(slot)
            /\ snap' = [snap EXCEPT ![c] =
                   [Snapshot(RestartedHeader(shared)) EXCEPT !.tx = snap[c].tx]]
         [] CanRestartLog(c) /\ BusySlots # {} ->
            /\ slot' = ClearedPrefix
            /\ UNCHANGED <<shared, frame_cache, snap>>
         [] OTHER -> UNCHANGED <<shared, frame_cache, slot, snap>>
    /\ UNCHANGED <<lock, guard, pick, tx, ckpt, cache>>
    /\ UNCHANGED <<files, ghosts, bounds>>

\* add_dirty: the page is modified in the page cache, its WAL tag is cleared
Modify(c, p) ==
    /\ pc[c] = "write" /\ ~tx[c].vacuum
    /\ p \notin tx[c].dirty \/ (Respill /\ p \in tx[c].spilled)
    /\ tx' = [tx EXCEPT ![c].dirty = @ \union {p}, ![c].spilled = @ \ {p}]
    /\ cache' = IF c \in Caching
                THEN [cache EXCEPT ![c][p] =
                        [ver |-> tx[c].id, frame |-> TAG_UNSET, epoch |-> 0,
                         dirty |-> TRUE, used |-> TRUE]]
                ELSE cache
    /\ UNCHANGED <<shared, frame_cache, slot, lock, pc, snap, guard, pick, ckpt>>
    /\ UNCHANGED <<files, ghosts, bounds>>

\* prepare_wal_start: the header of this generation is written over the file,
\* which is cut behind it; the connection's own snapshot follows.
HeaderWritten == [gen |-> shared.seq, frames |-> <<>>]

\* The frames file w has after fs was written from frame number n on
Written(w, n, fs) == [w EXCEPT !.frames = SubSeq(@, 1, n - 1) \o fs]
Frame(p, v, last) == [page |-> p, ver |-> v, commit |-> last]

\* try_spill_dirty_pages, append_frames_vectored: an uncommitted frame behind
\* the connection's own last one, after the header if that is still missing.
SpillPage(c, p) ==
    /\ pc[c] = "write" /\ ~tx[c].vacuum /\ c \in Spillers
    /\ p \in tx[c].dirty \ tx[c].spilled
    /\ LET base == IF shared.init THEN wal ELSE HeaderWritten
           n    == (IF shared.init THEN snap[c].max ELSE 0) + 1
       IN  /\ n <= MaxFrames
           /\ wal' = Written(base, n, <<Frame(p, tx[c].id, FALSE)>>)
           /\ wal_disk' = IF shared.init THEN wal_disk ELSE HeaderWritten
           /\ shared' = [shared EXCEPT !.hdr = TRUE, !.init = TRUE]
           /\ snap' = [snap EXCEPT ![c].max = n, ![c].hdr = TRUE]
           /\ frame_cache' = Cached(frame_cache, p, n)
           /\ cache' = IF cache[c][p].used
                       THEN [cache EXCEPT ![c][p].frame = n, ![c][p].epoch = shared.epoch,
                                          ![c][p].dirty = FALSE]
                       ELSE cache
    /\ tx' = [tx EXCEPT ![c].spilled = @ \union {p}]
    /\ doubt' = {}
    /\ UNCHANGED <<slot, lock, pc, guard, pick, ckpt, db, db_disk>>
    /\ UNCHANGED <<history, durable, view, bounds>>

-----------------------------------------------------------------------------
(* Commit: Pager::commit_dirty_pages_inner.                                 *)

\* PrepareWal: nothing to do when the log is initialized
PrepareWal(c) ==
    /\ pc[c] = "write" /\ tx[c].dirty # {}
    /\ shared.max + Cardinality(tx[c].dirty) <= MaxFrames
    /\ IF shared.init
       THEN /\ pc' = [pc EXCEPT ![c] = "frames"]
            /\ UNCHANGED <<shared, snap, wal>>
       ELSE /\ pc' = [pc EXCEPT ![c] = "header"]
            /\ wal' = HeaderWritten
            /\ shared' = [shared EXCEPT !.hdr = TRUE]
            /\ snap' = [snap EXCEPT ![c].hdr = TRUE, ![c].max = 0]
    /\ UNCHANGED <<frame_cache, slot, lock, guard, pick, tx, ckpt, cache>>
    /\ UNCHANGED <<wal_disk, db, db_disk, ghosts, bounds>>

\* PrepareWalSync: the header is durable, the log is initialized
PrepareWalSync(c) ==
    /\ pc[c] = "header"
    /\ wal_disk' = wal
    /\ shared' = [shared EXCEPT !.init = TRUE]
    /\ pc' = [pc EXCEPT ![c] = "frames"]
    /\ UNCHANGED <<frame_cache, slot, lock, snap, guard, pick, tx, ckpt, cache>>
    /\ UNCHANGED <<wal, db, db_disk, ghosts, bounds>>

\* The frames of the commit: every dirty page, in page order, the last one with
\* the commit flag.  prepare_frames starts behind the PUBLISHED last frame, over
\* frames this transaction has spilled.
DirtySeq(c) ==
    [i \in 1..Cardinality(tx[c].dirty) |->
        CHOOSE p \in tx[c].dirty : Cardinality(tx[c].dirty \intersect 1..p) = i]
CommitFrames(c) ==
    [i \in 1..Cardinality(tx[c].dirty) |->
        Frame(DirtySeq(c)[i], tx[c].id, i = Cardinality(tx[c].dirty))]
CommittedImage(c) ==
    [p \in Pages |-> IF p \in tx[c].dirty THEN tx[c].id ELSE Last(history)[p]]

WriteFrames(c) ==
    /\ pc[c] = "frames"
    /\ wal' = Written(wal, shared.max + 1, CommitFrames(c))
    /\ snap' = [snap EXCEPT ![c] = Snapshot(shared)]
    /\ doubt' = {CommittedImage(c)}
    /\ pc' = [pc EXCEPT ![c] = IF SyncMode = "Full" THEN "walsync" ELSE "publish"]
    /\ UNCHANGED <<shared, frame_cache, slot, lock, guard, pick, tx, ckpt, cache>>
    /\ UNCHANGED <<wal_disk, db, db_disk, history, durable, view, bounds>>

\* WaitSync (synchronous=FULL only)
SyncWal(c) ==
    /\ pc[c] = "walsync"
    /\ wal_disk' = wal
    /\ pc' = [pc EXCEPT ![c] = "publish"]
    /\ UNCHANGED <<shared, frame_cache, slot, lock, snap, guard, pick, tx, ckpt, cache>>
    /\ UNCHANGED <<wal, db, db_disk, ghosts, bounds>>

\* WalCommitDone: commit_prepared_frames, finalize_committed_pages (VACUUM's
\* pages are not in the page cache) and finish_append_frames_commit
WalCommitDone(c) ==
    /\ pc[c] = "publish"
    /\ LET fs == CommitFrames(c)
           n  == shared.max
           at == [p \in tx[c].dirty |-> n + CHOOSE i \in DOMAIN fs : fs[i].page = p]
       IN  /\ frame_cache' = [p \in Pages |-> IF p \in tx[c].dirty
                                              THEN Append(frame_cache[p], at[p]) ELSE frame_cache[p]]
           /\ shared' = [shared EXCEPT !.max = n + Len(fs), !.tx = snap[c].tx + 1]
           /\ snap' = [snap EXCEPT ![c].max = n + Len(fs), ![c].tx = @ + 1]
           /\ cache' = [cache EXCEPT ![c] = [p \in Pages |->
                  IF p \in tx[c].dirty /\ cache[c][p].used /\ ~tx[c].vacuum
                  THEN [cache[c][p] EXCEPT !.dirty = FALSE, !.frame = at[p], !.epoch = shared.epoch]
                  ELSE cache[c][p]]]
    /\ history' = Append(history, CommittedImage(c))
    /\ durable' = IF SyncMode = "Full" THEN Len(history) + 1 ELSE durable
    /\ doubt' = {}
    /\ pc' = [pc EXCEPT ![c] = "committed"]
    /\ UNCHANGED <<slot, lock, guard, pick, tx, ckpt, files, view, bounds>>

\* commit_tx after commit_dirty_pages: both locks are released, then a long log
\* is checkpointed by this connection.
EndCommit(c) ==
    /\ pc[c] = "committed" /\ ~tx[c].vacuum
    /\ slot' = [slot EXCEPT ![guard[c]] = Unlock(@)]
    /\ lock' = [lock EXCEPT !["write"] = Unlock(@), !["vacuum"] = Unlock(@)]
    /\ snap' = [snap EXCEPT ![c] = Retained(c, @)]
    /\ guard' = [guard EXCEPT ![c] = NO_LOCK_HELD]
    /\ tx' = [tx EXCEPT ![c] = NoTx]
    /\ pc' = [pc EXCEPT ![c] = IF AutoCheckpoint /\ c \in Checkpointers THEN "auto" ELSE "idle"]
    /\ view' = [view EXCEPT ![c] = 1]
    /\ UNCHANGED <<shared, frame_cache, pick, ckpt, cache>>
    /\ UNCHANGED <<files, history, durable, doubt, bounds>>

\* rollback_tx of a write transaction: page cache, frame cache and snapshot are
\* reset before the write lock is released.  VACUUM's cleanup also gives back
\* the checkpoint lock and the vacuum lock, which it holds exclusively.
RollbackTx(c) ==
    /\ frame_cache' = RolledBack(frame_cache, shared.max)
    /\ snap' = [snap EXCEPT ![c] = Retained(c, [@ EXCEPT !.max = shared.max])]
    /\ cache' = [cache EXCEPT ![c] = EmptyCache]
    /\ slot' = IF tx[c].vacuum THEN slot ELSE [slot EXCEPT ![guard[c]] = Unlock(@)]
    /\ lock' = [lock EXCEPT !["write"] = Unlock(@), !["vacuum"] = Unlock(@),
                            !["checkpoint"] = IF tx[c].vacuum THEN Unlock(@) ELSE @]
    /\ guard' = [guard EXCEPT ![c] = NO_LOCK_HELD]
    /\ tx' = [tx EXCEPT ![c] = NoTx]
    /\ ckpt' = [ckpt EXCEPT ![c] = NoCheckpoint]
    /\ pc' = [pc EXCEPT ![c] = "idle"]
    /\ view' = [view EXCEPT ![c] = 1]
    /\ UNCHANGED <<shared, pick>>

Rollback(c) ==
    /\ pc[c] = "write"
    /\ RollbackTx(c)
    /\ UNCHANGED <<files, history, durable, doubt, bounds>>

\* A failed write leaves a part of the frames in the file, a failed fsync all of
\* them; the error aborts the statement, which rolls back.
CommitFails(c) ==
    /\ failures < MaxFailures
    /\ failures' = failures + 1
    /\ \/ /\ pc[c] = "frames" /\ "frames" \in FailAt
          /\ \E n \in 0..Cardinality(tx[c].dirty) - 1 :
                wal' = Written(wal, shared.max + 1, SubSeq(CommitFrames(c), 1, n))
          /\ doubt' = {}
       \/ /\ pc[c] = "walsync" /\ "walsync" \in FailAt
          /\ UNCHANGED <<wal, doubt>>
    /\ RollbackTx(c)
    /\ UNCHANGED <<wal_disk, db, db_disk, history, durable, txns, ckpts, crashes>>

-----------------------------------------------------------------------------
(* Checkpoints: WalFile::checkpoint_inner, then Pager::checkpoint_inner.    *)

RestartsLog(m) == m \in {"Restart", "Truncate"}

\* CheckpointState::Start reads the metadata before any lock is taken, and
\* returns at once when there is nothing to copy and no log to restart.
StartCheckpoint(c, m, auto) ==
    /\ IF auto THEN pc[c] = "auto" /\ shared.max > shared.nb
               ELSE pc[c] = "idle" /\ (shared.max > shared.nb \/ RestartsLog(m))
    /\ ckpt' = [ckpt EXCEPT ![c] = [NoCheckpoint EXCEPT !.mode = m, !.auto = auto, !.old = shared.nb]]
    /\ pc' = [pc EXCEPT ![c] = "guard"]
    /\ UNCHANGED <<shared, frame_cache, slot, lock, snap, guard, pick, tx, cache>>
    /\ UNCHANGED <<files, ghosts, txns, failures, crashes>>

Checkpoint(c) ==
    /\ c \in Checkpointers
    /\ \/ /\ ckpts < MaxCheckpoints /\ ckpts' = ckpts + 1
          /\ \E m \in Modes : StartCheckpoint(c, m, FALSE)
       \/ StartCheckpoint(c, "Passive", TRUE) /\ UNCHANGED ckpts

\* should_checkpoint is false: the log is short of the threshold (how many frames
\* that is stays open)
SkipAutoCheckpoint(c) ==
    /\ pc[c] = "auto"
    /\ pc' = [pc EXCEPT ![c] = "idle"]
    /\ UNCHANGED <<shared, frame_cache, slot, lock, snap, guard, pick, tx, ckpt, cache>>
    /\ UNCHANGED <<files, ghosts, bounds>>

\* acquire_checkpoint_guard: checkpoint lock, slot 0 exclusively and, in every
\* mode but Passive, the write lock; VACUUM already holds the checkpoint lock.
GuardKind(c) == IF ckpt[c].mode = "Passive" THEN "read0" ELSE "writer"
GuardFree(c) ==
    /\ ckpt[c].held = "raw" \/ Free(lock["checkpoint"])
    /\ Free(slot[0])
    /\ GuardKind(c) = "read0" \/ Free(lock["write"])

AcquireGuard(c) ==
    /\ pc[c] = "guard" /\ GuardFree(c)
    /\ slot' = [slot EXCEPT ![0] = Exclusive(@)]
    /\ lock' = [lock EXCEPT !["checkpoint"] = Exclusive(@),
                            !["write"] = IF GuardKind(c) = "writer" THEN Exclusive(@) ELSE @]
    /\ ckpt' = [ckpt EXCEPT ![c].held = GuardKind(c), ![c].max = shared.max, ![c].scan = 1]
    /\ pc' = [pc EXCEPT ![c] = "scan"]
    /\ UNCHANGED <<shared, frame_cache, snap, guard, pick, tx, cache>>
    /\ UNCHANGED <<files, ghosts, bounds>>

\* release_checkpoint_guard for what checkpoint c holds (Mutants: slot 0 or the
\* write lock stays locked.)
KeptSlots(c) == slot
ReleasedSlots(c) ==
    IF ckpt[c].held \in {"read0", "writer"} THEN [slot EXCEPT ![0] = Unlock(@)] ELSE slot
KeptWriteLock(c) ==
    [l \in DOMAIN lock |->
        IF \/ l = "checkpoint" /\ ckpt[c].held # "none"
           \/ l = "vacuum" /\ tx[c].vacuum
        THEN Unlock(lock[l]) ELSE lock[l]]
ReleasedLocks(c) ==
    [l \in DOMAIN lock |->
        IF \/ l = "checkpoint" /\ ckpt[c].held # "none"
           \/ l = "write" /\ ckpt[c].held = "writer"
           \/ l = "vacuum" /\ tx[c].vacuum
        THEN Unlock(lock[l]) ELSE lock[l]]

\* A checkpoint that returns, with or without an error: the guard is dropped
\* (VACUUM also gives up the vacuum lock).
EndCheckpoint(c) ==
    /\ lock' = ReleasedLocks(c)
    /\ ckpt' = [ckpt EXCEPT ![c] = NoCheckpoint]
    /\ tx' = [tx EXCEPT ![c] = NoTx]
    /\ pc' = [pc EXCEPT ![c] = "idle"]

\* LimboError::Busy from the guard; the locks taken before it are given back
CheckpointBusy(c) ==
    /\ pc[c] = "guard" /\ ~GuardFree(c)
    /\ EndCheckpoint(c)
    /\ UNCHANGED <<shared, frame_cache, slot, snap, guard, pick, cache>>
    /\ UNCHANGED <<files, ghosts, bounds>>

\* The mark of slot i may be moved (Mutant: with readers on it.)
MovableUnderReaders(i) == ~slot[i].writer
Movable(i) == Free(slot[i])

\* determine_max_safe_checkpoint_frame, one slot at a time: a lower mark that
\* nobody holds is moved out of the way, one that is held bounds the checkpoint.
ScanMark(c) ==
    LET i == ckpt[c].scan
        m == ckpt[c].max
    IN
    /\ pc[c] = "scan" /\ i \in Marks
    /\ IF slot[i].mark < m
       THEN IF Movable(i)
            THEN /\ slot' = [slot EXCEPT ![i].mark = IF i = 1 THEN m ELSE READMARK_NOT_USED]
                 /\ ckpt' = [ckpt EXCEPT ![c].scan = i + 1]
            ELSE /\ ckpt' = [ckpt EXCEPT ![c].scan = i + 1, ![c].max = slot[i].mark]
                 /\ UNCHANGED slot
       ELSE /\ ckpt' = [ckpt EXCEPT ![c].scan = i + 1]
            /\ UNCHANGED slot
    /\ UNCHANGED <<shared, frame_cache, lock, pc, snap, guard, pick, tx, cache>>
    /\ UNCHANGED <<files, ghosts, bounds>>

\* iter_latest_frames: the newest frame of every page between the backfilled
\* frame READ AT THE START and the safe one
ListFrames(c) ==
    /\ pc[c] = "scan" /\ ckpt[c].scan > Slots
    /\ LET latest == [p \in Pages |-> LatestFrame(frame_cache, p, ckpt[c].old + 1, ckpt[c].max)]
       IN  ckpt' = [ckpt EXCEPT ![c].scan = 1, ![c].todo = {<<p, latest[p]>> : p \in {q \in Pages : latest[q] # 0}}]
    /\ pc' = [pc EXCEPT ![c] = "backfill"]
    /\ UNCHANGED <<shared, frame_cache, slot, lock, snap, guard, pick, tx, cache>>
    /\ UNCHANGED <<files, ghosts, bounds>>

\* Processing: a page is copied from this connection's page cache when its tag
\* names the frame and the epoch, else from the WAL; writes complete in any order.
Backfill(c) ==
    /\ pc[c] = "backfill"
    /\ \E t \in ckpt[c].todo :
        LET p == t[1]
            v == IF ValidForCheckpoint(cache[c][p], t[2])
                 THEN cache[c][p].ver ELSE FrameContent(wal, t[2], p)
        IN  /\ db' = [db EXCEPT ![p] = v]
            /\ db_disk' = [db_disk EXCEPT ![p] = @ \union {v}]
            /\ ckpt' = [ckpt EXCEPT ![c].todo = @ \ {t}]
    /\ UNCHANGED <<shared, frame_cache, slot, lock, pc, snap, guard, pick, tx, cache>>
    /\ UNCHANGED <<wal, wal_disk, ghosts, bounds>>

\* DetermineResult: every mode but Passive needs the whole log backfilled;
\* Restart and Truncate then restart it, taking and keeping slots 1..n.
DetermineResult(c) ==
    LET all  == shared.max = ckpt[c].max
        mode == ckpt[c].mode
    IN
    /\ pc[c] = "backfill" /\ ckpt[c].todo = {}
    /\ \/ /\ mode # "Passive" /\ ~all
          /\ EndCheckpoint(c)
          /\ slot' = ReleasedSlots(c)
          /\ UNCHANGED <<shared, frame_cache, snap>>
       \/ /\ RestartsLog(mode) /\ all /\ BusySlots # {}
          /\ EndCheckpoint(c)
          /\ slot' = [ClearedPrefix EXCEPT ![0] = Unlock(@)]
          /\ UNCHANGED <<shared, frame_cache, snap>>
       \/ /\ RestartsLog(mode) /\ all /\ BusySlots = {}
          /\ slot' = [i \in 0..Slots |-> IF i = 0 THEN RestartedMarks(slot)[0]
                                                  ELSE Exclusive(RestartedMarks(slot)[i])]
          /\ shared' = RestartedHeader(shared)
          /\ frame_cache' = [p \in Pages |-> <<>>]
          /\ snap' = [snap EXCEPT ![c] =
                 [Snapshot(RestartedHeader(shared)) EXCEPT !.tx = snap[c].tx]]
          /\ ckpt' = [ckpt EXCEPT ![c].all = TRUE]
          /\ pc' = [pc EXCEPT ![c] = "finalize"]
          /\ UNCHANGED <<lock, tx>>
       \/ /\ ~RestartsLog(mode) /\ (mode = "Passive" \/ all)
          /\ ckpt' = [ckpt EXCEPT ![c].all = all]
          /\ pc' = [pc EXCEPT ![c] = "finalize"]
          /\ UNCHANGED <<shared, frame_cache, slot, snap, lock, tx>>
    /\ UNCHANGED <<guard, pick, cache>>
    /\ UNCHANGED <<files, ghosts, bounds>>

\* CheckpointState::Finalize: slots 1..n are unlocked after a restart, the epoch
\* is bumped, and the guard is kept only if everything was backfilled.  The
\* pager then syncs the database file unless nothing was copied.
FinalizeWal(c) ==
    LET mode   == ckpt[c].mode
        copied == ckpt[c].max > ckpt[c].old
        keeps  == ckpt[c].all
    IN
    /\ pc[c] = "finalize"
    /\ shared' = [shared EXCEPT !.epoch = @ + 1]
    /\ slot' = [i \in 0..Slots |->
            IF \/ i > 0 /\ RestartsLog(mode)
               \/ i = 0 /\ ~keeps
            THEN Unlock(slot[i]) ELSE slot[i]]
    /\ lock' = IF keeps THEN lock ELSE ReleasedLocks(c)
    /\ ckpt' = IF keeps THEN ckpt ELSE [ckpt EXCEPT ![c].held = "none"]
    /\ pc' = [pc EXCEPT ![c] =
            CASE mode = "Truncate" -> IF SyncMode = "Off" /\ ~tx[c].vacuum THEN "truncate" ELSE "dbsync"
              [] mode # "Truncate" /\ (~copied \/ SyncMode = "Off") -> "finish"
              [] OTHER -> "dbsync"]
    /\ UNCHANGED <<frame_cache, snap, guard, pick, tx, cache>>
    /\ UNCHANGED <<files, ghosts, bounds>>

\* SyncDbFile and next_post_sync_checkpoint_phase
SyncDbFile(c) ==
    /\ pc[c] = "dbsync"
    /\ db_disk' = [p \in Pages |-> {db[p]}]
    /\ pc' = [pc EXCEPT ![c] = CASE ckpt[c].mode = "Truncate" -> "truncate"
                                 [] ckpt[c].mode = "Restart" -> "finish"
                                 [] OTHER -> "backfilled"]
    /\ UNCHANGED <<shared, frame_cache, slot, lock, snap, guard, pick, tx, ckpt, cache>>
    /\ UNCHANGED <<wal, wal_disk, db, ghosts, bounds>>

\* The frame up to which this checkpoint has copied (Mutant: the last one of the
\* log.)
LastFrame(c) == shared.max
BackfilledTo(c) == ckpt[c].max

\* ReadDbIdentity and PublishBackfill: a store, under no lock of its own
PublishBackfill(c) ==
    /\ pc[c] = "backfilled"
    /\ shared' = [shared EXCEPT !.nb = BackfilledTo(c)]
    /\ pc' = [pc EXCEPT ![c] = "finish"]
    /\ UNCHANGED <<frame_cache, slot, lock, snap, guard, pick, tx, ckpt, cache>>
    /\ UNCHANGED <<files, ghosts, bounds>>

\* TruncateWalFile: the log is marked uninitialized and cut to zero bytes, then
\* (a second step) synced
TruncateWal(c) ==
    /\ pc[c] = "truncate"
    /\ shared' = [shared EXCEPT !.init = FALSE]
    /\ wal' = [gen |-> NoHeader, frames |-> <<>>]
    /\ pc' = [pc EXCEPT ![c] = "truncated"]
    /\ UNCHANGED <<frame_cache, slot, lock, snap, guard, pick, tx, ckpt, cache>>
    /\ UNCHANGED <<wal_disk, db, db_disk, ghosts, bounds>>

SyncTruncatedWal(c) ==
    /\ pc[c] = "truncated"
    /\ wal_disk' = wal
    /\ pc' = [pc EXCEPT ![c] = "finish"]
    /\ UNCHANGED <<shared, frame_cache, slot, lock, snap, guard, pick, tx, ckpt, cache>>
    /\ UNCHANGED <<wal, db, db_disk, ghosts, bounds>>

\* CheckpointPhase::Finalize: an explicit checkpoint empties the page cache
FinishCheckpoint(c) ==
    /\ pc[c] = "finish"
    /\ cache' = IF ckpt[c].auto THEN cache ELSE [cache EXCEPT ![c] = EmptyCache]
    /\ slot' = ReleasedSlots(c)
    /\ EndCheckpoint(c)
    /\ UNCHANGED <<shared, frame_cache, snap, guard, pick>>
    /\ UNCHANGED <<files, ghosts, bounds>>

\* A failed write, fsync or truncation: the error drops the guard and
\* cleanup_after_checkpoint_failure resets the state machine.
CheckpointFails(c) ==
    /\ failures < MaxFailures
    /\ failures' = failures + 1
    /\ \/ pc[c] = "backfill" /\ ckpt[c].todo # {} /\ "backfill" \in FailAt
       \/ pc[c] = "dbsync" /\ "dbsync" \in FailAt
       \/ pc[c] \in {"truncate", "truncated"} /\ "truncate" \in FailAt
    /\ slot' = ReleasedSlots(c)
    /\ EndCheckpoint(c)
    /\ shared' = IF pc[c] = "truncate" THEN [shared EXCEPT !.init = FALSE] ELSE shared
    /\ UNCHANGED <<frame_cache, snap, guard, pick, cache>>
    /\ UNCHANGED <<files, ghosts, txns, ckpts, crashes>>

-----------------------------------------------------------------------------
(* In-place VACUUM.                                                         *)

\* Preflight: the checkpoint lock, before any expensive work
BeginVacuum(c) ==
    /\ pc[c] = "idle" /\ c \in Vacuumers
    /\ txns < MaxTxn
    /\ Free(lock["checkpoint"])
    /\ lock' = [lock EXCEPT !["checkpoint"] = Exclusive(@)]
    /\ ckpt' = [ckpt EXCEPT ![c] = [NoCheckpoint EXCEPT !.held = "raw"]]
    /\ pc' = [pc EXCEPT ![c] = "vacuum"]
    /\ UNCHANGED <<shared, frame_cache, slot, snap, guard, pick, tx, cache>>
    /\ UNCHANGED <<files, ghosts, bounds>>

\* begin_vacuum_blocking_tx: the vacuum lock exclusively, a fresh snapshot and
\* the write lock.  Every page of the database is rewritten.
BeginVacuumTx(c) ==
    /\ pc[c] = "vacuum" /\ Free(lock["vacuum"])
    /\ txns < MaxTxn
    /\ lock' = [lock EXCEPT !["vacuum"] = Exclusive(@), !["write"] = Exclusive(@)]
    /\ snap' = [snap EXCEPT ![c] = Snapshot(shared)]
    /\ cache' = [cache EXCEPT ![c] = EmptyCache]
    /\ txns' = txns + 1
    /\ tx' = [tx EXCEPT ![c] = [id |-> txns + 1, dirty |-> Pages, spilled |-> {}, vacuum |-> TRUE]]
    /\ view' = [view EXCEPT ![c] = Len(history)]
    /\ pc' = [pc EXCEPT ![c] = "write"]
    /\ UNCHANGED <<shared, frame_cache, slot, guard, pick, ckpt>>
    /\ UNCHANGED <<files, history, durable, doubt, ckpts, failures, crashes>>

\* The vacuum lock is busy (or the copy failed before the transaction): the raw
\* checkpoint lock is given back.
VacuumBusy(c) ==
    /\ pc[c] = "vacuum" /\ (~Free(lock["vacuum"]) \/ txns = MaxTxn)
    /\ EndCheckpoint(c)
    /\ UNCHANGED <<shared, frame_cache, slot, snap, guard, pick, cache>>
    /\ UNCHANGED <<files, ghosts, bounds>>

\* PublishWalCommit: the write lock is released, the vacuum lock is not; the
\* Truncate checkpoint runs under the checkpoint lock taken at the start.
EndVacuumCommit(c) ==
    /\ pc[c] = "committed" /\ tx[c].vacuum
    /\ lock' = [lock EXCEPT !["write"] = Unlock(@)]
    /\ cache' = [cache EXCEPT ![c] = EmptyCache]
    /\ ckpt' = [ckpt EXCEPT ![c] = [NoCheckpoint EXCEPT !.mode = "Truncate", !.held = "raw",
                                                        !.old = shared.nb]]
    /\ pc' = [pc EXCEPT ![c] = "guard"]
    /\ view' = [view EXCEPT ![c] = 1]
    /\ UNCHANGED <<shared, frame_cache, slot, snap, guard, pick, tx>>
    /\ UNCHANGED <<files, history, durable, doubt, bounds>>

-----------------------------------------------------------------------------
(* Crash and recovery.                                                      *)

\* What the file system may keep of the WAL: at least what the last fsync
\* covered, in the order of the checksum chain.  A rewritten header or a
\* truncation that was not synced is there or is lost as a whole.
SurvivingPrefixes(w, n) == {[w EXCEPT !.frames = SubSeq(@, 1, k)] : k \in n..Len(w.frames)}
SyncedPrefix ==
    LET n == Min({Len(wal.frames), Len(wal_disk.frames)})
        same == {k \in 0..n : SubSeq(wal.frames, 1, k) = SubSeq(wal_disk.frames, 1, k)}
    IN  Max(same)
SurvivingWals ==
    IF wal.gen = wal_disk.gen THEN SurvivingPrefixes(wal, SyncedPrefix)
    ELSE {wal_disk} \union SurvivingPrefixes(wal, 0)

\* The recovery scan: the valid frames up to the last commit frame (Mutant: all
\* valid frames.)
LastValid(fs) == Len(fs)
LastCommit(fs) == Max({0} \union {i \in DOMAIN fs : fs[i].commit})
ScannedCache(fs) ==
    [p \in Pages |-> SelectSeq([i \in 1..LastCommit(fs) |-> i], LAMBDA i : fs[i].page = p)]
RecoveredImage(d, fs) ==
    [p \in Pages |-> LET at == {i \in 1..LastCommit(fs) : fs[i].page = p}
                     IN  IF at = {} THEN d[p] ELSE fs[Max(at)].ver]

\* The committed images a crash may leave: the recovered one must be among
\* them, else history is kept and no longer agrees with the files.
RecoveredHistory(img) ==
    LET kept == {i \in durable..Len(history) : history[i] = img}
    IN  IF kept # {} THEN SubSeq(history, 1, Max(kept))
        ELSE IF img \in doubt THEN Append(history, img) ELSE history

\* Every connection is gone; the next open scans the WAL and starts over with
\* nothing backfilled.
Crash ==
    /\ crashes < MaxCrashes
    /\ crashes' = crashes + 1
    /\ \E w \in SurvivingWals, d \in [Pages -> UNION {db_disk[p] : p \in Pages}] :
        /\ \A p \in Pages : d[p] \in db_disk[p]
        /\ wal' = w /\ wal_disk' = w
        /\ db' = d /\ db_disk' = [p \in Pages |-> {d[p]}]
        /\ frame_cache' = ScannedCache(w.frames)
        /\ shared' = [max |-> LastCommit(w.frames), nb |-> 0,
                      seq |-> IF w.gen = NoHeader THEN 0 ELSE w.gen, tx |-> 0,
                      hdr |-> w.gen # NoHeader, init |-> w.gen # NoHeader, epoch |-> 0]
        /\ history' = RecoveredHistory(RecoveredImage(d, w.frames))
    /\ durable' = Len(history') /\ doubt' = {}
    /\ slot' = EmptySlots /\ lock' = EmptyLocks
    /\ pc' = [c \in Conns |-> "idle"]
    /\ snap' = [c \in Conns |-> NoSnapshot]
    /\ guard' = [c \in Conns |-> NO_LOCK_HELD]
    /\ pick' = [c \in Conns |-> NoPick]
    /\ tx' = [c \in Conns |-> NoTx]
    /\ ckpt' = [c \in Conns |-> NoCheckpoint]
    /\ cache' = [c \in Conns |-> EmptyCache]
    /\ view' = [c \in Conns |-> 1]
    /\ UNCHANGED <<txns, ckpts, failures>>

-----------------------------------------------------------------------------
Transaction(c) ==
    \/ BeginRead(c) \/ ChooseMark(c) \/ LockMark(c) \/ RetryRead(c) \/ EndRead(c)
    \/ \E p \in Pages : ReadPage(c, p) \/ Modify(c, p) \/ SpillPage(c, p)
    \/ BeginWriteTx(c) \/ TryRestartLog(c)
    \/ PrepareWal(c) \/ PrepareWalSync(c) \/ WriteFrames(c) \/ SyncWal(c)
    \/ WalCommitDone(c) \/ EndCommit(c) \/ Rollback(c) \/ CommitFails(c)

CheckpointStep(c) ==
    \/ Checkpoint(c) \/ SkipAutoCheckpoint(c) \/ AcquireGuard(c) \/ CheckpointBusy(c)
    \/ ScanMark(c) \/ ListFrames(c) \/ Backfill(c) \/ DetermineResult(c)
    \/ FinalizeWal(c) \/ SyncDbFile(c) \/ PublishBackfill(c)
    \/ TruncateWal(c) \/ SyncTruncatedWal(c) \/ FinishCheckpoint(c) \/ CheckpointFails(c)

VacuumStep(c) ==
    BeginVacuum(c) \/ BeginVacuumTx(c) \/ VacuumBusy(c) \/ EndVacuumCommit(c)

Next == (\E c \in Conns : Transaction(c) \/ CheckpointStep(c) \/ VacuumStep(c)) \/ Crash

Spec == Init /\ [][Next]_vars

-----------------------------------------------------------------------------
(* Properties.                                                              *)

WriteSteps == {"restart", "write", "header", "frames", "walsync", "publish", "committed"}
CheckpointSteps == {"guard", "scan", "backfill", "finalize", "dbsync", "backfilled",
                    "truncate", "truncated", "finish"}

\* The metadata, the frame cache, the lock words and every connection's local
\* state have the shape the code gives them.
TypeOK ==
    /\ shared \in [max : 0..MaxFrames, nb : 0..MaxFrames, seq : 0..NoHeader - 1,
                   tx : 0..MaxTxn, hdr : BOOLEAN, init : BOOLEAN, epoch : Nat]
    /\ \A p \in Pages : \A i \in DOMAIN frame_cache[p] : frame_cache[p][i] \in 1..MaxFrames
    /\ slot \in [0..Slots -> [writer : BOOLEAN, readers : 0..Cardinality(Conns),
                              mark : 0..READMARK_NOT_USED]]
    /\ \A l \in DOMAIN lock : lock[l] \in [writer : BOOLEAN, readers : 0..Cardinality(Conns)]
    /\ pc \in [Conns -> {"idle", "choose", "lock", "read", "auto", "vacuum"}
                        \union WriteSteps \union CheckpointSteps]
    /\ guard \in [Conns -> 0..NO_LOCK_HELD]
    /\ \A c \in Conns : tx[c].dirty \subseteq Pages /\ tx[c].spilled \subseteq tx[c].dirty
    /\ db \in Images
    /\ \A i \in DOMAIN history : history[i] \in Images
    /\ durable \in DOMAIN history

\* A page read by a connection in a transaction, now or later, from its page
\* cache, the WAL or the database file, is the page as of the commit the
\* transaction began at (its own pages: as it wrote them), however many commits,
\* checkpoints and log restarts have happened since.
SeesItsSnapshot(c) ==
    \A p \in Pages :
        LET mine == p \in tx[c].dirty
        IN  PageSeen(c, p) = IF mine /\ (c \in Caching \/ p \in tx[c].spilled)
                             THEN tx[c].id ELSE history[view[c]][p]
ReadersSeeTheirSnapshot ==
    \A c \in Conns : pc[c] \in {"read", "restart", "write", "header"} /\ ~tx[c].vacuum
                        => SeesItsSnapshot(c)

\* The image a read transaction beginning now would be given: the published
\* frames that are not backfilled, over the database file.
CurrentImage ==
    [p \in Pages |-> LET f == LatestFrame(frame_cache, p, shared.nb + 1, shared.max)
                     IN  IF f = 0 THEN db[p] ELSE FrameContent(wal, f, p)]

\* No commit is lost or torn, by a checkpoint, a restarted or truncated log, a
\* rollback, a failure or a crash: what the files and the frame cache give a new
\* reader is the last committed image.
CurrentIsLastCommit == CurrentImage = Last(history)

\* The lock words are the sum of what connections hold: no path through a busy
\* lock, an error or a failed checkpoint leaks a lock or releases it twice.
ReadHolders(i) == {c \in Conns : guard[c] = i}
GuardHolders(kinds) == {c \in Conns : ckpt[c].held \in kinds}
Restarting == {c \in Conns : pc[c] = "finalize" /\ RestartsLog(ckpt[c].mode)}
LockWordsMatchHolders ==
    /\ \A i \in 0..Slots :
        /\ slot[i].readers = Cardinality(ReadHolders(i))
        /\ slot[i].writer <=> (IF i = 0 THEN GuardHolders({"read0", "writer"}) ELSE Restarting) # {}
        /\ ~(slot[i].writer /\ slot[i].readers > 0)
    /\ lock["write"].writer <=>
          \E c \in Conns : pc[c] \in WriteSteps \/ ckpt[c].held = "writer"
    /\ Cardinality({c \in Conns : pc[c] \in WriteSteps} \union GuardHolders({"writer"})) <= 1
    /\ Cardinality(GuardHolders({"read0", "writer", "raw"})) = IF lock["checkpoint"].writer THEN 1 ELSE 0
    /\ lock["vacuum"].readers =
          Cardinality({c \in Conns : pc[c] \in {"choose", "lock"} \/ guard[c] # NO_LOCK_HELD})

\* While VACUUM holds the vacuum lock nobody else reads, writes or checkpoints
\* (begin_vacuum_blocking_tx asserts that the read marks and the write lock are
\* free once it has the lock).
VacuumAlone ==
    \A c \in Conns : tx[c].vacuum =>
        \A o \in Conns \ {c} :
            /\ guard[o] = NO_LOCK_HELD /\ pc[o] \notin WriteSteps
            /\ ckpt[o].held = "none"

\* A clean cached page whose tag names a published frame of this epoch holds that
\* frame's content: a checkpoint may copy it instead of the frame (checkpoint_inner
\* asserts it in debug builds, for the frames a checkpoint meets).
CachedTagsAreTrue ==
    \A c \in Caching, p \in Pages :
        LET pg == cache[c][p]
        IN  ValidForCheckpoint(pg, pg.frame) /\ pg.frame \in 1..shared.max
                => pg.ver = FrameContent(wal, pg.frame, p)

\* A read mark is never changed while a reader holds its slot
\* (determine_max_safe_checkpoint_frame: "We never modify slot values while a
\* reader holds that slot's lock").
HeldMarksStay ==
    [][\A i \in Marks : slot[i].readers > 0 /\ slot'[i].readers > 0
            => slot'[i].mark = slot[i].mark]_vars

\* The frame a lookup finds for a page holds that page ("Frame cache maps a Page
\* to all the frames it has stored in WAL in ascending order").
FrameCacheTrue ==
    \A p \in Pages :
        LET f == LatestFrame(frame_cache, p, shared.nb + 1, shared.max)
        IN  f # 0 => wal.frames[f].page = p

\* try_restart_log_before_write asserts "backfills can't be more than max_frame".
BackfillsWithinLog == shared.nb <= shared.max

\* The image a connection in a read transaction sees through its snapshot, pages
\* it has written itself aside
ImageSeen(c) ==
    IF guard[c] = NO_LOCK_HELD THEN <<>>
    ELSE [p \in Pages |-> IF p \in tx[c].dirty THEN history[view[c]][p] ELSE PageSeen(c, p)]

\* The log with its checkpoints, restarts and spills implements the store of
\* whole images: the last committed image is what the files and the frame cache
\* give a new reader, and a reader's image is what its lookups find.
Store == INSTANCE SnapshotStore WITH
    Contents <- 0..MaxTxn, Readers <- Conns, NoImage <- <<>>,
    committed <- Append(Front(history), CurrentImage),
    seen <- [c \in Conns |-> ImageSeen(c)]
ImplementsSnapshotStore == Store!Spec

=============================================================================
