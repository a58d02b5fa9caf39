------------------------- MODULE MvCheckpointProofs -------------------------
(***************************************************************************)
(* blocking_checkpoint_lock does what the checkpoint needs of it: what was *)
(* collected when the lock was taken is what would be collected at every   *)
(* later step, for any rows, connections, checkpointers, failures and      *)
(* crashes.  And the replay boundary: the one in memory is the one in the  *)
(* metadata table, the clock is past it and past every frame a bootstrap   *)
(* would replay, and it never goes back.  Last, the types, and the clock   *)
(* past every version in memory, the replayed ones too.                    *)
(***************************************************************************)
EXTENDS MvCheckpoint, Extrema

(* The fields of a checkpoint and of a transaction.                         *)
IsCheckpoint(m) ==
    m = [state |-> m.state, old |-> m.old, new |-> m.new, writes |-> m.writes,
         backfilled |-> m.backfilled]
IsTx(t) == t = [state |-> t.state, ts |-> t.ts, writes |-> t.writes]

Shapes ==
    /\ ckpt = [k \in Checkpointers |-> ckpt[k]]
    /\ \A k \in Checkpointers : IsCheckpoint(ckpt[k])
    /\ tx = [c \in Conns |-> tx[c]]
    /\ \A c \in Conns : IsTx(tx[c])

(* Before the bootstrap is over there is no transaction and no checkpoint.  *)
NobodyBeforeBoot ==
    boot # "up" => /\ \A k \in Checkpointers : ckpt[k].state = "idle"
                   /\ \A c \in Conns : tx[c].state = "idle"

(* The lock is held by one checkpoint alone or by transactions.             *)
LockExcludes ==
    \A k \in Checkpointers :
      Holds(k) => /\ \A c \in Conns : ~Reading(c)
                  /\ \A j \in Checkpointers : Holds(j) => j = k

LockInv == Shapes /\ NobodyBeforeBoot /\ LockExcludes /\ CollectedStaysCurrent

-----------------------------------------------------------------------------
(* A step of a transaction keeps the invariant: one begins only when no     *)
(* checkpoint has the lock, and only an open one changes the chains.        *)
LEMMA TransactionStep ==
    ASSUME LockInv, boot' = boot, ckpt' = ckpt,
           tx' = [c \in Conns |-> tx'[c]],
           \A c \in Conns : IsTx(tx'[c]),
           \A c \in Conns : tx'[c].state # "idle" =>
                              Reading(c) \/ (boot = "up" /\ read_lock_free),
           versions' = versions \/ \E c \in Conns : Reading(c)
    PROVE  LockInv'
<1>1. Shapes' /\ NobodyBeforeBoot' /\ LockExcludes'
  BY DEF LockInv, Shapes, NobodyBeforeBoot, LockExcludes, Holds, Reading, read_lock_free
<1>2. ASSUME NEW k \in Checkpointers, Holds(k)
      PROVE  versions' = versions
  BY <1>2 DEF LockInv, LockExcludes, Reading
<1>3. CollectedStaysCurrent'
  BY <1>2 DEF LockInv, CollectedStaysCurrent, Holds
<1> QED BY <1>1, <1>3 DEF LockInv

(* A step of checkpoint k that goes on with the lock, takes it or gives it  *)
(* back keeps the invariant: only who has the lock changes the chains, and  *)
(* who goes on with it has just what it would collect.                      *)
LEMMA CheckpointStep ==
    ASSUME LockInv, NEW k \in Checkpointers, NEW m, IsCheckpoint(m),
           boot = "up", boot' = boot, tx' = tx,
           ckpt' = [ckpt EXCEPT ![k] = m],
           versions' = versions \/ Holds(k),
           m.state \in Phases => /\ Holds(k) \/ checkpoint_lock_free
                                /\ m.writes = collect(m.old, m.new, versions')
    PROVE  LockInv'
<1>1. ckpt'[k] = m /\ \A j \in Checkpointers : j # k => ckpt'[j] = ckpt[j]
  BY DEF LockInv, Shapes
<1>2. Shapes'
  BY <1>1 DEF LockInv, Shapes
<1>3. NobodyBeforeBoot'
  BY DEF NobodyBeforeBoot
<1>4. ASSUME NEW j \in Checkpointers, Holds(j)', j # k
      PROVE  Holds(j) /\ ~Holds(k) /\ m.state \notin Phases /\ versions' = versions
  BY <1>1, <1>4 DEF LockInv, LockExcludes, Holds, checkpoint_lock_free, read_lock_free
<1>5. LockExcludes'
  <2>1. ASSUME NEW j \in Checkpointers, Holds(j)', j # k
        PROVE  /\ \A c \in Conns : ~Reading(c)'
               /\ \A i \in Checkpointers : Holds(i)' => i = j
    BY <1>1, <1>4, <2>1 DEF LockInv, LockExcludes, Holds, Reading
  <2>2. ASSUME Holds(k)'
        PROVE  /\ \A c \in Conns : ~Reading(c)'
               /\ \A i \in Checkpointers : Holds(i)' => i = k
    BY <1>1, <2>2 DEF LockInv, LockExcludes, Holds, Reading, checkpoint_lock_free, read_lock_free
  <2> QED BY <2>1, <2>2 DEF LockExcludes
<1>6. CollectedStaysCurrent'
  BY <1>1, <1>4 DEF LockInv, CollectedStaysCurrent, Holds
<1> QED BY <1>2, <1>3, <1>5, <1>6 DEF LockInv

(* A checkpoint that goes on with the lock.                                 *)
LEMMA GoesOn ==
    ASSUME LockInv, NEW k \in Checkpointers, NEW from \in Phases, NEW to, Step(k, from, to),
           boot' = boot, tx' = tx, versions' = versions
    PROVE  LockInv'
<1> DEFINE m == [ckpt[k] EXCEPT !.state = to]
<1>1. IsCheckpoint(ckpt[k]) /\ Holds(k)
  BY DEF LockInv, Shapes, Step, Holds
<1>2. /\ IsCheckpoint(m)
      /\ m.writes = ckpt[k].writes /\ m.old = ckpt[k].old /\ m.new = ckpt[k].new
  BY <1>1 DEF IsCheckpoint
<1>3. ckpt' = [ckpt EXCEPT ![k] = m]
  BY DEF Step
<1>4. boot = "up"
  BY <1>1 DEF LockInv, NobodyBeforeBoot, Holds, Phases
<1>5. m.writes = collect(m.old, m.new, versions')
  BY <1>1, <1>2 DEF LockInv, CollectedStaysCurrent
<1> HIDE DEF m
<1> QED BY <1>1, <1>2, <1>3, <1>4, <1>5, CheckpointStep

(* A checkpoint that ends.                                                  *)
LEMMA Ends ==
    ASSUME LockInv, NEW k \in Checkpointers, ckpt[k].state # "idle",
           ckpt' = [ckpt EXCEPT ![k] = NoCheckpoint],
           boot' = boot, tx' = tx, versions' = versions \/ Holds(k)
    PROVE  LockInv'
<1>1. IsCheckpoint(NoCheckpoint) /\ NoCheckpoint.state \notin Phases
  BY DEF IsCheckpoint, NoCheckpoint, Phases
<1>2. boot = "up"
  BY DEF LockInv, NobodyBeforeBoot
<1> QED BY <1>1, <1>2, CheckpointStep

(* Every step keeps the invariant.                                          *)
LEMMA LockInvStep == LockInv /\ [Next]_vars => LockInv'
<1> SUFFICES ASSUME LockInv, [Next]_vars PROVE LockInv'
  OBVIOUS
<1>t. ASSUME NEW c \in Conns, Transaction(c) PROVE LockInv'
  <2>s. /\ tx = [d \in Conns |-> tx[d]] /\ IsTx(tx[c])
        /\ \A d \in Conns : IsTx(tx[d])
    BY DEF LockInv, Shapes
  <2>n. IsTx(NoTx) /\ NoTx.state = "idle"
    BY DEF IsTx, NoTx
  <2>1. ASSUME NEW writes \in [Rows -> {"keep", "upsert", "delete"}], run_tx(c, writes)
        PROVE  LockInv'
    BY <2>1, <2>s, TransactionStep DEF run_tx, IsTx, Reading
  <2>2. CASE log_tx(c)
    <3>1. tx[c].state # "idle" /\ tx' = [tx EXCEPT ![c].state = "logged"]
      BY <2>2 DEF log_tx
    <3>2. boot' = boot /\ ckpt' = ckpt /\ versions' = versions
      BY <2>2 DEF log_tx
    <3> QED BY <3>1, <3>2, <2>s, TransactionStep DEF IsTx, Reading
  <2>3. CASE commit_end(c)
    <3>1. tx[c].state # "idle" /\ tx' = [tx EXCEPT ![c].state = "publish"]
      BY <2>3 DEF commit_end
    <3>2. boot' = boot /\ ckpt' = ckpt
      BY <2>3 DEF commit_end
    <3> QED BY <3>1, <3>2, <2>s, TransactionStep DEF IsTx, Reading
  <2>4. CASE publish(c)
    <3>1. tx' = [tx EXCEPT ![c] = NoTx] /\ boot' = boot /\ ckpt' = ckpt /\ versions' = versions
      BY <2>4 DEF publish
    <3> QED BY <3>1, <2>s, <2>n, TransactionStep DEF Reading
  <2>5. CASE rollback_tx(c)
    <3>1. tx[c].state # "idle" /\ tx' = [tx EXCEPT ![c] = NoTx] /\ boot' = boot /\ ckpt' = ckpt
      BY <2>5 DEF rollback_tx
    <3> QED BY <3>1, <2>s, <2>n, TransactionStep DEF Reading
  <2> QED BY <1>t, <2>1, <2>2, <2>3, <2>4, <2>5 DEF Transaction
<1>k. ASSUME NEW k \in Checkpointers, Checkpoint(k) PROVE LockInv'
  <2>s. IsCheckpoint(ckpt[k])
    BY DEF LockInv, Shapes
  <2>1. CASE new(k)
    <3> DEFINE m == [state |-> "AcquireLock", old |-> durable_txid_max,
                     new |-> durable_txid_max, writes |-> <<>>, backfilled |-> FALSE]
    <3>1. IsCheckpoint(m) /\ m.state \notin Phases
      BY DEF IsCheckpoint, Phases
    <3>2. ckpt' = [ckpt EXCEPT ![k] = m]
      BY <2>1 DEF new
    <3>3. boot = "up" /\ boot' = boot /\ tx' = tx /\ versions' = versions
      BY <2>1 DEF new, txVars
    <3> HIDE DEF m
    <3> QED BY <3>1, <3>2, <3>3, CheckpointStep
  <2>2. CASE acquire_lock(k)
    <3> DEFINE old == ckpt[k].old
               writes == collect(old, new_boundary(old), versions)
               m == [state |-> IF writes = <<>> THEN "CheckpointWal" ELSE "BeginPagerTxn",
                     old |-> old, new |-> new_boundary(old), writes |-> writes,
                     backfilled |-> FALSE]
    <3>1. /\ IsCheckpoint(m)
          /\ m.writes = writes /\ m.old = old /\ m.new = new_boundary(old)
      <4> HIDE DEF writes
      <4> QED BY DEF IsCheckpoint
    <3>2. ckpt' = [ckpt EXCEPT ![k] = m] /\ checkpoint_lock_free /\ ckpt[k].state # "idle"
      BY <2>2 DEF acquire_lock
    <3>3. boot' = boot /\ tx' = tx /\ versions' = versions
      BY <2>2 DEF acquire_lock, txVars
    <3>4. boot = "up"
      BY <3>2 DEF LockInv, NobodyBeforeBoot
    <3>5. m.writes = collect(m.old, m.new, versions')
      BY <3>1, <3>3
    <3> HIDE DEF m
    <3> QED BY <3>1, <3>2, <3>3, <3>4, <3>5, CheckpointStep
  <2>3. CASE acquire_busy(k)
    BY <2>3, Ends DEF acquire_busy, txVars
  <2>4. CASE write_rows(k)
    BY <2>4, GoesOn DEF write_rows, txVars, Phases
  <2>5. CASE delete_not_found(k)
    BY <2>5, Ends DEF delete_not_found, txVars
  <2>6. CASE prepare_wal_start(k)
    <3>1. ckpt' = ckpt /\ boot' = boot /\ tx' = tx /\ versions' = versions
      BY <2>6 DEF prepare_wal_start, txVars
    <3> QED BY <3>1 DEF LockInv, Shapes, NobodyBeforeBoot, LockExcludes, CollectedStaysCurrent,
                        Holds, Reading
  <2>16. CASE prepare_wal_finish(k)
    <3>1. ckpt' = ckpt /\ boot' = boot /\ tx' = tx /\ versions' = versions
      BY <2>16 DEF prepare_wal_finish, txVars
    <3> QED BY <3>1 DEF LockInv, Shapes, NobodyBeforeBoot, LockExcludes, CollectedStaysCurrent,
                        Holds, Reading
  <2>7. CASE commit_pager_txn(k)
    BY <2>7, GoesOn DEF commit_pager_txn, txVars, Phases
  <2>8. CASE checkpoint_wal(k)
    <3> DEFINE b == backfills(k)
               moved == [ckpt[k] EXCEPT !.state = "SyncDbFile"]
               m == [moved EXCEPT !.backfilled = b]
    <3>0. /\ IsCheckpoint(moved)
          /\ moved.writes = ckpt[k].writes /\ moved.old = ckpt[k].old /\ moved.new = ckpt[k].new
      BY <2>s DEF IsCheckpoint
    <3>1. /\ IsCheckpoint(m)
          /\ m.writes = ckpt[k].writes /\ m.old = ckpt[k].old /\ m.new = ckpt[k].new
      <4> HIDE DEF moved, b
      <4> QED BY <3>0 DEF IsCheckpoint
    <3>2. ckpt' = [ckpt EXCEPT ![k] = m] /\ Holds(k)
      BY <2>8 DEF checkpoint_wal, Holds, Phases
    <3>3. boot' = boot /\ tx' = tx /\ versions' = versions
      BY <2>8 DEF checkpoint_wal, txVars
    <3>4. boot = "up"
      BY <3>2 DEF LockInv, NobodyBeforeBoot, Holds, Phases
    <3>5. m.writes = collect(m.old, m.new, versions')
      BY <3>1, <3>2, <3>3 DEF LockInv, CollectedStaysCurrent
    <3> HIDE DEF m
    <3> QED BY <3>1, <3>2, <3>3, <3>4, <3>5, CheckpointStep
  <2>9. CASE sync_db_file(k)
    BY <2>9, GoesOn DEF sync_db_file, txVars, Phases
  <2>10. CASE truncate_logical_log(k)
    BY <2>10, GoesOn DEF truncate_logical_log, txVars, Phases
  <2>11. CASE fsync_logical_log(k)
    BY <2>11, GoesOn DEF fsync_logical_log, txVars, Phases
  <2>12. CASE truncate_wal(k)
    BY <2>12, GoesOn DEF truncate_wal, txVars, Phases
  <2>13. CASE sync_wal(k)
    BY <2>13, GoesOn DEF sync_wal, txVars, Phases
  <2>14. CASE finalize(k)
    <3>1. ckpt[k].state # "idle" /\ Holds(k)
      BY <2>14 DEF finalize, Holds, Phases
    <3>2. ckpt' = [ckpt EXCEPT ![k] = NoCheckpoint] /\ boot' = boot /\ tx' = tx
      BY <2>14 DEF finalize, txVars
    <3> QED BY <3>1, <3>2, Ends
  <2>15. CASE io_error(k)
    <3>1. ckpt[k].state # "idle"
      BY <2>15 DEF io_error, Holds, Phases
    <3>2. /\ ckpt' = [ckpt EXCEPT ![k] = NoCheckpoint]
          /\ boot' = boot /\ tx' = tx /\ versions' = versions
      BY <2>15 DEF io_error, txVars
    <3> QED BY <3>1, <3>2, Ends
  <2> QED BY <1>k, <2>1, <2>2, <2>3, <2>4, <2>5, <2>6, <2>7, <2>8, <2>9, <2>10, <2>11, <2>12,
             <2>13, <2>14, <2>15, <2>16 DEF Checkpoint
<1>c. ASSUME crash PROVE LockInv'
  <2>1. tx' = [c \in Conns |-> NoTx] /\ ckpt' = [k \in Checkpointers |-> NoCheckpoint]
    BY <1>c DEF crash
  <2>2. IsTx(NoTx) /\ NoTx.state = "idle"
    BY DEF IsTx, NoTx
  <2>3. IsCheckpoint(NoCheckpoint) /\ NoCheckpoint.state = "idle" /\ "idle" \notin Phases
    BY DEF IsCheckpoint, NoCheckpoint, Phases
  <2> QED BY <2>1, <2>2, <2>3 DEF LockInv, Shapes, NobodyBeforeBoot, LockExcludes,
                                  CollectedStaysCurrent, Holds, Reading
<1>b. ASSUME Bootstrap PROVE LockInv'
  <2>1. boot # "up" /\ tx' = tx /\ ckpt' = ckpt
    BY <1>b DEF Bootstrap, nothing_to_complete, reject, reopen, backfill_wal, sync_backfilled,
                update_header, truncate_completed_wal, recover, BootFrame, txVars
  <2>2. "idle" \notin Phases
    BY DEF Phases
  <2> QED BY <2>1, <2>2 DEF LockInv, Shapes, NobodyBeforeBoot, LockExcludes,
                            CollectedStaysCurrent, Holds, Reading
<1>u. ASSUME UNCHANGED vars PROVE LockInv'
  BY <1>u DEF vars, txVars, LockInv, Shapes, NobodyBeforeBoot, LockExcludes,
              CollectedStaysCurrent, Holds, Reading
<1> QED BY <1>t, <1>k, <1>c, <1>b, <1>u DEF Next

(* There is no checkpoint at the start.                                     *)
LEMMA LockInvInit == Init => LockInv
<1> SUFFICES ASSUME Init PROVE LockInv
  OBVIOUS
<1>1. tx = [c \in Conns |-> NoTx] /\ ckpt = [k \in Checkpointers |-> NoCheckpoint] /\ boot = "up"
  BY DEF Init
<1>2. IsTx(NoTx) /\ NoTx.state = "idle"
  BY DEF IsTx, NoTx
<1>3. IsCheckpoint(NoCheckpoint) /\ NoCheckpoint.state = "idle" /\ "idle" \notin Phases
  BY DEF IsCheckpoint, NoCheckpoint, Phases
<1> QED BY <1>1, <1>2, <1>3 DEF LockInv, Shapes, NobodyBeforeBoot, LockExcludes,
                                CollectedStaysCurrent, Holds, Reading

(* The lock is never held by a checkpoint and by anybody else, and what the *)
(* checkpoint collected under it stays current until it ends.               *)
THEOREM CheckpointIsIsolated == Spec => [](LockExcludes /\ CollectedStaysCurrent)
<1>1. LockInv => LockExcludes /\ CollectedStaysCurrent
  BY DEF LockInv
<1> QED BY <1>1, LockInvInit, LockInvStep, PTL DEF Spec

-----------------------------------------------------------------------------
(* The replay boundary.  Timestamps and what the boundary of a checkpoint   *)
(* may be: no other checkpoint moves it unseen, because what is published   *)
(* after a boundary was taken has a later timestamp.                        *)

Stamp == 0 .. MaxTs

StampTypes ==
    /\ clock \in 1 .. MaxTs + 1
    /\ last_committed_tx_ts \in Stamp /\ durable_txid_max \in Stamp
    /\ \A c \in Conns : tx[c].ts \in Stamp
    /\ \A k \in Checkpointers : ckpt[k].old \in Stamp /\ ckpt[k].new \in Stamp

PageTypes ==
    /\ Meta \in DOMAIN db /\ db[Meta] \in Stamp /\ db_synced[Meta] \in Stamp
    /\ \A w \in {wal, wal_synced} : Meta \in DOMAIN w => w[Meta] \in Stamp

(* The log: frames with timestamps; the writer owns no more than there is,  *)
(* and the frame of a commit that is under way lies just behind.            *)
IsSequence(s) == \E S : s \in Seq(S)

IsFrame(f) == f = [ts |-> f.ts, valid |-> f.valid, ops |-> f.ops] /\ f.ts \in Stamp

IsLogFile(file) ==
    /\ file = [header |-> file.header, frames |-> file.frames]
    /\ IsSequence(file.frames)
    /\ \A i \in 1 .. Len(file.frames) : IsFrame(file.frames[i])

LogWriter ==
    /\ IsLogFile(log) /\ IsLogFile(log_synced)
    /\ log_offset \in 0 .. Len(log.frames)
    /\ \A c \in Conns :
         tx[c].state = "logged" => commit_lock = c /\ Len(log.frames) = log_offset + 1

(* The clock is past everything, an open transaction past the boundary.     *)
FramesPast ==
    \A i \in 1 .. Len(log.frames) :
      (\A j \in 1 .. i : log.frames[j].valid) => clock > log.frames[i].ts

ClockPast ==
    boot = "up" =>
      /\ clock > durable_txid_max /\ clock > last_committed_tx_ts
      /\ \A c \in Conns : Reading(c) => durable_txid_max < tx[c].ts /\ tx[c].ts < clock
      /\ FramesPast

(* The boundary a checkpoint started from is the one in force, or the       *)
(* watermark has reached that one; what it collected has the new boundary   *)
(* unless that is the one in force; once committed, it is.                  *)
Staging == {"BeginPagerTxn", "CommitPagerTxn"}

BoundaryOf(m, durable, watermark, restarted) ==
    /\ m.state = "AcquireLock" =>
         m.old <= durable /\ (durable <= m.old \/ durable <= watermark)
    /\ m.state \in Staging =>
         /\ durable <= m.new /\ (m.new = durable \/ m.new <= watermark)
         /\ Meta \in DOMAIN m.writes => m.writes[Meta] = m.new
         /\ Meta \notin DOMAIN m.writes => m.new = durable
    /\ m.state \in Phases \ Staging => m.new = durable
    /\ m.state \in Phases \ (Staging \cup {"CheckpointWal"}) => restarted

CkptBoundary ==
    \A k \in Checkpointers :
      BoundaryOf(ckpt[k], durable_txid_max, last_committed_tx_ts, wal_restarted)

(* What the bootstrap has done with the WAL.                                *)
BootFiles ==
    /\ boot = "replay" => wal = <<>>
    /\ boot # "up" => (wal_restarted <=> wal = <<>>)
    /\ boot \in {"sync_db", "update_header", "truncate_wal"} =>
         ~wal_restarted /\ (Meta \in DOMAIN wal => db[Meta] = wal[Meta])

BoundInv ==
    /\ StampTypes /\ PageTypes /\ LogWriter /\ ClockPast
    /\ CkptBoundary /\ BootFiles /\ BoundaryAgrees

(* An open transaction, a checkpoint under way: the store is up.            *)
LEMMA ActorsNeedTheStore ==
    ASSUME LockInv
    PROVE  /\ \A c \in Conns : tx[c].state # "idle" => boot = "up"
           /\ \A k \in Checkpointers : ckpt[k].state # "idle" => boot = "up"
  BY DEF LockInv, NobodyBeforeBoot

(* What a checkpoint collects holds the boundary when it is a new one.      *)
LEMMA CollectedBoundary ==
    ASSUME NEW old \in Nat, NEW b \in Nat, NEW chains
    PROVE  /\ b <= old => Meta \notin DOMAIN collect(old, b, chains)
           /\ b > old => /\ Meta \in DOMAIN collect(old, b, chains)
                         /\ collect(old, b, chains)[Meta] = b
  <1>1. Meta \notin DOMAIN row_writes(old, chains)
    BY MvCheckpointAssumption DEF row_writes
  <1>2. PICK w : w = row_writes(old, chains)
    OBVIOUS
  <1>3. collect(old, b, chains) = IF b <= old THEN w ELSE over([p \in {Meta} |-> b], w)
    BY <1>2 DEF collect
  <1>4. /\ DOMAIN over([p \in {Meta} |-> b], w) = {Meta} \cup DOMAIN w
        /\ over([p \in {Meta} |-> b], w)[Meta] = b
    BY DEF over
  <1> QED  BY <1>1, <1>2, <1>3, <1>4

(* next_record stops at the first frame that is not valid.                  *)
LEMMA ValidFrames ==
    ASSUME NEW file, IsLogFile(file)
    PROVE  /\ DOMAIN valid_frames(file) = 1 .. Len(valid_frames(file))
           /\ Len(valid_frames(file)) \in 0 .. Len(file.frames)
           /\ \A i \in 1 .. Len(valid_frames(file)) :
                /\ valid_frames(file)[i] = file.frames[i] /\ file.frames[i].valid
           /\ \A i \in 1 .. Len(file.frames) :
                (\A j \in 1 .. i : file.frames[j].valid) => i \in 1 .. Len(valid_frames(file))
  <1> DEFINE s == file.frames
             I == {i \in 1 .. Len(s) : ~s[i].valid}
  <1>0. PICK S : s \in Seq(S)
    BY DEF IsLogFile, IsSequence
  <1>1. s \in Seq(S) /\ Len(s) \in Nat /\ DOMAIN s = 1 .. Len(s)
    BY <1>0
  <1>2. first_invalid(file) = IF I # {} THEN Min(I) ELSE 0
    BY DEF first_invalid, SelectInSeq
  <1>3. CASE I = {}
    <2>1. valid_frames(file) = s
      BY <1>2, <1>3 DEF valid_frames
    <2> QED  BY <1>1, <1>3, <2>1
  <1>4. CASE I # {}
    <2>0. I \subseteq Nat
      OBVIOUS
    <2>1. Min(I) \in I /\ \A y \in I : Min(I) <= y
      <3> HIDE DEF I
      <3> QED  BY <1>4, <2>0, MinOf
    <2>2. PICK m : m = Min(I)
      OBVIOUS
    <2>7. m \in I /\ \A y \in I : m <= y
      BY <2>1, <2>2
    <2>3. m \in 1 .. Len(s) /\ ~s[m].valid /\ \A i \in 1 .. Len(s) : i < m => s[i].valid
      BY <1>1, <2>7
    <2>4. valid_frames(file) = SubSeq(s, 1, m - 1)
      <3>1. first_invalid(file) = m /\ m # 0
        BY <1>2, <1>4, <2>2, <2>3
      <3> QED  BY <3>1 DEF valid_frames
    <2> HIDE DEF I
    <2>5. PICK v : v = SubSeq(s, 1, m - 1)
      OBVIOUS
    <2>6. /\ DOMAIN v = 1 .. m - 1 /\ Len(v) = m - 1
          /\ \A i \in 1 .. m - 1 : v[i] = s[i]
      BY <1>1, <2>3, <2>5
    <2> QED  BY <1>1, <2>3, <2>4, <2>5, <2>6
  <1> QED  BY <1>3, <1>4
LEMMA OverBoundary ==
    ASSUME NEW above, NEW below
    PROVE  /\ Meta \in DOMAIN over(above, below) <=> Meta \in DOMAIN above \/ Meta \in DOMAIN below
           /\ Meta \in DOMAIN above => over(above, below)[Meta] = above[Meta]
           /\ Meta \in DOMAIN below /\ Meta \notin DOMAIN above =>
                over(above, below)[Meta] = below[Meta]
  BY DEF over

-----------------------------------------------------------------------------
(* Transactions and the boundary.                                           *)

(* The frame of a commit goes behind the frames the writer owns.            *)
LogWith(f) == [header |-> TRUE, frames |-> Append(owned_frames, f)]

EndsWith(file, f) ==
    /\ IsLogFile(file) /\ Len(file.frames) = log_offset + 1
    /\ file.frames[log_offset + 1] = f
    /\ \A i \in 1 .. log_offset : file.frames[i] = log.frames[i]

LEMMA FrameAppended ==
    ASSUME LogWriter, NEW f, IsFrame(f), NEW file, file = LogWith(f)
    PROVE  EndsWith(file, f)
  <1>1. PICK s : s = log.frames
    OBVIOUS
  <1>0. PICK S : s \in Seq(S)
    BY <1>1 DEF LogWriter, IsLogFile, IsSequence
  <1>2. PICK n : n = log_offset
    OBVIOUS
  <1>3. s \in Seq(S) /\ n \in 0 .. Len(s) /\ \A i \in 1 .. Len(s) : IsFrame(s[i])
    BY <1>0, <1>1, <1>2 DEF LogWriter, IsLogFile
  <1>4. PICK v : v = SubSeq(s, 1, n)
    OBVIOUS
  <1>5. v \in Seq(S) /\ Len(v) = n /\ \A i \in 1 .. n : v[i] = s[i]
    BY <1>3, <1>4
  <1>6. PICK z : z = Append(v, f)
    OBVIOUS
  <1>7. /\ z \in Seq(S \cup {f}) /\ Len(z) = n + 1 /\ DOMAIN z = 1 .. n + 1
        /\ z[n + 1] = f /\ \A i \in 1 .. n : z[i] = s[i]
    BY <1>3, <1>5, <1>6
  <1>8. IsSequence(z)
    BY <1>7 DEF IsSequence
  <1>9. \A i \in 1 .. Len(z) : IsFrame(z[i])
    <2>1. \A i \in 1 .. n + 1 : i \in 1 .. n \/ i = n + 1
      BY <1>3
    <2>2. \A i \in 1 .. n : i \in 1 .. Len(s)
      BY <1>3
    <2> HIDE DEF IsFrame
    <2> QED  BY <1>3, <1>7, <2>1, <2>2
  <1>10. file = [header |-> TRUE, frames |-> z]
    BY <1>1, <1>2, <1>4, <1>6 DEF owned_frames, LogWith
  <1>11. file.frames = z /\ file = [header |-> file.header, frames |-> file.frames]
    BY <1>10
  <1> QED  BY <1>1, <1>2, <1>7, <1>8, <1>9, <1>11 DEF IsLogFile, EndsWith

(* What a transaction leaves to be shown: the files and the checkpoints     *)
(* stay as they are, and a watermark that moves is past the boundary.       *)
LEMMA TransactionOutcome ==
    ASSUME LockInv, BoundInv, boot = "up", boot' = boot,
           UNCHANGED <<durable_txid_max, ckpt, wal, wal_synced, wal_restarted, db, db_synced>>,
           StampTypes', LogWriter', ClockPast',
           \/ last_committed_tx_ts' = last_committed_tx_ts
           \/ /\ last_committed_tx_ts' >= durable_txid_max
              /\ \A k \in Checkpointers : ~Holds(k)
    PROVE  BoundInv'
  <1>1. PageTypes' /\ BootFiles' /\ BoundaryAgrees'
    BY DEF BoundInv, PageTypes, BootFiles, BoundaryAgrees, Page
  <1>2. CASE last_committed_tx_ts' = last_committed_tx_ts
    BY <1>1, <1>2 DEF BoundInv, CkptBoundary
  <1>3. CASE /\ last_committed_tx_ts' >= durable_txid_max
             /\ \A k \in Checkpointers : ~Holds(k)
    <2>1. ASSUME NEW k \in Checkpointers
          PROVE  BoundaryOf(ckpt[k], durable_txid_max, last_committed_tx_ts', wal_restarted)
      <3>1. BoundaryOf(ckpt[k], durable_txid_max, last_committed_tx_ts, wal_restarted)
        BY DEF BoundInv, CkptBoundary
      <3>2. ckpt[k].state \notin Phases /\ Staging \subseteq Phases
        BY <1>3 DEF Holds, Staging, Phases
      <3>3. durable_txid_max \in Stamp /\ last_committed_tx_ts' \in Stamp
        BY DEF BoundInv, StampTypes
      <3> QED  BY <1>3, <3>1, <3>2, <3>3 DEF BoundaryOf, Stamp
    <2>2. CkptBoundary'
      BY <2>1 DEF CkptBoundary
    <2> QED  BY <1>1, <2>2 DEF BoundInv
  <1> QED  BY <1>2, <1>3

(* The frames stay behind the clock when it moves on.                       *)
LEMMA FramesStayPast ==
    ASSUME LogWriter, StampTypes, FramesPast, log' = log, clock' = clock \/ clock' = clock + 1
    PROVE  FramesPast'
  <1>1. \A i \in 1 .. Len(log.frames) : IsFrame(log.frames[i])
    BY DEF LogWriter, IsLogFile
  <1>2. \A i \in 1 .. Len(log.frames) : log.frames[i].ts \in Stamp
    BY <1>1 DEF IsFrame
  <1>3. clock \in Nat /\ Stamp \subseteq Nat
    BY MvCheckpointAssumption DEF StampTypes, Stamp
  <1>4. ASSUME NEW i \in 1 .. Len(log.frames), clock > log.frames[i].ts
        PROVE  clock' > log.frames[i].ts
    <2>1. PICK t : t = log.frames[i].ts
      OBVIOUS
    <2>2. t \in Nat /\ clock > t
      BY <1>2, <1>3, <1>4, <2>1
    <2>3. clock' > t
      BY <1>3, <2>2
    <2> QED  BY <2>1, <2>3
  <1> QED  BY <1>4 DEF FramesPast

LEMMA BoundTransaction ==
    ASSUME LockInv, BoundInv, NEW c \in Conns, Transaction(c)
    PROVE  BoundInv'
  <1>1. tx = [d \in Conns |-> tx[d]] /\ IsTx(tx[c])
    BY DEF LockInv, Shapes
  <1>2. StampTypes /\ LogWriter /\ ClockPast
    BY DEF BoundInv
  <1>3. NoTx.state = "idle" /\ NoTx.ts = 0 /\ 0 \in Stamp
    BY MvCheckpointAssumption DEF NoTx, Stamp
  <1>4. ASSUME tx[c].state # "idle"
        PROVE  /\ boot = "up" /\ durable_txid_max < tx[c].ts /\ tx[c].ts < clock
               /\ FramesPast /\ \A k \in Checkpointers : ~Holds(k)
    BY <1>2, <1>4, ActorsNeedTheStore DEF ClockPast, Reading, LockInv, LockExcludes
  <1>5. \A d \in Conns : tx[d].state = "logged" => commit_lock = d
    BY <1>2 DEF LogWriter
  <1>6. ASSUME NEW writes \in [Rows -> {"keep", "upsert", "delete"}], run_tx(c, writes)
        PROVE  BoundInv'
    <2>1. /\ boot = "up" /\ clock <= MaxTs /\ clock' = clock + 1
          /\ UNCHANGED <<boot, commit_lock, last_committed_tx_ts, durable_txid_max, ckpt, log,
                         log_synced, log_offset, wal, wal_synced, wal_restarted, db, db_synced>>
      BY <1>6 DEF run_tx, logVars, walVars, dbVars
    <2>2. tx' = [tx EXCEPT ![c] = [state |-> "active", ts |-> clock, writes |-> writes]]
      BY <1>6 DEF run_tx
    <2>3. /\ tx'[c].state = "active" /\ tx'[c].ts = clock
          /\ \A d \in Conns : d # c => tx'[d] = tx[d]
      BY <1>1, <2>2
    <2>4. StampTypes'
      BY <1>2, <2>1, <2>3, MvCheckpointAssumption DEF StampTypes, Stamp
    <2>5. LogWriter'
      BY <1>2, <2>1, <2>3 DEF LogWriter
    <2>6. FramesPast'
      BY <1>2, <2>1, FramesStayPast DEF ClockPast
    <2>7. ClockPast'
      <3>1. clock \in Nat /\ durable_txid_max \in Nat /\ last_committed_tx_ts \in Nat
            /\ \A d \in Conns : tx[d].ts \in Nat
        BY <1>2, MvCheckpointAssumption DEF StampTypes, Stamp
      <3> QED  BY <1>2, <2>1, <2>3, <2>6, <3>1 DEF ClockPast, Reading
    <2> QED  BY <2>1, <2>4, <2>5, <2>7, TransactionOutcome
  <1>7. CASE log_tx(c)
    <2>1. /\ tx[c].state = "active" /\ commit_lock = Nobody /\ commit_lock' = c
          /\ log' = [header |-> TRUE, frames |-> Append(owned_frames, Frame(c))]
          /\ tx' = [tx EXCEPT ![c].state = "logged"]
          /\ UNCHANGED <<boot, clock, last_committed_tx_ts, durable_txid_max, ckpt,
                         log_synced, log_offset, wal, wal_synced, wal_restarted, db, db_synced>>
      BY <1>7 DEF log_tx, walVars, dbVars
    <2>2. /\ tx'[c].state = "logged" /\ tx'[c].ts = tx[c].ts
          /\ \A d \in Conns : d # c => tx'[d] = tx[d]
      BY <1>1, <2>1 DEF IsTx
    <2>3. IsFrame(Frame(c)) /\ Frame(c).ts = tx[c].ts
      <3>1. PICK o : Frame(c) = [ts |-> tx[c].ts, valid |-> log_chained, ops |-> o]
        BY DEF Frame
      <3> QED  BY <1>2, <3>1 DEF IsFrame, StampTypes
    <2>4. /\ IsLogFile(log') /\ Len(log'.frames) = log_offset + 1
          /\ log'.frames[log_offset + 1] = Frame(c)
          /\ \A i \in 1 .. log_offset : log'.frames[i] = log.frames[i]
      <3>1. PICK f, file : f = Frame(c) /\ file = log'
        OBVIOUS
      <3>2. IsFrame(f) /\ file = LogWith(f)
        BY <2>1, <2>3, <3>1 DEF LogWith
      <3>3. EndsWith(file, f)
        BY <1>2, <3>2, FrameAppended
      <3> QED  BY <3>1, <3>3 DEF EndsWith
    <2>5. \A d \in Conns : tx[d].state # "logged"
      BY <1>5, <2>1, MvCheckpointAssumption
    <2>6. StampTypes'
      BY <1>2, <2>1, <2>2 DEF StampTypes
    <2>7. log_offset \in Nat /\ log_offset <= Len(log.frames) /\ Len(log.frames) \in Nat
      BY <1>2 DEF LogWriter, IsLogFile, IsSequence
    <2>8. LogWriter'
      BY <1>2, <2>1, <2>2, <2>4, <2>5, <2>7 DEF LogWriter
    <2>9. FramesPast'
      <3>1. ASSUME NEW i \in 1 .. Len(log'.frames), \A j \in 1 .. i : log'.frames[j].valid
            PROVE  clock > log'.frames[i].ts
        <4>1. CASE i = log_offset + 1
          BY <1>4, <1>2, <2>1, <2>3, <2>4, <4>1 DEF StampTypes, Stamp
        <4>2. CASE i \in 1 .. log_offset
          <5>1. i \in 1 .. Len(log.frames) /\ \A j \in 1 .. i : j \in 1 .. log_offset
            BY <2>7, <4>2
          <5>2. \A j \in 1 .. i : log.frames[j].valid
            BY <2>4, <3>1, <5>1
          <5>3. FramesPast
            BY <1>4, <2>1
          <5> QED  BY <2>4, <4>2, <5>1, <5>2, <5>3 DEF FramesPast
        <4> QED  BY <2>4, <2>7, <4>1, <4>2
      <3> QED  BY <2>1, <3>1 DEF FramesPast
    <2>10. ClockPast'
      BY <1>2, <1>4, <2>1, <2>2, <2>9 DEF ClockPast, Reading
    <2> QED  BY <1>4, <2>1, <2>6, <2>8, <2>10, TransactionOutcome
  <1>8. CASE commit_end(c)
    <2>1. /\ tx[c].state = "logged" /\ log_synced' = log /\ log_offset' = log_offset + 1
          /\ tx' = [tx EXCEPT ![c].state = "publish"] /\ commit_lock' = Nobody
          /\ UNCHANGED <<boot, clock, last_committed_tx_ts, durable_txid_max, ckpt, log,
                         wal, wal_synced, wal_restarted, db, db_synced>>
      BY <1>8 DEF commit_end, walVars, dbVars
    <2>2. /\ tx'[c].state = "publish" /\ tx'[c].ts = tx[c].ts
          /\ \A d \in Conns : d # c => tx'[d] = tx[d]
      BY <1>1, <2>1 DEF IsTx
    <2>3. \A d \in Conns : tx'[d].state # "logged"
      BY <1>5, <2>1, <2>2
    <2>4. StampTypes'
      BY <1>2, <2>1, <2>2 DEF StampTypes
    <2>5. LogWriter'
      BY <1>2, <2>1, <2>3 DEF LogWriter
    <2>6. ClockPast'
      BY <1>2, <1>4, <2>1, <2>2 DEF ClockPast, Reading, FramesPast
    <2> QED  BY <1>4, <2>1, <2>4, <2>5, <2>6, TransactionOutcome
  <1>9. CASE publish(c)
    <2>1. /\ tx[c].state = "publish" /\ last_committed_tx_ts' = tx[c].ts
          /\ tx' = [tx EXCEPT ![c] = NoTx]
          /\ UNCHANGED <<boot, clock, commit_lock, durable_txid_max, ckpt, log, log_synced,
                         log_offset, wal, wal_synced, wal_restarted, db, db_synced>>
      BY <1>9 DEF publish, logVars, walVars, dbVars
    <2>2. tx'[c] = NoTx /\ \A d \in Conns : d # c => tx'[d] = tx[d]
      BY <1>1, <2>1
    <2>3. StampTypes'
      BY <1>2, <1>3, <2>1, <2>2 DEF StampTypes
    <2>4. LogWriter'
      BY <1>2, <1>3, <2>1, <2>2 DEF LogWriter
    <2>5. ClockPast'
      BY <1>2, <1>3, <1>4, <2>1, <2>2 DEF ClockPast, Reading, FramesPast
    <2>6. last_committed_tx_ts' >= durable_txid_max
      BY <1>2, <1>4, <2>1 DEF StampTypes, Stamp
    <2> QED  BY <1>4, <2>1, <2>3, <2>4, <2>5, <2>6, TransactionOutcome
  <1>10. CASE rollback_tx(c)
    <2>0. tx[c].state = "logged" \/ tx[c].state = "active"
      BY <1>10 DEF rollback_tx
    <2>1. /\ tx' = [tx EXCEPT ![c] = NoTx] /\ log_synced' \in {log, log_synced}
          /\ tx[c].state = "logged" \/ commit_lock' = commit_lock
          /\ UNCHANGED <<boot, clock, last_committed_tx_ts, durable_txid_max, ckpt, log,
                         log_offset, wal, wal_synced, wal_restarted, db, db_synced>>
      BY <1>10 DEF rollback_tx, walVars, dbVars
    <2>2. tx'[c] = NoTx /\ \A d \in Conns : d # c => tx'[d] = tx[d]
      BY <1>1, <2>1
    <2>3. StampTypes'
      BY <1>2, <1>3, <2>1, <2>2 DEF StampTypes
    <2>4. \A d \in Conns : tx'[d].state = "logged" => tx[d].state = "logged" /\ commit_lock' = d
      BY <1>3, <1>5, <2>0, <2>1, <2>2
    <2>5. LogWriter'
      BY <1>2, <2>1, <2>4 DEF LogWriter
    <2>6. ClockPast'
      BY <1>2, <1>3, <1>4, <2>0, <2>1, <2>2 DEF ClockPast, Reading, FramesPast
    <2> QED  BY <1>4, <2>0, <2>1, <2>3, <2>5, <2>6, TransactionOutcome
  <1> QED  BY <1>6, <1>7, <1>8, <1>9, <1>10 DEF Transaction

-----------------------------------------------------------------------------
(* Checkpoints and the boundary.                                            *)

(* What a step of checkpoint k leaves to be shown: its own record fits the  *)
(* boundary, which moves up to the watermark at most, and under the lock,   *)
(* and the page of the boundary agrees.                                     *)
LEMMA CheckpointOutcome ==
    ASSUME LockInv, BoundInv, NEW k \in Checkpointers, NEW m,
           boot = "up", boot' = boot, UNCHANGED <<clock, tx, commit_lock, last_committed_tx_ts>>,
           ckpt' = [ckpt EXCEPT ![k] = m], m.old \in Stamp, m.new \in Stamp,
           durable_txid_max' \in Stamp, durable_txid_max <= durable_txid_max',
           durable_txid_max' = durable_txid_max \/ durable_txid_max' <= last_committed_tx_ts,
           Holds(k) \/ UNCHANGED <<durable_txid_max, wal_restarted>>,
           BoundaryOf(m, durable_txid_max', last_committed_tx_ts, wal_restarted'),
           PageTypes', LogWriter', FramesPast', Page(Meta)' = durable_txid_max'
    PROVE  BoundInv'
  <1>1. ckpt'[k] = m /\ \A j \in Checkpointers : j # k => ckpt'[j] = ckpt[j]
    BY DEF LockInv, Shapes
  <1>2. StampTypes
    BY DEF BoundInv
  <1>3. StampTypes'
    BY <1>1, <1>2 DEF StampTypes
  <1>4. ASSUME NEW j \in Checkpointers, j # k
        PROVE  BoundaryOf(ckpt[j], durable_txid_max', last_committed_tx_ts, wal_restarted')
    <2>1. BoundaryOf(ckpt[j], durable_txid_max, last_committed_tx_ts, wal_restarted)
      BY DEF BoundInv, CkptBoundary
    <2>2. CASE UNCHANGED <<durable_txid_max, wal_restarted>>
      BY <2>1, <2>2
    <2>3. CASE Holds(k)
      <3>1. ckpt[j].state \notin Phases /\ Staging \subseteq Phases
        BY <1>4, <2>3 DEF LockInv, LockExcludes, Holds, Staging, Phases
      <3>2. durable_txid_max \in Nat /\ durable_txid_max' \in Nat /\ last_committed_tx_ts \in Nat
            /\ ckpt[j].old \in Nat
        BY <1>2, MvCheckpointAssumption DEF StampTypes, Stamp
      <3> QED  BY <2>1, <3>1, <3>2 DEF BoundaryOf
    <2> QED  BY <2>2, <2>3
  <1>5. CkptBoundary'
    BY <1>1, <1>4 DEF CkptBoundary
  <1>6. ClockPast'
    <2>1. ClockPast
      BY DEF BoundInv
    <2>2. clock > durable_txid_max'
      BY <1>2, <2>1, MvCheckpointAssumption DEF ClockPast, StampTypes, Stamp
    <2>3. \A c \in Conns : Reading(c) => durable_txid_max' < tx[c].ts
      BY <2>1 DEF ClockPast, LockInv, LockExcludes
    <2> QED  BY <2>1, <2>2, <2>3 DEF ClockPast, Reading
  <1>7. BootFiles' /\ BoundaryAgrees'
    BY DEF BootFiles, BoundaryAgrees
  <1> QED  BY <1>3, <1>5, <1>6, <1>7 DEF BoundInv

(* A checkpoint that leaves the boundary alone.                             *)
LEMMA BoundaryStays ==
    ASSUME LockInv, BoundInv, NEW k \in Checkpointers, NEW m,
           boot = "up", boot' = boot, UNCHANGED <<clock, tx, commit_lock, last_committed_tx_ts>>,
           durable_txid_max' = durable_txid_max,
           ckpt' = [ckpt EXCEPT ![k] = m], m.old \in Stamp, m.new \in Stamp,
           Holds(k) \/ UNCHANGED wal_restarted,
           BoundaryOf(m, durable_txid_max, last_committed_tx_ts, wal_restarted'),
           PageTypes', LogWriter', FramesPast', Page(Meta)' = Page(Meta)
    PROVE  BoundInv'
  <1>1. durable_txid_max \in Stamp /\ durable_txid_max <= durable_txid_max
    BY MvCheckpointAssumption DEF BoundInv, StampTypes, Stamp
  <1>2. Page(Meta)' = durable_txid_max'
    BY DEF BoundInv, BoundaryAgrees
  <1> QED  BY <1>1, <1>2, CheckpointOutcome

(* What holds of a checkpoint that is under way.                            *)
LEMMA UnderWay ==
    ASSUME LockInv, BoundInv, NEW k \in Checkpointers, ckpt[k].state # "idle"
    PROVE  /\ boot = "up" /\ Page(Meta) = durable_txid_max
           /\ ckpt[k].old \in Stamp /\ ckpt[k].new \in Stamp
           /\ BoundaryOf(ckpt[k], durable_txid_max, last_committed_tx_ts, wal_restarted)
           /\ PageTypes /\ LogWriter /\ FramesPast
           /\ Holds(k) => \A c \in Conns : tx[c].state # "logged"
  <1>1. boot = "up"
    BY ActorsNeedTheStore
  <1> QED  BY <1>1 DEF BoundInv, StampTypes, CkptBoundary, ClockPast, BoundaryAgrees, LockInv,
                       LockExcludes, Reading

LEMMA NoBoundary ==
    /\ NoCheckpoint.old \in Stamp /\ NoCheckpoint.new \in Stamp
    /\ \A d, w, r : BoundaryOf(NoCheckpoint, d, w, r)
  BY MvCheckpointAssumption DEF NoCheckpoint, Stamp, BoundaryOf, Staging, Phases

(* The pages and the log stay as they are.                                  *)
LEMMA FilesStay ==
    ASSUME PageTypes, LogWriter, FramesPast
    PROVE  /\ UNCHANGED <<wal, wal_synced, db, db_synced>> => PageTypes'
           /\ UNCHANGED <<wal, wal_restarted, db>> => Page(Meta)' = Page(Meta)
           /\ UNCHANGED <<log, log_synced, log_offset, tx, commit_lock>> => LogWriter'
           /\ UNCHANGED <<log, clock>> => FramesPast'
  <1>1. UNCHANGED <<wal, wal_synced, db, db_synced>> => PageTypes'
    BY DEF PageTypes
  <1>2. UNCHANGED <<wal, wal_restarted, db>> => Page(Meta)' = Page(Meta)
    BY DEF Page
  <1>3. UNCHANGED <<log, log_synced, log_offset, tx, commit_lock>> => LogWriter'
    BY DEF LogWriter
  <1>4. UNCHANGED <<log, clock>> => FramesPast'
    BY DEF FramesPast
  <1> QED  BY <1>1, <1>2, <1>3, <1>4

(* A checkpoint that goes on to its next phase.                             *)
LEMMA NextPhase ==
    ASSUME LockInv, BoundInv, NEW k \in Checkpointers, NEW from \in Phases, NEW to,
           Step(k, from, to), boot' = boot, UNCHANGED txVars, UNCHANGED durable_txid_max,
           BoundaryOf([ckpt[k] EXCEPT !.state = to], durable_txid_max, last_committed_tx_ts,
                      wal_restarted'),
           PageTypes', LogWriter', FramesPast', Page(Meta)' = Page(Meta)
    PROVE  BoundInv'
  <1>1. PICK m : m = [ckpt[k] EXCEPT !.state = to]
    OBVIOUS
  <1>2. IsCheckpoint(ckpt[k]) /\ ckpt[k].state # "idle" /\ Holds(k)
    BY DEF LockInv, Shapes, Step, Holds, Phases
  <1>3. m.old = ckpt[k].old /\ m.new = ckpt[k].new
    BY <1>1, <1>2 DEF IsCheckpoint
  <1>4. ckpt' = [ckpt EXCEPT ![k] = m]
    BY <1>1 DEF Step
  <1>5. /\ UNCHANGED <<clock, tx, commit_lock, last_committed_tx_ts>>
        /\ BoundaryOf(m, durable_txid_max, last_committed_tx_ts, wal_restarted')
    BY <1>1 DEF txVars
  <1>6. boot = "up" /\ m.old \in Stamp /\ m.new \in Stamp
    BY <1>2, <1>3, UnderWay
  <1> QED  BY <1>2, <1>4, <1>5, <1>6, BoundaryStays

(* The phases after the pager commit: the boundary is the new one, and the  *)
(* WAL is restarted once it is backfilled.                                  *)
LEMMA LaterPhase ==
    ASSUME LockInv, NEW k \in Checkpointers, NEW durable, NEW watermark, NEW restarted, NEW to,
           BoundaryOf(ckpt[k], durable, watermark, restarted),
           ckpt[k].state \in Phases \ (Staging \cup {"CheckpointWal"}),
           to \in Phases \ (Staging \cup {"CheckpointWal"})
    PROVE  restarted /\ BoundaryOf([ckpt[k] EXCEPT !.state = to], durable, watermark, restarted)
  <1>1. PICK m : m = [ckpt[k] EXCEPT !.state = to]
    OBVIOUS
  <1>2. m.state = to /\ m.old = ckpt[k].old /\ m.new = ckpt[k].new /\ m.writes = ckpt[k].writes
    BY <1>1 DEF LockInv, Shapes, IsCheckpoint
  <1>3. restarted /\ m.new = durable /\ m.state # "AcquireLock"
    BY <1>2 DEF BoundaryOf, Phases
  <1>4. BoundaryOf(m, durable, watermark, restarted)
    BY <1>2, <1>3 DEF BoundaryOf
  <1> QED  BY <1>1, <1>3, <1>4

LEMMA BoundAcquire ==
    ASSUME LockInv, BoundInv, NEW k \in Checkpointers, acquire_lock(k)
    PROVE  BoundInv'
  <1>1. PICK old, lc, D : old = ckpt[k].old /\ lc = last_committed_tx_ts /\ D = durable_txid_max
    OBVIOUS
  <1>2. ckpt[k].state = "AcquireLock"
    BY DEF acquire_lock
  <1>3. PICK boundary : boundary = new_boundary(old)
    OBVIOUS
  <1>4. PICK writes : writes = collect(old, boundary, versions)
    OBVIOUS
  <1>5. PICK m : m = [state |-> IF writes = <<>> THEN "CheckpointWal" ELSE "BeginPagerTxn",
                      old |-> old, new |-> boundary, writes |-> writes, backfilled |-> FALSE]
    OBVIOUS
  <1>6. ckpt' = [ckpt EXCEPT ![k] = m]
    BY <1>1, <1>3, <1>4, <1>5 DEF acquire_lock
  <1>7. /\ boot' = boot /\ UNCHANGED <<clock, tx, commit_lock, last_committed_tx_ts>>
        /\ UNCHANGED <<durable_txid_max, wal, wal_synced, wal_restarted, db, db_synced>>
        /\ UNCHANGED <<log, log_synced, log_offset>>
    BY DEF acquire_lock, txVars, logVars, walVars, dbVars
  <1>8. /\ boot = "up" /\ old \in Stamp
        /\ BoundaryOf(ckpt[k], durable_txid_max, last_committed_tx_ts, wal_restarted)
        /\ PageTypes' /\ LogWriter' /\ FramesPast' /\ Page(Meta)' = Page(Meta)
    BY <1>1, <1>2, <1>7, UnderWay, FilesStay
  <1>9. old <= D /\ (D <= old \/ D <= lc)
    BY <1>1, <1>2, <1>8 DEF BoundaryOf
  <1>10. old \in Nat /\ lc \in Nat /\ D \in Nat /\ lc \in Stamp
    BY <1>1, <1>8, MvCheckpointAssumption DEF BoundInv, StampTypes, Stamp
  <1>11. boundary = IF old >= lc THEN old ELSE lc
    BY <1>1, <1>3, <1>10, MaxOfTwo DEF new_boundary
  <1>12. /\ boundary \in Stamp /\ boundary \in Nat /\ D <= boundary
         /\ boundary = D \/ boundary <= lc
         /\ boundary <= old => boundary = D
    BY <1>8, <1>9, <1>10, <1>11
  <1>13. /\ boundary <= old => Meta \notin DOMAIN writes
         /\ boundary > old => Meta \in DOMAIN writes /\ writes[Meta] = boundary
    BY <1>4, <1>10, <1>12, CollectedBoundary
  <1>14. writes = <<>> => Meta \notin DOMAIN writes
    OBVIOUS
  <1>15. /\ Meta \in DOMAIN writes => writes[Meta] = boundary
         /\ Meta \notin DOMAIN writes => boundary = D
    BY <1>10, <1>12, <1>13
  <1>16. /\ m.old = old /\ m.new = boundary /\ m.writes = writes
         /\ writes = <<>> => m.state = "CheckpointWal"
         /\ writes # <<>> => m.state = "BeginPagerTxn"
    BY <1>5
  <1>17. BoundaryOf(m, D, lc, wal_restarted)
    <2>1. CASE writes = <<>>
      <3>1. m.state = "CheckpointWal" /\ boundary = D
        BY <1>14, <1>15, <1>16, <2>1
      <3> QED  BY <1>16, <3>1 DEF BoundaryOf, Staging, Phases
    <2>2. CASE writes # <<>>
      <3>1. m.state = "BeginPagerTxn"
        BY <1>16, <2>2
      <3> QED  BY <1>12, <1>15, <1>16, <3>1 DEF BoundaryOf, Staging, Phases
    <2> QED  BY <2>1, <2>2
  <1>18. m.old \in Stamp /\ m.new \in Stamp
    BY <1>8, <1>12, <1>16
  <1>19. BoundaryOf(m, durable_txid_max, last_committed_tx_ts, wal_restarted')
    BY <1>1, <1>7, <1>17
  <1> QED  BY <1>6, <1>7, <1>8, <1>18, <1>19, BoundaryStays

(* The pager transaction is committed: the boundary in memory and its page  *)
(* move together.                                                           *)
LEMMA BoundCommit ==
    ASSUME LockInv, BoundInv, NEW k \in Checkpointers, commit_pager_txn(k)
    PROVE  BoundInv'
  <1>1. PICK m : m = [ckpt[k] EXCEPT !.state = "CheckpointWal"]
    OBVIOUS
  <1>2. PICK D, b, w : D = durable_txid_max /\ b = ckpt[k].new /\ w = ckpt[k].writes
    OBVIOUS
  <1>3. /\ ckpt[k].state = "CommitPagerTxn" /\ ~wal_restarted /\ wal_restarted' = wal_restarted
        /\ wal' = over(w, wal) /\ wal_synced' = wal' /\ durable_txid_max' = b
        /\ boot' = boot /\ UNCHANGED <<clock, tx, commit_lock, last_committed_tx_ts>>
        /\ UNCHANGED <<log, log_synced, log_offset, db, db_synced>>
        /\ ckpt' = [ckpt EXCEPT ![k] = m]
    BY <1>1, <1>2 DEF commit_pager_txn, Step, sync_frames, advance_boundary, txVars, logVars, dbVars
  <1>4. /\ boot = "up" /\ Page(Meta) = D /\ ckpt[k].old \in Stamp /\ b \in Stamp
        /\ BoundaryOf(ckpt[k], D, last_committed_tx_ts, wal_restarted)
        /\ PageTypes /\ LogWriter' /\ FramesPast'
    BY <1>2, <1>3, UnderWay, FilesStay
  <1>5. /\ D <= b /\ (b = D \/ b <= last_committed_tx_ts)
        /\ Meta \in DOMAIN w => w[Meta] = b
        /\ Meta \notin DOMAIN w => b = D
    BY <1>2, <1>3, <1>4 DEF BoundaryOf, Staging
  <1>6. m.state = "CheckpointWal" /\ m.old = ckpt[k].old /\ m.new = b
    BY <1>1, <1>2 DEF LockInv, Shapes, IsCheckpoint
  <1>7. BoundaryOf(m, b, last_committed_tx_ts, wal_restarted)
    BY <1>6 DEF BoundaryOf, Staging, Phases
  <1>8. /\ Meta \in DOMAIN wal' <=> Meta \in DOMAIN w \/ Meta \in DOMAIN wal
        /\ Meta \in DOMAIN w => wal'[Meta] = w[Meta]
        /\ Meta \in DOMAIN wal /\ Meta \notin DOMAIN w => wal'[Meta] = wal[Meta]
    BY <1>3, OverBoundary
  <1>9. PageTypes'
    BY <1>3, <1>4, <1>5, <1>8 DEF PageTypes
  <1>10. Page(Meta)' = b
    BY <1>3, <1>4, <1>5, <1>8 DEF Page
  <1>11. Holds(k)
    BY <1>3 DEF Holds, Phases
  <1> QED  BY <1>2, <1>3, <1>4, <1>5, <1>6, <1>7, <1>9, <1>10, <1>11, CheckpointOutcome

(* The WAL is backfilled: its pages are read from the database file now.    *)
LEMMA BoundBackfill ==
    ASSUME LockInv, BoundInv, NEW k \in Checkpointers, checkpoint_wal(k)
    PROVE  BoundInv'
  <1>1. PICK b : b = backfills(k)
    OBVIOUS
  <1>2. PICK m : m = [ckpt[k] EXCEPT !.state = "SyncDbFile", !.backfilled = b]
    OBVIOUS
  <1>3. /\ ckpt[k].state = "CheckpointWal" /\ wal_restarted' = TRUE
        /\ db' = IF b THEN over(wal, db) ELSE db
        /\ boot' = boot /\ UNCHANGED <<clock, tx, commit_lock, last_committed_tx_ts>>
        /\ UNCHANGED <<durable_txid_max, log, log_synced, log_offset, wal, wal_synced, db_synced>>
        /\ ckpt' = [ckpt EXCEPT ![k] = m]
    BY <1>1, <1>2 DEF checkpoint_wal, txVars, logVars
  <1>4. /\ boot = "up" /\ ckpt[k].old \in Stamp /\ ckpt[k].new \in Stamp
        /\ BoundaryOf(ckpt[k], durable_txid_max, last_committed_tx_ts, wal_restarted)
        /\ PageTypes /\ LogWriter' /\ FramesPast'
    BY <1>3, UnderWay, FilesStay
  <1>5. IsCheckpoint(ckpt[k])
    BY DEF LockInv, Shapes
  <1>6. m.state = "SyncDbFile" /\ m.old = ckpt[k].old /\ m.new = ckpt[k].new
    BY <1>2, <1>5 DEF IsCheckpoint
  <1>7. BoundaryOf(m, durable_txid_max, last_committed_tx_ts, wal_restarted')
    BY <1>3, <1>4, <1>6 DEF BoundaryOf, Staging, Phases
  <1>8. b <=> wal # <<>> /\ ~wal_restarted
    BY <1>1 DEF backfills
  <1>9. /\ Meta \in DOMAIN over(wal, db)
        /\ over(wal, db)[Meta] = IF Meta \in DOMAIN wal THEN wal[Meta] ELSE db[Meta]
    BY <1>4, OverBoundary DEF PageTypes
  <1>10. PageTypes'
    BY <1>3, <1>4, <1>9 DEF PageTypes
  <1>11. wal = <<>> => Meta \notin DOMAIN wal
    OBVIOUS
  <1>12. Page(Meta)' = Page(Meta)
    BY <1>3, <1>8, <1>9, <1>11 DEF Page
  <1>13. Holds(k)
    BY <1>3 DEF Holds, Phases
  <1> QED  BY <1>3, <1>4, <1>6, <1>7, <1>10, <1>12, <1>13, BoundaryStays

(* A failed step may have written pages of the WAL to the database file, or *)
(* frames that the WAL does not count: the boundary that is read stays.     *)
LEMMA BoundFailure ==
    ASSUME LockInv, BoundInv, NEW k \in Checkpointers, io_error(k)
    PROVE  BoundInv'
  <1>1. /\ Holds(k) /\ ckpt[k].state # "idle"
        /\ ckpt' = [ckpt EXCEPT ![k] = NoCheckpoint]
        /\ boot' = boot /\ UNCHANGED <<clock, tx, commit_lock, last_committed_tx_ts>>
        /\ UNCHANGED <<durable_txid_max, log, wal, wal_restarted, db_synced>>
        /\ failed_commit(k) /\ failed_backfill(k) /\ failed_truncate(k) /\ failed_fsync(k)
    BY DEF io_error, Holds, Phases, txVars
  <1>2. /\ boot = "up" /\ ckpt[k].new \in Stamp
        /\ BoundaryOf(ckpt[k], durable_txid_max, last_committed_tx_ts, wal_restarted)
        /\ PageTypes /\ LogWriter /\ FramesPast'
        /\ \A c \in Conns : tx[c].state # "logged"
    BY <1>1, UnderWay, FilesStay
  <1>3. log_synced' \in {log, log_synced} /\ log_offset' \in {log_offset, 0}
    BY <1>1 DEF failed_fsync, failed_truncate, reset_writer
  <1>4. LogWriter'
    <2>1. Len(log.frames) \in Nat
      BY <1>2 DEF LogWriter, IsLogFile, IsSequence
    <2> QED  BY <1>1, <1>2, <1>3, <2>1 DEF LogWriter
  <1>5. Meta \in DOMAIN wal_synced' => wal_synced'[Meta] \in Stamp
    <2>1. CASE wal_synced' \in {wal_synced, wal}
      BY <1>2, <2>1 DEF PageTypes
    <2>2. CASE ckpt[k].state = "CommitPagerTxn" /\ wal_synced' = over(ckpt[k].writes, wal)
      <3>1. Meta \in DOMAIN ckpt[k].writes => ckpt[k].writes[Meta] \in Stamp
        BY <1>2, <2>2 DEF BoundaryOf, Staging
      <3> QED  BY <1>2, <2>2, <3>1, OverBoundary DEF PageTypes
    <2> QED  BY <1>1, <2>1, <2>2 DEF failed_commit
  <1>6. /\ Meta \in DOMAIN db'
        /\ db'[Meta] = db[Meta] \/ (~wal_restarted /\ Meta \in DOMAIN wal /\ db'[Meta] = wal[Meta])
    <2>1. CASE db' = db
      BY <1>2, <2>1 DEF PageTypes
    <2>2. CASE /\ ~wal_restarted
               /\ \E done \in SUBSET (DOMAIN wal) :
                    db' = [p \in Pages |-> IF p \in done THEN wal[p] ELSE db[p]]
      <3>1. PICK done \in SUBSET (DOMAIN wal) :
              db' = [p \in Pages |-> IF p \in done THEN wal[p] ELSE db[p]]
        BY <2>2
      <3>2. Meta \in Pages
        BY DEF Pages
      <3> QED  BY <2>2, <3>1, <3>2
    <2> QED  BY <1>1, <2>1, <2>2 DEF failed_backfill
  <1>7. PageTypes'
    BY <1>1, <1>2, <1>5, <1>6 DEF PageTypes
  <1>8. Page(Meta)' = Page(Meta)
    BY <1>1, <1>6 DEF Page
  <1>9. /\ BoundaryOf(NoCheckpoint, durable_txid_max, last_committed_tx_ts, wal_restarted')
        /\ NoCheckpoint.old \in Stamp /\ NoCheckpoint.new \in Stamp
    BY NoBoundary
  <1> QED  BY <1>1, <1>2, <1>4, <1>7, <1>8, <1>9, BoundaryStays

LEMMA BoundCheckpoint ==
    ASSUME LockInv, BoundInv, NEW k \in Checkpointers, Checkpoint(k)
    PROVE  BoundInv'
  <1>0. IsCheckpoint(ckpt[k]) /\ ckpt = [j \in Checkpointers |-> ckpt[j]]
    BY DEF LockInv, Shapes
  <1>1. CASE new(k)
    <2>1. PICK m : m = [state |-> "AcquireLock", old |-> durable_txid_max,
                        new |-> durable_txid_max, writes |-> <<>>, backfilled |-> FALSE]
      OBVIOUS
    <2>2. /\ boot = "up" /\ boot' = boot /\ ckpt' = [ckpt EXCEPT ![k] = m]
          /\ UNCHANGED <<clock, tx, commit_lock, last_committed_tx_ts, durable_txid_max>>
          /\ UNCHANGED <<log, log_synced, log_offset, wal, wal_synced, wal_restarted, db, db_synced>>
      BY <1>1, <2>1 DEF new, txVars, logVars, walVars, dbVars
    <2>3. PageTypes /\ LogWriter /\ FramesPast /\ durable_txid_max \in Stamp
      BY <2>2 DEF BoundInv, ClockPast, StampTypes
    <2>4. PageTypes' /\ LogWriter' /\ FramesPast' /\ Page(Meta)' = Page(Meta)
      BY <2>2, <2>3, FilesStay
    <2>5. durable_txid_max <= durable_txid_max
      BY <2>3, MvCheckpointAssumption DEF Stamp
    <2>6. BoundaryOf(m, durable_txid_max, last_committed_tx_ts, wal_restarted')
      BY <2>1, <2>5 DEF BoundaryOf, Staging, Phases
    <2>7. m.old \in Stamp /\ m.new \in Stamp
      BY <2>1, <2>3
    <2> QED  BY <2>2, <2>4, <2>6, <2>7, BoundaryStays
  <1>2. CASE acquire_lock(k)
    BY <1>2, BoundAcquire
  <1>3. CASE acquire_busy(k) \/ delete_not_found(k)
    <2>1. /\ ckpt[k].state # "idle" /\ boot' = boot /\ ckpt' = [ckpt EXCEPT ![k] = NoCheckpoint]
          /\ UNCHANGED <<clock, tx, commit_lock, last_committed_tx_ts, durable_txid_max>>
          /\ UNCHANGED <<log, log_synced, log_offset, wal, wal_synced, wal_restarted, db, db_synced>>
      BY <1>3 DEF acquire_busy, delete_not_found, txVars, logVars, walVars, dbVars
    <2>2. boot = "up" /\ PageTypes' /\ LogWriter' /\ FramesPast' /\ Page(Meta)' = Page(Meta)
      BY <2>1, UnderWay, FilesStay
    <2> QED  BY <2>1, <2>2, NoBoundary, BoundaryStays
  <1>4. CASE write_rows(k)
    <2>1. /\ Step(k, "BeginPagerTxn", "CommitPagerTxn") /\ ckpt[k].state = "BeginPagerTxn"
          /\ boot' = boot /\ UNCHANGED txVars /\ UNCHANGED durable_txid_max
          /\ UNCHANGED <<clock, tx, commit_lock>> /\ wal_restarted' = wal_restarted
          /\ UNCHANGED <<log, log_synced, log_offset, wal, wal_synced, wal_restarted, db, db_synced>>
      BY <1>4 DEF write_rows, Step, txVars, logVars, walVars, dbVars
    <2>2. /\ BoundaryOf(ckpt[k], durable_txid_max, last_committed_tx_ts, wal_restarted)
          /\ PageTypes' /\ LogWriter' /\ FramesPast' /\ Page(Meta)' = Page(Meta)
      BY <2>1, UnderWay, FilesStay
    <2>3. PICK m : m = [ckpt[k] EXCEPT !.state = "CommitPagerTxn"]
      OBVIOUS
    <2>4. m.state = "CommitPagerTxn" /\ m.new = ckpt[k].new /\ m.writes = ckpt[k].writes
      BY <1>0, <2>3 DEF IsCheckpoint
    <2>5. BoundaryOf(m, durable_txid_max, last_committed_tx_ts, wal_restarted')
      BY <2>1, <2>2, <2>4 DEF BoundaryOf, Staging, Phases
    <2>6. "BeginPagerTxn" \in Phases
      BY DEF Phases
    <2> QED  BY <2>1, <2>2, <2>3, <2>5, <2>6, NextPhase
  <1>5. CASE prepare_wal_start(k) \/ prepare_wal_finish(k)
    <2>1. /\ ckpt[k].state = "CommitPagerTxn" /\ wal_restarted /\ wal' = <<>>
          /\ wal_synced' \in {wal_synced, wal'}
          /\ ckpt' = ckpt /\ boot' = boot
          /\ UNCHANGED <<clock, tx, commit_lock, last_committed_tx_ts, durable_txid_max>>
          /\ UNCHANGED <<log, log_synced, log_offset, db, db_synced>>
      BY <1>5 DEF prepare_wal_start, prepare_wal_finish, txVars, logVars, dbVars
    <2>2. /\ boot = "up" /\ ckpt[k].old \in Stamp /\ ckpt[k].new \in Stamp /\ PageTypes
          /\ BoundaryOf(ckpt[k], durable_txid_max, last_committed_tx_ts, wal_restarted)
          /\ LogWriter' /\ FramesPast'
      BY <2>1, UnderWay, FilesStay
    <2>3. Meta \notin DOMAIN wal'
      BY <2>1
    <2>4. PageTypes' /\ Page(Meta)' = Page(Meta)
      BY <2>1, <2>2, <2>3 DEF PageTypes, Page
    <2>5. BoundaryOf(ckpt[k], durable_txid_max, last_committed_tx_ts, wal_restarted')
      BY <2>1, <2>2 DEF BoundaryOf, Staging, Phases
    <2>6. ckpt' = [ckpt EXCEPT ![k] = ckpt[k]] /\ Holds(k)
      BY <1>0, <2>1 DEF Holds, Phases
    <2>7. PICK m : m = ckpt[k]
      OBVIOUS
    <2> QED  BY <2>1, <2>2, <2>4, <2>5, <2>6, <2>7, BoundaryStays
  <1>6. CASE commit_pager_txn(k)
    BY <1>6, BoundCommit
  <1>7. CASE checkpoint_wal(k)
    BY <1>7, BoundBackfill
  <1>8. CASE \/ sync_db_file(k) \/ truncate_logical_log(k) \/ fsync_logical_log(k)
             \/ truncate_wal(k) \/ sync_wal(k)
    <2>1. /\ boot' = boot /\ UNCHANGED txVars /\ UNCHANGED <<clock, tx, commit_lock>>
          /\ durable_txid_max' = durable_txid_max /\ wal_restarted' = wal_restarted /\ db' = db
          /\ wal' \in {wal, <<>>} /\ wal_synced' \in {wal, wal_synced}
          /\ db_synced' \in {db, db_synced}
          /\ \/ log' = log /\ log_offset' = log_offset
             \/ log' = EmptyLog /\ log_offset' = 0
          /\ log_synced' \in {log, log_synced}
      <3>1. CASE sync_db_file(k)
        BY <3>1 DEF sync_db_file, txVars, logVars, walVars, synced_db_file
      <3>2. CASE truncate_logical_log(k)
        BY <3>2 DEF truncate_logical_log, txVars, walVars, dbVars, reset_writer
      <3>3. CASE fsync_logical_log(k)
        BY <3>3 DEF fsync_logical_log, txVars, walVars, dbVars
      <3>4. CASE truncate_wal(k)
        BY <3>4 DEF truncate_wal, txVars, logVars, dbVars
      <3>5. CASE sync_wal(k)
        BY <3>5 DEF sync_wal, txVars, logVars, dbVars
      <3> QED  BY <1>8, <3>1, <3>2, <3>3, <3>4, <3>5
    <2>2. PICK from \in Phases \ (Staging \cup {"CheckpointWal"}),
               to \in Phases \ (Staging \cup {"CheckpointWal"}) : Step(k, from, to)
      <3>1. {"SyncDbFile", "TruncateLogicalLog", "FsyncLogicalLog", "TruncateWal", "SyncWal",
             "Finalize"} \subseteq Phases \ (Staging \cup {"CheckpointWal"})
        BY DEF Phases, Staging
      <3>2. \/ Step(k, "SyncDbFile", "TruncateLogicalLog")
            \/ Step(k, "TruncateLogicalLog", "FsyncLogicalLog")
            \/ Step(k, "FsyncLogicalLog", "TruncateWal")
            \/ Step(k, "TruncateWal", "SyncWal") \/ Step(k, "SyncWal", "Finalize")
        BY <1>8 DEF sync_db_file, truncate_logical_log, fsync_logical_log, truncate_wal, sync_wal
      <3> HIDE DEF Step
      <3> QED  BY <3>1, <3>2
    <2>3. ckpt[k].state = from /\ from \in Phases /\ from # "idle" /\ Holds(k)
      BY <2>2 DEF Step, Phases, Holds
    <2>4. /\ PageTypes /\ LogWriter /\ FramesPast
          /\ BoundaryOf(ckpt[k], durable_txid_max, last_committed_tx_ts, wal_restarted)
          /\ \A c \in Conns : tx[c].state # "logged"
      BY <2>3, UnderWay
    <2>5. /\ wal_restarted
          /\ BoundaryOf([ckpt[k] EXCEPT !.state = to], durable_txid_max, last_committed_tx_ts,
                        wal_restarted)
      BY <2>2, <2>3, <2>4, LaterPhase
    <2>6. PageTypes'
      BY <2>1, <2>4 DEF PageTypes
    <2>7. Page(Meta)' = Page(Meta)
      BY <2>1, <2>5 DEF Page
    <2>8. IsLogFile(EmptyLog) /\ Len(EmptyLog.frames) = 0
      BY DEF EmptyLog, IsLogFile, IsSequence
    <2>9. LogWriter'
      BY <2>1, <2>4, <2>8 DEF LogWriter
    <2>10. FramesPast'
      BY <2>1, <2>4, <2>8 DEF FramesPast
    <2> QED  BY <2>1, <2>2, <2>3, <2>5, <2>6, <2>7, <2>9, <2>10, NextPhase
  <1>9. CASE finalize(k)
    <2>1. /\ ckpt[k].state = "Finalize" /\ boot' = boot /\ durable_txid_max' = ckpt[k].new
          /\ ckpt' = [ckpt EXCEPT ![k] = NoCheckpoint]
          /\ UNCHANGED <<clock, tx, commit_lock, last_committed_tx_ts>>
          /\ UNCHANGED <<log, log_synced, log_offset, wal, wal_synced, wal_restarted, db, db_synced>>
      BY <1>9 DEF finalize, txVars, logVars, walVars, dbVars
    <2>2. /\ boot = "up" /\ PageTypes' /\ LogWriter' /\ FramesPast' /\ Page(Meta)' = Page(Meta)
          /\ BoundaryOf(ckpt[k], durable_txid_max, last_committed_tx_ts, wal_restarted)
      BY <2>1, UnderWay, FilesStay
    <2>3. durable_txid_max' = durable_txid_max
      BY <2>1, <2>2 DEF BoundaryOf, Staging, Phases
    <2> QED  BY <2>1, <2>2, <2>3, NoBoundary, BoundaryStays
  <1>10. CASE io_error(k)
    BY <1>10, BoundFailure
  <1> QED  BY <1>1, <1>2, <1>3, <1>4, <1>5, <1>6, <1>7, <1>8, <1>9, <1>10 DEF Checkpoint

-----------------------------------------------------------------------------
(* Crash, bootstrap and the boundary.                                       *)

(* A crash may tear the last frame: it keeps its place and its timestamp.   *)
LEMMA TornLog ==
    ASSUME IsLogFile(log), NEW file \in Torn
    PROVE  IsLogFile(file)
  <1>1. PICK s : s = log.frames
    OBVIOUS
  <1>2. PICK n : n = Len(s)
    OBVIOUS
  <1>3. log = [header |-> log.header, frames |-> s]
    BY <1>1 DEF IsLogFile
  <1>4. file = [log EXCEPT !.frames[n].valid = FALSE]
    BY <1>1, <1>2 DEF Torn
  <1>5. PICK S : s \in Seq(S)
    BY <1>1 DEF IsLogFile, IsSequence
  <1>6. \A i \in 1 .. n : IsFrame(s[i])
    BY <1>1, <1>2 DEF IsLogFile
  <1>7. PICK f, g : f = s[n] /\ g = [f EXCEPT !.valid = FALSE]
    OBVIOUS
  <1>8. PICK z : z = [s EXCEPT ![n] = g]
    OBVIOUS
  <1>9. file = [header |-> log.header, frames |-> z]
    BY <1>1, <1>3, <1>4, <1>7, <1>8
  <1>10. file.frames = z /\ file = [header |-> file.header, frames |-> file.frames]
    BY <1>9
  <1>11. /\ z \in Seq(S \cup {g}) /\ Len(z) = n /\ n \in Nat
         /\ \A i \in 1 .. n : z[i] = IF i = n THEN g ELSE s[i]
    <2>1. n \in Nat /\ DOMAIN s = 1 .. n /\ DOMAIN z = 1 .. n /\ \A i \in 1 .. n : s[i] \in S
      BY <1>2, <1>5, <1>8
    <2>2. \A i \in 1 .. n : z[i] = IF i = n THEN g ELSE s[i]
      BY <1>8, <2>1
    <2>3. z = [i \in 1 .. n |-> z[i]]
      BY <1>8, <2>1
    <2>4. \A i \in 1 .. n : z[i] \in S \cup {g}
      BY <2>1, <2>2
    <2>5. z \in [1 .. n -> S \cup {g}]
      BY <2>3, <2>4
    <2>6. z \in Seq(S \cup {g}) /\ Len(z) = n
      BY <2>1, <2>5
    <2> QED  BY <2>1, <2>2, <2>6
  <1>12. n \in 1 .. n => IsFrame(g)
    <2>1. SUFFICES ASSUME n \in 1 .. n  PROVE IsFrame(g)
      OBVIOUS
    <2>2. f = [ts |-> f.ts, valid |-> f.valid, ops |-> f.ops] /\ f.ts \in Stamp
      BY <1>6, <1>7, <2>1 DEF IsFrame
    <2>3. g = [ts |-> f.ts, valid |-> FALSE, ops |-> f.ops]
      BY <1>7, <2>2
    <2> QED  BY <2>2, <2>3 DEF IsFrame
  <1>13. \A i \in 1 .. Len(z) : IsFrame(z[i])
    <2> HIDE DEF IsFrame
    <2> QED  BY <1>6, <1>11, <1>12
  <1> QED  BY <1>10, <1>11, <1>13 DEF IsLogFile, IsSequence

LEMMA BoundCrash ==
    ASSUME LockInv, BoundInv, crash
    PROVE  BoundInv'
  <1>1. /\ boot' = "down" /\ clock' = 1 /\ last_committed_tx_ts' = 0 /\ durable_txid_max' = 0
        /\ tx' = [c \in Conns |-> NoTx] /\ ckpt' = [k \in Checkpointers |-> NoCheckpoint]
        /\ log_offset' = 0 /\ log_synced' = log' /\ log' \in {log, log_synced} \cup Torn
        /\ wal' \in {wal, wal_synced} /\ wal_synced' = wal' /\ wal_restarted' = (wal' = <<>>)
        /\ db_synced' = db'
    BY DEF crash
  <1>2. Meta \in DOMAIN db' /\ db'[Meta] \in {db[Meta], db_synced[Meta]}
    <2>1. PICK lost \in SUBSET {p \in Pages : db[p] # db_synced[p]} :
            db' = [p \in Pages |-> IF p \in lost THEN db_synced[p] ELSE db[p]]
      BY DEF crash
    <2>2. Meta \in Pages
      BY DEF Pages
    <2> QED  BY <2>1, <2>2
  <1>3. /\ NoTx.state = "idle" /\ NoTx.ts = 0 /\ 0 \in Stamp /\ 1 \in 1 .. MaxTs + 1
    BY MvCheckpointAssumption DEF NoTx, Stamp
  <1>4. StampTypes'
    BY <1>1, <1>3, NoBoundary DEF StampTypes
  <1>5. PageTypes'
    BY <1>1, <1>2 DEF BoundInv, PageTypes
  <1>6. IsLogFile(log')
    BY <1>1, TornLog DEF BoundInv, LogWriter
  <1>7. Len(log'.frames) \in Nat
    BY <1>6 DEF IsLogFile, IsSequence
  <1>8. LogWriter'
    BY <1>1, <1>3, <1>6, <1>7 DEF LogWriter
  <1>9. CkptBoundary'
    BY <1>1, NoBoundary DEF CkptBoundary
  <1>10. ClockPast' /\ BootFiles' /\ BoundaryAgrees'
    BY <1>1 DEF ClockPast, BootFiles, BoundaryAgrees
  <1> QED  BY <1>4, <1>5, <1>8, <1>9, <1>10 DEF BoundInv

LEMMA IdleBoundary ==
    ASSUME NEW m, m.state = "idle", NEW d, NEW w, NEW r
    PROVE  BoundaryOf(m, d, w, r)
  BY DEF BoundaryOf, Staging, Phases

(* A step of the bootstrap before the replay.                               *)
LEMMA BootOutcome ==
    ASSUME LockInv, BoundInv, boot # "up", boot' # "up", UNCHANGED BootFrame,
           PageTypes', IsLogFile(log'), log_synced' \in {log', log_synced},
           Len(log'.frames) = Len(log.frames), BootFiles'
    PROVE  BoundInv'
  <1>1. UNCHANGED <<clock, tx, commit_lock, last_committed_tx_ts, durable_txid_max, ckpt,
                    log_offset>>
    BY DEF BootFrame, txVars
  <1>2. /\ \A k \in Checkpointers : ckpt[k].state = "idle"
        /\ \A c \in Conns : tx[c].state = "idle"
    BY DEF LockInv, NobodyBeforeBoot
  <1>3. StampTypes'
    BY <1>1 DEF BoundInv, StampTypes
  <1>4. LogWriter'
    BY <1>1, <1>2 DEF BoundInv, LogWriter
  <1>5. CkptBoundary'
    BY <1>1, <1>2, IdleBoundary DEF CkptBoundary
  <1>6. ClockPast' /\ BoundaryAgrees'
    BY DEF ClockPast, BoundaryAgrees
  <1> QED  BY <1>3, <1>4, <1>5, <1>6 DEF BoundInv

(* The replay: the boundary is the one of the files, the clock is past it   *)
(* and past every frame that was read.                                      *)
LEMMA BoundRecover ==
    ASSUME LockInv, BoundInv, recover
    PROVE  BoundInv'
  <1>1. PICK boundary, frames : boundary = db[Meta] /\ frames = valid_frames(log)
    OBVIOUS
  <1>2. PICK S : S = {boundary} \cup {frames[i].ts : i \in DOMAIN frames}
    OBVIOUS
  <1>3. PICK seen : seen = Max(S)
    OBVIOUS
  <1>4. /\ boot = "replay" /\ boot' = "up" /\ durable_txid_max' = boundary
        /\ clock' = seen + 1 /\ last_committed_tx_ts' \in {0, seen}
        /\ log_offset' = Len(frames)
        /\ UNCHANGED <<tx, commit_lock, ckpt, log, log_synced, wal, wal_synced, wal_restarted,
                       db, db_synced>>
    BY <1>1, <1>2, <1>3 DEF recover, reset_clock, walVars, dbVars
  <1>5. PageTypes /\ LogWriter /\ StampTypes /\ IsLogFile(log) /\ wal = <<>>
    BY <1>4 DEF BoundInv, LogWriter, BootFiles
  <1>6. /\ DOMAIN frames = 1 .. Len(frames) /\ Len(frames) \in 0 .. Len(log.frames)
        /\ \A i \in 1 .. Len(frames) : frames[i] = log.frames[i]
        /\ \A i \in 1 .. Len(log.frames) :
             (\A j \in 1 .. i : log.frames[j].valid) => i \in 1 .. Len(frames)
    <2>1. PICK file : file = log
      OBVIOUS
    <2> QED  BY <1>1, <1>5, <2>1, ValidFrames
  <1>7. Len(log.frames) \in Nat /\ \A i \in 1 .. Len(log.frames) : log.frames[i].ts \in Stamp
    <2>1. \A i \in 1 .. Len(log.frames) : IsFrame(log.frames[i])
      BY <1>5 DEF IsLogFile
    <2>2. Len(log.frames) \in Nat
      BY <1>5 DEF IsLogFile, IsSequence
    <2> QED  BY <2>1, <2>2 DEF IsFrame
  <1>8. \A i \in 1 .. Len(frames) : frames[i].ts \in Stamp
    BY <1>6, <1>7
  <1>9. boundary \in Stamp
    BY <1>1, <1>5 DEF PageTypes
  <1>10. S \subseteq Stamp /\ S # {}
    BY <1>2, <1>6, <1>8, <1>9
  <1>11. seen \in S /\ \A y \in S : seen >= y
    <2>1. S \subseteq Nat /\ MaxTs \in Nat /\ \A x \in S : x <= MaxTs
      BY <1>10, MvCheckpointAssumption DEF Stamp
    <2> QED  BY <1>3, <1>10, <2>1, MaxOf
  <1>12. seen \in Stamp /\ seen \in Nat /\ seen + 1 \in 1 .. MaxTs + 1 /\ 0 \in Stamp
    BY <1>10, <1>11, MvCheckpointAssumption DEF Stamp
  <1>13. /\ \A k \in Checkpointers : ckpt[k].state = "idle"
         /\ \A c \in Conns : tx[c].state = "idle"
    BY <1>4 DEF LockInv, NobodyBeforeBoot
  <1>14. StampTypes'
    BY <1>4, <1>5, <1>9, <1>12 DEF StampTypes
  <1>15. PageTypes'
    BY <1>4, <1>5 DEF PageTypes
  <1>16. LogWriter'
    BY <1>4, <1>5, <1>6, <1>13 DEF LogWriter
  <1>17. CkptBoundary'
    BY <1>4, <1>13, IdleBoundary DEF CkptBoundary
  <1>18. clock' > durable_txid_max' /\ clock' > last_committed_tx_ts'
    <2>1. boundary \in S /\ boundary \in Nat
      BY <1>2, <1>9, MvCheckpointAssumption DEF Stamp
    <2> QED  BY <1>4, <1>11, <1>12, <2>1
  <1>19. FramesPast'
    <2>1. ASSUME NEW i \in 1 .. Len(log.frames), \A j \in 1 .. i : log.frames[j].valid
          PROVE  seen + 1 > log.frames[i].ts
      <3>1. i \in 1 .. Len(frames) /\ log.frames[i].ts = frames[i].ts
        BY <1>6, <2>1
      <3>2. PICK t : t = log.frames[i].ts
        OBVIOUS
      <3>3. t \in S
        BY <1>2, <1>6, <3>1, <3>2
      <3>4. t \in Nat
        BY <1>10, <3>3, MvCheckpointAssumption DEF Stamp
      <3> QED  BY <1>11, <1>12, <3>2, <3>3, <3>4
    <2> QED  BY <1>4, <2>1 DEF FramesPast
  <1>20. ClockPast'
    BY <1>4, <1>13, <1>18, <1>19 DEF ClockPast, Reading
  <1>21. Page(Meta)' = boundary
    BY <1>1, <1>4, <1>5 DEF Page
  <1>22. BootFiles' /\ BoundaryAgrees'
    BY <1>4, <1>21 DEF BootFiles, BoundaryAgrees
  <1> QED  BY <1>14, <1>15, <1>16, <1>17, <1>20, <1>22 DEF BoundInv

LEMMA BoundBoot ==
    ASSUME LockInv, BoundInv, Bootstrap
    PROVE  BoundInv'
  <1>1. PageTypes /\ LogWriter /\ BootFiles /\ IsLogFile(log)
    BY DEF BoundInv, LogWriter
  <1>2. CASE nothing_to_complete \/ reject \/ reopen
    <2>1. /\ boot # "up" /\ boot' \in {"replay", "rejected", "down"} /\ (boot' = "replay" => wal = <<>>)
          /\ UNCHANGED BootFrame
          /\ UNCHANGED <<log, log_synced, wal, wal_synced, wal_restarted, db, db_synced>>
      BY <1>2 DEF nothing_to_complete, reject, reopen, walVars, dbVars
    <2>2. PageTypes' /\ BootFiles'
      BY <1>1, <2>1 DEF PageTypes, BootFiles
    <2> QED  BY <1>1, <2>1, <2>2, BootOutcome
  <1>3. CASE backfill_wal
    <2>1. /\ boot = "down" /\ wal # <<>> /\ boot' = "sync_db" /\ db' = over(wal, db)
          /\ UNCHANGED BootFrame
          /\ UNCHANGED <<log, log_synced, wal, wal_synced, wal_restarted, db_synced>>
      BY <1>3 DEF backfill_wal, walVars
    <2>2. /\ Meta \in DOMAIN db'
          /\ db'[Meta] = IF Meta \in DOMAIN wal THEN wal[Meta] ELSE db[Meta]
      BY <1>1, <2>1, OverBoundary DEF PageTypes
    <2>3. PageTypes' /\ BootFiles'
      BY <1>1, <2>1, <2>2 DEF PageTypes, BootFiles
    <2> QED  BY <1>1, <2>1, <2>3, BootOutcome
  <1>4. CASE sync_backfilled
    <2>1. /\ boot = "sync_db" /\ boot' = "update_header" /\ db_synced' = db
          /\ UNCHANGED BootFrame
          /\ UNCHANGED <<log, log_synced, wal, wal_synced, wal_restarted, db>>
      BY <1>4 DEF sync_backfilled, walVars
    <2>2. PageTypes' /\ BootFiles'
      BY <1>1, <2>1 DEF PageTypes, BootFiles
    <2> QED  BY <1>1, <2>1, <2>2, BootOutcome
  <1>5. CASE update_header
    <2>1. /\ boot = "update_header" /\ boot' = "truncate_wal"
          /\ log' = [log EXCEPT !.header = TRUE] /\ log_synced' = log'
          /\ UNCHANGED BootFrame
          /\ UNCHANGED <<wal, wal_synced, wal_restarted, db, db_synced>>
      BY <1>5 DEF update_header, walVars, dbVars
    <2>2. PageTypes' /\ BootFiles'
      BY <1>1, <2>1 DEF PageTypes, BootFiles
    <2>3. log = [header |-> log.header, frames |-> log.frames]
      BY <1>1 DEF IsLogFile
    <2>4. log' = [header |-> TRUE, frames |-> log.frames]
      BY <2>1, <2>3
    <2>5. log'.frames = log.frames /\ log' = [header |-> log'.header, frames |-> log'.frames]
      BY <2>4
    <2>6. IsLogFile(log')
      BY <1>1, <2>5 DEF IsLogFile
    <2> QED  BY <2>1, <2>2, <2>5, <2>6, BootOutcome
  <1>6. CASE truncate_completed_wal
    <2>1. /\ boot = "truncate_wal" /\ boot' = "replay"
          /\ wal' = <<>> /\ wal_synced' = wal' /\ wal_restarted' = TRUE
          /\ UNCHANGED BootFrame
          /\ UNCHANGED <<log, log_synced, db, db_synced>>
      BY <1>6 DEF truncate_completed_wal, dbVars
    <2>2. PageTypes' /\ BootFiles'
      BY <1>1, <2>1 DEF PageTypes, BootFiles
    <2> QED  BY <1>1, <2>1, <2>2, BootOutcome
  <1>7. CASE recover
    BY <1>7, BoundRecover
  <1> QED  BY <1>2, <1>3, <1>4, <1>5, <1>6, <1>7 DEF Bootstrap

LEMMA BoundStep == LockInv /\ BoundInv /\ [Next]_vars => BoundInv'
  <1> SUFFICES ASSUME LockInv, BoundInv, [Next]_vars  PROVE BoundInv'
    OBVIOUS
  <1>1. CASE UNCHANGED vars
    <2>1. /\ UNCHANGED <<boot, clock, tx, commit_lock, last_committed_tx_ts, durable_txid_max>>
          /\ UNCHANGED <<ckpt, log, log_synced, log_offset, wal, wal_synced, wal_restarted, db,
                         db_synced>>
      BY <1>1 DEF vars, txVars, logVars, walVars, dbVars
    <2>2. StampTypes' /\ PageTypes' /\ LogWriter'
      BY <2>1 DEF BoundInv, StampTypes, PageTypes, LogWriter
    <2>3. ClockPast' /\ CkptBoundary'
      BY <2>1 DEF BoundInv, ClockPast, FramesPast, Reading, CkptBoundary
    <2>4. BootFiles' /\ BoundaryAgrees'
      BY <2>1 DEF BoundInv, BootFiles, BoundaryAgrees, Page
    <2> QED  BY <2>2, <2>3, <2>4 DEF BoundInv
  <1> QED  BY <1>1, BoundTransaction, BoundCheckpoint, BoundCrash, BoundBoot DEF Next

LEMMA BoundInit == Init => BoundInv
  <1> SUFFICES ASSUME Init  PROVE BoundInv
    OBVIOUS
  <1>1. /\ boot = "up" /\ clock = 1 /\ tx = [c \in Conns |-> NoTx] /\ last_committed_tx_ts = 0
        /\ durable_txid_max = 0 /\ ckpt = [k \in Checkpointers |-> NoCheckpoint]
        /\ log = [header |-> TRUE, frames |-> <<>>] /\ log_synced = log /\ log_offset = 0
        /\ wal = <<>> /\ wal_synced = wal /\ wal_restarted = TRUE /\ db_synced = db
    BY DEF Init
  <1>2. Meta \in DOMAIN db /\ db[Meta] = 0
    <2>1. db = [p \in Pages |-> CASE p = Meta -> 0
                                  [] p \in BtreeRows -> BtreeValue
                                  [] OTHER -> Absent]
      BY DEF Init
    <2>2. Meta \in Pages /\ Meta \notin BtreeRows
      BY MvCheckpointAssumption DEF Pages
    <2> QED  BY <2>1, <2>2, Zenon
  <1>3. NoTx.state = "idle" /\ NoTx.ts = 0 /\ 0 \in Stamp /\ 1 \in 1 .. MaxTs + 1
    BY MvCheckpointAssumption DEF NoTx, Stamp
  <1>4. StampTypes
    BY <1>1, <1>3, NoBoundary DEF StampTypes
  <1>5. PageTypes
    BY <1>1, <1>2, <1>3 DEF PageTypes
  <1>6. IsLogFile(log) /\ Len(log.frames) = 0
    BY <1>1 DEF IsLogFile, IsSequence
  <1>7. LogWriter
    BY <1>1, <1>3, <1>6 DEF LogWriter
  <1>8. ClockPast
    BY <1>1, <1>3, <1>6 DEF ClockPast, FramesPast, Reading
  <1>9. CkptBoundary
    BY <1>1, NoBoundary DEF CkptBoundary
  <1>10. BootFiles /\ BoundaryAgrees
    BY <1>1, <1>2 DEF BootFiles, BoundaryAgrees, Page
  <1> QED  BY <1>4, <1>5, <1>7, <1>8, <1>9, <1>10 DEF BoundInv

(* The boundary in memory is the one in the metadata table, whatever step   *)
(* of whichever checkpoint failed or was cut short by a crash.              *)
THEOREM BoundariesAgree == Spec => []BoundaryAgrees
  <1>1. LockInv /\ BoundInv => BoundaryAgrees
    BY DEF BoundInv
  <1> QED  BY <1>1, LockInvInit, LockInvStep, BoundInit, BoundStep, PTL DEF Spec

(* A timestamp that the files hold, in the boundary or in a frame that a    *)
(* bootstrap would replay, is not given out again.                          *)
THEOREM ClockIsPastFiles == Spec => []ClockPastFiles
  <1>1. LockInv /\ BoundInv => ClockPastFiles
    <2> SUFFICES ASSUME BoundInv, boot = "up"
                 PROVE  /\ clock > Page(Meta)
                        /\ \A i \in DOMAIN valid_frames(log) : clock > log.frames[i].ts
      BY DEF ClockPastFiles
    <2>1. clock > Page(Meta)
      BY DEF BoundInv, BoundaryAgrees, ClockPast
    <2>2. ASSUME NEW i \in DOMAIN valid_frames(log)
          PROVE  clock > log.frames[i].ts
      <3>1. PICK file : file = log
        OBVIOUS
      <3>2. IsLogFile(file)
        BY <3>1 DEF BoundInv, LogWriter
      <3>3. PICK n : n = Len(valid_frames(file))
        OBVIOUS
      <3>4. /\ DOMAIN valid_frames(file) = 1 .. n /\ n \in 0 .. Len(file.frames)
            /\ \A j \in 1 .. n : file.frames[j].valid
        BY <3>2, <3>3, ValidFrames
      <3>5. Len(file.frames) \in Nat
        BY <3>2 DEF IsLogFile, IsSequence
      <3>6. i \in 1 .. n
        BY <2>2, <3>1, <3>4
      <3>7. i \in 1 .. Len(file.frames) /\ \A j \in 1 .. i : j \in 1 .. n
        BY <3>4, <3>5, <3>6
      <3> QED  BY <3>1, <3>4, <3>7 DEF BoundInv, ClockPast, FramesPast
    <2> QED  BY <2>1, <2>2
  <1> QED  BY <1>1, LockInvInit, LockInvStep, BoundInit, BoundStep, PTL DEF Spec

-----------------------------------------------------------------------------
(* The boundary never goes back.  Both images of the WAL, the one that is   *)
(* read and the one on the disk, hold no older boundary than the one in     *)
(* force; and where the page of the boundary is not yet synced, both still  *)
(* hold it and nothing empties the WAL before the sync.                     *)

WalAhead ==
    \A w \in {wal, wal_synced} : Meta \in DOMAIN w => w[Meta] >= Page(Meta)

WalHolds == Meta \in DOMAIN wal /\ ~wal_restarted => Meta \in DOMAIN wal_synced

SyncPending(k) == ckpt[k].state = "SyncDbFile" /\ ckpt[k].backfilled

Unsynced ==
    db_synced[Meta] # db[Meta] =>
      /\ Meta \in DOMAIN wal /\ Meta \in DOMAIN wal_synced
      /\ \/ boot = "sync_db"
         \/ boot = "up" /\ (~wal_restarted \/ \E k \in Checkpointers : SyncPending(k))

FilesInv == WalAhead /\ WalHolds /\ Unsynced

Advances == Page(Meta)' >= Page(Meta)

LEMMA PageIsStamp ==
    ASSUME PageTypes
    PROVE  Page(Meta) \in Nat /\ Page(Meta) >= Page(Meta)
  BY MvCheckpointAssumption DEF PageTypes, Page, Stamp

(* The files stay, and so do the bootstrap's place or the reason to care,   *)
(* and the checkpoint that has to sync.                                     *)
LEMMA FilesQuiet ==
    ASSUME PageTypes, FilesInv, UNCHANGED <<wal, wal_synced, wal_restarted, db, db_synced>>,
           boot' = boot \/ boot \notin {"up", "sync_db"},
           \A k \in Checkpointers : SyncPending(k) => SyncPending(k)'
    PROVE  FilesInv' /\ Advances
  <1>1. Page(Meta)' = Page(Meta)
    BY DEF Page
  <1>2. Advances
    BY <1>1, PageIsStamp DEF Advances
  <1>3. WalAhead' /\ WalHolds'
    BY <1>1 DEF FilesInv, WalAhead, WalHolds
  <1>4. Unsynced'
    BY DEF FilesInv, Unsynced
  <1> QED  BY <1>2, <1>3, <1>4 DEF FilesInv

(* Under the lock of a checkpoint that has nothing to sync, a restarted WAL *)
(* means that the page is synced.                                           *)
LEMMA SyncedWhenRestarted ==
    ASSUME LockInv, FilesInv, NEW k \in Checkpointers, Holds(k), ~SyncPending(k), wal_restarted
    PROVE  db_synced[Meta] = db[Meta]
  <1>1. boot = "up"
    BY ActorsNeedTheStore DEF Holds, Phases
  <1>2. \A j \in Checkpointers : SyncPending(j) => Holds(j)
    BY DEF SyncPending, Holds, Phases
  <1>3. \A j \in Checkpointers : ~SyncPending(j)
    BY <1>2 DEF LockInv, LockExcludes
  <1> QED  BY <1>1, <1>3 DEF FilesInv, Unsynced

(* What remains when the page is synced and the boundary that is read       *)
(* stays.                                                                   *)
LEMMA FilesSynced ==
    ASSUME PageTypes, FilesInv, Page(Meta)' = Page(Meta), db_synced'[Meta] = db'[Meta],
           \A w \in {wal', wal_synced'} : w \in {wal, wal_synced} \/ Meta \notin DOMAIN w,
           wal_restarted' \/ Meta \notin DOMAIN wal'
    PROVE  FilesInv' /\ Advances
  <1>1. Advances
    BY PageIsStamp DEF Advances
  <1>2. WalAhead' /\ WalHolds' /\ Unsynced'
    BY DEF FilesInv, WalAhead, WalHolds, Unsynced
  <1> QED  BY <1>1, <1>2 DEF FilesInv

LEMMA FilesCommit ==
    ASSUME LockInv, BoundInv, FilesInv, NEW k \in Checkpointers, commit_pager_txn(k)
    PROVE  FilesInv' /\ Advances
  <1>1. PICK D, b, w : D = durable_txid_max /\ b = ckpt[k].new /\ w = ckpt[k].writes
    OBVIOUS
  <1>2. /\ ckpt[k].state = "CommitPagerTxn" /\ ~wal_restarted /\ wal_restarted' = wal_restarted
        /\ wal' = over(w, wal) /\ wal_synced' = wal' /\ boot' = boot
        /\ UNCHANGED <<db, db_synced>>
    BY <1>1 DEF commit_pager_txn, Step, sync_frames, dbVars
  <1>3. /\ boot = "up" /\ Page(Meta) = D /\ PageTypes /\ b \in Stamp
        /\ BoundaryOf(ckpt[k], D, last_committed_tx_ts, wal_restarted)
    BY <1>1, <1>2, UnderWay
  <1>4. /\ D <= b
        /\ Meta \in DOMAIN w => w[Meta] = b
        /\ Meta \notin DOMAIN w => b = D
    BY <1>1, <1>2, <1>3 DEF BoundaryOf, Staging
  <1>5. /\ Meta \in DOMAIN wal' <=> Meta \in DOMAIN w \/ Meta \in DOMAIN wal
        /\ Meta \in DOMAIN w => wal'[Meta] = w[Meta]
        /\ Meta \in DOMAIN wal /\ Meta \notin DOMAIN w => wal'[Meta] = wal[Meta]
    BY <1>2, OverBoundary
  <1>6. Page(Meta)' = b /\ (Meta \in DOMAIN wal' => wal'[Meta] = b)
    BY <1>2, <1>3, <1>4, <1>5 DEF Page
  <1>7. b \in Nat /\ D \in Nat
    BY <1>3, PageIsStamp, MvCheckpointAssumption DEF Stamp
  <1>8. Advances
    BY <1>3, <1>4, <1>6, <1>7 DEF Advances
  <1>9. WalAhead' /\ WalHolds'
    BY <1>2, <1>6, <1>7 DEF WalAhead, WalHolds
  <1>10. Unsynced'
    BY <1>2, <1>3, <1>5 DEF FilesInv, Unsynced
  <1> QED  BY <1>8, <1>9, <1>10 DEF FilesInv

LEMMA FilesBackfill ==
    ASSUME LockInv, BoundInv, FilesInv, NEW k \in Checkpointers, checkpoint_wal(k)
    PROVE  FilesInv' /\ Advances
  <1>1. PICK b : b = backfills(k)
    OBVIOUS
  <1>2. PICK m : m = [ckpt[k] EXCEPT !.state = "SyncDbFile", !.backfilled = b]
    OBVIOUS
  <1>3. /\ ckpt[k].state = "CheckpointWal" /\ wal_restarted' = TRUE
        /\ db' = IF b THEN over(wal, db) ELSE db
        /\ boot' = boot /\ UNCHANGED <<wal, wal_synced, db_synced>>
        /\ ckpt' = [ckpt EXCEPT ![k] = m]
    BY <1>1, <1>2 DEF checkpoint_wal
  <1>4. boot = "up" /\ PageTypes
    BY <1>3, UnderWay
  <1>5. Holds(k) /\ ~SyncPending(k)
    BY <1>3 DEF Holds, Phases, SyncPending
  <1>6. b <=> wal # <<>> /\ ~wal_restarted
    BY <1>1 DEF backfills
  <1>7. /\ Meta \in DOMAIN over(wal, db)
        /\ over(wal, db)[Meta] = IF Meta \in DOMAIN wal THEN wal[Meta] ELSE db[Meta]
    BY <1>4, OverBoundary DEF PageTypes
  <1>8. wal = <<>> => Meta \notin DOMAIN wal
    OBVIOUS
  <1>9. Page(Meta)' = Page(Meta)
    BY <1>3, <1>6, <1>7, <1>8 DEF Page
  <1>10. Advances
    BY <1>4, <1>9, PageIsStamp DEF Advances
  <1>11. WalAhead' /\ WalHolds'
    BY <1>3, <1>9 DEF FilesInv, WalAhead, WalHolds
  <1>12. b => SyncPending(k)'
    <2>1. IsCheckpoint(ckpt[k]) /\ ckpt'[k] = m
      BY <1>3 DEF LockInv, Shapes
    <2>2. m.state = "SyncDbFile" /\ m.backfilled = b
      BY <1>2, <2>1 DEF IsCheckpoint
    <2> QED  BY <2>1, <2>2 DEF SyncPending
  <1>13. Unsynced'
    <2>1. CASE b
      <3>1. ~wal_restarted
        BY <1>6, <2>1
      <3>2. db'[Meta] = IF Meta \in DOMAIN wal THEN wal[Meta] ELSE db[Meta]
        BY <1>3, <1>7, <2>1
      <3>3. db_synced'[Meta] # db'[Meta] => Meta \in DOMAIN wal /\ Meta \in DOMAIN wal_synced
        BY <1>3, <3>1, <3>2 DEF FilesInv, WalHolds, Unsynced
      <3> QED  BY <1>3, <1>4, <1>12, <2>1, <3>3 DEF Unsynced
    <2>2. CASE ~b
      <3>1. db_synced[Meta] = db[Meta]
        <4>1. CASE wal_restarted
          BY <1>5, <4>1, SyncedWhenRestarted
        <4>2. CASE wal = <<>>
          BY <1>8, <4>2 DEF FilesInv, Unsynced
        <4> QED  BY <1>6, <2>2, <4>1, <4>2
      <3> QED  BY <1>3, <2>2, <3>1 DEF Unsynced
    <2> QED  BY <2>1, <2>2
  <1> QED  BY <1>10, <1>11, <1>13 DEF FilesInv

LEMMA FilesFailure ==
    ASSUME LockInv, BoundInv, FilesInv, NEW k \in Checkpointers, io_error(k),
           "SyncDbFile" \notin FailAt
    PROVE  FilesInv' /\ Advances
  <1>1. /\ Holds(k) /\ ckpt[k].state # "idle" /\ ckpt[k].state # "SyncDbFile"
        /\ boot' = boot /\ UNCHANGED <<wal, wal_restarted, db_synced>>
        /\ failed_commit(k) /\ failed_backfill(k)
    BY DEF io_error, Holds, Phases
  <1>2. /\ boot = "up" /\ Page(Meta) = durable_txid_max /\ ckpt[k].new \in Stamp
        /\ BoundaryOf(ckpt[k], durable_txid_max, last_committed_tx_ts, wal_restarted)
        /\ PageTypes
    BY <1>1, UnderWay
  <1>3. \/ wal_synced' = wal_synced
        \/ wal_restarted /\ wal_synced' = wal
        \/ /\ ckpt[k].state = "CommitPagerTxn" /\ ~wal_restarted
           /\ wal_synced' = over(ckpt[k].writes, wal)
    BY <1>1 DEF failed_commit
  <1>4. \/ db'[Meta] = db[Meta]
        \/ ~wal_restarted /\ Meta \in DOMAIN wal /\ db'[Meta] = wal[Meta]
    <2>1. CASE db' = db
      BY <2>1
    <2>2. CASE /\ ~wal_restarted
               /\ \E done \in SUBSET (DOMAIN wal) :
                    db' = [p \in Pages |-> IF p \in done THEN wal[p] ELSE db[p]]
      <3>1. PICK done \in SUBSET (DOMAIN wal) :
              db' = [p \in Pages |-> IF p \in done THEN wal[p] ELSE db[p]]
        BY <2>2
      <3>2. Meta \in Pages
        BY DEF Pages
      <3> QED  BY <2>2, <3>1, <3>2
    <2> QED  BY <1>1, <2>1, <2>2 DEF failed_backfill
  <1>5. Page(Meta)' = Page(Meta)
    BY <1>1, <1>4 DEF Page
  <1>6. Advances
    BY <1>2, <1>5, PageIsStamp DEF Advances
  <1>7. CASE wal_restarted
    <2>1. db_synced[Meta] = db[Meta]
      BY <1>1, <1>7, SyncedWhenRestarted DEF SyncPending
    <2>2. db_synced'[Meta] = db'[Meta]
      BY <1>1, <1>4, <1>7, <2>1
    <2>3. wal_synced' \in {wal, wal_synced} /\ wal_restarted' /\ wal' = wal
      BY <1>1, <1>3, <1>7
    <2> QED  BY <1>2, <1>5, <2>2, <2>3, FilesSynced
  <1>8. CASE ~wal_restarted
    <2>1. CASE wal_synced' = wal_synced
      <3>1. WalAhead' /\ WalHolds'
        BY <1>1, <1>5, <2>1 DEF FilesInv, WalAhead, WalHolds
      <3>2. Unsynced'
        BY <1>1, <1>2, <1>4, <1>8, <2>1 DEF FilesInv, WalHolds, Unsynced
      <3> QED  BY <1>6, <3>1, <3>2 DEF FilesInv
    <2>2. CASE ckpt[k].state = "CommitPagerTxn" /\ wal_synced' = over(ckpt[k].writes, wal)
      <3>1. PICK w : w = ckpt[k].writes
        OBVIOUS
      <3>2. Meta \in DOMAIN w => w[Meta] = ckpt[k].new /\ w[Meta] >= Page(Meta)
        <4>1. Meta \in DOMAIN w => w[Meta] = ckpt[k].new
          BY <1>2, <2>2, <3>1 DEF BoundaryOf, Staging
        <4>2. durable_txid_max <= ckpt[k].new
          BY <1>2, <2>2 DEF BoundaryOf, Staging
        <4>3. ckpt[k].new \in Nat /\ durable_txid_max \in Nat
          BY <1>2, PageIsStamp, MvCheckpointAssumption DEF Stamp
        <4> QED  BY <1>2, <4>1, <4>2, <4>3
      <3>3. /\ Meta \in DOMAIN wal_synced' <=> Meta \in DOMAIN w \/ Meta \in DOMAIN wal
            /\ Meta \in DOMAIN w => wal_synced'[Meta] = w[Meta]
            /\ Meta \in DOMAIN wal /\ Meta \notin DOMAIN w => wal_synced'[Meta] = wal[Meta]
        BY <2>2, <3>1, OverBoundary
      <3>4. WalAhead' /\ WalHolds'
        BY <1>1, <1>5, <3>2, <3>3 DEF FilesInv, WalAhead, WalHolds
      <3>5. Unsynced'
        BY <1>1, <1>2, <1>4, <1>8, <3>3 DEF FilesInv, Unsynced
      <3> QED  BY <1>6, <3>4, <3>5 DEF FilesInv
    <2> QED  BY <1>3, <1>8, <2>1, <2>2
  <1> QED  BY <1>7, <1>8

LEMMA FilesCheckpoint ==
    ASSUME LockInv, BoundInv, FilesInv, NEW k \in Checkpointers, Checkpoint(k),
           "SyncDbFile" \notin FailAt
    PROVE  FilesInv' /\ Advances
  <1>0. PageTypes /\ ckpt = [j \in Checkpointers |-> ckpt[j]]
    BY DEF BoundInv, LockInv, Shapes
  <1>1. CASE \/ new(k) \/ acquire_lock(k) \/ acquire_busy(k) \/ write_rows(k)
             \/ delete_not_found(k) \/ truncate_logical_log(k) \/ fsync_logical_log(k)
             \/ finalize(k)
    <2>1. /\ boot' = boot /\ UNCHANGED <<wal, wal_synced, wal_restarted, db, db_synced>>
          /\ ckpt[k].state # "SyncDbFile"
      <3>1. CASE new(k) \/ acquire_lock(k) \/ acquire_busy(k)
        BY <3>1 DEF new, acquire_lock, acquire_busy, walVars, dbVars
      <3>2. CASE write_rows(k) \/ delete_not_found(k) \/ finalize(k)
        BY <3>2 DEF write_rows, delete_not_found, finalize, Step, walVars, dbVars
      <3>3. CASE truncate_logical_log(k) \/ fsync_logical_log(k)
        BY <3>3 DEF truncate_logical_log, fsync_logical_log, Step, walVars, dbVars
      <3> QED  BY <1>1, <3>1, <3>2, <3>3
    <2>2. PICK m : ckpt' = [ckpt EXCEPT ![k] = m]
      <3>1. CASE new(k) \/ acquire_lock(k) \/ acquire_busy(k) \/ delete_not_found(k) \/ finalize(k)
        BY <3>1 DEF new, acquire_lock, acquire_busy, delete_not_found, finalize
      <3>2. CASE write_rows(k) \/ truncate_logical_log(k) \/ fsync_logical_log(k)
        BY <3>2 DEF write_rows, truncate_logical_log, fsync_logical_log, Step
      <3> QED  BY <1>1, <3>1, <3>2
    <2>3. \A j \in Checkpointers : SyncPending(j) => SyncPending(j)'
      BY <1>0, <2>1, <2>2 DEF SyncPending
    <2> QED  BY <1>0, <2>1, <2>3, FilesQuiet
  <1>2. CASE prepare_wal_start(k) \/ prepare_wal_finish(k) \/ truncate_wal(k) \/ sync_wal(k)
    <2>1. /\ Holds(k) /\ ~SyncPending(k) /\ ckpt[k].state # "idle"
          /\ wal' \in {<<>>, wal} /\ wal_synced' \in {wal_synced, wal'}
          /\ UNCHANGED <<db, db_synced>>
      BY <1>2 DEF prepare_wal_start, prepare_wal_finish, truncate_wal, sync_wal, Step, Holds,
                  SyncPending, Phases, dbVars
    <2>2. wal_restarted
      <3>1. CASE prepare_wal_start(k) \/ prepare_wal_finish(k)
        BY <3>1 DEF prepare_wal_start, prepare_wal_finish
      <3>2. CASE truncate_wal(k) \/ sync_wal(k)
        <4>1. ckpt[k].state \in {"TruncateWal", "SyncWal"}
          BY <3>2 DEF truncate_wal, sync_wal, Step
        <4>2. BoundaryOf(ckpt[k], durable_txid_max, last_committed_tx_ts, wal_restarted)
          BY <2>1, UnderWay
        <4> QED  BY <4>1, <4>2 DEF BoundaryOf, Staging, Phases
      <3> QED  BY <1>2, <3>1, <3>2
    <2>3. wal_restarted' \/ Meta \notin DOMAIN wal'
      <3>1. CASE prepare_wal_finish(k)
        BY <3>1 DEF prepare_wal_finish
      <3>2. CASE prepare_wal_start(k) \/ truncate_wal(k) \/ sync_wal(k)
        BY <2>2, <3>2 DEF prepare_wal_start, truncate_wal, sync_wal
      <3> QED  BY <1>2, <3>1, <3>2
    <2>4. db_synced'[Meta] = db'[Meta]
      BY <2>1, <2>2, SyncedWhenRestarted
    <2>5. Page(Meta)' = Page(Meta)
      BY <2>1, <2>2, <2>3 DEF Page
    <2>6. \A w \in {wal', wal_synced'} : w \in {wal, wal_synced} \/ Meta \notin DOMAIN w
      BY <2>1
    <2> QED  BY <1>0, <2>3, <2>4, <2>5, <2>6, FilesSynced
  <1>3. CASE sync_db_file(k)
    <2>1. /\ ckpt[k].state = "SyncDbFile"
          /\ db_synced' = IF ckpt[k].backfilled THEN db ELSE db_synced
          /\ UNCHANGED <<wal, wal_synced, wal_restarted, db>>
      BY <1>3 DEF sync_db_file, synced_db_file, Step, walVars
    <2>2. wal_restarted
      <3>1. BoundaryOf(ckpt[k], durable_txid_max, last_committed_tx_ts, wal_restarted)
        BY <2>1, UnderWay
      <3> QED  BY <2>1, <3>1 DEF BoundaryOf, Staging, Phases
    <2>3. db_synced'[Meta] = db'[Meta]
      <3>1. CASE ckpt[k].backfilled
        BY <2>1, <3>1
      <3>2. CASE ~ckpt[k].backfilled
        <4>1. Holds(k) /\ ~SyncPending(k)
          BY <2>1, <3>2 DEF Holds, Phases, SyncPending
        <4> QED  BY <2>1, <2>2, <3>2, <4>1, SyncedWhenRestarted
      <3> QED  BY <3>1, <3>2
    <2>4. Page(Meta)' = Page(Meta)
      BY <2>1 DEF Page
    <2> QED  BY <1>0, <2>1, <2>2, <2>3, <2>4, FilesSynced
  <1>4. CASE commit_pager_txn(k)
    BY <1>4, FilesCommit
  <1>5. CASE checkpoint_wal(k)
    BY <1>5, FilesBackfill
  <1>6. CASE io_error(k)
    BY <1>6, FilesFailure
  <1> QED  BY <1>1, <1>2, <1>3, <1>4, <1>5, <1>6 DEF Checkpoint

(* A crash takes one of the images of the WAL and, of a page that was not   *)
(* synced, either one.                                                      *)
LEMMA FilesCrash ==
    ASSUME BoundInv, FilesInv, crash
    PROVE  FilesInv' /\ Advances
  <1>1. PICK w : w = wal'
    OBVIOUS
  <1>2. /\ w \in {wal, wal_synced} /\ wal_synced' = w /\ wal_restarted' = (w = <<>>)
        /\ db_synced' = db'
    BY <1>1 DEF crash
  <1>3. db'[Meta] \in {db[Meta], db_synced[Meta]}
    <2>1. PICK lost \in SUBSET {p \in Pages : db[p] # db_synced[p]} :
            db' = [p \in Pages |-> IF p \in lost THEN db_synced[p] ELSE db[p]]
      BY DEF crash
    <2>2. Meta \in Pages
      BY DEF Pages
    <2> QED  BY <2>1, <2>2
  <1>4. PageTypes
    BY DEF BoundInv
  <1>5. WalHolds' /\ Unsynced'
    BY <1>1, <1>2 DEF WalHolds, Unsynced
  <1>6. CASE Meta \in DOMAIN w
    <2>1. w # <<>>
      BY <1>6
    <2>2. Page(Meta)' = w[Meta]
      BY <1>1, <1>2, <1>6, <2>1 DEF Page
    <2>3. w[Meta] >= Page(Meta) /\ w[Meta] >= w[Meta]
      BY <1>2, <1>4, <1>6, MvCheckpointAssumption DEF FilesInv, WalAhead, PageTypes, Stamp
    <2>4. WalAhead' /\ Advances
      BY <1>1, <1>2, <2>2, <2>3 DEF WalAhead, Advances
    <2> QED  BY <1>5, <2>4 DEF FilesInv
  <1>7. CASE Meta \notin DOMAIN w
    <2>1. db_synced[Meta] = db[Meta]
      BY <1>2, <1>7 DEF FilesInv, Unsynced
    <2>2. Page(Meta) = db[Meta]
      BY <1>2, <1>7 DEF FilesInv, WalHolds, Page
    <2>3. Page(Meta)' = Page(Meta)
      BY <1>1, <1>3, <1>7, <2>1, <2>2 DEF Page
    <2>4. WalAhead' /\ Advances
      BY <1>1, <1>2, <1>4, <1>7, <2>3, PageIsStamp DEF WalAhead, Advances
    <2> QED  BY <1>5, <2>4 DEF FilesInv
  <1> QED  BY <1>6, <1>7

LEMMA FilesBoot ==
    ASSUME LockInv, BoundInv, FilesInv, Bootstrap
    PROVE  FilesInv' /\ Advances
  <1>1. PageTypes /\ BootFiles
    BY DEF BoundInv
  <1>2. CASE nothing_to_complete \/ reject \/ reopen \/ update_header \/ recover
    <2>1. /\ boot \notin {"up", "sync_db"} /\ ckpt' = ckpt
          /\ UNCHANGED <<wal, wal_synced, wal_restarted, db, db_synced>>
      BY <1>2 DEF nothing_to_complete, reject, reopen, update_header, recover, walVars, dbVars,
                  BootFrame
    <2>2. \A k \in Checkpointers : SyncPending(k) => SyncPending(k)'
      BY <2>1 DEF SyncPending
    <2> QED  BY <1>1, <2>1, <2>2, FilesQuiet
  <1>3. CASE backfill_wal
    <2>1. /\ boot = "down" /\ wal # <<>> /\ boot' = "sync_db" /\ db' = over(wal, db)
          /\ UNCHANGED <<wal, wal_synced, wal_restarted, db_synced>>
      BY <1>3 DEF backfill_wal, walVars
    <2>2. db'[Meta] = IF Meta \in DOMAIN wal THEN wal[Meta] ELSE db[Meta]
      BY <1>1, <2>1, OverBoundary DEF PageTypes
    <2>3. ~wal_restarted /\ db_synced[Meta] = db[Meta]
      BY <1>1, <2>1 DEF BootFiles, FilesInv, Unsynced
    <2>4. Page(Meta)' = Page(Meta)
      BY <2>1, <2>2, <2>3 DEF Page
    <2>5. Advances
      BY <1>1, <2>4, PageIsStamp DEF Advances
    <2>6. WalAhead' /\ WalHolds'
      BY <2>1, <2>4 DEF FilesInv, WalAhead, WalHolds
    <2>7. Unsynced'
      BY <2>1, <2>2, <2>3 DEF FilesInv, WalHolds, Unsynced
    <2> QED  BY <2>5, <2>6, <2>7 DEF FilesInv
  <1>4. CASE sync_backfilled
    <2>1. db_synced' = db /\ UNCHANGED <<wal, wal_synced, wal_restarted, db>>
      BY <1>4 DEF sync_backfilled, walVars
    <2>2. Page(Meta)' = Page(Meta)
      BY <2>1 DEF Page
    <2>3. Advances
      BY <1>1, <2>2, PageIsStamp DEF Advances
    <2>4. WalAhead' /\ WalHolds' /\ Unsynced'
      BY <2>1, <2>2 DEF FilesInv, WalAhead, WalHolds, Unsynced
    <2> QED  BY <2>3, <2>4 DEF FilesInv
  <1>5. CASE truncate_completed_wal
    <2>1. /\ boot = "truncate_wal" /\ wal' = <<>> /\ wal_synced' = wal' /\ wal_restarted' = TRUE
          /\ UNCHANGED <<db, db_synced>>
      BY <1>5 DEF truncate_completed_wal, dbVars
    <2>2. Meta \notin DOMAIN wal' /\ db_synced'[Meta] = db'[Meta]
      BY <2>1 DEF FilesInv, Unsynced
    <2>3. Page(Meta)' = Page(Meta)
      BY <1>1, <2>1 DEF BootFiles, Page
    <2> QED  BY <1>1, <2>1, <2>2, <2>3, FilesSynced
  <1> QED  BY <1>2, <1>3, <1>4, <1>5 DEF Bootstrap

LEMMA FilesTransaction ==
    ASSUME BoundInv, FilesInv, NEW c \in Conns, Transaction(c)
    PROVE  FilesInv' /\ Advances
  <1>1. boot' = boot /\ ckpt' = ckpt /\ UNCHANGED <<wal, wal_synced, wal_restarted, db, db_synced>>
    <2>1. CASE \E writes \in [Rows -> {"keep", "upsert", "delete"}] : run_tx(c, writes)
      BY <2>1 DEF run_tx, walVars, dbVars
    <2>2. CASE log_tx(c) \/ commit_end(c) \/ publish(c) \/ rollback_tx(c)
      BY <2>2 DEF log_tx, commit_end, publish, rollback_tx, walVars, dbVars
    <2> QED  BY <2>1, <2>2 DEF Transaction
  <1>2. \A k \in Checkpointers : SyncPending(k) => SyncPending(k)'
    BY <1>1 DEF SyncPending
  <1> QED  BY <1>1, <1>2, FilesQuiet DEF BoundInv

LEMMA FilesInit == Init => FilesInv
  <1> SUFFICES ASSUME Init  PROVE FilesInv
    OBVIOUS
  <1>1. wal = <<>> /\ wal_synced = wal /\ db_synced = db
    BY DEF Init
  <1>2. Meta \notin DOMAIN wal
    BY <1>1
  <1> QED  BY <1>1, <1>2 DEF FilesInv, WalAhead, WalHolds, Unsynced

LEMMA FilesStep ==
    ASSUME "SyncDbFile" \notin FailAt
    PROVE  LockInv /\ BoundInv /\ FilesInv /\ [Next]_vars => FilesInv' /\ Advances
  <1> SUFFICES ASSUME LockInv, BoundInv, FilesInv, [Next]_vars  PROVE FilesInv' /\ Advances
    OBVIOUS
  <1>1. CASE UNCHANGED vars
    <2>1. boot' = boot /\ ckpt' = ckpt /\ UNCHANGED <<wal, wal_synced, wal_restarted, db, db_synced>>
      BY <1>1 DEF vars, walVars, dbVars
    <2>2. \A k \in Checkpointers : SyncPending(k) => SyncPending(k)'
      BY <2>1 DEF SyncPending
    <2> QED  BY <2>1, <2>2, FilesQuiet DEF BoundInv
  <1> QED  BY <1>1, FilesTransaction, FilesCheckpoint, FilesCrash, FilesBoot DEF Next

(* The boundary up to which a bootstrap skips the log never goes back, over *)
(* any sequence of commits, checkpoints, failures and crashes in which the  *)
(* sync of the database file does not fail: after such a failure the        *)
(* checkpoint that is tried again has nothing to backfill, skips the sync   *)
(* and empties the WAL, and a crash may bring the old page back.            *)
THEOREM BoundaryNeverGoesBack ==
    ASSUME "SyncDbFile" \notin FailAt
    PROVE  Spec => BoundaryAdvances
  <1>1. LockInv /\ BoundInv /\ FilesInv /\ [Next]_vars => FilesInv'
    BY FilesStep
  <1>2. LockInv /\ BoundInv /\ FilesInv /\ [Next]_vars => [Page(Meta)' >= Page(Meta)]_vars
    BY FilesStep DEF Advances
  <1> QED  BY <1>1, <1>2, LockInvInit, LockInvStep, BoundInit, BoundStep, FilesInit, PTL
           DEF Spec, BoundaryAdvances

-----------------------------------------------------------------------------
(* Types, and the clock past every version.  The chains are typed by the    *)
(* clock: every timestamp in them lies behind it.                           *)

VersionTo(n) == [begin : 0 .. n, end : 0 .. n, row : Value, btree_resident : BOOLEAN]
ChainTo(n) == Seq(VersionTo(n))
Operation == [delete : BOOLEAN, row : Value, btree_resident : BOOLEAN]

(* The elements that retain keeps are elements of the sequence.             *)
KeptFrom(q, s, I) == \A n \in 1 .. Len(q) : \E i \in I : q[n] = s[i]

LEMMA Retained ==
    ASSUME NEW S, NEW s \in Seq(S), NEW I, I \subseteq 1 .. Len(s)
    PROVE  retain(s, I) \in Seq(S) /\ KeptFrom(retain(s, I), s, I)
  <1>1. Len(s) \in Nat /\ \A i \in 1 .. Len(s) : s[i] \in S
    OBVIOUS
  <1>2. PICK m : m = Cardinality(I)
    OBVIOUS
  <1>3. m \in Nat /\ \A n \in 1 .. m : \E i \in I : Cardinality(I \cap 1 .. i) = n
    BY <1>1, <1>2, Ranks
  <1>4. PICK q : q = retain(s, I)
    OBVIOUS
  <1>5. q = [n \in 1 .. m |-> s[CHOOSE i \in I : Cardinality(I \cap 1 .. i) = n]]
    BY <1>2, <1>4 DEF retain
  <1>6. ASSUME NEW n \in 1 .. m
        PROVE  \E i \in I : q[n] = s[i]
    <2>1. PICK i : i = CHOOSE j \in I : Cardinality(I \cap 1 .. j) = n
      OBVIOUS
    <2>2. i \in I
      BY <1>3, <2>1
    <2> QED  BY <1>5, <2>1, <2>2
  <1>7. \A n \in 1 .. m : q[n] \in S
    BY <1>1, <1>6
  <1>8. q \in [1 .. m -> S]
    BY <1>5, <1>7
  <1>9. q \in Seq(S) /\ Len(q) = m
    BY <1>3, <1>8
  <1>10. KeptFrom(q, s, I)
    BY <1>6, <1>9 DEF KeptFrom
  <1> QED  BY <1>4, <1>9, <1>10

LEMMA ChainsGrow ==
    ASSUME NEW m \in Nat, NEW n \in Nat, m <= n, NEW chain \in ChainTo(m)
    PROVE  chain \in ChainTo(n)
  <1>1. \A i \in 1 .. Len(chain) : chain[i] \in VersionTo(n)
    <2>1. ASSUME NEW i \in 1 .. Len(chain)  PROVE chain[i] \in VersionTo(n)
      <3>1. chain[i] \in VersionTo(m)
        BY DEF ChainTo
      <3>2. 0 .. m \subseteq 0 .. n
        OBVIOUS
      <3> QED  BY <3>1, <3>2 DEF VersionTo
    <2> QED  BY <2>1
  <1>2. Len(chain) \in Nat /\ chain \in [1 .. Len(chain) -> VersionTo(n)]
    BY <1>1 DEF ChainTo
  <1> QED  BY <1>2 DEF ChainTo

(* A version put into its place.                                            *)
LEMMA InsertedTyped ==
    ASSUME NEW n \in Nat, NEW chain \in ChainTo(n), NEW rv \in VersionTo(n)
    PROVE  insert_version_raw(chain, rv) \in ChainTo(n)
  <1> DEFINE before == {i \in DOMAIN chain : chain[i].begin <= rv.begin}
             V == VersionTo(n)
  <1>1. chain \in Seq(V) /\ rv \in V /\ Len(chain) \in Nat /\ DOMAIN chain = 1 .. Len(chain)
    BY DEF ChainTo
  <1>2. PICK p : p = IF before = {} THEN 0 ELSE Max(before)
    OBVIOUS
  <1>3. p \in 0 .. Len(chain)
    <2>1. before \subseteq Nat /\ \A x \in before : x <= Len(chain)
      BY <1>1
    <2>2. CASE before # {}
      <3>1. Max(before) \in before
        BY <1>1, <2>1, <2>2, MaxOf
      <3> QED  BY <1>1, <1>2, <2>2, <3>1
    <2> QED  BY <1>1, <1>2, <2>2
  <1>4. insert_version_raw(chain, rv) = InsertAt(chain, p + 1, rv)
    BY <1>2 DEF insert_version_raw
  <1> HIDE DEF before, V
  <1>5. /\ SubSeq(chain, 1, p) \in Seq(V) /\ <<rv>> \in Seq(V)
        /\ SubSeq(chain, p + 1, Len(chain)) \in Seq(V)
    BY <1>1, <1>3
  <1>6. InsertAt(chain, p + 1, rv) \in Seq(V)
    <2>1. p + 1 - 1 = p
      BY <1>1, <1>3
    <2> QED  BY <1>5, <2>1 DEF InsertAt
  <1> QED  BY <1>4, <1>6 DEF ChainTo, V

(* A version ended in place.                                                *)
LEMMA EndedTyped ==
    ASSUME NEW n \in Nat, NEW chain \in ChainTo(n), NEW i \in DOMAIN chain, NEW ts \in 0 .. n
    PROVE  [chain EXCEPT ![i].end = ts] \in ChainTo(n)
  <1>1. /\ chain \in [1 .. Len(chain) -> VersionTo(n)] /\ Len(chain) \in Nat
        /\ DOMAIN chain = 1 .. Len(chain)
    BY DEF ChainTo
  <1>2. PICK v : v = chain[i]
    OBVIOUS
  <1>3. v \in VersionTo(n)
    BY <1>1, <1>2
  <1>4. [v EXCEPT !.end = ts] \in VersionTo(n)
    BY <1>3 DEF VersionTo
  <1>5. [chain EXCEPT ![i].end = ts] = [chain EXCEPT ![i] = [v EXCEPT !.end = ts]]
    BY <1>1, <1>2
  <1>6. [chain EXCEPT ![i].end = ts] \in [1 .. Len(chain) -> VersionTo(n)]
    BY <1>1, <1>4, <1>5
  <1> QED  BY <1>1, <1>6 DEF ChainTo

LEMMA LastIndex ==
    ASSUME NEW n \in Nat, NEW chain \in ChainTo(n), NEW I, I \subseteq DOMAIN chain, I # {}
    PROVE  Max(I) \in DOMAIN chain
  <1>1. Len(chain) \in Nat /\ DOMAIN chain = 1 .. Len(chain)
    BY DEF ChainTo
  <1>2. I \subseteq Nat /\ \A x \in I : x <= Len(chain)
    BY <1>1
  <1>3. Max(I) \in I
    BY <1>1, <1>2, MaxOf
  <1> QED  BY <1>3

(* A transaction writes a row.                                              *)
LEMMA WrittenTyped ==
    ASSUME NEW n \in Nat, n <= MaxTs, NEW r, versions[r] \in ChainTo(n), NEW ts \in 0 .. n,
           NEW write \in {"keep", "upsert", "delete"}
    PROVE  written(r, ts, write) \in ChainTo(n)
  <1>1. PICK chain : chain = versions[r]
    OBVIOUS
  <1>2. PICK current : current = {i \in DOMAIN chain : is_visible_to(ts, chain[i])}
    OBVIOUS
  <1>3. PICK resident \in BOOLEAN : resident = (~Hidden(ts, chain) /\ Page(r) # Absent)
    OBVIOUS
  <1>4. PICK ended : ended = IF current = {} THEN chain ELSE [chain EXCEPT ![Max(current)].end = ts]
    OBVIOUS
  <1>5. chain \in ChainTo(n)
    BY <1>1
  <1>6. ended \in ChainTo(n)
    <2>1. CASE current # {}
      <3>1. Max(current) \in DOMAIN chain
        BY <1>2, <1>5, <2>1, LastIndex
      <3> QED  BY <1>4, <1>5, <2>1, <3>1, EndedTyped
    <2> QED  BY <1>4, <1>5, <2>1
  <1>7. PICK up, gone : /\ up = [begin |-> ts, end |-> None, row |-> ts, btree_resident |-> resident]
                        /\ gone = [begin |-> None, end |-> ts, row |-> Absent, btree_resident |-> TRUE]
    OBVIOUS
  <1>8. up \in VersionTo(n) /\ gone \in VersionTo(n)
    BY <1>7, MvCheckpointAssumption DEF VersionTo, Value, None, Absent
  <1>9. insert_version_raw(ended, up) \in ChainTo(n) /\ insert_version_raw(chain, gone) \in ChainTo(n)
    BY <1>5, <1>6, <1>8, InsertedTyped
  <1>10. CASE write = "keep"
    <2>1. written(r, ts, write) = chain
      BY <1>1, <1>10 DEF written
    <2> QED  BY <1>5, <2>1
  <1>11. CASE write = "upsert"
    <2>1. written(r, ts, write) = insert_version_raw(ended, up)
      BY <1>1, <1>2, <1>3, <1>4, <1>7, <1>11 DEF written
    <2> QED  BY <1>9, <2>1
  <1>12. CASE write = "delete" /\ current # {}
    <2>1. written(r, ts, write) = ended
      BY <1>1, <1>2, <1>4, <1>12 DEF written
    <2> QED  BY <1>6, <2>1
  <1>13. CASE write = "delete" /\ current = {}
    <2>1. written(r, ts, write) = insert_version_raw(chain, gone)
      BY <1>1, <1>2, <1>7, <1>13 DEF written
    <2> QED  BY <1>9, <2>1
  <1> QED  BY <1>10, <1>11, <1>12, <1>13

(* and takes it back.                                                       *)
LEMMA RolledBackTyped ==
    ASSUME NEW n \in Nat, NEW chain \in ChainTo(n), NEW ts
    PROVE  [i \in DOMAIN chain |-> rollback_row_version(ts, chain[i])] \in ChainTo(n)
  <1>1. /\ Len(chain) \in Nat /\ DOMAIN chain = 1 .. Len(chain)
        /\ \A i \in 1 .. Len(chain) : chain[i] \in VersionTo(n)
    BY DEF ChainTo
  <1>2. ASSUME NEW v \in VersionTo(n)  PROVE rollback_row_version(ts, v) \in VersionTo(n)
    <2>1. [v EXCEPT !.end = None] \in VersionTo(n)
      BY DEF VersionTo, None
    <2>2. [v EXCEPT !.begin = None] \in VersionTo(n)
      BY DEF VersionTo, None
    <2>3. PICK w : w = [v EXCEPT !.begin = None]
      OBVIOUS
    <2>4. [w EXCEPT !.end = None] \in VersionTo(n)
      BY <2>2, <2>3 DEF VersionTo, None
    <2>5. [v EXCEPT !.begin = None, !.end = None] = [w EXCEPT !.end = None]
      BY <2>3
    <2> QED  BY <2>1, <2>4, <2>5 DEF rollback_row_version
  <1>3. [i \in DOMAIN chain |-> rollback_row_version(ts, chain[i])] \in [1 .. Len(chain) -> VersionTo(n)]
    BY <1>1, <1>2
  <1> QED  BY <1>1, <1>3 DEF ChainTo

LEMMA CollectedTyped ==
    ASSUME NEW n \in Nat, NEW chain \in ChainTo(n), NEW lwm, NEW ckpt_max
    PROVE  gc_version_chain(chain, lwm, ckpt_max) \in ChainTo(n)
  <1>1. PICK live : live = retain(chain, {i \in DOMAIN chain : chain[i].begin # None \/ chain[i].end # None})
    OBVIOUS
  <1>2. live \in ChainTo(n)
    <2>1. PICK I : I = {i \in DOMAIN chain : chain[i].begin # None \/ chain[i].end # None}
      OBVIOUS
    <2>2. I \subseteq 1 .. Len(chain) /\ chain \in Seq(VersionTo(n))
      BY <2>1 DEF ChainTo
    <2>3. retain(chain, I) \in Seq(VersionTo(n))
      BY <2>2, Retained
    <2> QED  BY <1>1, <2>1, <2>3 DEF ChainTo
  <1>3. PICK kept : kept = retain(live, {i \in DOMAIN live : ~superseded(live, lwm, ckpt_max, live[i])})
    OBVIOUS
  <1>4. kept \in ChainTo(n)
    <2>1. PICK I : I = {i \in DOMAIN live : ~superseded(live, lwm, ckpt_max, live[i])}
      OBVIOUS
    <2>2. I \subseteq 1 .. Len(live) /\ live \in Seq(VersionTo(n))
      BY <1>2, <2>1 DEF ChainTo
    <2>3. retain(live, I) \in Seq(VersionTo(n))
      BY <2>2, Retained
    <2> QED  BY <1>3, <2>1, <2>3 DEF ChainTo
  <1>5. <<>> \in ChainTo(n)
    BY DEF ChainTo
  <1>6. gc_version_chain(chain, lwm, ckpt_max) \in {<<>>, kept}
    BY <1>1, <1>3 DEF gc_version_chain
  <1> QED  BY <1>4, <1>5, <1>6

(* One operation of a frame, replayed.                                      *)
LEMMA ReplayedOpTyped ==
    ASSUME NEW n \in Nat, NEW chain \in ChainTo(n), NEW ts \in 0 .. n, NEW op \in Operation
    PROVE  replay_op(ts, chain, op) \in ChainTo(n)
  <1>1. PICK current : current = {i \in DOMAIN chain : /\ chain[i].end = None
                                                       /\ chain[i].begin # None /\ chain[i].begin < ts}
    OBVIOUS
  <1>2. PICK up, gone : /\ up = [begin |-> ts, end |-> None, row |-> op.row,
                                 btree_resident |-> op.btree_resident]
                        /\ gone = [begin |-> None, end |-> ts, row |-> Absent,
                                   btree_resident |-> op.btree_resident]
    OBVIOUS
  <1>3. op.delete \in BOOLEAN /\ op.row \in Value /\ op.btree_resident \in BOOLEAN
    BY DEF Operation
  <1>4. up \in VersionTo(n) /\ gone \in VersionTo(n)
    BY <1>2, <1>3, MvCheckpointAssumption DEF VersionTo, Value, None, Absent
  <1>5. insert_version_raw(chain, up) \in ChainTo(n) /\ insert_version_raw(chain, gone) \in ChainTo(n)
    BY <1>4, InsertedTyped
  <1>6. CASE ~op.delete
    <2>1. replay_op(ts, chain, op) = insert_version_raw(chain, up)
      BY <1>2, <1>6 DEF replay_op
    <2> QED  BY <1>5, <2>1
  <1>7. CASE op.delete /\ current # {}
    <2>1. Max(current) \in DOMAIN chain
      BY <1>1, <1>7, LastIndex
    <2>2. [chain EXCEPT ![Max(current)].end = ts] \in ChainTo(n)
      BY <2>1, EndedTyped
    <2>3. replay_op(ts, chain, op) = [chain EXCEPT ![Max(current)].end = ts]
      BY <1>1, <1>7 DEF replay_op
    <2> QED  BY <2>2, <2>3
  <1>8. CASE op.delete /\ current = {}
    <2>1. replay_op(ts, chain, op) = insert_version_raw(chain, gone)
      BY <1>1, <1>2, <1>8 DEF replay_op
    <2> QED  BY <1>5, <2>1
  <1> QED  BY <1>3, <1>6, <1>7, <1>8

(* The operations of one frame on one row, replayed.                        *)
ReplayFrame(r, chain, f) == FoldLeft(LAMBDA acc, op : replay_op(f.ts, acc, op), chain, f.ops[r])

LEMMA ReplayedFrameTyped ==
    ASSUME NEW n \in Nat, NEW chain \in ChainTo(n), NEW r, NEW f,
           f.ts \in 0 .. n, f.ops[r] \in Seq(Operation)
    PROVE  ReplayFrame(r, chain, f) \in ChainTo(n)
  <1>0. PICK X, ops, ts : X = ChainTo(n) /\ ops = f.ops[r] /\ ts = f.ts
    OBVIOUS
  <1>1. PICK N : N = Len(ops)
    OBVIOUS
  <1>2. /\ N \in Nat /\ DOMAIN ops = 1 .. N /\ chain \in X
        /\ \A i \in 1 .. N : ops[i] \in Operation
    BY <1>0, <1>1
  <1>3. \A i \in 1 .. N, x \in X : replay_op(ts, x, ops[i]) \in X
    BY <1>0, <1>2, ReplayedOpTyped
  <1>4. PICK step : step = [a \in (1 .. N) \X X |-> replay_op(ts, a[2], ops[a[1]])]
    OBVIOUS
  <1>5. \A i \in 1 .. N, x \in X : step[<<i, x>>] = replay_op(ts, x, ops[i])
    BY <1>4
  <1>6. step \in [(1 .. N) \X X -> X]
    <2>1. \A a \in (1 .. N) \X X : a[1] \in 1 .. N /\ a[2] \in X
      OBVIOUS
    <2>2. \A a \in (1 .. N) \X X : replay_op(ts, a[2], ops[a[1]]) \in X
      BY <1>3, <2>1
    <2> QED  BY <1>4, <2>2
  <1> DEFINE Eq(g) == g = [s \in SUBSET (1 .. N) |->
                             IF s = {} THEN chain ELSE replay_op(ts, g[s \ {Max(s)}], ops[Max(s)])]
  <1>7. ASSUME NEW s \in SUBSET (1 .. N), s # {}
        PROVE  Max(s) \in 1 .. N /\ s \ {Max(s)} \in SUBSET (1 .. N)
    <2>1. s \subseteq Nat /\ \A x \in s : x <= N
      BY <1>2
    <2>2. Max(s) \in s
      BY <1>2, <1>7, <2>1, MaxOf
    <2> QED  BY <2>2
  <1>8. PICK g \in [SUBSET (1 .. N) -> X] : FoldEquation(g, N, chain, step)
    BY <1>2, <1>6, FoldExists
  <1>9. Eq(g)
    <2>1. ASSUME NEW s \in SUBSET (1 .. N), s # {}
          PROVE  step[<<Max(s), g[s \ {Max(s)}]>>] = replay_op(ts, g[s \ {Max(s)}], ops[Max(s)])
      BY <1>5, <1>7, <1>8, <2>1
    <2> QED  BY <1>8, <2>1 DEF FoldEquation
  <1>10. ReplayFrame(r, chain, f) = (CHOOSE gg : Eq(gg))[1 .. N]
    BY <1>0, <1>2 DEF ReplayFrame, FoldLeft, MapThenFoldSet
  <1>11. PICK h : h = CHOOSE gg : Eq(gg)
    OBVIOUS
  <1>12. Eq(h)
    BY <1>9, <1>11
  <1>13. \A s \in SUBSET (1 .. N) :
           h[s] = IF s = {} THEN chain ELSE replay_op(ts, h[s \ {Max(s)}], ops[Max(s)])
    BY <1>12
  <1> HIDE DEF Eq
  <1>14. h[{}] = chain
    BY <1>13
  <1>15. FoldsWithin(h, N, X, chain, step)
    <2>1. \A s \in SUBSET (1 .. N) :
            s # {} /\ h[s \ {Max(s)}] \in X => h[s] = step[<<Max(s), h[s \ {Max(s)}]>>]
      BY <1>5, <1>7, <1>13
    <2> QED  BY <1>14, <2>1 DEF FoldsWithin
  <1>16. h[1 .. N] \in X
    BY <1>2, <1>6, <1>15, FoldTyped
  <1> QED  BY <1>0, <1>10, <1>11, <1>16

LEMMA ReplayedTyped ==
    ASSUME NEW n \in Nat, NEW r, NEW frames, DOMAIN frames = 1 .. Len(frames), Len(frames) \in Nat,
           \A i \in 1 .. Len(frames) : frames[i].ts \in 0 .. n /\ frames[i].ops[r] \in Seq(Operation)
    PROVE  replay(frames, r) \in ChainTo(n)
  <1>0. PICK X : X = ChainTo(n)
    OBVIOUS
  <1>1. PICK N : N = Len(frames)
    OBVIOUS
  <1>2. N \in Nat /\ DOMAIN frames = 1 .. N /\ <<>> \in X
    BY <1>0, <1>1 DEF ChainTo
  <1>3. \A i \in 1 .. N, x \in X : ReplayFrame(r, x, frames[i]) \in X
    BY <1>0, <1>1, ReplayedFrameTyped
  <1>4. PICK step : step = [a \in (1 .. N) \X X |-> ReplayFrame(r, a[2], frames[a[1]])]
    OBVIOUS
  <1>5. \A i \in 1 .. N, x \in X : step[<<i, x>>] = ReplayFrame(r, x, frames[i])
    BY <1>4
  <1>6. step \in [(1 .. N) \X X -> X]
    <2>1. \A a \in (1 .. N) \X X : a[1] \in 1 .. N /\ a[2] \in X
      OBVIOUS
    <2>2. \A a \in (1 .. N) \X X : ReplayFrame(r, a[2], frames[a[1]]) \in X
      BY <1>3, <2>1
    <2> QED  BY <1>4, <2>2
  <1> DEFINE Eq(g) == g = [s \in SUBSET (1 .. N) |->
                             IF s = {} THEN <<>> ELSE ReplayFrame(r, g[s \ {Max(s)}], frames[Max(s)])]
  <1>7. ASSUME NEW s \in SUBSET (1 .. N), s # {}
        PROVE  Max(s) \in 1 .. N /\ s \ {Max(s)} \in SUBSET (1 .. N)
    <2>1. s \subseteq Nat /\ \A x \in s : x <= N
      BY <1>2
    <2>2. Max(s) \in s
      BY <1>2, <1>7, <2>1, MaxOf
    <2> QED  BY <2>2
  <1>8. PICK g \in [SUBSET (1 .. N) -> X] : FoldEquation(g, N, <<>>, step)
    BY <1>2, <1>6, FoldExists
  <1>9. Eq(g)
    <2>1. ASSUME NEW s \in SUBSET (1 .. N), s # {}
          PROVE  step[<<Max(s), g[s \ {Max(s)}]>>] = ReplayFrame(r, g[s \ {Max(s)}], frames[Max(s)])
      BY <1>5, <1>7, <1>8, <2>1
    <2> QED  BY <1>8, <2>1 DEF FoldEquation
  <1>10. replay(frames, r) = (CHOOSE gg : Eq(gg))[1 .. N]
    <2>1. replay(frames, r) = FoldLeft(LAMBDA chain, f : ReplayFrame(r, chain, f), <<>>, frames)
      BY DEF replay, ReplayFrame
    <2> QED  BY <1>2, <2>1 DEF FoldLeft, MapThenFoldSet
  <1>11. PICK h : h = CHOOSE gg : Eq(gg)
    OBVIOUS
  <1>12. Eq(h)
    BY <1>9, <1>11
  <1>13. \A s \in SUBSET (1 .. N) :
           h[s] = IF s = {} THEN <<>> ELSE ReplayFrame(r, h[s \ {Max(s)}], frames[Max(s)])
    BY <1>12
  <1> HIDE DEF Eq
  <1>14. h[{}] = <<>>
    BY <1>13
  <1>15. FoldsWithin(h, N, X, <<>>, step)
    <2>1. \A s \in SUBSET (1 .. N) :
            s # {} /\ h[s \ {Max(s)}] \in X => h[s] = step[<<Max(s), h[s \ {Max(s)}]>>]
      BY <1>5, <1>7, <1>13
    <2> QED  BY <1>14, <2>1 DEF FoldsWithin
  <1>16. h[1 .. N] \in X
    BY <1>2, <1>6, <1>15, FoldTyped
  <1> QED  BY <1>0, <1>10, <1>11, <1>16

-----------------------------------------------------------------------------
(* The files.                                                               *)
LogTyped(file) == file.header \in BOOLEAN /\ file.frames \in Seq(FrameType)

LEMMA OperationTyped ==
    ASSUME NEW n \in Nat, NEW rv \in VersionTo(n)
    PROVE  serialize_op_entry(rv) \in Operation
  BY MvCheckpointAssumption DEF serialize_op_entry, Operation, VersionTo, Value, Absent

LEMMA FrameTyped ==
    ASSUME NEW n \in Nat, n <= MaxTs, NEW c, tx[c].ts \in 1 .. n,
           \A r \in Rows : versions[r] \in ChainTo(n),
           tx[c].writes \in [Rows -> {"keep", "upsert", "delete"}], log_chained \in BOOLEAN
    PROVE  Frame(c) \in FrameType
  <1>1. PICK ts : ts = tx[c].ts
    OBVIOUS
  <1> DEFINE chain(r) == written(r, ts, tx[c].writes[r])
             kept(r) == {i \in DOMAIN chain(r) : touched(ts, chain(r)[i])}
             ops(r) == retain(chain(r), kept(r))
             entries(r) == [i \in DOMAIN ops(r) |-> serialize_op_entry(ops(r)[i])]
  <1>2. ASSUME NEW r \in Rows  PROVE entries(r) \in Seq(Operation)
    <2>1. tx[c].writes[r] \in {"keep", "upsert", "delete"} /\ ts \in 0 .. n
      BY <1>1
    <2>2. PICK z, I : z = chain(r) /\ I = kept(r)
      OBVIOUS
    <2>3. z \in ChainTo(n)
      <3> HIDE DEF chain
      <3>1. chain(r) \in ChainTo(n)
        BY <2>1, WrittenTyped DEF chain
      <3> QED  BY <2>2, <3>1
    <2>4. I \subseteq 1 .. Len(z) /\ z \in Seq(VersionTo(n))
      BY <2>2, <2>3 DEF ChainTo
    <2>5. PICK q : q = retain(z, I)
      OBVIOUS
    <2>6. q \in Seq(VersionTo(n))
      BY <2>4, <2>5, Retained
    <2>7. /\ Len(q) \in Nat /\ DOMAIN q = 1 .. Len(q)
          /\ \A i \in 1 .. Len(q) : serialize_op_entry(q[i]) \in Operation
      BY <2>6, OperationTyped
    <2>8. [i \in DOMAIN q |-> serialize_op_entry(q[i])] \in [1 .. Len(q) -> Operation]
      BY <2>7
    <2>9. [i \in DOMAIN q |-> serialize_op_entry(q[i])] \in Seq(Operation)
      BY <2>7, <2>8
    <2>10. q = ops(r)
      BY <2>2, <2>5
    <2> HIDE DEF ops
    <2> QED  BY <2>9, <2>10
  <1>3. Frame(c) = [ts |-> ts, valid |-> log_chained, ops |-> [r \in Rows |-> entries(r)]]
    BY <1>1 DEF Frame
  <1> HIDE DEF entries
  <1>4. PICK o : o = [r \in Rows |-> entries(r)]
    OBVIOUS
  <1>5. o \in [Rows -> Seq(Operation)]
    BY <1>2, <1>4
  <1>6. ts \in 1 .. MaxTs
    BY <1>1, MvCheckpointAssumption
  <1>7. Frame(c) = [ts |-> ts, valid |-> log_chained, ops |-> o]
    BY <1>3, <1>4
  <1>8. FrameType = [ts : 1 .. MaxTs, valid : BOOLEAN, ops : [Rows -> Seq(Operation)]]
    BY DEF FrameType, Operation
  <1> QED  BY <1>5, <1>6, <1>7, <1>8

LEMMA OverTyped ==
    ASSUME NEW above, NEW below, IsPages(above), IsPages(below)
    PROVE  IsPages(over(above, below)) /\ DOMAIN over(above, below) = DOMAIN above \cup DOMAIN below
  BY DEF IsPages, over

LEMMA NoPages == IsPages(<<>>)
  BY DEF IsPages

(* What a checkpoint collects are pages.                                    *)
LEMMA WritesTyped ==
    ASSUME NEW n \in Nat, NEW old \in Stamp, NEW b \in Stamp, NEW chains,
           \A r \in Rows : chains[r] \in ChainTo(n)
    PROVE  IsPages(collect(old, b, chains))
  <1>1. ASSUME NEW r \in Rows, checkpointable(old, chains[r]) # {}
        PROVE  (LET rv == chains[r][Max(checkpointable(old, chains[r]))]
                IN  IF rv.end # None THEN Absent ELSE rv.row) \in Value
    <2>1. PICK I, z : I = checkpointable(old, chains[r]) /\ z = chains[r]
      OBVIOUS
    <2>2. z \in ChainTo(n) /\ I # {} /\ I \subseteq DOMAIN z
      BY <1>1, <2>1 DEF checkpointable
    <2>3. Max(I) \in DOMAIN z
      BY <2>2, LastIndex
    <2>4. z[Max(I)] \in VersionTo(n)
      BY <2>2, <2>3 DEF ChainTo
    <2>5. z[Max(I)].row \in Value /\ Absent \in Value
      BY <2>4, MvCheckpointAssumption DEF VersionTo, Value, Absent
    <2> QED  BY <2>1, <2>5
  <1>2. PICK w : w = row_writes(old, chains)
    OBVIOUS
  <1>3. IsPages(w)
    BY <1>1, <1>2 DEF row_writes, IsPages, Pages
  <1>4. PICK m : m = [p \in {Meta} |-> b]
    OBVIOUS
  <1>5. b \in Value /\ Meta \in Pages
    BY MvCheckpointAssumption DEF Stamp, Value, Pages
  <1>6. IsPages(m)
    BY <1>4, <1>5 DEF IsPages
  <1>7. IsPages(over(m, w))
    BY <1>3, <1>6, OverTyped
  <1> QED  BY <1>2, <1>3, <1>4, <1>7 DEF collect

(* A page of one file or of another.                                        *)
LEMMA MixedTyped ==
    ASSUME NEW f, NEW g, NEW P, IsPages(f), IsPages(g), DOMAIN g = Pages, P \cap Pages \subseteq DOMAIN f
    PROVE  /\ IsPages([p \in Pages |-> IF p \in P THEN f[p] ELSE g[p]])
           /\ DOMAIN [p \in Pages |-> IF p \in P THEN f[p] ELSE g[p]] = Pages
  BY DEF IsPages

-----------------------------------------------------------------------------
(* The invariant of the types.                                              *)
ActorTypes ==
    /\ commit_lock \in Conns \cup {Nobody}
    /\ \A c \in Conns : /\ tx[c].state \in {"idle", "active", "logged", "publish"}
                        /\ tx[c].state # "idle" => tx[c].ts # 0
                        /\ tx[c].writes \in [Rows -> {"keep", "upsert", "delete"}]
    /\ \A k \in Checkpointers : /\ ckpt[k].state \in Phases \cup {"idle", "AcquireLock"}
                                /\ IsPages(ckpt[k].writes)

ChainTypes == versions \in [Rows -> ChainTo(clock - 1)]

LogTypes == LogTyped(log) /\ LogTyped(log_synced) /\ log_chained \in BOOLEAN

PageFiles ==
    /\ IsPages(wal) /\ IsPages(wal_synced) /\ IsPages(db) /\ IsPages(db_synced)
    /\ DOMAIN db = Pages /\ DOMAIN db_synced = Pages

BootType == boot \in {"up", "down", "rejected", "sync_db", "update_header", "truncate_wal", "replay"}

TypeInv == BootType /\ ActorTypes /\ ChainTypes /\ LogTypes /\ PageFiles

(* A step that leaves the actors, the files, or both as they are.           *)
LEMMA ActorsStay ==
    ASSUME ActorTypes, UNCHANGED <<commit_lock, tx, ckpt>>
    PROVE  ActorTypes'
  BY DEF ActorTypes

LEMMA PageFilesStay ==
    ASSUME PageFiles, UNCHANGED <<wal, wal_synced, db, db_synced>>
    PROVE  PageFiles'
  BY DEF PageFiles

LEMMA LogStays ==
    ASSUME LogTypes, UNCHANGED <<log, log_synced, log_chained>>
    PROVE  LogTypes'
  BY DEF LogTypes

LEMMA ChainsStay ==
    ASSUME ChainTypes, clock' = clock, versions' = versions
    PROVE  ChainTypes'
  BY DEF ChainTypes

(* The record of one transaction changes.                                   *)
LEMMA TransactionTyped ==
    ASSUME LockInv, ActorTypes, NEW c \in Conns, NEW t, tx' = [tx EXCEPT ![c] = t], ckpt' = ckpt,
           commit_lock' \in Conns \cup {Nobody},
           t.state \in {"idle", "active", "logged", "publish"}, t.state # "idle" => t.ts # 0,
           t.writes \in [Rows -> {"keep", "upsert", "delete"}]
    PROVE  ActorTypes'
  <1>1. tx'[c] = t /\ \A d \in Conns : d # c => tx'[d] = tx[d]
    BY DEF LockInv, Shapes
  <1> QED  BY <1>1 DEF ActorTypes

LEMMA NoTxTyped ==
    NoTx.state = "idle" /\ NoTx.writes \in [Rows -> {"keep", "upsert", "delete"}]
  BY DEF NoTx

(* A transaction on its way has its writes and a timestamp behind the       *)
(* clock.                                                                   *)
LEMMA OnItsWay ==
    ASSUME LockInv, BoundInv, TypeInv, NEW c \in Conns, tx[c].state # "idle"
    PROVE  /\ boot = "up" /\ clock - 1 \in Nat /\ clock - 1 <= MaxTs /\ tx[c].ts \in 1 .. clock - 1
           /\ \A r \in Rows : versions[r] \in ChainTo(clock - 1)
           /\ tx[c].writes \in [Rows -> {"keep", "upsert", "delete"}]
  <1>1. boot = "up"
    BY ActorsNeedTheStore
  <1>2. clock \in 1 .. MaxTs + 1 /\ tx[c].ts \in 0 .. MaxTs /\ tx[c].ts < clock /\ tx[c].ts # 0
    BY <1>1 DEF BoundInv, StampTypes, Stamp, ClockPast, Reading, TypeInv, ActorTypes
  <1>3. clock - 1 \in Nat /\ clock - 1 <= MaxTs /\ tx[c].ts \in 1 .. clock - 1
    BY <1>2, MvCheckpointAssumption
  <1> QED  BY <1>1, <1>3 DEF TypeInv, ChainTypes, ActorTypes

LEMMA TypedTransaction ==
    ASSUME LockInv, BoundInv, TypeInv, NEW c \in Conns, Transaction(c)
    PROVE  TypeInv'
  <1>1. BootType /\ ActorTypes /\ ChainTypes /\ LogTypes /\ PageFiles /\ LogWriter /\ StampTypes
    BY DEF TypeInv, BoundInv
  <1>2. IsTx(tx[c]) /\ tx[c].writes \in [Rows -> {"keep", "upsert", "delete"}]
    BY <1>1 DEF LockInv, Shapes, ActorTypes
  <1>3. clock \in 1 .. MaxTs + 1 /\ clock - 1 \in Nat
    BY <1>1, MvCheckpointAssumption DEF StampTypes
  <1>4. ASSUME NEW writes \in [Rows -> {"keep", "upsert", "delete"}], run_tx(c, writes)
        PROVE  TypeInv'
    <2>1. /\ tx' = [tx EXCEPT ![c] = [state |-> "active", ts |-> clock, writes |-> writes]]
          /\ clock' = clock + 1
          /\ UNCHANGED <<boot, commit_lock, versions, ckpt, log, log_synced, log_chained, wal,
                         wal_synced, db, db_synced>>
      BY <1>4 DEF run_tx, logVars, walVars, dbVars
    <2>2. ActorTypes'
      <3>1. PICK t : t = [state |-> "active", ts |-> clock, writes |-> writes]
        OBVIOUS
      <3>2. t.state = "active" /\ t.ts # 0 /\ t.writes \in [Rows -> {"keep", "upsert", "delete"}]
        BY <1>3, <3>1
      <3>3. commit_lock' \in Conns \cup {Nobody} /\ ckpt' = ckpt /\ tx' = [tx EXCEPT ![c] = t]
        BY <1>1, <2>1, <3>1 DEF ActorTypes
      <3> QED  BY <1>1, <3>2, <3>3, TransactionTyped
    <2>3. ChainTypes'
      <3>1. PICK m, n : m = clock - 1 /\ n = clock' - 1
        OBVIOUS
      <3>2. m \in Nat /\ n \in Nat /\ m <= n
        BY <1>3, <2>1, <3>1
      <3>3. \A r \in Rows : versions[r] \in ChainTo(m)
        BY <1>1, <3>1 DEF ChainTypes
      <3>4. \A r \in Rows : versions[r] \in ChainTo(n)
        BY <3>2, <3>3, ChainsGrow
      <3>5. versions \in [Rows -> ChainTo(n)]
        BY <1>1, <3>4 DEF ChainTypes
      <3> QED  BY <2>1, <3>1, <3>5 DEF ChainTypes
    <2> QED  BY <1>1, <2>1, <2>2, <2>3, LogStays, PageFilesStay DEF TypeInv, BootType
  <1>5. CASE log_tx(c)
    <2>1. /\ tx[c].state = "active" /\ commit_lock' = c
          /\ log' = [header |-> TRUE, frames |-> Append(owned_frames, Frame(c))]
          /\ tx' = [tx EXCEPT ![c].state = "logged"]
          /\ UNCHANGED <<boot, clock, versions, ckpt, log_synced, log_chained, wal,
                         wal_synced, db, db_synced>>
      BY <1>5 DEF log_tx, logVars, walVars, dbVars
    <2>2. ActorTypes'
      <3>1. PICK t : t = [tx[c] EXCEPT !.state = "logged"]
        OBVIOUS
      <3>2. t.state = "logged" /\ t.ts = tx[c].ts /\ t.writes = tx[c].writes
        BY <1>2, <3>1 DEF IsTx
      <3>3. tx' = [tx EXCEPT ![c] = t] /\ tx[c].ts # 0
        BY <1>1, <2>1, <3>1 DEF ActorTypes
      <3> QED  BY <1>1, <1>2, <2>1, <3>2, <3>3, TransactionTyped
    <2>3. LogTypes'
      <3>1. PICK f : f = Frame(c)
        OBVIOUS
      <3>2. f \in FrameType
        <4>1. PICK n : n = clock - 1
          OBVIOUS
        <4>2. /\ n \in Nat /\ n <= MaxTs /\ tx[c].ts \in 1 .. n /\ log_chained \in BOOLEAN
              /\ \A r \in Rows : versions[r] \in ChainTo(n)
          BY <1>1, <2>1, <4>1, OnItsWay DEF LogTypes
        <4> QED  BY <1>2, <3>1, <4>2, FrameTyped
      <3>3. owned_frames \in Seq(FrameType)
        <4>1. PICK s : s = log.frames
          OBVIOUS
        <4>2. s \in Seq(FrameType) /\ log_offset \in 0 .. Len(s)
          BY <1>1, <4>1 DEF LogTypes, LogTyped, LogWriter
        <4>3. SubSeq(s, 1, log_offset) \in Seq(FrameType)
          BY <4>2
        <4> QED  BY <4>1, <4>3 DEF owned_frames
      <3>4. PICK z : z = Append(owned_frames, f)
        OBVIOUS
      <3>5. z \in Seq(FrameType)
        BY <3>2, <3>3, <3>4
      <3>6. log' = [header |-> TRUE, frames |-> z]
        BY <2>1, <3>1, <3>4
      <3>7. log'.header = TRUE /\ log'.frames = z
        BY <3>6
      <3>8. LogTyped(log)'
        BY <3>5, <3>7 DEF LogTyped
      <3> QED  BY <1>1, <2>1, <3>8 DEF LogTypes
    <2> QED  BY <1>1, <2>1, <2>2, <2>3, ChainsStay, PageFilesStay DEF TypeInv, BootType
  <1>6. CASE commit_end(c)
    <2>1. /\ tx[c].state = "logged" /\ commit_lock' = Nobody /\ log_synced' = log
          /\ versions' = [r \in Rows |-> written(r, tx[c].ts, tx[c].writes[r])]
          /\ tx' = [tx EXCEPT ![c].state = "publish"]
          /\ UNCHANGED <<boot, clock, ckpt, log, log_chained, wal, wal_synced, db, db_synced>>
      BY <1>6 DEF commit_end, logVars, walVars, dbVars
    <2>2. ActorTypes'
      <3>1. PICK t : t = [tx[c] EXCEPT !.state = "publish"]
        OBVIOUS
      <3>2. t.state = "publish" /\ t.ts = tx[c].ts /\ t.writes = tx[c].writes
        BY <1>2, <3>1 DEF IsTx
      <3>3. tx' = [tx EXCEPT ![c] = t] /\ tx[c].ts # 0
        BY <1>1, <2>1, <3>1 DEF ActorTypes
      <3> QED  BY <1>1, <1>2, <2>1, <3>2, <3>3, TransactionTyped
    <2>3. ChainTypes'
      <3>1. PICK n : n = clock - 1
        OBVIOUS
      <3>2. PICK ts : ts = tx[c].ts
        OBVIOUS
      <3>3. n \in Nat /\ n <= MaxTs /\ ts \in 0 .. n /\ \A r \in Rows : versions[r] \in ChainTo(n)
        BY <2>1, <3>1, <3>2, OnItsWay
      <3>4. ASSUME NEW r \in Rows  PROVE written(r, ts, tx[c].writes[r]) \in ChainTo(n)
        <4>1. PICK w \in {"keep", "upsert", "delete"} : w = tx[c].writes[r]
          BY <1>2
        <4> QED  BY <3>3, <4>1, WrittenTyped
      <3>5. versions' \in [Rows -> ChainTo(n)]
        BY <2>1, <3>2, <3>4
      <3> QED  BY <2>1, <3>1, <3>5 DEF ChainTypes
    <2>4. LogTypes'
      BY <1>1, <2>1 DEF LogTypes
    <2> QED  BY <1>1, <2>1, <2>2, <2>3, <2>4, PageFilesStay DEF TypeInv, BootType
  <1>7. CASE publish(c)
    <2>1. /\ tx' = [tx EXCEPT ![c] = NoTx]
          /\ UNCHANGED <<boot, clock, commit_lock, versions, ckpt, log, log_synced, log_chained,
                         wal, wal_synced, db, db_synced>>
      BY <1>7 DEF publish, logVars, walVars, dbVars
    <2>2. ActorTypes'
      <3>1. commit_lock' \in Conns \cup {Nobody} /\ ckpt' = ckpt
        BY <1>1, <2>1 DEF ActorTypes
      <3> QED  BY <1>1, <2>1, <3>1, NoTxTyped, TransactionTyped
    <2> QED  BY <1>1, <2>1, <2>2, ChainsStay, LogStays, PageFilesStay DEF TypeInv, BootType
  <1>8. CASE rollback_tx(c)
    <2>0. tx[c].state = "logged" \/ tx[c].state = "active"
      BY <1>8 DEF rollback_tx
    <2>1. /\ tx' = [tx EXCEPT ![c] = NoTx] /\ log_synced' \in {log, log_synced}
          /\ commit_lock' \in {commit_lock, Nobody}
          /\ versions' = [r \in Rows |->
               LET chain == written(r, tx[c].ts, tx[c].writes[r])
               IN  [i \in DOMAIN chain |-> rollback_row_version(tx[c].ts, chain[i])]]
          /\ UNCHANGED <<boot, clock, ckpt, log, log_chained, wal, wal_synced, db, db_synced>>
      BY <1>8 DEF rollback_tx, walVars, dbVars
    <2>2. ActorTypes'
      <3>1. commit_lock' \in Conns \cup {Nobody} /\ ckpt' = ckpt
        BY <1>1, <2>1 DEF ActorTypes
      <3> QED  BY <1>1, <2>1, <3>1, NoTxTyped, TransactionTyped
    <2>3. ChainTypes'
      <3>1. PICK n : n = clock - 1
        OBVIOUS
      <3>2. PICK ts : ts = tx[c].ts
        OBVIOUS
      <3>3. n \in Nat /\ n <= MaxTs /\ ts \in 0 .. n /\ \A r \in Rows : versions[r] \in ChainTo(n)
        BY <2>0, <3>1, <3>2, OnItsWay
      <3>4. ASSUME NEW r \in Rows
            PROVE  (LET chain == written(r, ts, tx[c].writes[r])
                    IN  [i \in DOMAIN chain |-> rollback_row_version(ts, chain[i])]) \in ChainTo(n)
        <4>1. PICK w \in {"keep", "upsert", "delete"} : w = tx[c].writes[r]
          BY <1>2
        <4>2. PICK z : z = written(r, ts, w)
          OBVIOUS
        <4>3. z \in ChainTo(n)
          BY <3>3, <4>2, WrittenTyped
        <4>4. [i \in DOMAIN z |-> rollback_row_version(ts, z[i])] \in ChainTo(n)
          BY <3>3, <4>3, RolledBackTyped
        <4> QED  BY <4>1, <4>2, <4>4
      <3>5. versions' \in [Rows -> ChainTo(n)]
        BY <2>1, <3>2, <3>4
      <3> QED  BY <2>1, <3>1, <3>5 DEF ChainTypes
    <2>4. LogTypes'
      BY <1>1, <2>1 DEF LogTypes
    <2> QED  BY <1>1, <2>1, <2>2, <2>3, <2>4, PageFilesStay DEF TypeInv, BootType
  <1> QED  BY <1>4, <1>5, <1>6, <1>7, <1>8 DEF Transaction

(* The record of one checkpoint changes.                                    *)
LEMMA CheckpointTyped ==
    ASSUME LockInv, ActorTypes, NEW k \in Checkpointers, NEW m, ckpt' = [ckpt EXCEPT ![k] = m],
           UNCHANGED <<commit_lock, tx>>,
           m.state \in Phases \cup {"idle", "AcquireLock"}, IsPages(m.writes)
    PROVE  ActorTypes'
  <1>1. ckpt'[k] = m /\ \A j \in Checkpointers : j # k => ckpt'[j] = ckpt[j]
    BY DEF LockInv, Shapes
  <1> QED  BY <1>1 DEF ActorTypes

LEMMA NoCheckpointTyped == NoCheckpoint.state = "idle" /\ IsPages(NoCheckpoint.writes)
  BY NoPages DEF NoCheckpoint

LEMMA StepTyped ==
    ASSUME LockInv, ActorTypes, NEW k \in Checkpointers, NEW from, NEW to \in Phases,
           Step(k, from, to), UNCHANGED <<commit_lock, tx>>
    PROVE  ActorTypes'
  <1>1. IsCheckpoint(ckpt[k]) /\ IsPages(ckpt[k].writes)
    BY DEF LockInv, Shapes, ActorTypes
  <1>2. PICK m : m = [ckpt[k] EXCEPT !.state = to]
    OBVIOUS
  <1>3. m.state = to /\ m.writes = ckpt[k].writes
    BY <1>1, <1>2 DEF IsCheckpoint
  <1>4. ckpt' = [ckpt EXCEPT ![k] = m]
    BY <1>2 DEF Step
  <1> QED  BY <1>1, <1>3, <1>4, CheckpointTyped

(* A failed step leaves typed files behind.                                 *)
LEMMA FailureTyped ==
    ASSUME LogTypes, PageFiles, LogWriter, NEW k, IsPages(ckpt[k].writes), io_error(k)
    PROVE  LogTypes' /\ PageFiles'
  <1>1. UNCHANGED <<log, wal, db_synced>>
    BY DEF io_error, dbVars
  <1>2. failed_commit(k) /\ failed_backfill(k) /\ failed_truncate(k) /\ failed_fsync(k)
    BY DEF io_error
  <1>3. IsPages(wal_synced)'
    <2>1. IsPages(over(ckpt[k].writes, wal))
      BY OverTyped DEF PageFiles
    <2>2. wal_synced' \in {wal_synced, wal, over(ckpt[k].writes, wal)}
      BY <1>2 DEF failed_commit
    <2> QED  BY <2>1, <2>2 DEF PageFiles
  <1>4. IsPages(db)' /\ DOMAIN db' = Pages
    <2>1. CASE db' = db
      BY <2>1 DEF PageFiles
    <2>2. ASSUME NEW done \in SUBSET (DOMAIN wal),
                 db' = [p \in Pages |-> IF p \in done THEN wal[p] ELSE db[p]]
          PROVE  IsPages(db)' /\ DOMAIN db' = Pages
      <3>1. done \cap Pages \subseteq DOMAIN wal
        OBVIOUS
      <3>2. PICK q : q = [p \in Pages |-> IF p \in done THEN wal[p] ELSE db[p]]
        OBVIOUS
      <3>3. IsPages(q) /\ DOMAIN q = Pages
        BY <3>1, <3>2, MixedTyped DEF PageFiles
      <3> QED  BY <2>2, <3>2, <3>3
    <2> QED  BY <1>2, <2>1, <2>2 DEF failed_backfill
  <1>5. PageFiles'
    BY <1>1, <1>3, <1>4 DEF PageFiles
  <1>6. log_chained' \in BOOLEAN
    BY <1>2 DEF failed_truncate, reset_writer, LogTypes
  <1>7. log_synced' \in {log, log_synced}
    BY <1>2 DEF failed_fsync
  <1>8. LogTypes'
    BY <1>1, <1>6, <1>7 DEF LogTypes
  <1> QED  BY <1>5, <1>8

LEMMA TypedCheckpoint ==
    ASSUME LockInv, BoundInv, TypeInv, NEW k \in Checkpointers, Checkpoint(k)
    PROVE  TypeInv'
  <1>1. BootType /\ ActorTypes /\ ChainTypes /\ LogTypes /\ PageFiles /\ LogWriter /\ StampTypes
    BY DEF TypeInv, BoundInv
  <1>2. IsCheckpoint(ckpt[k]) /\ IsPages(ckpt[k].writes)
    BY <1>1 DEF LockInv, Shapes, ActorTypes
  <1>3. clock \in 1 .. MaxTs + 1 /\ clock - 1 \in Nat
    BY <1>1, MvCheckpointAssumption DEF StampTypes
  <1>4. IsPages(wal) /\ IsPages(wal_synced) /\ IsPages(db) /\ DOMAIN db = Pages
    BY <1>1 DEF PageFiles
  <1>p. /\ "CommitPagerTxn" \in Phases /\ "CheckpointWal" \in Phases /\ "SyncDbFile" \in Phases
        /\ "TruncateLogicalLog" \in Phases /\ "FsyncLogicalLog" \in Phases
        /\ "TruncateWal" \in Phases /\ "SyncWal" \in Phases /\ "Finalize" \in Phases
        /\ "BeginPagerTxn" \in Phases
    BY DEF Phases
  <1>q. ASSUME UNCHANGED <<boot, txVars, versions>>, ActorTypes', LogTypes', PageFiles'
        PROVE  TypeInv'
    BY <1>1, <1>q, ChainsStay DEF TypeInv, BootType, txVars
  <1>5. CASE new(k)
    <2>1. PICK m : m = [state |-> "AcquireLock", old |-> durable_txid_max, new |-> durable_txid_max,
                        writes |-> <<>>, backfilled |-> FALSE]
      OBVIOUS
    <2>2. m.state = "AcquireLock" /\ m.writes = <<>>
      BY <2>1
    <2>3. ckpt' = [ckpt EXCEPT ![k] = m] /\ UNCHANGED <<boot, txVars, versions, logVars, walVars, dbVars>>
      BY <1>5, <2>1 DEF new
    <2>4. ActorTypes'
      BY <1>1, <2>2, <2>3, NoPages, CheckpointTyped DEF txVars
    <2>5. LogTypes' /\ PageFiles'
      BY <1>1, <2>3, LogStays, PageFilesStay DEF logVars, walVars, dbVars
    <2> QED  BY <1>q, <2>3, <2>4, <2>5
  <1>6. CASE acquire_lock(k)
    <2>1. PICK old, b, w : old = ckpt[k].old /\ b = new_boundary(old) /\ w = collect(old, b, versions)
      OBVIOUS
    <2>2. PICK m : m = [state |-> IF w = <<>> THEN "CheckpointWal" ELSE "BeginPagerTxn",
                        old |-> old, new |-> b, writes |-> w, backfilled |-> FALSE]
      OBVIOUS
    <2>3. m.state \in Phases /\ m.writes = w
      BY <1>p, <2>2
    <2>4. ckpt' = [ckpt EXCEPT ![k] = m] /\ UNCHANGED <<boot, txVars, versions, logVars, walVars, dbVars>>
      BY <1>6, <2>1, <2>2 DEF acquire_lock
    <2>5. IsPages(w)
      <3>1. old \in Stamp /\ last_committed_tx_ts \in Stamp
        BY <1>1, <2>1 DEF StampTypes
      <3>2. PICK wm : wm = last_committed_tx_ts
        OBVIOUS
      <3>3. b = Max({old, wm}) /\ old \in Nat /\ wm \in Nat
        BY <2>1, <3>1, <3>2, MvCheckpointAssumption DEF new_boundary, Stamp
      <3>4. b \in {old, wm}
        BY <3>3, MaxOfTwo
      <3>5. b \in Stamp
        BY <3>1, <3>2, <3>4
      <3>6. PICK n : n = clock - 1
        OBVIOUS
      <3>7. n \in Nat /\ \A r \in Rows : versions[r] \in ChainTo(n)
        BY <1>1, <1>3, <3>6 DEF ChainTypes
      <3>8. PICK chains : chains = versions
        OBVIOUS
      <3>9. IsPages(collect(old, b, chains))
        BY <3>1, <3>5, <3>7, <3>8, WritesTyped
      <3> QED  BY <2>1, <3>8, <3>9
    <2>6. ActorTypes'
      BY <1>1, <2>3, <2>4, <2>5, CheckpointTyped DEF txVars
    <2>7. LogTypes' /\ PageFiles'
      BY <1>1, <2>4, LogStays, PageFilesStay DEF logVars, walVars, dbVars
    <2> QED  BY <1>q, <2>4, <2>6, <2>7
  <1>7. CASE acquire_busy(k) \/ delete_not_found(k)
    <2>1. /\ ckpt' = [ckpt EXCEPT ![k] = NoCheckpoint]
          /\ UNCHANGED <<boot, txVars, versions, logVars, walVars, dbVars>>
      BY <1>7 DEF acquire_busy, delete_not_found
    <2>2. ActorTypes'
      BY <1>1, <2>1, NoCheckpointTyped, CheckpointTyped DEF txVars
    <2>3. LogTypes' /\ PageFiles'
      BY <1>1, <2>1, LogStays, PageFilesStay DEF logVars, walVars, dbVars
    <2> QED  BY <1>q, <2>1, <2>2, <2>3
  <1>8. CASE write_rows(k)
    <2>1. /\ Step(k, "BeginPagerTxn", "CommitPagerTxn")
          /\ UNCHANGED <<boot, txVars, versions, logVars, walVars, dbVars>>
      BY <1>8 DEF write_rows
    <2>2. ActorTypes'
      BY <1>1, <1>p, <2>1, StepTyped DEF txVars
    <2>3. LogTypes' /\ PageFiles'
      BY <1>1, <2>1, LogStays, PageFilesStay DEF logVars, walVars, dbVars
    <2> QED  BY <1>q, <2>1, <2>2, <2>3
  <1>9. CASE prepare_wal_start(k) \/ prepare_wal_finish(k)
    <2>1. /\ wal' \in {wal, <<>>} /\ wal_synced' \in {wal, wal_synced}
          /\ UNCHANGED <<boot, txVars, versions, ckpt, logVars, dbVars>>
      BY <1>9 DEF prepare_wal_start, prepare_wal_finish
    <2>2. ActorTypes' /\ LogTypes'
      BY <1>1, <2>1, ActorsStay, LogStays DEF txVars, logVars
    <2>3. PageFiles'
      BY <1>1, <2>1, NoPages DEF PageFiles, dbVars
    <2> QED  BY <1>q, <2>1, <2>2, <2>3
  <1>10. CASE commit_pager_txn(k)
    <2>1. /\ Step(k, "CommitPagerTxn", "CheckpointWal")
          /\ wal' = over(ckpt[k].writes, wal) /\ wal_synced' = wal'
          /\ UNCHANGED <<boot, txVars, versions, logVars, dbVars>>
      BY <1>10 DEF commit_pager_txn, sync_frames
    <2>2. ActorTypes' /\ LogTypes'
      BY <1>1, <1>p, <2>1, StepTyped, LogStays DEF txVars, logVars
    <2>3. IsPages(over(ckpt[k].writes, wal))
      BY <1>2, <1>4, OverTyped
    <2>4. PageFiles'
      BY <1>1, <2>1, <2>3 DEF PageFiles, dbVars
    <2> QED  BY <1>q, <2>1, <2>2, <2>4
  <1>11. CASE checkpoint_wal(k)
    <2>1. /\ db' \in {over(wal, db), db}
          /\ ckpt' = [ckpt EXCEPT ![k].state = "SyncDbFile", ![k].backfilled = backfills(k)]
          /\ UNCHANGED <<boot, txVars, versions, logVars, wal, wal_synced, db_synced>>
      BY <1>11 DEF checkpoint_wal
    <2>2. ActorTypes'
      <3>1. PICK moved, b : moved = [ckpt[k] EXCEPT !.state = "SyncDbFile"] /\ b = backfills(k)
        OBVIOUS
      <3>2. IsCheckpoint(moved) /\ moved.writes = ckpt[k].writes /\ moved.state = "SyncDbFile"
        BY <1>2, <3>1 DEF IsCheckpoint
      <3>3. PICK m : m = [moved EXCEPT !.backfilled = b]
        OBVIOUS
      <3>4. m.writes = ckpt[k].writes /\ m.state = "SyncDbFile"
        BY <3>2, <3>3 DEF IsCheckpoint
      <3>5. ckpt' = [ckpt EXCEPT ![k] = m]
        BY <2>1, <3>1, <3>3
      <3> QED  BY <1>1, <1>2, <1>p, <2>1, <3>4, <3>5, CheckpointTyped DEF txVars
    <2>3. IsPages(over(wal, db)) /\ DOMAIN over(wal, db) = Pages
      <3>1. IsPages(over(wal, db)) /\ DOMAIN over(wal, db) = DOMAIN wal \cup DOMAIN db
        BY <1>4, OverTyped
      <3>2. DOMAIN wal \subseteq Pages
        BY <1>4 DEF IsPages
      <3> QED  BY <1>4, <3>1, <3>2
    <2>4. PageFiles'
      BY <1>1, <2>1, <2>3 DEF PageFiles
    <2>5. LogTypes'
      BY <1>1, <2>1, LogStays DEF logVars
    <2> QED  BY <1>q, <2>1, <2>2, <2>4, <2>5
  <1>12. CASE sync_db_file(k)
    <2>1. /\ Step(k, "SyncDbFile", "TruncateLogicalLog") /\ db_synced' \in {db, db_synced}
          /\ UNCHANGED <<boot, txVars, versions, logVars, walVars, db>>
      BY <1>12 DEF sync_db_file, synced_db_file
    <2>2. ActorTypes' /\ LogTypes'
      BY <1>1, <1>p, <2>1, StepTyped, LogStays DEF txVars, logVars
    <2>3. PageFiles'
      BY <1>1, <2>1 DEF PageFiles, walVars
    <2> QED  BY <1>q, <2>1, <2>2, <2>3
  <1>13. CASE truncate_logical_log(k)
    <2>1. /\ Step(k, "TruncateLogicalLog", "FsyncLogicalLog") /\ log' = EmptyLog
          /\ log_chained' = TRUE
          /\ UNCHANGED <<boot, txVars, versions, log_synced, walVars, dbVars>>
      BY <1>13 DEF truncate_logical_log, reset_writer
    <2>2. ActorTypes' /\ PageFiles'
      BY <1>1, <1>p, <2>1, StepTyped, PageFilesStay DEF txVars, walVars, dbVars
    <2>3. LogTyped(EmptyLog)
      BY DEF LogTyped, EmptyLog
    <2>4. LogTypes'
      BY <1>1, <2>1, <2>3 DEF LogTypes
    <2> QED  BY <1>q, <2>1, <2>2, <2>4
  <1>14. CASE fsync_logical_log(k)
    <2>1. /\ Step(k, "FsyncLogicalLog", "TruncateWal") /\ log_synced' = log
          /\ UNCHANGED <<boot, txVars, versions, log, log_chained, walVars, dbVars>>
      BY <1>14 DEF fsync_logical_log
    <2>2. ActorTypes' /\ PageFiles'
      BY <1>1, <1>p, <2>1, StepTyped, PageFilesStay DEF txVars, walVars, dbVars
    <2>3. LogTypes'
      BY <1>1, <2>1 DEF LogTypes
    <2> QED  BY <1>q, <2>1, <2>2, <2>3
  <1>15. CASE truncate_wal(k)
    <2>1. /\ Step(k, "TruncateWal", "SyncWal") /\ wal' = <<>>
          /\ UNCHANGED <<boot, txVars, versions, logVars, wal_synced, dbVars>>
      BY <1>15 DEF truncate_wal
    <2>2. ActorTypes' /\ LogTypes'
      BY <1>1, <1>p, <2>1, StepTyped, LogStays DEF txVars, logVars
    <2>3. PageFiles'
      BY <1>1, <2>1, NoPages DEF PageFiles, dbVars
    <2> QED  BY <1>q, <2>1, <2>2, <2>3
  <1>16. CASE sync_wal(k)
    <2>1. /\ Step(k, "SyncWal", "Finalize") /\ wal_synced' = wal
          /\ UNCHANGED <<boot, txVars, versions, logVars, wal, dbVars>>
      BY <1>16 DEF sync_wal
    <2>2. ActorTypes' /\ LogTypes'
      BY <1>1, <1>p, <2>1, StepTyped, LogStays DEF txVars, logVars
    <2>3. PageFiles'
      BY <1>1, <2>1 DEF PageFiles, dbVars
    <2> QED  BY <1>q, <2>1, <2>2, <2>3
  <1>17. CASE finalize(k)
    <2>1. /\ ckpt' = [ckpt EXCEPT ![k] = NoCheckpoint]
          /\ UNCHANGED <<boot, txVars, logVars, walVars, dbVars>>
      BY <1>17 DEF finalize
    <2>2. ActorTypes'
      BY <1>1, <2>1, NoCheckpointTyped, CheckpointTyped DEF txVars
    <2>3. LogTypes' /\ PageFiles'
      BY <1>1, <2>1, LogStays, PageFilesStay DEF logVars, walVars, dbVars
    <2>4. ChainTypes'
      <3>1. PICK n, lwm, b, W : n = clock - 1 /\ lwm = compute_lwm /\ b = ckpt[k].new
                                /\ W = DOMAIN ckpt[k].writes
        OBVIOUS
      <3>2. n \in Nat /\ \A r \in Rows : versions[r] \in ChainTo(n)
        BY <1>1, <1>3, <3>1 DEF ChainTypes
      <3>3. versions' = [r \in Rows |->
              IF r \in W THEN gc_version_chain(gc_version_chain(versions[r], lwm, b), lwm, b)
              ELSE gc_version_chain(versions[r], lwm, b)]
        BY <1>17, <3>1 DEF finalize
      <3>4. \A z \in ChainTo(n) : gc_version_chain(z, lwm, b) \in ChainTo(n)
        BY <3>2, CollectedTyped
      <3>5. ASSUME NEW r \in Rows
            PROVE  /\ gc_version_chain(versions[r], lwm, b) \in ChainTo(n)
                   /\ gc_version_chain(gc_version_chain(versions[r], lwm, b), lwm, b) \in ChainTo(n)
        BY <3>2, <3>4
      <3>6. versions' \in [Rows -> ChainTo(n)]
        BY <3>3, <3>5
      <3> QED  BY <2>1, <3>1, <3>6 DEF ChainTypes, txVars
    <2> QED  BY <1>1, <2>1, <2>2, <2>3, <2>4 DEF TypeInv, BootType
  <1>18. CASE io_error(k)
    <2>1. /\ ckpt' = [ckpt EXCEPT ![k] = NoCheckpoint]
          /\ UNCHANGED <<boot, txVars, versions>>
      BY <1>18 DEF io_error
    <2>2. ActorTypes'
      BY <1>1, <2>1, NoCheckpointTyped, CheckpointTyped DEF txVars
    <2>3. LogTypes' /\ PageFiles'
      BY <1>1, <1>2, <1>18, FailureTyped
    <2> QED  BY <1>q, <2>1, <2>2, <2>3
  <1> QED  BY <1>5, <1>6, <1>7, <1>8, <1>9, <1>10, <1>11, <1>12, <1>13, <1>14, <1>15, <1>16,
              <1>17, <1>18 DEF Checkpoint

LEMMA TornTyped ==
    ASSUME IsLogFile(log), LogTyped(log), NEW file \in Torn,
           \A c \in Conns : tx[c].state = "logged" => Len(log.frames) # 0
    PROVE  LogTyped(file)
  <1>1. PICK s : s = log.frames
    OBVIOUS
  <1>2. PICK n : n = Len(s)
    OBVIOUS
  <1>3. log = [header |-> log.header, frames |-> s] /\ s \in Seq(FrameType) /\ log.header \in BOOLEAN
    BY <1>1 DEF IsLogFile, LogTyped
  <1>4. n # 0 /\ file = [log EXCEPT !.frames[n].valid = FALSE]
    BY <1>1, <1>2 DEF Torn
  <1>5. n \in Nat /\ n \in 1 .. n /\ s \in [1 .. n -> FrameType] /\ DOMAIN s = 1 .. n
    BY <1>2, <1>3, <1>4
  <1>6. PICK f, g : f = s[n] /\ g = [f EXCEPT !.valid = FALSE]
    OBVIOUS
  <1>7. f \in FrameType
    BY <1>5, <1>6
  <1>8. g \in FrameType
    BY <1>6, <1>7 DEF FrameType
  <1>9. PICK z : z = [s EXCEPT ![n] = g]
    OBVIOUS
  <1>10. z \in [1 .. n -> FrameType]
    BY <1>5, <1>8, <1>9
  <1>11. z \in Seq(FrameType)
    BY <1>5, <1>10
  <1>12. file = [header |-> log.header, frames |-> z]
    BY <1>1, <1>3, <1>4, <1>6, <1>9
  <1>13. file.header = log.header /\ file.frames = z
    BY <1>12
  <1> QED  BY <1>3, <1>11, <1>13 DEF LogTyped

LEMMA IdleTyped ==
    ASSUME commit_lock' = Nobody \/ commit_lock' = commit_lock, ActorTypes,
           tx' = [c \in Conns |-> NoTx], ckpt' = [k \in Checkpointers |-> NoCheckpoint]
    PROVE  ActorTypes'
  BY NoTxTyped, NoCheckpointTyped DEF ActorTypes

LEMMA TypedCrash ==
    ASSUME LockInv, BoundInv, TypeInv, crash
    PROVE  TypeInv'
  <1>1. BootType /\ ActorTypes /\ ChainTypes /\ LogTypes /\ PageFiles /\ LogWriter
    BY DEF TypeInv, BoundInv
  <1>2. /\ boot' = "down" /\ clock' = 1 /\ versions' = [r \in Rows |-> <<>>]
        /\ tx' = [c \in Conns |-> NoTx] /\ ckpt' = [k \in Checkpointers |-> NoCheckpoint]
        /\ commit_lock' = Nobody /\ log_chained' = TRUE
        /\ log_synced' = log' /\ log' \in {log, log_synced} \cup Torn
        /\ wal' \in {wal, wal_synced} /\ wal_synced' = wal'
        /\ db_synced' = db'
    BY DEF crash
  <1>3. ActorTypes'
    BY <1>1, <1>2, IdleTyped
  <1>4. ChainTypes'
    <2>1. <<>> \in ChainTo(1 - 1)
      BY DEF ChainTo
    <2> QED  BY <1>2, <2>1 DEF ChainTypes
  <1>5. LogTyped(log)'
    <2>1. ASSUME NEW c \in Conns, tx[c].state = "logged"  PROVE Len(log.frames) # 0
      BY <1>1, <2>1 DEF LogWriter
    <2>2. IsLogFile(log) /\ LogTyped(log) /\ LogTyped(log_synced)
      BY <1>1 DEF LogWriter, LogTypes
    <2>3. \A file \in Torn : LogTyped(file)
      BY <2>1, <2>2, TornTyped
    <2> QED  BY <1>2, <2>2, <2>3
  <1>6. LogTypes'
    BY <1>2, <1>5 DEF LogTypes
  <1>7. IsPages(db)' /\ DOMAIN db' = Pages
    <2>1. PICK lost \in SUBSET {p \in Pages : db[p] # db_synced[p]} :
            db' = [p \in Pages |-> IF p \in lost THEN db_synced[p] ELSE db[p]]
      BY DEF crash
    <2>2. PICK q : q = [p \in Pages |-> IF p \in lost THEN db_synced[p] ELSE db[p]]
      OBVIOUS
    <2>3. lost \cap Pages \subseteq DOMAIN db_synced
      BY <1>1 DEF PageFiles
    <2>4. IsPages(q) /\ DOMAIN q = Pages
      BY <1>1, <2>2, <2>3, MixedTyped DEF PageFiles
    <2> QED  BY <2>1, <2>2, <2>4
  <1>8. PageFiles'
    BY <1>1, <1>2, <1>7 DEF PageFiles
  <1> QED  BY <1>2, <1>3, <1>4, <1>6, <1>8 DEF TypeInv, BootType

(* The bootstrap replays frames whose timestamps the clock then is past.    *)
LEMMA TypedRecover ==
    ASSUME LockInv, BoundInv, TypeInv, recover
    PROVE  TypeInv'
  <1>1. BootType /\ ActorTypes /\ LogTypes /\ PageFiles /\ LogWriter /\ PageTypes
    BY DEF TypeInv, BoundInv
  <1>2. PICK boundary, frames : boundary = db[Meta] /\ frames = valid_frames(log)
    OBVIOUS
  <1>3. PICK S, I : /\ S = {boundary} \cup {frames[i].ts : i \in DOMAIN frames}
                    /\ I = {i \in DOMAIN frames : frames[i].ts > boundary}
    OBVIOUS
  <1>4. PICK seen, newer : seen = Max(S) /\ newer = retain(frames, I)
    OBVIOUS
  <1>5. /\ boot' = "up" /\ clock' = seen + 1 /\ log_chained' = TRUE
        /\ versions' = [r \in Rows |-> replay(newer, r)]
        /\ UNCHANGED <<tx, commit_lock, ckpt, log, log_synced, wal, wal_synced, db, db_synced>>
    BY <1>2, <1>3, <1>4 DEF recover, reset_clock, walVars, dbVars
  <1>6. frames \in Seq(FrameType) /\ DOMAIN frames = 1 .. Len(frames) /\ Len(frames) \in Nat
    <2>1. PICK file : file = log
      OBVIOUS
    <2>2. IsLogFile(file) /\ file.frames \in Seq(FrameType)
      BY <1>1, <2>1 DEF LogWriter, LogTypes, LogTyped
    <2>3. frames = valid_frames(file)
      BY <1>2, <2>1
    <2>4. PICK s, J : s = file.frames /\ J = {i \in 1 .. Len(s) : ~s[i].valid}
      OBVIOUS
    <2>5. s \in Seq(FrameType) /\ Len(s) \in Nat /\ DOMAIN s = 1 .. Len(s)
      BY <2>2, <2>4
    <2>6. first_invalid(file) = IF J # {} THEN Min(J) ELSE 0
      BY <2>4, <2>5 DEF first_invalid, SelectInSeq
    <2>7. frames \in Seq(FrameType)
      <3>1. CASE J = {}
        BY <2>3, <2>4, <2>5, <2>6, <3>1 DEF valid_frames
      <3>2. CASE J # {}
        <4>1. J \subseteq Nat
          BY <2>4, <2>5
        <4>2. Min(J) \in J
          BY <3>2, <4>1, MinOf
        <4>3. PICK m : m = Min(J)
          OBVIOUS
        <4>4. m \in 1 .. Len(s) /\ first_invalid(file) = m /\ m # 0
          BY <2>4, <2>5, <2>6, <3>2, <4>2, <4>3
        <4>5. frames = SubSeq(s, 1, m - 1)
          BY <2>3, <2>4, <4>4 DEF valid_frames
        <4> QED  BY <2>5, <4>4, <4>5
      <3> QED  BY <3>1, <3>2
    <2> QED  BY <2>7
  <1>7. \A i \in 1 .. Len(frames) : /\ frames[i].ts \in 1 .. MaxTs
                                    /\ frames[i].ops \in [Rows -> Seq(Operation)]
    <2>1. ASSUME NEW f \in FrameType  PROVE f.ts \in 1 .. MaxTs /\ f.ops \in [Rows -> Seq(Operation)]
      BY DEF FrameType, Operation
    <2> QED  BY <1>6, <2>1
  <1>8. S \subseteq Nat /\ S # {} /\ \A x \in S : x <= MaxTs
    <2>1. boundary \in 0 .. MaxTs
      BY <1>1, <1>2 DEF PageTypes, Stamp
    <2> QED  BY <1>3, <1>6, <1>7, <2>1, MvCheckpointAssumption
  <1>9. seen \in S /\ \A y \in S : seen >= y
    BY <1>4, <1>8, MaxOf, MvCheckpointAssumption
  <1>10. seen \in Nat /\ \A i \in 1 .. Len(frames) : frames[i].ts \in 0 .. seen
    <2>1. ASSUME NEW i \in 1 .. Len(frames)  PROVE frames[i].ts \in 0 .. seen
      <3>1. PICK t : t = frames[i].ts
        OBVIOUS
      <3>2. t \in S /\ t \in Nat
        BY <1>3, <1>6, <1>8, <3>1
      <3>3. seen >= t /\ seen \in Nat
        BY <1>8, <1>9, <3>2
      <3> QED  BY <3>1, <3>2, <3>3
    <2> QED  BY <1>8, <1>9, <2>1
  <1>11. /\ newer \in Seq(FrameType)
         /\ \A m \in 1 .. Len(newer) : \E i \in I : newer[m] = frames[i]
    <2>1. I \subseteq 1 .. Len(frames)
      BY <1>3, <1>6
    <2>2. PICK T : T = FrameType
      OBVIOUS
    <2>3. frames \in Seq(T)
      BY <1>6, <2>2
    <2>4. retain(frames, I) \in Seq(T)
      BY <2>1, <2>3, Retained
    <2>5. KeptFrom(newer, frames, I)
      BY <1>4, <2>1, <2>3, Retained
    <2> QED  BY <1>4, <2>2, <2>4, <2>5 DEF KeptFrom
  <1>12. /\ DOMAIN newer = 1 .. Len(newer) /\ Len(newer) \in Nat
         /\ \A m \in 1 .. Len(newer) : \E i \in 1 .. Len(frames) : newer[m] = frames[i]
    BY <1>3, <1>6, <1>11
  <1>13. ASSUME NEW r \in Rows  PROVE replay(newer, r) \in ChainTo(seen)
    <2>1. ASSUME NEW m \in 1 .. Len(newer)
          PROVE  newer[m].ts \in 0 .. seen /\ newer[m].ops[r] \in Seq(Operation)
      <3>1. PICK i \in 1 .. Len(frames) : newer[m] = frames[i]
        BY <1>12
      <3>2. frames[i].ts \in 0 .. seen /\ frames[i].ops[r] \in Seq(Operation)
        BY <1>7, <1>10
      <3> QED  BY <3>1, <3>2
    <2> QED  BY <1>10, <1>12, <2>1, ReplayedTyped
  <1>14. ChainTypes'
    <2>1. clock' - 1 = seen
      BY <1>5, <1>10
    <2>2. versions' \in [Rows -> ChainTo(seen)]
      BY <1>5, <1>13
    <2> QED  BY <2>1, <2>2 DEF ChainTypes
  <1>15. ActorTypes' /\ PageFiles'
    BY <1>1, <1>5, ActorsStay, PageFilesStay
  <1>16. LogTypes'
    BY <1>1, <1>5 DEF LogTypes
  <1> QED  BY <1>5, <1>14, <1>15, <1>16 DEF TypeInv, BootType

LEMMA TypedBoot ==
    ASSUME LockInv, BoundInv, TypeInv, Bootstrap
    PROVE  TypeInv'
  <1>1. BootType /\ ActorTypes /\ ChainTypes /\ LogTypes /\ PageFiles /\ LogWriter
    BY DEF TypeInv, BoundInv
  <1>q. ASSUME UNCHANGED BootFrame, BootType', LogTyped(log)', LogTyped(log_synced)', PageFiles'
        PROVE  TypeInv'
    BY <1>1, <1>q, ActorsStay, ChainsStay DEF TypeInv, BootFrame, txVars, LogTypes
  <1>2. LogTyped(log) /\ LogTyped(log_synced) /\ IsLogFile(log)
    BY <1>1 DEF LogTypes, LogWriter
  <1>3. CASE nothing_to_complete \/ reject \/ reopen
    <2>1. /\ UNCHANGED BootFrame /\ UNCHANGED <<log, log_synced, wal, wal_synced, db, db_synced>>
          /\ boot' \in {"replay", "rejected", "down"}
      BY <1>3 DEF nothing_to_complete, reject, reopen, walVars, dbVars
    <2> QED  BY <1>1, <1>2, <1>q, <2>1, PageFilesStay DEF BootType
  <1>4. CASE backfill_wal
    <2>1. /\ UNCHANGED BootFrame /\ UNCHANGED <<log, log_synced, wal, wal_synced, db_synced>>
          /\ boot' = "sync_db" /\ db' = over(wal, db)
      BY <1>4 DEF backfill_wal, walVars
    <2>2. IsPages(over(wal, db)) /\ DOMAIN over(wal, db) = Pages
      <3>1. IsPages(over(wal, db)) /\ DOMAIN over(wal, db) = DOMAIN wal \cup DOMAIN db
        BY <1>1, OverTyped DEF PageFiles
      <3>2. DOMAIN wal \subseteq Pages
        BY <1>1 DEF PageFiles, IsPages
      <3> QED  BY <1>1, <3>1, <3>2 DEF PageFiles
    <2>3. PageFiles'
      BY <1>1, <2>1, <2>2 DEF PageFiles
    <2> QED  BY <1>2, <1>q, <2>1, <2>3 DEF BootType
  <1>5. CASE sync_backfilled
    <2>1. /\ UNCHANGED BootFrame /\ UNCHANGED <<log, log_synced, wal, wal_synced, db>>
          /\ boot' = "update_header" /\ db_synced' = db
      BY <1>5 DEF sync_backfilled, walVars
    <2>2. PageFiles'
      BY <1>1, <2>1 DEF PageFiles
    <2> QED  BY <1>2, <1>q, <2>1, <2>2 DEF BootType
  <1>6. CASE update_header
    <2>1. /\ UNCHANGED BootFrame /\ UNCHANGED <<wal, wal_synced, db, db_synced>>
          /\ boot' = "truncate_wal" /\ log' = [log EXCEPT !.header = TRUE] /\ log_synced' = log'
      BY <1>6 DEF update_header, walVars, dbVars
    <2>2. log = [header |-> log.header, frames |-> log.frames]
      BY <1>2 DEF IsLogFile
    <2>3. log'.header = TRUE /\ log'.frames = log.frames
      BY <2>1, <2>2
    <2>4. LogTyped(log)' /\ LogTyped(log_synced)'
      BY <1>2, <2>1, <2>3 DEF LogTyped
    <2> QED  BY <1>1, <1>q, <2>1, <2>4, PageFilesStay DEF BootType
  <1>7. CASE truncate_completed_wal
    <2>1. /\ UNCHANGED BootFrame /\ UNCHANGED <<log, log_synced, db, db_synced>>
          /\ boot' = "replay" /\ wal' = <<>> /\ wal_synced' = wal'
      BY <1>7 DEF truncate_completed_wal, dbVars
    <2>2. PageFiles'
      BY <1>1, <2>1, NoPages DEF PageFiles
    <2> QED  BY <1>2, <1>q, <2>1, <2>2 DEF BootType
  <1>8. CASE recover
    BY <1>8, TypedRecover
  <1> QED  BY <1>3, <1>4, <1>5, <1>6, <1>7, <1>8 DEF Bootstrap

LEMMA TypeInvStep == LockInv /\ BoundInv /\ TypeInv /\ [Next]_vars => TypeInv'
  <1> SUFFICES ASSUME LockInv, BoundInv, TypeInv, [Next]_vars  PROVE TypeInv'
    OBVIOUS
  <1>1. CASE UNCHANGED vars
    BY <1>1, ActorsStay, ChainsStay, LogStays, PageFilesStay
       DEF vars, txVars, logVars, walVars, dbVars, TypeInv, BootType
  <1> QED  BY <1>1, TypedTransaction, TypedCheckpoint, TypedCrash, TypedBoot DEF Next

LEMMA TypeInvInit == Init => TypeInv
  <1> SUFFICES ASSUME Init  PROVE TypeInv
    OBVIOUS
  <1>1. /\ boot = "up" /\ clock = 1 /\ tx = [c \in Conns |-> NoTx] /\ commit_lock = Nobody
        /\ versions = [r \in Rows |-> <<>>] /\ ckpt = [k \in Checkpointers |-> NoCheckpoint]
        /\ log = [header |-> TRUE, frames |-> <<>>] /\ log_synced = log /\ log_chained = TRUE
        /\ wal = <<>> /\ wal_synced = wal /\ db_synced = db
    BY DEF Init
  <1>2. ActorTypes
    BY <1>1, NoTxTyped, NoCheckpointTyped DEF ActorTypes
  <1>3. ChainTypes
    <2>1. <<>> \in ChainTo(1 - 1)
      BY DEF ChainTo
    <2> QED  BY <1>1, <2>1 DEF ChainTypes
  <1>4. LogTypes
    <2>1. log.header = TRUE /\ log.frames = <<>>
      BY <1>1
    <2> QED  BY <1>1, <2>1 DEF LogTypes, LogTyped
  <1>5. IsPages(db) /\ DOMAIN db = Pages
    <2>1. db = [p \in Pages |-> CASE p = Meta -> 0
                                  [] p \in BtreeRows -> BtreeValue
                                  [] OTHER -> Absent]
      BY DEF Init
    <2>2. 0 \in Value /\ BtreeValue \in Value /\ Absent \in Value
      BY MvCheckpointAssumption DEF Value, BtreeValue, Absent
    <2>3. DOMAIN db = Pages
      BY <2>1
    <2>4. ASSUME NEW p \in Pages  PROVE db[p] \in Value
      <3>1. CASE p = Meta
        <4>1. p \notin BtreeRows
          BY <3>1, MvCheckpointAssumption
        <4> QED  BY <2>1, <2>2, <3>1, <4>1, Zenon
      <3>2. CASE p # Meta
        BY <2>1, <2>2, <3>2
      <3> QED  BY <3>1, <3>2
    <2> QED  BY <2>3, <2>4 DEF IsPages
  <1>6. PageFiles
    BY <1>1, <1>5, NoPages DEF PageFiles
  <1> QED  BY <1>1, <1>2, <1>3, <1>4, <1>6 DEF TypeInv, BootType

(* Every variable has its type, in every execution with crashes, failures   *)
(* and replays: no commit, rollback, garbage collection, replay of a log or *)
(* mixture of pages makes a version, a frame or a page that is not one.     *)
THEOREM CheckpointTypes == Spec => []TypeOK
  <1>1. BoundInv /\ TypeInv => TypeOK
    <2> SUFFICES ASSUME BoundInv, TypeInv  PROVE TypeOK
      OBVIOUS
    <2>1. StampTypes /\ LogWriter /\ BootType /\ ActorTypes /\ ChainTypes /\ LogTypes /\ PageFiles
      BY DEF BoundInv, TypeInv
    <2>2. ASSUME NEW r \in Rows, NEW i \in DOMAIN versions[r]  PROVE versions[r][i] \in RowVersion
      <3>1. PICK n, z : n = clock - 1 /\ z = versions[r]
        OBVIOUS
      <3>2. n \in Nat /\ n <= MaxTs /\ z \in ChainTo(n)
        BY <2>1, <3>1, MvCheckpointAssumption DEF StampTypes, ChainTypes
      <3>3. z[i] \in VersionTo(n) /\ 0 .. n \subseteq 0 .. MaxTs
        BY <2>2, <3>1, <3>2, MvCheckpointAssumption DEF ChainTo
      <3>4. z[i] \in RowVersion
        BY <3>3 DEF VersionTo, RowVersion
      <3> QED  BY <3>1, <3>4
    <2>3. IsLog(log) /\ IsLog(log_synced)
      <3>1. ASSUME NEW file, LogTyped(file)  PROVE IsLog(file)
        BY <3>1 DEF LogTyped, IsLog
      <3> QED  BY <2>1, <3>1 DEF LogTypes
    <2>4. /\ clock \in 1 .. MaxTs + 1 /\ last_committed_tx_ts \in 0 .. MaxTs
          /\ durable_txid_max \in 0 .. MaxTs /\ \A c \in Conns : tx[c].ts \in 0 .. MaxTs
      BY <2>1 DEF StampTypes, Stamp
    <2>5. log_offset \in 0 .. Len(log.frames)
      BY <2>1 DEF LogWriter
    <2> QED  BY <2>1, <2>2, <2>3, <2>4, <2>5 DEF TypeOK, BootType, ActorTypes, PageFiles
  <1> QED BY <1>1, LockInvInit, LockInvStep, BoundInit, BoundStep, TypeInvInit, TypeInvStep, PTL DEF Spec

(* No timestamp is given out again: the clock is past the boundary, every   *)
(* frame that a bootstrap would replay and every version of every chain,    *)
(* those the replay has just put together too.                              *)
THEOREM ClockIsAhead == Spec => []ClockAhead
  <1>1. BoundInv /\ TypeInv => ClockPastVersions
    <2> SUFFICES ASSUME BoundInv, TypeInv, NEW r \in Rows, NEW i \in DOMAIN versions[r]
                 PROVE  clock > versions[r][i].begin /\ clock > versions[r][i].end
      BY DEF ClockPastVersions
    <2>1. PICK n, z : n = clock - 1 /\ z = versions[r]
      OBVIOUS
    <2>2. clock \in Nat /\ n \in Nat /\ n = clock - 1 /\ z \in ChainTo(n)
      BY <2>1, MvCheckpointAssumption DEF BoundInv, StampTypes, TypeInv, ChainTypes
    <2>3. z[i] \in VersionTo(n)
      BY <2>1, <2>2 DEF ChainTo
    <2>4. z[i].begin \in 0 .. n /\ z[i].end \in 0 .. n
      BY <2>3 DEF VersionTo
    <2>5. clock > z[i].begin /\ clock > z[i].end
      BY <2>2, <2>4
    <2> QED  BY <2>1, <2>5
  <1>2. Spec => []ClockPastVersions
    BY <1>1, LockInvInit, LockInvStep, BoundInit, BoundStep, TypeInvInit, TypeInvStep, PTL DEF Spec
  <1>3. ClockPastFiles /\ ClockPastVersions => ClockAhead
    BY DEF ClockAhead
  <1> QED BY <1>2, <1>3, ClockIsPastFiles, PTL

=============================================================================
