--------------------------- MODULE MvChainProofs ---------------------------
(***************************************************************************)
(* Proofs about the version chains of MvStore: a TxID in a chain belongs   *)
(* to a transaction that will still take it out, only such a transaction   *)
(* has dependents, and what a commit has stamped with its timestamp stays. *)
(*                                                                         *)
(* The last needs what the wait for dependencies is for: who ends a        *)
(* version that is not yet committed stamps its end only after the         *)
(* creator has stamped the begin.                                          *)
(*                                                                         *)
(* Then first-committer-wins, from CommitterInv: a transaction that may    *)
(* still commit has left a mark in a version of every row it wrote, and    *)
(* who validated a row has met the marks of all earlier writers.  Then     *)
(* the types of the log records, folded together from the chains; the      *)
(* order of the frames in the log; snapshot reads, which are judged        *)
(* against every set of transactions that could commit together; and the   *)
(* unique indexes.                                                         *)
(***************************************************************************)
EXTENDS MvStoreProofs, Extrema

-----------------------------------------------------------------------------
(* The operators on version chains, element by element.                     *)

LEMMA SetEndElements ==
    ASSUME NEW chain \in Seq(RowVersion), NEW i \in 1 .. Len(chain), NEW t \in Txns
    PROVE  /\ Len(set_end(chain, i, t)) = Len(chain)
           /\ \A j \in 1 .. Len(chain) : j # i => set_end(chain, i, t)[j] = chain[j]
           /\ set_end(chain, i, t)[i].begin = chain[i].begin
           /\ set_end(chain, i, t)[i].end = TxID(t)
           /\ set_end(chain, i, t)[i].row = chain[i].row
  <1>1. PICK rv : rv = chain[i]
    OBVIOUS
  <1>2. rv \in RowVersion
    BY <1>1
  <1>3. PICK w : w = [rv EXCEPT !.end = TxID(t)]
    OBVIOUS
  <1>4. w.begin = rv.begin /\ w.end = TxID(t) /\ w.row = rv.row
    BY <1>2, <1>3 DEF RowVersion
  <1>5. set_end(chain, i, t) = [chain EXCEPT ![i] = w]
    BY <1>1, <1>3 DEF set_end
  <1> QED  BY <1>1, <1>4, <1>5

(* Every version of the result was there or is the new one; and unless a    *)
(* timestamp is inserted, every version that was there still is.            *)
LEMMA InsertElements ==
    ASSUME NEW chain \in Seq(RowVersion), NEW rv \in RowVersion
    PROVE  \A i \in 1 .. Len(insert_version_raw(chain, rv)) :
             \/ insert_version_raw(chain, rv)[i] = rv
             \/ \E j \in 1 .. Len(chain) : insert_version_raw(chain, rv)[i] = chain[j]
  <1> DEFINE begins_by(i) == resolve_begin_timestamp(chain[i].begin)
                               <= resolve_begin_timestamp(rv.begin)
             before(i) == \E j \in i .. Len(chain) : begins_by(j)
             replaced(i) == /\ before(i) /\ ~before(i + 1)
                            /\ chain[i].id = rv.id
                            /\ chain[i].begin.kind = "Timestamp" /\ chain[i].begin = rv.begin
  <1>1. PICK n, c : n = Len(chain) /\ c = insert_version_raw(chain, rv) /\ n \in Nat
    OBVIOUS
  <1>2. c = IF \E i \in 1 .. n : replaced(i)
            THEN [i \in 1 .. n |-> IF replaced(i) THEN rv ELSE chain[i]]
            ELSE [i \in 1 .. (n + 1) |->
                    IF before(i) THEN chain[i]
                    ELSE IF i = 1 \/ before(i - 1) THEN rv ELSE chain[i - 1]]
    BY <1>1 DEF insert_version_raw
  <1>3. \A i \in 1 .. (n + 1) : before(i) => i \in 1 .. n
    BY <1>1
  <1> HIDE DEF before, replaced, begins_by
  <1>4. CASE \E i \in 1 .. n : replaced(i)
    <2>1. c = [i \in 1 .. n |-> IF replaced(i) THEN rv ELSE chain[i]]
      BY <1>2, <1>4
    <2>2. Len(c) = n
      BY <1>1, <2>1
    <2> QED  BY <1>1, <2>1, <2>2
  <1>5. CASE ~\E i \in 1 .. n : replaced(i)
    <2>1. c = [i \in 1 .. (n + 1) |->
                 IF before(i) THEN chain[i]
                 ELSE IF i = 1 \/ before(i - 1) THEN rv ELSE chain[i - 1]]
      BY <1>2, <1>5
    <2>2. Len(c) = n + 1
      BY <1>1, <2>1
    <2>3. ASSUME NEW i \in 1 .. (n + 1)
          PROVE  c[i] = rv \/ \E j \in 1 .. n : c[i] = chain[j]
      <3>1. c[i] = IF before(i) THEN chain[i]
                   ELSE IF i = 1 \/ before(i - 1) THEN rv ELSE chain[i - 1]
        BY <2>1
      <3>2. i # 1 => i - 1 \in 1 .. n
        BY <1>1
      <3> QED  BY <1>3, <3>1, <3>2
    <2> QED  BY <1>1, <2>2, <2>3
  <1> QED  BY <1>4, <1>5

LEMMA InsertKeeps ==
    ASSUME NEW chain \in Seq(RowVersion), NEW rv \in RowVersion, rv.begin.kind # "Timestamp"
    PROVE  \A j \in 1 .. Len(chain) : \E i \in 1 .. Len(insert_version_raw(chain, rv)) :
             insert_version_raw(chain, rv)[i] = chain[j]
  <1> DEFINE begins_by(i) == resolve_begin_timestamp(chain[i].begin)
                               <= resolve_begin_timestamp(rv.begin)
             before(i) == \E j \in i .. Len(chain) : begins_by(j)
             replaced(i) == /\ before(i) /\ ~before(i + 1)
                            /\ chain[i].id = rv.id
                            /\ chain[i].begin.kind = "Timestamp" /\ chain[i].begin = rv.begin
  <1>1. PICK n, c : n = Len(chain) /\ c = insert_version_raw(chain, rv) /\ n \in Nat
    OBVIOUS
  <1>2. c = IF \E i \in 1 .. n : replaced(i)
            THEN [i \in 1 .. n |-> IF replaced(i) THEN rv ELSE chain[i]]
            ELSE [i \in 1 .. (n + 1) |->
                    IF before(i) THEN chain[i]
                    ELSE IF i = 1 \/ before(i - 1) THEN rv ELSE chain[i - 1]]
    BY <1>1 DEF insert_version_raw
  <1>3. \A i \in 1 .. n : before(i + 1) => before(i)
    BY <1>1
  <1>4. ~\E i \in 1 .. n : replaced(i)
    OBVIOUS
  <1> HIDE DEF before, replaced, begins_by
  <1>5. c = [i \in 1 .. (n + 1) |->
               IF before(i) THEN chain[i]
               ELSE IF i = 1 \/ before(i - 1) THEN rv ELSE chain[i - 1]]
    BY <1>2, <1>4
  <1>6. Len(c) = n + 1
    BY <1>1, <1>5
  <1>7. ASSUME NEW j \in 1 .. n  PROVE \E i \in 1 .. (n + 1) : c[i] = chain[j]
    <2>1. CASE before(j)
      <3>1. j \in 1 .. (n + 1)
        BY <1>1
      <3>2. c[j] = chain[j]
        BY <1>5, <2>1, <3>1
      <3> QED  BY <3>1, <3>2
    <2>2. CASE ~before(j)
      <3>1. PICK k : k = j + 1
        OBVIOUS
      <3>2. k \in 1 .. (n + 1) /\ k # 1 /\ k - 1 = j
        BY <1>1, <3>1
      <3>3. ~before(k)
        BY <1>3, <2>2, <3>1
      <3>4. c[k] = chain[j]
        BY <1>5, <2>2, <3>2, <3>3
      <3> QED  BY <3>2, <3>4
    <2> QED  BY <2>1, <2>2
  <1> QED  BY <1>1, <1>6, <1>7

LEMMA InsertIsThere ==
    ASSUME NEW chain \in Seq(RowVersion), NEW rv \in RowVersion, rv.begin.kind # "Timestamp"
    PROVE  \E i \in 1 .. Len(insert_version_raw(chain, rv)) :
             insert_version_raw(chain, rv)[i] = rv
  <1> DEFINE begins_by(i) == resolve_begin_timestamp(chain[i].begin)
                               <= resolve_begin_timestamp(rv.begin)
             before(i) == \E j \in i .. Len(chain) : begins_by(j)
             replaced(i) == /\ before(i) /\ ~before(i + 1)
                            /\ chain[i].id = rv.id
                            /\ chain[i].begin.kind = "Timestamp" /\ chain[i].begin = rv.begin
             after == {i \in Nat : i >= 1 /\ ~before(i)}
  <1>1. PICK n, c : n = Len(chain) /\ c = insert_version_raw(chain, rv) /\ n \in Nat
    OBVIOUS
  <1>2. c = IF \E i \in 1 .. n : replaced(i)
            THEN [i \in 1 .. n |-> IF replaced(i) THEN rv ELSE chain[i]]
            ELSE [i \in 1 .. (n + 1) |->
                    IF before(i) THEN chain[i]
                    ELSE IF i = 1 \/ before(i - 1) THEN rv ELSE chain[i - 1]]
    BY <1>1 DEF insert_version_raw
  <1>3. ~before(n + 1)
    BY <1>1
  <1>4. ~\E i \in 1 .. n : replaced(i)
    OBVIOUS
  <1> HIDE DEF before, replaced, begins_by
  <1>5. c = [i \in 1 .. (n + 1) |->
               IF before(i) THEN chain[i]
               ELSE IF i = 1 \/ before(i - 1) THEN rv ELSE chain[i - 1]]
    BY <1>2, <1>4
  <1>6. Len(c) = n + 1
    BY <1>1, <1>5
  <1>7. n + 1 \in after /\ after \subseteq Nat
    BY <1>1, <1>3
  <1>8. PICK m \in after : \A k \in after : m <= k
    BY <1>7, LeastNumber
  <1>9. m \in 1 .. (n + 1) /\ ~before(m)
    BY <1>1, <1>7, <1>8
  <1>10. m = 1 \/ before(m - 1)
    BY <1>8, <1>9
  <1>11. c[m] = rv
    BY <1>5, <1>9, <1>10
  <1> QED  BY <1>1, <1>6, <1>9, <1>11

LEMMA StampsDiffer ==
    /\ \A t \in Txns : /\ TxID(t).kind = "TxID" /\ TxID(t).v = t /\ TxID(t) # None
                       /\ \A n : Timestamp(n) # TxID(t)
                       /\ \A u \in Txns : TxID(t) = TxID(u) => t = u
    /\ \A n : Timestamp(n).kind = "Timestamp"
    /\ None.kind = "None"
  BY DEF TxID, Timestamp, None

LEMMA TagsAreIds ==
    ASSUME NEW rv \in RowVersion
    PROVE  /\ rv.begin.kind = "TxID" => rv.begin.v \in Txns /\ rv.begin = TxID(rv.begin.v)
           /\ rv.end.kind = "TxID" => rv.end.v \in Txns /\ rv.end = TxID(rv.end.v)
  <1>1. \A x \in TxTimestampOrID \cup {None} : x.kind = "TxID" => x.v \in Txns /\ x = TxID(x.v)
    BY DEF TxTimestampOrID, None, TxID
  <1>2. rv.begin \in TxTimestampOrID \cup {None} /\ rv.end \in TxTimestampOrID \cup {None}
    BY DEF RowVersion
  <1> QED  BY <1>1, <1>2

(* What a commit and a rollback make of one version.                        *)
Stamped(t, v, w) ==
    /\ w.begin = IF v.begin = TxID(t) THEN Timestamp(end_ts[t]) ELSE v.begin
    /\ w.end = IF v.end = TxID(t) THEN Timestamp(end_ts[t]) ELSE v.end
    /\ w.row = v.row

Undone(t, v, w) ==
    /\ w.begin = IF v.begin = TxID(t) THEN None ELSE v.begin
    /\ w.end = IF v.begin = TxID(t) \/ v.end = TxID(t) THEN None ELSE v.end
    /\ w.row = v.row

LEMMA StampedVersion ==
    ASSUME NEW t \in Txns, NEW rv \in RowVersion
    PROVE  Stamped(t, rv, to_timestamps(t, rv)) /\ Undone(t, rv, rollback_row_version(t, rv))
  BY DEF to_timestamps, rollback_row_version, Stamped, Undone, RowVersion

LEMMA MappedChain ==
    ASSUME NEW chain \in Seq(RowVersion), NEW t \in Txns
    PROVE  /\ Len(MapChain(chain, LAMBDA rv : to_timestamps(t, rv))) = Len(chain)
           /\ Len(MapChain(chain, LAMBDA rv : rollback_row_version(t, rv))) = Len(chain)
           /\ \A i \in 1 .. Len(chain) :
                /\ Stamped(t, chain[i], MapChain(chain, LAMBDA rv : to_timestamps(t, rv))[i])
                /\ Undone(t, chain[i], MapChain(chain, LAMBDA rv : rollback_row_version(t, rv))[i])
  <1>1. \A i \in 1 .. Len(chain) : chain[i] \in RowVersion
    OBVIOUS
  <1>2. ASSUME NEW i \in 1 .. Len(chain)
        PROVE  /\ MapChain(chain, LAMBDA rv : to_timestamps(t, rv))[i] = to_timestamps(t, chain[i])
               /\ MapChain(chain, LAMBDA rv : rollback_row_version(t, rv))[i]
                    = rollback_row_version(t, chain[i])
    BY DEF MapChain
  <1>3. /\ Len(MapChain(chain, LAMBDA rv : to_timestamps(t, rv))) = Len(chain)
        /\ Len(MapChain(chain, LAMBDA rv : rollback_row_version(t, rv))) = Len(chain)
    BY DEF MapChain
  <1> QED  BY <1>1, <1>2, <1>3, StampedVersion

-----------------------------------------------------------------------------
(* Who may have its id in the chain of a row: a transaction in txs that has *)
(* the row in its write set and has still to visit it when it leaves.       *)

TaggingPcs == {"acquire_exclusive", "acquire_commit_lock", "active", "rollback", "commit",
               "validate", "wait", "wait_recheck", "build", "sync", "commit_end", "rewrite",
               "rb_unlock", "rb_notify", "rb_undo"}
LoopPcs == {"rewrite", "rb_undo"}

MayTag(t, r) ==
    /\ t \in txs /\ r \in write_set[t] /\ pc[t] \in TaggingPcs
    /\ pc[t] \in LoopPcs => r \in todo[t]

Tagged ==
    \A r \in Rows : \A i \in 1 .. Len(versions[r]) : \A t \in Txns :
      touched(t, versions[r][i]) => MayTag(t, r)

Visits(t, r) == rewrite_live_versions(t, r) \/ rollback_rowid(t, r)

(* The step of one transaction does not concern the others.                 *)
LEMMA MovesAlone ==
    ASSUME StoreTypeOK, NEW t \in Txns, NEW u \in Txns, u # t, NEW r \in Rows, MayTag(u, r),
           txs' \in {txs, txs \cup {t}, txs \ {t}},
           pc' = pc \/ \E to : pc' = [pc EXCEPT ![t] = to],
           todo' = todo \/ \E S : todo' = [todo EXCEPT ![t] = S],
           write_set' = write_set \/ \E S : write_set' = [write_set EXCEPT ![t] = S]
    PROVE  MayTag(u, r)'
  <1>1. u \in txs' /\ pc'[u] = pc[u] /\ todo'[u] = todo[u] /\ write_set'[u] = write_set[u]
    BY DEF MayTag, StoreTypeOK
  <1> QED  BY <1>1 DEF MayTag

LEMMA AnyStepMovesAlone ==
    ASSUME StoreTypeOK, NEW t \in Txns,
           \/ Begin(t) \/ Statement(t) \/ commit_initial(t) \/ Commit(t)
           \/ abandon(t) \/ rollback_tx(t) \/ Rollback(t)
    PROVE  /\ txs' \in {txs, txs \cup {t}, txs \ {t}}
           /\ pc' = pc \/ \E to : pc' = [pc EXCEPT ![t] = to]
           /\ todo' = todo \/ \E S : todo' = [todo EXCEPT ![t] = S]
           /\ write_set' = write_set \/ \E S : write_set' = [write_set EXCEPT ![t] = S]
  <1> USE DEF storeVars, opVars, Goto
  <1>1. CASE Begin(t)
    BY <1>1 DEF Begin, begin_tx, begin_exclusive_tx, upgrade_to_exclusive,
                acquire_exclusive_tx, acquire_pager_commit_lock
  <1>2. CASE Statement(t)
    BY <1>2 DEF Statement, StatementFrame, with_header_mut, read_visible, read_btree,
                write_conflict, update, insert, delete, insert_tombstone, WriteSetAdd
  <1>3. CASE commit_initial(t) \/ abandon(t) \/ rollback_tx(t)
    BY <1>3 DEF commit_initial, abandon, rollback_tx, CommitFrame
  <1>4. CASE Commit(t)
    <2>1. CASE \/ commit_check_exclusive(t) \/ commit_validate_none(t)
               \/ wait_for_dependencies(t) \/ wait_recheck_abort_now(t)
               \/ commit_read_only(t) \/ begin_commit_logical_log(t) \/ sync_logical_log(t)
      BY <2>1 DEF commit_check_exclusive, commit_validate_none, wait_for_dependencies,
                  wait_recheck_abort_now, commit_read_only, begin_commit_logical_log,
                  sync_logical_log
    <2>2. CASE \/ commit_end(t) \/ commit_take_dependents(t) \/ commit_unlock(t)
               \/ commit_publish(t) \/ commit_remove(t) \/ commit_release_exclusive(t)
      BY <2>2 DEF commit_end, commit_take_dependents, commit_unlock, commit_publish,
                  commit_remove, remove_tx, commit_release_exclusive
    <2>3. ASSUME NEW r \in Rows, \/ commit_validate(t, r) \/ build_committed_log_record(t, r)
                                 \/ rewrite_live_versions(t, r)
          PROVE  /\ txs' = txs /\ write_set' = write_set
                 /\ pc' = pc \/ \E to : pc' = [pc EXCEPT ![t] = to]
                 /\ todo' = todo \/ \E S : todo' = [todo EXCEPT ![t] = S]
      BY <2>3 DEF commit_validate, build_committed_log_record, rewrite_live_versions
    <2>4. ASSUME NEW d \in Txns, commit_notify(t, d)
          PROVE  UNCHANGED <<txs, pc, todo, write_set>>
      BY <2>4 DEF commit_notify
    <2> QED  BY <1>4, <2>1, <2>2, <2>3, <2>4 DEF Commit
  <1>5. CASE Rollback(t)
    BY <1>5 DEF Rollback, rollback_take_dependents, rollback_release_dependent,
                rollback_release_exclusive, rollback_terminate, remove_tx, rollback_rowid,
                rollback_abort_dependent
  <1> QED  BY <1>1, <1>2, <1>3, <1>4, <1>5

(* Nor does a transaction lose the right to have its id in a chain before   *)
(* it has visited the row.                                                  *)
LEMMA TagsLast ==
    ASSUME StoreTypeOK, PcMatchesState, NEW t \in Txns, NEW r \in Rows, MayTag(t, r),
           \/ Begin(t) \/ Statement(t) \/ commit_initial(t) \/ Commit(t)
           \/ abandon(t) \/ rollback_tx(t) \/ Rollback(t)
    PROVE  MayTag(t, r)' \/ Visits(t, r)
  <1> USE DEF storeVars, opVars, Goto, TaggingPcs, LoopPcs
  <1>0. /\ t \in txs /\ r \in write_set[t] /\ pc[t] \in TaggingPcs
        /\ pc[t] \in LoopPcs => r \in todo[t]
        /\ pc \in [Txns -> ProgramCounter] /\ todo \in [Txns -> SUBSET Rows]
        /\ write_set \in [Txns -> SUBSET Rows]
    BY DEF MayTag, StoreTypeOK
  <1>1. CASE Begin(t)
    <2>1. CASE begin_tx(t)
      BY <1>0, <2>1 DEF begin_tx
    <2>2. CASE begin_exclusive_tx(t)
      BY <1>0, <2>2 DEF begin_exclusive_tx
    <2>3. CASE upgrade_to_exclusive(t)
      BY <1>0, <2>3 DEF upgrade_to_exclusive, MayTag
    <2>4. CASE acquire_exclusive_tx(t)
      BY <1>0, <2>4 DEF acquire_exclusive_tx, Refused, MayTag
    <2>5. CASE acquire_pager_commit_lock(t)
      <3>1. /\ txs' \in {txs, txs \cup {t}} /\ UNCHANGED <<todo, write_set>>
            /\ pc' = [pc EXCEPT ![t] = "active"]
        BY <1>0, <2>5 DEF acquire_pager_commit_lock, Refused
      <3> QED  BY <1>0, <3>1 DEF MayTag
    <2> QED  BY <1>1, <2>1, <2>2, <2>3, <2>4, <2>5 DEF Begin
  <1>2. CASE Statement(t)
    <2>1. /\ UNCHANGED <<txs, todo>>
          /\ UNCHANGED pc \/ (pc[t] = "active" /\ pc' = [pc EXCEPT ![t] = "rollback"])
      BY <1>2 DEF Statement, StatementFrame, with_header_mut, read_visible, read_btree,
                  write_conflict, update, insert, delete, insert_tombstone
    <2>2. \/ write_set' = write_set
          \/ \E q \in Rows : write_set' = [write_set EXCEPT ![t] = @ \cup {q}]
      BY <1>2 DEF Statement, StatementFrame, with_header_mut, read_visible, read_btree,
                  write_conflict, update, insert, delete, insert_tombstone, WriteSetAdd
    <2>3. r \in write_set'[t]
      BY <1>0, <2>2
    <2>4. pc'[t] = pc[t] \/ pc'[t] = "rollback"
      BY <1>0, <2>1
    <2> QED  BY <1>0, <2>1, <2>3, <2>4 DEF MayTag
  <1>3. CASE commit_initial(t) \/ abandon(t) \/ rollback_tx(t)
    <2>1. /\ UNCHANGED <<txs, write_set>>
          /\ \E to \in {"rollback", "wait", "commit", "rb_unlock"} : pc' = [pc EXCEPT ![t] = to]
      BY <1>3 DEF commit_initial, abandon, rollback_tx, CommitFrame
    <2> QED  BY <1>0, <2>1 DEF MayTag
  <1>4. CASE Commit(t)
    <2>1. CASE \/ commit_check_exclusive(t) \/ commit_validate_none(t)
               \/ wait_for_dependencies(t) \/ begin_commit_logical_log(t) \/ sync_logical_log(t)
      <3>1. /\ UNCHANGED <<txs, write_set, todo>>
            /\ \E to \in {"rollback", "validate", "wait", "wait_recheck", "sync", "commit_end"} :
                 pc' = [pc EXCEPT ![t] = to]
        BY <2>1 DEF commit_check_exclusive, commit_validate_none, wait_for_dependencies,
                    begin_commit_logical_log, sync_logical_log
      <3> QED  BY <1>0, <3>1 DEF MayTag
    <2>2. CASE wait_recheck_abort_now(t)
      <3>1. /\ UNCHANGED <<txs, write_set>>
            /\ \E to \in {"rollback", "build"} : pc' = [pc EXCEPT ![t] = to]
        BY <1>0, <2>2 DEF wait_recheck_abort_now, is_read_only
      <3> QED  BY <1>0, <3>1 DEF MayTag
    <2>3. CASE \/ commit_read_only(t) \/ commit_unlock(t) \/ commit_publish(t)
               \/ commit_remove(t) \/ commit_release_exclusive(t)
      BY <1>0, <2>3 DEF commit_read_only, commit_unlock, commit_publish, commit_remove,
                        commit_release_exclusive
    <2>4. CASE commit_end(t)
      BY <1>0, <2>4 DEF commit_end, MayTag
    <2>5. CASE commit_take_dependents(t)
      BY <1>0, <2>5 DEF commit_take_dependents
    <2>6. ASSUME NEW q \in Rows, commit_validate(t, q)  PROVE MayTag(t, r)'
      <3>1. /\ UNCHANGED <<txs, write_set>>
            /\ \E to \in {"rollback", "wait", "validate"} : pc' = [pc EXCEPT ![t] = to]
        BY <2>6 DEF commit_validate
      <3> QED  BY <1>0, <3>1 DEF MayTag
    <2>7. ASSUME NEW q \in Rows, build_committed_log_record(t, q)  PROVE MayTag(t, r)'
      BY <1>0, <2>7 DEF build_committed_log_record, MayTag
    <2>8. ASSUME NEW q \in Rows, rewrite_live_versions(t, q)
          PROVE  MayTag(t, r)' \/ Visits(t, r)
      <3>1. CASE q = r
        BY <2>8, <3>1 DEF Visits
      <3>2. CASE q # r
        <4>1. UNCHANGED <<txs, write_set, pc>> /\ todo' = [todo EXCEPT ![t] = @ \ {q}]
          BY <2>8 DEF rewrite_live_versions
        <4> QED  BY <1>0, <3>2, <4>1 DEF MayTag
      <3> QED  BY <3>1, <3>2
    <2>9. ASSUME NEW d \in Txns, commit_notify(t, d)  PROVE FALSE
      BY <1>0, <2>9 DEF commit_notify
    <2> QED  BY <1>4, <2>1, <2>2, <2>3, <2>4, <2>5, <2>6, <2>7, <2>8, <2>9 DEF Commit
  <1>5. CASE Rollback(t)
    <2>1. CASE rollback_take_dependents(t)
      BY <1>0, <2>1 DEF rollback_take_dependents, MayTag
    <2>2. CASE rollback_release_dependent(t)
      BY <1>0, <2>2 DEF rollback_release_dependent, MayTag
    <2>3. CASE rollback_release_exclusive(t)
      BY <1>0, <2>3 DEF rollback_release_exclusive, MayTag
    <2>4. CASE rollback_terminate(t)
      BY <1>0, <2>4 DEF rollback_terminate
    <2>5. ASSUME NEW q \in Rows, rollback_rowid(t, q)  PROVE MayTag(t, r)' \/ Visits(t, r)
      <3>1. CASE q = r
        BY <2>5, <3>1 DEF Visits
      <3>2. CASE q # r
        <4>1. UNCHANGED <<txs, write_set, pc>> /\ todo' = [todo EXCEPT ![t] = @ \ {q}]
          BY <2>5 DEF rollback_rowid
        <4> QED  BY <1>0, <3>2, <4>1 DEF MayTag
      <3> QED  BY <3>1, <3>2
    <2>6. ASSUME NEW d \in Txns, rollback_abort_dependent(t, d)  PROVE MayTag(t, r)'
      BY <1>0, <2>6 DEF rollback_abort_dependent, MayTag
    <2> QED  BY <1>5, <2>1, <2>2, <2>3, <2>4, <2>5, <2>6 DEF Rollback
  <1> QED  BY <1>1, <1>2, <1>3, <1>4, <1>5

LEMMA MayTagKept ==
    ASSUME StoreTypeOK, PcMatchesState, [Next]_vars,
           NEW u \in Txns, NEW r \in Rows, MayTag(u, r)
    PROVE  MayTag(u, r)' \/ Visits(u, r)
  <1>1. CASE UNCHANGED vars
    BY <1>1 DEF vars, storeVars, opVars, MayTag
  <1>2. ASSUME NEW t \in Txns,
               \/ Begin(t) \/ Statement(t) \/ commit_initial(t) \/ Commit(t)
               \/ abandon(t) \/ rollback_tx(t) \/ Rollback(t)
        PROVE  MayTag(u, r)' \/ Visits(u, r)
    <2>1. CASE u = t
      BY <1>2, <2>1, TagsLast
    <2>2. CASE u # t
      BY <1>2, <2>2, AnyStepMovesAlone, MovesAlone
    <2> QED  BY <2>1, <2>2
  <1> QED  BY <1>1, <1>2 DEF Next, Finished

-----------------------------------------------------------------------------
(* Who ends a version that its creator has not stamped yet depends on the   *)
(* creator, has been told to abort, or found it Committed: then the creator *)
(* is rewriting its versions and has the commit lock.                       *)

Speculates(u, t) ==
    u \in commit_dep_set[t] \/ u \in dependents[t] \/ abort_now[u] \/ pc[t] = "rewrite"

EndedSpeculatively ==
    \A r \in Rows : \A i \in 1 .. Len(versions[r]) : \A t, u \in Txns :
      /\ t # u /\ versions[r][i].begin = TxID(t) /\ versions[r][i].end = TxID(u)
      => Speculates(u, t)

(* Hence no end is a timestamp before the begin is.                         *)
StampedInOrder ==
    \A r \in Rows : \A i \in 1 .. Len(versions[r]) :
      versions[r][i].end.kind = "Timestamp" => versions[r][i].begin.kind # "TxID"

LEMMA DependsOnCreator ==
    ASSUME StoreTypeOK, PcMatchesState, Tagged, NEW t \in Txns, NEW r \in Rows,
           NEW i \in 1 .. Len(versions[r]), is_visible_to(t, versions[r][i]),
           NEW us, register_commit_dependency(t, us), speculates_on(t, versions[r][i]) \subseteq us,
           pc' = pc, NEW x \in Txns, x # t, versions[r][i].begin = TxID(x)
    PROVE  Speculates(t, x)'
  <1>1. PICK rv : rv = versions[r][i]
    OBVIOUS
  <1>2. rv.begin.kind = "TxID" /\ rv.begin.v = x
    BY <1>1, StampsDiffer
  <1>3. lookup_tx_state(x) \in {"Preparing", "Committed"} /\ begin_ts[t] > end_ts[x]
    BY <1>1, <1>2 DEF is_visible_to, is_begin_visible
  <1>4. MayTag(x, r)
    BY <1>1 DEF Tagged, touched
  <1>5. CASE lookup_tx_state(x) = "Committed"
    <2>1. state[x] = "Committed" /\ pc[x] \in TaggingPcs
      BY <1>4, <1>5 DEF MayTag, lookup_tx_state
    <2>2. pc[x] = "rewrite"
      BY <2>1 DEF PcMatchesState, TaggingPcs, CommittingPcs, RollbackPcs
    <2> QED  BY <2>2 DEF Speculates
  <1>6. CASE lookup_tx_state(x) = "Preparing"
    <2>1. x \in us
      BY <1>1, <1>3, <1>6 DEF speculates_on
    <2>2. PICK aborted \in SUBSET {u \in us : pc[u] = "rollback"} :
            /\ commit_dep_set' = [u \in Txns |-> IF u \in us \ aborted
                                                 THEN commit_dep_set[u] \cup {t}
                                                 ELSE commit_dep_set[u]]
            /\ abort_now' = [abort_now EXCEPT ![t] = @ \/ aborted # {}]
      BY DEF register_commit_dependency
    <2>3. CASE x \in aborted
      <3>1. abort_now'[t]
        BY <2>2, <2>3 DEF StoreTypeOK
      <3> QED  BY <3>1 DEF Speculates
    <2>4. CASE x \notin aborted
      <3>1. t \in commit_dep_set'[x]
        BY <2>1, <2>2, <2>4
      <3> QED  BY <3>1 DEF Speculates
    <2> QED  BY <2>3, <2>4
  <1> QED  BY <1>3, <1>5, <1>6

(* What a writing statement makes of the chain of its row.                  *)
Fresh(t, w) ==
    \/ w.begin = TxID(t) /\ w.end = None
    \/ w.begin = None /\ w.end = TxID(t)

EndedBy(t, v, w) ==
    /\ w.begin = v.begin /\ w.end = TxID(t) /\ v.end.kind # "Timestamp"
    /\ \A x \in Txns : x # t /\ v.begin = TxID(x) => Speculates(t, x)'

WrittenFrom(t, chain, w) ==
    \/ Fresh(t, w)
    \/ \E j \in 1 .. Len(chain) : w = chain[j] \/ EndedBy(t, chain[j], w)

Writes(t, r) == update(t, r) \/ insert(t, r) \/ delete(t, r) \/ insert_tombstone(t, r)

(* What is left of a version's creation: its row and its begin.             *)
SameCreation(v, w) == w.row = v.row /\ w.begin = v.begin
CreationsKept(r) ==
    \A j \in 1 .. Len(versions[r]) :
      \E k \in 1 .. Len(versions'[r]) : SameCreation(versions[r][j], versions'[r][k])

LEMMA EndedChain ==
    ASSUME StoreTypeOK, PcMatchesState, Tagged, NEW t \in Txns, NEW r \in Rows,
           NEW i \in 1 .. Len(versions[r]), is_last_visible(t, versions[r], i),
           ~is_write_write_conflict(t, versions[r][i]), pc' = pc,
           register_commit_dependency(t, examined_down_to(t, versions[r], i)),
           NEW chain, chain = set_end(versions[r], i, t)
    PROVE  /\ chain \in Seq(RowVersion) /\ Len(chain) = Len(versions[r])
           /\ \A k \in 1 .. Len(chain) : WrittenFrom(t, versions[r], chain[k])
           /\ \A k \in 1 .. Len(chain) : versions[r][k].end.kind = "Timestamp" =>
                                           chain[k] = versions[r][k]
           /\ \A k \in 1 .. Len(chain) : SameCreation(versions[r][k], chain[k])
  <1>1. versions[r] \in Seq(RowVersion)
    BY DEF StoreTypeOK
  <1>2. PICK s : s = versions[r]
    OBVIOUS
  <1>3. /\ chain \in Seq(RowVersion) /\ Len(chain) = Len(s)
        /\ \A j \in 1 .. Len(s) : j # i => chain[j] = s[j]
        /\ chain[i].begin = s[i].begin /\ chain[i].end = TxID(t) /\ chain[i].row = s[i].row
    BY <1>1, <1>2, SetEndTyped, SetEndElements
  <1>4. is_visible_to(t, s[i]) /\ s[i].end.kind # "Timestamp"
    BY <1>2 DEF is_last_visible, is_write_write_conflict
  <1>5. speculates_on(t, s[i]) \subseteq examined_down_to(t, s, i)
    <2>1. i \in i .. Len(s)
      BY <1>1, <1>2
    <2> QED  BY <2>1 DEF examined_down_to
  <1>6. EndedBy(t, s[i], chain[i])
    <2>1. ASSUME NEW x \in Txns, x # t, s[i].begin = TxID(x)  PROVE Speculates(t, x)'
      BY <1>2, <1>4, <1>5, <2>1, DependsOnCreator
    <2> QED  BY <1>3, <1>4, <2>1 DEF EndedBy
  <1>7. \A k \in 1 .. Len(chain) : WrittenFrom(t, s, chain[k])
    BY <1>3, <1>6 DEF WrittenFrom
  <1>8. \A k \in 1 .. Len(chain) : s[k].end.kind = "Timestamp" => chain[k] = s[k]
    BY <1>3, <1>4
  <1>9. \A k \in 1 .. Len(chain) : SameCreation(s[k], chain[k])
    BY <1>3 DEF SameCreation
  <1> QED  BY <1>2, <1>3, <1>7, <1>8, <1>9

(* What the statement leaves of the store: every version of the row was     *)
(* there, was ended by t or is t's; those with an end timestamp are kept,   *)
(* and of the others who created them.                                      *)
WrittenBy(t, r) ==
    /\ \A q \in Rows : q # r => versions'[q] = versions[q]
    /\ \A k \in 1 .. Len(versions'[r]) : WrittenFrom(t, versions[r], versions'[r][k])
    /\ \A j \in 1 .. Len(versions[r]) : versions[r][j].end.kind = "Timestamp" =>
         \E k \in 1 .. Len(versions'[r]) : versions'[r][k] = versions[r][j]
    /\ CreationsKept(r)

EndedIn(t, s, chain) ==
    /\ chain \in Seq(RowVersion) /\ Len(chain) = Len(s)
    /\ \A k \in 1 .. Len(chain) : WrittenFrom(t, s, chain[k])
    /\ \A k \in 1 .. Len(chain) : s[k].end.kind = "Timestamp" => chain[k] = s[k]
    /\ \A k \in 1 .. Len(chain) : SameCreation(s[k], chain[k])

FreshVersion(t, rv) == rv \in RowVersion /\ Fresh(t, rv) /\ rv.begin.kind # "Timestamp"

LEMMA FreshVersions ==
    ASSUME StoreTypeOK, NEW t \in Txns, NEW r \in Rows, ops[t] < MaxOps
    PROVE  /\ \A resident \in BOOLEAN : FreshVersion(t, NewVersion(t, r, resident))
           /\ FreshVersion(t, Tombstone(t, r))
  <1>1. ASSUME NEW rv \in RowVersion, Fresh(t, rv)  PROVE FreshVersion(t, rv)
    BY <1>1, StampsDiffer DEF Fresh, FreshVersion
  <1>2. /\ \A resident \in BOOLEAN : Fresh(t, NewVersion(t, r, resident))
        /\ Fresh(t, Tombstone(t, r))
    BY DEF Fresh, NewVersion, Tombstone
  <1> QED  BY <1>1, <1>2, NewVersionsTyped

LEMMA InsertedChain ==
    ASSUME StoreTypeOK, NEW t \in Txns, NEW r \in Rows, NEW chain, EndedIn(t, versions[r], chain),
           NEW rv, FreshVersion(t, rv),
           versions' = [versions EXCEPT ![r] = insert_version_raw(chain, rv)]
    PROVE  WrittenBy(t, r)
  <1>1. PICK s, c : s = versions[r] /\ c = insert_version_raw(chain, rv)
    OBVIOUS
  <1>2. versions'[r] = c /\ \A q \in Rows : q # r => versions'[q] = versions[q]
    BY <1>1 DEF StoreTypeOK
  <1>3. /\ chain \in Seq(RowVersion) /\ Len(chain) = Len(s)
        /\ \A k \in 1 .. Len(chain) : WrittenFrom(t, s, chain[k])
        /\ \A k \in 1 .. Len(chain) : s[k].end.kind = "Timestamp" => chain[k] = s[k]
        /\ \A k \in 1 .. Len(chain) : SameCreation(s[k], chain[k])
        /\ rv \in RowVersion /\ Fresh(t, rv) /\ rv.begin.kind # "Timestamp"
    BY <1>1 DEF EndedIn, FreshVersion
  <1>4. \A k \in 1 .. Len(c) : c[k] = rv \/ \E j \in 1 .. Len(chain) : c[k] = chain[j]
    BY <1>1, <1>3, InsertElements
  <1>5. \A j \in 1 .. Len(chain) : \E k \in 1 .. Len(c) : c[k] = chain[j]
    BY <1>1, <1>3, InsertKeeps
  <1>6. WrittenFrom(t, s, rv)
    BY <1>3 DEF WrittenFrom
  <1>7. \A k \in 1 .. Len(c) : WrittenFrom(t, s, c[k])
    BY <1>3, <1>4, <1>6
  <1>8. \A j \in 1 .. Len(s) : s[j].end.kind = "Timestamp" => \E k \in 1 .. Len(c) : c[k] = s[j]
    BY <1>3, <1>5
  <1>9. \A j \in 1 .. Len(s) : \E k \in 1 .. Len(c) : SameCreation(s[j], c[k])
    BY <1>3, <1>5
  <1> QED  BY <1>1, <1>2, <1>7, <1>8, <1>9 DEF WrittenBy, CreationsKept

LEMMA WrittenChain ==
    ASSUME StoreTypeOK, PcMatchesState, Tagged, NEW t \in Txns, NEW r \in Rows, Writes(t, r)
    PROVE  WrittenBy(t, r)
  <1>1. PICK s : s = versions[r]
    OBVIOUS
  <1>2. s \in Seq(RowVersion) /\ versions \in [Rows -> Seq(RowVersion)]
    BY <1>1 DEF StoreTypeOK
  <1>3. ops[t] < MaxOps /\ pc' = pc
    BY DEF Writes, update, insert, delete, insert_tombstone, CanWrite, CanRead
  <1>4. ASSUME NEW i \in 1 .. Len(s), is_last_visible(t, s, i), ~is_write_write_conflict(t, s[i]),
               register_commit_dependency(t, examined_down_to(t, s, i))
        PROVE  EndedIn(t, s, set_end(s, i, t))
    BY <1>1, <1>3, <1>4, EndedChain DEF EndedIn
  <1>5. CASE update(t, r)
    <2>1. PICK i \in 1 .. Len(s) :
            /\ is_last_visible(t, s, i) /\ ~is_write_write_conflict(t, s[i])
            /\ register_commit_dependency(t, examined_down_to(t, s, i))
            /\ versions' = [versions EXCEPT ![r] =
                 insert_version_raw(set_end(@, i, t), NewVersion(t, r, FALSE))]
      BY <1>1, <1>5 DEF update
    <2>2. PICK chain, rv : chain = set_end(s, i, t) /\ rv = NewVersion(t, r, FALSE)
      OBVIOUS
    <2>3. versions' = [versions EXCEPT ![r] = insert_version_raw(chain, rv)]
      BY <1>1, <2>1, <2>2
    <2>4. EndedIn(t, s, chain)
      BY <1>4, <2>1, <2>2
    <2>5. FreshVersion(t, rv)
      BY <1>3, <2>2, FreshVersions
    <2> QED  BY <1>1, <2>3, <2>4, <2>5, InsertedChain
  <1>6. CASE insert(t, r) \/ insert_tombstone(t, r)
    <2>1. PICK rv : /\ FreshVersion(t, rv)
                    /\ versions' = [versions EXCEPT ![r] = insert_version_raw(@, rv)]
      <3>1. query_btree_version_is_valid(t, r) \in BOOLEAN
        BY DEF query_btree_version_is_valid
      <3>2. CASE insert(t, r)
        <4>1. versions' = [versions EXCEPT ![r] =
                insert_version_raw(@, NewVersion(t, r, query_btree_version_is_valid(t, r)))]
          BY <3>2 DEF insert
        <4> QED  BY <1>3, <3>1, <4>1, FreshVersions
      <3>3. CASE insert_tombstone(t, r)
        <4>1. versions' = [versions EXCEPT ![r] = insert_version_raw(@, Tombstone(t, r))]
          BY <3>3 DEF insert_tombstone
        <4> QED  BY <1>3, <4>1, FreshVersions
      <3> QED  BY <1>6, <3>2, <3>3
    <2>2. versions' = [versions EXCEPT ![r] = insert_version_raw(s, rv)]
      BY <1>1, <2>1
    <2>3. EndedIn(t, s, s)
      BY <1>2 DEF EndedIn, WrittenFrom, SameCreation
    <2> QED  BY <1>1, <2>1, <2>2, <2>3, InsertedChain
  <1>7. CASE delete(t, r)
    <2>1. PICK i \in 1 .. Len(s) :
            /\ is_last_visible(t, s, i) /\ ~is_write_write_conflict(t, s[i])
            /\ register_commit_dependency(t, examined_down_to(t, s, i))
            /\ versions' = [versions EXCEPT ![r] = set_end(@, i, t)]
      BY <1>1, <1>7 DEF delete
    <2>2. PICK chain : chain = set_end(s, i, t)
      OBVIOUS
    <2>3. versions'[r] = chain /\ \A q \in Rows : q # r => versions'[q] = versions[q]
      BY <1>1, <1>2, <2>1, <2>2
    <2>4. EndedIn(t, s, chain)
      BY <1>4, <2>1, <2>2
    <2> QED  BY <1>1, <2>3, <2>4 DEF EndedIn, WrittenBy, CreationsKept
  <1> QED  BY <1>5, <1>6, <1>7 DEF Writes

-----------------------------------------------------------------------------
(* Who has dependents, and when a commit is past its own dependencies.      *)

OwingPcs == {"rollback", "commit", "validate", "wait", "wait_recheck", "build", "sync",
             "commit_end", "rewrite", "rb_unlock"}

(* Only a writer has dependents, and only until it takes commit_dep_set.    *)
WritersOwe ==
    \A t \in Txns : commit_dep_set[t] # {} => pc[t] \in OwingPcs /\ write_set[t] # {}

SettledPcs == {"read_only", "build", "sync", "commit_end", "read_only_unlock", "rewrite",
               "notify", "publish", "remove"}

(* Behind WaitForDependencies nobody owes the transaction an answer any     *)
(* more, and it was not told to abort.                                      *)
Settled ==
    \A t \in Txns :
      /\ pc[t] \in SettledPcs \cup {"wait_recheck"} => \A u \in Txns : ~Owes(u, t)
      /\ pc[t] \in SettledPcs => ~abort_now[t]

(* A lookup depends only on transactions whose id it met in a chain.        *)
TaggingTxns == {u \in PreparingTxns : \E r \in Rows : MayTag(u, r)}

LEMMA LookupsOnTagging ==
    ASSUME StoreTypeOK, Tagged, NEW t \in Txns, NEW r \in Rows
    PROVE  /\ \A i \in 1 .. Len(versions[r]) :
                examined_down_to(t, versions[r], i) \subseteq TaggingTxns
           /\ btree_lookup_speculates_on(t, r) \subseteq TaggingTxns
  <1>1. PICK s : s = versions[r]
    OBVIOUS
  <1>2. s \in Seq(RowVersion) /\ Len(s) \in Nat
    BY <1>1 DEF StoreTypeOK
  <1>3. ASSUME NEW j \in 1 .. Len(s)
        PROVE  speculates_on(t, s[j]) \cup invalidation_speculates_on(t, s[j]) \subseteq TaggingTxns
    <2>1. ASSUME NEW u \in speculates_on(t, s[j]) \cup invalidation_speculates_on(t, s[j])
          PROVE  u \in TaggingTxns
      <3>1. u \in PreparingTxns /\ touched(u, s[j])
        BY DEF speculates_on, invalidation_speculates_on, PreparingTxns, touched
      <3>2. MayTag(u, r)
        BY <1>1, <3>1 DEF Tagged, PreparingTxns
      <3> QED  BY <3>1, <3>2 DEF TaggingTxns
    <2> QED  BY <2>1
  <1>4. ASSUME NEW i \in Nat, i >= 1  PROVE examined_down_to(t, s, i) \subseteq TaggingTxns
    <2>1. \A j \in i .. Len(s) : j \in 1 .. Len(s)
      BY <1>2, <1>4
    <2> QED  BY <1>3, <2>1 DEF examined_down_to
  <1>5. btree_lookup_speculates_on(t, r) \subseteq TaggingTxns
    BY <1>1, <1>3, <1>4 DEF btree_lookup_speculates_on
  <1> QED  BY <1>1, <1>2, <1>4, <1>5

(* What the registrations of a statement do to the others.                  *)
RegistersOn(t, us) ==
    /\ \A u \in Txns : commit_dep_set[u] \subseteq commit_dep_set'[u]
    /\ \A u \in Txns : commit_dep_set'[u] \subseteq commit_dep_set[u] \cup {t}
    /\ \A u \in Txns : u \notin us => commit_dep_set'[u] = commit_dep_set[u]
    /\ \A e \in Txns : abort_now[e] => abort_now'[e]
    /\ \A e \in Txns : e # t => abort_now'[e] = abort_now[e]
    /\ UNCHANGED <<dependents, informed>>

LEMMA RegisterEffect ==
    ASSUME StoreTypeOK, NEW t \in Txns, NEW us, register_commit_dependency(t, us)
    PROVE  RegistersOn(t, us)
  <1>1. PICK aborted \in SUBSET {u \in us : pc[u] = "rollback"} :
          /\ commit_dep_set' = [u \in Txns |-> IF u \in us \ aborted
                                                THEN commit_dep_set[u] \cup {t}
                                                ELSE commit_dep_set[u]]
          /\ abort_now' = [abort_now EXCEPT ![t] = @ \/ aborted # {}]
          /\ UNCHANGED <<dependents, informed>>
    BY DEF register_commit_dependency
  <1>2. \A e \in Txns : /\ abort_now[e] => abort_now'[e]
                        /\ e # t => abort_now'[e] = abort_now[e]
    BY <1>1 DEF StoreTypeOK
  <1> QED  BY <1>1, <1>2 DEF RegistersOn

RowStatement(t, r) ==
    \/ read_visible(t, r) \/ read_btree(t, r) \/ write_conflict(t, r)
    \/ update(t, r) \/ insert(t, r) \/ delete(t, r) \/ insert_tombstone(t, r)

LEMMA StatementRegisters ==
    ASSUME StoreTypeOK, Tagged, NEW t \in Txns, NEW r \in Rows, RowStatement(t, r)
    PROVE  /\ RegistersOn(t, TaggingTxns)
           /\ pc[t] = "active" /\ pc' \in {pc, [pc EXCEPT ![t] = "rollback"]}
           /\ UNCHANGED <<txs, state, lockVars>>
           /\ \A u \in Txns : write_set[u] \subseteq write_set'[u]
  <1>1. ASSUME NEW i \in 1 .. Len(versions[r])
        PROVE  examined_down_to(t, versions[r], i) \subseteq TaggingTxns
    BY LookupsOnTagging
  <1>2. ASSUME NEW q \in Rows  PROVE btree_lookup_speculates_on(t, q) \subseteq TaggingTxns
    BY LookupsOnTagging
  <1>3. UNION {btree_lookup_speculates_on(t, q) : q \in ConflictSet[r]} \subseteq TaggingTxns
    BY <1>2, MvStoreAssumption
  <1>4. \E us : us \subseteq TaggingTxns /\ register_commit_dependency(t, us)
    <2>1. CASE read_visible(t, r) \/ write_conflict(t, r) \/ update(t, r) \/ delete(t, r)
      BY <1>1, <2>1 DEF read_visible, write_conflict, update, delete
    <2>2. CASE read_btree(t, r) \/ insert_tombstone(t, r)
      BY <1>2, <2>2 DEF read_btree, insert_tombstone
    <2>3. CASE insert(t, r)
      BY <1>3, <2>3 DEF insert
    <2> QED  BY <2>1, <2>2, <2>3 DEF RowStatement
  <1>5. RegistersOn(t, TaggingTxns)
    BY <1>4, RegisterEffect DEF RegistersOn
  <1>6. /\ pc[t] = "active" /\ pc' \in {pc, [pc EXCEPT ![t] = "rollback"]}
        /\ UNCHANGED <<txs, state, lockVars>>
    BY DEF RowStatement, read_visible, read_btree, write_conflict, update, insert, delete,
           insert_tombstone, CanWrite, CanRead, Goto, StatementFrame, storeVars
  <1>7. \/ write_set' = write_set
        \/ write_set' = [write_set EXCEPT ![t] = @ \cup {r}]
    BY DEF RowStatement, read_visible, read_btree, write_conflict, update, insert, delete,
           insert_tombstone, WriteSetAdd
  <1>8. ASSUME NEW u \in Txns  PROVE write_set[u] \subseteq write_set'[u]
    <2>1. write_set \in [Txns -> SUBSET Rows]
      BY DEF StoreTypeOK
    <2>2. write_set'[u] \in {write_set[u], write_set[u] \cup {r}}
      BY <1>7, <2>1
    <2> QED  BY <2>2
  <1> QED  BY <1>5, <1>6, <1>8

(* The steps that leave every debt and every abort_now alone move one       *)
(* transaction along: a writer stays where it may owe, and nobody gets past *)
(* the wait other than through its two loads.                               *)
Moves(t) ==
    /\ UNCHANGED <<commit_dep_set, dependents, informed, abort_now, write_set>>
    /\ \A u \in Txns \ {t} : pc'[u] = pc[u]
    /\ pc[t] \in OwingPcs /\ write_set[t] # {} => pc'[t] \in OwingPcs
    /\ pc[t] = "rewrite" => pc'[t] = "rewrite"
    /\ pc'[t] \in SettledPcs =>
         pc[t] \in SettledPcs \/ (pc[t] = "wait_recheck" /\ ~abort_now[t])
    /\ pc'[t] = "wait_recheck" =>
         pc[t] = "wait_recheck" \/ (pc[t] = "wait" /\ commit_dep_counter[t] = 0)

LEMMA MovesTo ==
    ASSUME StoreTypeOK, NEW t \in Txns, NEW to, pc' = [pc EXCEPT ![t] = to],
           UNCHANGED <<depVars, write_set>>,
           pc[t] \in OwingPcs /\ write_set[t] # {} => to \in OwingPcs, pc[t] # "rewrite",
           to \in SettledPcs =>
             pc[t] \in SettledPcs \/ (pc[t] = "wait_recheck" /\ ~abort_now[t]),
           to = "wait_recheck" => pc[t] = "wait" /\ commit_dep_counter[t] = 0
    PROVE  Moves(t)
  BY DEF Moves, StoreTypeOK, depVars

LEMMA StaysPut ==
    ASSUME NEW t \in Txns, UNCHANGED <<depVars, write_set, pc>>
    PROVE  Moves(t)
  BY DEF Moves, depVars

LEMMA BeginMoves ==
    ASSUME StoreTypeOK, NEW t \in Txns, Begin(t)
    PROVE  Moves(t)
  <1>1. /\ UNCHANGED <<depVars, write_set>>
        /\ \E from \in {"idle", "active", "acquire_exclusive", "acquire_commit_lock"} :
             \E to \in {"active", "acquire_exclusive", "acquire_commit_lock", "done"} :
               Goto(t, from, to)
    BY DEF Begin, begin_tx, begin_exclusive_tx, upgrade_to_exclusive, acquire_exclusive_tx,
           acquire_pager_commit_lock, Refused, opVars
  <1> QED  BY <1>1, MovesTo DEF Goto, OwingPcs, SettledPcs

LEMMA CommitMoves ==
    ASSUME StoreTypeOK, NEW t \in Txns, commit_initial(t) \/ Commit(t),
           ~commit_take_dependents(t), \A d \in Txns : ~commit_notify(t, d)
    PROVE  Moves(t)
  <1> USE DEF opVars, CommitFrame, Goto, OwingPcs, SettledPcs
  <1>1. UNCHANGED <<depVars, write_set>>
    BY DEF commit_initial, Commit, commit_check_exclusive, commit_validate_none,
           wait_for_dependencies, wait_recheck_abort_now, commit_read_only,
           begin_commit_logical_log, sync_logical_log, commit_end, commit_unlock, commit_publish,
           commit_remove, commit_release_exclusive, commit_validate,
           build_committed_log_record, rewrite_live_versions
  <1>2. CASE commit_initial(t)
    BY <1>1, <1>2, MovesTo DEF commit_initial
  <1>3. CASE commit_check_exclusive(t) \/ commit_validate_none(t)
    BY <1>1, <1>3, MovesTo DEF commit_check_exclusive, commit_validate_none
  <1>4. CASE wait_for_dependencies(t)
    BY <1>1, <1>4, MovesTo DEF wait_for_dependencies
  <1>5. CASE wait_recheck_abort_now(t)
    <2>1. pc[t] = "wait_recheck" /\ \E to \in {"rollback", "read_only", "build"} :
            /\ pc' = [pc EXCEPT ![t] = to]
            /\ to = "read_only" => write_set[t] = {}
            /\ to # "rollback" => ~abort_now[t]
      BY <1>5 DEF wait_recheck_abort_now, is_read_only
    <2> QED  BY <1>1, <2>1, MovesTo
  <1>6. CASE commit_read_only(t) \/ commit_release_exclusive(t) \/ commit_remove(t)
    BY <1>1, <1>6, MovesTo DEF commit_read_only, commit_release_exclusive, commit_remove
  <1>7. CASE begin_commit_logical_log(t) \/ sync_logical_log(t) \/ commit_end(t)
    BY <1>1, <1>7, MovesTo DEF begin_commit_logical_log, sync_logical_log, commit_end
  <1>8. CASE commit_unlock(t) \/ commit_publish(t)
    BY <1>1, <1>8, MovesTo DEF commit_unlock, commit_publish
  <1>9. ASSUME NEW r \in Rows, commit_validate(t, r)  PROVE Moves(t)
    BY <1>1, <1>9, MovesTo DEF commit_validate
  <1>10. ASSUME NEW r \in Rows, build_committed_log_record(t, r) \/ rewrite_live_versions(t, r)
         PROVE  Moves(t)
    BY <1>1, <1>10, StaysPut DEF build_committed_log_record, rewrite_live_versions
  <1> QED
    BY <1>2, <1>3, <1>4, <1>5, <1>6, <1>7, <1>8, <1>9, <1>10 DEF Commit

LEMMA OtherMoves ==
    ASSUME StoreTypeOK, NEW t \in Txns,
           \/ with_header_mut(t) \/ abandon(t) \/ rollback_tx(t) \/ rollback_release_exclusive(t)
           \/ \E r \in Rows : rollback_rowid(t, r)
    PROVE  Moves(t)
  <1> USE DEF opVars, Goto, OwingPcs, SettledPcs
  <1>1. CASE with_header_mut(t) \/ \E r \in Rows : rollback_rowid(t, r)
    BY <1>1, StaysPut DEF with_header_mut, rollback_rowid
  <1>2. CASE abandon(t) \/ rollback_tx(t) \/ rollback_release_exclusive(t)
    BY <1>2, MovesTo DEF abandon, rollback_tx, rollback_release_exclusive
  <1> QED  BY <1>1, <1>2

(* Every other step pays or collects debts, or is a statement.              *)
DebtStep(t) ==
    \/ commit_take_dependents(t) \/ rollback_take_dependents(t)
    \/ \E d \in Txns : commit_notify(t, d) \/ rollback_abort_dependent(t, d)
    \/ rollback_release_dependent(t) \/ rollback_terminate(t)

LEMMA StepKinds ==
    ASSUME StoreTypeOK, [Next]_vars
    PROVE  \/ UNCHANGED vars
           \/ \E t \in Txns : Moves(t) \/ DebtStep(t) \/ \E r \in Rows : RowStatement(t, r)
  <1>1. ASSUME NEW t \in Txns, Begin(t)  PROVE Moves(t)
    BY <1>1, BeginMoves
  <1>2. ASSUME NEW t \in Txns, Statement(t)
        PROVE  Moves(t) \/ \E r \in Rows : RowStatement(t, r)
    BY <1>2, OtherMoves DEF Statement, RowStatement
  <1>3. ASSUME NEW t \in Txns, commit_initial(t) \/ Commit(t)  PROVE Moves(t) \/ DebtStep(t)
    BY <1>3, CommitMoves DEF DebtStep
  <1>4. ASSUME NEW t \in Txns, abandon(t) \/ rollback_tx(t)  PROVE Moves(t)
    BY <1>4, OtherMoves
  <1>5. ASSUME NEW t \in Txns, Rollback(t)  PROVE Moves(t) \/ DebtStep(t)
    BY <1>5, OtherMoves DEF Rollback, DebtStep
  <1> QED  BY <1>1, <1>2, <1>3, <1>4, <1>5 DEF Next, Finished

(* What the steps on debts do.                                              *)
Takes(t) ==
    /\ pc[t] \in {"rewrite", "rb_unlock"}
    /\ pc' = [pc EXCEPT ![t] = IF pc[t] = "rewrite" THEN "notify" ELSE "rb_notify"]
    /\ pc[t] = "rewrite" => todo[t] = {}
    /\ dependents' = [dependents EXCEPT ![t] = commit_dep_set[t]]
    /\ commit_dep_set' = [commit_dep_set EXCEPT ![t] = {}]
    /\ UNCHANGED <<abort_now, informed, write_set, txs, versions>>

Pays(t, d) ==
    /\ pc[t] \in {"notify", "rb_notify"}
    /\ \/ /\ d \in dependents[t] /\ pc[t] = "notify"
          /\ dependents' = [dependents EXCEPT ![t] = @ \ {d}]
          /\ UNCHANGED <<informed, abort_now>>
       \/ /\ d \in dependents[t] /\ informed[t] = NoTx
          /\ dependents' = [dependents EXCEPT ![t] = @ \ {d}]
          /\ informed' = [informed EXCEPT ![t] = d]
          /\ abort_now' = IF d \in txs THEN [abort_now EXCEPT ![d] = TRUE] ELSE abort_now
       \/ /\ informed' = [informed EXCEPT ![t] = NoTx]
          /\ UNCHANGED <<dependents, abort_now>>
    /\ UNCHANGED <<commit_dep_set, pc, write_set, txs, versions>>

Drops(t) ==
    /\ pc[t] = "rb_undo" /\ todo[t] = {} /\ pc' = [pc EXCEPT ![t] = "done"]
    /\ abort_now' = [abort_now EXCEPT ![t] = FALSE]
    /\ write_set' = [write_set EXCEPT ![t] = {}]
    /\ UNCHANGED <<commit_dep_set, dependents, informed, versions>>

LEMMA DebtSteps ==
    ASSUME NEW t \in Txns, DebtStep(t)
    PROVE  Takes(t) \/ (\E d \in Txns : Pays(t, d)) \/ Drops(t)
  <1> USE DEF storeVars, opVars, Goto
  <1>1. CASE commit_take_dependents(t) \/ rollback_take_dependents(t)
    BY <1>1 DEF commit_take_dependents, rollback_take_dependents, take_dependents, Takes
  <1>2. ASSUME NEW d \in Txns, commit_notify(t, d) \/ rollback_abort_dependent(t, d)
        PROVE  Pays(t, d)
    BY <1>2 DEF commit_notify, rollback_abort_dependent, Pays
  <1>3. CASE rollback_release_dependent(t)
    BY <1>3 DEF rollback_release_dependent, Pays
  <1>4. CASE rollback_terminate(t)
    BY <1>4 DEF rollback_terminate, remove_tx, Drops
  <1> QED  BY <1>1, <1>2, <1>3, <1>4 DEF DebtStep

LEMMA WritersOweStep ==
    ASSUME StoreTypeOK, PcMatchesState, Tagged, WritersOwe, [Next]_vars
    PROVE  WritersOwe'
  <1>1. CASE UNCHANGED vars
    BY <1>1 DEF vars, depVars, opVars, WritersOwe
  <1>2. ASSUME NEW t \in Txns, Moves(t)  PROVE WritersOwe'
    BY <1>2 DEF Moves, WritersOwe
  <1>3. ASSUME NEW t \in Txns, NEW r \in Rows, RowStatement(t, r)  PROVE WritersOwe'
    <2>1. /\ RegistersOn(t, TaggingTxns)
          /\ pc[t] = "active" /\ pc' \in {pc, [pc EXCEPT ![t] = "rollback"]}
          /\ \A u \in Txns : write_set[u] \subseteq write_set'[u]
      BY <1>3, StatementRegisters
    <2>2. ASSUME NEW u \in Txns, commit_dep_set'[u] # {}
          PROVE  pc[u] \in OwingPcs /\ write_set[u] # {}
      <3>1. CASE u \in TaggingTxns
        <4>1. PICK q \in Rows : MayTag(u, q)
          BY <3>1 DEF TaggingTxns
        <4>2. state[u] = "Preparing" /\ u \in txs
          BY <3>1 DEF TaggingTxns, PreparingTxns, lookup_tx_state
        <4>3. pc[u] \in TaggingPcs /\ write_set[u] # {}
          BY <4>1 DEF MayTag
        <4>4. pc[u] \in OwingPcs
          BY <4>2, <4>3 DEF PcMatchesState, TaggingPcs, OwingPcs, CommittedPcs, RollbackPcs
        <4> QED  BY <4>3, <4>4
      <3>2. CASE u \notin TaggingTxns
        BY <2>1, <2>2, <3>2 DEF RegistersOn, WritersOwe
      <3> QED  BY <3>1, <3>2
    <2>3. \A u \in Txns : pc[u] \in OwingPcs => pc'[u] = pc[u]
      BY <2>1 DEF OwingPcs, StoreTypeOK
    <2> QED  BY <2>1, <2>2, <2>3 DEF WritersOwe
  <1>4. ASSUME NEW t \in Txns, Takes(t)  PROVE WritersOwe'
    BY <1>4 DEF Takes, WritersOwe, StoreTypeOK
  <1>5. ASSUME NEW t \in Txns, NEW d \in Txns, Pays(t, d)  PROVE WritersOwe'
    BY <1>5 DEF Pays, WritersOwe
  <1>6. ASSUME NEW t \in Txns, Drops(t)  PROVE WritersOwe'
    <2>1. commit_dep_set[t] = {}
      BY <1>6 DEF Drops, WritersOwe, OwingPcs
    <2> QED  BY <1>6, <2>1 DEF Drops, WritersOwe, StoreTypeOK
  <1> QED  BY <1>1, <1>2, <1>3, <1>4, <1>5, <1>6, StepKinds, DebtSteps

LEMMA SettledStep ==
    ASSUME DependencyInv, Tagged, Settled, [Next]_vars
    PROVE  Settled'
  <1> USE DEF DependencyInv
  <1>1. CASE UNCHANGED vars
    BY <1>1 DEF vars, depVars, Settled, Owes
  <1>2. ASSUME NEW t \in Txns, Moves(t)  PROVE Settled'
    <2>1. \A u, e \in Txns : Owes(u, e)' <=> Owes(u, e)
      BY <1>2 DEF Moves, Owes
    <2>2. ASSUME pc[t] = "wait", commit_dep_counter[t] = 0  PROVE \A u \in Txns : ~Owes(u, t)
      <3>1. t \in txs
        BY <2>2 DEF PcMatchesState, CommittingPcs
      <3>2. Cardinality({u \in Txns : Owes(u, t)}) = 0 /\ IsFiniteSet({u \in Txns : Owes(u, t)})
        BY <2>2, <3>1, OwingFinite DEF CounterExact
      <3>3. {u \in Txns : Owes(u, t)} = {}
        BY <3>2, FS_EmptySet
      <3> QED  BY <3>3
    <2>3. ASSUME NEW e \in Txns
          PROVE  /\ pc'[e] \in SettledPcs \cup {"wait_recheck"} => \A u \in Txns : ~Owes(u, e)'
                 /\ pc'[e] \in SettledPcs => ~abort_now'[e]
      <3>1. CASE e # t
        BY <1>2, <2>1, <3>1 DEF Moves, Settled
      <3>2. CASE e = t
        <4>1. pc'[t] \in SettledPcs \cup {"wait_recheck"} => \A u \in Txns : ~Owes(u, t)
          BY <1>2, <2>2 DEF Moves, Settled
        <4>2. pc'[t] \in SettledPcs => ~abort_now[t]
          BY <1>2 DEF Moves, Settled
        <4>3. abort_now' = abort_now
          BY <1>2 DEF Moves
        <4> QED  BY <2>1, <3>2, <4>1, <4>2, <4>3
      <3> QED  BY <3>1, <3>2
    <2> QED  BY <2>3 DEF Settled
  <1>3. ASSUME NEW t \in Txns, NEW r \in Rows, RowStatement(t, r)  PROVE Settled'
    <2>1. /\ RegistersOn(t, TaggingTxns)
          /\ pc[t] = "active" /\ pc' \in {pc, [pc EXCEPT ![t] = "rollback"]}
      BY <1>3, StatementRegisters
    <2>2. \A e \in Txns : e # t =>
            /\ pc'[e] = pc[e] /\ abort_now'[e] = abort_now[e]
            /\ \A u \in Txns : Owes(u, e)' => Owes(u, e)
      BY SMTT(40), <2>1 DEF RegistersOn, Owes, StoreTypeOK
    <2>3. pc'[t] \in {"active", "rollback"}
      BY <2>1 DEF StoreTypeOK
    <2> QED  BY <2>2, <2>3 DEF Settled, SettledPcs
  <1>4. ASSUME NEW t \in Txns, Takes(t)  PROVE Settled'
    <2>1. dependents[t] = {}
      BY <1>4 DEF Takes, NotifyingOnly
    <2>2. \A u, e \in Txns : Owes(u, e)' => Owes(u, e)
      BY <1>4, <2>1, SMTT(40) DEF Takes, Owes, StoreTypeOK
    <2>3. /\ abort_now' = abort_now
          /\ \A e \in Txns : e # t => pc'[e] = pc[e]
          /\ \/ pc[t] = "rewrite" /\ pc'[t] = "notify"
             \/ pc'[t] = "rb_notify"
      BY <1>4 DEF Takes, StoreTypeOK
    <2> QED  BY <2>2, <2>3 DEF Settled, SettledPcs
  <1>5. ASSUME NEW t \in Txns, NEW d \in Txns, Pays(t, d)  PROVE Settled'
    <2>1. ASSUME NEW u \in Txns, NEW e \in Txns, Owes(u, e)'  PROVE Owes(u, e)
      <3>0. /\ dependents \in [Txns -> SUBSET Txns] /\ informed \in [Txns -> Txns \cup {NoTx}]
            /\ NoTx \notin Txns
        BY MvStoreAssumption DEF StoreTypeOK
      <3>1. /\ dependents' \in {dependents, [dependents EXCEPT ![t] = @ \ {d}]}
            /\ \/ informed' = informed
               \/ informed' = [informed EXCEPT ![t] = NoTx]
               \/ informed' = [informed EXCEPT ![t] = d] /\ d \in dependents[t]
            /\ commit_dep_set' = commit_dep_set
        BY <1>5 DEF Pays
      <3>2. dependents'[u] \in {dependents[u], dependents[u] \ {d}}
        BY <3>0, <3>1
      <3>3. informed'[u] = e => informed[u] = e \/ e \in dependents[u]
        BY <3>0, <3>1
      <3> QED  BY <2>1, <3>1, <3>2, <3>3 DEF Owes
    <2>2. abort_now' # abort_now => Owes(t, d)
      BY <1>5 DEF Pays, Owes
    <2>3. \A e \in Txns : e # d => abort_now'[e] = abort_now[e]
      BY <1>5 DEF Pays, StoreTypeOK
    <2>4. \A e \in Txns : pc[e] \in SettledPcs => ~abort_now'[e]
      BY <2>2, <2>3 DEF Settled
    <2>5. pc' = pc
      BY <1>5 DEF Pays
    <2> QED  BY <2>1, <2>4, <2>5 DEF Settled
  <1>6. ASSUME NEW t \in Txns, Drops(t)  PROVE Settled'
    <2>1. \A u, e \in Txns : Owes(u, e)' <=> Owes(u, e)
      BY <1>6 DEF Drops, Owes
    <2>2. \A e \in Txns : e # t => pc'[e] = pc[e] /\ abort_now'[e] = abort_now[e]
      BY <1>6 DEF Drops, StoreTypeOK
    <2>3. pc'[t] = "done"
      BY <1>6 DEF Drops, StoreTypeOK
    <2> QED  BY <2>1, <2>2, <2>3 DEF Settled, SettledPcs
  <1> QED  BY <1>1, <1>2, <1>3, <1>4, <1>5, <1>6, StepKinds, DebtSteps

(* Between marking itself Committed and having told its dependents a commit *)
(* has the pager commit lock, so it is the only one.                        *)
RewriterAlone == \A t \in Txns : pc[t] \in {"rewrite", "notify"} => pager_commit_lock = t

(* How a step of t treats the lock.                                         *)
Locks(t) ==
    /\ \A u \in Txns \ {t} : pc'[u] = pc[u]
    /\ \/ /\ pager_commit_lock' = pager_commit_lock
          /\ pc'[t] \in {"rewrite", "notify"} => pc[t] \in {"commit_end", "rewrite", "notify"}
       \/ /\ pager_commit_lock \in {NoTx, t}
          /\ pc'[t] \notin {"rewrite", "notify"}

LEMMA StepLocks ==
    ASSUME StoreTypeOK, LockInv, NEW t \in Txns,
           \/ Begin(t) \/ Statement(t) \/ commit_initial(t) \/ Commit(t)
           \/ abandon(t) \/ rollback_tx(t) \/ Rollback(t)
    PROVE  Locks(t)
  <1> USE DEF lockVars, Goto
  <1>1. ASSUME NEW to, pc' = [pc EXCEPT ![t] = to], pager_commit_lock' = pager_commit_lock,
               to \in {"rewrite", "notify"} => pc[t] \in {"commit_end", "rewrite", "notify"}
        PROVE  Locks(t)
    BY <1>1 DEF Locks, StoreTypeOK
  <1>2. ASSUME NEW to, pc' = [pc EXCEPT ![t] = to], pager_commit_lock \in {NoTx, t},
               to \notin {"rewrite", "notify"}
        PROVE  Locks(t)
    BY <1>2 DEF Locks, StoreTypeOK
  <1>3. ASSUME UNCHANGED <<pc, pager_commit_lock>>  PROVE Locks(t)
    BY <1>3 DEF Locks
  <1>4. CASE Begin(t)
    <2>1. CASE begin_tx(t) \/ begin_exclusive_tx(t) \/ upgrade_to_exclusive(t)
      BY <1>1, <2>1 DEF begin_tx, begin_exclusive_tx, upgrade_to_exclusive
    <2>2. CASE acquire_exclusive_tx(t)
      BY <1>1, <2>2 DEF acquire_exclusive_tx, Refused
    <2>3. CASE acquire_pager_commit_lock(t)
      BY <1>1, <1>2, <2>3 DEF acquire_pager_commit_lock, Refused
    <2> QED  BY <1>4, <2>1, <2>2, <2>3 DEF Begin
  <1>5. CASE Statement(t)
    <2>1. /\ pager_commit_lock' = pager_commit_lock
          /\ pc' = pc \/ pc' = [pc EXCEPT ![t] = "rollback"]
      BY <1>5 DEF Statement, StatementFrame, with_header_mut, read_visible, read_btree,
                  write_conflict, update, insert, delete, insert_tombstone
    <2> QED  BY <1>1, <1>3, <2>1
  <1>6. CASE commit_initial(t) \/ abandon(t) \/ rollback_tx(t)
    BY <1>1, <1>6 DEF commit_initial, abandon, rollback_tx
  <1>7. pager_commit_lock_held[t] => pager_commit_lock = t
    BY DEF LockInv
  <1>8. CASE Commit(t)
    <2>1. CASE \/ commit_check_exclusive(t) \/ commit_validate_none(t)
               \/ wait_for_dependencies(t) \/ wait_recheck_abort_now(t)
               \/ commit_read_only(t) \/ sync_logical_log(t)
      BY <1>1, <2>1 DEF commit_check_exclusive, commit_validate_none, wait_for_dependencies,
                        wait_recheck_abort_now, commit_read_only, sync_logical_log
    <2>2. CASE \/ commit_end(t) \/ commit_take_dependents(t)
               \/ commit_publish(t) \/ commit_remove(t) \/ commit_release_exclusive(t)
      BY <1>1, <2>2 DEF commit_end, commit_take_dependents, commit_publish, commit_remove,
                        commit_release_exclusive
    <2>3. CASE begin_commit_logical_log(t)
      <3>1. /\ pc' = [pc EXCEPT ![t] = "sync"]
            /\ pager_commit_lock' = pager_commit_lock \/ pager_commit_lock = NoTx
        BY <2>3 DEF begin_commit_logical_log
      <3>2. CASE pager_commit_lock' = pager_commit_lock
        BY <1>1, <3>1, <3>2
      <3>3. CASE pager_commit_lock' # pager_commit_lock
        BY <3>1, <3>3 DEF Locks, StoreTypeOK
      <3> QED  BY <3>2, <3>3
    <2>4. CASE commit_unlock(t)
      BY <1>1, <1>2, <1>7, <2>4 DEF commit_unlock, unlock_commit_lock_if_held
    <2>5. ASSUME NEW r \in Rows, commit_validate(t, r)  PROVE Locks(t)
      BY <1>1, <2>5 DEF commit_validate
    <2>6. ASSUME NEW r \in Rows, build_committed_log_record(t, r) \/ rewrite_live_versions(t, r)
          PROVE  Locks(t)
      BY <1>3, <2>6 DEF build_committed_log_record, rewrite_live_versions
    <2>7. ASSUME NEW d \in Txns, commit_notify(t, d)  PROVE Locks(t)
      BY <1>3, <2>7 DEF commit_notify
    <2> QED  BY <1>8, <2>1, <2>2, <2>3, <2>4, <2>5, <2>6, <2>7 DEF Commit
  <1>9. CASE Rollback(t)
    <2>1. CASE rollback_take_dependents(t)
      <3>1. /\ pc' = [pc EXCEPT ![t] = "rb_notify"]
            /\ pager_commit_lock' = pager_commit_lock \/ pager_commit_lock = t
        BY <1>7, <2>1 DEF rollback_take_dependents, unlock_commit_lock_if_held
      <3>2. CASE pager_commit_lock' = pager_commit_lock
        BY <1>1, <3>1, <3>2
      <3>3. CASE pager_commit_lock' # pager_commit_lock
        BY <3>1, <3>3 DEF Locks, StoreTypeOK
      <3> QED  BY <3>2, <3>3
    <2>2. CASE rollback_release_exclusive(t) \/ rollback_terminate(t)
      BY <1>1, <2>2 DEF rollback_release_exclusive, rollback_terminate
    <2>3. CASE \/ rollback_release_dependent(t) \/ \E r \in Rows : rollback_rowid(t, r)
               \/ \E d \in Txns : rollback_abort_dependent(t, d)
      BY <1>3, <2>3 DEF rollback_release_dependent, rollback_rowid, rollback_abort_dependent
    <2> QED  BY <1>9, <2>1, <2>2, <2>3 DEF Rollback
  <1> QED  BY <1>4, <1>5, <1>6, <1>8, <1>9

LEMMA RewriterAloneStep ==
    ASSUME StoreTypeOK, LockInv, RewriterAlone, [Next]_vars
    PROVE  RewriterAlone'
  <1>1. CASE UNCHANGED vars
    BY <1>1 DEF vars, lockVars, RewriterAlone
  <1>2. ASSUME NEW t \in Txns, Locks(t)  PROVE RewriterAlone'
    <2>1. \A u \in Txns \ {t} : pager_commit_lock \in {NoTx, t} => pager_commit_lock # u
      BY MvStoreAssumption
    <2>2. pc[t] = "commit_end" => pager_commit_lock = t
      BY DEF LockInv, WritingLog
    <2> QED  BY <1>2, <2>1, <2>2 DEF Locks, RewriterAlone
  <1> QED  BY <1>1, <1>2, StepLocks DEF Next, Finished

-----------------------------------------------------------------------------
(* A speculative ending stays one: the creator is still to answer, has      *)
(* answered with abort_now, or is stamping its versions.                    *)
LEMMA SpeculationKept ==
    ASSUME DependencyInv, Tagged, [Next]_vars, NEW t \in Txns, NEW u \in Txns, t # u,
           NEW r \in Rows, MayTag(t, r), MayTag(u, r), Speculates(u, t)
    PROVE  Speculates(u, t)'
  <1> USE DEF DependencyInv
  <1>0. /\ u \in txs /\ pc[t] \in TaggingPcs /\ pc[u] \in TaggingPcs
        /\ pc[t] \in LoopPcs => todo[t] # {}
        /\ pc[u] \in LoopPcs => todo[u] # {}
    BY DEF MayTag
  <1>1. CASE UNCHANGED vars
    BY <1>1 DEF vars, depVars, Speculates
  <1>2. ASSUME NEW x \in Txns, Moves(x)  PROVE Speculates(u, t)'
    BY <1>2 DEF Moves, Speculates
  <1>3. ASSUME NEW x \in Txns, NEW q \in Rows, RowStatement(x, q)  PROVE Speculates(u, t)'
    <2>1. /\ RegistersOn(x, TaggingTxns)
          /\ pc[x] = "active" /\ pc' \in {pc, [pc EXCEPT ![x] = "rollback"]}
      BY <1>3, StatementRegisters
    <2>2. pc[t] = "rewrite" => pc'[t] = "rewrite"
      BY <2>1 DEF StoreTypeOK
    <2> QED  BY <2>1, <2>2 DEF RegistersOn, Speculates
  <1>4. ASSUME NEW x \in Txns, Takes(x)  PROVE Speculates(u, t)'
    <2>1. CASE x = t
      <3>1. pc[t] = "rb_unlock"
        BY <1>0, <1>4, <2>1 DEF Takes, LoopPcs
      <3>2. dependents[t] = {}
        BY <3>1 DEF NotifyingOnly
      <3>3. u \in commit_dep_set[t] \/ abort_now[u]
        BY <3>1, <3>2 DEF Speculates
      <3>4. dependents'[t] = commit_dep_set[t] /\ abort_now' = abort_now
        BY <1>4, <2>1 DEF Takes, StoreTypeOK
      <3> QED  BY <3>3, <3>4 DEF Speculates
    <2>2. CASE x # t
      <3>1. /\ dependents'[t] = dependents[t] /\ commit_dep_set'[t] = commit_dep_set[t]
            /\ abort_now' = abort_now /\ pc'[t] = pc[t]
        BY <1>4, <2>2 DEF Takes, StoreTypeOK
      <3> QED  BY <3>1 DEF Speculates
    <2> QED  BY <2>1, <2>2
  <1>5. ASSUME NEW x \in Txns, NEW d \in Txns, Pays(x, d)  PROVE Speculates(u, t)'
    <2>1. \A e \in Txns : abort_now[e] => abort_now'[e]
      <3>1. abort_now' = abort_now \/ abort_now' = [abort_now EXCEPT ![d] = TRUE]
        BY <1>5 DEF Pays
      <3> QED  BY <3>1 DEF StoreTypeOK
    <2>2. UNCHANGED <<commit_dep_set, pc>>
      BY <1>5 DEF Pays
    <2>3. u \in dependents[t] => u \in dependents'[t] \/ abort_now'[u]
      <3>1. CASE x = t /\ d = u
        <4>1. pc[t] # "notify"
          BY <1>0 DEF TaggingPcs
        <4>2. dependents' = dependents \/ abort_now' = [abort_now EXCEPT ![u] = TRUE]
          BY <1>0, <1>5, <3>1, <4>1 DEF Pays
        <4> QED  BY <4>2 DEF StoreTypeOK
      <3>2. CASE x # t \/ d # u
        <4>1. dependents' \in {dependents, [dependents EXCEPT ![x] = @ \ {d}]}
          BY <1>5 DEF Pays
        <4>2. dependents \in [Txns -> SUBSET Txns]
          BY DEF StoreTypeOK
        <4>3. dependents'[t] = dependents[t] \/ (x = t /\ dependents'[t] = dependents[t] \ {d})
          BY <4>1, <4>2
        <4> QED  BY <3>2, <4>3
      <3> QED  BY <3>1, <3>2
    <2> QED  BY <2>1, <2>2, <2>3 DEF Speculates
  <1>6. ASSUME NEW x \in Txns, Drops(x)  PROVE Speculates(u, t)'
    <2>1. x # t /\ x # u
      BY <1>0, <1>6 DEF Drops, LoopPcs
    <2>2. abort_now'[u] = abort_now[u] /\ pc'[t] = pc[t] /\ UNCHANGED <<commit_dep_set, dependents>>
      BY <1>6, <2>1 DEF Drops, StoreTypeOK
    <2> QED  BY <2>2 DEF Speculates
  <1> QED  BY <1>1, <1>2, <1>3, <1>4, <1>5, <1>6, StepKinds, DebtSteps

(* A chain changes by a writing statement or a visit.                       *)
LEMMA ChainSteps ==
    ASSUME [Next]_vars
    PROVE  \/ UNCHANGED versions /\ \A t \in Txns, r \in Rows : ~Visits(t, r)
           \/ \E t \in Txns, r \in Rows : Writes(t, r) \/ Visits(t, r)
  <1>1. CASE UNCHANGED vars
    BY <1>1 DEF vars
  <1>2. ASSUME NEW t \in Txns,
               \/ Begin(t) \/ commit_initial(t) \/ abandon(t) \/ rollback_tx(t)
        PROVE  UNCHANGED versions
    BY <1>2 DEF Begin, begin_tx, begin_exclusive_tx, upgrade_to_exclusive,
                acquire_exclusive_tx, acquire_pager_commit_lock, commit_initial, abandon,
                rollback_tx
  <1>3. ASSUME NEW t \in Txns, Statement(t)
        PROVE  UNCHANGED versions \/ \E r \in Rows : Writes(t, r)
    BY <1>3 DEF Statement, with_header_mut, read_visible, read_btree, write_conflict, Writes
  <1>4. ASSUME NEW t \in Txns, Commit(t)
        PROVE  UNCHANGED versions \/ \E r \in Rows : Visits(t, r)
    BY <1>4 DEF Commit, commit_check_exclusive, commit_validate_none, wait_for_dependencies,
                wait_recheck_abort_now, commit_read_only, begin_commit_logical_log,
                sync_logical_log, commit_end, commit_take_dependents, commit_unlock,
                commit_publish, commit_remove, commit_release_exclusive, commit_validate,
                build_committed_log_record, commit_notify, Visits
  <1>5. ASSUME NEW t \in Txns, Rollback(t)
        PROVE  UNCHANGED versions \/ \E r \in Rows : Visits(t, r)
    BY <1>5 DEF Rollback, rollback_take_dependents, rollback_release_dependent,
                rollback_release_exclusive, rollback_terminate, rollback_abort_dependent, Visits
  <1> QED  BY <1>1, <1>2, <1>3, <1>4, <1>5 DEF Next, Finished

(* A writing statement gives its transaction the right to be in the chain   *)
(* and takes it from nobody; a visit ends the right of the one that visits. *)
LEMMA TagsOfWrites ==
    ASSUME StoreTypeOK, PcMatchesState, NEW t \in Txns, NEW r \in Rows, Writes(t, r)
    PROVE  /\ MayTag(t, r)'
           /\ \A u \in Txns, q \in Rows : MayTag(u, q) => MayTag(u, q)'
  <1>1. /\ UNCHANGED <<txs, todo, pc>> /\ pc[t] = "active"
        /\ write_set' = [write_set EXCEPT ![t] = @ \cup {r}]
    BY DEF Writes, update, insert, delete, insert_tombstone, StatementFrame, storeVars,
           CanWrite, CanRead, WriteSetAdd
  <1>2. t \in txs
    BY <1>1 DEF PcMatchesState
  <1>3. r \in write_set'[t] /\ \A u \in Txns, q \in Rows : q \in write_set[u] => q \in write_set'[u]
    BY <1>1 DEF StoreTypeOK
  <1> QED  BY <1>1, <1>2, <1>3 DEF MayTag, TaggingPcs, LoopPcs

LEMMA TagsOfVisits ==
    ASSUME StoreTypeOK, NEW t \in Txns, NEW r \in Rows, Visits(t, r)
    PROVE  \A u \in Txns, q \in Rows : (u # t \/ q # r) /\ MayTag(u, q) => MayTag(u, q)'
  <1>1. UNCHANGED <<txs, write_set, pc>> /\ todo' = [todo EXCEPT ![t] = @ \ {r}]
    BY DEF Visits, rewrite_live_versions, rollback_rowid, storeVars, opVars
  <1>2. \A u \in Txns, q \in Rows : (u # t \/ q # r) /\ q \in todo[u] => q \in todo'[u]
    <2>1. todo \in [Txns -> SUBSET Rows]
      BY DEF StoreTypeOK
    <2>2. \A u \in Txns : todo'[u] = todo[u] \/ (u = t /\ todo'[u] = todo[u] \ {r})
      BY <1>1, <2>1
    <2> QED  BY <2>2
  <1> QED  BY <1>1, <1>2 DEF MayTag

(* What a visit makes of the chains.                                        *)
VisitedBy(t, r) ==
    /\ \A q \in Rows : q # r => versions'[q] = versions[q]
    /\ Len(versions'[r]) = Len(versions[r])
    /\ \/ pc[t] = "rewrite" /\ \A i \in 1 .. Len(versions[r]) :
                                 Stamped(t, versions[r][i], versions'[r][i])
       \/ pc[t] = "rb_undo" /\ \A i \in 1 .. Len(versions[r]) :
                                 Undone(t, versions[r][i], versions'[r][i])

LEMMA VisitedChain ==
    ASSUME StoreTypeOK, NEW t \in Txns, NEW r \in Rows, Visits(t, r)
    PROVE  VisitedBy(t, r)
  <1>1. versions \in [Rows -> Seq(RowVersion)] /\ versions[r] \in Seq(RowVersion)
    BY DEF StoreTypeOK
  <1>2. CASE rewrite_live_versions(t, r)
    <2>1. PICK c : c = MapChain(versions[r], LAMBDA rv : to_timestamps(t, rv))
      OBVIOUS
    <2>2. pc[t] = "rewrite" /\ versions' = [versions EXCEPT ![r] = c]
      BY <1>2, <2>1 DEF rewrite_live_versions
    <2>3. versions'[r] = c /\ \A q \in Rows : q # r => versions'[q] = versions[q]
      BY <1>1, <2>2
    <2>4. /\ Len(c) = Len(versions[r])
          /\ \A i \in 1 .. Len(versions[r]) : Stamped(t, versions[r][i], c[i])
      BY <1>1, <2>1, MappedChain
    <2> QED  BY <2>2, <2>3, <2>4 DEF VisitedBy
  <1>3. CASE rollback_rowid(t, r)
    <2>1. PICK c : c = MapChain(versions[r], LAMBDA rv : rollback_row_version(t, rv))
      OBVIOUS
    <2>2. pc[t] = "rb_undo" /\ versions' = [versions EXCEPT ![r] = c]
      BY <1>3, <2>1 DEF rollback_rowid
    <2>3. versions'[r] = c /\ \A q \in Rows : q # r => versions'[q] = versions[q]
      BY <1>1, <2>2
    <2>4. /\ Len(c) = Len(versions[r])
          /\ \A i \in 1 .. Len(versions[r]) : Undone(t, versions[r][i], c[i])
      BY <1>1, <2>1, MappedChain
    <2> QED  BY <2>2, <2>3, <2>4 DEF VisitedBy
  <1> QED  BY <1>2, <1>3 DEF Visits

(* The ids a visit leaves in a version were there, and are not its own.     *)
LEMMA VisitLeavesOthers ==
    ASSUME NEW t \in Txns, NEW v, NEW w, Stamped(t, v, w) \/ Undone(t, v, w), NEW u \in Txns
    PROVE  /\ w.begin = TxID(u) => v.begin = TxID(u) /\ u # t
           /\ w.end = TxID(u) => v.end = TxID(u) /\ u # t
  BY StampsDiffer DEF Stamped, Undone

LEMMA TaggedStep ==
    ASSUME StoreTypeOK, PcMatchesState, Tagged, [Next]_vars
    PROVE  Tagged'
  <1> DEFINE Kept(r) == \A i \in 1 .. Len(versions'[r]) : \A u \in Txns :
                          touched(u, versions'[r][i]) => MayTag(u, r)'
  <1>1. SUFFICES ASSUME NEW r \in Rows PROVE Kept(r)
    BY DEF Tagged, touched
  <1>2. ASSUME versions'[r] = versions[r], \A u \in Txns : MayTag(u, r) => MayTag(u, r)'
        PROVE  Kept(r)
    BY <1>2 DEF Tagged
  <1>3. CASE UNCHANGED versions /\ \A t \in Txns, q \in Rows : ~Visits(t, q)
    BY <1>2, <1>3, MayTagKept
  <1>4. ASSUME NEW t \in Txns, NEW q \in Rows, Writes(t, q)  PROVE Kept(r)
    <2>1. WrittenBy(t, q) /\ MayTag(t, q)' /\ \A u \in Txns : MayTag(u, r) => MayTag(u, r)'
      BY <1>4, WrittenChain, TagsOfWrites
    <2>2. CASE r # q
      BY <1>2, <2>1, <2>2 DEF WrittenBy
    <2>3. CASE r = q
      <3>1. ASSUME NEW k \in 1 .. Len(versions'[r]), NEW u \in Txns, touched(u, versions'[r][k])
            PROVE  MayTag(u, r)'
        <4>1. PICK w : w = versions'[r][k]
          OBVIOUS
        <4>2. WrittenFrom(t, versions[r], w)
          BY <2>1, <2>3, <3>1, <4>1 DEF WrittenBy
        <4>3. CASE Fresh(t, w)
          <5>1. u = t
            BY <3>1, <4>1, <4>3, StampsDiffer DEF Fresh, touched
          <5> QED  BY <2>1, <2>3, <5>1
        <4>4. ASSUME NEW j \in 1 .. Len(versions[r]),
                     w = versions[r][j] \/ EndedBy(t, versions[r][j], w)
              PROVE  MayTag(u, r)'
          <5>1. touched(u, versions[r][j]) \/ u = t
            BY <3>1, <4>1, <4>4, StampsDiffer DEF EndedBy, touched
          <5> QED  BY <2>1, <2>3, <5>1 DEF Tagged
        <4> QED  BY <4>2, <4>3, <4>4 DEF WrittenFrom
      <3> QED  BY <3>1
    <2> QED  BY <2>2, <2>3
  <1>5. ASSUME NEW t \in Txns, NEW q \in Rows, Visits(t, q)  PROVE Kept(r)
    <2>1. VisitedBy(t, q) /\ \A u \in Txns : (u # t \/ r # q) /\ MayTag(u, r) => MayTag(u, r)'
      BY <1>5, VisitedChain, TagsOfVisits
    <2>2. CASE r # q
      BY <1>2, <2>1, <2>2 DEF VisitedBy
    <2>3. CASE r = q
      <3>1. ASSUME NEW k \in 1 .. Len(versions'[r]), NEW u \in Txns, touched(u, versions'[r][k])
            PROVE  MayTag(u, r)'
        <4>1. PICK v, w : v = versions[r][k] /\ w = versions'[r][k]
          OBVIOUS
        <4>2. k \in 1 .. Len(versions[r]) /\ (Stamped(t, v, w) \/ Undone(t, v, w))
          BY <2>1, <2>3, <3>1, <4>1 DEF VisitedBy
        <4>3. touched(u, v) /\ u # t
          BY <3>1, <4>1, <4>2, VisitLeavesOthers DEF touched
        <4> QED  BY <2>1, <4>1, <4>2, <4>3 DEF Tagged
      <3> QED  BY <3>1
    <2> QED  BY <2>2, <2>3
  <1> QED  BY <1>3, <1>4, <1>5, ChainSteps

LEMMA EndedSpeculativelyStep ==
    ASSUME DependencyInv, Tagged, EndedSpeculatively, [Next]_vars
    PROVE  EndedSpeculatively'
  <1> USE DEF DependencyInv
  <1>1. SUFFICES ASSUME NEW r \in Rows, NEW k \in 1 .. Len(versions'[r]), NEW t \in Txns,
                        NEW u \in Txns, t # u, versions'[r][k].begin = TxID(t),
                        versions'[r][k].end = TxID(u)
                 PROVE  Speculates(u, t)'
    BY DEF EndedSpeculatively
  <1>2. PICK w : w = versions'[r][k]
    OBVIOUS
  <1>3. ASSUME NEW j \in 1 .. Len(versions[r]), versions[r][j].begin = TxID(t),
               versions[r][j].end = TxID(u)
        PROVE  Speculates(u, t)'
    <2>1. Speculates(u, t)
      BY <1>1, <1>3 DEF EndedSpeculatively
    <2>2. MayTag(t, r) /\ MayTag(u, r)
      BY <1>3 DEF Tagged, touched
    <2> QED  BY <1>1, <2>1, <2>2, SpeculationKept
  <1>4. CASE versions'[r] = versions[r]
    BY <1>1, <1>3, <1>4
  <1>5. ASSUME NEW x \in Txns, NEW q \in Rows, Writes(x, q)  PROVE Speculates(u, t)'
    <2>1. WrittenBy(x, q)
      BY <1>5, WrittenChain
    <2>2. CASE r # q
      BY <1>4, <2>1, <2>2 DEF WrittenBy
    <2>3. CASE r = q
      <3>1. WrittenFrom(x, versions[r], w)
        BY <1>1, <1>2, <2>1, <2>3 DEF WrittenBy
      <3>2. ~Fresh(x, w)
        BY <1>1, <1>2, StampsDiffer DEF Fresh
      <3>3. PICK j \in 1 .. Len(versions[r]) : w = versions[r][j] \/ EndedBy(x, versions[r][j], w)
        BY <3>1, <3>2 DEF WrittenFrom
      <3>4. CASE w = versions[r][j]
        BY <1>1, <1>2, <1>3, <3>4
      <3>5. CASE EndedBy(x, versions[r][j], w)
        <4>1. u = x /\ versions[r][j].begin = TxID(t)
          BY <1>1, <1>2, <3>5, StampsDiffer DEF EndedBy
        <4> QED  BY <1>1, <3>5, <4>1 DEF EndedBy
      <3> QED  BY <3>3, <3>4, <3>5
    <2> QED  BY <2>2, <2>3
  <1>6. ASSUME NEW x \in Txns, NEW q \in Rows, Visits(x, q)  PROVE Speculates(u, t)'
    <2>1. VisitedBy(x, q)
      BY <1>6, VisitedChain
    <2>2. CASE r # q
      BY <1>4, <2>1, <2>2 DEF VisitedBy
    <2>3. CASE r = q
      <3>1. PICK v : v = versions[r][k]
        OBVIOUS
      <3>2. k \in 1 .. Len(versions[r]) /\ (Stamped(x, v, w) \/ Undone(x, v, w))
        BY <1>1, <1>2, <2>1, <2>3, <3>1 DEF VisitedBy
      <3>3. v.begin = TxID(t) /\ v.end = TxID(u)
        BY <1>1, <1>2, <3>2, VisitLeavesOthers
      <3> QED  BY <1>3, <3>1, <3>2, <3>3
    <2> QED  BY <2>2, <2>3
  <1> QED  BY <1>4, <1>5, <1>6, ChainSteps

(* Who stamps an end has waited for the creator of the version: it is owed  *)
(* nothing, was not told to abort, and is alone in stamping.                *)
LEMMA StampsKnownBegin ==
    ASSUME StoreTypeOK, Tagged, Settled, RewriterAlone, EndedSpeculatively,
           NEW x \in Txns, pc[x] = "rewrite", NEW r \in Rows, NEW i \in 1 .. Len(versions[r]),
           versions[r][i].end = TxID(x), versions[r][i].begin.kind = "TxID"
    PROVE  versions[r][i].begin = TxID(x)
  <1>1. versions[r][i] \in RowVersion
    BY DEF StoreTypeOK
  <1>2. PICK t \in Txns : versions[r][i].begin = TxID(t)
    BY <1>1, TagsAreIds
  <1>3. SUFFICES ASSUME t # x PROVE FALSE
    BY <1>2
  <1>4. Speculates(x, t)
    BY <1>2, <1>3 DEF EndedSpeculatively
  <1>5. ~Owes(t, x) /\ ~abort_now[x]
    BY DEF Settled, SettledPcs
  <1>6. pc[t] # "rewrite"
    BY <1>3 DEF RewriterAlone
  <1> QED  BY <1>4, <1>5, <1>6 DEF Speculates, Owes

LEMMA StampedInOrderStep ==
    ASSUME StoreTypeOK, PcMatchesState, Tagged, Settled, RewriterAlone, EndedSpeculatively,
           StampedInOrder, [Next]_vars
    PROVE  StampedInOrder'
  <1>1. SUFFICES ASSUME NEW r \in Rows, NEW k \in 1 .. Len(versions'[r]),
                        versions'[r][k].end.kind = "Timestamp"
                 PROVE  versions'[r][k].begin.kind # "TxID"
    BY DEF StampedInOrder
  <1>2. PICK w : w = versions'[r][k]
    OBVIOUS
  <1>3. CASE versions'[r] = versions[r]
    BY <1>1, <1>3 DEF StampedInOrder
  <1>4. ASSUME NEW x \in Txns, NEW q \in Rows, Writes(x, q)  PROVE w.begin.kind # "TxID"
    <2>1. WrittenBy(x, q)
      BY <1>4, WrittenChain
    <2>2. CASE r # q
      BY <1>2, <1>3, <2>1, <2>2 DEF WrittenBy
    <2>3. CASE r = q
      <3>1. WrittenFrom(x, versions[r], w)
        BY <1>1, <1>2, <2>1, <2>3 DEF WrittenBy
      <3>2. ~Fresh(x, w)
        BY <1>1, <1>2, StampsDiffer DEF Fresh
      <3>3. PICK j \in 1 .. Len(versions[r]) : w = versions[r][j]
        BY <1>1, <1>2, <3>1, <3>2, StampsDiffer DEF WrittenFrom, EndedBy
      <3> QED  BY <1>1, <1>2, <3>3 DEF StampedInOrder
    <2> QED  BY <2>2, <2>3
  <1>5. ASSUME NEW x \in Txns, NEW q \in Rows, Visits(x, q)  PROVE w.begin.kind # "TxID"
    <2>1. VisitedBy(x, q)
      BY <1>5, VisitedChain
    <2>2. CASE r # q
      BY <1>2, <1>3, <2>1, <2>2 DEF VisitedBy
    <2>3. CASE r = q
      <3>1. PICK v : v = versions[r][k]
        OBVIOUS
      <3>2. /\ k \in 1 .. Len(versions[r])
            /\ (pc[x] = "rewrite" /\ Stamped(x, v, w)) \/ Undone(x, v, w)
        BY <1>1, <1>2, <2>1, <2>3, <3>1 DEF VisitedBy
      <3>3. CASE v.end.kind = "Timestamp"
        <4>1. v.begin.kind # "TxID"
          BY <3>1, <3>2, <3>3 DEF StampedInOrder
        <4> QED  BY <3>2, <4>1, StampsDiffer DEF Stamped, Undone
      <3>4. CASE v.end.kind # "Timestamp"
        <4>1. pc[x] = "rewrite" /\ Stamped(x, v, w) /\ v.end = TxID(x)
          BY <1>1, <1>2, <3>2, <3>4, StampsDiffer DEF Stamped, Undone
        <4>2. v.begin.kind = "TxID" => v.begin = TxID(x)
          BY <3>1, <3>2, <4>1, StampsKnownBegin
        <4> QED  BY <4>1, <4>2, StampsDiffer DEF Stamped
      <3> QED  BY <3>3, <3>4
    <2> QED  BY <2>2, <2>3
  <1> QED  BY <1>2, <1>3, <1>4, <1>5, ChainSteps

(* Hence no step takes away a version whose begin is a timestamp, though a  *)
(* deletion may change its end.                                             *)
LEMMA CommittedCreationsKept ==
    ASSUME StoreTypeOK, PcMatchesState, Tagged, [Next]_vars,
           NEW r \in Rows, NEW i \in 1 .. Len(versions[r]), versions[r][i].begin.kind = "Timestamp"
    PROVE  \E k \in 1 .. Len(versions'[r]) : SameCreation(versions[r][i], versions'[r][k])
  <1>1. PICK v : v = versions[r][i]
    OBVIOUS
  <1>2. CASE versions'[r] = versions[r]
    BY <1>2 DEF SameCreation
  <1>3. ASSUME NEW x \in Txns, NEW q \in Rows, Writes(x, q)
        PROVE  CreationsKept(r) \/ versions'[r] = versions[r]
    <2>1. WrittenBy(x, q)
      BY <1>3, WrittenChain
    <2> QED  BY <2>1 DEF WrittenBy
  <1>4. ASSUME NEW x \in Txns, NEW q \in Rows, Visits(x, q), q = r
        PROVE  i \in 1 .. Len(versions'[r]) /\ SameCreation(v, versions'[r][i])
    <2>1. VisitedBy(x, r)
      BY <1>4, VisitedChain
    <2>2. PICK w : w = versions'[r][i]
      OBVIOUS
    <2>3. i \in 1 .. Len(versions'[r]) /\ (Stamped(x, v, w) \/ Undone(x, v, w))
      BY <1>1, <2>1, <2>2 DEF VisitedBy
    <2>4. v.begin # TxID(x)
      BY <1>1, StampsDiffer
    <2> QED  BY <2>2, <2>3, <2>4 DEF Stamped, Undone, SameCreation
  <1>5. ASSUME NEW x \in Txns, NEW q \in Rows, Visits(x, q), q # r
        PROVE  versions'[r] = versions[r]
    BY <1>5, VisitedChain DEF VisitedBy
  <1>6. CreationsKept(r) =>
          \E k \in 1 .. Len(versions'[r]) : SameCreation(versions[r][i], versions'[r][k])
    BY DEF CreationsKept
  <1> QED  BY <1>1, <1>2, <1>3, <1>4, <1>5, <1>6, ChainSteps

(* Nor one whose end is a timestamp, and that stays as well.                *)
LEMMA StampedVersionsKept ==
    ASSUME StoreTypeOK, PcMatchesState, Tagged, StampedInOrder, [Next]_vars,
           NEW r \in Rows, NEW i \in 1 .. Len(versions[r]), versions[r][i].end.kind = "Timestamp"
    PROVE  \E k \in 1 .. Len(versions'[r]) :
             /\ versions'[r][k].row = versions[r][i].row
             /\ versions'[r][k].begin = versions[r][i].begin
             /\ versions'[r][k].end = versions[r][i].end
  <1>1. PICK v : v = versions[r][i]
    OBVIOUS
  <1>2. CASE versions'[r] = versions[r]
    BY <1>2
  <1>3. ASSUME NEW x \in Txns, NEW q \in Rows, Writes(x, q)
        PROVE  \E k \in 1 .. Len(versions'[r]) : versions'[r][k] = v
    <2>1. WrittenBy(x, q)
      BY <1>3, WrittenChain
    <2> QED  BY <1>1, <2>1 DEF WrittenBy
  <1>4. ASSUME NEW x \in Txns, NEW q \in Rows, Visits(x, q), q = r
        PROVE  /\ i \in 1 .. Len(versions'[r])
               /\ versions'[r][i].row = v.row
               /\ versions'[r][i].begin = v.begin /\ versions'[r][i].end = v.end
    <2>1. VisitedBy(x, r)
      BY <1>4, VisitedChain
    <2>2. PICK w : w = versions'[r][i]
      OBVIOUS
    <2>3. i \in 1 .. Len(versions'[r]) /\ (Stamped(x, v, w) \/ Undone(x, v, w))
      BY <1>1, <2>1, <2>2 DEF VisitedBy
    <2>4. v.begin # TxID(x) /\ v.end # TxID(x)
      BY <1>1, StampsDiffer DEF StampedInOrder
    <2> QED  BY <2>2, <2>3, <2>4 DEF Stamped, Undone
  <1>5. ASSUME NEW x \in Txns, NEW q \in Rows, Visits(x, q), q # r
        PROVE  versions'[r] = versions[r]
    BY <1>5, VisitedChain DEF VisitedBy
  <1> QED  BY <1>1, <1>2, <1>3, <1>4, <1>5, ChainSteps

-----------------------------------------------------------------------------
(* The invariant of the chains, and what follows from it.                   *)

ChainInv ==
    /\ CommitLogInv
    /\ Tagged /\ WritersOwe /\ Settled /\ RewriterAlone
    /\ EndedSpeculatively /\ StampedInOrder

LEMMA ChainInit == Init => ChainInv
  <1> SUFFICES ASSUME Init PROVE ChainInv
    OBVIOUS
  <1>1. CommitLogInv
    BY CommitLogInit
  <1>2. \A r \in Rows : 1 .. Len(versions[r]) = {}
    <2>1. \A r \in Rows : versions[r] = <<>>
      BY DEF Init
    <2>2. Len(<<>>) = 0 /\ 1 .. 0 = {}
      OBVIOUS
    <2> QED  BY <2>1, <2>2
  <1>3. Tagged /\ EndedSpeculatively /\ StampedInOrder
    BY <1>2 DEF Tagged, EndedSpeculatively, StampedInOrder
  <1>4. WritersOwe /\ Settled /\ RewriterAlone
    BY DEF Init, WritersOwe, Settled, SettledPcs, RewriterAlone
  <1> QED  BY <1>1, <1>3, <1>4 DEF ChainInv

LEMMA ChainStep ==
    ASSUME ChainInv, [Next]_vars
    PROVE  ChainInv'
  <1>1. /\ CommitLogInv /\ DependencyInv /\ LockInv /\ StoreTypeOK /\ PcMatchesState
        /\ Tagged /\ WritersOwe /\ Settled /\ RewriterAlone
        /\ EndedSpeculatively /\ StampedInOrder
    BY DEF ChainInv, CommitLogInv, DependencyInv
  <1>2. CommitLogInv'
    BY <1>1, CommitLogStep
  <1>3. Tagged' /\ EndedSpeculatively'
    BY <1>1, TaggedStep, EndedSpeculativelyStep
  <1>4. WritersOwe' /\ Settled' /\ RewriterAlone'
    BY <1>1, WritersOweStep, SettledStep, RewriterAloneStep
  <1>5. StampedInOrder'
    BY <1>1, StampedInOrderStep
  <1> QED  BY <1>2, <1>3, <1>4, <1>5 DEF ChainInv

(* Whatever transaction id a chain holds can be looked up in txs: neither   *)
(* commit nor rollback leaves the map before it has visited every row of    *)
(* its write set, so the expect() of resolve_begin_timestamp and of         *)
(* check_version_conflicts never fails.                                     *)
THEOREM ChainsResolve == Spec => []NoDanglingTxID
  <1>1. ASSUME ChainInv  PROVE NoDanglingTxID
    <2>1. ASSUME NEW r \in Rows, NEW i \in 1 .. Len(versions[r])
          PROVE  /\ versions[r][i].begin.kind = "TxID" => versions[r][i].begin.v \in txs
                 /\ versions[r][i].end.kind = "TxID" => versions[r][i].end.v \in txs
      <3>1. StoreTypeOK /\ Tagged
        BY <1>1 DEF ChainInv, CommitLogInv, DependencyInv
      <3>2. PICK rv : rv = versions[r][i]
        OBVIOUS
      <3>3. rv \in RowVersion
        BY <3>1, <3>2 DEF StoreTypeOK
      <3>4. \A u \in Txns : rv.begin = TxID(u) \/ rv.end = TxID(u) => u \in txs
        BY <3>1, <3>2 DEF Tagged, touched, MayTag
      <3> QED  BY <3>2, <3>3, <3>4, TagsAreIds
    <2> QED  BY <2>1 DEF NoDanglingTxID
  <1>2. ChainInv /\ [Next]_vars => ChainInv'
    BY ChainStep
  <1> QED  BY ChainInit, <1>1, <1>2, PTL DEF Spec

(* Nobody is left waiting in the commit_dep_set of a transaction that does  *)
(* not notify any more: a reader has no dependents at all, and a writer     *)
(* takes the set on its way out (the assertions of remove_tx and of the     *)
(* read-only commit).                                                       *)
THEOREM DependentsAreDrained == Spec => []DependentsDrained
  <1>1. ChainInv => DependentsDrained
    BY DEF ChainInv, WritersOwe, OwingPcs, DependentsDrained
  <1>2. ChainInv /\ [Next]_vars => ChainInv'
    BY ChainStep
  <1> QED  BY ChainInit, <1>1, <1>2, PTL DEF Spec

(* No step, of whichever transaction, takes a version with a begin or an    *)
(* end timestamp out of its chain or changes its row or such a timestamp:   *)
(* neither rollback_row_version nor rewrite_live_versions_to_timestamps of  *)
(* another transaction, nor a later writer, undoes a committed creation or  *)
(* a committed deletion.                                                    *)
THEOREM CommittedVersionsAreKept == Spec => CommittedVersionsStay
  <1>1. ASSUME ChainInv, [Next]_vars
        PROVE  CommittedCreations \subseteq CommittedCreations' /\ StampedVersions \subseteq StampedVersions'
    <2>1. StoreTypeOK /\ PcMatchesState /\ Tagged /\ StampedInOrder
      BY <1>1 DEF ChainInv, CommitLogInv, DependencyInv
    <2>2. ASSUME NEW x \in StampedVersions  PROVE x \in StampedVersions'
      <3>0. PICK r \in Rows : \E i \in 1 .. Len(versions[r]) :
              /\ versions[r][i].end.kind = "Timestamp"
              /\ x = <<r, versions[r][i].row, versions[r][i].begin, versions[r][i].end>>
        BY <2>2 DEF StampedVersions
      <3>1. PICK i \in 1 .. Len(versions[r]) :
              /\ versions[r][i].end.kind = "Timestamp"
              /\ x = <<r, versions[r][i].row, versions[r][i].begin, versions[r][i].end>>
        BY <3>0
      <3>2. PICK k \in 1 .. Len(versions'[r]) :
              /\ versions'[r][k].row = versions[r][i].row
              /\ versions'[r][k].begin = versions[r][i].begin
              /\ versions'[r][k].end = versions[r][i].end
        BY <1>1, <2>1, <3>1, StampedVersionsKept
      <3> QED  BY SMTT(40), <3>1, <3>2 DEF StampedVersions
    <2>3. ASSUME NEW x \in CommittedCreations  PROVE x \in CommittedCreations'
      <3>0. PICK r \in Rows : \E i \in 1 .. Len(versions[r]) :
              /\ versions[r][i].begin.kind = "Timestamp"
              /\ x = <<r, versions[r][i].row, versions[r][i].begin>>
        BY <2>3 DEF CommittedCreations
      <3>1. PICK i \in 1 .. Len(versions[r]) :
              /\ versions[r][i].begin.kind = "Timestamp"
              /\ x = <<r, versions[r][i].row, versions[r][i].begin>>
        BY <3>0
      <3>2. PICK k \in 1 .. Len(versions'[r]) : SameCreation(versions[r][i], versions'[r][k])
        BY <1>1, <2>1, <3>1, CommittedCreationsKept
      <3> QED  BY SMTT(40), <3>1, <3>2 DEF CommittedCreations, SameCreation
    <2> QED  BY <2>2, <2>3
  <1>2. ChainInv /\ [Next]_vars => ChainInv'
    BY ChainStep
  <1>3. ChainInv /\ [Next]_vars =>
          [CommittedCreations \subseteq CommittedCreations' /\ StampedVersions \subseteq StampedVersions']_vars
    BY <1>1
  <1> QED  BY ChainInit, <1>2, <1>3, PTL DEF Spec, CommittedVersionsStay

-----------------------------------------------------------------------------
(* First committer wins.  How a step of t treats the timestamps, the write  *)
(* sets and the validation: nobody else is concerned, and t draws its begin *)
(* timestamp, draws its end timestamp, is dropped, or keeps both.           *)

OthersStay(t) ==
    \A u \in Txns \ {t} :
      /\ begin_ts'[u] = begin_ts[u] /\ end_ts'[u] = end_ts[u] /\ state'[u] = state[u]
      /\ write_set'[u] = write_set[u] /\ wrote'[u] = wrote[u]
      /\ pc'[u] = pc[u] /\ todo'[u] = todo[u]

Begins(t) ==
    /\ pc[t] = "idle" /\ pc'[t] \in {"active", "acquire_exclusive"}
    /\ begin_ts'[t] = clock /\ end_ts'[t] = end_ts[t] /\ clock' = clock + 1
    /\ state'[t] \in {state[t], "Active"}
    /\ write_set'[t] = write_set[t] /\ wrote'[t] = wrote[t]

Prepares(t) ==
    /\ pc[t] = "active" /\ state'[t] = "Preparing"
    /\ begin_ts'[t] = begin_ts[t] /\ end_ts'[t] = clock /\ clock' = clock + 1
    /\ write_set'[t] = write_set[t] /\ wrote'[t] = wrote[t] /\ todo'[t] = write_set[t]
    /\ pc'[t] = "commit" \/ (pc'[t] = "wait" /\ write_set[t] = {})

Ends(t) ==
    /\ pc[t] = "rb_undo" /\ todo[t] = {} /\ pc'[t] = "done" /\ state'[t] = "Terminated"
    /\ begin_ts'[t] = 0 /\ end_ts'[t] = 0 /\ clock' = clock
    /\ write_set'[t] = {} /\ \A r \in Rows : wrote'[t][r] = Unwritten

(* The rows of its write set that a commit has validated.                   *)
ValidatedPcs == {"wait", "wait_recheck", "read_only", "build", "sync", "commit_end"}

Validated(u, r) ==
    /\ r \in write_set[u]
    /\ \/ pc[u] = "validate" /\ r \notin todo[u]
       \/ pc[u] \in ValidatedPcs
       \/ state[u] = "Committed"

Validates(t, r) ==
    pc[t] = "validate" /\ r \in todo[t] /\ ~check_version_conflicts(t, r)

Advances(t) ==
    /\ pc'[t] # "commit"
    /\ \/ state'[t] = state[t]
       \/ state'[t] = "Active" /\ pc[t] = "acquire_commit_lock"
       \/ state'[t] = "Committed" /\ pc[t] \in {"read_only", "commit_end"}
       \/ state'[t] = "Aborted" /\ pc[t] = "rollback"
    /\ \A r \in Rows : Validated(t, r)' => Validated(t, r) \/ Validates(t, r)

Keeps(t) ==
    /\ begin_ts'[t] = begin_ts[t] /\ end_ts'[t] = end_ts[t] /\ clock' = clock
    /\ \/ write_set'[t] = write_set[t] /\ wrote'[t] = wrote[t]
       \/ \E r \in Rows : Writes(t, r)
    /\ Advances(t)

Dates(t) == OthersStay(t) /\ (Begins(t) \/ Prepares(t) \/ Ends(t) \/ Keeps(t))

(* What is in the write set is what the history says was written, and a     *)
(* commit starts to validate with all of it.                                *)
WritesRegistered ==
    \A t \in Txns :
      /\ \A r \in Rows : wrote[t][r] # Unwritten => r \in write_set[t]
      /\ pc[t] = "commit" => todo[t] = write_set[t]

LEMMA StepOfOne ==
    ASSUME StoreTypeOK, NEW t \in Txns,
           \/ Begin(t) \/ Statement(t) \/ commit_initial(t) \/ Commit(t)
           \/ abandon(t) \/ rollback_tx(t) \/ Rollback(t)
    PROVE  OthersStay(t)
  <1> USE DEF storeVars, opVars, CommitFrame
  <1>1. /\ pc' = pc \/ \E to : pc' = [pc EXCEPT ![t] = to]
        /\ todo' = todo \/ \E S : todo' = [todo EXCEPT ![t] = S]
        /\ write_set' = write_set \/ \E S : write_set' = [write_set EXCEPT ![t] = S]
    BY AnyStepMovesAlone
  <1>2. /\ begin_ts' = begin_ts \/ \E n : begin_ts' = [begin_ts EXCEPT ![t] = n]
        /\ end_ts' = end_ts \/ \E n : end_ts' = [end_ts EXCEPT ![t] = n]
        /\ state' = state \/ \E s : state' = [state EXCEPT ![t] = s]
        /\ wrote' = wrote \/ \E f : wrote' = [wrote EXCEPT ![t] = f]
    <2>1. CASE Begin(t)
      BY <2>1 DEF Begin, begin_tx, begin_exclusive_tx, upgrade_to_exclusive,
                  acquire_exclusive_tx, acquire_pager_commit_lock
    <2>2. CASE Statement(t)
      <3>1. UNCHANGED <<begin_ts, end_ts, state>>
        BY <2>2 DEF Statement, StatementFrame, with_header_mut, read_visible, read_btree,
                    write_conflict, update, insert, delete, insert_tombstone
      <3>2. wrote' = wrote \/ \E f : wrote' = [wrote EXCEPT ![t] = f]
        BY <2>2 DEF Statement, StatementFrame, with_header_mut, read_visible, read_btree,
                    write_conflict, update, insert, delete, insert_tombstone, WriteSetAdd
      <3> QED  BY <3>1, <3>2
    <2>3. CASE commit_initial(t) \/ abandon(t) \/ rollback_tx(t)
      BY <2>3 DEF commit_initial, abandon, rollback_tx
    <2>4. CASE Commit(t)
      BY <2>4 DEF Commit, commit_check_exclusive, commit_validate_none, wait_for_dependencies,
                  wait_recheck_abort_now, commit_read_only, begin_commit_logical_log,
                  sync_logical_log, commit_end, commit_take_dependents, commit_unlock,
                  commit_publish, commit_remove, remove_tx, commit_release_exclusive,
                  commit_validate, build_committed_log_record, rewrite_live_versions,
                  commit_notify
    <2>5. CASE Rollback(t)
      BY <2>5 DEF Rollback, rollback_take_dependents, rollback_release_dependent,
                  rollback_release_exclusive, rollback_terminate, remove_tx, rollback_rowid,
                  rollback_abort_dependent
    <2> QED  BY <2>1, <2>2, <2>3, <2>4, <2>5
  <1>3. \A u \in Txns \ {t} : /\ begin_ts'[u] = begin_ts[u] /\ end_ts'[u] = end_ts[u]
                              /\ state'[u] = state[u] /\ wrote'[u] = wrote[u]
    BY <1>2 DEF StoreTypeOK
  <1>4. \A u \in Txns \ {t} : /\ write_set'[u] = write_set[u] /\ pc'[u] = pc[u]
                              /\ todo'[u] = todo[u]
    BY <1>1 DEF StoreTypeOK
  <1> QED  BY <1>3, <1>4 DEF OthersStay

LEMMA QuietKeeps ==
    ASSUME NEW t \in Txns, UNCHANGED <<begin_ts, end_ts, clock, write_set, wrote, state>>,
           pc'[t] \notin {"commit", "validate"},
           pc'[t] \in ValidatedPcs => pc[t] \in ValidatedPcs
    PROVE  Keeps(t)
  BY DEF Keeps, Advances, Validated

LEMMA BeginDates ==
    ASSUME StoreTypeOK, PcMatchesState, NEW t \in Txns, Begin(t)
    PROVE  Begins(t) \/ Keeps(t)
  <1> USE DEF storeVars, opVars, Goto, ValidatedPcs
  <1>1. CASE begin_tx(t) \/ begin_exclusive_tx(t)
    <2>1. /\ pc[t] = "idle"
          /\ \/ pc' = [pc EXCEPT ![t] = "active"]
             \/ pc' = [pc EXCEPT ![t] = "acquire_exclusive"]
          /\ begin_ts' = [begin_ts EXCEPT ![t] = clock] /\ clock' = clock + 1
          /\ state' \in {state, [state EXCEPT ![t] = "Active"]}
          /\ UNCHANGED <<end_ts, write_set, wrote>>
      BY <1>1 DEF begin_tx, begin_exclusive_tx
    <2> QED  BY <2>1 DEF Begins, StoreTypeOK
  <1>2. CASE upgrade_to_exclusive(t) \/ acquire_exclusive_tx(t)
    <2>1. /\ UNCHANGED <<begin_ts, end_ts, clock, write_set, wrote, state>>
          /\ \E to \in {"acquire_exclusive", "acquire_commit_lock", "active", "done"} :
               pc' = [pc EXCEPT ![t] = to]
      BY <1>2 DEF upgrade_to_exclusive, acquire_exclusive_tx, Refused
    <2>2. pc'[t] \in {"acquire_exclusive", "acquire_commit_lock", "active", "done"}
      BY <2>1 DEF StoreTypeOK
    <2> QED  BY <2>1, <2>2, QuietKeeps
  <1>3. CASE acquire_pager_commit_lock(t)
    <2>1. /\ UNCHANGED <<begin_ts, end_ts, clock, write_set, wrote>>
          /\ pc[t] = "acquire_commit_lock"
          /\ \E to \in {"active", "done"} : pc' = [pc EXCEPT ![t] = to]
          /\ state' \in {state, [state EXCEPT ![t] = "Active"]}
      BY <1>3 DEF acquire_pager_commit_lock, Refused
    <2>2. pc'[t] \in {"active", "done"} /\ state'[t] \in {state[t], "Active"}
      BY <2>1 DEF StoreTypeOK
    <2>3. state[t] \in {"Unborn", "Active"}
      BY <2>1 DEF PcMatchesState
    <2>4. \A r \in Rows : ~Validated(t, r)'
      BY <2>2, <2>3 DEF Validated
    <2> QED  BY <2>1, <2>2, <2>4 DEF Keeps, Advances
  <1> QED  BY <1>1, <1>2, <1>3 DEF Begin

LEMMA StatementDates ==
    ASSUME StoreTypeOK, PcMatchesState, NEW t \in Txns, Statement(t)
    PROVE  Keeps(t)
  <1> USE DEF storeVars, opVars, Goto, ValidatedPcs
  <1>1. /\ UNCHANGED <<begin_ts, end_ts, clock, state>> /\ pc[t] = "active"
        /\ pc' = pc \/ pc' = [pc EXCEPT ![t] = "rollback"]
    BY DEF Statement, StatementFrame, with_header_mut, read_visible, read_btree,
           write_conflict, update, insert, delete, insert_tombstone, CanWrite, CanRead
  <1>2. \/ write_set' = write_set /\ wrote' = wrote
        \/ \E r \in Rows : Writes(t, r)
    BY DEF Statement, with_header_mut, read_visible, read_btree, write_conflict, Writes
  <1>3. state[t] = "Active" /\ pc'[t] \in {"active", "rollback"}
    BY <1>1 DEF PcMatchesState, StoreTypeOK
  <1>4. \A r \in Rows : ~Validated(t, r)'
    BY <1>1, <1>3 DEF Validated
  <1> QED  BY <1>1, <1>2, <1>3, <1>4 DEF Keeps, Advances

LEMMA CommitDates ==
    ASSUME StoreTypeOK, PcMatchesState, WritesRegistered, NEW t \in Txns,
           commit_initial(t) \/ Commit(t)
    PROVE  Prepares(t) \/ Keeps(t)
  <1> USE DEF storeVars, opVars, Goto, CommitFrame
  <1>0. /\ pc \in [Txns -> ProgramCounter] /\ state \in [Txns -> TransactionState]
        /\ todo \in [Txns -> SUBSET Rows] /\ end_ts \in [Txns -> Nat]
    BY DEF StoreTypeOK
  <1>1. ASSUME NEW to, pc' = [pc EXCEPT ![t] = to], to \notin {"commit", "validate"},
               to \in ValidatedPcs => pc[t] \in ValidatedPcs,
               UNCHANGED <<begin_ts, end_ts, clock, write_set, wrote, state>>
        PROVE  Keeps(t)
    <2>1. pc'[t] = to
      BY <1>0, <1>1
    <2> QED  BY <1>1, <2>1, QuietKeeps
  <1>2. CASE commit_initial(t)
    <2>1. CASE UNCHANGED <<clock, end_ts, state, todo>>
      <3>1. CASE pc' = [pc EXCEPT ![t] = "rollback"]
        BY <1>1, <1>2, <2>1, <3>1 DEF commit_initial, ValidatedPcs
      <3>2. CASE pc' # [pc EXCEPT ![t] = "rollback"]
        <4>1. clock' = clock + 1
          BY <1>2, <3>2 DEF commit_initial
        <4> QED  BY <2>1, <4>1 DEF StoreTypeOK
      <3> QED  BY <3>1, <3>2
    <2>2. CASE ~UNCHANGED <<clock, end_ts, state, todo>>
      <3>1. /\ pc[t] = "active"
            /\ pc' = [pc EXCEPT ![t] = IF is_read_only(t) THEN "wait" ELSE "commit"]
            /\ end_ts' = [end_ts EXCEPT ![t] = clock]
            /\ clock' = clock + 1
            /\ state' = [state EXCEPT ![t] = "Preparing"]
            /\ todo' = [todo EXCEPT ![t] = write_set[t]]
            /\ UNCHANGED <<begin_ts, write_set, wrote>>
        BY <1>2, <2>2 DEF commit_initial
      <3>2. /\ end_ts'[t] = clock /\ state'[t] = "Preparing" /\ todo'[t] = write_set[t]
            /\ pc'[t] = IF is_read_only(t) THEN "wait" ELSE "commit"
        BY <1>0, <3>1
      <3> QED  BY <3>1, <3>2 DEF Prepares, is_read_only
    <2> QED  BY <2>1, <2>2
  <1>3. CASE commit_check_exclusive(t)
    <2>1. /\ UNCHANGED <<begin_ts, end_ts, clock, write_set, wrote, state, todo>>
          /\ pc[t] = "commit"
          /\ \E to \in {"validate", "rollback"} : pc' = [pc EXCEPT ![t] = to]
      BY <1>3 DEF commit_check_exclusive
    <2>2. pc'[t] \in {"validate", "rollback"}
      BY <1>0, <2>1
    <2>3. todo[t] = write_set[t] /\ state[t] = "Preparing"
      BY <2>1 DEF WritesRegistered, PcMatchesState, CommittingPcs
    <2>4. \A r \in Rows : ~Validated(t, r)'
      BY <2>1, <2>2, <2>3 DEF Validated, ValidatedPcs
    <2> QED  BY <2>1, <2>2, <2>4 DEF Keeps, Advances
  <1>4. CASE commit_validate_none(t)
    <2>1. /\ UNCHANGED <<begin_ts, end_ts, clock, write_set, wrote, state>>
          /\ todo[t] = {} /\ pc[t] = "validate" /\ pc' = [pc EXCEPT ![t] = "wait"]
      BY <1>4 DEF commit_validate_none
    <2>2. pc'[t] = "wait"
      BY <1>0, <2>1
    <2>3. \A r \in Rows : Validated(t, r)' => Validated(t, r)
      BY <2>1 DEF Validated
    <2> QED  BY <2>1, <2>2, <2>3 DEF Keeps, Advances
  <1>5. ASSUME NEW q \in Rows, commit_validate(t, q)  PROVE Keeps(t)
    <2>1. /\ UNCHANGED <<begin_ts, end_ts, clock, write_set, wrote, state>>
          /\ q \in todo[t] /\ todo' = [todo EXCEPT ![t] = @ \ {q}] /\ pc[t] = "validate"
          /\ pc' = [pc EXCEPT ![t] = IF check_version_conflicts(t, q) THEN "rollback"
                                     ELSE IF todo[t] = {q} THEN "wait" ELSE "validate"]
      BY <1>5 DEF commit_validate
    <2>2. /\ todo'[t] = todo[t] \ {q}
          /\ pc'[t] = IF check_version_conflicts(t, q) THEN "rollback"
                      ELSE IF todo[t] = {q} THEN "wait" ELSE "validate"
      BY <1>0, <2>1
    <2>3. state[t] = "Preparing"
      BY <2>1 DEF PcMatchesState, CommittingPcs
    <2>4. ASSUME NEW r \in Rows, Validated(t, r)'  PROVE Validated(t, r) \/ Validates(t, r)
      <3>1. r \in write_set[t] /\ pc'[t] \in {"wait", "validate"} /\ r \notin todo[t] \ {q}
        BY <2>1, <2>2, <2>3, <2>4 DEF Validated, ValidatedPcs
      <3> QED  BY <2>1, <2>2, <3>1 DEF Validated, Validates
    <2> QED  BY <2>1, <2>2, <2>4 DEF Keeps, Advances
  <1>6. CASE wait_for_dependencies(t)
    BY <1>1, <1>6 DEF wait_for_dependencies, ValidatedPcs
  <1>7. CASE wait_recheck_abort_now(t)
    <2>1. /\ pc[t] = "wait_recheck"
          /\ \E to \in {"rollback", "read_only", "build"} : pc' = [pc EXCEPT ![t] = to]
          /\ UNCHANGED <<begin_ts, end_ts, clock, write_set, wrote, state>>
      BY <1>7 DEF wait_recheck_abort_now
    <2> QED  BY <1>1, <2>1 DEF ValidatedPcs
  <1>8. CASE commit_read_only(t) \/ commit_end(t)
    <2>1. /\ UNCHANGED <<begin_ts, end_ts, clock, write_set, wrote>>
          /\ pc[t] \in {"read_only", "commit_end"}
          /\ \E to \in {"read_only_unlock", "remove", "rewrite"} : pc' = [pc EXCEPT ![t] = to]
          /\ state' = [state EXCEPT ![t] = "Committed"]
      BY <1>8 DEF commit_read_only, commit_end
    <2>2. pc'[t] \in {"read_only_unlock", "remove", "rewrite"} /\ state'[t] = "Committed"
      BY <1>0, <2>1
    <2>3. \A r \in Rows : Validated(t, r)' => Validated(t, r)
      BY <2>1 DEF Validated, ValidatedPcs
    <2> QED  BY <2>1, <2>2, <2>3 DEF Keeps, Advances
  <1>9. CASE begin_commit_logical_log(t) \/ sync_logical_log(t)
    BY <1>1, <1>9 DEF begin_commit_logical_log, sync_logical_log, ValidatedPcs
  <1>10. CASE \/ commit_take_dependents(t) \/ commit_unlock(t) \/ commit_publish(t)
              \/ commit_remove(t) \/ commit_release_exclusive(t)
    <2>1. /\ \E to \in {"notify", "publish", "remove", "release_exclusive", "done"} :
               pc' = [pc EXCEPT ![t] = to]
          /\ UNCHANGED <<begin_ts, end_ts, clock, write_set, wrote, state>>
      BY <1>10 DEF commit_take_dependents, commit_unlock, commit_publish, commit_remove,
                   commit_release_exclusive
    <2> QED  BY <1>1, <2>1 DEF ValidatedPcs
  <1>11. ASSUME NEW q \in Rows, build_committed_log_record(t, q) \/ rewrite_live_versions(t, q)
         PROVE  Keeps(t)
    <2>1. /\ UNCHANGED <<begin_ts, end_ts, clock, write_set, wrote, state, pc>>
          /\ pc[t] \in {"build", "rewrite"}
      BY <1>11 DEF build_committed_log_record, rewrite_live_versions
    <2> QED  BY <2>1, QuietKeeps
  <1>12. ASSUME NEW d \in Txns, commit_notify(t, d)  PROVE Keeps(t)
    <2>1. /\ UNCHANGED <<begin_ts, end_ts, clock, write_set, wrote, state, pc>>
          /\ pc[t] = "notify"
      BY <1>12 DEF commit_notify
    <2> QED  BY <2>1, QuietKeeps
  <1> QED  BY <1>2, <1>3, <1>4, <1>5, <1>6, <1>7, <1>8, <1>9, <1>10, <1>11, <1>12 DEF Commit

LEMMA RollbackDates ==
    ASSUME StoreTypeOK, PcMatchesState, NEW t \in Txns,
           abandon(t) \/ rollback_tx(t) \/ Rollback(t)
    PROVE  Ends(t) \/ Keeps(t)
  <1> USE DEF storeVars, opVars, Goto, ValidatedPcs
  <1>0. /\ pc \in [Txns -> ProgramCounter] /\ state \in [Txns -> TransactionState]
        /\ begin_ts \in [Txns -> Nat] /\ end_ts \in [Txns -> Nat]
        /\ write_set \in [Txns -> SUBSET Rows]
        /\ wrote \in [Txns -> [Rows -> Value \cup {Unwritten}]]
    BY DEF StoreTypeOK
  <1>1. CASE abandon(t) \/ rollback_take_dependents(t) \/ rollback_release_exclusive(t)
    <2>1. /\ UNCHANGED <<begin_ts, end_ts, clock, write_set, wrote, state>>
          /\ \E to \in {"rollback", "rb_notify", "rb_undo"} : pc' = [pc EXCEPT ![t] = to]
      BY <1>1 DEF abandon, rollback_take_dependents, rollback_release_exclusive
    <2>2. pc'[t] \in {"rollback", "rb_notify", "rb_undo"}
      BY <1>0, <2>1
    <2> QED  BY <2>1, <2>2, QuietKeeps
  <1>2. CASE \/ rollback_release_dependent(t) \/ \E r \in Rows : rollback_rowid(t, r)
             \/ \E d \in Txns : rollback_abort_dependent(t, d)
    <2>1. /\ UNCHANGED <<begin_ts, end_ts, clock, write_set, wrote, state, pc>>
          /\ pc[t] \in {"rb_notify", "rb_undo"}
      BY <1>2 DEF rollback_release_dependent, rollback_rowid, rollback_abort_dependent
    <2> QED  BY <2>1, QuietKeeps
  <1>3. CASE rollback_tx(t)
    <2>1. /\ UNCHANGED <<begin_ts, end_ts, clock, write_set, wrote>> /\ pc[t] = "rollback"
          /\ pc' = [pc EXCEPT ![t] = "rb_unlock"] /\ state' = [state EXCEPT ![t] = "Aborted"]
      BY <1>3 DEF rollback_tx
    <2>2. pc'[t] = "rb_unlock" /\ state'[t] = "Aborted"
      BY <1>0, <2>1
    <2> QED  BY <2>1, <2>2 DEF Keeps, Advances, Validated
  <1>4. CASE rollback_terminate(t)
    <2>1. /\ pc[t] = "rb_undo" /\ todo[t] = {} /\ clock' = clock
          /\ pc' = [pc EXCEPT ![t] = "done"] /\ state' = [state EXCEPT ![t] = "Terminated"]
          /\ begin_ts' = [begin_ts EXCEPT ![t] = 0] /\ end_ts' = [end_ts EXCEPT ![t] = 0]
          /\ write_set' = [write_set EXCEPT ![t] = {}]
          /\ wrote' = [wrote EXCEPT ![t] = [r \in Rows |-> Unwritten]]
      BY <1>4 DEF rollback_terminate
    <2>2. /\ pc'[t] = "done" /\ state'[t] = "Terminated" /\ begin_ts'[t] = 0 /\ end_ts'[t] = 0
          /\ write_set'[t] = {}
      BY <1>0, <2>1
    <2>3. wrote'[t] = [r \in Rows |-> Unwritten]
      BY <1>0, <2>1
    <2> QED  BY <2>1, <2>2, <2>3 DEF Ends
  <1> QED  BY <1>1, <1>2, <1>3, <1>4 DEF Rollback

LEMMA DatesSteps ==
    ASSUME StoreTypeOK, PcMatchesState, WritesRegistered, [Next]_vars
    PROVE  UNCHANGED vars \/ \E t \in Txns : Dates(t)
  <1>1. ASSUME NEW t \in Txns,
               \/ Begin(t) \/ Statement(t) \/ commit_initial(t) \/ Commit(t)
               \/ abandon(t) \/ rollback_tx(t) \/ Rollback(t)
        PROVE  Dates(t)
    <2>1. OthersStay(t)
      BY <1>1, StepOfOne
    <2>2. Begins(t) \/ Prepares(t) \/ Ends(t) \/ Keeps(t)
      BY <1>1, BeginDates, StatementDates, CommitDates, RollbackDates
    <2> QED  BY <2>1, <2>2 DEF Dates
  <1> QED  BY <1>1 DEF Next, Finished

LEMMA WriteRegisters ==
    ASSUME StoreTypeOK, PcMatchesState, NEW t \in Txns, NEW r \in Rows, Writes(t, r)
    PROVE  /\ pc[t] = "active" /\ state[t] = "Active" /\ UNCHANGED <<storeVars, pc>>
           /\ write_set'[t] = write_set[t] \cup {r}
           /\ \A u \in Txns \ {t} : write_set'[u] = write_set[u]
           /\ \A q \in Rows : q # r => wrote'[t][q] = wrote[t][q]
  <1>1. /\ UNCHANGED <<storeVars, pc>> /\ pc[t] = "active"
        /\ write_set' = [write_set EXCEPT ![t] = @ \cup {r}]
    BY DEF Writes, update, insert, delete, insert_tombstone, StatementFrame,
           CanWrite, CanRead, WriteSetAdd
  <1>2. \E val : wrote' = [wrote EXCEPT ![t][r] = val]
    BY DEF Writes, update, insert, delete, insert_tombstone, WriteSetAdd
  <1>3. /\ write_set'[t] = write_set[t] \cup {r}
        /\ \A u \in Txns \ {t} : write_set'[u] = write_set[u]
    BY <1>1 DEF StoreTypeOK
  <1>4. \A q \in Rows : q # r => wrote'[t][q] = wrote[t][q]
    BY <1>2 DEF StoreTypeOK
  <1>5. state[t] = "Active"
    BY <1>1 DEF PcMatchesState
  <1> QED  BY <1>1, <1>3, <1>4, <1>5

LEMMA WritesRegisteredStep ==
    ASSUME StoreTypeOK, PcMatchesState, WritesRegistered, [Next]_vars
    PROVE  WritesRegistered'
  <1> DEFINE Registered(u) == /\ \A r \in Rows : wrote[u][r] # Unwritten => r \in write_set[u]
                              /\ pc[u] = "commit" => todo[u] = write_set[u]
  <1>1. CASE UNCHANGED vars
    BY <1>1 DEF vars, opVars, WritesRegistered
  <1>2. ASSUME NEW t \in Txns, Dates(t)  PROVE WritesRegistered'
    <2>1. \A u \in Txns \ {t} : Registered(u)'
      BY <1>2 DEF Dates, OthersStay, WritesRegistered
    <2>2. CASE Begins(t)
      BY <2>1, <2>2 DEF Begins, WritesRegistered
    <2>3. CASE Prepares(t)
      BY <2>1, <2>3 DEF Prepares, WritesRegistered
    <2>4. CASE Ends(t)
      BY <2>1, <2>4 DEF Ends, WritesRegistered
    <2>5. CASE Keeps(t)
      <3>1. pc'[t] # "commit"
        BY <2>5 DEF Keeps, Advances
      <3>2. CASE write_set'[t] = write_set[t] /\ wrote'[t] = wrote[t]
        BY <2>1, <3>1, <3>2 DEF WritesRegistered
      <3>3. ASSUME NEW r \in Rows, Writes(t, r)  PROVE Registered(t)'
        <4>1. /\ write_set'[t] = write_set[t] \cup {r}
              /\ \A q \in Rows : q # r => wrote'[t][q] = wrote[t][q]
          BY <3>3, WriteRegisters
        <4> QED  BY <3>1, <4>1 DEF WritesRegistered
      <3> QED  BY <2>1, <2>5, <3>2, <3>3 DEF Keeps, WritesRegistered
    <2> QED  BY <1>2, <2>2, <2>3, <2>4, <2>5 DEF Dates
  <1> QED  BY <1>1, <1>2, DatesSteps

(* The timestamps of transactions are drawn from one clock: all different,  *)
(* and the end of a transaction after its begin.                            *)
Dated == {t \in Txns : state[t] \in {"Preparing", "Committed"}}

ClockInv ==
    /\ \A t \in Txns : begin_ts[t] < clock /\ end_ts[t] < clock
    /\ \A t \in Dated : begin_ts[t] < end_ts[t]
    /\ \A t \in Dated, u \in Txns : t # u =>
         end_ts[t] # begin_ts[u] /\ (u \in Dated => end_ts[t] # end_ts[u])

(* Who has an end timestamp keeps both; who gets one was Active.            *)
LEMMA DatedStep ==
    ASSUME StoreTypeOK, PcMatchesState, NEW t \in Txns, Dates(t), t \in Dated'
    PROVE  /\ begin_ts'[t] = begin_ts[t]
           /\ \/ t \in Dated /\ end_ts'[t] = end_ts[t] /\ Keeps(t)
              \/ Prepares(t) /\ t \notin Dated
  <1>1. ~Ends(t)
    BY DEF Ends, Dated
  <1>2. ~Begins(t)
    BY DEF Begins, Dated, PcMatchesState
  <1>3. Prepares(t) => t \notin Dated /\ begin_ts'[t] = begin_ts[t]
    BY DEF Prepares, PcMatchesState, Dated
  <1>4. Keeps(t) => t \in Dated /\ begin_ts'[t] = begin_ts[t] /\ end_ts'[t] = end_ts[t]
    BY DEF Keeps, Advances, Dated, PcMatchesState, CommittingPcs
  <1> QED  BY <1>1, <1>2, <1>3, <1>4 DEF Dates

LEMMA ClockInvStep ==
    ASSUME StoreTypeOK, PcMatchesState, WritesRegistered, ClockInv, [Next]_vars
    PROVE  ClockInv'
  <1>0. begin_ts \in [Txns -> Nat] /\ end_ts \in [Txns -> Nat] /\ clock \in Nat
    BY DEF StoreTypeOK
  <1>1. CASE UNCHANGED vars
    BY <1>1 DEF vars, storeVars, ClockInv, Dated
  <1>2. ASSUME NEW t \in Txns, Dates(t)  PROVE ClockInv'
    <2>1. \A u \in Txns \ {t} : /\ begin_ts'[u] = begin_ts[u] /\ end_ts'[u] = end_ts[u]
                                /\ (u \in Dated' <=> u \in Dated)
      BY <1>2 DEF Dates, OthersStay, Dated
    <2>2. clock' \in {clock, clock + 1}
      BY <1>2 DEF Dates, Begins, Prepares, Ends, Keeps
    <2>3. /\ begin_ts'[t] \in {0, clock, begin_ts[t]} /\ end_ts'[t] \in {0, clock, end_ts[t]}
          /\ begin_ts'[t] < clock' /\ end_ts'[t] < clock'
      BY <1>0, <1>2 DEF Dates, Begins, Prepares, Ends, Keeps, ClockInv
    <2>4. t \in Dated' => /\ begin_ts'[t] = begin_ts[t] /\ end_ts'[t] \in {end_ts[t], clock}
                          /\ (t \in Dated /\ end_ts'[t] = end_ts[t]) \/ end_ts'[t] = clock
      BY <1>2, DatedStep DEF Prepares
    <2>5. \A u \in Txns : begin_ts'[u] < clock' /\ end_ts'[u] < clock'
      BY <1>0, <2>1, <2>2, <2>3 DEF ClockInv
    <2>6. \A u \in Dated' : begin_ts'[u] < end_ts'[u]
      BY <1>0, <2>1, <2>4 DEF ClockInv, Dated
    <2>7. ASSUME NEW u \in Txns, NEW x \in Dated', x # u
          PROVE  end_ts'[x] # begin_ts'[u] /\ (u \in Dated' => end_ts'[x] # end_ts'[u])
      <3>1. x \in Txns
        BY DEF Dated
      <3>2. CASE x # t /\ u # t
        BY <2>1, <2>7, <3>1, <3>2 DEF ClockInv
      <3>3. CASE x = t
        <4>1. begin_ts'[u] = begin_ts[u] /\ end_ts'[u] = end_ts[u] /\ (u \in Dated' <=> u \in Dated)
          BY <2>1, <2>7, <3>3
        <4>2. begin_ts[u] < clock /\ end_ts[u] < clock
          BY DEF ClockInv
        <4>3. CASE end_ts'[t] = clock
          BY <1>0, <3>3, <4>1, <4>2, <4>3
        <4>4. CASE t \in Dated /\ end_ts'[t] = end_ts[t]
          BY <2>7, <3>3, <4>1, <4>4 DEF ClockInv
        <4> QED  BY <2>4, <2>7, <3>3, <4>3, <4>4
      <3>4. CASE u = t
        <4>1. x \in Dated /\ end_ts'[x] = end_ts[x]
          BY <2>1, <2>7, <3>1, <3>4
        <4>2. end_ts[x] < clock /\ begin_ts[x] < end_ts[x]
          BY <3>1, <4>1 DEF ClockInv
        <4>3. end_ts[x] # begin_ts[t] /\ (t \in Dated => end_ts[x] # end_ts[t])
          BY <2>7, <3>4, <4>1 DEF ClockInv
        <4>4. end_ts[x] # 0 /\ end_ts[x] # clock
          BY <1>0, <3>1, <4>2
        <4>5. end_ts'[x] # begin_ts'[t]
          BY <2>3, <4>1, <4>3, <4>4
        <4>6. t \in Dated' => end_ts'[x] # end_ts'[t]
          BY <2>4, <4>1, <4>3, <4>4
        <4> QED  BY <3>4, <4>5, <4>6
      <3> QED  BY <3>2, <3>3, <3>4
    <2> QED  BY <2>5, <2>6, <2>7 DEF ClockInv
  <1> QED  BY <1>1, <1>2, DatesSteps

(* A writing statement ends at most one version: one whose begin it sees,   *)
(* and which nobody has ended or only a transaction that is rolling back.   *)
EndsVisible(t, v, w) ==
    /\ w.begin = v.begin /\ w.end = TxID(t)
    /\ is_begin_visible(t, v) /\ ~is_write_write_conflict(t, v)

EndsOne(t, s, chain) ==
    /\ chain \in Seq(RowVersion) /\ Len(chain) = Len(s)
    /\ \A k \in 1 .. Len(s) : chain[k] = s[k] \/ EndsVisible(t, s[k], chain[k])

Overwrites(t, r) ==
    /\ \A q \in Rows : q # r => versions'[q] = versions[q]
    /\ \A k \in 1 .. Len(versions'[r]) :
         \/ Fresh(t, versions'[r][k])
         \/ \E j \in 1 .. Len(versions[r]) :
              \/ versions'[r][k] = versions[r][j]
              \/ EndsVisible(t, versions[r][j], versions'[r][k])
    /\ \A j \in 1 .. Len(versions[r]) : \E k \in 1 .. Len(versions'[r]) :
         versions'[r][k] = versions[r][j] \/ EndsVisible(t, versions[r][j], versions'[r][k])
    /\ \E k \in 1 .. Len(versions'[r]) : touched(t, versions'[r][k])

LEMMA EndsOneVersion ==
    ASSUME StoreTypeOK, NEW t \in Txns, NEW s \in Seq(RowVersion), NEW i \in 1 .. Len(s),
           is_last_visible(t, s, i), ~is_write_write_conflict(t, s[i]),
           NEW chain, chain = set_end(s, i, t)
    PROVE  EndsOne(t, s, chain) /\ chain[i].end = TxID(t)
  <1>1. /\ chain \in Seq(RowVersion) /\ Len(chain) = Len(s)
        /\ \A j \in 1 .. Len(s) : j # i => chain[j] = s[j]
        /\ chain[i].begin = s[i].begin /\ chain[i].end = TxID(t)
    BY SetEndTyped, SetEndElements
  <1>2. is_begin_visible(t, s[i])
    BY DEF is_last_visible, is_visible_to
  <1>3. EndsVisible(t, s[i], chain[i])
    BY <1>1, <1>2 DEF EndsVisible
  <1> QED  BY <1>1, <1>3 DEF EndsOne

LEMMA InsertedOver ==
    ASSUME StoreTypeOK, NEW t \in Txns, NEW r \in Rows, NEW chain, EndsOne(t, versions[r], chain),
           NEW rv, FreshVersion(t, rv),
           versions' = [versions EXCEPT ![r] = insert_version_raw(chain, rv)]
    PROVE  Overwrites(t, r)
  <1>1. PICK s, c : s = versions[r] /\ c = insert_version_raw(chain, rv)
    OBVIOUS
  <1>2. versions'[r] = c /\ \A q \in Rows : q # r => versions'[q] = versions[q]
    BY <1>1 DEF StoreTypeOK
  <1>3. /\ chain \in Seq(RowVersion) /\ Len(chain) = Len(s)
        /\ \A k \in 1 .. Len(s) : chain[k] = s[k] \/ EndsVisible(t, s[k], chain[k])
        /\ rv \in RowVersion /\ Fresh(t, rv) /\ rv.begin.kind # "Timestamp"
    BY <1>1 DEF EndsOne, FreshVersion
  <1>4. \A k \in 1 .. Len(c) : c[k] = rv \/ \E j \in 1 .. Len(chain) : c[k] = chain[j]
    BY <1>1, <1>3, InsertElements
  <1>5. \A j \in 1 .. Len(chain) : \E k \in 1 .. Len(c) : c[k] = chain[j]
    BY <1>1, <1>3, InsertKeeps
  <1>6. \E k \in 1 .. Len(c) : c[k] = rv
    BY <1>1, <1>3, InsertIsThere
  <1>7. touched(t, rv)
    BY <1>3 DEF Fresh, touched
  <1>8. \A k \in 1 .. Len(c) : \/ Fresh(t, c[k])
                              \/ \E j \in 1 .. Len(s) : c[k] = s[j] \/ EndsVisible(t, s[j], c[k])
    BY <1>3, <1>4
  <1>9. \A j \in 1 .. Len(s) : \E k \in 1 .. Len(c) : c[k] = s[j] \/ EndsVisible(t, s[j], c[k])
    BY <1>3, <1>5
  <1> QED  BY <1>1, <1>2, <1>6, <1>7, <1>8, <1>9 DEF Overwrites

LEMMA WriteOverwrites ==
    ASSUME StoreTypeOK, NEW t \in Txns, NEW r \in Rows, Writes(t, r)
    PROVE  Overwrites(t, r)
  <1>1. PICK s : s = versions[r]
    OBVIOUS
  <1>2. s \in Seq(RowVersion) /\ versions \in [Rows -> Seq(RowVersion)]
    BY <1>1 DEF StoreTypeOK
  <1>3. ops[t] < MaxOps
    BY DEF Writes, update, insert, delete, insert_tombstone, CanWrite, CanRead
  <1>4. ASSUME NEW i \in 1 .. Len(s), is_last_visible(t, s, i), ~is_write_write_conflict(t, s[i]),
               NEW chain, chain = set_end(s, i, t)
        PROVE  EndsOne(t, s, chain) /\ chain[i].end = TxID(t)
    BY <1>2, <1>4, EndsOneVersion
  <1>5. CASE update(t, r)
    <2>1. PICK i \in 1 .. Len(s) :
            /\ is_last_visible(t, s, i) /\ ~is_write_write_conflict(t, s[i])
            /\ versions' = [versions EXCEPT ![r] =
                 insert_version_raw(set_end(@, i, t), NewVersion(t, r, FALSE))]
      BY <1>1, <1>5 DEF update
    <2>2. PICK chain, rv : chain = set_end(s, i, t) /\ rv = NewVersion(t, r, FALSE)
      OBVIOUS
    <2>3. versions' = [versions EXCEPT ![r] = insert_version_raw(chain, rv)]
      BY <1>1, <2>1, <2>2
    <2>4. EndsOne(t, s, chain)
      BY <1>4, <2>1, <2>2
    <2>5. FreshVersion(t, rv)
      BY <1>3, <2>2, FreshVersions
    <2> QED  BY <1>1, <2>3, <2>4, <2>5, InsertedOver
  <1>6. CASE insert(t, r) \/ insert_tombstone(t, r)
    <2>1. PICK rv : /\ FreshVersion(t, rv)
                    /\ versions' = [versions EXCEPT ![r] = insert_version_raw(@, rv)]
      <3>1. query_btree_version_is_valid(t, r) \in BOOLEAN
        BY DEF query_btree_version_is_valid
      <3>2. CASE insert(t, r)
        <4>1. versions' = [versions EXCEPT ![r] =
                insert_version_raw(@, NewVersion(t, r, query_btree_version_is_valid(t, r)))]
          BY <3>2 DEF insert
        <4> QED  BY <1>3, <3>1, <4>1, FreshVersions
      <3>3. CASE insert_tombstone(t, r)
        <4>1. versions' = [versions EXCEPT ![r] = insert_version_raw(@, Tombstone(t, r))]
          BY <3>3 DEF insert_tombstone
        <4> QED  BY <1>3, <4>1, FreshVersions
      <3> QED  BY <1>6, <3>2, <3>3
    <2>2. versions' = [versions EXCEPT ![r] = insert_version_raw(s, rv)]
      BY <1>1, <2>1
    <2>3. EndsOne(t, s, s)
      BY <1>2 DEF EndsOne
    <2> QED  BY <1>1, <2>1, <2>2, <2>3, InsertedOver
  <1>7. CASE delete(t, r)
    <2>1. PICK i \in 1 .. Len(s) :
            /\ is_last_visible(t, s, i) /\ ~is_write_write_conflict(t, s[i])
            /\ versions' = [versions EXCEPT ![r] = set_end(@, i, t)]
      BY <1>1, <1>7 DEF delete
    <2>2. PICK chain : chain = set_end(s, i, t)
      OBVIOUS
    <2>3. versions'[r] = chain /\ \A q \in Rows : q # r => versions'[q] = versions[q]
      BY <1>1, <1>2, <2>1, <2>2
    <2>4. EndsOne(t, s, chain) /\ chain[i].end = TxID(t)
      BY <1>4, <2>1, <2>2
    <2>5. /\ Len(chain) = Len(s)
          /\ \A k \in 1 .. Len(s) : chain[k] = s[k] \/ EndsVisible(t, s[k], chain[k])
      BY <2>4 DEF EndsOne
    <2>6. touched(t, chain[i]) /\ i \in 1 .. Len(chain)
      BY <2>4, <2>5 DEF touched
    <2> QED  BY <1>1, <2>3, <2>5, <2>6 DEF Overwrites
  <1> QED  BY <1>5, <1>6, <1>7 DEF Writes

(* The begin of a version is before its end, as timestamps or as the        *)
(* timestamps its two transactions have: who ends a version began after it  *)
(* was committed, or is being committed.                                    *)
Ordered(v) ==
    /\ v.begin.kind = "Timestamp" /\ v.end.kind = "Timestamp" => v.begin.v <= v.end.v
    /\ \A x \in Txns : v.begin.kind = "Timestamp" /\ v.end = TxID(x) => v.begin.v < begin_ts[x]
    /\ \A t, x \in Txns : t # x /\ v.begin = TxID(t) /\ v.end = TxID(x) =>
         state[t] # "Active" /\ end_ts[t] < begin_ts[x]

OrderedStamps == \A r \in Rows : \A i \in 1 .. Len(versions[r]) : Ordered(versions[r][i])

(* A transaction with its id in a chain is not just beginning or leaving.   *)
LEMMA TaggingKeepsDates ==
    ASSUME StoreTypeOK, PcMatchesState, WritesRegistered, [Next]_vars,
           NEW u \in Txns, NEW r \in Rows, MayTag(u, r)
    PROVE  /\ begin_ts'[u] = begin_ts[u]
           /\ state[u] # "Active" => state'[u] # "Active" /\ end_ts'[u] = end_ts[u]
  <1>0. /\ u \in txs /\ pc[u] \in TaggingPcs
        /\ pc[u] \in LoopPcs => todo[u] # {}
    BY DEF MayTag
  <1>1. CASE UNCHANGED vars
    BY <1>1 DEF vars, storeVars
  <1>2. ASSUME NEW t \in Txns, Dates(t)
        PROVE  /\ begin_ts'[u] = begin_ts[u]
               /\ state[u] # "Active" => state'[u] # "Active" /\ end_ts'[u] = end_ts[u]
    <2>1. CASE u # t
      BY <1>2, <2>1 DEF Dates, OthersStay
    <2>2. CASE u = t
      <3>1. ~Begins(u) /\ ~Ends(u)
        BY <1>0 DEF Begins, Ends, TaggingPcs, LoopPcs
      <3>2. CASE Prepares(u)
        BY <3>2 DEF Prepares, PcMatchesState
      <3>3. CASE Keeps(u)
        <4>1. pc[u] = "acquire_commit_lock" => state[u] = "Active"
          BY <1>0 DEF PcMatchesState
        <4> QED  BY <3>3, <4>1 DEF Keeps, Advances
      <3> QED  BY <1>2, <2>2, <3>1, <3>2, <3>3 DEF Dates
    <2> QED  BY <2>1, <2>2
  <1> QED  BY <1>1, <1>2, DatesSteps

LEMMA OrderKept ==
    ASSUME StoreTypeOK, PcMatchesState, WritesRegistered, Tagged, [Next]_vars,
           NEW r \in Rows, NEW i \in 1 .. Len(versions[r]), NEW v, v = versions[r][i], Ordered(v)
    PROVE  Ordered(v)'
  <1>1. \A u \in Txns : v.begin = TxID(u) \/ v.end = TxID(u) => MayTag(u, r)
    BY DEF Tagged, touched
  <1>2. ASSUME NEW x \in Txns, v.begin.kind = "Timestamp", v.end = TxID(x)
        PROVE  v.begin.v < begin_ts'[x]
    BY <1>1, <1>2, TaggingKeepsDates DEF Ordered
  <1>3. ASSUME NEW t \in Txns, NEW x \in Txns, t # x, v.begin = TxID(t), v.end = TxID(x)
        PROVE  state'[t] # "Active" /\ end_ts'[t] < begin_ts'[x]
    <2>1. state[t] # "Active" /\ end_ts[t] < begin_ts[x]
      BY <1>3 DEF Ordered
    <2>2. begin_ts'[x] = begin_ts[x] /\ state'[t] # "Active" /\ end_ts'[t] = end_ts[t]
      BY <1>1, <1>3, <2>1, TaggingKeepsDates
    <2> QED  BY <2>1, <2>2
  <1> QED  BY <1>2, <1>3 DEF Ordered

LEMMA OrderedStampsStep ==
    ASSUME StoreTypeOK, PcMatchesState, WritesRegistered, ClockInv, Tagged, Settled, RewriterAlone,
           EndedSpeculatively, StampedInOrder, OrderedStamps, [Next]_vars
    PROVE  OrderedStamps'
  <1>1. SUFFICES ASSUME NEW r \in Rows, NEW k \in 1 .. Len(versions'[r]), NEW w,
                        w = versions'[r][k]
                 PROVE  Ordered(w)'
    BY DEF OrderedStamps
  <1>2. ASSUME NEW j \in 1 .. Len(versions[r]), w = versions[r][j]  PROVE Ordered(w)'
    BY <1>2, OrderKept DEF OrderedStamps
  <1>3. CASE versions'[r] = versions[r]
    BY <1>1, <1>2, <1>3
  <1>4. ASSUME NEW x \in Txns, NEW q \in Rows, Writes(x, q)  PROVE Ordered(w)'
    <2>1. Overwrites(x, q) /\ UNCHANGED <<begin_ts, end_ts, state>> /\ state[x] = "Active"
      BY <1>4, WriteOverwrites, WriteRegisters DEF storeVars
    <2>2. CASE r # q
      BY <1>3, <2>1, <2>2 DEF Overwrites
    <2>3. CASE r = q
      <3>1. CASE Fresh(x, w)
        BY <3>1, StampsDiffer DEF Fresh, Ordered
      <3>2. ASSUME NEW j \in 1 .. Len(versions[r]), EndsVisible(x, versions[r][j], w)
            PROVE  Ordered(w)'
        <4>1. PICK v : v = versions[r][j]
          OBVIOUS
        <4>2. w.begin = v.begin /\ w.end = TxID(x) /\ is_begin_visible(x, v)
          BY <3>2, <4>1 DEF EndsVisible
        <4>3. w.end.kind # "Timestamp" /\ \A y \in Txns : w.end = TxID(y) => y = x
          BY <4>2, StampsDiffer
        <4>4. v.begin.kind = "Timestamp" => v.begin.v < begin_ts[x]
          <5>1. begin_ts[x] \in Nat /\ v \in RowVersion
            BY <4>1 DEF StoreTypeOK
          <5>2. v.begin.kind = "Timestamp" => v.begin.v \in Nat
            BY <5>1 DEF RowVersion, TxTimestampOrID, None
          <5> QED  BY <4>2, <5>1, <5>2 DEF is_begin_visible
        <4>5. ASSUME NEW t \in Txns, t # x, v.begin = TxID(t)
              PROVE  state[t] # "Active" /\ end_ts[t] < begin_ts[x]
          <5>1. v.begin.kind = "TxID" /\ v.begin.v = t
            BY <4>5, StampsDiffer
          <5>2. lookup_tx_state(t) \in {"Preparing", "Committed"} /\ begin_ts[x] > end_ts[t]
            BY <4>2, <4>5, <5>1 DEF is_begin_visible
          <5>3. t \in txs
            BY <4>1, <4>5 DEF Tagged, touched, MayTag
          <5>4. state[t] # "Active"
            BY <5>2, <5>3 DEF lookup_tx_state
          <5>5. begin_ts[x] \in Nat /\ end_ts[t] \in Nat
            BY DEF StoreTypeOK
          <5> QED  BY <5>2, <5>4, <5>5
        <4> QED  BY <2>1, <4>2, <4>3, <4>4, <4>5 DEF Ordered
      <3> QED  BY <1>1, <1>2, <2>1, <2>3, <3>1, <3>2 DEF Overwrites
    <2> QED  BY <2>2, <2>3
  <1>5. ASSUME NEW x \in Txns, NEW q \in Rows, Visits(x, q)  PROVE Ordered(w)'
    <2>1. VisitedBy(x, q) /\ UNCHANGED <<begin_ts, end_ts, state>>
      BY <1>5, VisitedChain DEF Visits, rewrite_live_versions, rollback_rowid, storeVars
    <2>2. CASE r # q
      BY <1>3, <2>1, <2>2 DEF VisitedBy
    <2>3. CASE r = q
      <3>1. PICK v : v = versions[r][k]
        OBVIOUS
      <3>2. /\ k \in 1 .. Len(versions[r])
            /\ (pc[x] = "rewrite" /\ Stamped(x, v, w)) \/ Undone(x, v, w)
        BY <1>1, <2>1, <2>3, <3>1 DEF VisitedBy
      <3>3. Ordered(v)
        BY <3>1, <3>2 DEF OrderedStamps
      <3>4. \A u \in Txns : /\ w.begin = TxID(u) => v.begin = TxID(u) /\ u # x
                            /\ w.end = TxID(u) => v.end = TxID(u) /\ u # x
        BY <3>2, VisitLeavesOthers
      <3>5. CASE Undone(x, v, w)
        <4>1. w.begin.kind = "Timestamp" => w.begin = v.begin
          BY <3>5, StampsDiffer DEF Undone
        <4>2. w.end.kind = "Timestamp" => w.end = v.end
          BY <3>5, StampsDiffer DEF Undone
        <4> QED  BY <2>1, <3>3, <3>4, <4>1, <4>2 DEF Ordered
      <3>6. CASE pc[x] = "rewrite" /\ Stamped(x, v, w)
        <4>0. PICK b, e : b = begin_ts[x] /\ e = end_ts[x]
          OBVIOUS
        <4>1. x \in Dated
          BY <3>6 DEF Dated, PcMatchesState, CommittedPcs
        <4>2. b < e /\ b \in Nat /\ e \in Nat
          BY <4>0, <4>1 DEF ClockInv, StoreTypeOK
        <4>3. /\ w.begin = IF v.begin = TxID(x) THEN Timestamp(e) ELSE v.begin
              /\ w.end = IF v.end = TxID(x) THEN Timestamp(e) ELSE v.end
          BY <3>6, <4>0 DEF Stamped
        <4>4. Timestamp(e).v = e /\ Timestamp(e).kind = "Timestamp"
          BY DEF Timestamp
        <4>5. v \in RowVersion
          BY <3>1, <3>2 DEF StoreTypeOK
        <4>6. ASSUME w.begin.kind = "Timestamp", w.end.kind = "Timestamp"
              PROVE  w.begin.v <= w.end.v
          <5>1. CASE v.begin = TxID(x) /\ v.end = TxID(x)
            BY <4>2, <4>3, <4>4, <5>1
          <5>2. CASE v.begin = TxID(x) /\ v.end # TxID(x)
            <6>1. v.end.kind = "Timestamp" /\ v.begin.kind = "TxID"
              BY <4>3, <4>6, <5>2, StampsDiffer
            <6> QED  BY <3>1, <3>2, <6>1 DEF StampedInOrder
          <5>3. CASE v.begin # TxID(x) /\ v.end = TxID(x)
            <6>1. v.begin.kind = "Timestamp" /\ w.begin = v.begin /\ w.end.v = e
              BY <4>3, <4>4, <4>6, <5>3
            <6>2. v.begin.v < b
              BY <3>3, <4>0, <5>3, <6>1 DEF Ordered
            <6>3. v.begin.v \in Nat
              BY <4>5, <6>1 DEF RowVersion, TxTimestampOrID, None
            <6> QED  BY <4>2, <6>1, <6>2, <6>3
          <5>4. CASE v.begin # TxID(x) /\ v.end # TxID(x)
            BY <3>3, <4>3, <4>6, <5>4 DEF Ordered
          <5> QED  BY <5>1, <5>2, <5>3, <5>4
        <4>7. ASSUME NEW u \in Txns, w.begin.kind = "Timestamp", w.end = TxID(u)
              PROVE  w.begin.v < begin_ts[u]
          <5>1. v.end = TxID(u) /\ u # x
            BY <3>4, <4>7
          <5>2. CASE v.begin = TxID(x)
            <6>1. end_ts[x] < begin_ts[u]
              BY <3>3, <5>1, <5>2 DEF Ordered
            <6> QED  BY <4>0, <4>3, <4>4, <5>2, <6>1
          <5>3. CASE v.begin # TxID(x)
            BY <3>3, <4>3, <4>7, <5>1, <5>3 DEF Ordered
          <5> QED  BY <5>2, <5>3
        <4>8. ASSUME NEW t \in Txns, NEW u \in Txns, t # u, w.begin = TxID(t), w.end = TxID(u)
              PROVE  state[t] # "Active" /\ end_ts[t] < begin_ts[u]
          BY <3>3, <3>4, <4>8 DEF Ordered
        <4> QED  BY <2>1, <4>6, <4>7, <4>8 DEF Ordered
      <3> QED  BY <3>2, <3>5, <3>6
    <2> QED  BY <2>2, <2>3
  <1> QED  BY <1>3, <1>4, <1>5, ChainSteps

(* A transaction leaves its mark on every row it wrote: its id, or once it  *)
(* is committed its end timestamp, in the begin or the end of a version.    *)
(* One that is rolling back, or was told to, may have lost it.              *)
MarkOf(t, stamp) ==
    stamp = TxID(t) \/ (state[t] = "Committed" /\ stamp = Timestamp(end_ts[t]))

Marked(t, v) == MarkOf(t, v.begin) \/ MarkOf(t, v.end)

MustMark(t) ==
    \/ state[t] = "Committed"
    \/ state[t] \notin {"Aborted", "Terminated"} /\ ~abort_now[t]

Marks ==
    \A t \in Txns : MustMark(t) => \A r \in write_set[t] :
      \E i \in 1 .. Len(versions[r]) : Marked(t, versions[r][i])

(* abort_now is only reset when the transaction is dropped.                 *)
LEMMA AbortNowStays ==
    ASSUME StoreTypeOK, Tagged, [Next]_vars, NEW t \in Txns, abort_now[t]
    PROVE  abort_now'[t] \/ (pc[t] = "rb_undo" /\ pc'[t] = "done")
  <1>1. CASE UNCHANGED vars
    BY <1>1 DEF vars, depVars
  <1>2. ASSUME NEW x \in Txns, Moves(x)  PROVE abort_now'[t]
    BY <1>2 DEF Moves
  <1>3. ASSUME NEW x \in Txns, NEW q \in Rows, RowStatement(x, q)  PROVE abort_now'[t]
    BY <1>3, StatementRegisters DEF RegistersOn
  <1>4. ASSUME NEW x \in Txns, Takes(x)  PROVE abort_now'[t]
    BY <1>4 DEF Takes
  <1>5. ASSUME NEW x \in Txns, NEW d \in Txns, Pays(x, d)  PROVE abort_now'[t]
    <2>1. abort_now' = abort_now \/ abort_now' = [abort_now EXCEPT ![d] = TRUE]
      BY <1>5 DEF Pays
    <2> QED  BY <2>1 DEF StoreTypeOK
  <1>6. ASSUME NEW x \in Txns, Drops(x)
        PROVE  abort_now'[t] \/ (pc[t] = "rb_undo" /\ pc'[t] = "done")
    BY <1>6 DEF Drops, StoreTypeOK
  <1> QED  BY <1>1, <1>2, <1>3, <1>4, <1>5, <1>6, StepKinds, DebtSteps

LEMMA MustMarkBefore ==
    ASSUME StoreTypeOK, PcMatchesState, WritesRegistered, Tagged, Settled, [Next]_vars,
           NEW t \in Txns, MustMark(t)'
    PROVE  MustMark(t) /\ \A stamp : MarkOf(t, stamp) => MarkOf(t, stamp)'
  <1>1. CASE UNCHANGED vars
    BY <1>1 DEF vars, storeVars, depVars, MustMark, MarkOf
  <1>2. ASSUME NEW y \in Txns, Dates(y)
        PROVE  /\ state[t] = "Committed" => state'[t] = "Committed" /\ end_ts'[t] = end_ts[t]
               /\ MustMark(t)
    <2>1. CASE t # y
      <3>1. state'[t] = state[t] /\ end_ts'[t] = end_ts[t] /\ pc'[t] = pc[t]
        BY <1>2, <2>1 DEF Dates, OthersStay
      <3>2. abort_now[t] => abort_now'[t]
        BY <3>1, AbortNowStays
      <3> QED  BY <3>1, <3>2 DEF MustMark
    <2>2. CASE t = y
      <3>1. ~Ends(t)
        BY DEF Ends, MustMark
      <3>2. abort_now[t] => abort_now'[t]
        <4>1. pc[t] = "rb_undo" /\ pc'[t] = "done" => Ends(t)
          BY <1>2, <2>2 DEF Dates, Begins, Prepares, Keeps, Advances, MustMark, PcMatchesState,
                            RollbackPcs
        <4> QED  BY <3>1, <4>1, AbortNowStays
      <3>3. CASE Begins(t)
        <4>1. state[t] = "Unborn"
          BY <3>3 DEF Begins, PcMatchesState
        <4> QED  BY <3>2, <3>3, <4>1 DEF Begins, MustMark
      <3>4. CASE Prepares(t)
        <4>1. state[t] = "Active"
          BY <3>4 DEF Prepares, PcMatchesState
        <4> QED  BY <3>2, <3>4, <4>1 DEF Prepares, MustMark
      <3>5. CASE Keeps(t)
        <4>1. end_ts'[t] = end_ts[t] /\ Advances(t)
          BY <3>5 DEF Keeps
        <4>2. CASE state'[t] = state[t]
          BY <3>2, <4>1, <4>2 DEF MustMark
        <4>3. CASE state'[t] = "Active" /\ pc[t] = "acquire_commit_lock"
          <5>1. state[t] \in {"Unborn", "Active"}
            BY <4>3 DEF PcMatchesState
          <5> QED  BY <3>2, <4>3, <5>1 DEF MustMark
        <4>4. CASE state'[t] = "Committed" /\ pc[t] \in {"read_only", "commit_end"}
          <5>1. state[t] = "Preparing" /\ ~abort_now[t]
            BY <4>4 DEF PcMatchesState, CommittingPcs, Settled, SettledPcs
          <5> QED  BY <5>1 DEF MustMark
        <4>5. CASE state'[t] = "Aborted" /\ pc[t] = "rollback"
          BY <4>5 DEF MustMark
        <4> QED  BY <4>1, <4>2, <4>3, <4>4, <4>5 DEF Advances
      <3> QED  BY <1>2, <2>2, <3>1, <3>3, <3>4, <3>5 DEF Dates
    <2> QED  BY <2>1, <2>2
  <1>3. ASSUME NEW y \in Txns, Dates(y)
        PROVE  MustMark(t) /\ \A stamp : MarkOf(t, stamp) => MarkOf(t, stamp)'
    BY <1>2, <1>3 DEF MarkOf
  <1> QED  BY <1>1, <1>3, DatesSteps

(* Write sets grow by writing statements only.                              *)
LEMMA WriteSetSteps ==
    ASSUME StoreTypeOK, PcMatchesState, WritesRegistered, [Next]_vars,
           NEW t \in Txns, NEW r \in Rows, r \in write_set'[t]
    PROVE  r \in write_set[t] \/ Writes(t, r)
  <1>1. CASE UNCHANGED vars
    BY <1>1 DEF vars, opVars
  <1>2. ASSUME NEW y \in Txns, Dates(y)  PROVE r \in write_set[t] \/ Writes(t, r)
    <2>1. CASE t # y
      BY <1>2, <2>1 DEF Dates, OthersStay
    <2>2. CASE t = y
      <3>1. CASE write_set'[t] = write_set[t]
        BY <3>1
      <3>2. CASE write_set'[t] = {}
        BY <3>2
      <3>3. ASSUME NEW q \in Rows, Writes(t, q)  PROVE r \in write_set[t] \/ Writes(t, r)
        BY <3>3, WriteRegisters
      <3> QED  BY <1>2, <2>2, <3>1, <3>2, <3>3 DEF Dates, Begins, Prepares, Ends, Keeps
    <2> QED  BY <2>1, <2>2
  <1> QED  BY <1>1, <1>2, DatesSteps

(* Neither another writer nor a commit nor a rollback takes a mark away.    *)
LEMMA MarkSurvivesWrite ==
    ASSUME StoreTypeOK, Tagged, NEW r \in Rows, NEW j \in 1 .. Len(versions[r]),
           NEW t \in Txns, MustMark(t), NEW x \in Txns, x # t,
           NEW v, v = versions[r][j], Marked(t, v), NEW w, EndsVisible(x, v, w)
    PROVE  Marked(t, w)
  <1>1. w.begin = v.begin /\ ~is_write_write_conflict(x, v)
    BY DEF EndsVisible
  <1>2. CASE MarkOf(t, v.begin)
    BY <1>1, <1>2 DEF Marked
  <1>3. CASE MarkOf(t, v.end)
    <2>1. CASE v.end = TxID(t)
      <3>1. v.end.kind = "TxID" /\ v.end.v = t
        BY <2>1, StampsDiffer
      <3>2. t \in txs
        BY <2>1 DEF Tagged, touched, MayTag
      <3>3. state[t] \in {"Aborted", "Terminated"}
        BY <1>1, <3>1, <3>2 DEF is_write_write_conflict, lookup_tx_state
      <3> QED  BY <3>3 DEF MustMark
    <2>2. CASE v.end # TxID(t)
      <3>1. v.end.kind = "Timestamp"
        BY <1>3, <2>2, StampsDiffer DEF MarkOf
      <3> QED  BY <1>1, <3>1 DEF is_write_write_conflict
    <2> QED  BY <2>1, <2>2
  <1> QED  BY <1>2, <1>3 DEF Marked

(* No rollback touches a version that somebody else ended who goes on.      *)
LEMMA UndoSparesEnds ==
    ASSUME StoreTypeOK, PcMatchesState, NotifyingOnly, Tagged, WritersOwe, Settled,
           EndedSpeculatively, StampedInOrder,
           NEW r \in Rows, NEW j \in 1 .. Len(versions[r]),
           NEW t \in Txns, MustMark(t), NEW x \in Txns, pc[x] = "rb_undo",
           NEW v, v = versions[r][j], MarkOf(t, v.end)
    PROVE  v.begin # TxID(x) /\ v.end # TxID(x) /\ x # t
  <1>1. x # t
    BY DEF PcMatchesState, RollbackPcs, MustMark
  <1>2. v.end # TxID(x)
    BY <1>1, StampsDiffer DEF MarkOf
  <1>3. v.begin # TxID(x)
    <2>1. SUFFICES ASSUME v.begin = TxID(x)  PROVE FALSE
      OBVIOUS
    <2>2. v.end = TxID(t)
      <3>1. SUFFICES ASSUME v.end # TxID(t)  PROVE FALSE
        OBVIOUS
      <3>2. v.end.kind = "Timestamp" /\ v.begin.kind = "TxID"
        BY <2>1, <3>1, StampsDiffer DEF MarkOf
      <3> QED  BY <3>2 DEF StampedInOrder
    <2>3. Speculates(t, x)
      BY <1>1, <2>1, <2>2 DEF EndedSpeculatively
    <2>4. commit_dep_set[x] = {} /\ dependents[x] = {}
      BY DEF WritersOwe, OwingPcs, NotifyingOnly
    <2>5. abort_now[t]
      BY <2>3, <2>4 DEF Speculates
    <2>6. state[t] = "Committed"
      BY <2>5 DEF MustMark
    <2>7. pc[t] \in TaggingPcs
      BY <2>2 DEF Tagged, touched, MayTag
    <2>8. pc[t] = "rewrite"
      BY <2>6, <2>7 DEF PcMatchesState, TaggingPcs, CommittingPcs, RollbackPcs
    <2> QED  BY <2>5, <2>8 DEF Settled, SettledPcs
  <1> QED  BY <1>1, <1>2, <1>3

LEMMA MarkSurvivesVisit ==
    ASSUME StoreTypeOK, PcMatchesState, NotifyingOnly, Tagged, WritersOwe, Settled,
           EndedSpeculatively, StampedInOrder,
           NEW r \in Rows, NEW j \in 1 .. Len(versions[r]),
           NEW t \in Txns, MustMark(t), NEW x \in Txns,
           NEW v, v = versions[r][j], Marked(t, v), NEW w,
           (pc[x] = "rewrite" /\ Stamped(x, v, w)) \/ (pc[x] = "rb_undo" /\ Undone(x, v, w))
    PROVE  Marked(t, w)
  <1>1. CASE pc[x] = "rewrite" /\ Stamped(x, v, w)
    <2>1. state[x] = "Committed"
      BY <1>1 DEF PcMatchesState, CommittedPcs
    <2>2. ASSUME MarkOf(t, v.begin)  PROVE MarkOf(t, w.begin)
      BY <1>1, <2>1, <2>2, StampsDiffer DEF Stamped, MarkOf
    <2>3. ASSUME MarkOf(t, v.end)  PROVE MarkOf(t, w.end)
      BY <1>1, <2>1, <2>3, StampsDiffer DEF Stamped, MarkOf
    <2> QED  BY <2>2, <2>3 DEF Marked
  <1>2. CASE pc[x] = "rb_undo" /\ Undone(x, v, w)
    <2>1. state[x] = "Aborted" /\ x # t
      BY <1>2 DEF PcMatchesState, RollbackPcs, MustMark
    <2>2. ASSUME MarkOf(t, v.begin)  PROVE MarkOf(t, w.begin)
      <3>1. v.begin # TxID(x)
        BY <2>1, <2>2, StampsDiffer DEF MarkOf
      <3> QED  BY <1>2, <2>2, <3>1 DEF Undone
    <2>3. ASSUME MarkOf(t, v.end)  PROVE MarkOf(t, w.end)
      <3>1. v.begin # TxID(x) /\ v.end # TxID(x)
        BY <1>2, <2>3, UndoSparesEnds
      <3> QED  BY <1>2, <2>3, <3>1 DEF Undone
    <2> QED  BY <2>2, <2>3 DEF Marked
  <1> QED  BY <1>1, <1>2

LEMMA MarksStep ==
    ASSUME ChainInv, WritesRegistered, Marks, [Next]_vars
    PROVE  Marks'
  <1>0. /\ StoreTypeOK /\ PcMatchesState /\ NotifyingOnly /\ Tagged /\ WritersOwe /\ Settled
        /\ EndedSpeculatively /\ StampedInOrder
    BY DEF ChainInv, CommitLogInv, DependencyInv
  <1>1. SUFFICES ASSUME NEW t \in Txns, MustMark(t)', NEW r \in write_set'[t]
                 PROVE  \E i \in 1 .. Len(versions'[r]) : Marked(t, versions[r][i])'
    BY DEF Marks
  <1>2. MustMark(t) /\ \A stamp : MarkOf(t, stamp) => MarkOf(t, stamp)'
    BY <1>0, <1>1, MustMarkBefore
  <1>3. r \in Rows
    <2>1. StoreTypeOK'
      BY NextTyped DEF ChainInv, CommitLogInv, DependencyInv
    <2> QED  BY <1>1, <2>1 DEF StoreTypeOK
  <1>4. CASE Writes(t, r)
    <2>1. PICK i \in 1 .. Len(versions'[r]) : touched(t, versions'[r][i])
      BY <1>0, <1>3, <1>4, WriteOverwrites DEF Overwrites
    <2> QED  BY <2>1 DEF touched, Marked, MarkOf
  <1>5. CASE ~Writes(t, r)
    <2>1. r \in write_set[t]
      BY <1>0, <1>1, <1>3, <1>5, WriteSetSteps
    <2>2. PICK j \in 1 .. Len(versions[r]) : Marked(t, versions[r][j])
      BY <1>2, <2>1 DEF Marks
    <2>3. PICK v : v = versions[r][j]
      OBVIOUS
    <2>4. ASSUME NEW k \in 1 .. Len(versions'[r]), NEW w, w = versions'[r][k], Marked(t, w)
          PROVE  Marked(t, versions[r][k])'
      BY <1>2, <2>4 DEF Marked
    <2>5. CASE versions'[r] = versions[r]
      BY <2>2, <2>4, <2>5
    <2>6. ASSUME NEW x \in Txns, NEW q \in Rows, Writes(x, q)
          PROVE  \E k \in 1 .. Len(versions'[r]) : Marked(t, versions[r][k])'
      <3>1. Overwrites(x, q)
        BY <1>0, <2>6, WriteOverwrites
      <3>2. CASE q # r
        BY <1>3, <2>5, <3>1, <3>2 DEF Overwrites
      <3>3. CASE q = r
        <4>1. x # t
          BY <1>5, <2>6, <3>3
        <4>2. PICK k \in 1 .. Len(versions'[r]) :
                versions'[r][k] = v \/ EndsVisible(x, v, versions'[r][k])
          BY <2>3, <3>1, <3>3 DEF Overwrites
        <4>3. PICK w : w = versions'[r][k]
          OBVIOUS
        <4>4. Marked(t, w)
          BY <1>0, <1>2, <1>3, <2>2, <2>3, <4>1, <4>2, <4>3, MarkSurvivesWrite
        <4> QED  BY <2>4, <4>3, <4>4
      <3> QED  BY <3>2, <3>3
    <2>7. ASSUME NEW x \in Txns, NEW q \in Rows, Visits(x, q)
          PROVE  \E k \in 1 .. Len(versions'[r]) : Marked(t, versions[r][k])'
      <3>1. VisitedBy(x, q)
        BY <1>0, <2>7, VisitedChain
      <3>2. CASE q # r
        BY <1>3, <2>5, <3>1, <3>2 DEF VisitedBy
      <3>3. CASE q = r
        <4>1. PICK w : w = versions'[r][j]
          OBVIOUS
        <4>2. /\ j \in 1 .. Len(versions'[r])
              /\ \/ pc[x] = "rewrite" /\ Stamped(x, v, w)
                 \/ pc[x] = "rb_undo" /\ Undone(x, v, w)
          BY <2>3, <3>1, <3>3, <4>1 DEF VisitedBy
        <4>3. Marked(t, w)
          BY <1>0, <1>2, <1>3, <2>2, <2>3, <4>2, MarkSurvivesVisit
        <4> QED  BY <2>4, <4>1, <4>2, <4>3
      <3> QED  BY <3>2, <3>3
    <2> QED  BY <2>5, <2>6, <2>7, ChainSteps
  <1> QED  BY <1>4, <1>5

(* What check_version_conflicts lets pass.                                  *)
Ahead(y, u) ==
    state[y] = "Committed" \/ (state[y] = "Preparing" /\ end_ts[y] < end_ts[u])

Passes(u, v) ==
    /\ v.end.kind = "Timestamp" => v.end.v <= begin_ts[u]
    /\ \A x \in Txns : x # u /\ v.end = TxID(x) =>
         /\ v.begin = None => ~Ahead(x, u)
         /\ v.begin # None /\ state[x] = "Committed" => end_ts[x] <= begin_ts[u]
    /\ (v.end = None \/ \E x \in Txns : x # u /\ v.end = TxID(x) /\ state[x] # "Committed") =>
         /\ v.begin.kind # "Timestamp"
         /\ \A y \in Txns : y # u /\ v.begin = TxID(y) => ~Ahead(y, u)

LEMMA PassesValidation ==
    ASSUME StoreTypeOK, Tagged, NEW u \in Txns, NEW r \in Rows, NEW i \in 1 .. Len(versions[r]),
           NEW v, v = versions[r][i], ~version_conflicts(u, v)
    PROVE  Passes(u, v)
  <1>0. /\ v \in RowVersion
        /\ \A x \in Txns : begin_ts[x] \in Nat /\ end_ts[x] \in Nat
    BY DEF StoreTypeOK
  <1>1. ASSUME NEW x \in Txns, v.begin = TxID(x) \/ v.end = TxID(x)
        PROVE  lookup_tx_state(x) = state[x]
    BY <1>1 DEF Tagged, touched, MayTag, lookup_tx_state
  <1>2. ASSUME v.end.kind = "Timestamp"  PROVE v.end.v <= begin_ts[u]
    <2>1. v.end.v \in Nat
      BY <1>0, <1>2 DEF RowVersion, TxTimestampOrID, None
    <2>2. ~(v.end.v > begin_ts[u])
      BY <1>2 DEF version_conflicts
    <2> QED  BY <1>0, <2>1, <2>2
  <1>3. ASSUME NEW x \in Txns, x # u, v.end = TxID(x)
        PROVE  /\ v.begin = None => ~Ahead(x, u)
               /\ v.begin # None /\ state[x] = "Committed" => end_ts[x] <= begin_ts[u]
    <2>1. v.end.kind = "TxID" /\ v.end.v = x
      BY <1>3, StampsDiffer
    <2>2. lookup_tx_state(x) = state[x]
      BY <1>1, <1>3
    <2>3. v.begin = None => ~Ahead(x, u)
      BY <1>3, <2>1 DEF version_conflicts, Ahead
    <2>4. v.begin # None /\ state[x] = "Committed" => ~(end_ts[x] > begin_ts[u])
      BY <1>3, <2>1, <2>2 DEF version_conflicts
    <2> QED  BY <1>0, <2>3, <2>4
  <1>4. ASSUME v.end = None \/ \E x \in Txns : x # u /\ v.end = TxID(x) /\ state[x] # "Committed"
        PROVE  /\ v.begin.kind # "Timestamp"
               /\ \A y \in Txns : y # u /\ v.begin = TxID(y) => ~Ahead(y, u)
    <2>1. \/ v.end = None
          \/ v.end.kind = "TxID" /\ v.end.v # u /\ lookup_tx_state(v.end.v) # "Committed"
      <3>1. ASSUME NEW x \in Txns, x # u, v.end = TxID(x), state[x] # "Committed"
            PROVE  v.end.kind = "TxID" /\ v.end.v # u /\ lookup_tx_state(v.end.v) # "Committed"
        BY <1>1, <3>1, StampsDiffer
      <3> QED  BY <1>4, <3>1
    <2>2. v.begin.kind # "Timestamp"
      BY <2>1, StampsDiffer DEF version_conflicts
    <2>3. ASSUME NEW y \in Txns, y # u, v.begin = TxID(y)  PROVE ~Ahead(y, u)
      <3>1. v.begin.kind = "TxID" /\ v.begin.v = y /\ v.begin # None
        BY <2>3, StampsDiffer
      <3>2. lookup_tx_state(y) = state[y]
        BY <1>1, <2>3
      <3> QED  BY <2>1, <2>3, <3>1, <3>2 DEF version_conflicts, Ahead
    <2> QED  BY <2>2, <2>3
  <1> QED  BY <1>2, <1>3, <1>4 DEF Passes

(* A Preparing transaction that cannot commit any more: it was told to      *)
(* abort, or whom it depends on is rolling back and will tell it.           *)
Doomed(t) ==
    /\ state[t] = "Preparing"
    /\ \/ abort_now[t]
       \/ \E x \in Txns :
            state[x] = "Aborted" /\ (t \in commit_dep_set[x] \/ t \in dependents[x])

(* A row that a commit has validated: whoever else wrote it, or a key that  *)
(* conflicts with it, and has an earlier end timestamp had it before the    *)
(* commit's snapshot, or will not commit.                                   *)
Seal ==
    \A u \in Txns, t \in Txns, r \in Rows : \A q \in ConflictSet[r] :
      /\ Validated(u, r) /\ t \in Dated /\ t # u /\ q \in write_set[t] /\ end_ts[t] < end_ts[u]
      => end_ts[t] < begin_ts[u] \/ Doomed(t)

(* An earlier writer that ended a version and is still Preparing is only    *)
(* passed over when the creator of the version is rolling back.             *)
LEMMA EarlierEnder ==
    ASSUME ChainInv, ClockInv, OrderedStamps, NEW u \in Txns, NEW t \in Txns, NEW r \in Rows,
           t # u, state[t] = "Preparing", end_ts[t] < end_ts[u],
           NEW i \in 1 .. Len(versions[r]), NEW v, v = versions[r][i], Passes(u, v),
           v.end = TxID(t), v.begin # None
    PROVE  Doomed(t)
  <1>0. /\ StoreTypeOK /\ PcMatchesState /\ Tagged /\ EndedSpeculatively
    BY DEF ChainInv, CommitLogInv, DependencyInv
  <1>1. \A x \in Txns : begin_ts[x] \in Nat /\ end_ts[x] \in Nat
    BY <1>0 DEF StoreTypeOK
  <1>2. Ordered(v) /\ v \in RowVersion
    BY <1>0 DEF OrderedStamps, StoreTypeOK
  <1>3. Ahead(t, u) /\ begin_ts[t] < end_ts[t]
    BY DEF Ahead, Dated, ClockInv
  <1>4. /\ v.begin.kind # "Timestamp"
        /\ \A y \in Txns : y # u /\ v.begin = TxID(y) => ~Ahead(y, u)
    BY DEF Passes
  <1>5. PICK y \in Txns : v.begin = TxID(y)
    <2>1. v.begin.kind = "TxID"
      BY <1>2, <1>4 DEF RowVersion, TxTimestampOrID, None
    <2> QED  BY <1>2, <2>1, TagsAreIds
  <1>6. y # t
    BY <1>3, <1>4, <1>5
  <1>7. state[y] # "Active" /\ end_ts[y] < begin_ts[t]
    BY <1>2, <1>5, <1>6 DEF Ordered
  <1>8. end_ts[y] < end_ts[u]
    BY <1>1, <1>3, <1>7
  <1>9. y # u
    BY <1>1, <1>8
  <1>10. state[y] \notin {"Committed", "Preparing"}
    BY <1>4, <1>5, <1>8, <1>9 DEF Ahead
  <1>11. y \in txs /\ pc[y] \in TaggingPcs
    BY <1>0, <1>5 DEF Tagged, touched, MayTag
  <1>12. state[y] = "Aborted" /\ pc[y] # "rewrite"
    BY <1>0, <1>7, <1>10, <1>11 DEF PcMatchesState, TaggingPcs, CommittingPcs, CommittedPcs,
                                    RollbackPcs
  <1>13. Speculates(t, y)
    BY <1>0, <1>5, <1>6 DEF EndedSpeculatively
  <1> QED  BY <1>12, <1>13 DEF Doomed, Speculates

(* Validation finds the mark of the earlier writer, wherever it is.         *)
LEMMA ValidationSeals ==
    ASSUME ChainInv, ClockInv, OrderedStamps, Marks, NEW u \in Txns, NEW t \in Txns, NEW row \in Rows,
           NEW r \in ConflictSet[row],
           Validates(u, row), t \in Dated, t # u, r \in write_set[t], end_ts[t] < end_ts[u]
    PROVE  end_ts[t] < begin_ts[u] \/ Doomed(t)
  <1> r \in Rows
    BY MvStoreAssumption
  <1>0. /\ StoreTypeOK /\ PcMatchesState /\ Tagged /\ EndedSpeculatively /\ StampedInOrder
    BY DEF ChainInv, CommitLogInv, DependencyInv
  <1>1. \A x \in Txns : begin_ts[x] \in Nat /\ end_ts[x] \in Nat
    BY <1>0 DEF StoreTypeOK
  <1>2. SUFFICES ASSUME ~Doomed(t)  PROVE end_ts[t] <= begin_ts[u]
    BY <1>1 DEF ClockInv
  <1>3. MustMark(t)
    BY <1>2 DEF Dated, Doomed, MustMark
  <1>4. PICK i \in 1 .. Len(versions[r]) : Marked(t, versions[r][i])
    BY <1>3 DEF Marks
  <1>5. PICK v : v = versions[r][i]
    OBVIOUS
  <1>6. Passes(u, v)
    <2>1. ~version_conflicts(u, v)
      BY <1>4, <1>5 DEF Validates, check_version_conflicts
    <2> QED  BY <1>0, <1>5, <2>1, PassesValidation
  <1>7. Ordered(v) /\ v \in RowVersion
    BY <1>0, <1>5 DEF OrderedStamps, StoreTypeOK
  <1>8. Ahead(t, u) /\ begin_ts[t] < end_ts[t]
    BY DEF Ahead, Dated, ClockInv
  <1>9. state[u] = "Preparing"
    BY <1>0 DEF Validates, PcMatchesState, CommittingPcs
  <1>10. CASE v.end = Timestamp(end_ts[t])
    BY <1>6, <1>10 DEF Passes, Timestamp
  <1>11. CASE v.end = TxID(t)
    <2>1. CASE v.begin = None
      BY <1>6, <1>8, <1>11, <2>1 DEF Passes
    <2>2. CASE v.begin # None /\ state[t] = "Committed"
      BY <1>6, <1>11, <2>2 DEF Passes
    <2>3. CASE v.begin # None /\ state[t] # "Committed"
      <3>1. state[t] = "Preparing"
        BY <2>3 DEF Dated
      <3>2. Doomed(t)
        BY <1>5, <1>6, <1>11, <2>3, <3>1, EarlierEnder
      <3> QED  BY <1>2, <3>2
    <2> QED  BY <2>1, <2>2, <2>3
  <1>12. ASSUME MarkOf(t, v.begin), v.end # TxID(t)  PROVE end_ts[t] <= begin_ts[u]
    <2>1. \/ v.begin = TxID(t)
          \/ v.begin.kind = "Timestamp" /\ v.begin.v = end_ts[t]
      BY <1>12 DEF MarkOf, Timestamp
    <2>2. v.begin # None
      BY <2>1, StampsDiffer
    <2>3. ASSUME v.end = None \/ \E x \in Txns : x # u /\ v.end = TxID(x) /\ state[x] # "Committed"
          PROVE  FALSE
      <3>1. /\ v.begin.kind # "Timestamp"
            /\ \A y \in Txns : y # u /\ v.begin = TxID(y) => ~Ahead(y, u)
        BY <1>6, <2>3 DEF Passes
      <3> QED  BY <1>8, <2>1, <3>1
    <2>4. ASSUME NEW x \in Txns, v.end = TxID(x)  PROVE end_ts[t] < begin_ts[x]
      <3>1. x # t
        BY <1>12, <2>4
      <3> QED  BY <1>7, <2>1, <2>4, <3>1 DEF Ordered
    <2>5. CASE v.end.kind = "Timestamp"
      <3>1. v.end.v <= begin_ts[u] /\ v.end.v \in Nat
        BY <1>6, <1>7, <2>5 DEF Passes, RowVersion, TxTimestampOrID, None
      <3>2. v.begin.kind # "TxID"
        BY <1>0, <1>5, <2>5 DEF StampedInOrder
      <3>3. v.begin.kind = "Timestamp" /\ v.begin.v = end_ts[t]
        BY <2>1, <3>2, StampsDiffer
      <3>4. end_ts[t] <= v.end.v
        BY <1>7, <2>5, <3>3 DEF Ordered
      <3> QED  BY <1>1, <3>1, <3>4
    <2>6. CASE v.end.kind = "TxID"
      <3>1. PICK x \in Txns : v.end = TxID(x)
        BY <1>7, <2>6, TagsAreIds
      <3>2. CASE x = u
        BY <1>1, <2>4, <3>1, <3>2
      <3>3. CASE x # u
        <4>1. state[x] = "Committed"
          BY <2>3, <3>1, <3>3
        <4>2. end_ts[x] <= begin_ts[u]
          BY <1>6, <2>2, <3>1, <3>3, <4>1 DEF Passes
        <4>3. begin_ts[x] < end_ts[x]
          BY <4>1 DEF ClockInv, Dated
        <4> QED  BY <1>1, <2>4, <3>1, <4>2, <4>3
      <3> QED  BY <3>2, <3>3
    <2>7. v.end = None \/ v.end.kind \in {"Timestamp", "TxID"}
      BY <1>7 DEF RowVersion, TxTimestampOrID
    <2> QED  BY <2>3, <2>5, <2>6, <2>7
  <1> QED  BY <1>4, <1>5, <1>10, <1>11, <1>12 DEF Marked, MarkOf

(* A doomed transaction stays so until it rolls back: the one it depends on *)
(* keeps it in commit_dep_set or dependents, then sets its abort_now.       *)
LEMMA DoomedStays ==
    ASSUME ChainInv, WritesRegistered, [Next]_vars, NEW t \in Txns, Doomed(t), t \in Dated'
    PROVE  Doomed(t)'
  <1>0. /\ StoreTypeOK /\ PcMatchesState /\ NotifyingOnly /\ Tagged /\ WritersOwe /\ Settled
    BY DEF ChainInv, CommitLogInv, DependencyInv
  <1>1. state[t] = "Preparing"
    BY DEF Doomed
  <1>2. pc[t] \notin {"read_only", "commit_end"}
    BY <1>0 DEF Doomed, Settled, SettledPcs, Owes
  <1>3. state'[t] = "Preparing" /\ (pc[t] = "rb_undo" => FALSE)
    <2>1. CASE UNCHANGED vars
      BY <1>0, <1>1, <2>1 DEF vars, storeVars, PcMatchesState, RollbackPcs
    <2>2. ASSUME NEW y \in Txns, Dates(y)  PROVE state'[t] = "Preparing"
      <3>1. CASE t # y
        BY <1>1, <2>2, <3>1 DEF Dates, OthersStay
      <3>2. CASE t = y
        <4>1. t \in Dated
          BY <1>1 DEF Dated
        <4>2. Keeps(t)
          BY <1>0, <2>2, <3>2, <4>1, DatedStep
        <4> QED  BY <1>1, <1>2, <4>2 DEF Keeps, Advances, Dated
      <3> QED  BY <3>1, <3>2
    <2> QED  BY <1>0, <1>1, <2>1, <2>2, DatesSteps DEF PcMatchesState, RollbackPcs
  <1>4. CASE abort_now[t]
    BY <1>0, <1>3, <1>4, AbortNowStays DEF Doomed
  <1>5. ASSUME NEW x \in Txns, state[x] = "Aborted", t \in commit_dep_set[x] \/ t \in dependents[x]
        PROVE  Doomed(t)'
    <2>1. t \in txs /\ pc[x] # "rb_undo" /\ pc[x] # "notify" /\ pc[x] # "rewrite"
      <3>1. t \in txs
        <4>1. pc[t] \in ProgramCounter
          BY <1>0 DEF StoreTypeOK
        <4> QED  BY <1>0, <1>1, <4>1 DEF ProgramCounter, PcMatchesState, CommittingPcs,
                                         CommittedPcs, RollbackPcs
      <3>2. pc[x] \notin CommittedPcs
        BY <1>0, <1>5 DEF PcMatchesState
      <3>3. pc[x] # "rb_undo"
        BY <1>0, <1>5 DEF WritersOwe, OwingPcs, NotifyingOnly
      <3> QED  BY <3>1, <3>2, <3>3 DEF CommittedPcs
    <2>2. state'[x] = "Aborted"
      <3>1. CASE UNCHANGED vars
        BY <1>5, <3>1 DEF vars, storeVars
      <3>2. ASSUME NEW y \in Txns, Dates(y)  PROVE state'[x] = "Aborted"
        <4>1. CASE x # y
          BY <1>5, <3>2, <4>1 DEF Dates, OthersStay
        <4>2. CASE x = y
          <5>1. ~Begins(x) /\ ~Prepares(x) /\ ~Ends(x)
            BY <1>0, <1>5, <2>1 DEF Begins, Prepares, Ends, PcMatchesState
          <5>2. pc[x] \notin {"acquire_commit_lock", "read_only", "commit_end"}
            BY <1>0, <1>5 DEF PcMatchesState, CommittingPcs
          <5> QED  BY <1>5, <3>2, <4>2, <5>1, <5>2 DEF Dates, Keeps, Advances
        <4> QED  BY <4>1, <4>2
      <3> QED  BY <1>0, <3>1, <3>2, DatesSteps
    <2>3. SUFFICES t \in commit_dep_set'[x] \/ t \in dependents'[x] \/ abort_now'[t]
      BY <1>3, <2>2 DEF Doomed
    <2>4. CASE UNCHANGED vars
      BY <1>5, <2>4 DEF vars, depVars
    <2>5. ASSUME NEW y \in Txns, Moves(y)
          PROVE  t \in commit_dep_set'[x] \/ t \in dependents'[x]
      BY <1>5, <2>5 DEF Moves
    <2>6. ASSUME NEW y \in Txns, NEW q \in Rows, RowStatement(y, q)
          PROVE  t \in commit_dep_set'[x] \/ t \in dependents'[x]
      BY <1>0, <1>5, <2>6, StatementRegisters DEF RegistersOn
    <2>7. ASSUME NEW y \in Txns, Takes(y)
          PROVE  t \in commit_dep_set'[x] \/ t \in dependents'[x]
      <3>1. y = x => dependents[x] = {}
        BY <1>0, <2>7 DEF Takes, NotifyingOnly
      <3>2. y = x => dependents'[x] = commit_dep_set[x]
        BY <1>0, <2>7 DEF Takes, StoreTypeOK
      <3>3. y # x => dependents'[x] = dependents[x] /\ commit_dep_set'[x] = commit_dep_set[x]
        BY <1>0, <2>7 DEF Takes, StoreTypeOK
      <3> QED  BY <1>5, <3>1, <3>2, <3>3
    <2>8. ASSUME NEW y \in Txns, NEW d \in Txns, Pays(y, d)
          PROVE  t \in commit_dep_set'[x] \/ t \in dependents'[x] \/ abort_now'[t]
      <3>0. commit_dep_set' = commit_dep_set
        BY <2>8 DEF Pays
      <3>1. CASE y = x /\ d = t
        <4>1. dependents' = dependents \/ abort_now' = [abort_now EXCEPT ![t] = TRUE]
          BY <2>1, <2>8, <3>1 DEF Pays
        <4> QED  BY <1>0, <1>5, <3>0, <4>1 DEF StoreTypeOK
      <3>2. CASE y # x \/ d # t
        <4>1. dependents' \in {dependents, [dependents EXCEPT ![y] = @ \ {d}]}
          BY <2>8 DEF Pays
        <4>2. dependents \in [Txns -> SUBSET Txns]
          BY <1>0 DEF StoreTypeOK
        <4>3. dependents'[x] = dependents[x] \/ (x = y /\ dependents'[x] = dependents[x] \ {d})
          BY <4>1, <4>2
        <4> QED  BY <1>5, <3>0, <3>2, <4>3
      <3> QED  BY <3>1, <3>2
    <2>9. ASSUME NEW y \in Txns, Drops(y)
          PROVE  t \in commit_dep_set'[x] \/ t \in dependents'[x]
      BY <1>5, <2>9 DEF Drops
    <2> QED  BY <1>0, <2>4, <2>5, <2>6, <2>7, <2>8, <2>9, StepKinds, DebtSteps
  <1> QED  BY <1>4, <1>5 DEF Doomed

(* Who is validated keeps its timestamps, and was validated or just was.    *)
LEMMA ValidatedBefore ==
    ASSUME StoreTypeOK, PcMatchesState, WritesRegistered, [Next]_vars,
           NEW u \in Txns, NEW r \in Rows, Validated(u, r)'
    PROVE  /\ begin_ts'[u] = begin_ts[u] /\ end_ts'[u] = end_ts[u]
           /\ Validated(u, r) \/ Validates(u, r)
  <1>1. CASE UNCHANGED vars
    BY <1>1 DEF vars, storeVars, opVars, Validated
  <1>2. ASSUME NEW y \in Txns, Dates(y)
        PROVE  /\ begin_ts'[u] = begin_ts[u] /\ end_ts'[u] = end_ts[u]
               /\ Validated(u, r) \/ Validates(u, r)
    <2>1. CASE u # y
      BY <1>2, <2>1 DEF Dates, OthersStay, Validated
    <2>2. CASE u = y
      <3>1. ~Begins(u)
        BY DEF Begins, Validated, ValidatedPcs, PcMatchesState
      <3>2. ~Prepares(u)
        BY DEF Prepares, Validated, ValidatedPcs
      <3>3. ~Ends(u)
        BY DEF Ends, Validated
      <3>4. Keeps(u)
        BY <1>2, <2>2, <3>1, <3>2, <3>3 DEF Dates
      <3> QED  BY <3>4 DEF Keeps, Advances
    <2> QED  BY <2>1, <2>2
  <1> QED  BY <1>1, <1>2, DatesSteps

(* An end timestamp drawn now is later than all others.                     *)
LEMMA EarlierBefore ==
    ASSUME StoreTypeOK, PcMatchesState, WritesRegistered, ClockInv, [Next]_vars,
           NEW t \in Txns, t \in Dated', NEW n \in Nat, n < clock, end_ts'[t] < n,
           NEW r \in Rows, r \in write_set'[t]
    PROVE  t \in Dated /\ end_ts'[t] = end_ts[t] /\ r \in write_set[t]
  <1>1. CASE UNCHANGED vars
    BY <1>1 DEF vars, storeVars, opVars, Dated
  <1>2. ASSUME NEW y \in Txns, Dates(y)  PROVE t \in Dated /\ end_ts'[t] = end_ts[t]
    <2>1. CASE t # y
      BY <1>2, <2>1 DEF Dates, OthersStay, Dated
    <2>2. CASE t = y
      <3>1. clock \in Nat
        BY DEF StoreTypeOK
      <3>2. ~Prepares(t)
        BY <3>1 DEF Prepares
      <3> QED  BY <1>2, <2>2, <3>2, DatedStep
    <2> QED  BY <2>1, <2>2
  <1>3. t \in Dated /\ end_ts'[t] = end_ts[t]
    BY <1>1, <1>2, DatesSteps
  <1>4. ~Writes(t, r)
    BY <1>3, WriteRegisters DEF Dated
  <1> QED  BY <1>3, <1>4, WriteSetSteps

LEMMA SealStep ==
    ASSUME ChainInv, WritesRegistered, ClockInv, OrderedStamps, Marks, Seal, [Next]_vars
    PROVE  Seal'
  <1>0. StoreTypeOK /\ PcMatchesState
    BY DEF ChainInv, CommitLogInv, DependencyInv
  <1>1. SUFFICES ASSUME NEW u \in Txns, NEW t \in Txns, NEW r \in Rows, NEW q \in ConflictSet[r],
                        Validated(u, r)',
                        t \in Dated', t # u, q \in write_set'[t], end_ts'[t] < end_ts'[u]
                 PROVE  end_ts'[t] < begin_ts'[u] \/ Doomed(t)'
    BY DEF Seal
  <1> q \in Rows
    BY MvStoreAssumption
  <1>2. /\ begin_ts'[u] = begin_ts[u] /\ end_ts'[u] = end_ts[u]
        /\ Validated(u, r) \/ Validates(u, r)
    BY <1>0, <1>1, ValidatedBefore
  <1>3. end_ts[u] \in Nat /\ end_ts[u] < clock
    BY <1>0 DEF StoreTypeOK, ClockInv
  <1>4. t \in Dated /\ end_ts'[t] = end_ts[t] /\ q \in write_set[t]
    BY <1>0, <1>1, <1>2, <1>3, EarlierBefore
  <1>5. end_ts[t] < begin_ts[u] \/ Doomed(t)
    <2>1. CASE Validated(u, r)
      BY <1>1, <1>2, <1>4, <2>1 DEF Seal
    <2>2. CASE Validates(u, r)
      BY <1>1, <1>2, <1>4, <2>2, ValidationSeals
    <2> QED  BY <1>2, <2>1, <2>2
  <1>6. Doomed(t) => Doomed(t)'
    BY <1>1, DoomedStays
  <1> QED  BY <1>2, <1>4, <1>5, <1>6

CommitterInv ==
    ChainInv /\ WritesRegistered /\ ClockInv /\ OrderedStamps /\ Marks /\ Seal

LEMMA CommitterInit == Init => CommitterInv
  <1> SUFFICES ASSUME Init PROVE CommitterInv
    OBVIOUS
  <1>1. ChainInv
    BY ChainInit
  <1>2. \A t \in Txns : /\ state[t] = "Unborn" /\ begin_ts[t] = 0 /\ end_ts[t] = 0
                        /\ write_set[t] = {} /\ pc[t] = "idle"
                        /\ \A r \in Rows : wrote[t][r] = Unwritten
    BY DEF Init
  <1>3. clock = 1
    BY DEF Init
  <1>4. WritesRegistered /\ ClockInv
    BY <1>2, <1>3 DEF WritesRegistered, ClockInv, Dated
  <1>5. Marks /\ Seal
    BY <1>2 DEF Marks, Seal, Validated
  <1>6. OrderedStamps
    <2>1. \A r \in Rows : versions[r] = <<>>
      BY DEF Init
    <2>2. Len(<<>>) = 0 /\ 1 .. 0 = {}
      OBVIOUS
    <2> QED  BY <2>1, <2>2 DEF OrderedStamps
  <1> QED  BY <1>1, <1>4, <1>5, <1>6 DEF CommitterInv

LEMMA CommitterStep ==
    ASSUME CommitterInv, [Next]_vars
    PROVE  CommitterInv'
  <1>1. ChainInv /\ WritesRegistered /\ ClockInv /\ OrderedStamps /\ Marks /\ Seal
    BY DEF CommitterInv
  <1>2. /\ StoreTypeOK /\ PcMatchesState /\ Tagged /\ Settled /\ RewriterAlone
        /\ EndedSpeculatively /\ StampedInOrder
    BY <1>1 DEF ChainInv, CommitLogInv, DependencyInv
  <1>3. ChainInv' /\ WritesRegistered' /\ ClockInv'
    BY <1>1, <1>2, ChainStep, WritesRegisteredStep, ClockInvStep
  <1>4. OrderedStamps'
    BY <1>1, <1>2, OrderedStampsStep
  <1>5. Marks' /\ Seal'
    BY <1>1, MarksStep, SealStep
  <1> QED  BY <1>3, <1>4, <1>5 DEF CommitterInv

(* Of two committed transactions that wrote one row, the later began after  *)
(* the earlier one's commit timestamp: whatever they read of each other     *)
(* speculatively, whoever rolled back in between, in whichever order their  *)
(* validations, waits and rewrites took place.  Validation finds the mark   *)
(* of the earlier writer in the chain, or that writer depends on one that   *)
(* rolled back and never gets past WaitForDependencies.                     *)
THEOREM TheFirstCommitterWins == Spec => []FirstCommitterWins
  <1>1. ASSUME CommitterInv  PROVE FirstCommitterWins
    <2>1. WritesRegistered /\ ClockInv /\ Seal /\ StoreTypeOK
      BY <1>1 DEF CommitterInv, ChainInv, CommitLogInv, DependencyInv
    <2>2. ASSUME NEW r \in Rows, NEW t \in WritersOf(r), NEW u \in WritersOf(r), t # u,
                 end_ts[t] < end_ts[u]
          PROVE  end_ts[t] < begin_ts[u]
      <3>1. /\ t \in Txns /\ u \in Txns /\ state[t] = "Committed" /\ state[u] = "Committed"
            /\ r \in write_set[t] /\ r \in write_set[u]
        BY <2>1 DEF WritersOf, Committed, WritesRegistered
      <3>2. Validated(u, r) /\ t \in Dated /\ ~Doomed(t)
        BY <3>1 DEF Validated, Dated, Doomed
      <3>3. r \in ConflictSet[r]
        BY MvStoreAssumption
      <3> QED  BY <2>1, <2>2, <3>1, <3>2, <3>3 DEF Seal
    <2>3. ASSUME NEW r \in Rows, NEW t \in WritersOf(r), NEW u \in WritersOf(r), t # u
          PROVE  end_ts[t] < end_ts[u] \/ end_ts[u] < end_ts[t]
      <3>1. t \in Txns /\ u \in Txns /\ t \in Dated /\ u \in Dated
        BY DEF WritersOf, Committed, Dated
      <3>2. end_ts[t] # end_ts[u]
        BY <2>1, <2>3, <3>1 DEF ClockInv
      <3>3. end_ts[t] \in Nat /\ end_ts[u] \in Nat
        BY <2>1, <3>1 DEF StoreTypeOK
      <3> QED  BY <3>2, <3>3
    <2> QED  BY <2>2, <2>3 DEF FirstCommitterWins
  <1>2. CommitterInv /\ [Next]_vars => CommitterInv'
    BY CommitterStep
  <1> QED  BY CommitterInit, <1>1, <1>2, PTL DEF Spec

-----------------------------------------------------------------------------
(* The log records and the frames.  A record is folded together from the    *)
(* chains of the write set, version by version.                             *)

CollectStep(t, acc, rv) ==
    IF touched(t, rv) THEN insert_version_raw(acc, to_timestamps(t, rv)) ELSE acc

LEMMA CollectStepTyped ==
    ASSUME StoreTypeOK, NEW t \in Txns, NEW acc \in Seq(RowVersion), NEW rv \in RowVersion
    PROVE  CollectStep(t, acc, rv) \in Seq(RowVersion)
  <1>1. end_ts[t] \in Nat
    BY DEF StoreTypeOK
  <1>2. to_timestamps(t, rv) \in RowVersion
    BY <1>1, StampsTyped DEF to_timestamps, RowVersion
  <1>3. PICK w : w = to_timestamps(t, rv)
    OBVIOUS
  <1>4. insert_version_raw(acc, w) \in Seq(RowVersion)
    BY <1>2, <1>3, InsertVersionTyped
  <1> QED  BY <1>3, <1>4 DEF CollectStep

(* What collect_versions has made of the first i versions, for every i.     *)
LEMMA CollectSteps ==
    ASSUME StoreTypeOK, NEW t \in Txns, NEW record \in Seq(RowVersion),
           NEW chain \in Seq(RowVersion)
    PROVE  \E h \in [0 .. Len(chain) -> Seq(RowVersion)] :
             /\ h[0] = record /\ collect_versions(t, record, chain) = h[Len(chain)]
             /\ \A i \in 1 .. Len(chain) : h[i] = CollectStep(t, h[i - 1], chain[i])
  <1> DEFINE X == Seq(RowVersion)
             N == Len(chain)
  <1>1. N \in Nat /\ DOMAIN chain = 1 .. N /\ \A i \in 1 .. N : chain[i] \in RowVersion
    OBVIOUS
  <1>2. PICK step : step = [a \in (1 .. N) \X X |-> CollectStep(t, a[2], chain[a[1]])]
    OBVIOUS
  <1>3. \A i \in 1 .. N, x \in X : step[<<i, x>>] = CollectStep(t, x, chain[i])
    BY <1>2
  <1>4. step \in [(1 .. N) \X X -> X]
    <2>1. \A a \in (1 .. N) \X X : a[1] \in 1 .. N /\ a[2] \in X
      OBVIOUS
    <2>2. \A a \in (1 .. N) \X X : CollectStep(t, a[2], chain[a[1]]) \in X
      <3> HIDE DEF N
      <3> QED  BY <1>1, <2>1, CollectStepTyped
    <2> HIDE DEF X, N
    <2> QED  BY <1>2, <2>2
  <1>5. PICK g \in [SUBSET (1 .. N) -> X] : FoldEquation(g, N, record, step)
    <2> HIDE DEF X, N
    <2>1. record \in X
      BY DEF X
    <2> QED  BY <1>1, <1>4, <2>1, FoldExists
  <1> DEFINE Eq(f) == f = [s \in SUBSET (1 .. N) |->
                             IF s = {} THEN record
                             ELSE CollectStep(t, f[s \ {Max(s)}], chain[Max(s)])]
             D == 1 .. N
  <1>6. Eq(g)
    <2>1. ASSUME NEW s \in SUBSET D, s # {}
          PROVE  step[<<Max(s), g[s \ {Max(s)}]>>] = CollectStep(t, g[s \ {Max(s)}], chain[Max(s)])
      <3>1. s \subseteq Nat /\ \A x \in s : x <= N
        BY <1>1
      <3>2. Max(s) \in s
        BY <1>1, <2>1, <3>1, MaxOf
      <3>3. Max(s) \in 1 .. N /\ s \ {Max(s)} \in SUBSET D
        BY <3>2
      <3>4. g[s \ {Max(s)}] \in X
        BY <1>5, <3>3
      <3> HIDE DEF N, X
      <3> QED  BY <1>3, <3>3, <3>4
    <2> HIDE DEF N, X
    <2> QED  BY <1>5, <2>1 DEF FoldEquation
  <1>7. collect_versions(t, record, chain) = (CHOOSE f : Eq(f))[D]
    BY <1>1 DEF collect_versions, FoldLeft, MapThenFoldSet, CollectStep
  <1>8. PICK f : f = CHOOSE ff : Eq(ff)
    OBVIOUS
  <1>9. Eq(f)
    BY <1>6, <1>8
  <1>10. \A s \in SUBSET D : f[s] = IF s = {} THEN record
                                    ELSE CollectStep(t, f[s \ {Max(s)}], chain[Max(s)])
    BY <1>9
  <1> HIDE DEF Eq
  <1>11. PICK h : h = [i \in 0 .. N |-> f[1 .. i]]
    OBVIOUS
  <1>12. h[0] = record /\ collect_versions(t, record, chain) = h[N]
    <2>1. 1 .. 0 = {} /\ 1 .. 0 \in SUBSET D
      OBVIOUS
    <2>2. h[0] = f[1 .. 0] /\ h[N] = f[D]
      BY <1>1, <1>11
    <2> QED  BY <1>7, <1>8, <1>10, <2>1, <2>2
  <1>13. ASSUME NEW i \in 1 .. N  PROVE h[i] = CollectStep(t, h[i - 1], chain[i])
    <2>0. i \in Nat /\ i > 0
      BY <1>1
    <2>1. /\ 1 .. i # {} /\ Max(1 .. i) = i /\ (1 .. i) \ {i} = 1 .. i - 1
      <3>1. Max(1 .. i) = i
        BY <2>0, PrefixMax
      <3>2. 1 .. i # {} /\ (1 .. i) \ {i} = 1 .. i - 1
        BY <2>0
      <3> QED  BY <3>1, <3>2
    <2>2. 1 .. i \in SUBSET D /\ i \in 0 .. N /\ i - 1 \in 0 .. N
      BY <1>1
    <2>3. h[i] = f[1 .. i] /\ h[i - 1] = f[1 .. i - 1]
      BY <1>11, <2>2
    <2> QED  BY <1>10, <2>1, <2>2, <2>3
  <1>14. \A i \in 0 .. N : h[i] \in X
    <2> DEFINE Bad == {i \in 0 .. N : h[i] \notin X}
    <2>1. SUFFICES ASSUME Bad # {}  PROVE FALSE
      OBVIOUS
    <2>2. Bad \subseteq Nat
      BY <1>1
    <2>3. PICK i \in Bad : \A m \in Bad : i <= m
      <3> HIDE DEF Bad
      <3> QED  BY <2>1, <2>2, LeastNumber
    <2>4. i # 0 /\ i \in 1 .. N
      BY <1>1, <1>12, <2>3
    <2>5. i - 1 \in 0 .. N /\ i - 1 \notin Bad
      BY <1>1, <2>3, <2>4
    <2>6. h[i - 1] \in X /\ chain[i] \in RowVersion
      BY <1>1, <2>4, <2>5
    <2>7. CollectStep(t, h[i - 1], chain[i]) \in X
      BY <2>6, CollectStepTyped
    <2>8. h[i] \in X
      BY <1>13, <2>4, <2>7
    <2> QED  BY <2>3, <2>8
  <1>15. h \in [0 .. N -> X]
    BY <1>11, <1>14
  <1> QED  BY <1>12, <1>13, <1>15

LEMMA FrameTyped ==
    ASSUME StoreTypeOK, NEW t \in Txns, NEW record \in Seq(RowVersion)
    PROVE  [tx |-> t, ts |-> end_ts[t], ops |-> MapChain(record, serialize_op_entry),
            header |-> IF header_dirty[t] THEN header[t] ELSE {}] \in Frame
  <1>1. Absent \in Value
    BY DEF Value
  <1>2. ASSUME NEW rv \in RowVersion  PROVE serialize_op_entry(rv) \in LogOp
    BY <1>1 DEF serialize_op_entry, RowVersion, LogOp
  <1>3. PICK s : s = MapChain(record, serialize_op_entry)
    OBVIOUS
  <1>4. s = [i \in 1 .. Len(record) |-> serialize_op_entry(record[i])]
    BY <1>3 DEF MapChain
  <1>5. \A i \in 1 .. Len(record) : serialize_op_entry(record[i]) \in LogOp
    BY <1>2
  <1>6. s \in Seq(LogOp)
    <2>1. Len(record) \in Nat
      OBVIOUS
    <2> QED  BY <1>4, <1>5, <2>1
  <1>7. /\ end_ts[t] \in Nat /\ (IF header_dirty[t] THEN header[t] ELSE {}) \in SUBSET Txns
    BY DEF StoreTypeOK
  <1> QED  BY <1>3, <1>6, <1>7 DEF Frame

(* The frames written so far, and the record of every commit under way.     *)
RecordsTyped == log_record \in [Txns -> Seq(RowVersion)] /\ log \in Seq(Frame)

LEMMA RecordsTypedStep ==
    ASSUME StoreTypeOK, LogInv, RecordsTyped, [Next]_vars
    PROVE  RecordsTyped'
  <1> USE DEF storeVars, lockVars, depVars, logVars, markVars, headerVars, opVars
  <1>1. CASE UNCHANGED vars \/ Finished
    BY <1>1 DEF Finished, vars, RecordsTyped
  <1>2. ASSUME NEW t \in Txns, Begin(t) \/ Statement(t) \/ commit_initial(t)
        PROVE  RecordsTyped'
    <2>1. UNCHANGED <<log_record, log>>
      BY <1>2 DEF Begin, begin_tx, begin_exclusive_tx, upgrade_to_exclusive,
             acquire_exclusive_tx, acquire_pager_commit_lock, Refused, Statement,
             with_header_mut, read_visible, read_btree, write_conflict, update, insert,
             delete, insert_tombstone, StatementFrame, commit_initial
    <2> QED  BY <2>1 DEF RecordsTyped
  <1>3. ASSUME NEW t \in Txns, NEW r \in Rows, build_committed_log_record(t, r)
        PROVE  RecordsTyped'
    <2>1. PICK record, chain : record = log_record[t] /\ chain = versions[r]
      OBVIOUS
    <2>2. record \in Seq(RowVersion) /\ chain \in Seq(RowVersion)
      BY <2>1 DEF RecordsTyped, StoreTypeOK
    <2>3. collect_versions(t, record, chain) \in Seq(RowVersion)
      <3>1. PICK h \in [0 .. Len(chain) -> Seq(RowVersion)] :
                   collect_versions(t, record, chain) = h[Len(chain)]
        BY <2>2, CollectSteps
      <3>2. Len(chain) \in 0 .. Len(chain)
        BY <2>2
      <3>3. h[Len(chain)] \in Seq(RowVersion)
        <4>1. PICK n : n = Len(chain)
          OBVIOUS
        <4> QED  BY <3>1, <3>2, <4>1
      <3> QED  BY <3>1, <3>3
    <2>4. PICK z : z = collect_versions(t, record, chain)
      OBVIOUS
    <2>5. log_record' = [log_record EXCEPT ![t] = z] /\ log' = log
      BY <1>3, <2>1, <2>4 DEF build_committed_log_record
    <2> QED  BY <2>3, <2>4, <2>5 DEF RecordsTyped
  <1>4. ASSUME NEW t \in Txns, begin_commit_logical_log(t)
        PROVE  RecordsTyped'
    <2>1. PICK f : f = [tx |-> t, ts |-> end_ts[t],
                        ops |-> MapChain(log_record[t], serialize_op_entry),
                        header |-> IF header_dirty[t] THEN header[t] ELSE {}]
      OBVIOUS
    <2>2. f \in Frame
      <3>1. log_record[t] \in Seq(RowVersion)
        BY DEF RecordsTyped
      <3> QED  BY <2>1, <3>1, FrameTyped
    <2>3. log' = Append(SubSeq(log, 1, log_offset), f) /\ log_record' = log_record
      BY <1>4, <2>1 DEF begin_commit_logical_log, log_tx
    <2>4. log_offset \in Nat /\ log_offset <= Len(log)
      BY DEF LogInv, StoreTypeOK
    <2>5. log' \in Seq(Frame \cup {f})
      BY <2>3, <2>4, AppendBehindOwned DEF RecordsTyped
    <2>6. Frame \cup {f} = Frame
      BY <2>2
    <2> QED  BY <2>3, <2>5, <2>6 DEF RecordsTyped
  <1>5. ASSUME NEW t \in Txns, commit_remove(t) \/ rollback_terminate(t)
        PROVE  RecordsTyped'
    <2>1. log_record' = [log_record EXCEPT ![t] = <<>>] /\ log' = log
      BY <1>5 DEF commit_remove, rollback_terminate, remove_tx
    <2> QED  BY <2>1 DEF RecordsTyped
  <1>6. ASSUME NEW t \in Txns, Commit(t) \/ abandon(t) \/ rollback_tx(t) \/ Rollback(t),
               \A r \in Rows : ~build_committed_log_record(t, r),
               ~begin_commit_logical_log(t), ~commit_remove(t), ~rollback_terminate(t)
        PROVE  RecordsTyped'
    <2>1. CASE Commit(t)
      <3>1. UNCHANGED <<log_record, log>>
        BY <1>6, <2>1 DEF Commit, commit_check_exclusive, commit_validate_none,
           wait_for_dependencies, wait_recheck_abort_now, commit_read_only, sync_logical_log,
           commit_end, commit_take_dependents, commit_unlock, commit_publish,
           commit_release_exclusive, commit_validate, rewrite_live_versions, commit_notify,
           CommitFrame
      <3> QED  BY <3>1 DEF RecordsTyped
    <2>2. CASE abandon(t) \/ rollback_tx(t) \/ Rollback(t)
      <3>1. UNCHANGED <<log_record, log>>
        BY <1>6, <2>2 DEF abandon, rollback_tx, Rollback, rollback_take_dependents,
           rollback_release_dependent, rollback_release_exclusive, rollback_rowid,
           rollback_abort_dependent
      <3> QED  BY <3>1 DEF RecordsTyped
    <2> QED  BY <1>6, <2>1, <2>2
  <1> QED  BY <1>1, <1>2, <1>3, <1>4, <1>5, <1>6 DEF Next

(* Every variable of the store, the log records and the frames of the log   *)
(* stay within their types.                                                 *)
THEOREM TypesAreCorrect == Spec => []TypeOK
  <1>1. Init => RecordsTyped
    BY DEF Init, RecordsTyped
  <1>2. DependencyInv /\ CommitLogInv /\ RecordsTyped /\ [Next]_vars => RecordsTyped'
    BY RecordsTypedStep DEF DependencyInv, CommitLogInv
  <1>3. DependencyInv /\ RecordsTyped => TypeOK
    BY DEF TypeOK, DependencyInv, RecordsTyped
  <1>4. DependencyInv /\ CommitLogInv /\ [Next]_vars => CommitLogInv'
    BY CommitLogStep
  <1>5. DependencyInv /\ [Next]_vars => DependencyInv'
    BY DependencyStep
  <1> QED  BY <1>1, <1>2, <1>3, <1>4, <1>5, DependencyInit, CommitLogInit, PTL DEF Spec

-----------------------------------------------------------------------------
(* The order of the log.  A commit that has validated a row still has to    *)
(* wait for every earlier writer of the row that is not committed, unless   *)
(* that one cannot commit any more: it has ended that writer's version and  *)
(* so depends on it.                                                        *)

Awaits(u, t) == u \in commit_dep_set[t] \/ u \in dependents[t] \/ abort_now[u]

Waiting ==
    \A u \in Txns, t \in Txns, r \in Rows :
      /\ Validated(u, r) /\ state[t] = "Preparing" /\ t # u
      /\ r \in write_set[t] /\ end_ts[t] < end_ts[u]
      => Doomed(t) \/ (state[u] = "Preparing" /\ Awaits(u, t))

(* Validation fails on the mark of an earlier Preparing writer, except on a *)
(* version the commit itself has ended.                                     *)
LEMMA ValidationAwaits ==
    ASSUME ChainInv, ClockInv, OrderedStamps, Marks, NEW u \in Txns, NEW t \in Txns, NEW r \in Rows,
           Validates(u, r), state[t] = "Preparing", t # u, r \in write_set[t],
           end_ts[t] < end_ts[u]
    PROVE  Doomed(t) \/ Awaits(u, t)
  <1>0. /\ StoreTypeOK /\ PcMatchesState /\ Tagged /\ Settled /\ EndedSpeculatively
        /\ StampedInOrder
    BY DEF ChainInv, CommitLogInv, DependencyInv
  <1>1. SUFFICES ASSUME ~Doomed(t)  PROVE Awaits(u, t)
    OBVIOUS
  <1>2. MustMark(t) /\ pc[t] # "rewrite"
    BY <1>0, <1>1 DEF Doomed, MustMark, PcMatchesState, CommittedPcs
  <1>3. PICK i \in 1 .. Len(versions[r]) : Marked(t, versions[r][i])
    BY <1>2 DEF Marks
  <1>4. PICK v : v = versions[r][i]
    OBVIOUS
  <1>5. v.begin = TxID(t) \/ v.end = TxID(t)
    BY <1>3, <1>4 DEF Marked, MarkOf
  <1>6. Passes(u, v) /\ v \in RowVersion
    <2>1. ~version_conflicts(u, v)
      BY <1>4, MvStoreAssumption DEF Validates, check_version_conflicts
    <2>2. v \in RowVersion
      BY <1>0, <1>4 DEF StoreTypeOK
    <2>3. Passes(u, v)
      BY <1>0, <1>4, <2>1, PassesValidation
    <2> QED  BY <2>2, <2>3
  <1>7. Ahead(t, u)
    BY DEF Ahead
  <1>8. v.end # TxID(t)
    <2>1. SUFFICES ASSUME v.end = TxID(t)  PROVE FALSE
      OBVIOUS
    <2>2. v.begin # None
      BY <1>6, <1>7, <2>1 DEF Passes
    <2>3. Doomed(t)
      BY <1>4, <1>6, <2>1, <2>2, EarlierEnder
    <2> QED  BY <1>1, <2>3
  <1>9. v.begin = TxID(t) /\ v.begin.kind = "TxID"
    BY <1>5, <1>8, StampsDiffer
  <1>10. ~(v.end = None \/ \E x \in Txns : x # u /\ v.end = TxID(x) /\ state[x] # "Committed")
    BY <1>6, <1>7, <1>9 DEF Passes
  <1>11. v.end.kind # "Timestamp"
    BY <1>0, <1>4, <1>9 DEF StampedInOrder
  <1>12. PICK x \in Txns : v.end = TxID(x)
    <2>1. v.end.kind = "TxID"
      BY <1>6, <1>10, <1>11 DEF RowVersion, TxTimestampOrID
    <2> QED  BY <1>6, <2>1, TagsAreIds
  <1>13. Speculates(x, t)
    BY <1>0, <1>4, <1>8, <1>9, <1>12 DEF EndedSpeculatively
  <1>14. x = u
    <2>1. SUFFICES ASSUME x # u  PROVE FALSE
      OBVIOUS
    <2>2. state[x] = "Committed"
      BY <1>10, <1>12, <2>1
    <2>3. pc[x] \in TaggingPcs
      BY <1>0, <1>4, <1>12 DEF Tagged, touched, MayTag
    <2>4. pc[x] = "rewrite"
      BY <1>0, <2>2, <2>3 DEF PcMatchesState, TaggingPcs, CommittingPcs, RollbackPcs
    <2>5. ~Owes(t, x) /\ ~abort_now[x]
      BY <1>0, <2>4 DEF Settled, SettledPcs
    <2> QED  BY <1>2, <1>13, <2>5 DEF Speculates, Owes
  <1> QED  BY <1>2, <1>13, <1>14 DEF Speculates, Awaits

(* A Preparing transaction, a step before.                                  *)
LEMMA PreparingBefore ==
    ASSUME StoreTypeOK, PcMatchesState, WritesRegistered, [Next]_vars, NEW t \in Txns,
           t \in Dated, t \in Dated'
    PROVE  \/ state'[t] = state[t]
           \/ state'[t] = "Committed" /\ pc[t] \in {"read_only", "commit_end"}
  <1>1. CASE UNCHANGED vars
    BY <1>1 DEF vars, storeVars
  <1>2. ASSUME NEW y \in Txns, Dates(y), y # t  PROVE state'[t] = state[t]
    BY <1>2 DEF Dates, OthersStay
  <1>3. CASE Dates(t)
    <2>1. Keeps(t)
      BY <1>3, DatedStep
    <2> QED  BY <2>1 DEF Keeps, Advances, Dated
  <1> QED  BY <1>1, <1>2, <1>3, DatesSteps

LEMMA WaitingStep ==
    ASSUME ChainInv, ChainInv', WritesRegistered, ClockInv, OrderedStamps, Marks, Waiting,
           [Next]_vars
    PROVE  Waiting'
  <1>0. /\ StoreTypeOK /\ PcMatchesState /\ PcMatchesState' /\ Tagged /\ Settled /\ DependencyInv
        /\ LogInv
    BY DEF ChainInv, CommitLogInv, DependencyInv
  <1>1. SUFFICES ASSUME NEW u \in Txns, NEW t \in Txns, NEW r \in Rows, Validated(u, r)',
                        state'[t] = "Preparing", t # u, r \in write_set'[t],
                        end_ts'[t] < end_ts'[u]
                 PROVE  Doomed(t)' \/ (state'[u] = "Preparing" /\ Awaits(u, t)')
    BY DEF Waiting
  <1>2. /\ end_ts'[u] = end_ts[u] /\ (Validated(u, r) \/ Validates(u, r))
    BY <1>0, <1>1, ValidatedBefore
  <1>3. end_ts[u] \in Nat /\ end_ts[u] < clock
    BY <1>0 DEF StoreTypeOK, ClockInv
  <1>4. t \in Dated' /\ t \in Dated /\ end_ts'[t] = end_ts[t] /\ r \in write_set[t]
    <2>1. t \in Dated'
      BY <1>1 DEF Dated
    <2> QED  BY <1>0, <1>1, <1>2, <1>3, <2>1, EarlierBefore
  <1>5. state[t] = "Preparing"
    BY <1>0, <1>1, <1>4, PreparingBefore
  <1>6. Doomed(t) \/ (state[u] = "Preparing" /\ Awaits(u, t))
    <2>1. CASE Validated(u, r)
      BY <1>1, <1>2, <1>4, <1>5, <2>1 DEF Waiting
    <2>2. CASE Validates(u, r)
      <3>1. state[u] = "Preparing"
        BY <1>0, <2>2 DEF Validates, PcMatchesState, CommittingPcs
      <3> QED  BY <1>1, <1>2, <1>4, <1>5, <2>2, <3>1, ValidationAwaits
    <2> QED  BY <1>2, <2>1, <2>2
  <1>7. CASE Doomed(t)
    BY <1>4, <1>7, DoomedStays
  <1>8. CASE state[u] = "Preparing" /\ Awaits(u, t)
    <2>1. u \in Dated /\ u \in Dated'
      <3>1. state'[u] \in {"Preparing", "Committed"}
        BY <1>0, <1>1 DEF Validated, ValidatedPcs, PcMatchesState, CommittingPcs
      <3> QED  BY <1>8, <3>1 DEF Dated
    <2>2. pc[u] \notin SettledPcs
      BY <1>0, <1>8 DEF Awaits, Settled, Owes
    <2>3. state'[u] = "Preparing"
      BY <1>0, <1>8, <2>1, <2>2, PreparingBefore DEF SettledPcs
    <2>4. r \in write_set[u]
      <3>1. ~Writes(u, r)
        BY <1>0, <1>8, WriteRegisters
      <3> QED  BY <1>0, <1>1, <3>1, WriteSetSteps DEF Validated
    <2>5. ASSUME NEW x \in Txns, state[x] = "Preparing", r \in write_set[x]
          PROVE  MayTag(x, r)
      <3>1. pc[x] \in ProgramCounter
        BY <1>0 DEF StoreTypeOK
      <3>2. pc[x] # "read_only"
        BY <1>0, <2>5 DEF LogInv, is_read_only
      <3>3. x \in txs /\ pc[x] \in {"rollback", "commit", "validate", "wait", "wait_recheck",
                                    "build", "sync", "commit_end"}
        BY <1>0, <2>5, <3>1, <3>2 DEF ProgramCounter, PcMatchesState, CommittingPcs,
                                      CommittedPcs, RollbackPcs
      <3> QED  BY <2>5, <3>3 DEF MayTag, TaggingPcs, LoopPcs
    <2>6. MayTag(t, r) /\ MayTag(u, r)
      BY <1>4, <1>5, <1>8, <2>4, <2>5
    <2>7. Speculates(u, t)'
      BY <1>0, <1>1, <1>8, <2>6, SpeculationKept DEF Awaits, Speculates
    <2>8. pc'[t] # "rewrite"
      BY <1>0, <1>1 DEF PcMatchesState, CommittedPcs
    <2> QED  BY <2>3, <2>7, <2>8 DEF Speculates, Awaits
  <1> QED  BY <1>6, <1>7, <1>8

-----------------------------------------------------------------------------
(* The rows of a frame are rows its transaction wrote.  Every version of a  *)
(* chain has the id of its row, and a record takes only versions that its   *)
(* transaction has created or ended.                                        *)

IdsIn(s, S) == \A k \in 1 .. Len(s) : s[k].id \in S

ChainIds == \A r \in Rows : IdsIn(versions[r], {r})
RecordIds == \A t \in Txns : IdsIn(log_record[t], write_set[t])
FrameIds ==
    \A i \in 1 .. Len(log) :
      i <= log_offset \/ WritingLog(log[i].tx) => IdsIn(log[i].ops, write_set[log[i].tx])

LEMMA SetEndIds ==
    ASSUME NEW s \in Seq(RowVersion), NEW i \in 1 .. Len(s), NEW t \in Txns, NEW S, IdsIn(s, S)
    PROVE  IdsIn(set_end(s, i, t), S)
  <1>1. PICK c : c = set_end(s, i, t)
    OBVIOUS
  <1>2. c = [s EXCEPT ![i].end = TxID(t)]
    BY <1>1 DEF set_end
  <1>3. Len(c) = Len(s)
    BY <1>2
  <1>4. ASSUME NEW k \in 1 .. Len(s)  PROVE c[k].id = s[k].id
    <2>1. CASE k # i
      BY <1>2, <2>1
    <2>2. CASE k = i
      <3>1. PICK v : v = s[i]
        OBVIOUS
      <3>2. c[i] = [v EXCEPT !.end = TxID(t)]
        BY <1>2, <3>1
      <3>3. v \in RowVersion
        BY <3>1
      <3> QED  BY <2>2, <3>1, <3>2, <3>3 DEF RowVersion
    <2> QED  BY <2>1, <2>2
  <1> QED  BY <1>1, <1>3, <1>4 DEF IdsIn

LEMMA InsertIds ==
    ASSUME NEW s \in Seq(RowVersion), NEW rv \in RowVersion, NEW S, IdsIn(s, S), rv.id \in S
    PROVE  IdsIn(insert_version_raw(s, rv), S)
  <1>1. PICK c : c = insert_version_raw(s, rv)
    OBVIOUS
  <1>2. \A k \in 1 .. Len(c) : c[k] = rv \/ \E j \in 1 .. Len(s) : c[k] = s[j]
    BY <1>1, InsertElements
  <1> QED  BY <1>1, <1>2 DEF IdsIn

LEMMA VisitedIds ==
    ASSUME StoreTypeOK, NEW t \in Txns, NEW v \in RowVersion
    PROVE  to_timestamps(t, v).id = v.id /\ rollback_row_version(t, v).id = v.id
  BY DEF to_timestamps, rollback_row_version, RowVersion

LEMMA WrittenIds ==
    ASSUME StoreTypeOK, ChainIds, NEW t \in Txns, NEW r \in Rows, Writes(t, r)
    PROVE  ChainIds'
  <1>1. versions \in [Rows -> Seq(RowVersion)]
    BY DEF StoreTypeOK
  <1>2. PICK s : s = versions[r] /\ s \in Seq(RowVersion) /\ IdsIn(s, {r})
    BY <1>1 DEF ChainIds
  <1>3. ops[t] < MaxOps
    BY DEF Writes, update, insert, delete, insert_tombstone, CanWrite, CanRead
  <1>4. /\ \A resident \in BOOLEAN : /\ NewVersion(t, r, resident) \in RowVersion
                                     /\ NewVersion(t, r, resident).id = r
        /\ Tombstone(t, r) \in RowVersion /\ Tombstone(t, r).id = r
    <2>1. /\ \A resident \in BOOLEAN : NewVersion(t, r, resident).id = r
          /\ Tombstone(t, r).id = r
      BY DEF NewVersion, Tombstone
    <2> QED  BY <1>3, <2>1, NewVersionsTyped
  <1>5. SUFFICES \E c : versions' = [versions EXCEPT ![r] = c] /\ IdsIn(c, {r})
    <2>1. PICK c : versions' = [versions EXCEPT ![r] = c] /\ IdsIn(c, {r})
      BY <1>5
    <2>2. \A q \in Rows : versions'[q] = IF q = r THEN c ELSE versions[q]
      BY <1>1, <2>1
    <2>3. ASSUME NEW q \in Rows  PROVE IdsIn(versions'[q], {q})
      BY <2>1, <2>2 DEF ChainIds
    <2> QED  BY <2>3 DEF ChainIds, IdsIn
  <1>6. CASE update(t, r)
    <2>1. PICK i \in 1 .. Len(s) :
            versions' = [versions EXCEPT ![r] =
              insert_version_raw(set_end(@, i, t), NewVersion(t, r, FALSE))]
      BY <1>2, <1>6 DEF update
    <2>2. PICK c : c = set_end(s, i, t)
      OBVIOUS
    <2>3. PICK rv : rv = NewVersion(t, r, FALSE)
      OBVIOUS
    <2>4. c \in Seq(RowVersion) /\ IdsIn(c, {r})
      BY <1>2, <2>2, SetEndTyped, SetEndIds
    <2>5. rv \in RowVersion /\ rv.id \in {r}
      BY <1>4, <2>3
    <2>6. IdsIn(insert_version_raw(c, rv), {r})
      BY <2>4, <2>5, InsertIds
    <2>7. versions' = [versions EXCEPT ![r] = insert_version_raw(c, rv)]
      BY <1>2, <2>1, <2>2, <2>3
    <2> QED  BY <2>6, <2>7
  <1>7. CASE insert(t, r) \/ insert_tombstone(t, r)
    <2>1. PICK rv \in RowVersion : /\ rv.id = r
                                   /\ versions' = [versions EXCEPT ![r] = insert_version_raw(@, rv)]
      <3>1. query_btree_version_is_valid(t, r) \in BOOLEAN
        BY DEF query_btree_version_is_valid
      <3>2. CASE insert(t, r)
        <4>1. versions' = [versions EXCEPT ![r] =
                insert_version_raw(@, NewVersion(t, r, query_btree_version_is_valid(t, r)))]
          BY <3>2 DEF insert
        <4> QED  BY <1>4, <3>1, <4>1
      <3>3. CASE insert_tombstone(t, r)
        <4>1. versions' = [versions EXCEPT ![r] = insert_version_raw(@, Tombstone(t, r))]
          BY <3>3 DEF insert_tombstone
        <4> QED  BY <1>4, <4>1
      <3> QED  BY <1>7, <3>2, <3>3
    <2>2. versions' = [versions EXCEPT ![r] = insert_version_raw(s, rv)]
      BY <1>2, <2>1
    <2>3. rv.id \in {r}
      BY <2>1
    <2> QED  BY <1>2, <2>1, <2>2, <2>3, InsertIds
  <1>8. CASE delete(t, r)
    <2>1. PICK i \in 1 .. Len(s) : versions' = [versions EXCEPT ![r] = set_end(@, i, t)]
      BY <1>2, <1>8 DEF delete
    <2> QED  BY <1>2, <2>1, SetEndIds
  <1> QED  BY <1>6, <1>7, <1>8 DEF Writes

LEMMA ChainIdsStep ==
    ASSUME StoreTypeOK, ChainIds, [Next]_vars
    PROVE  ChainIds'
  <1>1. versions \in [Rows -> Seq(RowVersion)]
    BY DEF StoreTypeOK
  <1>2. ASSUME NEW t \in Txns, NEW r \in Rows, Visits(t, r)  PROVE ChainIds'
    <2>1. PICK s : s = versions[r] /\ s \in Seq(RowVersion) /\ IdsIn(s, {r})
      BY <1>1 DEF ChainIds
    <2>2. ASSUME NEW c, versions' = [versions EXCEPT ![r] = c], Len(c) = Len(s),
                 \A k \in 1 .. Len(s) : c[k].id = s[k].id
          PROVE  ChainIds'
      <3>1. IdsIn(c, {r})
        BY <2>1, <2>2 DEF IdsIn
      <3>2. \A q \in Rows : versions'[q] = IF q = r THEN c ELSE versions[q]
        BY <1>1, <2>2
      <3>3. ASSUME NEW q \in Rows  PROVE IdsIn(versions'[q], {q})
        BY <3>1, <3>2 DEF ChainIds
      <3> QED  BY <3>3 DEF ChainIds, IdsIn
    <2>3. CASE rewrite_live_versions(t, r)
      <3>1. PICK c : c = [k \in 1 .. Len(s) |-> to_timestamps(t, s[k])]
        OBVIOUS
      <3>2. versions' = [versions EXCEPT ![r] = c]
        BY <2>1, <2>3, <3>1 DEF rewrite_live_versions, MapChain
      <3>3. Len(c) = Len(s)
        BY <2>1, <3>1
      <3>4. \A k \in 1 .. Len(s) : c[k].id = s[k].id
        BY <2>1, <3>1, VisitedIds
      <3> QED  BY <2>2, <3>2, <3>3, <3>4
    <2>4. CASE rollback_rowid(t, r)
      <3>1. PICK c : c = [k \in 1 .. Len(s) |-> rollback_row_version(t, s[k])]
        OBVIOUS
      <3>2. versions' = [versions EXCEPT ![r] = c]
        BY <2>1, <2>4, <3>1 DEF rollback_rowid, MapChain
      <3>3. Len(c) = Len(s)
        BY <2>1, <3>1
      <3>4. \A k \in 1 .. Len(s) : c[k].id = s[k].id
        BY <2>1, <3>1, VisitedIds
      <3> QED  BY <2>2, <3>2, <3>3, <3>4
    <2> QED  BY <1>2, <2>3, <2>4 DEF Visits
  <1>3. CASE UNCHANGED versions
    BY <1>3 DEF ChainIds, IdsIn
  <1> QED  BY <1>2, <1>3, ChainSteps, WrittenIds

LEMMA CollectedIds ==
    ASSUME StoreTypeOK, Tagged, ChainIds, NEW t \in Txns, NEW r \in Rows,
           NEW record \in Seq(RowVersion), IdsIn(record, write_set[t])
    PROVE  IdsIn(collect_versions(t, record, versions[r]), write_set[t])
  <1>1. PICK chain : chain = versions[r]
    OBVIOUS
  <1>2. chain \in Seq(RowVersion) /\ Len(chain) \in Nat
    BY <1>1 DEF StoreTypeOK
  <1> DEFINE N == Len(chain)
  <1>3. N = Len(chain)
    OBVIOUS
  <1>4. PICK h \in [0 .. N -> Seq(RowVersion)] :
          /\ h[0] = record /\ collect_versions(t, record, chain) = h[N]
          /\ \A i \in 1 .. N : h[i] = CollectStep(t, h[i - 1], chain[i])
    BY <1>2, CollectSteps
  <1> HIDE DEF N
  <1>5. ASSUME NEW acc \in Seq(RowVersion), IdsIn(acc, write_set[t]), NEW i \in 1 .. N
        PROVE  IdsIn(CollectStep(t, acc, chain[i]), write_set[t])
    <2>1. PICK v : v = chain[i]
      OBVIOUS
    <2>2. v \in RowVersion
      BY <1>2, <1>3, <2>1
    <2>3. CASE touched(t, v)
      <3>1. v.id \in write_set[t]
        <4>1. r \in write_set[t]
          BY <1>1, <1>3, <2>1, <2>3 DEF Tagged, MayTag
        <4>2. v.id = r
          BY <1>1, <1>3, <2>1 DEF ChainIds, IdsIn
        <4> QED  BY <4>1, <4>2
      <3>2. PICK w : w = to_timestamps(t, v)
        OBVIOUS
      <3>3. w \in RowVersion
        <4>1. end_ts[t] \in Nat
          BY DEF StoreTypeOK
        <4> QED  BY <2>2, <3>2, <4>1, StampsTyped DEF to_timestamps, RowVersion
      <3>4. w.id \in write_set[t]
        BY <2>2, <3>1, <3>2, VisitedIds
      <3>5. IdsIn(insert_version_raw(acc, w), write_set[t])
        BY <1>5, <3>3, <3>4, InsertIds
      <3> QED  BY <2>1, <2>3, <3>2, <3>5 DEF CollectStep
    <2>4. CASE ~touched(t, v)
      BY <1>5, <2>1, <2>4 DEF CollectStep
    <2> QED  BY <2>3, <2>4
  <1> DEFINE Bad == {i \in 0 .. N : ~IdsIn(h[i], write_set[t])}
  <1>6. Bad = {}
    <2>1. SUFFICES ASSUME Bad # {}  PROVE FALSE
      OBVIOUS
    <2>2. Bad \subseteq Nat
      BY <1>2, <1>3
    <2>3. PICK i \in Bad : \A m \in Bad : i <= m
      <3> HIDE DEF Bad
      <3> QED  BY <2>1, <2>2, LeastNumber
    <2>4. i \in 1 .. N
      BY <1>2, <1>3, <1>4, <2>3
    <2>5. i - 1 \in 0 .. N /\ i - 1 \notin Bad
      BY <1>2, <1>3, <2>3, <2>4
    <2>6. h[i - 1] \in Seq(RowVersion) /\ IdsIn(h[i - 1], write_set[t])
      BY <1>4, <2>5
    <2>7. IdsIn(CollectStep(t, h[i - 1], chain[i]), write_set[t])
      BY <1>5, <2>4, <2>6
    <2>8. h[i] = CollectStep(t, h[i - 1], chain[i])
      BY <1>4, <2>4
    <2>9. IdsIn(h[i], write_set[t])
      BY <2>7, <2>8
    <2> QED  BY <2>3, <2>9
  <1>7. N \in 0 .. N
    BY <1>2, <1>3
  <1>8. IdsIn(h[N], write_set[t])
    BY <1>6, <1>7
  <1> QED  BY <1>1, <1>4, <1>8

(* A step builds a record, appends a frame, owns it, drops a transaction,   *)
(* or leaves records and log alone, and then nobody starts to write.        *)
LogUntouched ==
    /\ UNCHANGED <<log_record, log, log_offset>>
    /\ \A x \in Txns : (WritingLog(x)' => WritingLog(x)) /\ write_set[x] \subseteq write_set'[x]

LEMMA RecordSteps ==
    ASSUME StoreTypeOK, [Next]_vars
    PROVE  \/ LogUntouched
           \/ \E t \in Txns :
                \/ begin_commit_logical_log(t) \/ commit_end(t)
                \/ commit_remove(t) \/ rollback_terminate(t)
                \/ \E r \in Rows : build_committed_log_record(t, r)
  <1> USE DEF storeVars, lockVars, depVars, logVars, markVars, headerVars, opVars, Goto
  <1>0. pc \in [Txns -> ProgramCounter] /\ write_set \in [Txns -> SUBSET Rows]
    BY DEF StoreTypeOK
  <1>1. ASSUME NEW t \in Txns, UNCHANGED <<log_record, log, log_offset>>,
               pc' = pc \/ \E to : pc' = [pc EXCEPT ![t] = to] /\ (to # "sync")
                                   /\ (to = "commit_end" => pc[t] = "sync"),
               write_set' = write_set \/ \E r : write_set' = [write_set EXCEPT ![t] = @ \cup {r}]
        PROVE  LogUntouched
    <2>1. \A x \in Txns : WritingLog(x)' => WritingLog(x)
      BY <1>0, <1>1 DEF WritingLog
    <2>2. \A x \in Txns : write_set[x] \subseteq write_set'[x]
      BY <1>0, <1>1
    <2> QED  BY <1>1, <2>1, <2>2 DEF LogUntouched
  <1>2. CASE UNCHANGED vars \/ Finished
    BY <1>2 DEF Finished, vars, LogUntouched, WritingLog
  <1>3. ASSUME NEW t \in Txns, Begin(t)  PROVE LogUntouched
    <2>1. UNCHANGED <<log_record, log, log_offset, write_set>>
      BY <1>3 DEF Begin, begin_tx, begin_exclusive_tx, upgrade_to_exclusive,
             acquire_exclusive_tx, acquire_pager_commit_lock
    <2>2. \E to \in {"active", "acquire_exclusive", "acquire_commit_lock", "done"} :
            pc' = [pc EXCEPT ![t] = to]
      BY <1>3 DEF Begin, begin_tx, begin_exclusive_tx, upgrade_to_exclusive,
             acquire_exclusive_tx, acquire_pager_commit_lock, Refused
    <2> QED  BY <1>1, <2>1, <2>2
  <1>4. ASSUME NEW t \in Txns, Statement(t)  PROVE LogUntouched
    <2>1. UNCHANGED <<log_record, log, log_offset>>
      BY <1>4 DEF Statement, with_header_mut, read_visible, read_btree, write_conflict, update,
             insert, delete, insert_tombstone, StatementFrame
    <2>2. pc' = pc \/ pc' = [pc EXCEPT ![t] = "rollback"]
      BY <1>4 DEF Statement, with_header_mut, read_visible, read_btree, write_conflict, update,
             insert, delete, insert_tombstone, StatementFrame
    <2>3. write_set' = write_set \/ \E r : write_set' = [write_set EXCEPT ![t] = @ \cup {r}]
      BY <1>4 DEF Statement, with_header_mut, read_visible, read_btree, write_conflict, update,
             insert, delete, insert_tombstone, WriteSetAdd
    <2>4. pc' = pc \/ \E to : pc' = [pc EXCEPT ![t] = to] /\ (to # "sync")
                              /\ (to = "commit_end" => pc[t] = "sync")
      BY <2>2
    <2> QED  BY <1>1, <2>1, <2>3, <2>4
  <1>5. ASSUME NEW t \in Txns, commit_initial(t) \/ abandon(t) \/ rollback_tx(t)
        PROVE  LogUntouched
    <2>1. UNCHANGED <<log_record, log, log_offset, write_set>>
      BY <1>5 DEF commit_initial, abandon, rollback_tx, CommitFrame
    <2>2. \E to \in {"rollback", "wait", "commit", "rb_unlock"} : pc' = [pc EXCEPT ![t] = to]
      BY <1>5 DEF commit_initial, abandon, rollback_tx
    <2> QED  BY <1>1, <2>1, <2>2
  <1>6. ASSUME NEW t \in Txns, Commit(t), ~begin_commit_logical_log(t), ~commit_end(t),
               ~commit_remove(t), \A r \in Rows : ~build_committed_log_record(t, r)
        PROVE  LogUntouched
    <2>1. UNCHANGED <<log_record, log, log_offset, write_set>>
      BY <1>6 DEF Commit, commit_check_exclusive, commit_validate_none, wait_for_dependencies,
         wait_recheck_abort_now, commit_read_only, sync_logical_log, commit_take_dependents,
         commit_unlock, commit_publish, commit_release_exclusive, commit_validate,
         rewrite_live_versions, commit_notify
    <2>2. \/ pc' = pc
          \/ \E to \in {"rollback", "validate", "wait", "wait_recheck", "read_only", "build",
                        "read_only_unlock", "remove", "notify", "publish", "done"} :
               pc' = [pc EXCEPT ![t] = to]
          \/ pc[t] = "sync" /\ pc' = [pc EXCEPT ![t] = "commit_end"]
      BY <1>6 DEF Commit, commit_check_exclusive, commit_validate_none, wait_for_dependencies,
         wait_recheck_abort_now, commit_read_only, sync_logical_log, commit_take_dependents,
         commit_unlock, commit_publish, commit_release_exclusive, commit_validate,
         rewrite_live_versions, commit_notify
    <2> QED  BY <1>1, <2>1, <2>2
  <1>7. ASSUME NEW t \in Txns, Rollback(t), ~rollback_terminate(t)  PROVE LogUntouched
    <2>1. UNCHANGED <<log_record, log, log_offset, write_set>>
      BY <1>7 DEF Rollback, rollback_take_dependents, rollback_release_dependent,
         rollback_release_exclusive, rollback_rowid, rollback_abort_dependent
    <2>2. pc' = pc \/ \E to \in {"rb_notify", "rb_undo"} : pc' = [pc EXCEPT ![t] = to]
      BY <1>7 DEF Rollback, rollback_take_dependents, rollback_release_dependent,
         rollback_release_exclusive, rollback_rowid, rollback_abort_dependent
    <2> QED  BY <1>1, <2>1, <2>2
  <1> QED  BY <1>2, <1>3, <1>4, <1>5, <1>6, <1>7 DEF Next

LEMMA RecordIdsStep ==
    ASSUME StoreTypeOK, RecordsTyped, Tagged, ChainIds, RecordIds, [Next]_vars
    PROVE  RecordIds'
  <1>0. /\ write_set \in [Txns -> SUBSET Rows]
        /\ log_record \in [Txns -> Seq(RowVersion)]
    BY DEF StoreTypeOK, RecordsTyped
  <1>1. SUFFICES ASSUME NEW x \in Txns  PROVE IdsIn(log_record'[x], write_set'[x])
    BY DEF RecordIds, IdsIn
  <1>2. IdsIn(log_record[x], write_set[x])
    BY DEF RecordIds
  <1>3. ASSUME log_record'[x] = log_record[x], write_set[x] \subseteq write_set'[x]
        PROVE  IdsIn(log_record'[x], write_set'[x])
    BY <1>2, <1>3 DEF IdsIn
  <1>4. CASE LogUntouched
    BY <1>3, <1>4 DEF LogUntouched
  <1>5. ASSUME NEW t \in Txns, begin_commit_logical_log(t) \/ commit_end(t)
        PROVE  IdsIn(log_record'[x], write_set'[x])
    <2>1. UNCHANGED <<log_record, write_set>>
      BY <1>5 DEF begin_commit_logical_log, commit_end, opVars
    <2> QED  BY <1>3, <2>1
  <1>6. ASSUME NEW t \in Txns, commit_remove(t) \/ rollback_terminate(t)
        PROVE  IdsIn(log_record'[x], write_set'[x])
    <2>1. /\ log_record' = [log_record EXCEPT ![t] = <<>>]
          /\ write_set' = write_set \/ write_set' = [write_set EXCEPT ![t] = {}]
      BY <1>6 DEF commit_remove, rollback_terminate, remove_tx, opVars
    <2>2. CASE x = t
      <3>1. log_record'[x] = <<>> /\ Len(<<>>) = 0 /\ 1 .. 0 = {}
        BY <1>0, <2>1, <2>2
      <3> QED  BY <3>1 DEF IdsIn
    <2>3. CASE x # t
      <3>1. log_record'[x] = log_record[x] /\ write_set'[x] = write_set[x]
        BY <1>0, <2>1, <2>3
      <3> QED  BY <1>3, <3>1
    <2> QED  BY <2>2, <2>3
  <1>7. ASSUME NEW t \in Txns, NEW r \in Rows, build_committed_log_record(t, r)
        PROVE  IdsIn(log_record'[x], write_set'[x])
    <2>1. PICK z : z = collect_versions(t, log_record[t], versions[r])
      OBVIOUS
    <2>2. log_record' = [log_record EXCEPT ![t] = z] /\ write_set' = write_set
      BY <1>7, <2>1 DEF build_committed_log_record, opVars
    <2>3. CASE x = t
      <3>1. log_record'[x] = z
        BY <1>0, <2>2, <2>3
      <3>2. log_record[t] \in Seq(RowVersion)
        BY <1>0
      <3>3. IdsIn(z, write_set[t])
        BY <1>2, <2>1, <2>3, <3>2, CollectedIds
      <3> QED  BY <2>2, <2>3, <3>1, <3>3
    <2>4. CASE x # t
      <3>1. log_record'[x] = log_record[x]
        BY <1>0, <2>2, <2>4
      <3> QED  BY <1>3, <2>2, <3>1
    <2> QED  BY <2>3, <2>4
  <1> QED  BY <1>4, <1>5, <1>6, <1>7, RecordSteps

LEMMA FrameIdsStep ==
    ASSUME StoreTypeOK, PcMatchesState, LogInv, RecordsTyped, RecordIds, FrameIds, [Next]_vars
    PROVE  FrameIds'
  <1> USE DEF storeVars, lockVars, depVars, logVars, markVars, headerVars, opVars
  <1>0. /\ write_set \in [Txns -> SUBSET Rows] /\ pc \in [Txns -> ProgramCounter]
        /\ log \in Seq(Frame) /\ log_offset \in Nat /\ log_offset <= Len(log)
    BY DEF StoreTypeOK, RecordsTyped, LogInv
  <1>1. SUFFICES ASSUME NEW i \in 1 .. Len(log'),
                        i <= log_offset' \/ pc'[log'[i].tx] \in {"sync", "commit_end"}
                 PROVE  IdsIn(log'[i].ops, write_set'[log'[i].tx])
    BY DEF FrameIds, WritingLog
  <1>2. ASSUME i \in 1 .. Len(log), log'[i] = log[i],
               i <= log_offset \/ WritingLog(log[i].tx),
               write_set[log[i].tx] \subseteq write_set'[log[i].tx]
        PROVE  IdsIn(log'[i].ops, write_set'[log'[i].tx])
    <2>1. IdsIn(log[i].ops, write_set[log[i].tx])
      BY <1>2 DEF FrameIds
    <2> QED  BY <1>2, <2>1 DEF IdsIn
  <1>3. \A j \in 1 .. Len(log) : log[j].tx \in Txns
    <2>1. ASSUME NEW j \in 1 .. Len(log)  PROVE log[j] \in Frame
      BY <1>0
    <2> QED  BY <2>1 DEF Frame
  <1>4. CASE LogUntouched
    <2>1. i \in 1 .. Len(log) /\ log'[i] = log[i] /\ log_offset' = log_offset
      BY <1>1, <1>4 DEF LogUntouched
    <2>2. log[i].tx \in Txns
      BY <1>3, <2>1
    <2>3. i <= log_offset \/ WritingLog(log[i].tx)
      BY <1>1, <1>4, <2>1, <2>2 DEF LogUntouched, WritingLog
    <2> QED  BY <1>2, <1>4, <2>1, <2>2, <2>3 DEF LogUntouched
  <1>5. ASSUME NEW t \in Txns, begin_commit_logical_log(t)
        PROVE  IdsIn(log'[i].ops, write_set'[log'[i].tx])
    <2>1. PICK f : f = [tx |-> t, ts |-> end_ts[t],
                        ops |-> MapChain(log_record[t], serialize_op_entry),
                        header |-> IF header_dirty[t] THEN header[t] ELSE {}]
      OBVIOUS
    <2>2. log' = Append(SubSeq(log, 1, log_offset), f) /\ UNCHANGED <<write_set, log_offset>>
      BY <1>5, <2>1 DEF begin_commit_logical_log, log_tx
    <2>3. /\ Len(log') = log_offset + 1 /\ log'[log_offset + 1] = f
          /\ \A j \in 1 .. log_offset : log'[j] = log[j]
      BY <1>0, <2>2, AppendBehindOwned
    <2>4. CASE i <= log_offset
      <3>1. i \in 1 .. Len(log) /\ log'[i] = log[i]
        BY <1>0, <1>1, <2>3, <2>4
      <3> QED  BY <1>2, <2>2, <2>4, <3>1
    <2>5. CASE i > log_offset
      <3>1. i = log_offset + 1 /\ log'[i] = f
        BY <1>0, <1>1, <2>3, <2>5
      <3>2. f.tx = t /\ f.ops = MapChain(log_record[t], serialize_op_entry)
        BY <2>1
      <3>3. PICK record : record = log_record[t]
        OBVIOUS
      <3>4. record \in Seq(RowVersion) /\ IdsIn(record, write_set[t])
        BY <3>3 DEF RecordsTyped, RecordIds
      <3>5. f.ops = [k \in 1 .. Len(record) |-> serialize_op_entry(record[k])]
        BY <3>2, <3>3 DEF MapChain
      <3>6. Len(f.ops) = Len(record)
        BY <3>4, <3>5
      <3>7. \A k \in 1 .. Len(record) : f.ops[k].id = record[k].id
        BY <3>5 DEF serialize_op_entry
      <3>8. IdsIn(f.ops, write_set[t])
        BY <3>4, <3>6, <3>7 DEF IdsIn
      <3> QED  BY <2>2, <3>1, <3>2, <3>8
    <2> QED  BY <1>0, <1>1, <2>3, <2>4, <2>5
  <1>6. ASSUME NEW t \in Txns, commit_end(t)
        PROVE  IdsIn(log'[i].ops, write_set'[log'[i].tx])
    <2>1. /\ pc[t] = "commit_end" /\ pc' = [pc EXCEPT ![t] = "rewrite"]
          /\ log_offset' = log_offset + 1 /\ UNCHANGED <<log, write_set>>
      BY <1>6 DEF commit_end, Goto
    <2>2. Len(log) = log_offset + 1 /\ log[Len(log)].tx = t /\ WritingLog(t)
      BY <2>1 DEF LogInv, WritingLog
    <2>3. i \in 1 .. Len(log) /\ (i <= log_offset \/ i = Len(log))
      BY <1>0, <1>1, <2>1, <2>2
    <2>4. i <= log_offset \/ WritingLog(log[i].tx)
      BY <2>2, <2>3
    <2> QED  BY <1>2, <2>1, <2>3, <2>4
  <1>7. ASSUME NEW t \in Txns, \/ commit_remove(t) \/ rollback_terminate(t)
                               \/ \E r \in Rows : build_committed_log_record(t, r)
        PROVE  IdsIn(log'[i].ops, write_set'[log'[i].tx])
    <2>1. /\ UNCHANGED <<log, log_offset>>
          /\ \/ pc' = pc
             \/ \E to \in {"release_exclusive", "done"} : pc' = [pc EXCEPT ![t] = to]
          /\ \/ write_set' = write_set
             \/ write_set' = [write_set EXCEPT ![t] = {}] /\ pc[t] = "rb_undo"
      BY <1>7 DEF commit_remove, rollback_terminate, remove_tx, build_committed_log_record, Goto
    <2>2. i \in 1 .. Len(log) /\ log'[i] = log[i] /\ log[i].tx \in Txns
      BY <1>1, <1>3, <2>1
    <2>3. i <= log_offset \/ WritingLog(log[i].tx)
      <3>1. ASSUME NEW x \in Txns, WritingLog(x)'  PROVE WritingLog(x)
        BY <1>0, <2>1, <3>1 DEF WritingLog
      <3> QED  BY <1>1, <2>1, <2>2, <3>1 DEF WritingLog
    <2>4. pc[log[i].tx] # "rb_undo"
      <3>1. CASE i <= log_offset
        <4>1. state[log[i].tx] = "Committed"
          BY <2>2, <3>1 DEF LogInv, Committed
        <4> QED  BY <2>2, <4>1 DEF PcMatchesState, RollbackPcs
      <3>2. CASE WritingLog(log[i].tx)
        BY <3>2 DEF WritingLog
      <3> QED  BY <2>3, <3>1, <3>2
    <2>5. write_set'[log[i].tx] = write_set[log[i].tx]
      BY <1>0, <2>1, <2>2, <2>4
    <2> QED  BY <1>2, <2>2, <2>3, <2>5
  <1> QED  BY <1>4, <1>5, <1>6, <1>7, RecordSteps

-----------------------------------------------------------------------------
(* Of two frames whose transactions wrote one row, the first has the        *)
(* earlier timestamp.                                                       *)
LogInOrder ==
    \A i, j \in 1 .. log_offset : \A r \in Rows :
      i < j /\ r \in write_set[log[i].tx] /\ r \in write_set[log[j].tx] => log[i].ts < log[j].ts

LEMMA LogInOrderStep ==
    ASSUME ChainInv, WritesRegistered, ClockInv, Waiting, RecordsTyped, LogInOrder, [Next]_vars
    PROVE  LogInOrder'
  <1> USE DEF storeVars, lockVars, depVars, logVars, markVars, headerVars, opVars
  <1>0. /\ StoreTypeOK /\ PcMatchesState /\ Settled /\ LogInv
    BY DEF ChainInv, CommitLogInv, DependencyInv
  <1>1. log_offset \in Nat /\ log_offset <= Len(log) /\ log \in Seq(Frame)
    BY <1>0 DEF StoreTypeOK, LogInv, RecordsTyped
  <1>2. ASSUME NEW k \in 1 .. log_offset
        PROVE  /\ log[k].tx \in Txns /\ state[log[k].tx] = "Committed"
               /\ log[k].ts = end_ts[log[k].tx]
               /\ \A r \in Rows : r \in write_set'[log[k].tx] => r \in write_set[log[k].tx]
    <2>1. PICK x \in Txns : x = log[k].tx /\ state[x] = "Committed"
      BY <1>0 DEF LogInv, Committed
    <2>2. \A r \in Rows : ~Writes(x, r)
      BY <1>0, <2>1, WriteRegisters
    <2>3. \A r \in Rows : r \in write_set'[x] => r \in write_set[x]
      BY <1>0, <2>2, WriteSetSteps
    <2> QED  BY <1>0, <2>1, <2>3 DEF LogInv
  <1>3. ASSUME log_offset' = log_offset, \A k \in 1 .. log_offset : log'[k] = log[k]
        PROVE  LogInOrder'
    <2>1. SUFFICES ASSUME NEW i \in 1 .. log_offset, NEW j \in 1 .. log_offset, NEW r \in Rows,
                          i < j, r \in write_set'[log[i].tx], r \in write_set'[log[j].tx]
                   PROVE  log[i].ts < log[j].ts
      BY <1>3 DEF LogInOrder
    <2>2. r \in write_set[log[i].tx] /\ r \in write_set[log[j].tx]
      BY <1>2, <2>1
    <2> QED  BY <2>1, <2>2 DEF LogInOrder
  <1>4. CASE LogUntouched
    BY <1>3, <1>4 DEF LogUntouched
  <1>5. ASSUME NEW t \in Txns, begin_commit_logical_log(t)  PROVE LogInOrder'
    <2>1. PICK f : log' = Append(SubSeq(log, 1, log_offset), f) /\ log_offset' = log_offset
      BY <1>5 DEF begin_commit_logical_log, log_tx
    <2>2. \A k \in 1 .. log_offset : log'[k] = log[k]
      BY <1>1, <2>1, AppendBehindOwned
    <2> QED  BY <1>3, <2>1, <2>2
  <1>6. ASSUME NEW t \in Txns, commit_end(t)  PROVE LogInOrder'
    <2>1. /\ pc[t] = "commit_end" /\ log_offset' = log_offset + 1 /\ UNCHANGED <<log, write_set>>
      BY <1>6 DEF commit_end, Goto
    <2>2. /\ Len(log) = log_offset + 1 /\ log[log_offset + 1].tx = t
          /\ log[log_offset + 1].ts = end_ts[t]
      BY <1>0, <2>1 DEF LogInv, WritingLog
    <2>3. state[t] = "Preparing" /\ t \in Dated /\ ~Doomed(t)
      <3>1. state[t] = "Preparing"
        BY <1>0, <2>1 DEF PcMatchesState, CommittingPcs
      <3>2. ~abort_now[t] /\ \A x \in Txns : ~Owes(x, t)
        BY <1>0, <2>1 DEF Settled, SettledPcs
      <3> QED  BY <3>1, <3>2 DEF Dated, Doomed, Owes
    <2>4. ASSUME NEW x \in Txns, state[x] = "Committed", NEW r \in Rows, r \in write_set[x],
                 r \in write_set[t]
          PROVE  end_ts[x] < end_ts[t]
      <3>1. x # t /\ x \in Dated /\ Validated(x, r)
        BY <2>3, <2>4 DEF Dated, Validated
      <3>2. end_ts[x] # end_ts[t] /\ end_ts[x] \in Nat /\ end_ts[t] \in Nat
        BY <1>0, <2>3, <3>1 DEF ClockInv, StoreTypeOK
      <3>3. ~(end_ts[t] < end_ts[x])
        BY <2>3, <2>4, <3>1 DEF Waiting
      <3> QED  BY <3>2, <3>3
    <2>5. SUFFICES ASSUME NEW i \in 1 .. (log_offset + 1), NEW j \in 1 .. (log_offset + 1),
                          NEW r \in Rows, i < j,
                          r \in write_set[log[i].tx], r \in write_set[log[j].tx]
                   PROVE  log[i].ts < log[j].ts
      BY <2>1 DEF LogInOrder
    <2>6. i \in 1 .. log_offset
      BY <1>1, <2>5
    <2>7. CASE j \in 1 .. log_offset
      BY <2>5, <2>6, <2>7 DEF LogInOrder
    <2>8. CASE j = log_offset + 1
      <3>1. PICK x \in Txns : x = log[i].tx /\ state[x] = "Committed" /\ log[i].ts = end_ts[x]
        BY <1>2, <2>6
      <3>2. end_ts[x] < end_ts[t]
        BY <2>2, <2>4, <2>5, <2>8, <3>1
      <3> QED  BY <2>2, <2>8, <3>1, <3>2
    <2> QED  BY <1>1, <2>5, <2>7, <2>8
  <1>7. ASSUME NEW t \in Txns, \/ commit_remove(t) \/ rollback_terminate(t)
                               \/ \E r \in Rows : build_committed_log_record(t, r)
        PROVE  LogInOrder'
    <2>1. UNCHANGED <<log, log_offset>>
      BY <1>7 DEF commit_remove, rollback_terminate, build_committed_log_record
    <2> QED  BY <1>3, <2>1
  <1> QED  BY <1>0, <1>4, <1>5, <1>6, <1>7, RecordSteps

(* Frames may be appended out of timestamp order, but never two frames that *)
(* write the same row: replaying the log in its order leaves every row with *)
(* the last committer's contents.  The later writer of a row has found the  *)
(* earlier one's version in validation; it has ended that version itself,   *)
(* hence it depends on the earlier writer, and gets past                    *)
(* WaitForDependencies only when that one has its frame in the log.         *)
THEOREM LogIsInWriteOrder == Spec => []LogOrdersWriters
  <1> DEFINE Inv == CommitterInv /\ RecordsTyped /\ Waiting /\ ChainIds /\ RecordIds /\ FrameIds
                    /\ LogInOrder
  <1>1. Init => Inv
    <2> SUFFICES ASSUME Init  PROVE Inv
      OBVIOUS
    <2>1. CommitterInv /\ RecordsTyped
      BY CommitterInit DEF Init, RecordsTyped
    <2>2. Waiting
      BY DEF Init, Waiting, Validated
    <2>3. /\ \A r \in Rows : versions[r] = <<>>
          /\ \A t \in Txns : log_record[t] = <<>>
          /\ log = <<>> /\ log_offset = 0 /\ Len(<<>>) = 0 /\ 1 .. 0 = {}
      BY DEF Init
    <2>4. ChainIds /\ RecordIds
      BY <2>3 DEF ChainIds, RecordIds, IdsIn
    <2>5. FrameIds /\ LogInOrder
      BY <2>3 DEF FrameIds, LogInOrder
    <2> QED  BY <2>1, <2>2, <2>4, <2>5
  <1>2. Inv /\ [Next]_vars => Inv'
    <2> SUFFICES ASSUME Inv, [Next]_vars  PROVE Inv'
      OBVIOUS
    <2>1. /\ ChainInv /\ WritesRegistered /\ ClockInv /\ OrderedStamps /\ Marks
          /\ StoreTypeOK /\ PcMatchesState /\ Tagged /\ LogInv
      BY DEF CommitterInv, ChainInv, CommitLogInv, DependencyInv
    <2>2. CommitterInv'
      BY CommitterStep
    <2>3. ChainInv'
      BY <2>2 DEF CommitterInv
    <2>4. RecordsTyped' /\ ChainIds' /\ RecordIds' /\ FrameIds'
      BY <2>1, RecordsTypedStep, ChainIdsStep, RecordIdsStep, FrameIdsStep
    <2>5. Waiting'
      BY <2>1, <2>3, WaitingStep
    <2>6. LogInOrder'
      BY <2>1, LogInOrderStep
    <2> QED  BY <2>2, <2>4, <2>5, <2>6
  <1>3. Inv => LogOrdersWriters
    <2> SUFFICES ASSUME Inv, NEW i \in 1 .. log_offset, NEW j \in 1 .. log_offset,
                        NEW r \in Rows, i < j, FrameWrites(i, r), FrameWrites(j, r)
                 PROVE  log[i].ts < log[j].ts
      BY DEF LogOrdersWriters
    <2>1. log_offset \in Nat /\ log_offset <= Len(log) /\ Len(log) \in Nat
      BY DEF CommitterInv, ChainInv, CommitLogInv, DependencyInv, StoreTypeOK, LogInv, RecordsTyped
    <2>2. ASSUME NEW k \in 1 .. log_offset, FrameWrites(k, r)  PROVE r \in write_set[log[k].tx]
      <3>1. k \in 1 .. Len(log) /\ k <= log_offset
        BY <2>1
      <3>2. IdsIn(log[k].ops, write_set[log[k].tx])
        BY <3>1 DEF FrameIds
      <3> QED  BY <2>2, <3>2 DEF FrameWrites, IdsIn
    <2> QED  BY <2>2 DEF LogInOrder
  <1> QED  BY <1>1, <1>2, <1>3, PTL DEF Spec

-----------------------------------------------------------------------------
(* Snapshot reads.  What a transaction has read is judged against every set *)
(* of transactions that could all commit, not only against those that have: *)
(* so a read is right from the moment it registers its dependencies, and    *)
(* stays right whoever of the Preparing ones rolls back.                    *)

(* What a write set holds has been written; who has not begun has done      *)
(* nothing.                                                                 *)
WritesKnown ==
    \A t \in Txns :
      /\ \A r \in write_set[t] : wrote[t][r] # Unwritten
      /\ state[t] = "Unborn" => write_set[t] = {} /\ reads[t] = {}

LEMMA ReadsSteps ==
    ASSUME StoreTypeOK, [Next]_vars, NEW t \in Txns
    PROVE  reads'[t] = reads[t] \/ reads'[t] = {} \/ \E r \in Rows : RowStatement(t, r)
  <1>1. CASE UNCHANGED vars
    BY <1>1 DEF vars, opVars
  <1>2. ASSUME NEW x \in Txns,
               \/ Begin(x) \/ Statement(x) \/ commit_initial(x) \/ Commit(x)
               \/ abandon(x) \/ rollback_tx(x) \/ Rollback(x)
        PROVE  reads'[t] = reads[t] \/ reads'[t] = {} \/ \E r \in Rows : RowStatement(t, r)
    <2> USE DEF opVars, CommitFrame
    <2>1. CASE Begin(x)
      BY <2>1 DEF Begin, begin_tx, begin_exclusive_tx, upgrade_to_exclusive,
                  acquire_exclusive_tx, acquire_pager_commit_lock
    <2>2. CASE Statement(x)
      <3>1. CASE with_header_mut(x)
        BY <3>1 DEF with_header_mut
      <3>2. ASSUME NEW r \in Rows, RowStatement(x, r)
            PROVE  t = x \/ reads'[t] = reads[t]
        <4>1. reads' = reads \/ \E S : reads' = [reads EXCEPT ![x] = S]
          BY <3>2 DEF RowStatement, read_visible, read_btree, write_conflict, update, insert,
                      delete, insert_tombstone, RecordRead
        <4> QED  BY <4>1 DEF StoreTypeOK
      <3>3. \/ with_header_mut(x)
            \/ \E r \in Rows : RowStatement(x, r)
        BY <2>2 DEF Statement, RowStatement
      <3> QED  BY <3>1, <3>2, <3>3
    <2>3. CASE commit_initial(x) \/ abandon(x) \/ rollback_tx(x)
      BY <2>3 DEF commit_initial, abandon, rollback_tx
    <2>4. CASE Commit(x)
      BY <2>4 DEF Commit, commit_check_exclusive, commit_validate_none, wait_for_dependencies,
                  wait_recheck_abort_now, commit_read_only, begin_commit_logical_log,
                  sync_logical_log, commit_end, commit_take_dependents, commit_unlock,
                  commit_publish, commit_remove, remove_tx, commit_release_exclusive,
                  commit_validate, build_committed_log_record, rewrite_live_versions,
                  commit_notify
    <2>5. CASE Rollback(x)
      <3>1. reads' = reads \/ reads' = [reads EXCEPT ![x] = {}]
        BY <2>5 DEF Rollback, rollback_take_dependents, rollback_release_dependent,
                    rollback_release_exclusive, rollback_terminate, remove_tx, rollback_rowid,
                    rollback_abort_dependent
      <3> QED  BY <3>1 DEF StoreTypeOK
    <2> QED  BY <1>2, <2>1, <2>2, <2>3, <2>4, <2>5
  <1> QED  BY <1>1, <1>2 DEF Next, Finished

(* The last write of a statement is a value.                                *)
LEMMA WriteWrites ==
    ASSUME StoreTypeOK, NEW t \in Txns, NEW r \in Rows, Writes(t, r)
    PROVE  wrote'[t][r] # Unwritten
  <1>1. wrote' = [wrote EXCEPT ![t][r] = NewRow(t)] \/ wrote' = [wrote EXCEPT ![t][r] = Absent]
    BY DEF Writes, update, insert, delete, insert_tombstone, WriteSetAdd
  <1>2. wrote'[t][r] = NewRow(t) \/ wrote'[t][r] = Absent
    BY <1>1 DEF StoreTypeOK
  <1> QED  BY <1>2, MvStoreAssumption DEF NewRow, Absent, Unwritten

LEMMA WritesKnownStep ==
    ASSUME StoreTypeOK, PcMatchesState, WritesRegistered, WritesKnown, [Next]_vars
    PROVE  WritesKnown'
  <1> DEFINE Writ(t) == \A r \in write_set[t] : wrote[t][r] # Unwritten
             Nought(t) == state[t] = "Unborn" => write_set[t] = {}
  <1>1. ASSUME UNCHANGED vars  PROVE WritesKnown'
    BY <1>1 DEF vars, storeVars, opVars, WritesKnown
  <1>2. ASSUME NEW x \in Txns, Dates(x), NEW t \in Txns  PROVE Writ(t)' /\ Nought(t)'
    <2>0. Writ(t) /\ Nought(t)
      BY DEF WritesKnown
    <2>1. CASE t # x
      BY <1>2, <2>0, <2>1 DEF Dates, OthersStay
    <2>2. CASE t = x /\ Begins(x)
      <3>1. write_set'[t] = write_set[t] /\ wrote'[t] = wrote[t] /\ state[t] = "Unborn"
        BY <2>2 DEF Begins, PcMatchesState
      <3> QED  BY <2>0, <3>1
    <2>3. CASE t = x /\ Prepares(x)
      BY <2>0, <2>3 DEF Prepares
    <2>4. CASE t = x /\ Ends(x)
      BY <2>4 DEF Ends
    <2>5. CASE t = x /\ Keeps(x)
      <3>1. CASE write_set'[t] = write_set[t] /\ wrote'[t] = wrote[t]
        <4>1. state'[t] = "Unborn" => state[t] = "Unborn"
          BY <2>5 DEF Keeps, Advances
        <4> QED  BY <2>0, <3>1, <4>1
      <3>2. ASSUME NEW r \in Rows, Writes(t, r)  PROVE Writ(t)' /\ Nought(t)'
        <4>1. /\ state[t] = "Active" /\ state' = state
              /\ write_set'[t] = write_set[t] \cup {r}
              /\ \A q \in Rows : q # r => wrote'[t][q] = wrote[t][q]
          BY <3>2, WriteRegisters DEF storeVars
        <4>2. wrote'[t][r] # Unwritten
          BY <3>2, WriteWrites
        <4>3. write_set[t] \subseteq Rows
          BY DEF StoreTypeOK
        <4> QED  BY <2>0, <4>1, <4>2, <4>3
      <3> QED  BY <2>5, <3>1, <3>2 DEF Keeps
    <2> QED  BY <1>2, <2>1, <2>2, <2>3, <2>4, <2>5 DEF Dates
  <1>3. ASSUME NEW x \in Txns, Dates(x), NEW t \in Txns, state'[t] = "Unborn"
        PROVE  reads'[t] = {}
    <2>1. state[t] = "Unborn"
      <3>1. CASE t # x
        BY <1>3, <3>1 DEF Dates, OthersStay
      <3>2. CASE t = x
        BY <1>3, <3>2 DEF Dates, Begins, Prepares, Ends, Keeps, Advances, PcMatchesState
      <3> QED  BY <3>1, <3>2
    <2>2. ASSUME NEW r \in Rows, RowStatement(t, r)  PROVE FALSE
      <3>1. pc[t] = "active"
        BY <2>2 DEF RowStatement, read_visible, read_btree, write_conflict, update, insert,
                    delete, insert_tombstone, CanRead, CanWrite
      <3> QED  BY <2>1, <3>1 DEF PcMatchesState
    <2>3. reads[t] = {}
      BY <2>1 DEF WritesKnown
    <2> QED  BY <2>2, <2>3, ReadsSteps
  <1> QED  BY <1>1, <1>2, <1>3, DatesSteps DEF WritesKnown

(* A committed transaction keeps its timestamps and its writes.             *)
LEMMA CommittedStays ==
    ASSUME StoreTypeOK, PcMatchesState, WritesRegistered, [Next]_vars,
           NEW t \in Txns, state[t] = "Committed"
    PROVE  /\ state'[t] = "Committed" /\ end_ts'[t] = end_ts[t] /\ begin_ts'[t] = begin_ts[t]
           /\ write_set'[t] = write_set[t] /\ wrote'[t] = wrote[t]
  <1>1. CASE UNCHANGED vars
    BY <1>1 DEF vars, storeVars, opVars
  <1>2. ASSUME NEW x \in Txns, Dates(x)
        PROVE  /\ state'[t] = "Committed" /\ end_ts'[t] = end_ts[t] /\ begin_ts'[t] = begin_ts[t]
               /\ write_set'[t] = write_set[t] /\ wrote'[t] = wrote[t]
    <2>1. CASE t # x
      BY <1>2, <2>1 DEF Dates, OthersStay
    <2>2. CASE t = x
      <3>1. ~Begins(t) /\ ~Prepares(t) /\ ~Ends(t)
        BY DEF Begins, Prepares, Ends, PcMatchesState, RollbackPcs
      <3>2. Keeps(t)
        BY <1>2, <2>2, <3>1 DEF Dates
      <3>3. \A r \in Rows : ~Writes(t, r)
        BY WriteRegisters
      <3>4. state'[t] = "Committed"
        BY <3>2 DEF Keeps, Advances, PcMatchesState
      <3> QED  BY <3>2, <3>3, <3>4 DEF Keeps
    <2> QED  BY <2>1, <2>2
  <1> QED  BY <1>1, <1>2, DatesSteps

(* A timestamp in a chain is that of a committed writer of the row.         *)
KnownStamp(stamp, r) ==
    stamp.kind = "Timestamp" =>
      \E w \in Txns : state[w] = "Committed" /\ stamp = Timestamp(end_ts[w]) /\ r \in write_set[w]

StampsKnown ==
    \A r \in Rows : \A i \in 1 .. Len(versions[r]) :
      KnownStamp(versions[r][i].begin, r) /\ KnownStamp(versions[r][i].end, r)

LEMMA StampsKnownStep ==
    ASSUME StoreTypeOK, PcMatchesState, WritesRegistered, Tagged, StampsKnown, [Next]_vars
    PROVE  StampsKnown'
  <1>1. ASSUME NEW stamp, NEW r, KnownStamp(stamp, r)
        PROVE  stamp.kind = "Timestamp" =>
                 \E w \in Txns : /\ state'[w] = "Committed" /\ stamp = Timestamp(end_ts'[w])
                                 /\ r \in write_set'[w]
    BY <1>1, CommittedStays DEF KnownStamp
  <1>2. ASSUME NEW r \in Rows, NEW i \in 1 .. Len(versions'[r]), NEW w, w = versions'[r][i],
               KnownStamp(w.begin, r), KnownStamp(w.end, r)
        PROVE  KnownStamp(versions[r][i].begin, r)' /\ KnownStamp(versions[r][i].end, r)'
    <2>1. /\ KnownStamp(versions[r][i].begin, r)' <=>
               (w.begin.kind = "Timestamp" =>
                 \E y \in Txns : /\ state'[y] = "Committed" /\ w.begin = Timestamp(end_ts'[y])
                                 /\ r \in write_set'[y])
          /\ KnownStamp(versions[r][i].end, r)' <=>
               (w.end.kind = "Timestamp" =>
                 \E y \in Txns : /\ state'[y] = "Committed" /\ w.end = Timestamp(end_ts'[y])
                                 /\ r \in write_set'[y])
      BY <1>2 DEF KnownStamp
    <2> QED  BY <1>1, <1>2, <2>1
  <1>3. SUFFICES ASSUME NEW r \in Rows, NEW i \in 1 .. Len(versions'[r])
                 PROVE  KnownStamp(versions'[r][i].begin, r) /\ KnownStamp(versions'[r][i].end, r)
    BY <1>2 DEF StampsKnown
  <1>4. PICK w : w = versions'[r][i]
    OBVIOUS
  <1>5. ASSUME NEW j \in 1 .. Len(versions[r])
        PROVE  KnownStamp(versions[r][j].begin, r) /\ KnownStamp(versions[r][j].end, r)
    BY DEF StampsKnown
  <1>6. ASSUME NEW t \in Txns  PROVE KnownStamp(TxID(t), r) /\ KnownStamp(None, r)
    BY StampsDiffer DEF KnownStamp
  <1>7. CASE versions'[r] = versions[r]
    BY <1>5, <1>7
  <1>8. ASSUME NEW x \in Txns, NEW q \in Rows, Writes(x, q)
        PROVE  KnownStamp(w.begin, r) /\ KnownStamp(w.end, r)
    <2>1. WrittenBy(x, q)
      BY <1>8, WrittenChain
    <2>2. CASE q # r
      BY <1>4, <1>7, <2>1, <2>2 DEF WrittenBy
    <2>3. CASE q = r
      <3>1. WrittenFrom(x, versions[r], w)
        BY <1>4, <2>1, <2>3 DEF WrittenBy
      <3>2. CASE Fresh(x, w)
        BY <1>6, <3>2 DEF Fresh
      <3>3. ASSUME NEW j \in 1 .. Len(versions[r]), w = versions[r][j] \/ EndedBy(x, versions[r][j], w)
            PROVE  KnownStamp(w.begin, r) /\ KnownStamp(w.end, r)
        BY <1>5, <1>6, <3>3 DEF EndedBy
      <3> QED  BY <3>1, <3>2, <3>3 DEF WrittenFrom
    <2> QED  BY <2>2, <2>3
  <1>9. ASSUME NEW x \in Txns, NEW q \in Rows, Visits(x, q)
        PROVE  KnownStamp(w.begin, r) /\ KnownStamp(w.end, r)
    <2>1. VisitedBy(x, q)
      BY <1>9, VisitedChain
    <2>2. CASE q # r
      BY <1>4, <1>7, <2>1, <2>2 DEF VisitedBy
    <2>3. CASE q = r
      <3>0. i \in 1 .. Len(versions[r])
        BY <2>1, <2>3 DEF VisitedBy
      <3>1. PICK v : v = versions[r][i]
        OBVIOUS
      <3>2. KnownStamp(v.begin, r) /\ KnownStamp(v.end, r)
        BY <1>5, <3>0, <3>1
      <3>3. CASE pc[x] = "rewrite" /\ Stamped(x, v, w)
        <4>1. state[x] = "Committed"
          BY <3>3 DEF PcMatchesState, CommittedPcs
        <4>2. touched(x, v) => r \in write_set[x]
          BY <3>0, <3>1 DEF Tagged, MayTag
        <4>3. touched(x, v) => KnownStamp(Timestamp(end_ts[x]), r)
          BY <4>1, <4>2 DEF KnownStamp
        <4> QED  BY <3>2, <3>3, <4>3 DEF Stamped, touched
      <3>4. CASE pc[x] = "rb_undo" /\ Undone(x, v, w)
        BY <1>6, <3>2, <3>4 DEF Undone
      <3> QED  BY <1>4, <2>1, <2>3, <3>0, <3>1, <3>3, <3>4 DEF VisitedBy
    <2> QED  BY <2>2, <2>3
  <1> QED  BY <1>4, <1>7, <1>8, <1>9, ChainSteps

-----------------------------------------------------------------------------
(* The sets of transactions that could all commit.                          *)

(* In order of time: t has ended before u began.                            *)
Precedes(t, u) == t \in Dated /\ end_ts[t] < begin_ts[u]

(* Everybody t still waits for is in C.                                     *)
ReliesOn(t, C) ==
    ~abort_now[t] /\ \A u \in Txns : t \in commit_dep_set[u] \/ t \in dependents[u] => u \in C

Apart(t, u) ==
    \A r \in Rows : r \in write_set[t] /\ r \in write_set[u] => Precedes(t, u) \/ Precedes(u, t)

MayCommit(C) ==
    /\ C \subseteq Txns /\ Committed \subseteq C
    /\ \A t \in C : state[t] \notin {"Aborted", "Terminated"}
    /\ \A t \in C : state[t] # "Committed" => ReliesOn(t, C)
    /\ \A t, u \in C : t # u => Apart(t, u)

(* Those that have committed are such a set.                                *)
LEMMA CommittedMayCommit ==
    ASSUME StoreTypeOK, ClockInv, Seal
    PROVE  MayCommit(Committed)
  <1>1. ASSUME NEW t \in Committed, NEW u \in Committed, t # u, NEW r \in Rows,
               r \in write_set[t], r \in write_set[u]
        PROVE  Precedes(t, u) \/ Precedes(u, t)
    <2>1. t \in Dated /\ u \in Dated /\ Validated(t, r) /\ Validated(u, r)
      BY <1>1 DEF Committed, Dated, Validated
    <2>2. end_ts[t] # end_ts[u] /\ end_ts[t] \in Nat /\ end_ts[u] \in Nat
      BY <1>1, <2>1 DEF ClockInv, StoreTypeOK, Dated
    <2>3. ~Doomed(t) /\ ~Doomed(u)
      BY DEF Committed, Doomed
    <2>4. t \in Txns /\ u \in Txns /\ r \in ConflictSet[r]
      BY MvStoreAssumption DEF Committed
    <2>5. CASE end_ts[t] < end_ts[u]
      BY <1>1, <2>1, <2>3, <2>4, <2>5 DEF Seal, Precedes
    <2>6. CASE end_ts[u] < end_ts[t]
      BY <1>1, <2>1, <2>3, <2>4, <2>6 DEF Seal, Precedes
    <2> QED  BY <2>2, <2>5, <2>6
  <1>2. \A t, u \in Committed : t # u => Apart(t, u)
    BY <1>1 DEF Apart
  <1> QED  BY <1>2 DEF MayCommit, Committed

(* What a step does to a transaction that may commit after it.              *)
MemberStays(t) ==
    /\ state[t] \notin {"Aborted", "Terminated"}
    /\ write_set[t] \subseteq write_set'[t]
    /\ begin_ts'[t] = begin_ts[t] \/ state[t] = "Unborn"
    /\ t \in Dated => /\ t \in Dated' /\ end_ts'[t] = end_ts[t] /\ begin_ts'[t] = begin_ts[t]
                      /\ write_set'[t] = write_set[t] /\ wrote'[t] = wrote[t]
    /\ t \in Dated' => t \in Dated \/ end_ts'[t] = clock

LEMMA MemberSteps ==
    ASSUME StoreTypeOK, PcMatchesState, WritesRegistered, [Next]_vars,
           NEW t \in Txns, state'[t] \notin {"Aborted", "Terminated"}
    PROVE  MemberStays(t)
  <1>1. CASE UNCHANGED vars
    BY <1>1 DEF vars, storeVars, opVars, MemberStays, Dated
  <1>2. ASSUME NEW x \in Txns, Dates(x)  PROVE MemberStays(t)
    <2>1. CASE t # x
      BY <1>2, <2>1 DEF Dates, OthersStay, MemberStays, Dated
    <2>2. CASE t = x /\ Begins(x)
      BY <2>2 DEF Begins, MemberStays, Dated, PcMatchesState
    <2>3. CASE t = x /\ Prepares(x)
      BY <2>3 DEF Prepares, MemberStays, Dated, PcMatchesState
    <2>4. CASE t = x /\ Ends(x)
      BY <2>4 DEF Ends
    <2>5. CASE t = x /\ Keeps(x)
      <3>1. begin_ts'[t] = begin_ts[t] /\ end_ts'[t] = end_ts[t] /\ Advances(t)
        BY <2>5 DEF Keeps
      <3>2. /\ state[t] \notin {"Aborted", "Terminated"}
            /\ t \in Dated <=> t \in Dated'
        BY <3>1 DEF Advances, PcMatchesState, CommittingPcs, Dated
      <3>3. CASE write_set'[t] = write_set[t] /\ wrote'[t] = wrote[t]
        BY <3>1, <3>2, <3>3 DEF MemberStays
      <3>4. ASSUME NEW r \in Rows, Writes(t, r)  PROVE MemberStays(t)
        <4>1. state[t] = "Active" /\ write_set[t] \subseteq write_set'[t]
          BY <3>4, WriteRegisters
        <4> QED  BY <3>1, <3>2, <4>1 DEF MemberStays, Dated
      <3> QED  BY <2>5, <3>3, <3>4 DEF Keeps
    <2> QED  BY <1>2, <2>1, <2>2, <2>3, <2>4, <2>5 DEF Dates
  <1> QED  BY <1>1, <1>2, DatesSteps

LEMMA PrecedesKept ==
    ASSUME StoreTypeOK, ClockInv, NEW t \in Txns, NEW u \in Txns,
           MemberStays(t), MemberStays(u), state[u] # "Unborn"
    PROVE  Precedes(t, u)' <=> Precedes(t, u)
  <1>1. begin_ts'[u] = begin_ts[u] /\ begin_ts[u] \in Nat /\ clock \in Nat /\ begin_ts[u] < clock
    BY DEF MemberStays, ClockInv, StoreTypeOK
  <1>2. CASE t \in Dated
    BY <1>1, <1>2 DEF MemberStays, Precedes
  <1>3. CASE t \notin Dated
    <2>1. t \in Dated' => end_ts'[t] = clock
      BY <1>3 DEF MemberStays
    <2>2. ~Precedes(t, u)
      BY <1>3 DEF Precedes
    <2>3. ~(t \in Dated' /\ end_ts'[t] < begin_ts'[u])
      BY <1>1, <2>1
    <2> QED  BY <2>2, <2>3 DEF Precedes
  <1> QED  BY <1>2, <1>3

(* Who could all commit after a step could all commit before it.            *)
LEMMA MayCommitBefore ==
    ASSUME DependencyInv, WritesRegistered, WritesKnown, ClockInv, Tagged, Settled, [Next]_vars,
           NEW C, MayCommit(C)'
    PROVE  MayCommit(C) /\ \A t \in C : MemberStays(t)
  <1>0. /\ StoreTypeOK /\ PcMatchesState /\ NotifyingOnly /\ UnbornOwedNothing
    BY DEF DependencyInv
  <1>1. /\ C \subseteq Txns
        /\ \A t \in C : state'[t] \notin {"Aborted", "Terminated"}
    BY DEF MayCommit
  <1>2. \A t \in C : MemberStays(t)
    BY <1>0, <1>1, MemberSteps
  <1>3. Committed \subseteq C
    <2>1. ASSUME NEW t \in Committed  PROVE t \in C
      <3>1. state'[t] = "Committed" /\ t \in Txns
        BY <1>0, CommittedStays DEF Committed
      <3>2. t \in Committed'
        BY <3>1 DEF Committed
      <3> QED  BY <3>2 DEF MayCommit
    <2> QED  BY <2>1
  <1>4. ASSUME NEW t \in C, state[t] # "Committed"  PROVE ReliesOn(t, C)
    <2>0. t \in Txns /\ state[t] \notin {"Aborted", "Terminated"}
      BY <1>1, <1>2 DEF MemberStays
    <2>1. CASE state'[t] = "Committed"
      <3>1. pc[t] \in {"read_only", "commit_end"}
        <4>1. CASE UNCHANGED vars
          BY <1>4, <2>1, <4>1 DEF vars, storeVars
        <4>2. ASSUME NEW x \in Txns, Dates(x)  PROVE pc[t] \in {"read_only", "commit_end"}
          BY <1>4, <2>0, <2>1, <4>2 DEF Dates, OthersStay, Begins, Prepares, Ends, Keeps, Advances
        <4> QED  BY <1>0, <4>1, <4>2, DatesSteps
      <3> QED  BY <2>0, <3>1 DEF Settled, SettledPcs, Owes, ReliesOn
    <2>2. CASE state'[t] # "Committed"
      <3>1. ReliesOn(t, C)'
        BY <2>2 DEF MayCommit
      <3>2. /\ ~abort_now'[t]
            /\ \A u \in Txns : t \in commit_dep_set'[u] \/ t \in dependents'[u] => u \in C
        BY <3>1 DEF ReliesOn
      <3>3. ~abort_now[t]
        <4>1. pc[t] # "rb_undo"
          BY <1>0, <2>0 DEF PcMatchesState, RollbackPcs
        <4> QED  BY <1>0, <2>0, <3>2, <4>1, AbortNowStays
      <3>4. ASSUME NEW u \in Txns, t \in commit_dep_set[u] \/ t \in dependents[u]
            PROVE  u \in C
        <4>0. t \in txs
          <5>1. state[t] # "Unborn"
            BY <1>0, <2>0, <3>4 DEF UnbornOwedNothing, Owes
          <5>2. state[t] \in TransactionState /\ pc[t] \in ProgramCounter
            BY <1>0, <2>0 DEF StoreTypeOK
          <5> QED  BY <1>0, <1>4, <2>0, <5>1, <5>2
                   DEF PcMatchesState, TransactionState, ProgramCounter, CommittingPcs,
                       CommittedPcs, RollbackPcs
        <4>1. CASE UNCHANGED vars
          BY <3>2, <3>4, <4>1 DEF vars, depVars
        <4>2. ASSUME NEW x \in Txns, Moves(x)  PROVE u \in C
          BY <3>2, <3>4, <4>2 DEF Moves
        <4>3. ASSUME NEW x \in Txns, NEW q \in Rows, RowStatement(x, q)  PROVE u \in C
          <5>1. commit_dep_set[u] \subseteq commit_dep_set'[u] /\ dependents' = dependents
            BY <1>0, <4>3, StatementRegisters DEF RegistersOn
          <5> QED  BY <3>2, <3>4, <5>1
        <4>4. ASSUME NEW x \in Txns, Takes(x)  PROVE u \in C
          <5>1. t \in commit_dep_set'[u] \/ t \in dependents'[u]
            <6>1. CASE u # x
              BY <1>0, <3>4, <4>4, <6>1 DEF Takes, StoreTypeOK
            <6>2. CASE u = x
              <7>1. dependents[u] = {}
                BY <1>0, <4>4, <6>2 DEF Takes, NotifyingOnly
              <7> QED  BY <1>0, <3>4, <4>4, <6>2, <7>1 DEF Takes, StoreTypeOK
            <6> QED  BY <6>1, <6>2
          <5> QED  BY <3>2, <5>1
        <4>5. ASSUME NEW x \in Txns, NEW d \in Txns, Pays(x, d)  PROVE u \in C
          <5>1. CASE t \in commit_dep_set'[u] \/ t \in dependents'[u]
            BY <3>2, <5>1
          <5>2. CASE t \notin commit_dep_set'[u] /\ t \notin dependents'[u]
            <6>1. t \in dependents[u] /\ t \notin dependents'[u]
              BY <3>4, <4>5, <5>2 DEF Pays
            <6>2. /\ dependents' = [dependents EXCEPT ![x] = @ \ {d}]
                  /\ \/ pc[x] = "notify"
                     \/ abort_now' = IF d \in txs THEN [abort_now EXCEPT ![d] = TRUE] ELSE abort_now
              BY <4>5, <6>1 DEF Pays
            <6>3. u = x /\ t = d
              BY <1>0, <6>1, <6>2 DEF StoreTypeOK
            <6>4. pc[x] = "notify"
              <7>1. SUFFICES ASSUME pc[x] # "notify"  PROVE FALSE
                OBVIOUS
              <7>2. abort_now' = [abort_now EXCEPT ![t] = TRUE]
                BY <4>0, <6>2, <6>3, <7>1
              <7>3. abort_now'[t]
                BY <1>0, <2>0, <7>2 DEF StoreTypeOK
              <7> QED  BY <3>2, <7>3
            <6>5. state[u] = "Committed"
              BY <1>0, <6>3, <6>4 DEF PcMatchesState, CommittedPcs
            <6> QED  BY <1>3, <6>5 DEF Committed
          <5> QED  BY <5>1, <5>2
        <4>6. ASSUME NEW x \in Txns, Drops(x)  PROVE u \in C
          BY <3>2, <3>4, <4>6 DEF Drops
        <4> QED  BY <1>0, <4>1, <4>2, <4>3, <4>4, <4>5, <4>6, StepKinds, DebtSteps
      <3> QED  BY <3>3, <3>4 DEF ReliesOn
    <2> QED  BY <2>1, <2>2
  <1>5. ASSUME NEW t \in C, NEW u \in C, t # u  PROVE Apart(t, u)
    <2>1. SUFFICES ASSUME NEW r \in Rows, r \in write_set[t], r \in write_set[u]
                   PROVE  Precedes(t, u) \/ Precedes(u, t)
      BY DEF Apart
    <2>2. t \in Txns /\ u \in Txns /\ MemberStays(t) /\ MemberStays(u)
      BY <1>1, <1>2
    <2>3. state[t] # "Unborn" /\ state[u] # "Unborn"
      BY <2>1, <2>2 DEF WritesKnown
    <2>4. r \in write_set'[t] /\ r \in write_set'[u]
      BY <2>1, <2>2 DEF MemberStays
    <2>5. Apart(t, u)'
      BY <1>5 DEF MayCommit
    <2>6. Precedes(t, u)' \/ Precedes(u, t)'
      BY <2>4, <2>5 DEF Apart
    <2> QED  BY <1>0, <2>2, <2>3, <2>6, PrecedesKept
  <1>6. \A t \in C : state[t] \notin {"Aborted", "Terminated"}
    BY <1>2 DEF MemberStays
  <1> QED  BY <1>1, <1>2, <1>3, <1>4, <1>5, <1>6 DEF MayCommit

(* A read that may commit with C relies on members of C only.               *)
LEMMA RegisteredIn ==
    ASSUME StoreTypeOK, NEW t \in Txns, NEW us, us \subseteq Txns,
           register_commit_dependency(t, us),
           NEW C, MayCommit(C)', t \in C, state'[t] # "Committed"
    PROVE  us \subseteq C
  <1>1. ReliesOn(t, C)'
    BY DEF MayCommit
  <1>2. /\ ~abort_now'[t]
        /\ \A u \in Txns : t \in commit_dep_set'[u] => u \in C
    BY <1>1 DEF ReliesOn
  <1>3. PICK aborted \in SUBSET {u \in us : pc[u] = "rollback"} :
          /\ commit_dep_set' = [u \in Txns |-> IF u \in us \ aborted THEN commit_dep_set[u] \cup {t}
                                                                     ELSE commit_dep_set[u]]
          /\ abort_now' = [abort_now EXCEPT ![t] = @ \/ aborted # {}]
    BY DEF register_commit_dependency
  <1>4. aborted = {}
    BY <1>2, <1>3 DEF StoreTypeOK
  <1>5. \A u \in us : t \in commit_dep_set'[u]
    BY <1>3, <1>4
  <1> QED  BY <1>2, <1>5

-----------------------------------------------------------------------------
(* The chains, as such a set would leave them.                              *)

(* A version that w has created and not ended.                              *)
Live(w, v) == MarkOf(w, v.begin) /\ ~MarkOf(w, v.end)

(* What w left in the row, if anything, is in exactly one live version.     *)
HasLive(w, r) ==
    r \in write_set[w] /\ wrote[w][r] # Absent =>
      \E i \in 1 .. Len(versions[r]) : Live(w, versions[r][i])

LiveIsWritten(w, r) ==
    \A i \in 1 .. Len(versions[r]) : Live(w, versions[r][i]) =>
      r \in write_set[w] /\ versions[r][i].row = wrote[w][r] /\ wrote[w][r] # Absent

OneLive(w, r) ==
    \A i, j \in 1 .. Len(versions[r]) :
      Live(w, versions[r][i]) /\ Live(w, versions[r][j]) => i = j

(* If u wrote the row after w, it has ended what w left, or somebody before *)
(* it has.                                                                  *)
EndedFor(C, u, stamp) == \E y \in C : MarkOf(y, stamp) /\ (y = u \/ Precedes(y, u))

Superseded(C, w, r) ==
    \A i \in 1 .. Len(versions[r]) : Live(w, versions[r][i]) =>
      \A u \in C : r \in write_set[u] /\ Precedes(w, u) => EndedFor(C, u, versions[r][i].end)

Follows(C, w, r) == HasLive(w, r) /\ LiveIsWritten(w, r) /\ OneLive(w, r) /\ Superseded(C, w, r)

ChainsFollow == \A C : MayCommit(C) => \A w \in C, r \in Rows : Follows(C, w, r)

(* What the lookups need to know of the store.                              *)
StoreInv == CommitterInv /\ WritesKnown /\ StampsKnown

LEMMA StoreInvParts ==
    ASSUME StoreInv
    PROVE  /\ StoreTypeOK /\ PcMatchesState /\ NotifyingOnly /\ UnbornOwedNothing /\ DependencyInv
           /\ Tagged /\ WritersOwe /\ Settled /\ EndedSpeculatively /\ StampedInOrder
           /\ WritesRegistered /\ ClockInv /\ OrderedStamps /\ Marks /\ Seal
           /\ WritesKnown /\ StampsKnown
  BY DEF StoreInv, CommitterInv, ChainInv, CommitLogInv, DependencyInv

(* Who has its TxID in a chain is looked up in txs.                         *)
LEMMA TagState ==
    ASSUME StoreTypeOK, PcMatchesState, Tagged, NEW r \in Rows, NEW i \in 1 .. Len(versions[r]),
           NEW u \in Txns, touched(u, versions[r][i])
    PROVE  /\ lookup_tx_state(u) = state[u] /\ r \in write_set[u]
           /\ state[u] \in {"Active", "Preparing", "Committed", "Aborted"}
  <1>1. MayTag(u, r)
    BY DEF Tagged
  <1>2. u \in txs /\ r \in write_set[u] /\ pc[u] \in TaggingPcs
    BY <1>1 DEF MayTag
  <1>3. state[u] \in {"Active", "Preparing", "Committed", "Aborted"}
    BY <1>2 DEF PcMatchesState, TaggingPcs, CommittingPcs, CommittedPcs, RollbackPcs
  <1> QED  BY <1>2, <1>3 DEF lookup_tx_state

(* Whoever created a version that t sees has committed or is relied upon.   *)
LEMMA VisibleCreator ==
    ASSUME StoreInv, NEW t \in Txns, state[t] = "Active", NEW C, MayCommit(C),
           NEW r \in Rows, NEW i \in 1 .. Len(versions[r]), NEW v, v = versions[r][i],
           is_visible_to(t, v), speculates_on(t, v) \subseteq C
    PROVE  \/ v.begin = TxID(t) /\ v.end = None
           \/ \E w \in C : w # t /\ r \in write_set[w] /\ Precedes(w, t) /\ Live(w, v)
  <1>0. /\ StoreTypeOK /\ PcMatchesState /\ Tagged /\ ClockInv /\ StampsKnown
        /\ StampedInOrder /\ OrderedStamps
    BY StoreInvParts
  <1>1. v \in RowVersion /\ is_begin_visible(t, v) /\ is_end_visible(t, v)
    BY <1>0 DEF StoreTypeOK, is_visible_to
  <1>2. ASSUME NEW w \in C, w # t, r \in write_set[w], Precedes(w, t), MarkOf(w, v.begin)
        PROVE  Live(w, v)
    <2>0. /\ w \in Txns /\ state[w] \in {"Preparing", "Committed"} /\ end_ts[w] < begin_ts[t]
          /\ end_ts[w] \in Nat /\ begin_ts[t] \in Nat
      BY <1>0, <1>2 DEF Precedes, Dated, StoreTypeOK
    <2>1. SUFFICES ASSUME MarkOf(w, v.end)  PROVE FALSE
      BY <1>2 DEF Live
    <2>2. CASE v.end = TxID(w)
      <3>1. lookup_tx_state(w) = state[w] /\ v.end.kind = "TxID" /\ v.end.v = w /\ v.end # None
        BY <1>0, <2>0, <2>2, TagState, StampsDiffer DEF touched
      <3> QED  BY <1>1, <2>0, <3>1 DEF is_end_visible
    <2>3. CASE v.end = Timestamp(end_ts[w])
      <3>1. v.end.kind = "Timestamp" /\ v.end.v = end_ts[w] /\ v.end # None
        BY <2>3, StampsDiffer DEF Timestamp
      <3> QED  BY <1>1, <2>0, <3>1 DEF is_end_visible
    <2> QED  BY <2>1, <2>2, <2>3 DEF MarkOf
  <1>3. CASE v.begin.kind = "Timestamp"
    <2>1. PICK w \in Txns : /\ state[w] = "Committed" /\ v.begin = Timestamp(end_ts[w])
                            /\ r \in write_set[w]
      BY <1>0, <1>3 DEF StampsKnown, KnownStamp
    <2>2. w \in C /\ w # t /\ MarkOf(w, v.begin)
      BY <2>1 DEF MayCommit, Committed, MarkOf
    <2>3. v.begin.v = end_ts[w]
      BY <2>1 DEF Timestamp
    <2>4. begin_ts[t] > v.begin.v
      BY <1>1, <1>3 DEF is_begin_visible
    <2>5. Precedes(w, t)
      BY <1>0, <2>1, <2>3, <2>4 DEF Precedes, Dated, StoreTypeOK
    <2> QED  BY <1>2, <2>1, <2>2, <2>5
  <1>4. CASE v.begin.kind = "TxID"
    <2>1. PICK w \in Txns : v.begin = TxID(w) /\ v.begin.v = w
      BY <1>1, <1>4, TagsAreIds
    <2>2. lookup_tx_state(w) = state[w] /\ r \in write_set[w]
      BY <1>0, <2>1, TagState DEF touched
    <2>3. CASE state[w] = "Active" /\ w = t /\ v.end = None
      BY <2>1, <2>3
    <2>4. CASE state[w] \in {"Preparing", "Committed"} /\ begin_ts[t] > end_ts[w]
      <3>1. w # t /\ Precedes(w, t) /\ MarkOf(w, v.begin)
        BY <1>0, <2>1, <2>4 DEF Precedes, Dated, MarkOf, StoreTypeOK
      <3>2. w \in C
        <4>1. CASE state[w] = "Committed"
          BY <4>1 DEF MayCommit, Committed
        <4>2. CASE state[w] = "Preparing"
          <5>1. w \in speculates_on(t, v)
            BY <2>1, <2>2, <2>4, <4>2 DEF speculates_on
          <5> QED  BY <5>1
        <4> QED  BY <2>4, <4>1, <4>2
      <3> QED  BY <1>2, <2>2, <3>1, <3>2
    <2> QED  BY <1>1, <1>4, <2>1, <2>2, <2>3, <2>4 DEF is_begin_visible
  <1> QED  BY <1>1, <1>3, <1>4 DEF is_begin_visible

(* An end by t itself, or by somebody before it, hides a version from t.    *)
LEMMA EndHides ==
    ASSUME StoreTypeOK, PcMatchesState, Tagged, NEW t \in Txns, state[t] = "Active",
           NEW r \in Rows, NEW i \in 1 .. Len(versions[r]), NEW v, v = versions[r][i],
           NEW y \in Txns, MarkOf(y, v.end), y = t \/ Precedes(y, t)
    PROVE  ~is_end_visible(t, v)
  <1>0. begin_ts[t] \in Nat /\ end_ts[y] \in Nat
    BY DEF StoreTypeOK
  <1>1. CASE v.end = TxID(y)
    <2>1. lookup_tx_state(y) = state[y] /\ v.end.kind = "TxID" /\ v.end.v = y /\ v.end # None
      BY <1>1, TagState, StampsDiffer DEF touched
    <2>2. CASE y = t
      BY <2>1, <2>2 DEF is_end_visible
    <2>3. CASE Precedes(y, t)
      BY <1>0, <2>1, <2>3 DEF is_end_visible, Precedes, Dated
    <2> QED  BY <2>2, <2>3
  <1>2. CASE v.end # TxID(y)
    <2>1. state[y] = "Committed" /\ v.end = Timestamp(end_ts[y])
      BY <1>2 DEF MarkOf
    <2>2. v.end.kind = "Timestamp" /\ v.end.v = end_ts[y] /\ v.end # None
      BY <2>1, StampsDiffer DEF Timestamp
    <2>3. end_ts[y] < begin_ts[t]
      BY <2>1 DEF Precedes
    <2> QED  BY <1>0, <2>2, <2>3 DEF is_end_visible
  <1> QED  BY <1>1, <1>2

(* The writers of C whose work t's snapshot holds.                          *)
Earlier(C, t, r) == {u \in C : r \in write_set[u] /\ Precedes(u, t)}

(* A live version that t sees is from the last of them, and t itself has    *)
(* not written the row.                                                     *)
LEMMA VisibleIsLatest ==
    ASSUME StoreInv, NEW t \in Txns, state[t] = "Active", NEW C, MayCommit(C),
           NEW r \in Rows, NEW i \in 1 .. Len(versions[r]), NEW v, v = versions[r][i],
           is_end_visible(t, v), NEW w \in C, r \in write_set[w], Live(w, v), Precedes(w, t),
           Superseded(C, w, r)
    PROVE  /\ t \in C => r \notin write_set[t]
           /\ \A u \in Earlier(C, t, r) : end_ts[u] <= end_ts[w]
  <1>0. /\ StoreTypeOK /\ PcMatchesState /\ Tagged /\ ClockInv
        /\ C \subseteq Txns /\ \A x, y \in C : x # y => Apart(x, y)
    BY StoreInvParts DEF MayCommit
  <1>1. ASSUME NEW u \in C, r \in write_set[u], Precedes(w, u)
        PROVE  \E y \in C : MarkOf(y, v.end) /\ (y = u \/ Precedes(y, u))
    BY <1>1 DEF Superseded, EndedFor
  <1>2. ASSUME t \in C, r \in write_set[t]  PROVE FALSE
    <2>1. PICK y \in C : MarkOf(y, v.end) /\ (y = t \/ Precedes(y, t))
      BY <1>1, <1>2
    <2> QED  BY <1>0, <2>1, EndHides
  <1>3. ASSUME NEW u \in Earlier(C, t, r), ~(end_ts[u] <= end_ts[w])  PROVE FALSE
    <2>1. /\ u \in C /\ r \in write_set[u] /\ Precedes(u, t) /\ u \in Txns /\ w \in Txns
      BY <1>0 DEF Earlier
    <2>2. /\ u \in Dated /\ w \in Dated /\ end_ts[u] < begin_ts[t]
          /\ end_ts[u] \in Nat /\ end_ts[w] \in Nat /\ begin_ts[u] \in Nat /\ begin_ts[w] \in Nat
          /\ begin_ts[t] \in Nat
      BY <1>0, <2>1 DEF Precedes, StoreTypeOK
    <2>3. begin_ts[u] < end_ts[u] /\ begin_ts[w] < end_ts[w]
      BY <1>0, <2>2 DEF ClockInv
    <2>4. u # w /\ end_ts[w] < end_ts[u]
      BY <1>3, <2>2
    <2>5. Precedes(w, u) \/ Precedes(u, w)
      BY <1>0, <2>1, <2>4 DEF Apart
    <2>6. ~Precedes(u, w)
      BY <2>2, <2>3, <2>4 DEF Precedes
    <2>7. PICK y \in C : MarkOf(y, v.end) /\ (y = u \/ Precedes(y, u))
      BY <1>1, <2>1, <2>5, <2>6
    <2>8. Precedes(y, t) /\ y \in Txns
      <3>1. CASE y = u
        BY <2>1, <3>1
      <3>2. CASE Precedes(y, u)
        <4>1. y \in Dated /\ end_ts[y] < begin_ts[u] /\ y \in Txns /\ end_ts[y] \in Nat
          BY <1>0, <3>2 DEF Precedes, StoreTypeOK, Dated
        <4>2. end_ts[y] < begin_ts[t]
          <5>1. begin_ts[u] < begin_ts[t]
            BY <2>2, <2>3
          <5>2. \A a, b, c \in Nat : a < b /\ b < c => a < c
            OBVIOUS
          <5>3. begin_ts[u] \in Nat /\ begin_ts[t] \in Nat
            BY <2>2
          <5> QED  BY <4>1, <5>1, <5>2, <5>3, Zenon
        <4> QED  BY <4>1, <4>2 DEF Precedes
      <3> QED  BY <2>7, <3>1, <3>2
    <2> QED  BY <1>0, <2>7, <2>8, EndHides
  <1> QED  BY <1>2, <1>3

(* A live version of a transaction before t that t does not see was ended   *)
(* by t, or by a later one before t.                                        *)
LEMMA HiddenIsEnded ==
    ASSUME StoreInv, NEW t \in Txns, state[t] = "Active", NEW C, MayCommit(C),
           NEW r \in Rows, NEW i \in 1 .. Len(versions[r]), NEW v, v = versions[r][i],
           ~is_visible_to(t, v), speculates_on(t, v) \subseteq C,
           NEW w \in C, Live(w, v), Precedes(w, t)
    PROVE  \/ v.end = TxID(t)
           \/ \E y \in Earlier(C, t, r) : MarkOf(y, v.end) /\ end_ts[w] < end_ts[y]
  <1>0. /\ StoreTypeOK /\ PcMatchesState /\ Tagged /\ ClockInv /\ StampsKnown
        /\ StampedInOrder /\ OrderedStamps /\ C \subseteq Txns
    BY StoreInvParts DEF MayCommit
  <1>1. v \in RowVersion /\ Ordered(v) /\ w \in Txns
    BY <1>0 DEF StoreTypeOK, OrderedStamps
  <1>2. /\ state[w] \in {"Preparing", "Committed"} /\ end_ts[w] < begin_ts[t] /\ w \in Dated
        /\ end_ts[w] \in Nat /\ begin_ts[t] \in Nat
    BY <1>0, <1>1 DEF Precedes, Dated, StoreTypeOK
  <1>3. is_begin_visible(t, v)
    <2>1. CASE v.begin = TxID(w)
      <3>1. lookup_tx_state(w) = state[w] /\ v.begin.kind = "TxID" /\ v.begin.v = w
        BY <1>0, <1>1, <2>1, TagState, StampsDiffer DEF touched
      <3> QED  BY <1>2, <3>1 DEF is_begin_visible
    <2>2. CASE v.begin = Timestamp(end_ts[w])
      <3>1. v.begin.kind = "Timestamp" /\ v.begin.v = end_ts[w]
        BY <2>2 DEF Timestamp
      <3> QED  BY <1>2, <3>1 DEF is_begin_visible
    <2> QED  BY <2>1, <2>2 DEF Live, MarkOf
  <1>4. ~is_end_visible(t, v) /\ v.end # None
    BY <1>3 DEF is_visible_to, is_end_visible
  <1>5. ASSUME NEW y \in Txns, y # w, y # t, y \in Dated, r \in write_set[y], MarkOf(y, v.end),
               begin_ts[t] >= end_ts[y], y \in C
        PROVE  y \in Earlier(C, t, r) /\ MarkOf(y, v.end) /\ end_ts[w] < end_ts[y]
    <2>0. end_ts[y] \in Nat /\ begin_ts[y] \in Nat /\ begin_ts[y] < end_ts[y]
      BY <1>0, <1>5 DEF ClockInv, StoreTypeOK
    <2>1. end_ts[y] # begin_ts[t]
      BY <1>0, <1>5 DEF ClockInv
    <2>2. Precedes(y, t)
      BY <1>2, <1>5, <2>0, <2>1 DEF Precedes
    <2>3. end_ts[w] # end_ts[y]
      BY <1>0, <1>1, <1>2, <1>5 DEF ClockInv
    <2>4. end_ts[w] <= end_ts[y]
      <3>1. CASE v.end = TxID(y)
        <4>1. CASE v.begin = TxID(w)
          <5>1. end_ts[w] < begin_ts[y]
            BY <1>1, <1>5, <3>1, <4>1 DEF Ordered
          <5> QED  BY <1>2, <2>0, <5>1
        <4>2. CASE v.begin = Timestamp(end_ts[w])
          <5>1. v.begin.kind = "Timestamp" /\ v.begin.v = end_ts[w]
            BY <4>2 DEF Timestamp
          <5>2. end_ts[w] < begin_ts[y]
            BY <1>1, <3>1, <5>1 DEF Ordered
          <5> QED  BY <1>2, <2>0, <5>2
        <4> QED  BY <4>1, <4>2 DEF Live, MarkOf
      <3>2. CASE v.end = Timestamp(end_ts[y])
        <4>1. v.end.kind = "Timestamp" /\ v.end.v = end_ts[y]
          BY <3>2 DEF Timestamp
        <4>2. v.begin.kind # "TxID"
          BY <1>0, <4>1 DEF StampedInOrder
        <4>3. v.begin = Timestamp(end_ts[w])
          BY <1>1, <4>2, StampsDiffer DEF Live, MarkOf
        <4>4. v.begin.kind = "Timestamp" /\ v.begin.v = end_ts[w]
          BY <4>3 DEF Timestamp
        <4> QED  BY <1>1, <4>1, <4>4 DEF Ordered
      <3> QED  BY <1>5, <3>1, <3>2 DEF MarkOf
    <2> QED  BY <1>2, <1>5, <2>0, <2>2, <2>3, <2>4 DEF Earlier
  <1>6. CASE v.end.kind = "Timestamp"
    <2>1. PICK y \in Txns : /\ state[y] = "Committed" /\ v.end = Timestamp(end_ts[y])
                            /\ r \in write_set[y]
      BY <1>0, <1>6 DEF StampsKnown, KnownStamp
    <2>2. y # t /\ y \in Dated /\ MarkOf(y, v.end) /\ y \in C /\ v.end.v = end_ts[y]
      BY <2>1 DEF Dated, MarkOf, MayCommit, Committed, Timestamp
    <2>3. y # w
      BY <2>2 DEF Live
    <2>4. begin_ts[t] >= end_ts[y]
      <3>1. end_ts[y] \in Nat
        BY <1>0 DEF StoreTypeOK
      <3> QED  BY <1>2, <1>4, <1>6, <2>2, <3>1 DEF is_end_visible
    <2> QED  BY <1>5, <2>1, <2>2, <2>3, <2>4
  <1>7. CASE v.end.kind = "TxID"
    <2>1. PICK y \in Txns : v.end = TxID(y) /\ v.end.v = y
      BY <1>1, <1>7, TagsAreIds
    <2>2. SUFFICES ASSUME y # t  PROVE \E x \in Earlier(C, t, r) : MarkOf(x, v.end) /\ end_ts[w] < end_ts[x]
      BY <2>1
    <2>3. /\ lookup_tx_state(y) = state[y] /\ r \in write_set[y]
          /\ state[y] \in {"Active", "Preparing", "Committed", "Aborted"}
      BY <1>0, <2>1, TagState DEF touched
    <2>4. end_ts[y] \in Nat
      BY <1>0 DEF StoreTypeOK
    <2>5. state[y] \in {"Preparing", "Committed"} /\ begin_ts[t] >= end_ts[y]
      BY <1>2, <1>4, <1>7, <2>1, <2>2, <2>3, <2>4 DEF is_end_visible
    <2>6. MarkOf(y, v.end) /\ y # w /\ y \in Dated
      BY <2>1, <2>5 DEF MarkOf, Live, Dated
    <2>7. y \in C
      <3>1. CASE state[y] = "Committed"
        BY <3>1 DEF MayCommit, Committed
      <3>2. CASE state[y] = "Preparing"
        <4>1. end_ts[y] # begin_ts[t]
          BY <1>0, <2>2, <2>6 DEF ClockInv
        <4>2. y \in speculates_on(t, v)
          BY <1>2, <1>3, <2>1, <2>3, <2>4, <2>5, <3>2, <4>1 DEF speculates_on
        <4> QED  BY <4>2
      <3> QED  BY <2>5, <3>1, <3>2
    <2> QED  BY <1>5, <2>2, <2>3, <2>5, <2>6, <2>7
  <1> QED  BY <1>1, <1>4, <1>6, <1>7, StampsDiffer DEF RowVersion, TxTimestampOrID

LEMMA LatestOf ==
    ASSUME StoreTypeOK, ClockInv, NEW S, S \subseteq Txns, S # {}
    PROVE  \E w \in S : \A u \in S : end_ts[u] <= end_ts[w]
  <1> DEFINE E == {end_ts[u] : u \in S}
  <1>0. clock \in Nat /\ \A u \in S : end_ts[u] \in Nat /\ end_ts[u] < clock
    BY DEF StoreTypeOK, ClockInv
  <1>1. E \subseteq Nat /\ E # {} /\ clock \in Nat /\ \A x \in E : x <= clock
    BY <1>0
  <1>2. PICK m : m = Max(E)
    OBVIOUS
  <1>3. m \in E /\ \A x \in E : m >= x
    <2> HIDE DEF E
    <2> QED  BY <1>1, <1>2, MaxOf
  <1>4. PICK w \in S : end_ts[w] = m
    BY <1>3
  <1>5. \A u \in S : end_ts[u] \in E
    OBVIOUS
  <1>6. \A u \in S : end_ts[u] \in Nat
    BY DEF StoreTypeOK
  <1> QED  BY <1>3, <1>4, <1>5, <1>6

(* What t's snapshot has for the row, if exactly those of C commit.         *)
SnapshotIs(C, t, r, val) ==
    \/ Earlier(C, t, r) = {} /\ val = IF r \in BtreeRows THEN BtreeValue ELSE Absent
    \/ \E w \in Earlier(C, t, r) :
         (\A u \in Earlier(C, t, r) : end_ts[u] <= end_ts[w]) /\ val = wrote[w][r]

ReadIs(C, t, r, val, own) == IF own = Unwritten THEN SnapshotIs(C, t, r, val) ELSE val = own

(* What a lookup finds: a visible version, or none and then the row of the  *)
(* database file.                                                           *)
FindsVersion(t, r, val, us) ==
    \E i \in 1 .. Len(versions[r]) :
      /\ is_visible_to(t, versions[r][i]) /\ speculates_on(t, versions[r][i]) \subseteq us
      /\ val = versions[r][i].row

FindsNone(t, r, val, us) ==
    /\ no_visible_version(t, versions[r]) /\ btree_lookup_speculates_on(t, r) \subseteq us
    /\ val = IF query_btree_version_is_valid(t, r) THEN BtreeValue ELSE Absent

LEMMA OwnWritesKnown ==
    ASSUME StoreInv, NEW t \in Txns, NEW r \in Rows
    PROVE  wrote[t][r] = Unwritten <=> r \notin write_set[t]
  BY StoreInvParts DEF WritesRegistered, WritesKnown

(* What an Active transaction has created and not ended it sees.            *)
LEMMA OwnLiveVisible ==
    ASSUME StoreInv, NEW t \in Txns, state[t] = "Active",
           NEW r \in Rows, NEW i \in 1 .. Len(versions[r]), NEW v, v = versions[r][i], Live(t, v)
    PROVE  v.begin = TxID(t) /\ v.end = None /\ is_visible_to(t, v)
  <1>0. /\ StoreTypeOK /\ PcMatchesState /\ Tagged /\ StampedInOrder /\ OrderedStamps
    BY StoreInvParts
  <1>1. v \in RowVersion /\ Ordered(v)
    BY <1>0 DEF StoreTypeOK, OrderedStamps
  <1>2. v.begin = TxID(t) /\ v.end # TxID(t)
    BY DEF Live, MarkOf
  <1>3. v.begin.kind = "TxID" /\ v.begin.v = t
    BY <1>2, StampsDiffer
  <1>4. v.end.kind # "Timestamp"
    BY <1>0, <1>3 DEF StampedInOrder
  <1>5. v.end.kind # "TxID"
    <2>1. SUFFICES ASSUME v.end.kind = "TxID"  PROVE FALSE
      OBVIOUS
    <2>2. PICK x \in Txns : v.end = TxID(x)
      BY <1>1, <2>1, TagsAreIds
    <2>3. x # t
      BY <1>2, <2>2
    <2> QED  BY <1>1, <1>2, <2>2, <2>3 DEF Ordered
  <1>6. v.end = None
    BY <1>1, <1>4, <1>5 DEF RowVersion, TxTimestampOrID
  <1>7. lookup_tx_state(t) = "Active"
    BY <1>0, <1>2, TagState DEF touched
  <1> QED  BY <1>2, <1>3, <1>6, <1>7 DEF is_visible_to, is_begin_visible, is_end_visible

LEMMA VersionIsRight ==
    ASSUME StoreInv, NEW t \in Txns, state[t] = "Active", NEW C, MayCommit(C), t \in C,
           NEW r \in Rows, \A w \in C : Follows(C, w, r),
           NEW us, us \subseteq C, NEW val, FindsVersion(t, r, val, us)
    PROVE  ReadIs(C, t, r, val, wrote[t][r]) /\ val # Absent
  <1>1. PICK i \in 1 .. Len(versions[r]) :
          /\ is_visible_to(t, versions[r][i]) /\ speculates_on(t, versions[r][i]) \subseteq us
          /\ val = versions[r][i].row
    BY DEF FindsVersion
  <1>2. PICK v : v = versions[r][i]
    OBVIOUS
  <1>3. is_visible_to(t, v) /\ speculates_on(t, v) \subseteq C /\ val = v.row
    BY <1>1, <1>2
  <1>4. CASE v.begin = TxID(t) /\ v.end = None
    <2>1. Live(t, v)
      BY <1>4, StampsDiffer DEF Live, MarkOf
    <2>2. r \in write_set[t] /\ v.row = wrote[t][r] /\ wrote[t][r] # Absent
      BY <1>2, <2>1 DEF Follows, LiveIsWritten
    <2>3. wrote[t][r] # Unwritten
      BY <2>2, OwnWritesKnown
    <2> QED  BY <1>3, <2>2, <2>3 DEF ReadIs
  <1>5. ASSUME NEW w \in C, w # t, r \in write_set[w], Precedes(w, t), Live(w, v)
        PROVE  ReadIs(C, t, r, val, wrote[t][r]) /\ val # Absent
    <2>1. is_end_visible(t, v)
      BY <1>3 DEF is_visible_to
    <2>2. Superseded(C, w, r) /\ LiveIsWritten(w, r)
      BY DEF Follows
    <2>3. r \notin write_set[t] /\ \A u \in Earlier(C, t, r) : end_ts[u] <= end_ts[w]
      BY <1>2, <1>5, <2>1, <2>2, VisibleIsLatest
    <2>4. v.row = wrote[w][r] /\ wrote[w][r] # Absent
      BY <1>2, <1>5, <2>2 DEF LiveIsWritten
    <2>5. w \in Earlier(C, t, r)
      BY <1>5 DEF Earlier
    <2>6. SnapshotIs(C, t, r, val)
      BY <1>3, <2>3, <2>4, <2>5 DEF SnapshotIs
    <2>7. wrote[t][r] = Unwritten
      BY <2>3, OwnWritesKnown
    <2> QED  BY <1>3, <2>4, <2>6, <2>7 DEF ReadIs
  <1>6. \/ v.begin = TxID(t) /\ v.end = None
        \/ \E w \in C : w # t /\ r \in write_set[w] /\ Precedes(w, t) /\ Live(w, v)
    BY <1>2, <1>3, VisibleCreator
  <1> QED  BY <1>4, <1>5, <1>6

(* Who may commit with C has left its mark.                                 *)
LEMMA MemberMarks ==
    ASSUME StoreInv, NEW C, MayCommit(C), NEW w \in C, NEW r \in Rows, r \in write_set[w]
    PROVE  \E i \in 1 .. Len(versions[r]) : Marked(w, versions[r][i])
  <1>1. MustMark(w) /\ w \in Txns
    BY DEF MayCommit, ReliesOn, MustMark
  <1> QED  BY <1>1, StoreInvParts DEF Marks

(* If w's last word on the row, before t or t's own, is that there is none, *)
(* then the row of the database file is hidden from t.                      *)
LEMMA DeletionInvalidates ==
    ASSUME StoreInv, NEW t \in Txns, state[t] = "Active", NEW C, MayCommit(C),
           NEW r \in Rows, NEW w \in C, r \in write_set[w], wrote[w][r] = Absent,
           w = t \/ Precedes(w, t), LiveIsWritten(w, r)
    PROVE  ~query_btree_version_is_valid(t, r)
  <1>0. StoreTypeOK /\ PcMatchesState /\ Tagged /\ w \in Txns
    BY StoreInvParts DEF MayCommit
  <1>1. PICK i \in 1 .. Len(versions[r]) : Marked(w, versions[r][i])
    BY MemberMarks
  <1>2. PICK v : v = versions[r][i]
    OBVIOUS
  <1>3. MarkOf(w, v.end)
    <2>1. ~Live(w, v)
      BY <1>2 DEF LiveIsWritten
    <2> QED  BY <1>1, <1>2, <2>1 DEF Marked, Live
  <1>4. is_btree_invalidating_version(t, v)
    <2>0. begin_ts[t] \in Nat /\ end_ts[w] \in Nat
      BY <1>0 DEF StoreTypeOK
    <2>1. CASE v.end = TxID(w)
      <3>1. lookup_tx_state(w) = state[w] /\ v.end.kind = "TxID" /\ v.end.v = w
        BY <1>0, <1>2, <2>1, TagState, StampsDiffer DEF touched
      <3> QED  BY <2>0, <3>1 DEF is_btree_invalidating_version, Precedes, Dated
    <2>2. CASE v.end # TxID(w)
      <3>1. state[w] = "Committed" /\ v.end = Timestamp(end_ts[w])
        BY <1>3, <2>2 DEF MarkOf
      <3>2. v.end.kind = "Timestamp" /\ v.end.v = end_ts[w]
        BY <3>1 DEF Timestamp
      <3>3. end_ts[w] < begin_ts[t]
        BY <3>1 DEF Precedes
      <3> QED  BY <2>0, <3>2, <3>3 DEF is_btree_invalidating_version
    <2> QED  BY <2>1, <2>2
  <1> QED  BY <1>2, <1>4 DEF query_btree_version_is_valid

(* A version that hides the row of the database file from t, and that t     *)
(* neither sees nor has touched, was ended by somebody before t.            *)
LEMMA InvalidatedByEarlier ==
    ASSUME StoreInv, NEW t \in Txns, state[t] = "Active", NEW C, MayCommit(C),
           NEW r \in Rows, NEW i \in 1 .. Len(versions[r]), NEW v, v = versions[r][i],
           is_btree_invalidating_version(t, v), ~is_visible_to(t, v), v.end # TxID(t),
           invalidation_speculates_on(t, v) \subseteq C
    PROVE  Earlier(C, t, r) # {}
  <1>0. /\ StoreTypeOK /\ PcMatchesState /\ Tagged /\ StampsKnown
    BY StoreInvParts
  <1>1. v \in RowVersion /\ begin_ts[t] \in Nat
    BY <1>0 DEF StoreTypeOK
  <1>2. CASE v.end.kind = "Timestamp" /\ begin_ts[t] > v.end.v
    <2>1. PICK y \in Txns : /\ state[y] = "Committed" /\ v.end = Timestamp(end_ts[y])
                            /\ r \in write_set[y]
      BY <1>0, <1>2 DEF StampsKnown, KnownStamp
    <2>2. y \in C /\ y \in Dated /\ v.end.v = end_ts[y] /\ end_ts[y] \in Nat
      BY <1>0, <2>1 DEF MayCommit, Committed, Dated, Timestamp, StoreTypeOK
    <2>3. Precedes(y, t)
      BY <1>1, <1>2, <2>2 DEF Precedes
    <2> QED  BY <2>1, <2>2, <2>3 DEF Earlier
  <1>3. CASE v.end.kind = "TxID"
    <2>1. PICK y \in Txns : v.end = TxID(y) /\ v.end.v = y
      BY <1>1, <1>3, TagsAreIds
    <2>2. /\ lookup_tx_state(y) = state[y] /\ r \in write_set[y] /\ y # t
      BY <1>0, <2>1, TagState DEF touched
    <2>3. state[y] \in {"Preparing", "Committed"} /\ begin_ts[t] > end_ts[y]
      BY <1>3, <2>1, <2>2 DEF is_btree_invalidating_version
    <2>4. Precedes(y, t)
      <3>1. end_ts[y] \in Nat
        BY <1>0 DEF StoreTypeOK
      <3> QED  BY <1>1, <2>3, <3>1 DEF Precedes, Dated
    <2>5. y \in C
      <3>1. CASE state[y] = "Committed"
        BY <3>1 DEF MayCommit, Committed
      <3>2. CASE state[y] = "Preparing"
        <4>1. y \in invalidation_speculates_on(t, v)
          BY <2>1, <2>2, <2>3, <3>2 DEF invalidation_speculates_on
        <4> QED  BY <4>1
      <3> QED  BY <2>3, <3>1, <3>2
    <2> QED  BY <2>2, <2>4, <2>5 DEF Earlier
  <1> QED  BY <1>2, <1>3 DEF is_btree_invalidating_version

(* The dependencies of a lookup that finds no version.                      *)
LEMMA LookupDependencies ==
    ASSUME StoreTypeOK, NEW t \in Txns, NEW r \in Rows
    PROVE  /\ \A i \in 1 .. Len(versions[r]) :
                speculates_on(t, versions[r][i]) \subseteq btree_lookup_speculates_on(t, r)
           /\ \A i \in 1 .. Len(versions[r]) :
                r \in BtreeRows /\ (\A j \in (i + 1) .. Len(versions[r]) :
                                      ~is_btree_invalidating_version(t, versions[r][j]))
                => invalidation_speculates_on(t, versions[r][i]) \subseteq btree_lookup_speculates_on(t, r)
  BY DEF btree_lookup_speculates_on, examined_down_to

(* A lookup that finds the row of the database file hidden, or not there.   *)
LEMMA InvalidationIsRight ==
    ASSUME StoreInv, NEW t \in Txns, state[t] = "Active", NEW C, MayCommit(C),
           NEW r \in Rows, r \notin write_set[t], r \in BtreeRows,
           no_visible_version(t, versions[r]), btree_lookup_speculates_on(t, r) \subseteq C,
           ~query_btree_version_is_valid(t, r)
    PROVE  Earlier(C, t, r) # {}
  <1>0. /\ StoreTypeOK /\ PcMatchesState /\ Tagged
    BY StoreInvParts
  <1> DEFINE N == Len(versions[r])
             J == {i \in 1 .. N : is_btree_invalidating_version(t, versions[r][i])}
  <1>1. N \in Nat
    BY <1>0 DEF StoreTypeOK
  <1>2. J # {}
    BY DEF query_btree_version_is_valid
  <1>3. PICK m : m = Max(J)
    OBVIOUS
  <1>4. m \in J /\ \A j \in J : m >= j
    <2>1. J \subseteq Nat /\ \A j \in J : j <= N
      BY <1>1
    <2> HIDE DEF J, N
    <2> QED  BY <1>1, <1>2, <1>3, <2>1, MaxOf
  <1>5. m \in 1 .. Len(versions[r]) /\ is_btree_invalidating_version(t, versions[r][m])
    BY <1>4
  <1>6. \A j \in (m + 1) .. Len(versions[r]) : ~is_btree_invalidating_version(t, versions[r][j])
    <2>1. \A j \in (m + 1) .. N : j \in 1 .. N /\ ~(m >= j)
      BY <1>1, <1>5
    <2> QED  BY <1>4, <2>1
  <1>7. invalidation_speculates_on(t, versions[r][m]) \subseteq C
    BY <1>0, <1>5, <1>6, LookupDependencies
  <1>8. PICK v : v = versions[r][m]
    OBVIOUS
  <1>9. v.end # TxID(t)
    BY <1>0, <1>5, <1>8, TagState DEF touched
  <1>10. ~is_visible_to(t, v)
    BY <1>5, <1>8 DEF no_visible_version
  <1> QED  BY <1>5, <1>7, <1>8, <1>9, <1>10, InvalidatedByEarlier

LEMMA AbsenceIsRight ==
    ASSUME StoreInv, NEW t \in Txns, state[t] = "Active", NEW C, MayCommit(C), t \in C,
           NEW r \in Rows, \A w \in C : Follows(C, w, r),
           NEW us, us \subseteq C, NEW val, FindsNone(t, r, val, us)
    PROVE  ReadIs(C, t, r, val, wrote[t][r])
  <1>0. /\ StoreTypeOK /\ PcMatchesState /\ Tagged /\ ClockInv /\ C \subseteq Txns
    BY StoreInvParts DEF MayCommit
  <1>1. /\ no_visible_version(t, versions[r]) /\ btree_lookup_speculates_on(t, r) \subseteq C
        /\ val = IF query_btree_version_is_valid(t, r) THEN BtreeValue ELSE Absent
    BY DEF FindsNone
  <1>2. CASE r \in write_set[t]
    <2>1. wrote[t][r] = Absent
      <3>1. SUFFICES ASSUME wrote[t][r] # Absent  PROVE FALSE
        OBVIOUS
      <3>2. PICK i \in 1 .. Len(versions[r]) : Live(t, versions[r][i])
        BY <1>2, <3>1 DEF Follows, HasLive
      <3>3. is_visible_to(t, versions[r][i])
        BY <3>2, OwnLiveVisible
      <3> QED  BY <1>1, <3>3 DEF no_visible_version
    <2>2. ~query_btree_version_is_valid(t, r)
      BY <1>2, <2>1, DeletionInvalidates DEF Follows
    <2>3. wrote[t][r] # Unwritten
      BY <1>2, OwnWritesKnown
    <2> QED  BY <1>1, <2>1, <2>2, <2>3 DEF ReadIs
  <1>3. CASE r \notin write_set[t]
    <2>0. wrote[t][r] = Unwritten
      BY <1>3, OwnWritesKnown
    <2>1. SUFFICES SnapshotIs(C, t, r, val)
      BY <2>0 DEF ReadIs
    <2>2. CASE Earlier(C, t, r) = {}
      <3>1. r \in BtreeRows => query_btree_version_is_valid(t, r)
        BY <1>1, <1>3, <2>2, InvalidationIsRight
      <3>2. query_btree_version_is_valid(t, r) => r \in BtreeRows
        BY DEF query_btree_version_is_valid
      <3> QED  BY <1>1, <2>2, <3>1, <3>2 DEF SnapshotIs
    <2>3. CASE Earlier(C, t, r) # {}
      <3>1. PICK w \in Earlier(C, t, r) : \A u \in Earlier(C, t, r) : end_ts[u] <= end_ts[w]
        <4>1. Earlier(C, t, r) \subseteq Txns
          BY <1>0 DEF Earlier
        <4> QED  BY <1>0, <2>3, <4>1, LatestOf
      <3>2. w \in C /\ r \in write_set[w] /\ Precedes(w, t) /\ Follows(C, w, r)
        BY <3>1 DEF Earlier
      <3>3. wrote[w][r] = Absent
        <4>1. SUFFICES ASSUME wrote[w][r] # Absent  PROVE FALSE
          OBVIOUS
        <4>2. PICK i \in 1 .. Len(versions[r]) : Live(w, versions[r][i])
          BY <3>2, <4>1 DEF Follows, HasLive
        <4>3. PICK v : v = versions[r][i]
          OBVIOUS
        <4>4. ~is_visible_to(t, v) /\ speculates_on(t, v) \subseteq C
          BY <1>0, <1>1, <4>3, LookupDependencies DEF no_visible_version
        <4>5. v.end # TxID(t)
          BY <1>0, <1>3, <4>3, TagState DEF touched
        <4>6. PICK y \in Earlier(C, t, r) : end_ts[w] < end_ts[y]
          BY <3>2, <4>2, <4>3, <4>4, <4>5, HiddenIsEnded
        <4>7. end_ts[y] \in Nat /\ end_ts[w] \in Nat /\ end_ts[y] <= end_ts[w]
          BY <1>0, <3>1, <3>2 DEF Earlier, StoreTypeOK
        <4> QED  BY <4>6, <4>7
      <3>4. ~query_btree_version_is_valid(t, r)
        BY <3>2, <3>3, DeletionInvalidates DEF Follows
      <3> QED  BY <1>1, <3>1, <3>3, <3>4 DEF SnapshotIs
    <2> QED  BY <2>2, <2>3
  <1> QED  BY <1>2, <1>3

-----------------------------------------------------------------------------
(* What a writing statement does to a chain, index by index.                *)

(* Where index k goes when a version is inserted at p.                      *)
Shift(p, k) == IF k < p THEN k ELSE k + 1

LEMMA InsertedOnce ==
    ASSUME NEW chain \in Seq(RowVersion), NEW rv \in RowVersion, rv.begin.kind # "Timestamp",
           NEW c, c = insert_version_raw(chain, rv)
    PROVE  /\ Len(c) = Len(chain) + 1
           /\ \E p \in 1 .. (Len(chain) + 1) :
                c[p] = rv /\ \A k \in 1 .. Len(chain) : c[Shift(p, k)] = chain[k]
  <1> DEFINE begins_by(i) == resolve_begin_timestamp(chain[i].begin)
                               <= resolve_begin_timestamp(rv.begin)
             before(i) == \E j \in i .. Len(chain) : begins_by(j)
             replaced(i) == /\ before(i) /\ ~before(i + 1)
                            /\ chain[i].id = rv.id
                            /\ chain[i].begin.kind = "Timestamp" /\ chain[i].begin = rv.begin
             after == {i \in Nat : i >= 1 /\ ~before(i)}
  <1>1. PICK n : n = Len(chain) /\ n \in Nat
    OBVIOUS
  <1>2. c = IF \E i \in 1 .. n : replaced(i)
            THEN [i \in 1 .. n |-> IF replaced(i) THEN rv ELSE chain[i]]
            ELSE [i \in 1 .. (n + 1) |->
                    IF before(i) THEN chain[i]
                    ELSE IF i = 1 \/ before(i - 1) THEN rv ELSE chain[i - 1]]
    BY <1>1 DEF insert_version_raw
  <1>3. ~before(n + 1)
    BY <1>1
  <1>4. ~\E i \in 1 .. n : replaced(i)
    OBVIOUS
  <1>5. \A i, j \in 1 .. (n + 1) : i <= j /\ before(j) => before(i)
    BY <1>1
  <1> HIDE DEF before, replaced, begins_by
  <1>6. c = [i \in 1 .. (n + 1) |->
               IF before(i) THEN chain[i]
               ELSE IF i = 1 \/ before(i - 1) THEN rv ELSE chain[i - 1]]
    BY <1>2, <1>4
  <1>7. Len(c) = n + 1
    BY <1>1, <1>6
  <1>8. n + 1 \in after /\ after \subseteq Nat
    BY <1>1, <1>3
  <1>9. PICK p \in after : \A k \in after : p <= k
    BY <1>8, LeastNumber
  <1>10. p \in 1 .. (n + 1) /\ ~before(p)
    BY <1>1, <1>8, <1>9
  <1>11. p = 1 \/ before(p - 1)
    BY <1>9, <1>10
  <1>12. c[p] = rv
    BY <1>6, <1>10, <1>11
  <1>13. ASSUME NEW k \in 1 .. n  PROVE c[Shift(p, k)] = chain[k]
    <2>1. CASE k < p
      <3>1. before(k) /\ k \in 1 .. (n + 1)
        BY <1>1, <1>9, <1>10, <2>1
      <3>2. Shift(p, k) = k
        BY <2>1 DEF Shift
      <3> QED  BY <1>6, <3>1, <3>2
    <2>2. CASE ~(k < p)
      <3>1. PICK m : m = k + 1
        OBVIOUS
      <3>2. m \in 1 .. (n + 1) /\ m # 1 /\ m - 1 = k /\ Shift(p, k) = m
        BY <1>1, <2>2, <3>1 DEF Shift
      <3>3. ~before(k) /\ ~before(m)
        BY <1>1, <1>5, <1>10, <2>2, <3>1, <3>2
      <3> QED  BY <1>6, <3>2, <3>3
    <2> QED  BY <2>1, <2>2
  <1> HIDE DEF after
  <1>14. /\ Len(c) = n + 1
         /\ \E q \in 1 .. (n + 1) : c[q] = rv /\ \A k \in 1 .. n : c[Shift(q, k)] = chain[k]
    BY <1>7, <1>10, <1>12, <1>13
  <1> QED  BY <1>1, <1>14

(* Every index but p is the shift of exactly one.                           *)
Shifting(n, p) ==
    /\ \A k \in 1 .. n : Shift(p, k) \in 1 .. (n + 1) /\ Shift(p, k) # p
    /\ \A k, l \in 1 .. n : Shift(p, k) = Shift(p, l) => k = l
    /\ \A i \in 1 .. (n + 1) : i = p \/ \E k \in 1 .. n : i = Shift(p, k)

LEMMA Shifted ==
    ASSUME NEW n \in Nat, NEW p \in 1 .. (n + 1)
    PROVE  Shifting(n, p)
  <1>1. \A k \in 1 .. n : Shift(p, k) \in 1 .. (n + 1) /\ Shift(p, k) # p
    BY DEF Shift
  <1>2. \A k, l \in 1 .. n : Shift(p, k) = Shift(p, l) => k = l
    BY DEF Shift
  <1>3. ASSUME NEW i \in 1 .. (n + 1), i # p  PROVE \E k \in 1 .. n : i = Shift(p, k)
    <2>1. CASE i < p
      BY <1>3, <2>1 DEF Shift
    <2>2. CASE i > p
      <3>1. i - 1 \in 1 .. n /\ i = Shift(p, i - 1)
        BY <1>3, <2>2 DEF Shift
      <3> QED  BY <3>1
    <2> QED  BY <1>3, <2>1, <2>2
  <1> QED  BY <1>1, <1>2, <1>3 DEF Shifting

(* z is s with the versions of I ended by x and, if p is one of its         *)
(* indices, a version more at p.                                            *)
CarriedTo(x, s, z, I, p, k) ==
    /\ Shift(p, k) \in 1 .. Len(z)
    /\ z[Shift(p, k)].begin = s[k].begin /\ z[Shift(p, k)].row = s[k].row
    /\ z[Shift(p, k)].end = IF k \in I THEN TxID(x) ELSE s[k].end

Carried(x, s, z, I, p) ==
    /\ p \in 1 .. (Len(s) + 1)
    /\ \A k \in 1 .. Len(s) : CarriedTo(x, s, z, I, p, k)
    /\ \A i \in 1 .. Len(z) : i = p \/ \E k \in 1 .. Len(s) : i = Shift(p, k)

(* The versions a statement of x ends, and what it relies on.               *)
Found(x, r, us, I) ==
    \/ \E i \in 1 .. Len(versions[r]) :
         /\ I = {i} /\ is_visible_to(x, versions[r][i])
         /\ ~is_write_write_conflict(x, versions[r][i])
         /\ speculates_on(x, versions[r][i]) \subseteq us
    \/ /\ I = {} /\ no_visible_version(x, versions[r])
       /\ btree_lookup_speculates_on(x, r) \subseteq us

(* What it leaves at p.                                                     *)
Leaves(x, r, p) ==
    \/ /\ wrote'[x][r] = Absent
       /\ p \in 1 .. Len(versions'[r]) => versions'[r][p].begin = None
    \/ /\ wrote'[x][r] # Absent /\ p \in 1 .. Len(versions'[r])
       /\ versions'[r][p].begin = TxID(x) /\ versions'[r][p].end = None
       /\ versions'[r][p].row = wrote'[x][r]

LEMMA CarriedByEnd ==
    ASSUME NEW x \in Txns, NEW s \in Seq(RowVersion), NEW i \in 1 .. Len(s),
           NEW z, z = set_end(s, i, x)
    PROVE  Carried(x, s, z, {i}, Len(s) + 1) /\ z \in Seq(RowVersion) /\ Len(s) + 1 \notin 1 .. Len(z)
  <1> DEFINE n == Len(s)
  <1>1. n \in Nat
    OBVIOUS
  <1>2. /\ Len(z) = n
        /\ \A j \in 1 .. n : j # i => z[j] = s[j]
        /\ z[i].begin = s[i].begin /\ z[i].end = TxID(x) /\ z[i].row = s[i].row
    BY SetEndElements
  <1>3. \A k \in 1 .. n : Shift(n + 1, k) = k
    BY <1>1 DEF Shift
  <1>4. ASSUME NEW k \in 1 .. n  PROVE CarriedTo(x, s, z, {i}, n + 1, k)
    BY <1>2, <1>3 DEF CarriedTo
  <1>5. \A k \in 1 .. Len(z) : \E j \in 1 .. n : k = Shift(n + 1, j)
    BY <1>2, <1>3
  <1>6. n + 1 \in 1 .. (n + 1) /\ n + 1 \notin 1 .. Len(z)
    BY <1>1, <1>2
  <1>7. z \in Seq(RowVersion)
    BY SetEndTyped
  <1> QED  BY <1>4, <1>5, <1>6, <1>7 DEF Carried

LEMMA CarriedByInsert ==
    ASSUME NEW x \in Txns, NEW s \in Seq(RowVersion), NEW m \in Seq(RowVersion), NEW I,
           Carried(x, s, m, I, Len(s) + 1), Len(m) = Len(s),
           NEW rv \in RowVersion, rv.begin.kind # "Timestamp", NEW z, z = insert_version_raw(m, rv)
    PROVE  \E p : Carried(x, s, z, I, p) /\ p \in 1 .. Len(z) /\ z[p] = rv
  <1>0. /\ Len(z) = Len(m) + 1
        /\ \E p \in 1 .. (Len(m) + 1) : z[p] = rv /\ \A k \in 1 .. Len(m) : z[Shift(p, k)] = m[k]
    BY InsertedOnce
  <1>1. PICK n : n = Len(s) /\ n \in Nat
    OBVIOUS
  <1>2. /\ Len(z) = n + 1
        /\ \E p \in 1 .. (n + 1) : z[p] = rv /\ \A k \in 1 .. n : z[Shift(p, k)] = m[k]
    BY <1>0, <1>1
  <1>3. PICK p \in 1 .. (n + 1) : z[p] = rv /\ \A k \in 1 .. n : z[Shift(p, k)] = m[k]
    BY <1>2
  <1>4. Shifting(n, p)
    BY <1>1, Shifted
  <1>5. \A k \in 1 .. n : Shift(n + 1, k) = k
    BY <1>1 DEF Shift
  <1>6. ASSUME NEW k \in 1 .. n  PROVE CarriedTo(x, s, z, I, p, k)
    <2>1. /\ m[k].begin = s[k].begin /\ m[k].row = s[k].row
          /\ m[k].end = IF k \in I THEN TxID(x) ELSE s[k].end
      BY <1>1, <1>5 DEF Carried, CarriedTo
    <2> QED  BY <1>2, <1>3, <1>4, <2>1 DEF CarriedTo, Shifting
  <1>7. Carried(x, s, z, I, p)
    BY <1>1, <1>2, <1>3, <1>4, <1>6 DEF Carried, Shifting
  <1> QED  BY <1>2, <1>3, <1>7

LEMMA CarriedAsIs ==
    ASSUME NEW x \in Txns, NEW s \in Seq(RowVersion)
    PROVE  Carried(x, s, s, {}, Len(s) + 1)
  <1> DEFINE n == Len(s)
  <1>1. n \in Nat
    OBVIOUS
  <1>2. \A k \in 1 .. n : Shift(n + 1, k) = k
    BY <1>1 DEF Shift
  <1>3. ASSUME NEW k \in 1 .. n  PROVE CarriedTo(x, s, s, {}, n + 1, k)
    BY <1>2 DEF CarriedTo
  <1> QED  BY <1>1, <1>2, <1>3 DEF Carried

(* One writing statement, as the proofs below use it.                       *)
WriteShape(x, r, us, I, p) ==
    /\ register_commit_dependency(x, us) /\ us \subseteq Txns
    /\ \A q \in Rows : q # r => versions'[q] = versions[q]
    /\ Carried(x, versions[r], versions'[r], I, p)
    /\ Found(x, r, us, I) /\ Leaves(x, r, p)

LEMMA LookupTxns ==
    ASSUME NEW t \in Txns
    PROVE  /\ \A s, i : examined_down_to(t, s, i) \subseteq Txns
           /\ \A r : btree_lookup_speculates_on(t, r) \subseteq Txns
  <1>1. \A v : speculates_on(t, v) \subseteq Txns /\ invalidation_speculates_on(t, v) \subseteq Txns
    BY DEF speculates_on, invalidation_speculates_on
  <1>2. \A s, i : examined_down_to(t, s, i) \subseteq Txns
    BY <1>1 DEF examined_down_to
  <1>3. ASSUME NEW r  PROVE btree_lookup_speculates_on(t, r) \subseteq Txns
    BY <1>1, <1>2 DEF btree_lookup_speculates_on
  <1> QED  BY <1>2, <1>3

LEMMA WriteShapes ==
    ASSUME StoreTypeOK, NEW x \in Txns, NEW r \in Rows, Writes(x, r)
    PROVE  \E us, I, p : WriteShape(x, r, us, I, p)
  <1>1. PICK s : s = versions[r]
    OBVIOUS
  <1>2. s \in Seq(RowVersion) /\ versions \in [Rows -> Seq(RowVersion)]
    BY <1>1 DEF StoreTypeOK
  <1>3. ops[x] < MaxOps
    BY DEF Writes, update, insert, delete, insert_tombstone, CanWrite, CanRead
  <1>4. ASSUME NEW val, WriteSetAdd(x, r, val)  PROVE wrote'[x][r] = val
    BY <1>4 DEF WriteSetAdd, StoreTypeOK
  <1>5. NewRow(x) # Absent
    BY MvStoreAssumption DEF NewRow, Absent
  <1>6. ASSUME NEW i \in 1 .. Len(s), is_last_visible(x, s, i), ~is_write_write_conflict(x, s[i]),
               NEW us, us = examined_down_to(x, s, i)
        PROVE  Found(x, r, us, {i}) /\ us \subseteq Txns
    <2>1. i \in i .. Len(s)
      BY <1>2
    <2>2. speculates_on(x, s[i]) \subseteq us
      BY <1>6, <2>1 DEF examined_down_to
    <2>3. us \subseteq Txns
      BY <1>6, LookupTxns
    <2> QED  BY <1>1, <1>6, <2>2, <2>3 DEF Found, is_last_visible
  <1>7. ASSUME NEW us, no_visible_version(x, s), btree_lookup_speculates_on(x, r) \subseteq us
        PROVE  Found(x, r, us, {})
    BY <1>1, <1>7 DEF Found
  <1>8. ASSUME NEW resident  PROVE LET v == NewVersion(x, r, resident) IN
                 v.begin = TxID(x) /\ v.end = None /\ v.row = NewRow(x) /\ v.begin.kind # "Timestamp"
    BY StampsDiffer DEF NewVersion
  <1>9. CASE update(x, r)
    <2>1. PICK i \in 1 .. Len(s) :
            /\ is_last_visible(x, s, i) /\ ~is_write_write_conflict(x, s[i])
            /\ register_commit_dependency(x, examined_down_to(x, s, i))
            /\ versions' = [versions EXCEPT ![r] =
                 insert_version_raw(set_end(@, i, x), NewVersion(x, r, FALSE))]
      BY <1>1, <1>9 DEF update
    <2>2. PICK m, rv, us : /\ m = set_end(s, i, x) /\ rv = NewVersion(x, r, FALSE)
                           /\ us = examined_down_to(x, s, i)
      OBVIOUS
    <2>3. PICK z : z = insert_version_raw(m, rv)
      OBVIOUS
    <2>4. versions'[r] = z /\ \A q \in Rows : q # r => versions'[q] = versions[q]
      BY <1>1, <1>2, <2>1, <2>2, <2>3
    <2>5. Carried(x, s, m, {i}, Len(s) + 1) /\ m \in Seq(RowVersion)
      BY <1>2, <2>2, CarriedByEnd
    <2>6. Len(m) = Len(s)
      BY <1>2, <2>2, SetEndElements
    <2>7. rv \in RowVersion
      BY <1>3, <2>2, NewVersionsTyped
    <2>8. rv.begin.kind # "Timestamp" /\ rv.begin = TxID(x) /\ rv.end = None /\ rv.row = NewRow(x)
      BY <1>8, <2>2
    <2>9. PICK p : Carried(x, s, z, {i}, p) /\ p \in 1 .. Len(z) /\ z[p] = rv
      BY <1>2, <2>3, <2>5, <2>6, <2>7, <2>8, CarriedByInsert
    <2>10. wrote'[x][r] = NewRow(x)
      BY <1>4, <1>9 DEF update
    <2>11. Leaves(x, r, p)
      BY <1>5, <2>4, <2>8, <2>9, <2>10 DEF Leaves
    <2>12. Found(x, r, us, {i}) /\ us \subseteq Txns
      BY <1>6, <2>1, <2>2
    <2>13. register_commit_dependency(x, us)
      BY <2>1, <2>2
    <2>14. WriteShape(x, r, us, {i}, p)
      BY <1>1, <2>4, <2>9, <2>11, <2>12, <2>13 DEF WriteShape
    <2> QED  BY <2>14
  <1>10. CASE delete(x, r)
    <2>1. PICK i \in 1 .. Len(s) :
            /\ is_last_visible(x, s, i) /\ ~is_write_write_conflict(x, s[i])
            /\ register_commit_dependency(x, examined_down_to(x, s, i))
            /\ versions' = [versions EXCEPT ![r] = set_end(@, i, x)]
      BY <1>1, <1>10 DEF delete
    <2>2. PICK m, us : m = set_end(s, i, x) /\ us = examined_down_to(x, s, i)
      OBVIOUS
    <2>4. versions'[r] = m /\ \A q \in Rows : q # r => versions'[q] = versions[q]
      BY <1>1, <1>2, <2>1, <2>2
    <2>5. Carried(x, s, m, {i}, Len(s) + 1) /\ Len(s) + 1 \notin 1 .. Len(m)
      BY <1>2, <2>2, CarriedByEnd
    <2>6. PICK p : p = Len(s) + 1
      OBVIOUS
    <2>10. wrote'[x][r] = Absent
      BY <1>4, <1>10 DEF delete
    <2>11. Leaves(x, r, p)
      BY <2>4, <2>5, <2>6, <2>10 DEF Leaves
    <2>12. Found(x, r, us, {i}) /\ us \subseteq Txns
      BY <1>6, <2>1, <2>2
    <2>13. register_commit_dependency(x, us)
      BY <2>1, <2>2
    <2>14. WriteShape(x, r, us, {i}, p)
      BY <1>1, <2>4, <2>5, <2>6, <2>11, <2>12, <2>13 DEF WriteShape
    <2> QED  BY <2>14
  <1>11. CASE insert(x, r) \/ insert_tombstone(x, r)
    <2>1. PICK us, rv : /\ register_commit_dependency(x, us) /\ us \subseteq Txns
                        /\ btree_lookup_speculates_on(x, r) \subseteq us
                        /\ no_visible_version(x, s)
                        /\ rv \in RowVersion
                        /\ \/ rv = Tombstone(x, r) /\ wrote'[x][r] = Absent
                           \/ /\ wrote'[x][r] = NewRow(x)
                              /\ \E b : rv = NewVersion(x, r, b)
                        /\ versions' = [versions EXCEPT ![r] = insert_version_raw(@, rv)]
      <3>1. CASE insert(x, r)
        <4>1. PICK us, rv : /\ us = UNION {btree_lookup_speculates_on(x, q) : q \in ConflictSet[r]}
                            /\ rv = NewVersion(x, r, query_btree_version_is_valid(x, r))
          OBVIOUS
        <4>2. /\ register_commit_dependency(x, us) /\ no_visible_version(x, s)
              /\ versions' = [versions EXCEPT ![r] = insert_version_raw(@, rv)]
              /\ WriteSetAdd(x, r, NewRow(x))
          BY <1>1, <3>1, <4>1 DEF insert
        <4>3. us \subseteq Txns
          BY <4>1, LookupTxns
        <4>4. btree_lookup_speculates_on(x, r) \subseteq us
          BY <4>1, MvStoreAssumption
        <4>5. query_btree_version_is_valid(x, r) \in BOOLEAN
          BY DEF query_btree_version_is_valid
        <4>6. rv \in RowVersion
          BY <1>3, <4>1, <4>5, NewVersionsTyped
        <4>7. wrote'[x][r] = NewRow(x)
          BY <1>4, <4>2
        <4> QED  BY <4>1, <4>2, <4>3, <4>4, <4>6, <4>7
      <3>2. CASE insert_tombstone(x, r)
        <4>1. PICK us, rv : us = btree_lookup_speculates_on(x, r) /\ rv = Tombstone(x, r)
          OBVIOUS
        <4>2. /\ register_commit_dependency(x, us) /\ no_visible_version(x, s)
              /\ versions' = [versions EXCEPT ![r] = insert_version_raw(@, rv)]
              /\ WriteSetAdd(x, r, Absent)
          BY <1>1, <3>2, <4>1 DEF insert_tombstone
        <4>3. us \subseteq Txns /\ rv \in RowVersion
          BY <1>3, <4>1, LookupTxns, NewVersionsTyped
        <4>7. wrote'[x][r] = Absent
          BY <1>4, <4>2
        <4> QED  BY <4>1, <4>2, <4>3, <4>7
      <3> QED  BY <1>11, <3>1, <3>2
    <2>2. PICK z : z = insert_version_raw(s, rv)
      OBVIOUS
    <2>3. versions'[r] = z /\ \A q \in Rows : q # r => versions'[q] = versions[q]
      BY <1>1, <1>2, <2>1, <2>2
    <2>4. \/ rv.begin = None /\ wrote'[x][r] = Absent
          \/ /\ wrote'[x][r] # Absent /\ wrote'[x][r] = rv.row
             /\ rv.begin = TxID(x) /\ rv.end = None
      <3>1. CASE rv = Tombstone(x, r) /\ wrote'[x][r] = Absent
        BY <3>1 DEF Tombstone
      <3>2. CASE wrote'[x][r] = NewRow(x) /\ \E b : rv = NewVersion(x, r, b)
        BY <1>5, <1>8, <3>2
      <3> QED  BY <2>1, <3>1, <3>2
    <2>5. rv.begin.kind # "Timestamp"
      BY <2>4, StampsDiffer
    <2>6. Carried(x, s, s, {}, Len(s) + 1)
      BY <1>2, CarriedAsIs
    <2>7. PICK p : Carried(x, s, z, {}, p) /\ p \in 1 .. Len(z) /\ z[p] = rv
      <3>1. PICK I : I = {}
        OBVIOUS
      <3>2. Carried(x, s, s, I, Len(s) + 1) /\ rv \in RowVersion
        BY <2>1, <2>6, <3>1
      <3>3. \E p : Carried(x, s, z, I, p) /\ p \in 1 .. Len(z) /\ z[p] = rv
        BY <1>2, <2>2, <2>5, <3>2, CarriedByInsert
      <3> QED  BY <3>1, <3>3
    <2>8. Leaves(x, r, p)
      BY <2>3, <2>4, <2>7 DEF Leaves
    <2>9. Found(x, r, us, {})
      BY <1>7, <2>1
    <2>10. WriteShape(x, r, us, {}, p)
      BY <1>1, <2>1, <2>3, <2>7, <2>8, <2>9 DEF WriteShape
    <2> QED  BY <2>10
  <1> QED  BY <1>9, <1>10, <1>11 DEF Writes

-----------------------------------------------------------------------------
(* The chains keep following: steps that write nothing to the row.          *)

LEMMA MarkKept ==
    ASSUME StoreInv, [Next]_vars, NEW w \in Txns, MemberStays(w),
           NEW r \in Rows, NEW stamp, KnownStamp(stamp, r)
    PROVE  MarkOf(w, stamp)' <=> MarkOf(w, stamp)
  <1>0. /\ StoreTypeOK /\ PcMatchesState /\ WritesRegistered /\ ClockInv
    BY StoreInvParts
  <1>1. CASE state[w] = "Committed"
    <2>1. state'[w] = "Committed" /\ end_ts'[w] = end_ts[w]
      BY <1>0, <1>1, CommittedStays
    <2> QED  BY <1>1, <2>1 DEF MarkOf
  <1>2. CASE state[w] # "Committed"
    <2>1. ASSUME state'[w] = "Committed", stamp = Timestamp(end_ts'[w])  PROVE FALSE
      <3>1. stamp.kind = "Timestamp" /\ stamp.v = end_ts'[w]
        BY <2>1 DEF Timestamp
      <3>2. PICK y \in Txns : state[y] = "Committed" /\ stamp = Timestamp(end_ts[y])
        BY <3>1 DEF KnownStamp
      <3>3. y # w /\ y \in Dated /\ stamp.v = end_ts[y] /\ end_ts[y] \in Nat /\ clock \in Nat
        BY <1>0, <1>2, <3>2 DEF Dated, Timestamp, StoreTypeOK
      <3>4. w \in Dated'
        BY <2>1 DEF Dated
      <3>5. CASE w \in Dated
        BY <1>0, <3>1, <3>3, <3>5 DEF MemberStays, ClockInv
      <3>6. CASE end_ts'[w] = clock
        <4>1. end_ts[y] = clock
          BY <3>1, <3>3, <3>6
        <4>2. end_ts[y] < clock
          BY <1>0 DEF ClockInv
        <4> QED  BY <3>3, <4>1, <4>2
      <3> QED  BY <3>4, <3>5, <3>6 DEF MemberStays
    <2> QED  BY <1>2, <2>1 DEF MarkOf
  <1> QED  BY <1>1, <1>2

(* The marks of w and the rows of the chain are what they were.             *)
SameMarksAt(w, r, i) ==
    /\ MarkOf(w, versions[r][i].begin)' <=> MarkOf(w, versions[r][i].begin)
    /\ MarkOf(w, versions[r][i].end)' <=> MarkOf(w, versions[r][i].end)
    /\ versions'[r][i].row = versions[r][i].row

SameMarks(w, r) ==
    Len(versions'[r]) = Len(versions[r]) /\ \A i \in 1 .. Len(versions[r]) : SameMarksAt(w, r, i)

LEMMA SameStamps ==
    ASSUME StoreInv, [Next]_vars, NEW w \in Txns, MemberStays(w),
           NEW r \in Rows, NEW i \in 1 .. Len(versions[r]), NEW v, v = versions[r][i],
           NEW z, z = versions'[r][i], z.row = v.row,
           KnownStamp(z.begin, r), KnownStamp(z.end, r),
           MarkOf(w, z.begin) <=> MarkOf(w, v.begin), MarkOf(w, z.end) <=> MarkOf(w, v.end)
    PROVE  SameMarksAt(w, r, i)
  <1>1. PICK b, e : b = z.begin /\ e = z.end
    OBVIOUS
  <1>2. (MarkOf(w, b)' <=> MarkOf(w, b)) /\ (MarkOf(w, e)' <=> MarkOf(w, e))
    BY <1>1, MarkKept
  <1>3. MarkOf(w, versions[r][i].begin)' <=> MarkOf(w, b)'
    BY <1>1 DEF MarkOf
  <1>4. MarkOf(w, versions[r][i].end)' <=> MarkOf(w, e)'
    BY <1>1 DEF MarkOf
  <1> QED  BY <1>1, <1>2, <1>3, <1>4 DEF SameMarksAt

LEMMA ChainMarksKept ==
    ASSUME StoreInv, [Next]_vars, NEW w \in Txns, MemberStays(w), MustMark(w),
           NEW r \in Rows, \A x \in Txns : ~Writes(x, r)
    PROVE  SameMarks(w, r)
  <1>0. /\ StoreTypeOK /\ PcMatchesState /\ WritesRegistered /\ ClockInv /\ Tagged /\ StampsKnown
        /\ NotifyingOnly /\ WritersOwe /\ Settled /\ EndedSpeculatively /\ StampedInOrder
    BY StoreInvParts
  <1>1. \A i \in 1 .. Len(versions[r]) :
          KnownStamp(versions[r][i].begin, r) /\ KnownStamp(versions[r][i].end, r)
    BY <1>0 DEF StampsKnown
  <1>2. CASE versions'[r] = versions[r]
    <2>1. ASSUME NEW i \in 1 .. Len(versions[r])  PROVE SameMarksAt(w, r, i)
      <3>1. PICK v : v = versions[r][i] /\ v = versions'[r][i]
        BY <1>2
      <3>2. KnownStamp(v.begin, r) /\ KnownStamp(v.end, r)
        BY <1>1, <3>1
      <3> QED  BY <3>1, <3>2, SameStamps
    <2> QED  BY <1>2, <2>1 DEF SameMarks
  <1>3. ASSUME NEW x \in Txns, NEW q \in Rows, Writes(x, q)  PROVE SameMarks(w, r)
    <2>1. WrittenBy(x, q)
      BY <1>0, <1>3, WrittenChain
    <2>2. q # r
      BY <1>3
    <2>3. versions'[r] = versions[r]
      BY <2>1, <2>2 DEF WrittenBy
    <2> QED  BY <1>2, <2>3
  <1>4. ASSUME NEW x \in Txns, NEW q \in Rows, Visits(x, q)  PROVE SameMarks(w, r)
    <2>1. VisitedBy(x, q)
      BY <1>0, <1>4, VisitedChain
    <2>2. CASE q # r
      BY <1>2, <2>1, <2>2 DEF VisitedBy
    <2>3. CASE q = r
      <3>1. Len(versions'[r]) = Len(versions[r])
        BY <2>1, <2>3 DEF VisitedBy
      <3>2. ASSUME NEW i \in 1 .. Len(versions[r])  PROVE SameMarksAt(w, r, i)
        <4>1. PICK v, z : v = versions[r][i] /\ z = versions'[r][i]
          OBVIOUS
        <4>2. KnownStamp(v.begin, r) /\ KnownStamp(v.end, r)
          BY <1>1, <4>1
        <4>3. CASE pc[x] = "rewrite" /\ Stamped(x, v, z)
          <5>1. state[x] = "Committed"
            BY <1>0, <4>3 DEF PcMatchesState, CommittedPcs
          <5>2. touched(x, v) => r \in write_set[x]
            BY <1>0, <4>1 DEF Tagged, MayTag
          <5>3. touched(x, v) => KnownStamp(Timestamp(end_ts[x]), r)
            BY <5>1, <5>2 DEF KnownStamp
          <5>4. KnownStamp(z.begin, r) /\ KnownStamp(z.end, r) /\ z.row = v.row
            BY <4>2, <4>3, <5>3 DEF Stamped, touched
          <5>5. MarkOf(w, Timestamp(end_ts[x])) <=> MarkOf(w, TxID(x))
            <6>1. CASE w = x
              BY <5>1, <6>1 DEF MarkOf
            <6>2. CASE w # x
              <7>1. TxID(x) # TxID(w) /\ \A n : TxID(x) # Timestamp(n) /\ TxID(w) # Timestamp(n)
                BY <6>2, StampsDiffer
              <7>2. state[w] = "Committed" => end_ts[w] # end_ts[x]
                BY <1>0, <5>1, <6>2 DEF ClockInv, Dated
              <7>3. \A m, n : Timestamp(m) = Timestamp(n) => m = n
                BY DEF Timestamp
              <7> QED  BY <7>1, <7>2, <7>3 DEF MarkOf
            <6> QED  BY <6>1, <6>2
          <5>6. MarkOf(w, z.begin) <=> MarkOf(w, v.begin)
            BY <4>3, <5>5 DEF Stamped
          <5>7. MarkOf(w, z.end) <=> MarkOf(w, v.end)
            BY <4>3, <5>5 DEF Stamped
          <5> QED  BY <4>1, <5>4, <5>6, <5>7, SameStamps
        <4>4. CASE pc[x] = "rb_undo" /\ Undone(x, v, z)
          <5>1. w # x
            BY <1>0, <4>4 DEF PcMatchesState, RollbackPcs, MustMark
          <5>2. ~MarkOf(w, TxID(x)) /\ ~MarkOf(w, None)
            BY <5>1, StampsDiffer DEF MarkOf
          <5>3. KnownStamp(None, r)
            BY StampsDiffer DEF KnownStamp
          <5>4. KnownStamp(z.begin, r) /\ KnownStamp(z.end, r) /\ z.row = v.row
            BY <4>2, <4>4, <5>3 DEF Undone
          <5>5. MarkOf(w, z.begin) <=> MarkOf(w, v.begin)
            BY <4>4, <5>2 DEF Undone
          <5>6. MarkOf(w, v.end) => v.begin # TxID(x) /\ v.end # TxID(x)
            BY <1>0, <4>1, <4>4, UndoSparesEnds
          <5>7. MarkOf(w, z.end) <=> MarkOf(w, v.end)
            BY <4>4, <5>2, <5>6 DEF Undone
          <5> QED  BY <4>1, <5>4, <5>5, <5>7, SameStamps
        <4> QED  BY <2>1, <2>3, <4>1, <4>3, <4>4 DEF VisitedBy
      <3> QED  BY <3>1, <3>2 DEF SameMarks
    <2> QED  BY <2>2, <2>3
  <1> QED  BY <1>2, <1>3, <1>4, ChainSteps

LEMMA RowWritesKept ==
    ASSUME StoreTypeOK, PcMatchesState, WritesRegistered, [Next]_vars,
           NEW t \in Txns, state'[t] # "Terminated", NEW r \in Rows, ~Writes(t, r)
    PROVE  (r \in write_set'[t] <=> r \in write_set[t]) /\ wrote'[t][r] = wrote[t][r]
  <1>1. CASE UNCHANGED vars
    BY <1>1 DEF vars, opVars
  <1>2. ASSUME NEW x \in Txns, Dates(x)
        PROVE  (r \in write_set'[t] <=> r \in write_set[t]) /\ wrote'[t][r] = wrote[t][r]
    <2>1. CASE t # x
      BY <1>2, <2>1 DEF Dates, OthersStay
    <2>2. CASE t = x
      <3>1. CASE write_set'[t] = write_set[t] /\ wrote'[t] = wrote[t]
        BY <3>1
      <3>2. ASSUME NEW q \in Rows, Writes(t, q)
            PROVE  (r \in write_set'[t] <=> r \in write_set[t]) /\ wrote'[t][r] = wrote[t][r]
        <4>1. /\ write_set'[t] = write_set[t] \cup {q} /\ q # r
              /\ \A p \in Rows : p # q => wrote'[t][p] = wrote[t][p]
          BY <3>2, WriteRegisters
        <4> QED  BY <4>1
      <3> QED  BY <1>2, <2>2, <3>1, <3>2 DEF Dates, Begins, Prepares, Ends, Keeps
    <2> QED  BY <2>1, <2>2
  <1> QED  BY <1>1, <1>2, DatesSteps

(* Everything the rest needs to know of a step, for a set C.                *)
StepOf(C, r) ==
    /\ C \subseteq Txns
    /\ \A u \in C : MemberStays(u) /\ (r \in write_set[u] => state[u] # "Unborn")
    /\ \A t, u \in C : state[u] # "Unborn" => (Precedes(t, u)' <=> Precedes(t, u))

LEMMA StepOfMembers ==
    ASSUME StoreInv, [Next]_vars, NEW C, MayCommit(C)', NEW r \in Rows
    PROVE  MayCommit(C) /\ StepOf(C, r)
  <1>0. /\ DependencyInv /\ StoreTypeOK /\ WritesRegistered /\ WritesKnown /\ ClockInv /\ Tagged
        /\ Settled
    BY StoreInvParts
  <1>1. MayCommit(C) /\ \A t \in C : MemberStays(t)
    BY <1>0, MayCommitBefore
  <1>2. C \subseteq Txns
    BY <1>1 DEF MayCommit
  <1>3. \A t \in C : r \in write_set[t] => state[t] # "Unborn"
    BY <1>0, <1>2 DEF WritesKnown
  <1>4. ASSUME NEW t \in C, NEW u \in C, state[u] # "Unborn"
        PROVE  Precedes(t, u)' <=> Precedes(t, u)
    BY <1>0, <1>1, <1>2, <1>4, PrecedesKept
  <1> QED  BY <1>1, <1>2, <1>3, <1>4 DEF StepOf

LEMMA FollowsKept ==
    ASSUME StoreInv, [Next]_vars, NEW C, MayCommit(C)', NEW r \in Rows, \A x \in Txns : ~Writes(x, r),
           NEW w \in C, Follows(C, w, r)
    PROVE  Follows(C, w, r)'
  <1>0. /\ StoreTypeOK /\ PcMatchesState /\ WritesRegistered
    BY StoreInvParts
  <1>1. MayCommit(C) /\ StepOf(C, r) /\ C \subseteq Txns /\ \A u \in C : MemberStays(u)
    BY StepOfMembers DEF StepOf
  <1>2. ASSUME NEW u \in C
        PROVE  (r \in write_set'[u] <=> r \in write_set[u]) /\ wrote'[u][r] = wrote[u][r]
    <2>1. state'[u] # "Terminated" /\ u \in Txns
      BY <1>1 DEF MayCommit
    <2> QED  BY <1>0, <2>1, RowWritesKept
  <1>3. ASSUME NEW u \in C  PROVE SameMarks(u, r)
    <2>1. MustMark(u) /\ u \in Txns /\ MemberStays(u)
      BY <1>1 DEF MayCommit, ReliesOn, MustMark
    <2> QED  BY <2>1, ChainMarksKept
  <1>4. PICK N : N = Len(versions[r]) /\ N = Len(versions'[r])
    BY <1>3 DEF SameMarks
  <1>5. ASSUME NEW u \in C, NEW i \in 1 .. N  PROVE SameMarksAt(u, r, i)
    BY <1>3, <1>4 DEF SameMarks
  <1>6. ASSUME NEW i \in 1 .. N  PROVE Live(w, versions[r][i])' <=> Live(w, versions[r][i])
    BY <1>5 DEF SameMarksAt, Live
  <1>7. HasLive(w, r)'
    BY <1>2, <1>4, <1>6 DEF Follows, HasLive
  <1>8. LiveIsWritten(w, r)'
    <2>1. SUFFICES ASSUME NEW i \in 1 .. N, Live(w, versions[r][i])'
                   PROVE  /\ r \in write_set'[w] /\ versions'[r][i].row = wrote'[w][r]
                          /\ wrote'[w][r] # Absent
      BY <1>4 DEF LiveIsWritten
    <2>2. r \in write_set[w] /\ versions[r][i].row = wrote[w][r] /\ wrote[w][r] # Absent
      BY <1>4, <1>6, <2>1 DEF Follows, LiveIsWritten
    <2>3. versions'[r][i].row = versions[r][i].row
      BY <1>5 DEF SameMarksAt
    <2> QED  BY <1>2, <2>2, <2>3
  <1>9. OneLive(w, r)'
    BY <1>4, <1>6 DEF Follows, OneLive
  <1>10. Superseded(C, w, r)'
    <2>1. SUFFICES ASSUME NEW i \in 1 .. N, Live(w, versions[r][i])', NEW u \in C,
                          r \in write_set'[u], Precedes(w, u)'
                   PROVE  EndedFor(C, u, versions[r][i].end)'
      BY <1>4 DEF Superseded
    <2>2. r \in write_set[u] /\ state[u] # "Unborn" /\ Precedes(w, u) /\ Live(w, versions[r][i])
      BY <1>1, <1>2, <1>6, <2>1 DEF StepOf
    <2>3. EndedFor(C, u, versions[r][i].end)
      BY <1>4, <2>2 DEF Follows, Superseded
    <2>4. PICK y \in C : MarkOf(y, versions[r][i].end) /\ (y = u \/ Precedes(y, u))
      BY <2>3 DEF EndedFor
    <2>5. MarkOf(y, versions[r][i].end)'
      BY <1>5, <2>4 DEF SameMarksAt
    <2>6. y = u \/ Precedes(y, u)'
      BY <1>1, <2>2, <2>4 DEF StepOf
    <2> QED  BY <2>5, <2>6 DEF EndedFor
  <1> QED  BY <1>7, <1>8, <1>9, <1>10 DEF Follows

-----------------------------------------------------------------------------
(* The chains keep following: a statement that writes the row.              *)

LEMMA WritesOwn ==
    ASSUME StoreTypeOK, NEW x \in Txns, NEW r \in Rows, Writes(x, r)
    PROVE  \A u \in Txns : u # x => wrote'[u] = wrote[u]
  <1>1. wrote' = [wrote EXCEPT ![x][r] = NewRow(x)] \/ wrote' = [wrote EXCEPT ![x][r] = Absent]
    BY DEF Writes, update, insert, delete, insert_tombstone, WriteSetAdd
  <1> QED  BY <1>1 DEF StoreTypeOK

WriteStep(C, x, r, us, I, p) ==
    /\ MayCommit(C) /\ Writes(x, r) /\ WriteShape(x, r, us, I, p)
    /\ x \in C => us \subseteq C
    /\ \A w \in C : Follows(C, w, r)

(* Version v and what the statement makes of it: the members of C keep      *)
(* their marks, and x may end it.                                           *)
EndsAtMost(x, y, v, z, ended) ==
    /\ z.begin = v.begin /\ z.row = v.row
    /\ MarkOf(y, v.end) => MarkOf(y, z.end)
    /\ y # x => (MarkOf(y, z.end) <=> MarkOf(y, v.end))
    /\ z.end = IF ended THEN TxID(x) ELSE v.end

LEMMA WriteMarks ==
    ASSUME StoreInv, NEW C, NEW x \in Txns, NEW r \in Rows, NEW us, NEW I, NEW p,
           WriteStep(C, x, r, us, I, p), NEW k \in 1 .. Len(versions[r]), NEW y \in C,
           NEW v, v = versions[r][k], NEW z, z = versions'[r][Shift(p, k)]
    PROVE  Shift(p, k) \in 1 .. Len(versions'[r]) /\ EndsAtMost(x, y, v, z, k \in I)
  <1>0. StoreTypeOK /\ PcMatchesState /\ Tagged
    BY StoreInvParts
  <1>1. /\ WriteShape(x, r, us, I, p) /\ y \in Txns /\ state[y] \notin {"Aborted", "Terminated"}
    BY DEF WriteStep, MayCommit
  <1>2. /\ Shift(p, k) \in 1 .. Len(versions'[r]) /\ z.begin = v.begin /\ z.row = v.row
        /\ z.end = IF k \in I THEN TxID(x) ELSE v.end
    BY <1>1 DEF WriteShape, Carried, CarriedTo
  <1>3. state[x] = "Active"
    BY <1>0, WriteRegisters DEF WriteStep
  <1>4. CASE k \notin I
    BY <1>2, <1>4 DEF EndsAtMost
  <1>5. CASE k \in I
    <2>1. ~is_write_write_conflict(x, v)
      BY <1>1, <1>5 DEF WriteShape, Found
    <2>2. MarkOf(x, z.end) /\ z.end = TxID(x)
      BY <1>2, <1>5 DEF MarkOf
    <2>3. ASSUME y # x  PROVE ~MarkOf(y, z.end) /\ ~MarkOf(y, v.end)
      <3>1. ~MarkOf(y, z.end)
        BY <1>1, <2>2, <2>3, StampsDiffer DEF MarkOf
      <3>2. v.end.kind # "Timestamp"
        BY <2>1 DEF is_write_write_conflict
      <3>3. v.end # TxID(y)
        <4>1. SUFFICES ASSUME v.end = TxID(y)  PROVE FALSE
          OBVIOUS
        <4>2. lookup_tx_state(y) = state[y]
          BY <1>0, <1>1, <4>1, TagState DEF touched
        <4>3. v.end.kind = "TxID" /\ v.end.v = y
          BY <1>1, <4>1, StampsDiffer
        <4> QED  BY <1>1, <2>1, <2>3, <4>2, <4>3 DEF is_write_write_conflict
      <3> QED  BY <3>1, <3>2, <3>3, StampsDiffer DEF MarkOf
    <2> QED  BY <1>2, <1>5, <2>2, <2>3 DEF EndsAtMost
  <1> QED  BY <1>4, <1>5

(* The others' live versions are where they were, but for the shift.        *)
LEMMA OthersLive ==
    ASSUME StoreInv, NEW C, NEW x \in Txns, NEW r \in Rows, NEW us, NEW I, NEW p,
           WriteStep(C, x, r, us, I, p), NEW w \in C, w # x,
           NEW i \in 1 .. Len(versions'[r]), Live(w, versions'[r][i])
    PROVE  \E k \in 1 .. Len(versions[r]) : i = Shift(p, k) /\ Live(w, versions[r][k])
  <1>0. /\ WriteShape(x, r, us, I, p) /\ w \in Txns
    BY DEF WriteStep, MayCommit
  <1>1. i # p
    <2>1. SUFFICES ASSUME i = p  PROVE FALSE
      OBVIOUS
    <2>2. versions'[r][i].begin \in {None, TxID(x)}
      BY <1>0, <2>1 DEF WriteShape, Leaves
    <2>3. MarkOf(w, versions'[r][i].begin)
      BY DEF Live
    <2> QED  BY <1>0, <2>2, <2>3, StampsDiffer DEF MarkOf
  <1>2. PICK k \in 1 .. Len(versions[r]) : i = Shift(p, k)
    BY <1>0, <1>1 DEF WriteShape, Carried
  <1>3. PICK v, z : v = versions[r][k] /\ z = versions'[r][Shift(p, k)]
    OBVIOUS
  <1>4. EndsAtMost(x, w, v, z, k \in I)
    BY <1>3, WriteMarks
  <1>5. Live(w, z)
    BY <1>2, <1>3
  <1> QED  BY <1>2, <1>3, <1>4, <1>5 DEF Live, EndsAtMost

(* If this is x's first write of the row, what an earlier writer left is    *)
(* ended by x, or by somebody before x.                                     *)
LEMMA FirstWriteEnds ==
    ASSUME StoreInv, NEW C, NEW x \in Txns, NEW r \in Rows, NEW us, NEW I, NEW p,
           WriteStep(C, x, r, us, I, p), x \in C, r \notin write_set[x],
           NEW w \in C, Precedes(w, x), NEW k \in 1 .. Len(versions[r]), Live(w, versions[r][k])
    PROVE  EndedFor(C, x, versions'[r][Shift(p, k)].end)
  <1>0. /\ StoreTypeOK /\ PcMatchesState /\ Tagged /\ ClockInv
        /\ MayCommit(C) /\ C \subseteq Txns /\ \A t, u \in C : t # u => Apart(t, u)
        /\ us \subseteq C /\ WriteShape(x, r, us, I, p) /\ Found(x, r, us, I)
        /\ \A t \in C : Follows(C, t, r)
    BY StoreInvParts DEF WriteStep, MayCommit, WriteShape
  <1>1. state[x] = "Active"
    BY <1>0, WriteRegisters DEF WriteStep
  <1>2. PICK v, z : v = versions[r][k] /\ z = versions'[r][Shift(p, k)]
    OBVIOUS
  <1>3. Live(w, v) /\ r \in write_set[w]
    BY <1>0, <1>2 DEF Follows, LiveIsWritten
  <1>4. ASSUME NEW y \in C, MarkOf(y, v.end), Precedes(y, x)  PROVE EndedFor(C, x, z.end)
    <2>1. EndsAtMost(x, y, v, z, k \in I)
      BY <1>2, WriteMarks
    <2> QED  BY <1>4, <2>1 DEF EndedFor, EndsAtMost
  <1>5. ASSUME NEW i \in 1 .. Len(versions[r]), I = {i}, is_visible_to(x, versions[r][i]),
               speculates_on(x, versions[r][i]) \subseteq us
        PROVE  EndedFor(C, x, z.end)
    <2>1. PICK f : f = versions[r][i]
      OBVIOUS
    <2>2. is_visible_to(x, f) /\ speculates_on(x, f) \subseteq C
      BY <1>0, <1>5, <2>1
    <2>3. f.begin # TxID(x)
      BY <1>0, <2>1, TagState DEF touched
    <2>4. PICK l \in C : l # x /\ r \in write_set[l] /\ Precedes(l, x) /\ Live(l, f)
      BY <1>0, <1>1, <2>1, <2>2, <2>3, VisibleCreator
    <2>5. \A u \in Earlier(C, x, r) : end_ts[u] <= end_ts[l]
      <3>1. is_end_visible(x, f) /\ Superseded(C, l, r)
        BY <1>0, <2>2 DEF is_visible_to, Follows
      <3> QED  BY <1>0, <1>1, <2>1, <2>4, <3>1, VisibleIsLatest
    <2>6. w \in Earlier(C, x, r)
      BY <1>3 DEF Earlier
    <2>7. CASE w = l
      <3>1. k = i
        BY <1>0, <1>2, <1>3, <2>1, <2>4, <2>7 DEF Follows, OneLive
      <3>2. EndsAtMost(x, x, v, z, k \in I)
        BY <1>2, WriteMarks
      <3>3. z.end = TxID(x)
        BY <1>5, <3>1, <3>2 DEF EndsAtMost
      <3> QED  BY <3>3 DEF EndedFor, MarkOf
    <2>8. CASE w # l
      <3>0. /\ w \in Dated /\ l \in Dated /\ end_ts[w] \in Nat /\ end_ts[l] \in Nat
            /\ begin_ts[w] \in Nat /\ begin_ts[l] \in Nat /\ begin_ts[x] \in Nat
            /\ w \in Txns /\ l \in Txns /\ end_ts[l] < begin_ts[x] /\ end_ts[w] <= end_ts[l]
        BY <1>0, <2>4, <2>5, <2>6 DEF Precedes, StoreTypeOK, Dated
      <3>1. begin_ts[w] < end_ts[w] /\ begin_ts[l] < end_ts[l]
        BY <1>0, <3>0 DEF ClockInv
      <3>2. ~Precedes(l, w)
        BY <3>0, <3>1 DEF Precedes
      <3>3. Precedes(w, l)
        BY <1>0, <1>3, <2>4, <2>8, <3>2 DEF Apart
      <3>4. EndedFor(C, l, v.end)
        BY <1>0, <1>2, <1>3, <2>4, <3>3 DEF Follows, Superseded
      <3>5. PICK y \in C : MarkOf(y, v.end) /\ (y = l \/ Precedes(y, l))
        BY <3>4 DEF EndedFor
      <3>6. Precedes(y, x)
        <4>1. CASE y = l
          BY <2>4, <4>1
        <4>2. CASE Precedes(y, l)
          <5>1. y \in Dated /\ end_ts[y] < begin_ts[l] /\ end_ts[y] \in Nat
            BY <1>0, <4>2 DEF Precedes, StoreTypeOK, Dated
          <5>2. begin_ts[l] < begin_ts[x]
            BY <3>0, <3>1
          <5>3. \A a, b, c \in Nat : a < b /\ b < c => a < c
            OBVIOUS
          <5>4. begin_ts[l] \in Nat /\ begin_ts[x] \in Nat
            BY <3>0
          <5>5. end_ts[y] < begin_ts[x]
            BY <5>1, <5>2, <5>3, <5>4, Zenon
          <5> QED  BY <5>1, <5>5 DEF Precedes
        <4> QED  BY <3>5, <4>1, <4>2
      <3> QED  BY <1>4, <3>5, <3>6
    <2> QED  BY <2>7, <2>8
  <1>6. ASSUME no_visible_version(x, versions[r]), btree_lookup_speculates_on(x, r) \subseteq us
        PROVE  EndedFor(C, x, z.end)
    <2>1. ~is_visible_to(x, v) /\ speculates_on(x, v) \subseteq C
      BY <1>0, <1>2, <1>6, LookupDependencies DEF no_visible_version
    <2>2. v.end # TxID(x)
      BY <1>0, <1>2, TagState DEF touched
    <2>3. PICK y \in Earlier(C, x, r) : MarkOf(y, v.end)
      BY <1>0, <1>1, <1>2, <1>3, <2>1, <2>2, HiddenIsEnded
    <2> QED  BY <1>4, <2>3 DEF Earlier
  <1> QED  BY <1>0, <1>2, <1>5, <1>6 DEF Found

(* Before a statement of x, x has at most one live version of the row, and  *)
(* the statement finds it and ends it.                                      *)
LEMMA OwnLiveEnds ==
    ASSUME StoreInv, NEW C, NEW x \in Txns, NEW r \in Rows, NEW us, NEW I, NEW p,
           WriteStep(C, x, r, us, I, p), x \in C, NEW k \in 1 .. Len(versions[r])
    PROVE  ~Live(x, versions'[r][Shift(p, k)])
  <1>0. /\ StoreTypeOK /\ PcMatchesState /\ Tagged /\ MayCommit(C) /\ us \subseteq C
        /\ WriteShape(x, r, us, I, p) /\ Found(x, r, us, I) /\ \A t \in C : Follows(C, t, r)
    BY StoreInvParts DEF WriteStep, WriteShape
  <1>1. state[x] = "Active"
    BY <1>0, WriteRegisters DEF WriteStep
  <1>2. PICK v, z : v = versions[r][k] /\ z = versions'[r][Shift(p, k)]
    OBVIOUS
  <1>3. SUFFICES ASSUME Live(x, z)  PROVE FALSE
    BY <1>2
  <1>4. EndsAtMost(x, x, v, z, k \in I)
    BY <1>2, WriteMarks
  <1>5. z.end # TxID(x)
    BY <1>3 DEF Live, MarkOf
  <1>6. k \notin I /\ Live(x, v)
    BY <1>3, <1>4, <1>5 DEF EndsAtMost, Live
  <1>7. v.begin = TxID(x) /\ v.end = None /\ is_visible_to(x, v)
    BY <1>1, <1>2, <1>6, OwnLiveVisible
  <1>8. r \in write_set[x]
    BY <1>0, <1>2, <1>7, TagState DEF touched
  <1>9. ASSUME NEW i \in 1 .. Len(versions[r]), I = {i}, is_visible_to(x, versions[r][i]),
               speculates_on(x, versions[r][i]) \subseteq us
        PROVE  FALSE
    <2>1. PICK f : f = versions[r][i]
      OBVIOUS
    <2>2. is_visible_to(x, f) /\ speculates_on(x, f) \subseteq C /\ is_end_visible(x, f)
      BY <1>0, <1>9, <2>1 DEF is_visible_to
    <2>3. CASE f.begin = TxID(x) /\ f.end = None
      <3>1. Live(x, f)
        BY <2>3, StampsDiffer, <1>1 DEF Live, MarkOf
      <3>2. i = k
        BY <1>0, <1>2, <1>6, <2>1, <3>1 DEF Follows, OneLive
      <3> QED  BY <1>6, <1>9, <3>2
    <2>4. ASSUME NEW l \in C, r \in write_set[l], Precedes(l, x), Live(l, f)  PROVE FALSE
      <3>1. Superseded(C, l, r)
        BY <1>0 DEF Follows
      <3>2. r \notin write_set[x]
        BY <1>0, <1>1, <2>1, <2>2, <2>4, <3>1, VisibleIsLatest
      <3> QED  BY <1>8, <3>2
    <2> QED  BY <1>0, <1>1, <2>1, <2>2, <2>3, <2>4, VisibleCreator
  <1>10. ~no_visible_version(x, versions[r])
    BY <1>2, <1>7 DEF no_visible_version
  <1> QED  BY <1>0, <1>9, <1>10 DEF Found

(* What Follows says after the step, in terms of the stamps before it.      *)
LEMMA FollowsAfter ==
    ASSUME UNCHANGED storeVars, NEW C, NEW w, NEW r,
           r \in write_set'[w] /\ wrote'[w][r] # Absent =>
             \E i \in 1 .. Len(versions'[r]) : Live(w, versions'[r][i]),
           \A i \in 1 .. Len(versions'[r]) : Live(w, versions'[r][i]) =>
             /\ r \in write_set'[w] /\ versions'[r][i].row = wrote'[w][r]
             /\ wrote'[w][r] # Absent,
           \A i, j \in 1 .. Len(versions'[r]) :
             Live(w, versions'[r][i]) /\ Live(w, versions'[r][j]) => i = j,
           \A i \in 1 .. Len(versions'[r]) : Live(w, versions'[r][i]) =>
             \A u \in C : r \in write_set'[u] /\ Precedes(w, u) =>
               EndedFor(C, u, versions'[r][i].end)
    PROVE  Follows(C, w, r)'
  <1>1. \A y, stamp : MarkOf(y, stamp) <=>
          stamp = TxID(y) \/ (state'[y] = "Committed" /\ stamp = Timestamp(end_ts'[y]))
    BY DEF MarkOf, storeVars
  <1>2. ASSUME NEW i  PROVE Live(w, versions[r][i])' <=> Live(w, versions'[r][i])
    BY <1>1 DEF Live, MarkOf
  <1>3. ASSUME NEW t, NEW u  PROVE Precedes(t, u)' <=> Precedes(t, u)
    BY DEF Precedes, Dated, storeVars
  <1>4. ASSUME NEW u, NEW i
        PROVE  EndedFor(C, u, versions[r][i].end)' <=> EndedFor(C, u, versions'[r][i].end)
    BY <1>1, <1>3 DEF EndedFor, MarkOf
  <1>5. HasLive(w, r)'
    BY <1>2 DEF HasLive
  <1>6. LiveIsWritten(w, r)'
    BY <1>2 DEF LiveIsWritten
  <1>7. OneLive(w, r)'
    BY <1>2 DEF OneLive
  <1>8. Superseded(C, w, r)'
    BY <1>2, <1>3, <1>4 DEF Superseded
  <1> QED  BY <1>5, <1>6, <1>7, <1>8 DEF Follows

LEMMA WriterFollows ==
    ASSUME StoreInv, NEW C, NEW x \in Txns, NEW r \in Rows, NEW us, NEW I, NEW p,
           WriteStep(C, x, r, us, I, p), x \in C
    PROVE  Follows(C, x, r)'
  <1>0. /\ StoreTypeOK /\ PcMatchesState /\ Writes(x, r)
        /\ WriteShape(x, r, us, I, p) /\ Leaves(x, r, p)
    BY StoreInvParts DEF WriteStep, WriteShape
  <1>1. state[x] = "Active" /\ r \in write_set'[x] /\ UNCHANGED storeVars
    BY <1>0, WriteRegisters
  <1>2. ASSUME NEW i \in 1 .. Len(versions'[r]), Live(x, versions'[r][i])  PROVE i = p
    BY <1>0, <1>2, OwnLiveEnds DEF WriteShape, Carried
  <1>3. ASSUME wrote'[x][r] # Absent
        PROVE  p \in 1 .. Len(versions'[r]) /\ Live(x, versions'[r][p])
    <2>1. /\ p \in 1 .. Len(versions'[r]) /\ versions'[r][p].begin = TxID(x)
          /\ versions'[r][p].end = None
      BY <1>0, <1>3 DEF Leaves
    <2> QED  BY <1>1, <2>1, StampsDiffer DEF Live, MarkOf
  <1>4. ASSUME NEW i \in 1 .. Len(versions'[r]), Live(x, versions'[r][i])
        PROVE  versions'[r][i].row = wrote'[x][r] /\ wrote'[x][r] # Absent
    <2>1. i = p /\ versions'[r][p].begin # None
      BY <1>1, <1>2, <1>4, StampsDiffer DEF Live, MarkOf
    <2> QED  BY <1>0, <2>1 DEF Leaves
  <1>5. \A u : ~Precedes(x, u)
    BY <1>1 DEF Precedes, Dated
  <1>6. \A i, j \in 1 .. Len(versions'[r]) :
          Live(x, versions'[r][i]) /\ Live(x, versions'[r][j]) => i = j
    BY <1>2
  <1> QED  BY <1>1, <1>3, <1>4, <1>5, <1>6, FollowsAfter

LEMMA OthersFollow ==
    ASSUME StoreInv, NEW C, NEW x \in Txns, NEW r \in Rows, NEW us, NEW I, NEW p,
           WriteStep(C, x, r, us, I, p), NEW w \in C, w # x
    PROVE  Follows(C, w, r)'
  <1>0. /\ StoreTypeOK /\ PcMatchesState /\ Writes(x, r) /\ C \subseteq Txns
        /\ WriteShape(x, r, us, I, p) /\ Follows(C, w, r)
    BY StoreInvParts DEF WriteStep, MayCommit
  <1>1. /\ write_set'[x] = write_set[x] \cup {r} /\ UNCHANGED storeVars
        /\ \A u \in Txns \ {x} : write_set'[u] = write_set[u]
    BY <1>0, WriteRegisters
  <1>2. wrote'[w] = wrote[w] /\ write_set'[w] = write_set[w]
    BY <1>0, <1>1, WritesOwn
  <1>3. ASSUME NEW k \in 1 .. Len(versions[r])
        PROVE  /\ Shift(p, k) \in 1 .. Len(versions'[r])
               /\ \A y \in C : EndsAtMost(x, y, versions[r][k], versions'[r][Shift(p, k)], k \in I)
    BY WriteMarks
  <1>4. ASSUME NEW i \in 1 .. Len(versions'[r]), Live(w, versions'[r][i])
        PROVE  \E k \in 1 .. Len(versions[r]) : i = Shift(p, k) /\ Live(w, versions[r][k])
    BY <1>4, OthersLive
  <1>5. ASSUME r \in write_set'[w], wrote'[w][r] # Absent
        PROVE  \E i \in 1 .. Len(versions'[r]) : Live(w, versions'[r][i])
    <2>1. PICK k \in 1 .. Len(versions[r]) : Live(w, versions[r][k])
      BY <1>0, <1>2, <1>5 DEF Follows, HasLive
    <2>2. PICK v, z : v = versions[r][k] /\ z = versions'[r][Shift(p, k)]
      OBVIOUS
    <2>3. Shift(p, k) \in 1 .. Len(versions'[r]) /\ EndsAtMost(x, w, v, z, k \in I)
      BY <1>3, <2>2
    <2>4. Live(w, z)
      BY <2>1, <2>2, <2>3 DEF Live, EndsAtMost
    <2> QED  BY <2>2, <2>3, <2>4
  <1>6. ASSUME NEW i \in 1 .. Len(versions'[r]), Live(w, versions'[r][i])
        PROVE  /\ r \in write_set'[w] /\ versions'[r][i].row = wrote'[w][r]
               /\ wrote'[w][r] # Absent
    <2>1. PICK k \in 1 .. Len(versions[r]) : i = Shift(p, k) /\ Live(w, versions[r][k])
      BY <1>4, <1>6
    <2>2. r \in write_set[w] /\ versions[r][k].row = wrote[w][r] /\ wrote[w][r] # Absent
      BY <1>0, <2>1 DEF Follows, LiveIsWritten
    <2>3. PICK v, z : v = versions[r][k] /\ z = versions'[r][Shift(p, k)]
      OBVIOUS
    <2>4. EndsAtMost(x, w, v, z, k \in I)
      BY <1>3, <2>3
    <2> QED  BY <1>2, <2>1, <2>2, <2>3, <2>4 DEF EndsAtMost
  <1>7. ASSUME NEW i \in 1 .. Len(versions'[r]), NEW j \in 1 .. Len(versions'[r]),
               Live(w, versions'[r][i]), Live(w, versions'[r][j])
        PROVE  i = j
    <2>1. PICK k \in 1 .. Len(versions[r]) : i = Shift(p, k) /\ Live(w, versions[r][k])
      BY <1>4, <1>7
    <2>2. PICK l \in 1 .. Len(versions[r]) : j = Shift(p, l) /\ Live(w, versions[r][l])
      BY <1>4, <1>7
    <2>3. k = l
      BY <1>0, <2>1, <2>2 DEF Follows, OneLive
    <2> QED  BY <2>1, <2>2, <2>3
  <1>8. ASSUME NEW i \in 1 .. Len(versions'[r]), Live(w, versions'[r][i]),
               NEW u \in C, r \in write_set'[u], Precedes(w, u)
        PROVE  EndedFor(C, u, versions'[r][i].end)
    <2>1. PICK k \in 1 .. Len(versions[r]) : i = Shift(p, k) /\ Live(w, versions[r][k])
      BY <1>4, <1>8
    <2>2. CASE r \in write_set[u]
      <3>1. PICK v, z : v = versions[r][k] /\ z = versions'[r][Shift(p, k)]
        OBVIOUS
      <3>2. EndedFor(C, u, v.end)
        BY <1>0, <1>8, <2>1, <2>2, <3>1 DEF Follows, Superseded
      <3>3. \A y \in C : EndsAtMost(x, y, v, z, k \in I)
        BY <1>3, <3>1
      <3>4. \A y \in C : MarkOf(y, v.end) => MarkOf(y, z.end)
        BY <3>3 DEF EndsAtMost
      <3> QED  BY <2>1, <3>1, <3>2, <3>4 DEF EndedFor
    <2>3. CASE r \notin write_set[u]
      <3>1. u = x
        BY <1>0, <1>1, <1>8, <2>3
      <3> QED  BY <1>8, <2>1, <2>3, <3>1, FirstWriteEnds
    <2> QED  BY <2>2, <2>3
  <1> QED  BY <1>1, <1>5, <1>6, <1>7, <1>8, FollowsAfter

LEMMA ChainsFollowStep ==
    ASSUME StoreInv, ChainsFollow, [Next]_vars
    PROVE  ChainsFollow'
  <1>0. StoreTypeOK /\ PcMatchesState
    BY StoreInvParts
  <1>1. SUFFICES ASSUME NEW C, MayCommit(C)', NEW w \in C, NEW r \in Rows
                 PROVE  Follows(C, w, r)'
    BY DEF ChainsFollow
  <1>2. MayCommit(C)
    BY <1>1, StepOfMembers
  <1>3. \A t \in C : Follows(C, t, r)
    BY <1>2 DEF ChainsFollow
  <1>4. CASE \A x \in Txns : ~Writes(x, r)
    BY <1>1, <1>3, <1>4, FollowsKept
  <1>5. ASSUME NEW x \in Txns, Writes(x, r)  PROVE Follows(C, w, r)'
    <2>1. PICK us, I, p : WriteShape(x, r, us, I, p)
      BY <1>0, <1>5, WriteShapes
    <2>2. state'[x] # "Committed"
      BY <1>0, <1>5, WriteRegisters DEF storeVars
    <2>3. x \in C => us \subseteq C
      BY <1>0, <1>1, <2>1, <2>2, RegisteredIn DEF WriteShape
    <2>4. WriteStep(C, x, r, us, I, p)
      BY <1>2, <1>3, <1>5, <2>1, <2>3 DEF WriteStep
    <2>5. CASE w = x
      BY <2>4, <2>5, WriterFollows
    <2>6. CASE w # x
      BY <2>4, <2>6, OthersFollow
    <2> QED  BY <2>5, <2>6
  <1> QED  BY <1>4, <1>5

-----------------------------------------------------------------------------
(* Every read is right for every set of transactions that could all commit  *)
(* with the reader.                                                         *)
ReadsRight ==
    \A C : MayCommit(C) =>
      \A t \in C : \A read \in reads[t] : ReadIs(C, t, read[1], read[2], read[3])

(* What t's snapshot has does not change once t has begun.                  *)
LEMMA SnapshotKept ==
    ASSUME StoreInv, [Next]_vars, NEW C, MayCommit(C)', NEW t \in C, state[t] # "Unborn",
           NEW r \in Rows, NEW val, SnapshotIs(C, t, r, val)
    PROVE  SnapshotIs(C, t, r, val)'
  <1>1. MayCommit(C) /\ StepOf(C, r)
    BY StepOfMembers
  <1>2. ASSUME NEW u \in C
        PROVE  /\ Precedes(u, t)' <=> Precedes(u, t)
               /\ Precedes(u, t) => /\ write_set'[u] = write_set[u] /\ wrote'[u] = wrote[u]
                                    /\ end_ts'[u] = end_ts[u]
    <2>1. Precedes(u, t)' <=> Precedes(u, t)
      BY <1>1 DEF StepOf
    <2>2. MemberStays(u)
      BY <1>1 DEF StepOf
    <2>3. Precedes(u, t) => u \in Dated
      BY DEF Precedes
    <2> QED  BY <2>1, <2>2, <2>3 DEF MemberStays
  <1>3. Earlier(C, t, r)' = Earlier(C, t, r)
    BY <1>2 DEF Earlier
  <1>4. \A u \in Earlier(C, t, r) : wrote'[u] = wrote[u] /\ end_ts'[u] = end_ts[u]
    BY <1>2 DEF Earlier
  <1>5. CASE Earlier(C, t, r) = {}
    BY <1>3, <1>5 DEF SnapshotIs
  <1>6. CASE Earlier(C, t, r) # {}
    <2>1. PICK w \in Earlier(C, t, r) :
            (\A u \in Earlier(C, t, r) : end_ts[u] <= end_ts[w]) /\ val = wrote[w][r]
      BY <1>6 DEF SnapshotIs
    <2>2. (\A u \in Earlier(C, t, r) : end_ts'[u] <= end_ts'[w]) /\ val = wrote'[w][r]
      BY <1>4, <2>1
    <2> QED  BY <1>3, <2>1, <2>2 DEF SnapshotIs
  <1> QED  BY <1>5, <1>6

LEMMA ReadKept ==
    ASSUME StoreInv, [Next]_vars, NEW C, MayCommit(C)', NEW t \in C, state[t] # "Unborn",
           NEW r \in Rows, NEW val, NEW own, ReadIs(C, t, r, val, own)
    PROVE  ReadIs(C, t, r, val, own)'
  BY SnapshotKept DEF ReadIs

(* What a statement adds to the reads, and what it relies on.               *)
NewRead(t, us, read) ==
    \E q \in Rows : \E val : /\ read = <<q, val, wrote[t][q]>>
                             /\ FindsVersion(t, q, val, us) \/ FindsNone(t, q, val, us)

LEMMA StatementReads ==
    ASSUME StoreTypeOK, NEW t \in Txns, NEW r \in Rows, RowStatement(t, r)
    PROVE  \E us : /\ register_commit_dependency(t, us) /\ us \subseteq Txns
                   /\ \A read \in reads'[t] : read \in reads[t] \/ NewRead(t, us, read)
  <1>0. reads \in [Txns -> SUBSET (Rows \X Value \X (Value \cup {Unwritten}))]
        /\ versions[r] \in Seq(RowVersion)
    BY DEF StoreTypeOK
  <1>1. ASSUME NEW i \in 1 .. Len(versions[r]), is_last_visible(t, versions[r], i),
               NEW us, us = examined_down_to(t, versions[r], i)
        PROVE  us \subseteq Txns /\ FindsVersion(t, r, versions[r][i].row, us)
    <2>1. i \in i .. Len(versions[r])
      BY <1>0
    <2>2. speculates_on(t, versions[r][i]) \subseteq us
      BY <1>1, <2>1 DEF examined_down_to
    <2>3. us \subseteq Txns
      BY <1>1, LookupTxns
    <2> QED  BY <1>1, <2>2, <2>3 DEF FindsVersion, is_last_visible
  <1>2. ASSUME NEW val, RecordRead(t, r, val), NEW us,
               FindsVersion(t, r, val, us) \/ FindsNone(t, r, val, us)
        PROVE  \A read \in reads'[t] : read \in reads[t] \/ NewRead(t, us, read)
    <2>1. reads'[t] = reads[t] \cup {<<r, val, wrote[t][r]>>}
      BY <1>0, <1>2 DEF RecordRead
    <2> QED  BY <1>2, <2>1 DEF NewRead
  <1>3. CASE read_visible(t, r) \/ update(t, r) \/ delete(t, r)
    <2>1. PICK i \in 1 .. Len(versions[r]) :
            /\ is_last_visible(t, versions[r], i)
            /\ register_commit_dependency(t, examined_down_to(t, versions[r], i))
            /\ RecordRead(t, r, versions[r][i].row)
      BY <1>3 DEF read_visible, update, delete
    <2>2. PICK us, val : us = examined_down_to(t, versions[r], i) /\ val = versions[r][i].row
      OBVIOUS
    <2>3. us \subseteq Txns /\ FindsVersion(t, r, val, us)
      BY <1>1, <2>1, <2>2
    <2>4. register_commit_dependency(t, us) /\ RecordRead(t, r, val)
      BY <2>1, <2>2
    <2> QED  BY <1>2, <2>3, <2>4
  <1>4. CASE write_conflict(t, r)
    <2>1. PICK i \in 1 .. Len(versions[r]) :
            /\ is_last_visible(t, versions[r], i)
            /\ register_commit_dependency(t, examined_down_to(t, versions[r], i))
      BY <1>4 DEF write_conflict
    <2>2. PICK us : us = examined_down_to(t, versions[r], i)
      OBVIOUS
    <2>3. us \subseteq Txns /\ register_commit_dependency(t, us)
      BY <1>1, <2>1, <2>2
    <2>4. reads' = reads
      BY <1>4 DEF write_conflict
    <2> QED  BY <2>3, <2>4
  <1>5. CASE read_btree(t, r) \/ insert_tombstone(t, r)
    <2>1. PICK us, val : /\ us = btree_lookup_speculates_on(t, r)
                         /\ val = IF query_btree_version_is_valid(t, r) THEN BtreeValue ELSE Absent
      OBVIOUS
    <2>2. no_visible_version(t, versions[r]) /\ register_commit_dependency(t, us)
      BY <1>5, <2>1 DEF read_btree, insert_tombstone
    <2>3. RecordRead(t, r, val)
      BY <1>5, <2>1 DEF read_btree, insert_tombstone
    <2>4. FindsNone(t, r, val, us)
      BY <2>1, <2>2 DEF FindsNone
    <2>5. us \subseteq Txns
      BY <2>1, LookupTxns
    <2> QED  BY <1>2, <2>2, <2>3, <2>4, <2>5
  <1>6. CASE insert(t, r)
    <2>1. PICK us, val :
            /\ us = UNION {btree_lookup_speculates_on(t, q) : q \in ConflictSet[r]}
            /\ val = IF query_btree_version_is_valid(t, r) THEN BtreeValue ELSE Absent
      OBVIOUS
    <2>2. PICK K : K = {<<q, Absent, wrote[t][q]>> : q \in ConflictSet[r] \ {r}}
      OBVIOUS
    <2>3. /\ no_visible_version(t, versions[r]) /\ register_commit_dependency(t, us)
          /\ \A q \in ConflictSet[r] \ {r} : key_is_free(t, q)
          /\ reads' = [reads EXCEPT ![t] = @ \cup {<<r, val, wrote[t][r]>>} \cup K]
      BY <1>6, <2>1, <2>2 DEF insert
    <2>4. us \subseteq Txns
      BY <2>1, LookupTxns
    <2>5. \A q \in ConflictSet[r] : q \in Rows /\ btree_lookup_speculates_on(t, q) \subseteq us
      BY <2>1, MvStoreAssumption
    <2>6. reads'[t] = reads[t] \cup {<<r, val, wrote[t][r]>>} \cup K
      BY <1>0, <2>3
    <2>7. FindsNone(t, r, val, us)
      BY <2>1, <2>3, <2>5, MvStoreAssumption DEF FindsNone
    <2>8. ASSUME NEW q \in ConflictSet[r] \ {r}  PROVE q \in Rows /\ FindsNone(t, q, Absent, us)
      BY <2>3, <2>5 DEF FindsNone, key_is_free
    <2>9. \A read \in K : NewRead(t, us, read)
      BY <2>2, <2>8 DEF NewRead
    <2>10. NewRead(t, us, <<r, val, wrote[t][r]>>)
      BY <2>7 DEF NewRead
    <2> QED  BY <2>3, <2>4, <2>6, <2>9, <2>10
  <1> QED  BY <1>3, <1>4, <1>5, <1>6 DEF RowStatement

LEMMA ReadsRightStep ==
    ASSUME StoreInv, ChainsFollow, ReadsRight, [Next]_vars
    PROVE  ReadsRight'
  <1>0. StoreTypeOK /\ PcMatchesState /\ Tagged /\ WritesKnown
    BY StoreInvParts
  <1>1. SUFFICES ASSUME NEW C, MayCommit(C)', NEW t \in C, NEW read \in reads'[t]
                 PROVE  ReadIs(C, t, read[1], read[2], read[3])'
    BY DEF ReadsRight
  <1>2. MayCommit(C) /\ t \in Txns
    <2>1. MayCommit(C)
      BY <1>0, <1>1, MayCommitBefore, StoreInvParts
    <2> QED  BY <2>1 DEF MayCommit
  <1>3. ASSUME NEW q \in Rows, NEW val, NEW own, read = <<q, val, own>>, state[t] # "Unborn",
               ReadIs(C, t, q, val, own)
        PROVE  ReadIs(C, t, read[1], read[2], read[3])'
    <2>1. ReadIs(C, t, q, val, own)'
      BY <1>1, <1>3, ReadKept
    <2> QED  BY <1>3, <2>1
  <1>4. CASE read \in reads[t]
    <2>1. PICK q \in Rows, val \in Value, own \in Value \cup {Unwritten} : read = <<q, val, own>>
      BY <1>0, <1>2, <1>4 DEF StoreTypeOK
    <2>2. ReadIs(C, t, read[1], read[2], read[3])
      BY <1>2, <1>4 DEF ReadsRight
    <2>3. ReadIs(C, t, q, val, own)
      BY <2>1, <2>2
    <2>4. state[t] # "Unborn"
      BY <1>0, <1>2, <1>4 DEF WritesKnown
    <2> QED  BY <1>3, <2>1, <2>3, <2>4
  <1>5. ASSUME NEW r \in Rows, RowStatement(t, r), read \notin reads[t]
        PROVE  ReadIs(C, t, read[1], read[2], read[3])'
    <2>1. PICK us : /\ register_commit_dependency(t, us) /\ us \subseteq Txns
                    /\ NewRead(t, us, read)
      BY <1>0, <1>1, <1>2, <1>5, StatementReads
    <2>2. state[t] = "Active" /\ state' = state
      BY <1>0, <1>2, <1>5, StatementRegisters DEF PcMatchesState
    <2>3. us \subseteq C
      BY <1>0, <1>1, <1>2, <2>1, <2>2, RegisteredIn
    <2>4. PICK q \in Rows : \E val : /\ read = <<q, val, wrote[t][q]>>
                                     /\ FindsVersion(t, q, val, us) \/ FindsNone(t, q, val, us)
      BY <2>1 DEF NewRead
    <2>5. PICK val : /\ read = <<q, val, wrote[t][q]>>
                     /\ FindsVersion(t, q, val, us) \/ FindsNone(t, q, val, us)
      BY <2>4
    <2>6. \A w \in C : Follows(C, w, q)
      BY <1>2 DEF ChainsFollow
    <2>7. ReadIs(C, t, q, val, wrote[t][q])
      <3>1. CASE FindsVersion(t, q, val, us)
        BY <1>1, <1>2, <2>2, <2>3, <2>6, <3>1, VersionIsRight
      <3>2. CASE FindsNone(t, q, val, us)
        BY <1>1, <1>2, <2>2, <2>3, <2>6, <3>2, AbsenceIsRight
      <3> QED  BY <2>5, <3>1, <3>2
    <2>8. PICK own : own = wrote[t][q]
      OBVIOUS
    <2> QED  BY <1>3, <2>2, <2>7, <2>8, <2>5
  <1> QED  BY <1>0, <1>1, <1>2, <1>4, <1>5, ReadsSteps

-----------------------------------------------------------------------------
(* From the sets that could commit to the one that has.                     *)

WritersBefore(ts, r) == {u \in WritersOf(r) : end_ts[u] < ts}

LatestBefore(w, ts, r) ==
    w \in WritersBefore(ts, r) /\ \A u \in WritersBefore(ts, r) : end_ts[u] <= end_ts[w]

(* The row as of a timestamp has one value: there is one latest writer.     *)
ValueAt(ts, r, val) ==
    \/ WritersBefore(ts, r) = {} /\ val = IF r \in BtreeRows THEN BtreeValue ELSE Absent
    \/ \E w : LatestBefore(w, ts, r) /\ val = wrote[w][r]

LEMMA OneLatest ==
    ASSUME StoreTypeOK, ClockInv, NEW ts, NEW r, NEW t, NEW u,
           LatestBefore(t, ts, r), LatestBefore(u, ts, r)
    PROVE  t = u
  <1>1. /\ t \in Dated /\ u \in Dated /\ t \in Txns /\ u \in Txns
        /\ end_ts[t] <= end_ts[u] /\ end_ts[u] <= end_ts[t]
    BY DEF LatestBefore, WritersBefore, WritersOf, Committed, Dated
  <1>2. end_ts[t] \in Nat /\ end_ts[u] \in Nat
    BY <1>1 DEF StoreTypeOK
  <1>3. end_ts[t] = end_ts[u]
    BY <1>1, <1>2
  <1> QED  BY <1>1, <1>3 DEF ClockInv

LEMMA SnapshotValueAt ==
    ASSUME StoreTypeOK, ClockInv, NEW ts, NEW r, NEW val
    PROVE  ValueAt(ts, r, val) <=> val = SnapshotValue(ts, r)
  <1>1. PICK W : W = WritersBefore(ts, r)
    OBVIOUS
  <1>2. W \subseteq Txns
    BY <1>1 DEF WritersBefore, WritersOf, Committed
  <1>3. SnapshotValue(ts, r) =
          IF W = {} THEN IF r \in BtreeRows THEN BtreeValue ELSE Absent
          ELSE wrote[CHOOSE u \in {u \in W : \A w \in W : end_ts[w] <= end_ts[u]} : TRUE][r]
    BY <1>1 DEF SnapshotValue, WritersBefore
  <1>4. CASE W = {}
    BY <1>1, <1>3, <1>4 DEF ValueAt, LatestBefore
  <1>5. CASE W # {}
    <2>1. PICK L : L = {u \in W : \A w \in W : end_ts[w] <= end_ts[u]}
      OBVIOUS
    <2>2. \E u \in W : \A w \in W : end_ts[w] <= end_ts[u]
      BY <1>2, <1>5, LatestOf
    <2>3. L # {}
      BY <2>1, <2>2
    <2>4. PICK l : l = CHOOSE u \in L : TRUE
      OBVIOUS
    <2>5. l \in L
      BY <2>3, <2>4
    <2>6. LatestBefore(l, ts, r)
      BY <1>1, <2>1, <2>5 DEF LatestBefore
    <2>7. SnapshotValue(ts, r) = wrote[l][r]
      BY <1>3, <1>5, <2>1, <2>4
    <2>8. \A w : LatestBefore(w, ts, r) => w = l
      BY <2>6, OneLatest
    <2> QED  BY <1>1, <1>5, <2>6, <2>7, <2>8 DEF ValueAt
  <1> QED  BY <1>4, <1>5

LEMMA CommittedSnapshot ==
    ASSUME StoreInv, NEW t \in Committed, NEW r \in Rows, NEW val
    PROVE  SnapshotIs(Committed, t, r, val) <=> val = SnapshotValue(begin_ts[t], r)
  <1>0. StoreTypeOK /\ ClockInv
    BY StoreInvParts
  <1>1. PICK ts, W : ts = begin_ts[t] /\ W = WritersBefore(ts, r)
    OBVIOUS
  <1>2. Earlier(Committed, t, r) = W
    <2>1. ASSUME NEW u
          PROVE  u \in Earlier(Committed, t, r) <=> u \in WritersBefore(ts, r)
      <3>1. u \in Committed => u \in Txns /\ u \in Dated
        BY DEF Committed, Dated
      <3>2. u \in Committed => (wrote[u][r] # Unwritten <=> r \in write_set[u])
        BY <3>1, OwnWritesKnown
      <3> QED  BY <1>1, <3>1, <3>2 DEF Earlier, Precedes, WritersBefore, WritersOf
    <2> QED  BY <1>1, <2>1
  <1>3. ValueAt(ts, r, val) <=> SnapshotIs(Committed, t, r, val)
    BY <1>1, <1>2 DEF ValueAt, LatestBefore, SnapshotIs
  <1> QED  BY <1>0, <1>1, <1>3, SnapshotValueAt

SnapshotInv == StoreInv /\ ChainsFollow /\ ReadsRight

LEMMA SnapshotInit == Init => SnapshotInv
  <1> SUFFICES ASSUME Init PROVE SnapshotInv
    OBVIOUS
  <1>1. CommitterInv
    BY CommitterInit
  <1>2. \A t \in Txns : write_set[t] = {} /\ reads[t] = {}
    BY DEF Init
  <1>3. /\ \A r \in Rows : versions[r] = <<>>
        /\ Len(<<>>) = 0 /\ 1 .. 0 = {}
    BY DEF Init
  <1>4. WritesKnown
    BY <1>2 DEF WritesKnown
  <1>5. StampsKnown
    BY <1>3 DEF StampsKnown
  <1>6. ASSUME NEW C, MayCommit(C)  PROVE C \subseteq Txns
    BY <1>6 DEF MayCommit
  <1>7. ChainsFollow
    BY <1>2, <1>3, <1>6 DEF ChainsFollow, Follows, HasLive, LiveIsWritten, OneLive, Superseded
  <1>8. ReadsRight
    BY <1>2, <1>6 DEF ReadsRight
  <1> QED  BY <1>1, <1>4, <1>5, <1>7, <1>8 DEF SnapshotInv, StoreInv

LEMMA SnapshotStep == SnapshotInv /\ [Next]_vars => SnapshotInv'
  <1> SUFFICES ASSUME SnapshotInv, [Next]_vars PROVE SnapshotInv'
    OBVIOUS
  <1>1. StoreInv /\ ChainsFollow /\ ReadsRight
    BY DEF SnapshotInv
  <1>2. CommitterInv'
    BY <1>1, CommitterStep DEF StoreInv
  <1>3. WritesKnown' /\ StampsKnown'
    BY <1>1, StoreInvParts, WritesKnownStep, StampsKnownStep
  <1>4. ChainsFollow' /\ ReadsRight'
    BY <1>1, ChainsFollowStep, ReadsRightStep
  <1> QED  BY <1>2, <1>3, <1>4 DEF SnapshotInv, StoreInv

(* Every value a committed transaction read is its own last write, or what  *)
(* its snapshot has: whatever it read speculatively from a Preparing        *)
(* transaction, and whichever of the writers it met in the chains rolled    *)
(* back.  Its reads were right for every set of transactions that could     *)
(* commit with it; those that did are such a set.                           *)
THEOREM ReadsAreSnapshotReads == Spec => []SnapshotReads
  <1>1. ASSUME SnapshotInv  PROVE SnapshotReads
    <2>1. StoreInv /\ ReadsRight /\ StoreTypeOK
      BY <1>1, StoreInvParts DEF SnapshotInv
    <2>2. MayCommit(Committed)
      BY <2>1, StoreInvParts, CommittedMayCommit
    <2>3. SUFFICES ASSUME NEW t \in Committed, NEW read \in reads[t]
                   PROVE  read[2] = IF read[3] = Unwritten
                                    THEN SnapshotValue(begin_ts[t], read[1]) ELSE read[3]
      BY DEF SnapshotReads
    <2>4. PICK q \in Rows, val \in Value, own \in Value \cup {Unwritten} : read = <<q, val, own>>
      BY <2>1, <2>3 DEF StoreTypeOK, Committed
    <2>5. ReadIs(Committed, t, read[1], read[2], read[3])
      BY <2>1, <2>2, <2>3 DEF ReadsRight
    <2>6. ReadIs(Committed, t, q, val, own)
      BY <2>4, <2>5
    <2>7. SnapshotIs(Committed, t, q, val) => val = SnapshotValue(begin_ts[t], q)
      BY <2>1, CommittedSnapshot
    <2>8. val = IF own = Unwritten THEN SnapshotValue(begin_ts[t], q) ELSE own
      BY <2>6, <2>7 DEF ReadIs
    <2> QED  BY <2>4, <2>8
  <1> QED  BY SnapshotInit, SnapshotStep, <1>1, PTL DEF Spec

-----------------------------------------------------------------------------
(* Unique indexes.  A transaction writes a key that its snapshot had, or    *)
(* that it found free of conflicts; validation keeps the conflicting keys   *)
(* as they were in its snapshot.                                            *)

HadKey(C, t, r) == \E val : SnapshotIs(C, t, r, val) /\ val # Absent

LackedKey(C, t, r) == SnapshotIs(C, t, r, Absent)

(* What a statement of t finds: t's own last write, or its snapshot's.      *)
FindsKey(C, t, r) == IF r \in write_set[t] THEN wrote[t][r] # Absent ELSE HadKey(C, t, r)

MissesKey(C, t, r) == IF r \in write_set[t] THEN wrote[t][r] = Absent ELSE LackedKey(C, t, r)

LEMMA OneSnapshot ==
    ASSUME StoreInv, NEW C, MayCommit(C), NEW t \in C, NEW r \in Rows, HadKey(C, t, r)
    PROVE  ~LackedKey(C, t, r)
  <1>0. StoreTypeOK /\ ClockInv /\ C \subseteq Txns
    BY StoreInvParts DEF MayCommit
  <1>1. SUFFICES ASSUME NEW val, val # Absent, SnapshotIs(C, t, r, val), SnapshotIs(C, t, r, Absent)
                 PROVE  FALSE
    BY DEF HadKey, LackedKey
  <1>2. PICK W : W = Earlier(C, t, r)
    OBVIOUS
  <1>3. W \subseteq Dated /\ W \subseteq Txns
    BY <1>0, <1>2 DEF Earlier, Precedes
  <1>4. CASE W = {}
    BY <1>1, <1>2, <1>4 DEF SnapshotIs
  <1>5. CASE W # {}
    <2>1. PICK w \in W : (\A u \in W : end_ts[u] <= end_ts[w]) /\ val = wrote[w][r]
      BY <1>1, <1>2, <1>5 DEF SnapshotIs
    <2>2. PICK y \in W : (\A u \in W : end_ts[u] <= end_ts[y]) /\ Absent = wrote[y][r]
      BY <1>1, <1>2, <1>5 DEF SnapshotIs
    <2>3. end_ts[w] \in Nat /\ end_ts[y] \in Nat /\ end_ts[w] <= end_ts[y] /\ end_ts[y] <= end_ts[w]
      BY <1>0, <1>3, <2>1, <2>2 DEF StoreTypeOK
    <2>4. end_ts[w] = end_ts[y]
      BY <2>3
    <2>5. w = y
      BY <1>0, <1>3, <2>4 DEF ClockInv
    <2> QED  BY <1>1, <2>1, <2>2, <2>5
  <1> QED  BY <1>4, <1>5

(* A statement that writes a row found it, or found no conflicting key.     *)
LEMMA WriteFindings ==
    ASSUME StoreTypeOK, NEW t \in Txns, NEW r \in Rows, Writes(t, r)
    PROVE  \E us : /\ register_commit_dependency(t, us) /\ us \subseteq Txns
                   /\ \/ \E val : FindsVersion(t, r, val, us)
                      \/ FindsNone(t, r, BtreeValue, us)
                      \/ \A q \in ConflictSet[r] \ {r} : FindsNone(t, q, Absent, us)
  <1>0. versions[r] \in Seq(RowVersion)
    BY DEF StoreTypeOK
  <1>1. CASE update(t, r) \/ delete(t, r)
    <2>1. PICK i \in 1 .. Len(versions[r]) :
            /\ is_last_visible(t, versions[r], i)
            /\ register_commit_dependency(t, examined_down_to(t, versions[r], i))
      BY <1>1 DEF update, delete
    <2>2. PICK us, val : us = examined_down_to(t, versions[r], i) /\ val = versions[r][i].row
      OBVIOUS
    <2>3. us \subseteq Txns /\ register_commit_dependency(t, us)
      BY <2>1, <2>2, LookupTxns
    <2>4. i \in i .. Len(versions[r])
      BY <1>0
    <2>5. speculates_on(t, versions[r][i]) \subseteq us
      BY <2>2, <2>4 DEF examined_down_to
    <2>6. FindsVersion(t, r, val, us)
      BY <2>1, <2>2, <2>5 DEF FindsVersion, is_last_visible
    <2> QED  BY <2>3, <2>6
  <1>2. CASE insert_tombstone(t, r)
    <2>1. PICK us : us = btree_lookup_speculates_on(t, r)
      OBVIOUS
    <2>2. /\ no_visible_version(t, versions[r]) /\ query_btree_version_is_valid(t, r)
          /\ register_commit_dependency(t, us)
      BY <1>2, <2>1 DEF insert_tombstone
    <2>3. FindsNone(t, r, BtreeValue, us)
      BY <2>1, <2>2 DEF FindsNone
    <2>4. us \subseteq Txns
      BY <2>1, LookupTxns
    <2> QED  BY <2>2, <2>3, <2>4
  <1>3. CASE insert(t, r)
    <2>1. PICK us : us = UNION {btree_lookup_speculates_on(t, q) : q \in ConflictSet[r]}
      OBVIOUS
    <2>2. /\ register_commit_dependency(t, us)
          /\ \A q \in ConflictSet[r] \ {r} : key_is_free(t, q)
      BY <1>3, <2>1 DEF insert
    <2>3. us \subseteq Txns
      BY <2>1, LookupTxns
    <2>4. \A q \in ConflictSet[r] : btree_lookup_speculates_on(t, q) \subseteq us
      BY <2>1
    <2>5. ASSUME NEW q \in ConflictSet[r] \ {r}  PROVE FindsNone(t, q, Absent, us)
      BY <2>2, <2>4 DEF FindsNone, key_is_free
    <2> QED  BY <2>2, <2>3, <2>5
  <1> QED  BY <1>1, <1>2, <1>3 DEF Writes

LEMMA WriteTells ==
    ASSUME StoreInv, ChainsFollow, [Next]_vars, NEW C, MayCommit(C)', NEW t \in C, NEW r \in Rows,
           Writes(t, r)
    PROVE  FindsKey(C, t, r) \/ \A q \in ConflictSet[r] \ {r} : MissesKey(C, t, q)
  <1>0. StoreTypeOK /\ PcMatchesState /\ Tagged /\ WritesKnown
    BY StoreInvParts
  <1>1. MayCommit(C) /\ t \in Txns
    <2>1. MayCommit(C)
      BY <1>0, MayCommitBefore, StoreInvParts
    <2> QED  BY <2>1 DEF MayCommit
  <1>2. PICK us : /\ register_commit_dependency(t, us) /\ us \subseteq Txns
                  /\ \/ \E val : FindsVersion(t, r, val, us)
                     \/ FindsNone(t, r, BtreeValue, us)
                     \/ \A q \in ConflictSet[r] \ {r} : FindsNone(t, q, Absent, us)
    BY <1>0, <1>1, WriteFindings
  <1>3. state[t] = "Active" /\ state' = state
    BY <1>0, <1>1, WriteRegisters DEF storeVars
  <1>4. us \subseteq C
    BY <1>0, <1>1, <1>2, <1>3, RegisteredIn
  <1>5. ASSUME NEW q \in Rows  PROVE \A w \in C : Follows(C, w, q)
    BY <1>1 DEF ChainsFollow
  <1>6. ASSUME NEW q \in Rows  PROVE wrote[t][q] = Unwritten <=> q \notin write_set[t]
    BY <1>1, OwnWritesKnown
  <1>7. ASSUME NEW val, ReadIs(C, t, r, val, wrote[t][r]), val # Absent  PROVE FindsKey(C, t, r)
    BY <1>6, <1>7 DEF ReadIs, FindsKey, HadKey
  <1>8. CASE \E val : FindsVersion(t, r, val, us)
    <2>1. PICK val : FindsVersion(t, r, val, us)
      BY <1>8
    <2>2. ReadIs(C, t, r, val, wrote[t][r]) /\ val # Absent
      BY <1>1, <1>3, <1>4, <1>5, <2>1, VersionIsRight
    <2> QED  BY <1>7, <2>2
  <1>9. CASE FindsNone(t, r, BtreeValue, us)
    <2>1. PICK val : val = BtreeValue
      OBVIOUS
    <2>2. ReadIs(C, t, r, val, wrote[t][r])
      BY <1>1, <1>3, <1>4, <1>5, <1>9, <2>1, AbsenceIsRight
    <2>3. val # Absent
      BY <2>1 DEF BtreeValue, Absent
    <2> QED  BY <1>7, <2>2, <2>3
  <1>10. ASSUME \A q \in ConflictSet[r] \ {r} : FindsNone(t, q, Absent, us),
                NEW q \in ConflictSet[r] \ {r}
         PROVE  MissesKey(C, t, q)
    <2>1. q \in Rows /\ FindsNone(t, q, Absent, us)
      BY <1>10, MvStoreAssumption
    <2>2. ReadIs(C, t, q, Absent, wrote[t][q])
      BY <1>1, <1>3, <1>4, <1>5, <2>1, AbsenceIsRight
    <2> QED  BY <1>6, <2>1, <2>2 DEF ReadIs, MissesKey, LackedKey
  <1> QED  BY <1>2, <1>8, <1>9, <1>10

(* What a transaction that may commit has done to two conflicting keys: who *)
(* wrote only the first knows that the first was there or the second was    *)
(* not, and who left both found the first there.                            *)
Present(t, r) == r \in write_set[t] /\ wrote[t][r] # Absent

KeyFree(C, t, r, q) ==
    /\ r \in write_set[t] /\ q \notin write_set[t] => HadKey(C, t, r) \/ LackedKey(C, t, q)
    /\ Present(t, r) /\ Present(t, q) => HadKey(C, t, r)

KeysFree ==
    \A C : MayCommit(C) =>
      \A t \in C, r \in Rows : \A q \in ConflictSet[r] \ {r} : KeyFree(C, t, r, q)

LEMMA KeysFreeStep ==
    ASSUME StoreInv, ChainsFollow, KeysFree, [Next]_vars
    PROVE  KeysFree'
  <1>0. StoreTypeOK /\ PcMatchesState /\ WritesRegistered /\ WritesKnown
    BY StoreInvParts
  <1>1. SUFFICES ASSUME NEW C, MayCommit(C)', NEW t \in C, NEW r \in Rows,
                        NEW q \in ConflictSet[r] \ {r}
                 PROVE  KeyFree(C, t, r, q)'
    BY DEF KeysFree
  <1>2. MayCommit(C) /\ t \in Txns /\ MemberStays(t) /\ state'[t] # "Terminated"
    <2>1. MayCommit(C) /\ StepOf(C, r)
      BY <1>1, StepOfMembers
    <2> QED  BY <1>1, <2>1 DEF StepOf, MayCommit
  <1>3. q \in Rows /\ q # r /\ r \in ConflictSet[q] \ {q}
    BY <1>1, MvStoreAssumption, UniqueKeysAssumption
  <1>4. KeyFree(C, t, r, q) /\ KeyFree(C, t, q, r)
    BY <1>2, <1>3 DEF KeysFree
  <1>5. /\ state[t] # "Unborn" /\ HadKey(C, t, r) => HadKey(C, t, r)'
        /\ state[t] # "Unborn" /\ LackedKey(C, t, q) => LackedKey(C, t, q)'
    <2>1. ASSUME state[t] # "Unborn", NEW val, SnapshotIs(C, t, r, val)
          PROVE  SnapshotIs(C, t, r, val)'
      BY <1>1, <2>1, SnapshotKept
    <2>2. ASSUME state[t] # "Unborn", SnapshotIs(C, t, q, Absent)
          PROVE  SnapshotIs(C, t, q, Absent)'
      BY <1>1, <1>3, <2>2, SnapshotKept
    <2> QED  BY <2>1, <2>2 DEF HadKey, LackedKey
  <1>6. ASSUME NEW p \in Rows, ~Writes(t, p)
        PROVE  (p \in write_set'[t] <=> p \in write_set[t]) /\ wrote'[t][p] = wrote[t][p]
    BY <1>0, <1>2, <1>6, RowWritesKept
  <1>7. CASE ~Writes(t, r) /\ ~Writes(t, q)
    <2>1. /\ (r \in write_set'[t] <=> r \in write_set[t]) /\ wrote'[t][r] = wrote[t][r]
          /\ (q \in write_set'[t] <=> q \in write_set[t]) /\ wrote'[t][q] = wrote[t][q]
      BY <1>3, <1>6, <1>7
    <2>2. r \in write_set[t] => state[t] # "Unborn"
      BY <1>0, <1>2 DEF WritesKnown
    <2> QED  BY <1>4, <1>5, <2>1, <2>2 DEF KeyFree, Present
  <1>8. CASE Writes(t, r)
    <2>1. /\ state[t] = "Active" /\ r \in write_set'[t]
          /\ (q \in write_set'[t] <=> q \in write_set[t]) /\ wrote'[t][q] = wrote[t][q]
      BY <1>0, <1>2, <1>3, <1>8, WriteRegisters
    <2>2. CASE FindsKey(C, t, r)
      <3>1. CASE r \in write_set[t]
        BY <1>4, <1>5, <2>1, <2>2, <3>1 DEF FindsKey, KeyFree, Present
      <3>2. CASE r \notin write_set[t]
        BY <1>5, <2>1, <2>2, <3>2 DEF FindsKey, KeyFree
      <3> QED  BY <3>1, <3>2
    <2>3. CASE MissesKey(C, t, q)
      BY <1>5, <2>1, <2>3 DEF MissesKey, KeyFree, Present
    <2> QED  BY <1>1, <1>8, <2>2, <2>3, WriteTells
  <1>9. CASE Writes(t, q)
    <2>1. /\ state[t] = "Active" /\ q \in write_set'[t]
          /\ (r \in write_set'[t] <=> r \in write_set[t]) /\ wrote'[t][r] = wrote[t][r]
      BY <1>0, <1>2, <1>3, <1>9, WriteRegisters
    <2>2. CASE FindsKey(C, t, q)
      <3>1. CASE q \in write_set[t]
        BY <1>4, <1>5, <2>1, <2>2, <3>1 DEF FindsKey, KeyFree, Present
      <3>2. CASE q \notin write_set[t]
        <4>1. HadKey(C, t, q) /\ ~LackedKey(C, t, q)
          BY <1>2, <1>3, <2>2, <3>2, OneSnapshot DEF FindsKey
        <4> QED  BY <1>4, <1>5, <2>1, <3>2, <4>1 DEF KeyFree, Present
      <3> QED  BY <3>1, <3>2
    <2>3. CASE MissesKey(C, t, r)
      <3>1. r \in write_set[t] => wrote[t][r] = Absent
        BY <2>3 DEF MissesKey
      <3> QED  BY <2>1, <3>1 DEF KeyFree, Present
    <2> QED  BY <1>1, <1>3, <1>9, <2>2, <2>3, WriteTells
  <1> QED  BY <1>7, <1>8, <1>9

LEMMA CommittedKey ==
    ASSUME StoreInv, NEW t \in Committed, NEW r \in Rows
    PROVE  /\ HadKey(Committed, t, r) <=> SnapshotValue(begin_ts[t], r) # Absent
           /\ LackedKey(Committed, t, r) <=> SnapshotValue(begin_ts[t], r) = Absent
  <1>1. PICK sv : sv = SnapshotValue(begin_ts[t], r)
    OBVIOUS
  <1>2. \A val : SnapshotIs(Committed, t, r, val) <=> val = sv
    BY <1>1, CommittedSnapshot
  <1> QED  BY <1>1, <1>2 DEF HadKey, LackedKey

(* Two conflicting keys that exist together at ts existed together when the *)
(* last of their writers before ts began.                                   *)
LEMMA KeysTogetherBefore ==
    ASSUME StoreInv, KeysFree, NEW r \in Rows, NEW q \in ConflictSet[r] \ {r}, NEW ts \in Nat,
           SnapshotValue(ts, r) # Absent, SnapshotValue(ts, q) # Absent,
           NEW u, LatestBefore(u, ts, r), \A w \in WritersBefore(ts, q) : end_ts[w] <= end_ts[u]
    PROVE  /\ SnapshotValue(begin_ts[u], r) # Absent /\ SnapshotValue(begin_ts[u], q) # Absent
           /\ begin_ts[u] \in Nat /\ begin_ts[u] < ts
  <1>0. /\ StoreTypeOK /\ ClockInv /\ Seal /\ WritesRegistered
        /\ q \in Rows /\ q # r /\ r \in ConflictSet[q] \ {q}
    BY StoreInvParts, MvStoreAssumption, UniqueKeysAssumption
  <1>1. /\ u \in Txns /\ u \in Committed /\ state[u] = "Committed" /\ u \in Dated
        /\ wrote[u][r] # Unwritten /\ end_ts[u] < ts
    BY DEF LatestBefore, WritersBefore, WritersOf, Committed, Dated
  <1>2. r \in write_set[u] /\ Validated(u, r)
    BY <1>1, OwnWritesKnown DEF Validated
  <1>3. /\ begin_ts[u] \in Nat /\ end_ts[u] \in Nat /\ begin_ts[u] < end_ts[u]
    BY <1>0, <1>1 DEF StoreTypeOK, ClockInv
  <1>4. begin_ts[u] < ts
    BY <1>1, <1>3
  <1>5. MayCommit(Committed)
    BY <1>0, CommittedMayCommit
  <1>6. KeyFree(Committed, u, r, q) /\ KeyFree(Committed, u, q, r)
    BY <1>0, <1>1, <1>5 DEF KeysFree
  <1>7. wrote[u][r] = SnapshotValue(ts, r)
    <2>1. ValueAt(ts, r, wrote[u][r])
      BY DEF ValueAt
    <2> QED  BY <1>0, <2>1, SnapshotValueAt
  <1>8. Present(u, r)
    BY <1>2, <1>7 DEF Present
  <1>9. /\ HadKey(Committed, u, r) <=> SnapshotValue(begin_ts[u], r) # Absent
        /\ HadKey(Committed, u, q) <=> SnapshotValue(begin_ts[u], q) # Absent
        /\ LackedKey(Committed, u, q) <=> SnapshotValue(begin_ts[u], q) = Absent
    BY <1>0, <1>1, CommittedKey
  <1>10. CASE q \in write_set[u]
    <2>1. u \in WritersBefore(ts, q)
      BY <1>0, <1>1, <1>10, OwnWritesKnown DEF WritersBefore, WritersOf
    <2>2. ValueAt(ts, q, wrote[u][q])
      BY <2>1 DEF ValueAt, LatestBefore
    <2>3. wrote[u][q] = SnapshotValue(ts, q)
      BY <1>0, <2>2, SnapshotValueAt
    <2>4. Present(u, q)
      BY <1>10, <2>3 DEF Present
    <2> QED  BY <1>3, <1>4, <1>6, <1>8, <1>9, <2>4 DEF KeyFree
  <1>11. CASE q \notin write_set[u]
    <2>1. ASSUME NEW w \in WritersBefore(ts, q)  PROVE end_ts[w] < begin_ts[u]
      <3>1. /\ w \in Txns /\ w \in Dated /\ state[w] = "Committed" /\ wrote[w][q] # Unwritten
        BY DEF WritersBefore, WritersOf, Committed, Dated
      <3>2. q \in write_set[w] /\ w # u
        BY <1>0, <1>11, <3>1, OwnWritesKnown
      <3>3. end_ts[w] # end_ts[u]
        BY <1>0, <1>1, <3>1, <3>2 DEF ClockInv
      <3>4. end_ts[w] < end_ts[u]
        <4>1. end_ts[w] \in Nat /\ end_ts[w] <= end_ts[u]
          BY <1>0, <3>1 DEF StoreTypeOK
        <4> QED  BY <1>3, <3>3, <4>1
      <3>5. ~Doomed(w)
        BY <3>1 DEF Doomed
      <3> QED  BY <1>0, <1>1, <1>2, <3>1, <3>2, <3>4, <3>5 DEF Seal
    <2>2. ASSUME NEW w  PROVE w \in WritersBefore(begin_ts[u], q) <=> w \in WritersBefore(ts, q)
      <3>1. w \in WritersOf(q) => end_ts[w] \in Nat
        BY <1>0 DEF WritersOf, Committed, StoreTypeOK
      <3>2. w \in WritersOf(q) /\ end_ts[w] < begin_ts[u] => end_ts[w] < ts
        BY <1>3, <1>4, <3>1
      <3> QED  BY <2>1, <3>2 DEF WritersBefore
    <2>3. WritersBefore(begin_ts[u], q) = WritersBefore(ts, q)
      BY <2>2
    <2>4. PICK a, b : a = SnapshotValue(ts, q) /\ b = begin_ts[u]
      OBVIOUS
    <2>5. ValueAt(ts, q, a)
      BY <1>0, <2>4, SnapshotValueAt
    <2>6. ValueAt(b, q, a)
      BY <2>3, <2>4, <2>5 DEF ValueAt, LatestBefore
    <2>7. a = SnapshotValue(b, q)
      BY <1>0, <2>6, SnapshotValueAt
    <2>8. SnapshotValue(begin_ts[u], q) # Absent
      BY <2>4, <2>7
    <2> QED  BY <1>2, <1>3, <1>4, <1>6, <1>9, <1>11, <2>8 DEF KeyFree
  <1> QED  BY <1>10, <1>11

(* At no timestamp do two keys of a unique index with the same columns      *)
(* exist together.  Take the first timestamp at which two would: the last   *)
(* writer of one of them has validated against the writers of the other and *)
(* found the other key missing, so both were there when it began.           *)
THEOREM TheUniqueIndexHolds == Spec => []UniqueIndexHolds
  <1> DEFINE KeyInv == SnapshotInv /\ KeysFree
  <1>1. ASSUME KeyInv  PROVE UniqueIndexHolds
    <2>0. StoreInv /\ KeysFree /\ StoreTypeOK /\ ClockInv
      BY <1>1, StoreInvParts DEF SnapshotInv
    <2>1. SUFFICES ASSUME NEW r \in Rows, NEW q \in ConflictSet[r] \ {r}, NEW bad \in Nat,
                          SnapshotValue(bad, r) # Absent, SnapshotValue(bad, q) # Absent
                   PROVE  FALSE
      <3>1. \A ts \in 1 .. clock : ts \in Nat
        BY <2>0 DEF StoreTypeOK
      <3> QED  BY <2>1, <3>1 DEF UniqueIndexHolds
    <2>2. q \in Rows /\ q # r /\ r \in ConflictSet[q] \ {q}
      BY <2>1, MvStoreAssumption, UniqueKeysAssumption
    <2> DEFINE Together(n) == SnapshotValue(n, r) # Absent /\ SnapshotValue(n, q) # Absent
    <2>3. PICK S : S = {n \in Nat : Together(n)}
      OBVIOUS
    <2>4. S \subseteq Nat /\ bad \in S
      BY <2>1, <2>3
    <2>5. PICK ts \in S : \A n \in S : ts <= n
      BY <2>4, LeastNumber
    <2>6. ts \in Nat /\ SnapshotValue(ts, r) # Absent /\ SnapshotValue(ts, q) # Absent
      BY <2>3, <2>5
    <2>7. ASSUME NEW n \in Nat, n < ts, SnapshotValue(n, r) # Absent, SnapshotValue(n, q) # Absent
          PROVE  FALSE
      <3>1. n \in S
        BY <2>3, <2>7
      <3> QED  BY <2>5, <2>6, <2>7, <3>1
    <2>8. PICK W : W = WritersBefore(ts, r) \cup WritersBefore(ts, q)
      OBVIOUS
    <2>9. W # {}
      <3>1. SUFFICES ASSUME WritersBefore(ts, r) = {}, WritersBefore(ts, q) = {}  PROVE FALSE
        BY <2>8
      <3>2. r \notin BtreeRows \/ q \notin BtreeRows
        BY <2>2, UniqueKeysAssumption
      <3>3. ASSUME NEW p \in Rows, WritersBefore(ts, p) = {}, p \notin BtreeRows
            PROVE  SnapshotValue(ts, p) = Absent
        <4>1. ValueAt(ts, p, Absent)
          BY <3>3 DEF ValueAt
        <4> QED  BY <2>0, <4>1, SnapshotValueAt
      <3> QED  BY <2>2, <2>6, <3>1, <3>2, <3>3
    <2>10. PICK u \in W : \A w \in W : end_ts[w] <= end_ts[u]
      <3>1. W \subseteq Txns
        BY <2>8 DEF WritersBefore, WritersOf, Committed
      <3> QED  BY <2>0, <2>9, <3>1, LatestOf
    <2>11. CASE u \in WritersBefore(ts, r)
      <3>1. LatestBefore(u, ts, r) /\ \A w \in WritersBefore(ts, q) : end_ts[w] <= end_ts[u]
        BY <2>8, <2>10, <2>11 DEF LatestBefore
      <3> QED  BY <2>0, <2>6, <2>7, <3>1, KeysTogetherBefore
    <2>12. CASE u \in WritersBefore(ts, q)
      <3>1. LatestBefore(u, ts, q) /\ \A w \in WritersBefore(ts, r) : end_ts[w] <= end_ts[u]
        BY <2>8, <2>10, <2>12 DEF LatestBefore
      <3> QED  BY <2>0, <2>2, <2>6, <2>7, <3>1, KeysTogetherBefore
    <2> QED  BY <2>8, <2>10, <2>11, <2>12
  <1>2. Init => KeyInv
    <2>1. Init => \A t \in Txns : write_set[t] = {}
      BY DEF Init
    <2>2. \A C : MayCommit(C) => C \subseteq Txns
      BY DEF MayCommit
    <2> QED  BY <2>1, <2>2, SnapshotInit DEF KeysFree, KeyFree, Present
  <1>3. KeyInv /\ [Next]_vars => KeyInv'
    BY SnapshotStep, KeysFreeStep DEF SnapshotInv
  <1> QED  BY <1>1, <1>2, <1>3, PTL DEF Spec
=============================================================================
