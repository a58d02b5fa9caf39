--------------------------- MODULE MvStoreProofs ---------------------------
(***************************************************************************)
(* Proofs about MvStore for every finite set of transactions and every set *)
(* of rows.                                                                *)
(*                                                                         *)
(* DependencyInv makes CounterExact inductive: the type invariant, what    *)
(* the program counter says about a transaction's state, and where drained *)
(* dependents can be.  CommitLogInv adds who holds the pager commit lock   *)
(* (LockInv) and which frames are in the log (LogInv).                     *)
(***************************************************************************)
EXTENDS MvStore, FiniteSetTheorems, TLAPS

-----------------------------------------------------------------------------
(* Types of the operators on version chains.                               *)

LEMMA StampsTyped ==
    /\ None \in TxTimestampOrID \cup {None}
    /\ \A t \in Txns : TxID(t) \in TxTimestampOrID \cup {None}
    /\ \A n \in Nat : Timestamp(n) \in TxTimestampOrID \cup {None}
  BY DEF None, TxID, Timestamp, TxTimestampOrID

(* set_end writes one end field and keeps the chain a chain.                *)
LEMMA SetEndTyped ==
    ASSUME NEW chain \in Seq(RowVersion), NEW i \in 1 .. Len(chain), NEW t \in Txns
    PROVE  set_end(chain, i, t) \in Seq(RowVersion)
  <1>1. chain[i] \in RowVersion
    OBVIOUS
  <1>2. [chain[i] EXCEPT !.end = TxID(t)] \in RowVersion
    BY <1>1, StampsTyped DEF RowVersion
  <1> QED  BY <1>2 DEF set_end

(* insert_version_raw replaces or inserts one version.                      *)
LEMMA InsertVersionTyped ==
    ASSUME NEW chain \in Seq(RowVersion), NEW rv \in RowVersion
    PROVE  insert_version_raw(chain, rv) \in Seq(RowVersion)
  BY DEF insert_version_raw

(* A transformation of every version of a chain.                            *)
LEMMA CommitChainTyped ==
    ASSUME NEW chain \in Seq(RowVersion), NEW t \in Txns, end_ts[t] \in Nat
    PROVE  MapChain(chain, LAMBDA rv : to_timestamps(t, rv)) \in Seq(RowVersion)
  <1>1. ASSUME NEW rv \in RowVersion  PROVE to_timestamps(t, rv) \in RowVersion
    BY StampsTyped DEF to_timestamps, RowVersion
  <1> QED  BY <1>1 DEF MapChain

LEMMA RollbackChainTyped ==
    ASSUME NEW chain \in Seq(RowVersion), NEW t \in Txns
    PROVE  MapChain(chain, LAMBDA rv : rollback_row_version(t, rv)) \in Seq(RowVersion)
  <1>1. ASSUME NEW rv \in RowVersion  PROVE rollback_row_version(t, rv) \in RowVersion
    BY StampsTyped DEF rollback_row_version, RowVersion
  <1> QED  BY <1>1 DEF MapChain

-----------------------------------------------------------------------------
(* The inductive invariant.                                                 *)

CommittingPcs == {"commit", "validate", "wait", "wait_recheck", "read_only", "build",
                  "sync", "commit_end"}
CommittedPcs == {"read_only_unlock", "rewrite", "notify", "publish", "remove"}
RollbackPcs == {"rb_unlock", "rb_notify", "rb_undo"}

(* Where its thread is says in which state a transaction is and whether the *)
(* map txs holds it.                                                        *)
PcMatchesState ==
    \A t \in Txns :
        /\ pc[t] = "idle" => state[t] = "Unborn" /\ t \notin txs
        /\ pc[t] \in {"acquire_exclusive", "acquire_commit_lock"} =>
             \/ state[t] = "Unborn" /\ t \notin txs
             \/ state[t] = "Active" /\ t \in txs
        /\ pc[t] = "active" => state[t] = "Active" /\ t \in txs
        /\ pc[t] = "rollback" => state[t] \in {"Active", "Preparing"} /\ t \in txs
        /\ pc[t] \in CommittingPcs => state[t] = "Preparing" /\ t \in txs
        /\ pc[t] \in CommittedPcs => state[t] = "Committed" /\ t \in txs
        /\ pc[t] = "release_exclusive" => state[t] = "Committed" /\ t \notin txs
        /\ pc[t] \in RollbackPcs => state[t] = "Aborted" /\ t \in txs
        /\ pc[t] = "done" =>
             state[t] \in {"Unborn", "Committed", "Terminated"} /\ t \notin txs

(* A drained commit_dep_set is only worked off inside the two notify loops, *)
(* and nothing is added to the set any more while that happens.             *)
NotifyingOnly ==
    \A u \in Txns :
        /\ dependents[u] # {} => pc[u] \in {"notify", "rb_notify"}
        /\ informed[u] # NoTx => pc[u] = "rb_notify"
        /\ pc[u] \in {"notify", "rb_notify"} => commit_dep_set[u] = {}
        /\ informed[u] \notin dependents[u]

(* Nobody owes a transaction anything before it has begun.                  *)
UnbornOwedNothing ==
    \A t \in Txns : state[t] = "Unborn" =>
        commit_dep_counter[t] = 0 /\ \A u \in Txns : ~Owes(u, t)

DependencyInv == StoreTypeOK /\ PcMatchesState /\ NotifyingOnly /\ UnbornOwedNothing /\ CounterExact

-----------------------------------------------------------------------------
(* Whom a lookup may depend on.                                             *)

PreparingTxns == {u \in Txns : lookup_tx_state(u) = "Preparing"}

LEMMA SpeculatesOnPreparing ==
    ASSUME NEW t, NEW rv
    PROVE  /\ speculates_on(t, rv) \subseteq PreparingTxns
           /\ invalidation_speculates_on(t, rv) \subseteq PreparingTxns
  BY DEF speculates_on, invalidation_speculates_on, PreparingTxns

LEMMA LookupsOnPreparing ==
    /\ \A t, chain, i : examined_down_to(t, chain, i) \subseteq PreparingTxns
    /\ \A t, r : btree_lookup_speculates_on(t, r) \subseteq PreparingTxns
    /\ \A t, S : UNION {btree_lookup_speculates_on(t, q) : q \in S} \subseteq PreparingTxns
  <1>1. ASSUME NEW t, NEW chain, NEW i
        PROVE  examined_down_to(t, chain, i) \subseteq PreparingTxns
    BY SpeculatesOnPreparing DEF examined_down_to
  <1>2. ASSUME NEW t, NEW r
        PROVE  btree_lookup_speculates_on(t, r) \subseteq PreparingTxns
    BY <1>1, SpeculatesOnPreparing DEF btree_lookup_speculates_on
  <1>3. ASSUME NEW t, NEW S
        PROVE  UNION {btree_lookup_speculates_on(t, q) : q \in S} \subseteq PreparingTxns
    BY <1>2
  <1> QED  BY <1>1, <1>2, <1>3

(* A Preparing transaction is in txs and is not notifying anybody.          *)
LEMMA PreparingOwesOnlyItsSet ==
    ASSUME StoreTypeOK, PcMatchesState, NotifyingOnly, NEW u \in PreparingTxns
    PROVE  u \in Txns /\ u \in txs /\ state[u] = "Preparing"
           /\ dependents[u] = {} /\ informed[u] = NoTx
  <1>1. u \in txs /\ state[u] = "Preparing" /\ u \in Txns
    BY DEF PreparingTxns, lookup_tx_state
  <1>2. pc[u] \notin {"notify", "rb_notify"}
    BY <1>1 DEF PcMatchesState, CommittedPcs, RollbackPcs
  <1> QED  BY <1>1, <1>2 DEF NotifyingOnly

LEMMA OwingFinite ==
    ASSUME NEW S, S \subseteq Txns
    PROVE  IsFiniteSet(S) /\ Cardinality(S) \in Nat
  BY MvStoreAssumption, FS_Subset, FS_CardinalityType

(* The debts a registration enters: those of the transactions that were not *)
(* rolled back in the meantime.                                             *)
Registers(t, live) ==
    /\ commit_dep_set' = [u \in Txns |-> IF u \in live THEN commit_dep_set[u] \cup {t}
                                                       ELSE commit_dep_set[u]]
    /\ commit_dep_counter' =
         [commit_dep_counter EXCEPT ![t] =
            @ + Cardinality({u \in live : t \notin commit_dep_set[u]})]
    /\ abort_now' \in [Txns -> BOOLEAN]
    /\ UNCHANGED <<dependents, informed>>

LEMMA RegisterLive ==
    ASSUME StoreTypeOK, NEW t \in Txns, NEW us, us \subseteq PreparingTxns,
           register_commit_dependency(t, us)
    PROVE  \E live : live \subseteq PreparingTxns /\ Registers(t, live)
  <1>1. PICK aborted \in SUBSET {u \in us : pc[u] = "rollback"} :
          /\ commit_dep_set' = [u \in Txns |-> IF u \in us \ aborted
                                                THEN commit_dep_set[u] \cup {t}
                                                ELSE commit_dep_set[u]]
          /\ commit_dep_counter' =
               [commit_dep_counter EXCEPT ![t] =
                  @ + Cardinality({u \in us \ aborted : t \notin commit_dep_set[u]})]
          /\ abort_now' = [abort_now EXCEPT ![t] = @ \/ aborted # {}]
          /\ UNCHANGED <<dependents, informed>>
    BY DEF register_commit_dependency, new_dependencies
  <1>2. abort_now' \in [Txns -> BOOLEAN]
    <2>1. (abort_now[t] \/ aborted # {}) \in BOOLEAN
      OBVIOUS
    <2> QED  BY <1>1, <2>1 DEF StoreTypeOK
  <1>3. us \ aborted \subseteq PreparingTxns
    OBVIOUS
  <1> QED  BY <1>1, <1>2, <1>3 DEF Registers

LEMMA RegisterTyped ==
    ASSUME StoreTypeOK, NEW t \in Txns, NEW us, us \subseteq PreparingTxns, Registers(t, us)
    PROVE  /\ commit_dep_set' \in [Txns -> SUBSET Txns]
           /\ commit_dep_counter' \in [Txns -> Nat]
           /\ abort_now' \in [Txns -> BOOLEAN]
           /\ UNCHANGED <<dependents, informed>>
  <1>1. Cardinality({u \in us : t \notin commit_dep_set[u]}) \in Nat
    BY OwingFinite DEF PreparingTxns
  <1>2. commit_dep_counter' \in [Txns -> Nat]
    BY <1>1 DEF Registers, StoreTypeOK
  <1>3. commit_dep_set' \in [Txns -> SUBSET Txns]
    BY DEF Registers, StoreTypeOK
  <1> QED  BY <1>2, <1>3 DEF Registers

LEMMA OwedIsCounted ==
    ASSUME StoreTypeOK, CounterExact, NEW d \in txs, NEW t \in Txns, Owes(t, d)
    PROVE  commit_dep_counter[d] - 1 \in Nat
  <1> DEFINE S == {u \in Txns : Owes(u, d)}
  <1>1. IsFiniteSet(S) /\ Cardinality(S) \in Nat /\ S # {}
    BY OwingFinite
  <1>2. Cardinality(S) # 0
    BY <1>1, FS_EmptySet
  <1>3. commit_dep_counter[d] = Cardinality(S)
    BY DEF CounterExact
  <1> QED  BY <1>1, <1>2, <1>3

LEMMA DecrementTyped ==
    ASSUME StoreTypeOK, CounterExact, NEW d \in Txns, NEW t \in Txns, Owes(t, d),
           decrement_counter(d)
    PROVE  commit_dep_counter' \in [Txns -> Nat]
  <1>1. CASE d \in txs
    <2>1. commit_dep_counter[d] - 1 \in Nat
      BY <1>1, OwedIsCounted
    <2> QED  BY <1>1, <2>1 DEF decrement_counter, StoreTypeOK
  <1>2. CASE d \notin txs
    BY <1>2 DEF decrement_counter, StoreTypeOK
  <1> QED  BY <1>1, <1>2

-----------------------------------------------------------------------------
(* Type correctness, action by action.                                      *)

LEMMA BeginTyped ==
    ASSUME StoreTypeOK, NEW t \in Txns, Begin(t)
    PROVE  StoreTypeOK'
  <1> USE DEF storeVars, lockVars, depVars, logVars, markVars, headerVars, opVars, Goto,
              StoreTypeOK, ProgramCounter, TransactionState
  <1>1. CASE begin_tx(t)              BY <1>1 DEF begin_tx
  <1>2. CASE begin_exclusive_tx(t)    BY <1>2 DEF begin_exclusive_tx
  <1>3. CASE upgrade_to_exclusive(t)  BY <1>3 DEF upgrade_to_exclusive
  <1>4. CASE acquire_exclusive_tx(t)  BY <1>4 DEF acquire_exclusive_tx, Refused
  <1>5. CASE acquire_pager_commit_lock(t)
    <2>1. CASE pager_commit_lock = NoTx
      <3>1. pc' \in [Txns -> ProgramCounter] /\ state' \in [Txns -> TransactionState]
        <4>1. /\ pc' = [pc EXCEPT ![t] = "active"]
              /\ state' = [state EXCEPT ![t] = "Active"]
          BY <1>5, <2>1 DEF acquire_pager_commit_lock
        <4> QED  BY <4>1
      <3>2. header' \in [Txns -> SUBSET Txns]
        <4>1. header' = [header EXCEPT ![t] = global_header]
          BY <1>5, <2>1 DEF acquire_pager_commit_lock
        <4> QED  BY <4>1
      <3>3. pager_commit_lock_held' \in [Txns -> BOOLEAN]
        <4>1. pager_commit_lock_held' = [pager_commit_lock_held EXCEPT ![t] = TRUE]
          BY <1>5, <2>1 DEF acquire_pager_commit_lock
        <4> QED  BY <4>1
      <3> QED  BY <1>5, <2>1, <3>1, <3>2, <3>3 DEF acquire_pager_commit_lock
    <2>2. CASE pager_commit_lock # NoTx
      BY <1>5, <2>2 DEF acquire_pager_commit_lock, Refused
    <2> QED  BY <2>1, <2>2
  <1> QED  BY <1>1, <1>2, <1>3, <1>4, <1>5 DEF Begin

(* The row a statement writes and the versions it makes.                    *)
LEMMA NewVersionsTyped ==
    ASSUME StoreTypeOK, NEW t \in Txns, NEW r \in Rows, ops[t] < MaxOps
    PROVE  /\ NewRow(t) \in Value
           /\ \A resident \in BOOLEAN : NewVersion(t, r, resident) \in RowVersion
           /\ Tombstone(t, r) \in RowVersion
  <1>1. NewRow(t) \in Value
    <2>1. ops[t] \in 0 .. MaxOps
      BY DEF StoreTypeOK
    <2>2. ops[t] + 1 \in 1 .. MaxOps
      BY <2>1, MvStoreAssumption
    <2> QED  BY <2>2 DEF NewRow, Value, Written
  <1>2. ASSUME NEW resident \in BOOLEAN  PROVE NewVersion(t, r, resident) \in RowVersion
    BY <1>1, StampsTyped DEF NewVersion, RowVersion
  <1>3. Tombstone(t, r) \in RowVersion
    BY StampsTyped DEF Tombstone, RowVersion, Value
  <1> QED  BY <1>1, <1>2, <1>3

LEMMA RecordReadTyped ==
    ASSUME StoreTypeOK, NEW t \in Txns, NEW r \in Rows, NEW val \in Value,
           RecordRead(t, r, val)
    PROVE  reads' \in [Txns -> SUBSET (Rows \X Value \X (Value \cup {Unwritten}))]
  <1>1. <<r, val, wrote[t][r]>> \in Rows \X Value \X (Value \cup {Unwritten})
    BY DEF StoreTypeOK
  <1> QED  BY <1>1 DEF RecordRead, StoreTypeOK

LEMMA StatementTyped ==
    ASSUME StoreTypeOK, NEW t \in Txns, NEW r \in Rows,
           \/ read_visible(t, r) \/ read_btree(t, r) \/ write_conflict(t, r)
           \/ update(t, r) \/ insert(t, r) \/ delete(t, r) \/ insert_tombstone(t, r)
    PROVE  StoreTypeOK'
  <1> USE DEF StatementFrame, storeVars, lockVars, logVars, markVars, headerVars
  <1>1. UNCHANGED StatementFrame /\ CanRead(t)
    BY DEF read_visible, read_btree, write_conflict, update, insert, delete,
           insert_tombstone, CanWrite
  <1>2. ops' \in [Txns -> 0 .. MaxOps]
    <2>1. NextOp(t)
      BY DEF read_visible, read_btree, write_conflict, update, insert, delete, insert_tombstone
    <2>2. ops[t] + 1 \in 0 .. MaxOps
      BY <1>1, MvStoreAssumption, SMTT(30) DEF CanRead, StoreTypeOK
    <2> QED  BY <2>1, <2>2 DEF NextOp, StoreTypeOK
  <1>3. pc' \in [Txns -> ProgramCounter]
    <2>1. pc' = pc \/ pc' = [pc EXCEPT ![t] = "rollback"]
      BY DEF read_visible, read_btree, write_conflict, update, insert, delete,
             insert_tombstone, Goto
    <2> QED  BY <2>1 DEF StoreTypeOK, ProgramCounter
  <1>4. PICK us : us \subseteq PreparingTxns /\ Registers(t, us)
    <2>1. \E us : us \subseteq PreparingTxns /\ register_commit_dependency(t, us)
      BY LookupsOnPreparing
         DEF read_visible, read_btree, write_conflict, update, insert, delete, insert_tombstone
    <2> QED  BY <2>1, RegisterLive
  <1>5. /\ commit_dep_set' \in [Txns -> SUBSET Txns]
        /\ commit_dep_counter' \in [Txns -> Nat]
        /\ abort_now' \in [Txns -> BOOLEAN]
        /\ UNCHANGED <<dependents, informed>>
    BY <1>4, RegisterTyped
  <1>6. versions[r] \in Seq(RowVersion) /\ ops[t] < MaxOps
    BY <1>1 DEF StoreTypeOK, CanRead
  <1>7. \A i \in 1 .. Len(versions[r]) :
          versions[r][i] \in RowVersion /\ versions[r][i].row \in Value
    <2>1. \A i \in 1 .. Len(versions[r]) : versions[r][i] \in RowVersion
      BY <1>6
    <2>2. \A rv \in RowVersion : rv.row \in Value
      BY DEF RowVersion
    <2> QED  BY <2>1, <2>2
  <1>8. BtreeValue \in Value /\ Absent \in Value
    BY DEF Value
  <1>9. reads' \in [Txns -> SUBSET (Rows \X Value \X (Value \cup {Unwritten}))]
    <2>1. CASE insert(t, r)
      <3>1. ASSUME NEW q \in Rows, NEW val \in Value
            PROVE  <<q, val, wrote[t][q]>> \in Rows \X Value \X (Value \cup {Unwritten})
        BY DEF StoreTypeOK
      <3> DEFINE found == IF query_btree_version_is_valid(t, r) THEN BtreeValue ELSE Absent
                 more == {<<r, found, wrote[t][r]>>}
                           \cup {<<q, Absent, wrote[t][q]>> : q \in ConflictSet[r] \ {r}}
      <3>2. found \in Value
        BY <1>8
      <3>3. ConflictSet[r] \subseteq Rows
        BY MvStoreAssumption
      <3>4. more \subseteq Rows \X Value \X (Value \cup {Unwritten})
        BY <3>1, <3>2, <3>3, <1>8
      <3>5. reads' = [reads EXCEPT ![t] = @ \cup more]
        BY <2>1 DEF insert
      <3> HIDE DEF more
      <3> QED  BY <3>4, <3>5 DEF StoreTypeOK
    <2>2. CASE write_conflict(t, r)
      BY <2>2 DEF write_conflict, StoreTypeOK
    <2>3. CASE ~insert(t, r) /\ ~write_conflict(t, r)
      <3>1. PICK val \in Value : RecordRead(t, r, val)
        BY <2>3, <1>7, <1>8 DEF read_visible, read_btree, update, delete, insert_tombstone
      <3> QED  BY <3>1, RecordReadTyped
    <2> QED  BY <2>1, <2>2, <2>3
  <1>10. /\ write_set' \in [Txns -> SUBSET Rows]
         /\ wrote' \in [Txns -> [Rows -> Value \cup {Unwritten}]]
    <2>1. CASE UNCHANGED <<write_set, wrote>>
      BY <2>1 DEF StoreTypeOK
    <2>2. ASSUME NEW val \in Value, WriteSetAdd(t, r, val)
          PROVE  /\ write_set' \in [Txns -> SUBSET Rows]
                 /\ wrote' \in [Txns -> [Rows -> Value \cup {Unwritten}]]
      BY <2>2 DEF WriteSetAdd, StoreTypeOK
    <2>3. \/ UNCHANGED <<write_set, wrote>>
          \/ WriteSetAdd(t, r, NewRow(t)) \/ WriteSetAdd(t, r, Absent)
      BY DEF read_visible, read_btree, write_conflict, update, insert, delete, insert_tombstone
    <2>4. NewRow(t) \in Value
      BY <1>6, NewVersionsTyped
    <2> QED  BY <2>1, <2>2, <2>3, <2>4, <1>8
  <1>11. versions' \in [Rows -> Seq(RowVersion)]
    <2>1. \A i \in 1 .. Len(versions[r]) : set_end(versions[r], i, t) \in Seq(RowVersion)
      BY <1>6, SetEndTyped
    <2>2. /\ \A resident \in BOOLEAN : NewVersion(t, r, resident) \in RowVersion
          /\ Tombstone(t, r) \in RowVersion
      BY <1>6, NewVersionsTyped
    <2>3. PICK chain \in Seq(RowVersion) : versions' = [versions EXCEPT ![r] = chain]
      <3>1. CASE update(t, r)
        BY <3>1, <2>1, <2>2, InsertVersionTyped DEF update
      <3>2. CASE insert(t, r)
        <4>1. query_btree_version_is_valid(t, r) \in BOOLEAN
          BY DEF query_btree_version_is_valid
        <4> QED  BY <3>2, <4>1, <2>2, <1>6, InsertVersionTyped DEF insert
      <3>3. CASE delete(t, r)
        BY <3>3, <2>1 DEF delete
      <3>4. CASE insert_tombstone(t, r)
        BY <3>4, <2>2, <1>6, InsertVersionTyped DEF insert_tombstone
      <3>5. CASE UNCHANGED versions
        BY <3>5, <1>6 DEF StoreTypeOK
      <3> QED  BY <3>1, <3>2, <3>3, <3>4, <3>5 DEF read_visible, read_btree, write_conflict
    <2> QED  BY <2>3 DEF StoreTypeOK
  <1> QED  BY <1>1, <1>2, <1>3, <1>5, <1>9, <1>10, <1>11 DEF StoreTypeOK

LEMMA CommitTyped ==
    ASSUME StoreTypeOK, CounterExact, NEW t \in Txns, commit_initial(t) \/ Commit(t)
    PROVE  StoreTypeOK'
  <1> USE DEF storeVars, lockVars, depVars, logVars, markVars, headerVars, opVars, Goto,
              CommitFrame
  <1>1. CASE commit_initial(t)
    <2>1. CASE last_committed_schema_change_ts > begin_ts[t]
      <3>1. pc' = [pc EXCEPT ![t] = "rollback"] /\ UNCHANGED <<clock, end_ts, state, todo>>
        BY <1>1, <2>1 DEF commit_initial, StoreTypeOK
      <3>2. pc' \in [Txns -> ProgramCounter]
        BY <3>1 DEF StoreTypeOK, ProgramCounter
      <3> QED  BY <1>1, <3>1, <3>2 DEF commit_initial, StoreTypeOK
    <2>2. CASE last_committed_schema_change_ts <= begin_ts[t]
      <3>1. /\ pc' = [pc EXCEPT ![t] = IF is_read_only(t) THEN "wait" ELSE "commit"]
            /\ state' = [state EXCEPT ![t] = "Preparing"]
            /\ end_ts' = [end_ts EXCEPT ![t] = clock]
            /\ todo' = [todo EXCEPT ![t] = write_set[t]]
            /\ clock' = clock + 1
        BY <1>1, <2>2, SMTT(30) DEF commit_initial, StoreTypeOK
      <3>2. /\ pc' \in [Txns -> ProgramCounter] /\ state' \in [Txns -> TransactionState]
            /\ end_ts' \in [Txns -> Nat] /\ todo' \in [Txns -> SUBSET Rows] /\ clock' \in Nat
        BY <3>1 DEF StoreTypeOK, ProgramCounter, TransactionState
      <3> QED  BY <1>1, <3>2 DEF commit_initial, StoreTypeOK
    <2> QED  BY <1>1, <2>1, <2>2 DEF commit_initial
  <1>2. CASE commit_check_exclusive(t)
    BY <1>2 DEF commit_check_exclusive, StoreTypeOK, ProgramCounter
  <1>3. CASE commit_validate_none(t)
    BY <1>3 DEF commit_validate_none, StoreTypeOK, ProgramCounter
  <1>4. CASE wait_for_dependencies(t)
    BY <1>4 DEF wait_for_dependencies, StoreTypeOK, ProgramCounter
  <1>5. CASE wait_recheck_abort_now(t)
    BY <1>5 DEF wait_recheck_abort_now, StoreTypeOK, ProgramCounter
  <1>6. CASE commit_read_only(t)
    BY <1>6 DEF commit_read_only, release_exclusive_tx, StoreTypeOK, ProgramCounter,
                TransactionState
  <1>7. CASE begin_commit_logical_log(t)
    BY <1>7 DEF begin_commit_logical_log, StoreTypeOK, ProgramCounter
  <1>8. CASE sync_logical_log(t)
    BY <1>8 DEF sync_logical_log, StoreTypeOK, ProgramCounter
  <1>9. CASE commit_end(t)
    BY <1>9 DEF commit_end, StoreTypeOK, ProgramCounter, TransactionState
  <1>10. CASE commit_take_dependents(t)
    BY <1>10 DEF commit_take_dependents, take_dependents, StoreTypeOK, ProgramCounter
  <1>11. CASE commit_unlock(t)
    BY <1>11 DEF commit_unlock, unlock_commit_lock_if_held, StoreTypeOK, ProgramCounter
  <1>12. CASE commit_publish(t)
    BY <1>12 DEF commit_publish, store_last_committed, StoreTypeOK, ProgramCounter
  <1>13. CASE commit_remove(t)
    BY <1>13 DEF commit_remove, remove_tx, StoreTypeOK, ProgramCounter
  <1>14. CASE commit_release_exclusive(t)
    BY <1>14 DEF commit_release_exclusive, release_exclusive_tx, StoreTypeOK, ProgramCounter
  <1>15. ASSUME NEW r \in Rows, commit_validate(t, r)  PROVE StoreTypeOK'
    BY <1>15 DEF commit_validate, StoreTypeOK, ProgramCounter
  <1>16. ASSUME NEW r \in Rows, build_committed_log_record(t, r)  PROVE StoreTypeOK'
    BY <1>16 DEF build_committed_log_record, StoreTypeOK
  <1>17. ASSUME NEW r \in Rows, rewrite_live_versions(t, r)  PROVE StoreTypeOK'
    <2>1. MapChain(versions[r], LAMBDA rv : to_timestamps(t, rv)) \in Seq(RowVersion)
      <3>1. versions[r] \in Seq(RowVersion) /\ end_ts[t] \in Nat
        BY DEF StoreTypeOK
      <3> QED  BY <3>1, CommitChainTyped
    <2>2. versions' \in [Rows -> Seq(RowVersion)]
      BY <1>17, <2>1 DEF rewrite_live_versions, StoreTypeOK
    <2> QED  BY <1>17, <2>2 DEF rewrite_live_versions, StoreTypeOK
  <1>18. ASSUME NEW d \in Txns, commit_notify(t, d)  PROVE StoreTypeOK'
    <2>1. commit_dep_counter' \in [Txns -> Nat]
      BY <1>18, DecrementTyped DEF commit_notify, Owes
    <2> QED  BY <1>18, <2>1 DEF commit_notify, StoreTypeOK
  <1> QED
    BY <1>1, <1>2, <1>3, <1>4, <1>5, <1>6, <1>7, <1>8, <1>9, <1>10, <1>11, <1>12, <1>13,
       <1>14, <1>15, <1>16, <1>17, <1>18 DEF Commit

LEMMA RollbackTyped ==
    ASSUME StoreTypeOK, CounterExact, NEW t \in Txns,
           abandon(t) \/ rollback_tx(t) \/ Rollback(t)
    PROVE  StoreTypeOK'
  <1> USE DEF storeVars, lockVars, depVars, logVars, markVars, headerVars, opVars, Goto
  <1>1. CASE rollback_tx(t)
    BY <1>1 DEF rollback_tx, StoreTypeOK, ProgramCounter, TransactionState
  <1>2. CASE rollback_take_dependents(t)
    BY <1>2 DEF rollback_take_dependents, take_dependents, unlock_commit_lock_if_held,
                StoreTypeOK, ProgramCounter
  <1>3. CASE rollback_release_dependent(t)
    <2>1. informed[t] \in Txns /\ Owes(t, informed[t]) /\ decrement_counter(informed[t])
      BY <1>3 DEF rollback_release_dependent, Owes, StoreTypeOK
    <2>2. commit_dep_counter' \in [Txns -> Nat]
      BY <2>1, DecrementTyped
    <2> QED  BY <1>3, <2>2 DEF rollback_release_dependent, StoreTypeOK
  <1>4. CASE rollback_release_exclusive(t)
    BY <1>4 DEF rollback_release_exclusive, release_exclusive_tx, StoreTypeOK, ProgramCounter
  <1>5. CASE rollback_terminate(t)
    <2>1. /\ pc' = [pc EXCEPT ![t] = "done"]
          /\ state' = [state EXCEPT ![t] = "Terminated"]
          /\ txs' = txs \ {t}
          /\ finalized' \in {finalized, finalized \cup {t}}
          /\ begin_ts' = [begin_ts EXCEPT ![t] = 0] /\ end_ts' = [end_ts EXCEPT ![t] = 0]
          /\ commit_dep_counter' = [commit_dep_counter EXCEPT ![t] = 0]
          /\ abort_now' = [abort_now EXCEPT ![t] = FALSE]
          /\ header_dirty' = [header_dirty EXCEPT ![t] = FALSE]
          /\ write_set' = [write_set EXCEPT ![t] = {}]
          /\ header' = [header EXCEPT ![t] = {}]
          /\ ops' = [ops EXCEPT ![t] = 0]
          /\ wrote' = [wrote EXCEPT ![t] = [r \in Rows |-> Unwritten]]
          /\ reads' = [reads EXCEPT ![t] = {}]
          /\ UNCHANGED <<clock, lockVars, commit_dep_set, dependents, informed, log_offset,
                         markVars, global_header, todo, versions>>
      BY <1>5 DEF rollback_terminate, remove_tx
    <2>2. /\ pc' \in [Txns -> ProgramCounter] /\ state' \in [Txns -> TransactionState]
          /\ txs' \subseteq Txns /\ finalized' \subseteq Txns
      BY <2>1 DEF StoreTypeOK, ProgramCounter, TransactionState
    <2>3. /\ begin_ts' \in [Txns -> Nat] /\ end_ts' \in [Txns -> Nat]
          /\ commit_dep_counter' \in [Txns -> Nat]
          /\ write_set' \in [Txns -> SUBSET Rows] /\ header' \in [Txns -> SUBSET Txns]
      BY <2>1 DEF StoreTypeOK
    <2>4. abort_now' \in [Txns -> BOOLEAN] /\ header_dirty' \in [Txns -> BOOLEAN]
      BY <2>1 DEF StoreTypeOK
    <2>5. ops' \in [Txns -> 0 .. MaxOps]
      BY <2>1, MvStoreAssumption DEF StoreTypeOK
    <2>6. /\ wrote' \in [Txns -> [Rows -> Value \cup {Unwritten}]]
          /\ reads' \in [Txns -> SUBSET (Rows \X Value \X (Value \cup {Unwritten}))]
      BY <2>1 DEF StoreTypeOK
    <2> QED  BY <2>1, <2>2, <2>3, <2>4, <2>5, <2>6 DEF StoreTypeOK
  <1>6. ASSUME NEW r \in Rows, rollback_rowid(t, r)  PROVE StoreTypeOK'
    <2>1. MapChain(versions[r], LAMBDA rv : rollback_row_version(t, rv)) \in Seq(RowVersion)
      <3>1. versions[r] \in Seq(RowVersion)
        BY DEF StoreTypeOK
      <3> QED  BY <3>1, RollbackChainTyped
    <2>2. versions' \in [Rows -> Seq(RowVersion)]
      BY <1>6, <2>1 DEF rollback_rowid, StoreTypeOK
    <2> QED  BY <1>6, <2>2 DEF rollback_rowid, StoreTypeOK
  <1>7. ASSUME NEW d \in Txns, rollback_abort_dependent(t, d)  PROVE StoreTypeOK'
    BY <1>7 DEF rollback_abort_dependent, StoreTypeOK
  <1>8. CASE abandon(t)
    BY <1>8 DEF abandon, StoreTypeOK, ProgramCounter
  <1> QED  BY <1>1, <1>2, <1>3, <1>4, <1>5, <1>6, <1>7, <1>8 DEF Rollback

LEMMA NextTyped ==
    ASSUME StoreTypeOK, CounterExact, [Next]_vars
    PROVE  StoreTypeOK'
  <1> USE DEF storeVars, lockVars, depVars, logVars, markVars, headerVars, opVars
  <1>1. CASE UNCHANGED vars
    BY <1>1 DEF vars, StoreTypeOK
  <1>2. ASSUME NEW t \in Txns, with_header_mut(t)  PROVE StoreTypeOK'
    BY <1>2, MvStoreAssumption DEF with_header_mut, NextOp, CanWrite, CanRead, StoreTypeOK
  <1>3. ASSUME NEW t \in Txns, Statement(t)  PROVE StoreTypeOK'
    BY <1>2, <1>3, StatementTyped DEF Statement
  <1> QED
    BY <1>1, <1>3, BeginTyped, CommitTyped, RollbackTyped DEF Next, Finished

-----------------------------------------------------------------------------
(* Control: the state of a transaction follows its program counter.         *)

LEMMA ControlStep ==
    ASSUME StoreTypeOK, PcMatchesState, [Next]_vars
    PROVE  PcMatchesState'
  <1> USE DEF storeVars, lockVars, depVars, logVars, markVars, headerVars, opVars, Goto,
              StatementFrame, CommitFrame, CommittingPcs, CommittedPcs, RollbackPcs
  <1>1. CASE UNCHANGED vars
    BY <1>1 DEF vars, PcMatchesState
  <1>2. ASSUME NEW t \in Txns, Begin(t)  PROVE PcMatchesState'
    <2>1. CASE begin_tx(t)
      BY <2>1 DEF begin_tx, PcMatchesState, StoreTypeOK
    <2>2. CASE begin_exclusive_tx(t)
      BY <2>2 DEF begin_exclusive_tx, PcMatchesState, StoreTypeOK
    <2>3. CASE upgrade_to_exclusive(t)
      BY <2>3 DEF upgrade_to_exclusive, PcMatchesState, StoreTypeOK
    <2>4. CASE acquire_exclusive_tx(t)
      BY <2>4 DEF acquire_exclusive_tx, Refused, PcMatchesState, StoreTypeOK
    <2>5. CASE acquire_pager_commit_lock(t)
      BY <2>5, SMTT(30) DEF acquire_pager_commit_lock, Refused, PcMatchesState, StoreTypeOK
    <2> QED  BY <1>2, <2>1, <2>2, <2>3, <2>4, <2>5 DEF Begin
  <1>3. ASSUME NEW t \in Txns, Statement(t)  PROVE PcMatchesState'
    <2>1. UNCHANGED <<state, txs>>
      BY <1>3 DEF Statement, with_header_mut, read_visible, read_btree, write_conflict,
                  update, insert, delete, insert_tombstone
    <2>2. UNCHANGED pc \/ (pc[t] = "active" /\ pc' = [pc EXCEPT ![t] = "rollback"])
      BY <1>3 DEF Statement, with_header_mut, read_visible, read_btree, write_conflict,
                  update, insert, delete, insert_tombstone
    <2> QED  BY <2>1, <2>2, SMTT(30) DEF PcMatchesState, StoreTypeOK
  <1>4. ASSUME NEW t \in Txns, commit_initial(t)  PROVE PcMatchesState'
    BY <1>4, SMTT(30) DEF commit_initial, PcMatchesState, StoreTypeOK
  <1>5. ASSUME NEW t \in Txns, Commit(t)  PROVE PcMatchesState'
    <2>1. CASE commit_check_exclusive(t)
      BY <2>1 DEF commit_check_exclusive, PcMatchesState, StoreTypeOK
    <2>2. CASE commit_validate_none(t)
      BY <2>2 DEF commit_validate_none, PcMatchesState, StoreTypeOK
    <2>3. CASE wait_for_dependencies(t)
      BY <2>3, SMTT(30) DEF wait_for_dependencies, PcMatchesState, StoreTypeOK
    <2>4. CASE wait_recheck_abort_now(t)
      BY <2>4 DEF wait_recheck_abort_now, PcMatchesState, StoreTypeOK
    <2>5. CASE commit_read_only(t)
      BY <2>5 DEF commit_read_only, PcMatchesState, StoreTypeOK
    <2>6. CASE begin_commit_logical_log(t)
      BY <2>6 DEF begin_commit_logical_log, PcMatchesState, StoreTypeOK
    <2>7. CASE sync_logical_log(t)
      BY <2>7 DEF sync_logical_log, PcMatchesState, StoreTypeOK
    <2>8. CASE commit_end(t)
      BY <2>8 DEF commit_end, PcMatchesState, StoreTypeOK
    <2>9. CASE commit_take_dependents(t)
      BY <2>9 DEF commit_take_dependents, PcMatchesState, StoreTypeOK
    <2>10. CASE commit_unlock(t)
      BY <2>10, SMTT(30) DEF commit_unlock, PcMatchesState, StoreTypeOK
    <2>11. CASE commit_publish(t)
      BY <2>11 DEF commit_publish, PcMatchesState, StoreTypeOK
    <2>12. CASE commit_remove(t)
      BY <2>12 DEF commit_remove, remove_tx, PcMatchesState, StoreTypeOK
    <2>13. CASE commit_release_exclusive(t)
      BY <2>13 DEF commit_release_exclusive, PcMatchesState, StoreTypeOK
    <2>14. ASSUME NEW r \in Rows, commit_validate(t, r)  PROVE PcMatchesState'
      BY <2>14 DEF commit_validate, PcMatchesState, StoreTypeOK
    <2>15. ASSUME NEW r \in Rows, build_committed_log_record(t, r) \/ rewrite_live_versions(t, r)
           PROVE  PcMatchesState'
      BY <2>15 DEF build_committed_log_record, rewrite_live_versions, PcMatchesState
    <2>16. ASSUME NEW d \in Txns, commit_notify(t, d)  PROVE PcMatchesState'
      BY <2>16 DEF commit_notify, PcMatchesState
    <2> QED
      BY <1>5, <2>1, <2>2, <2>3, <2>4, <2>5, <2>6, <2>7, <2>8, <2>9, <2>10, <2>11, <2>12,
         <2>13, <2>14, <2>15, <2>16 DEF Commit
  <1>6. ASSUME NEW t \in Txns, rollback_tx(t)  PROVE PcMatchesState'
    BY <1>6 DEF rollback_tx, PcMatchesState, StoreTypeOK
  <1>7. ASSUME NEW t \in Txns, Rollback(t)  PROVE PcMatchesState'
    <2>1. CASE rollback_take_dependents(t)
      BY <2>1 DEF rollback_take_dependents, PcMatchesState, StoreTypeOK
    <2>2. CASE rollback_release_dependent(t)
      BY <2>2 DEF rollback_release_dependent, PcMatchesState
    <2>3. CASE rollback_release_exclusive(t)
      BY <2>3 DEF rollback_release_exclusive, PcMatchesState, StoreTypeOK
    <2>4. CASE rollback_terminate(t)
      BY <2>4 DEF rollback_terminate, remove_tx, PcMatchesState, StoreTypeOK
    <2>5. ASSUME NEW r \in Rows, rollback_rowid(t, r)  PROVE PcMatchesState'
      BY <2>5 DEF rollback_rowid, PcMatchesState
    <2>6. ASSUME NEW d \in Txns, rollback_abort_dependent(t, d)  PROVE PcMatchesState'
      BY <2>6 DEF rollback_abort_dependent, PcMatchesState
    <2> QED  BY <1>7, <2>1, <2>2, <2>3, <2>4, <2>5, <2>6 DEF Rollback
  <1>8. ASSUME NEW t \in Txns, abandon(t)  PROVE PcMatchesState'
    BY <1>8 DEF abandon, PcMatchesState, StoreTypeOK
  <1> QED
    BY <1>1, <1>2, <1>3, <1>4, <1>5, <1>6, <1>7, <1>8 DEF Next, Finished

-----------------------------------------------------------------------------
(* The commit-dependency protocol.                                          *)

debtVars == <<commit_dep_counter, commit_dep_set, dependents, informed>>

(* A step that keeps who owes whom and every counter that is still looked   *)
(* at, lets no transaction become Unborn again and adds only Unborn ones to *)
(* txs, keeps the count exact.                                              *)
LEMMA DebtsKept ==
    ASSUME StoreTypeOK, UnbornOwedNothing, CounterExact,
           \A u, t \in Txns : Owes(u, t)' <=> Owes(u, t),
           \A t \in Txns : t \in txs' \/ state'[t] = "Unborn" =>
               commit_dep_counter'[t] = commit_dep_counter[t],
           txs' \subseteq Txns,
           \A t \in txs' : t \in txs \/ state[t] = "Unborn",
           \A t \in Txns : state'[t] = "Unborn" => state[t] = "Unborn"
    PROVE  UnbornOwedNothing' /\ CounterExact'
  <1>1. UnbornOwedNothing'
    BY DEF UnbornOwedNothing
  <1>2. ASSUME NEW t \in txs'
        PROVE  commit_dep_counter'[t] = Cardinality({u \in Txns : Owes(u, t)}')
    <2>1. t \in Txns
      OBVIOUS
    <2>2. {u \in Txns : Owes(u, t)}' = {u \in Txns : Owes(u, t)}
      BY <2>1
    <2>3. CASE t \in txs
      BY <2>1, <2>2, <2>3 DEF CounterExact
    <2>4. CASE state[t] = "Unborn"
      <3>1. {u \in Txns : Owes(u, t)} = {} /\ commit_dep_counter[t] = 0
        BY <2>1, <2>4 DEF UnbornOwedNothing
      <3> QED  BY <2>1, <2>2, <3>1, FS_EmptySet
    <2> QED  BY <2>3, <2>4
  <1>3. CounterExact'
    BY <1>2 DEF CounterExact
  <1> QED  BY <1>1, <1>3

(* A statement's registrations, whatever they are.                          *)
LEMMA RegisterExact ==
    ASSUME StoreTypeOK, PcMatchesState, NotifyingOnly, UnbornOwedNothing, CounterExact,
           NEW t \in Txns, state[t] = "Active", NEW us, us \subseteq PreparingTxns,
           Registers(t, us), UNCHANGED <<txs, state>>
    PROVE  UnbornOwedNothing' /\ CounterExact'
  <1> DEFINE fresh == {u \in us : t \notin commit_dep_set[u]}
             owing == {u \in Txns : Owes(u, t)}
  <1>1. us \subseteq Txns
    BY DEF PreparingTxns
  <1>2. UNCHANGED <<dependents, informed>>
    BY DEF Registers
  <1>3. commit_dep_set' = [u \in Txns |-> IF u \in us THEN commit_dep_set[u] \cup {t}
                                                     ELSE commit_dep_set[u]]
    BY DEF Registers
  <1>4. \A d \in Txns \ {t} : commit_dep_counter'[d] = commit_dep_counter[d]
    BY DEF Registers, StoreTypeOK
  <1>5. commit_dep_counter'[t] = commit_dep_counter[t] + Cardinality(fresh)
    BY DEF Registers, StoreTypeOK
  <1>6. \A d \in Txns \ {t} : \A u \in Txns : Owes(u, d)' <=> Owes(u, d)
    BY <1>2, <1>3 DEF Owes, StoreTypeOK
  <1>7. UnbornOwedNothing'
    BY <1>4, <1>6 DEF UnbornOwedNothing
  <1>8. \A u \in Txns : Owes(u, t)' <=> (Owes(u, t) \/ u \in fresh)
    BY <1>2, <1>3 DEF Owes, StoreTypeOK
  <1>9. owing \cap fresh = {}
    <2>1. ASSUME NEW u \in fresh  PROVE ~Owes(u, t)
      <3>1. dependents[u] = {} /\ informed[u] = NoTx
        BY PreparingOwesOnlyItsSet
      <3> QED  BY <3>1, MvStoreAssumption DEF Owes
    <2> QED  BY <2>1
  <1>10. IsFiniteSet(owing) /\ IsFiniteSet(fresh)
         /\ Cardinality(owing) \in Nat /\ Cardinality(fresh) \in Nat
    BY <1>1, OwingFinite
  <1>11. Cardinality(owing \cup fresh) = Cardinality(owing) + Cardinality(fresh)
    <2>1. Cardinality(owing \cap fresh) = 0
      BY <1>9, FS_EmptySet
    <2> HIDE DEF owing, fresh
    <2>2. Cardinality(owing \cup fresh)
            = Cardinality(owing) + Cardinality(fresh) - Cardinality(owing \cap fresh)
      BY <1>10, FS_Union
    <2> QED  BY <1>10, <2>1, <2>2
  <1>12. {u \in Txns : Owes(u, t)}' = owing \cup fresh
    BY <1>1, <1>8
  <1>13. t \in txs => commit_dep_counter[t] = Cardinality(owing)
    BY DEF CounterExact
  <1>14. ASSUME NEW d \in txs'
         PROVE  commit_dep_counter'[d] = Cardinality({u \in Txns : Owes(u, d)}')
    <2>1. CASE d = t
      BY <2>1, <1>5, <1>11, <1>12, <1>13
    <2>2. CASE d # t
      <3>1. d \in Txns \ {t} /\ d \in txs
        BY <2>2 DEF StoreTypeOK
      <3>2. {u \in Txns : Owes(u, d)}' = {u \in Txns : Owes(u, d)}
        BY <1>6, <3>1
      <3> QED  BY <1>4, <3>1, <3>2 DEF CounterExact
    <2> QED  BY <2>1, <2>2
  <1>15. CounterExact'
    BY <1>14 DEF CounterExact
  <1> QED  BY <1>7, <1>15

(* Paying one debt: the debt disappears and the counter goes down by one.   *)
LEMMA PayExact ==
    ASSUME StoreTypeOK, UnbornOwedNothing, CounterExact,
           NEW t \in Txns, NEW d \in Txns, Owes(t, d), ~Owes(t, d)',
           \A u, e \in Txns : <<u, e>> # <<t, d>> => (Owes(u, e)' <=> Owes(u, e)),
           decrement_counter(d), UNCHANGED <<txs, state>>
    PROVE  UnbornOwedNothing' /\ CounterExact'
  <1>1. state[d] # "Unborn"
    BY DEF UnbornOwedNothing
  <1>2. \A e \in Txns \ {d} : commit_dep_counter'[e] = commit_dep_counter[e]
    BY DEF decrement_counter, StoreTypeOK
  <1>3. UnbornOwedNothing'
    BY <1>1, <1>2 DEF UnbornOwedNothing
  <1>4. ASSUME NEW e \in txs'
        PROVE  commit_dep_counter'[e] = Cardinality({u \in Txns : Owes(u, e)}')
    <2>1. CASE e = d
      <3> DEFINE owing == {u \in Txns : Owes(u, d)}
      <3>1. {u \in Txns : Owes(u, d)}' = owing \ {t}
        OBVIOUS
      <3>2. IsFiniteSet(owing) /\ t \in owing
        BY OwingFinite
      <3>3. Cardinality(owing \ {t}) = Cardinality(owing) - 1
        BY <3>2, FS_RemoveElement
      <3>4. d \in txs /\ commit_dep_counter[d] = Cardinality(owing)
        BY <2>1 DEF CounterExact
      <3>5. commit_dep_counter'[d] = commit_dep_counter[d] - 1
        BY <3>4 DEF decrement_counter, StoreTypeOK
      <3> QED  BY <2>1, <3>1, <3>3, <3>4, <3>5
    <2>2. CASE e # d
      <3>1. e \in Txns \ {d} /\ e \in txs
        BY <2>2 DEF StoreTypeOK
      <3>2. {u \in Txns : Owes(u, e)}' = {u \in Txns : Owes(u, e)}
        BY <3>1
      <3> QED  BY <1>2, <3>1, <3>2 DEF CounterExact
    <2> QED  BY <2>1, <2>2
  <1>5. CounterExact'
    BY <1>4 DEF CounterExact
  <1> QED  BY <1>3, <1>5

(* A step that has nothing to do with debts.                                *)
Quiet(t) ==
    /\ UNCHANGED debtVars
    /\ txs' \subseteq Txns
    /\ \A u \in txs' : u \in txs \/ state[u] = "Unborn"
    /\ \A u \in Txns : state'[u] = "Unborn" => state[u] = "Unborn"
    /\ \A u \in Txns \ {t} : pc'[u] = pc[u]
    /\ \/ pc'[t] = pc[t]
       \/ /\ dependents[t] = {} /\ informed[t] = NoTx
          /\ pc'[t] \notin {"notify", "rb_notify"}

LEMMA QuietKeepsDebts ==
    ASSUME DependencyInv, NEW t \in Txns, Quiet(t)
    PROVE  NotifyingOnly' /\ UnbornOwedNothing' /\ CounterExact'
  <1>1. \A u, d \in Txns : Owes(u, d)' <=> Owes(u, d)
    BY DEF Quiet, debtVars, Owes
  <1>2. NotifyingOnly'
    BY DEF Quiet, debtVars, DependencyInv, NotifyingOnly
  <1> QED  BY <1>1, <1>2, DebtsKept DEF Quiet, debtVars, DependencyInv

LEMMA BeginQuiet ==
    ASSUME DependencyInv, NEW t \in Txns, Begin(t)
    PROVE  Quiet(t)
  <1> USE DEF storeVars, lockVars, depVars, logVars, markVars, headerVars, opVars, Goto,
              Quiet, debtVars
  <1>1. /\ pc[t] \notin {"notify", "rb_notify"}
        /\ pc'[t] \notin {"notify", "rb_notify"}
        /\ \A u \in Txns \ {t} : pc'[u] = pc[u]
    <2>1. \E from \in {"idle", "active", "acquire_exclusive", "acquire_commit_lock"} :
            \E to \in {"active", "acquire_exclusive", "acquire_commit_lock", "done"} :
              Goto(t, from, to)
      <3> HIDE DEF Goto
      <3> QED  BY DEF Begin, begin_tx, begin_exclusive_tx, upgrade_to_exclusive,
                      acquire_exclusive_tx, acquire_pager_commit_lock, Refused
    <2> QED  BY <2>1 DEF DependencyInv, StoreTypeOK
  <1>2. dependents[t] = {} /\ informed[t] = NoTx
    BY <1>1 DEF DependencyInv, NotifyingOnly
  <1>3. txs \subseteq Txns /\ state \in [Txns -> TransactionState]
    BY DEF DependencyInv, StoreTypeOK
  <1>4. pc[t] \in {"idle", "acquire_exclusive", "acquire_commit_lock"} =>
          t \in txs \/ state[t] = "Unborn"
    BY DEF DependencyInv, PcMatchesState
  <1>5. CASE begin_tx(t)
    BY <1>1, <1>2, <1>3, <1>4, <1>5 DEF begin_tx
  <1>6. CASE begin_exclusive_tx(t)
    BY <1>1, <1>2, <1>3, <1>6 DEF begin_exclusive_tx
  <1>7. CASE upgrade_to_exclusive(t)
    BY <1>1, <1>2, <1>3, <1>7 DEF upgrade_to_exclusive
  <1>8. CASE acquire_exclusive_tx(t)
    BY <1>1, <1>2, <1>3, <1>8 DEF acquire_exclusive_tx
  <1>9. CASE acquire_pager_commit_lock(t)
    BY <1>1, <1>2, <1>3, <1>4, <1>9 DEF acquire_pager_commit_lock
  <1> QED  BY <1>5, <1>6, <1>7, <1>8, <1>9 DEF Begin

(* The steps of a commit that touch no debt: all but the two that drain     *)
(* commit_dep_set and notify.                                               *)
LEMMA CommitQuiet ==
    ASSUME DependencyInv, NEW t \in Txns, commit_initial(t) \/ Commit(t),
           ~commit_take_dependents(t), \A d \in Txns : ~commit_notify(t, d)
    PROVE  Quiet(t)
  <1> USE DEF storeVars, lockVars, depVars, logVars, markVars, headerVars, opVars, Goto,
              CommitFrame
  <1>1. txs \subseteq Txns /\ state \in [Txns -> TransactionState]
        /\ pc \in [Txns -> ProgramCounter]
    BY DEF DependencyInv, StoreTypeOK
  <1>2. /\ dependents[t] # {} => pc[t] \in {"notify", "rb_notify"}
        /\ informed[t] # NoTx => pc[t] = "rb_notify"
    BY DEF DependencyInv, NotifyingOnly
  <1>3. CASE commit_initial(t)
    BY <1>1, <1>2, <1>3 DEF commit_initial, Quiet, debtVars
  <1>4. CASE commit_check_exclusive(t)
    BY <1>1, <1>2, <1>4 DEF commit_check_exclusive, Quiet, debtVars
  <1>5. CASE commit_validate_none(t)
    BY <1>1, <1>2, <1>5 DEF commit_validate_none, Quiet, debtVars
  <1>6. CASE wait_for_dependencies(t)
    BY <1>1, <1>2, <1>6 DEF wait_for_dependencies, Quiet, debtVars
  <1>7. CASE wait_recheck_abort_now(t)
    BY <1>1, <1>2, <1>7 DEF wait_recheck_abort_now, Quiet, debtVars
  <1>8. CASE commit_read_only(t)
    BY <1>1, <1>2, <1>8 DEF commit_read_only, Quiet, debtVars
  <1>9. CASE begin_commit_logical_log(t)
    BY <1>1, <1>2, <1>9 DEF begin_commit_logical_log, Quiet, debtVars
  <1>10. CASE sync_logical_log(t)
    BY <1>1, <1>2, <1>10 DEF sync_logical_log, Quiet, debtVars
  <1>11. CASE commit_end(t)
    BY <1>1, <1>2, <1>11 DEF commit_end, Quiet, debtVars
  <1>12. CASE commit_unlock(t)
    BY <1>1, <1>2, <1>12 DEF commit_unlock, Quiet, debtVars
  <1>13. CASE commit_publish(t)
    BY <1>1, <1>2, <1>13 DEF commit_publish, Quiet, debtVars
  <1>14. CASE commit_remove(t)
    BY <1>1, <1>2, <1>14 DEF commit_remove, remove_tx, Quiet, debtVars
  <1>15. CASE commit_release_exclusive(t)
    BY <1>1, <1>2, <1>15 DEF commit_release_exclusive, Quiet, debtVars
  <1>16. ASSUME NEW r \in Rows, commit_validate(t, r)  PROVE Quiet(t)
    BY <1>1, <1>2, <1>16 DEF commit_validate, Quiet, debtVars
  <1>17. ASSUME NEW r \in Rows, build_committed_log_record(t, r)  PROVE Quiet(t)
    BY <1>1, <1>17 DEF build_committed_log_record, Quiet, debtVars
  <1>18. ASSUME NEW r \in Rows, rewrite_live_versions(t, r)  PROVE Quiet(t)
    BY <1>1, <1>18 DEF rewrite_live_versions, Quiet, debtVars
  <1> QED
    BY <1>3, <1>4, <1>5, <1>6, <1>7, <1>8, <1>9, <1>10, <1>11, <1>12, <1>13, <1>14, <1>15,
       <1>16, <1>17, <1>18 DEF Commit

(* A statement of an Active transaction registers some dependencies.        *)
LEMMA StatementExact ==
    ASSUME DependencyInv, NEW t \in Txns, NEW r \in Rows,
           \/ read_visible(t, r) \/ read_btree(t, r) \/ write_conflict(t, r)
           \/ update(t, r) \/ insert(t, r) \/ delete(t, r) \/ insert_tombstone(t, r)
    PROVE  NotifyingOnly' /\ UnbornOwedNothing' /\ CounterExact'
  <1> USE DEF StatementFrame, storeVars, DependencyInv
  <1>1. UNCHANGED <<txs, state>> /\ CanRead(t)
    BY DEF read_visible, read_btree, write_conflict, update, insert, delete,
           insert_tombstone, CanWrite
  <1>2. pc[t] = "active" /\ state[t] = "Active"
    BY <1>1 DEF CanRead, PcMatchesState
  <1>3. PICK us : us \subseteq PreparingTxns /\ Registers(t, us)
    <2>1. \E us : us \subseteq PreparingTxns /\ register_commit_dependency(t, us)
      BY LookupsOnPreparing
         DEF read_visible, read_btree, write_conflict, update, insert, delete, insert_tombstone
    <2> QED  BY <2>1, RegisterLive
  <1>4. UnbornOwedNothing' /\ CounterExact'
    BY <1>1, <1>2, <1>3, RegisterExact
  <1>5. pc' = pc \/ pc' = [pc EXCEPT ![t] = "rollback"]
    BY DEF read_visible, read_btree, write_conflict, update, insert, delete,
           insert_tombstone, Goto
  <1>6. NotifyingOnly'
    <2>1. UNCHANGED <<dependents, informed>>
      BY <1>3 DEF Registers
    <2>2. \A u \in Txns : pc'[u] = pc[u] \/ (u = t /\ pc'[u] = "rollback")
      BY <1>5 DEF StoreTypeOK
    <2>3. ASSUME NEW u \in Txns, pc'[u] \in {"notify", "rb_notify"}
          PROVE  commit_dep_set'[u] = {}
      <3>1. pc[u] \in {"notify", "rb_notify"} /\ commit_dep_set[u] = {}
        BY <2>2, <2>3 DEF NotifyingOnly
      <3>2. u \notin us
        BY <1>3, <3>1, PreparingOwesOnlyItsSet DEF PcMatchesState, CommittedPcs, RollbackPcs
      <3> QED  BY <1>3, <3>1, <3>2 DEF Registers
    <2> QED  BY <1>2, <2>1, <2>2, <2>3 DEF NotifyingOnly
  <1> QED  BY <1>4, <1>6

(* Draining commit_dep_set moves the debts and changes none.                *)
LEMMA TakeExact ==
    ASSUME DependencyInv, NEW t \in Txns, pc[t] \in {"rewrite", "rb_unlock"},
           NEW to \in {"notify", "rb_notify"}, pc' = [pc EXCEPT ![t] = to],
           take_dependents(t), UNCHANGED <<txs, state>>
    PROVE  NotifyingOnly' /\ UnbornOwedNothing' /\ CounterExact'
  <1> USE DEF DependencyInv
  <1>1. dependents[t] = {} /\ informed[t] = NoTx
    BY DEF NotifyingOnly
  <1>2. \A u, d \in Txns : Owes(u, d)' <=> Owes(u, d)
    BY <1>1 DEF take_dependents, Owes, StoreTypeOK
  <1>3. UnbornOwedNothing' /\ CounterExact'
    <2>1. UNCHANGED commit_dep_counter /\ txs \subseteq Txns
      BY DEF take_dependents, StoreTypeOK
    <2> QED  BY <1>2, <2>1, DebtsKept
  <1>4. NotifyingOnly'
    <2>1. NoTx \notin commit_dep_set[t]
      BY MvStoreAssumption DEF StoreTypeOK
    <2> QED  BY <1>1, <2>1 DEF take_dependents, NotifyingOnly, StoreTypeOK
  <1> QED  BY <1>3, <1>4

(* The three steps that work off a drained set.                             *)
LEMMA CommitNotifyExact ==
    ASSUME DependencyInv, NEW t \in Txns, NEW d \in Txns, commit_notify(t, d)
    PROVE  NotifyingOnly' /\ UnbornOwedNothing' /\ CounterExact'
  <1> USE DEF DependencyInv
  <1>1. commit_dep_set[t] = {} /\ informed[t] = NoTx /\ d # NoTx
    BY MvStoreAssumption DEF commit_notify, NotifyingOnly
  <1>2. /\ dependents' = [dependents EXCEPT ![t] = @ \ {d}]
        /\ UNCHANGED <<commit_dep_set, informed, pc, txs, state>>
        /\ decrement_counter(d)
        /\ d \in dependents[t]
    BY DEF commit_notify, storeVars
  <1>3. Owes(t, d) /\ ~Owes(t, d)'
    BY <1>1, <1>2 DEF Owes, StoreTypeOK
  <1>4. \A u, e \in Txns : <<u, e>> # <<t, d>> => (Owes(u, e)' <=> Owes(u, e))
    BY <1>2 DEF Owes, StoreTypeOK
  <1>5. NotifyingOnly'
    BY <1>2 DEF NotifyingOnly, StoreTypeOK
  <1> QED  BY <1>2, <1>3, <1>4, <1>5, PayExact

LEMMA RollbackAbortExact ==
    ASSUME DependencyInv, NEW t \in Txns, NEW d \in Txns, rollback_abort_dependent(t, d)
    PROVE  NotifyingOnly' /\ UnbornOwedNothing' /\ CounterExact'
  <1> USE DEF DependencyInv
  <1>1. /\ dependents' = [dependents EXCEPT ![t] = @ \ {d}]
        /\ informed' = [informed EXCEPT ![t] = d]
        /\ informed[t] = NoTx /\ d \in dependents[t] /\ pc[t] = "rb_notify"
        /\ UNCHANGED <<commit_dep_set, commit_dep_counter, pc, txs, state>>
    BY DEF rollback_abort_dependent, storeVars
  <1>2. \A u, e \in Txns : Owes(u, e)' <=> Owes(u, e)
    BY <1>1, MvStoreAssumption DEF Owes, StoreTypeOK
  <1>3. NotifyingOnly'
    BY <1>1 DEF NotifyingOnly, StoreTypeOK
  <1>4. txs \subseteq Txns
    BY DEF StoreTypeOK
  <1> QED  BY <1>1, <1>2, <1>3, <1>4, DebtsKept

LEMMA RollbackReleaseExact ==
    ASSUME DependencyInv, NEW t \in Txns, rollback_release_dependent(t)
    PROVE  NotifyingOnly' /\ UnbornOwedNothing' /\ CounterExact'
  <1> USE DEF DependencyInv
  <1>0. PICK d \in Txns : d = informed[t]
    BY DEF rollback_release_dependent, StoreTypeOK
  <1>1. /\ informed' = [informed EXCEPT ![t] = NoTx]
        /\ d # NoTx /\ pc[t] = "rb_notify" /\ decrement_counter(d)
        /\ UNCHANGED <<commit_dep_set, dependents, pc, txs, state>>
    BY <1>0 DEF rollback_release_dependent, storeVars
  <1>2. d \notin dependents[t] /\ commit_dep_set[t] = {}
    BY <1>0, <1>1 DEF NotifyingOnly
  <1>3. Owes(t, d) /\ ~Owes(t, d)'
    BY <1>0, <1>1, <1>2 DEF Owes, StoreTypeOK
  <1>4. \A u, e \in Txns : <<u, e>> # <<t, d>> => (Owes(u, e)' <=> Owes(u, e))
    BY <1>0, <1>1, MvStoreAssumption DEF Owes, StoreTypeOK
  <1>5. NotifyingOnly'
    BY <1>1, MvStoreAssumption DEF NotifyingOnly, StoreTypeOK
  <1> QED  BY <1>1, <1>3, <1>4, <1>5, PayExact

LEMMA RollbackTerminateExact ==
    ASSUME DependencyInv, NEW t \in Txns, rollback_terminate(t)
    PROVE  NotifyingOnly' /\ UnbornOwedNothing' /\ CounterExact'
  <1> USE DEF DependencyInv
  <1>1. /\ pc[t] = "rb_undo" /\ pc' = [pc EXCEPT ![t] = "done"]
        /\ state' = [state EXCEPT ![t] = "Terminated"]
        /\ txs' = txs \ {t}
        /\ commit_dep_counter' = [commit_dep_counter EXCEPT ![t] = 0]
        /\ UNCHANGED <<commit_dep_set, dependents, informed>>
    BY DEF rollback_terminate, remove_tx, Goto
  <1>2. \A u, e \in Txns : Owes(u, e)' <=> Owes(u, e)
    BY <1>1 DEF Owes
  <1>3. NotifyingOnly'
    BY <1>1 DEF NotifyingOnly, StoreTypeOK
  <1>4. /\ txs' \subseteq Txns
        /\ \A u \in Txns : u \in txs' \/ state'[u] = "Unborn" =>
             commit_dep_counter'[u] = commit_dep_counter[u]
        /\ \A u \in Txns : state'[u] = "Unborn" => state[u] = "Unborn"
    BY <1>1 DEF StoreTypeOK
  <1> QED  BY <1>1, <1>2, <1>3, <1>4, DebtsKept

LEMMA DependencyStep ==
    ASSUME DependencyInv, [Next]_vars
    PROVE  DependencyInv'
  <1> USE DEF storeVars, lockVars, depVars, logVars, markVars, headerVars, opVars
  <1>1. StoreTypeOK' /\ PcMatchesState'
    BY NextTyped, ControlStep DEF DependencyInv
  <1> DEFINE Kept == NotifyingOnly' /\ UnbornOwedNothing' /\ CounterExact'
  <1>2. CASE UNCHANGED vars
    BY <1>1, <1>2
       DEF vars, DependencyInv, NotifyingOnly, UnbornOwedNothing, CounterExact, Owes
  <1>3. ASSUME NEW t \in Txns, Begin(t)  PROVE Kept
    BY <1>3, BeginQuiet, QuietKeepsDebts
  <1>4. ASSUME NEW t \in Txns, Statement(t)  PROVE Kept
    <2>1. CASE with_header_mut(t)
      <3>1. Quiet(t)
        BY <2>1 DEF with_header_mut, Quiet, debtVars, DependencyInv, StoreTypeOK
      <3> QED  BY <3>1, QuietKeepsDebts
    <2> QED  BY <1>4, <2>1, StatementExact DEF Statement
  <1>5. ASSUME NEW t \in Txns, commit_initial(t) \/ Commit(t)  PROVE Kept
    <2>1. CASE commit_take_dependents(t)
      BY <2>1, TakeExact DEF commit_take_dependents, Goto
    <2>2. ASSUME NEW d \in Txns, commit_notify(t, d)  PROVE Kept
      BY <2>2, CommitNotifyExact
    <2> QED  BY <1>5, <2>1, <2>2, CommitQuiet, QuietKeepsDebts
  <1>6. ASSUME NEW t \in Txns, abandon(t) \/ rollback_tx(t)  PROVE Kept
    <2>1. \/ abandon(t) /\ pc' = [pc EXCEPT ![t] = "rollback"] /\ state' = state
          \/ /\ rollback_tx(t) /\ pc' = [pc EXCEPT ![t] = "rb_unlock"]
             /\ state' = [state EXCEPT ![t] = "Aborted"]
      BY <1>6 DEF abandon, rollback_tx, Goto
    <2>2. pc[t] \notin {"notify", "rb_notify"}
      BY <1>6 DEF abandon, rollback_tx, Goto
    <2>3. UNCHANGED debtVars /\ txs' = txs
      BY <1>6 DEF abandon, rollback_tx, debtVars
    <2>4. dependents[t] = {} /\ informed[t] = NoTx
      BY <2>2 DEF DependencyInv, NotifyingOnly
    <2>5. /\ \A u \in Txns : state'[u] = "Unborn" => state[u] = "Unborn"
          /\ \A u \in Txns \ {t} : pc'[u] = pc[u]
          /\ pc'[t] \notin {"notify", "rb_notify"}
      BY <2>1 DEF DependencyInv, StoreTypeOK
    <2>6. Quiet(t)
      BY <2>3, <2>4, <2>5 DEF Quiet, DependencyInv, StoreTypeOK
    <2> QED  BY <2>6, QuietKeepsDebts
  <1>7. ASSUME NEW t \in Txns, Rollback(t)  PROVE Kept
    <2>1. CASE rollback_take_dependents(t)
      BY <2>1, TakeExact DEF rollback_take_dependents, Goto
    <2>2. CASE rollback_release_exclusive(t)
      <3>1. Quiet(t)
        BY <2>2 DEF rollback_release_exclusive, Quiet, debtVars, DependencyInv, StoreTypeOK,
                    Goto
      <3> QED  BY <3>1, QuietKeepsDebts
    <2>3. ASSUME NEW r \in Rows, rollback_rowid(t, r)  PROVE Kept
      <3>1. Quiet(t)
        BY <2>3 DEF rollback_rowid, Quiet, debtVars, DependencyInv, StoreTypeOK
      <3> QED  BY <3>1, QuietKeepsDebts
    <2> QED
      BY <1>7, <2>1, <2>2, <2>3, RollbackReleaseExact, RollbackAbortExact,
         RollbackTerminateExact DEF Rollback
  <1>8. Kept
    BY <1>2, <1>3, <1>4, <1>5, <1>6, <1>7 DEF Next, Finished, DependencyInv
  <1> QED  BY <1>1, <1>8 DEF DependencyInv

LEMMA DependencyInit == Init => DependencyInv
  <1> SUFFICES ASSUME Init PROVE DependencyInv
    OBVIOUS
  <1>1. StoreTypeOK
    BY MvStoreAssumption DEF Init, StoreTypeOK, ProgramCounter, TransactionState
  <1>2. PcMatchesState
    BY DEF Init, PcMatchesState, CommittingPcs, CommittedPcs, RollbackPcs
  <1>3. \A u, t \in Txns : ~Owes(u, t)
    BY MvStoreAssumption DEF Init, Owes
  <1>4. NotifyingOnly /\ UnbornOwedNothing /\ CounterExact
    BY <1>3 DEF Init, NotifyingOnly, UnbornOwedNothing, CounterExact
  <1> QED  BY <1>1, <1>2, <1>4 DEF DependencyInv

(* The commit-dependency counter of every live transaction is, in every     *)
(* reachable state and for any number of transactions, exactly the number   *)
(* of transactions that will still report to it (register_commit_dependency *)
(* against the notify loops of CommitEnd and rollback_tx).                  *)
THEOREM CounterIsExact == Spec => []CounterExact
  <1>1. DependencyInv /\ [Next]_vars => DependencyInv'
    BY DependencyStep
  <1>2. DependencyInv => CounterExact
    BY DEF DependencyInv
  <1> QED  BY DependencyInit, <1>1, <1>2, PTL DEF Spec

(* Every variable of the store but the log stays within its type; the       *)
(* unsigned commit_dep_counter in particular is never decremented below 0.  *)
THEOREM StoreTypeCorrect == Spec => []StoreTypeOK
  <1>1. DependencyInv /\ [Next]_vars => DependencyInv'
    BY DependencyStep
  <1>2. DependencyInv => StoreTypeOK
    BY DEF DependencyInv
  <1> QED  BY DependencyInit, <1>1, <1>2, PTL DEF Spec

-----------------------------------------------------------------------------
(* The pager commit lock.                                                   *)

(* Where an exclusive transaction has the commit lock since it began.       *)
HoldingPcs == {"active", "rollback"} \cup CommittingPcs

(* The lock and the flags agree; an exclusive transaction that may still    *)
(* commit holds the lock, so it needs no lock in BeginCommitLogicalLog; and *)
(* exclusive_tx never names a transaction that has not begun or is over.    *)
LockInv ==
    \A t \in Txns :
        /\ pager_commit_lock_held[t] <=> pager_commit_lock = t
        /\ exclusive_tx = t =>
             /\ pc[t] \notin {"idle", "acquire_exclusive", "read_only_unlock", "rb_undo", "done"}
             /\ pc[t] \in HoldingPcs => pager_commit_lock = t
        /\ WritingLog(t) => pager_commit_lock = t

(* A step that moves t and leaves the locks alone.                          *)
LEMMA LockKept ==
    ASSUME StoreTypeOK, LockInv, NEW t \in Txns, NEW to, UNCHANGED lockVars,
           pc' = [pc EXCEPT ![t] = to],
           to \in {"sync", "commit_end"} => pc[t] \in {"sync", "commit_end"},
           exclusive_tx = t =>
             /\ to \notin {"idle", "acquire_exclusive", "read_only_unlock", "rb_undo", "done"}
             /\ to \in HoldingPcs => pc[t] \in HoldingPcs
    PROVE  LockInv'
  BY DEF LockInv, lockVars, WritingLog, StoreTypeOK

LEMMA LockUnchanged ==
    ASSUME LockInv, UNCHANGED <<lockVars, pc>>
    PROVE  LockInv'
  BY DEF LockInv, lockVars, WritingLog

LEMMA LockBegin ==
    ASSUME StoreTypeOK, LockInv, NEW t \in Txns, Begin(t)
    PROVE  LockInv'
  <1> USE DEF HoldingPcs, CommittingPcs
  <1>1. exclusive_tx = t => pc[t] \notin {"idle", "acquire_exclusive"}
    BY DEF LockInv
  <1>2. CASE begin_tx(t)
    BY <1>1, <1>2, LockKept DEF begin_tx, Goto
  <1>3. CASE begin_exclusive_tx(t)
    BY <1>1, <1>3, LockKept DEF begin_exclusive_tx, Goto
  <1>4. CASE upgrade_to_exclusive(t)
    BY <1>4, LockKept DEF upgrade_to_exclusive, Goto
  <1>5. CASE acquire_exclusive_tx(t)
    <2>1. CASE exclusive_tx = NoTx
      BY <1>5, <2>1, MvStoreAssumption
         DEF acquire_exclusive_tx, Goto, LockInv, WritingLog, StoreTypeOK
    <2>2. CASE exclusive_tx # NoTx
      <3>1. UNCHANGED lockVars
        BY <1>5, <2>2 DEF acquire_exclusive_tx, lockVars
      <3>2. exclusive_tx # t /\ pc' = [pc EXCEPT ![t] = Refused(t)]
            /\ Refused(t) \notin {"sync", "commit_end"}
        BY <1>1, <1>5, <2>2 DEF acquire_exclusive_tx, Goto, Refused
      <3> QED  BY <3>1, <3>2, LockKept
    <2> QED  BY <2>1, <2>2
  <1>6. CASE acquire_pager_commit_lock(t)
    <2>1. CASE pager_commit_lock = NoTx
      <3>1. /\ pager_commit_lock' = t /\ exclusive_tx' = exclusive_tx
            /\ pager_commit_lock_held' = [pager_commit_lock_held EXCEPT ![t] = TRUE]
            /\ pc' = [pc EXCEPT ![t] = "active"]
        BY <1>6, <2>1 DEF acquire_pager_commit_lock, Goto
      <3>2. \A u \in Txns : ~pager_commit_lock_held[u] /\ ~WritingLog(u)
                             /\ (exclusive_tx = u => pc[u] \notin HoldingPcs)
        BY <2>1, MvStoreAssumption DEF LockInv
      <3> QED  BY <3>1, <3>2 DEF LockInv, WritingLog, StoreTypeOK
    <2>2. CASE pager_commit_lock # NoTx
      <3>1. /\ UNCHANGED <<pager_commit_lock, pager_commit_lock_held>> /\ exclusive_tx' = NoTx
            /\ pc' = [pc EXCEPT ![t] = Refused(t)]
        BY <1>6, <2>2 DEF acquire_pager_commit_lock, Goto
      <3>2. Refused(t) \notin {"sync", "commit_end"}
        BY DEF Refused
      <3> QED  BY <3>1, <3>2, MvStoreAssumption DEF LockInv, WritingLog, StoreTypeOK
    <2> QED  BY <2>1, <2>2
  <1> QED  BY <1>2, <1>3, <1>4, <1>5, <1>6 DEF Begin

(* Giving exclusivity back, by a transaction that is past log_tx.           *)
LEMMA LockReleaseExclusive ==
    ASSUME StoreTypeOK, LockInv, NEW t \in Txns, NEW to, release_exclusive_tx(t),
           UNCHANGED <<pager_commit_lock, pager_commit_lock_held>>,
           pc' = [pc EXCEPT ![t] = to], to \notin {"sync", "commit_end"}
    PROVE  LockInv'
  BY MvStoreAssumption DEF release_exclusive_tx, LockInv, WritingLog, StoreTypeOK

(* Giving the commit lock back, when the frame is owned or abandoned.       *)
LEMMA LockUnlock ==
    ASSUME StoreTypeOK, LockInv, NEW t \in Txns, NEW to, unlock_commit_lock_if_held(t),
           UNCHANGED exclusive_tx, pc' = [pc EXCEPT ![t] = to],
           to \in {"publish", "remove", "rb_notify"}
    PROVE  LockInv'
  <1>1. CASE pager_commit_lock_held[t]
    <2>1. pager_commit_lock = t /\ pager_commit_lock' = NoTx
          /\ \A u \in Txns \ {t} : ~pager_commit_lock_held[u] /\ ~WritingLog(u)
                                     /\ (exclusive_tx = u => pc[u] \notin HoldingPcs)
      BY <1>1, MvStoreAssumption DEF LockInv, unlock_commit_lock_if_held
    <2>2. /\ ~pager_commit_lock_held'[t]
          /\ \A u \in Txns \ {t} : pager_commit_lock_held'[u] = pager_commit_lock_held[u]
      BY DEF unlock_commit_lock_if_held, StoreTypeOK
    <2>3. pc'[t] = to /\ \A u \in Txns \ {t} : pc'[u] = pc[u]
      BY DEF StoreTypeOK
    <2> QED
      BY <2>1, <2>2, <2>3, MvStoreAssumption
         DEF LockInv, WritingLog, HoldingPcs, CommittingPcs
  <1>2. CASE ~pager_commit_lock_held[t]
    BY <1>2 DEF unlock_commit_lock_if_held, LockInv, WritingLog, StoreTypeOK, HoldingPcs,
                CommittingPcs
  <1> QED  BY <1>1, <1>2

LEMMA LockStep ==
    ASSUME StoreTypeOK, LockInv, [Next]_vars
    PROVE  LockInv'
  <1> USE DEF HoldingPcs, CommittingPcs
  <1>1. CASE UNCHANGED vars
    BY <1>1, LockUnchanged DEF vars
  <1>2. ASSUME NEW t \in Txns, Begin(t)  PROVE LockInv'
    BY <1>2, LockBegin
  <1>3. ASSUME NEW t \in Txns, Statement(t)  PROVE LockInv'
    <2>1. UNCHANGED lockVars
      BY <1>3 DEF Statement, StatementFrame, with_header_mut, read_visible, read_btree,
                  write_conflict, update, insert, delete, insert_tombstone
    <2>2. UNCHANGED pc \/ (pc[t] = "active" /\ pc' = [pc EXCEPT ![t] = "rollback"])
      BY <1>3 DEF Statement, with_header_mut, read_visible, read_btree, write_conflict,
                  update, insert, delete, insert_tombstone, Goto
    <2> QED  BY <2>1, <2>2, LockUnchanged, LockKept
  <1>4. ASSUME NEW t \in Txns, commit_initial(t)  PROVE LockInv'
    <2>1. PICK to \in {"rollback", "wait", "commit"} :
            pc[t] = "active" /\ pc' = [pc EXCEPT ![t] = to]
      BY <1>4 DEF commit_initial, Goto
    <2>2. UNCHANGED lockVars
      BY <1>4 DEF commit_initial
    <2> QED  BY <2>1, <2>2, LockKept
  <1>5. ASSUME NEW t \in Txns, Commit(t)  PROVE LockInv'
    <2>1. CASE commit_check_exclusive(t)
      <3>1. PICK to \in {"rollback", "validate"} :
              pc[t] = "commit" /\ pc' = [pc EXCEPT ![t] = to]
        BY <2>1 DEF commit_check_exclusive, Goto
      <3> QED  BY <2>1, <3>1, LockKept DEF commit_check_exclusive
    <2>2. CASE commit_validate_none(t)
      BY <2>2, LockKept DEF commit_validate_none, Goto
    <2>3. CASE wait_for_dependencies(t)
      <3>1. PICK to \in {"rollback", "wait_recheck"} :
              pc[t] = "wait" /\ pc' = [pc EXCEPT ![t] = to]
        BY <2>3 DEF wait_for_dependencies, Goto
      <3> QED  BY <2>3, <3>1, LockKept DEF wait_for_dependencies
    <2>4. CASE wait_recheck_abort_now(t)
      <3>1. PICK to \in {"rollback", "read_only", "build"} :
              pc[t] = "wait_recheck" /\ pc' = [pc EXCEPT ![t] = to]
        BY <2>4 DEF wait_recheck_abort_now, Goto
      <3> QED  BY <2>4, <3>1, LockKept DEF wait_recheck_abort_now
    <2>5. CASE commit_read_only(t)
      <3>1. PICK to \in {"read_only_unlock", "remove"} : pc' = [pc EXCEPT ![t] = to]
        BY <2>5 DEF commit_read_only, Goto
      <3> QED  BY <2>5, <3>1, LockReleaseExclusive DEF commit_read_only
    <2>6. CASE begin_commit_logical_log(t)
      <3>1. pc[t] = "build" /\ pc' = [pc EXCEPT ![t] = "sync"] /\ UNCHANGED exclusive_tx
        BY <2>6 DEF begin_commit_logical_log, Goto
      <3>2. CASE exclusive_tx = t
        <4>1. pager_commit_lock = t /\ UNCHANGED <<pager_commit_lock, pager_commit_lock_held>>
          BY <2>6, <3>1, <3>2 DEF begin_commit_logical_log, LockInv
        <4> QED  BY <3>1, <4>1 DEF LockInv, WritingLog, StoreTypeOK
      <3>3. CASE exclusive_tx # t
        <4>1. /\ pager_commit_lock = NoTx /\ pager_commit_lock' = t
              /\ pager_commit_lock_held' = [pager_commit_lock_held EXCEPT ![t] = TRUE]
          BY <2>6, <3>3 DEF begin_commit_logical_log
        <4>2. \A u \in Txns : ~pager_commit_lock_held[u] /\ ~WritingLog(u)
                               /\ (exclusive_tx = u => pc[u] \notin HoldingPcs)
          BY <4>1, MvStoreAssumption DEF LockInv
        <4> QED  BY <3>1, <3>3, <4>1, <4>2 DEF LockInv, WritingLog, StoreTypeOK
      <3> QED  BY <3>2, <3>3
    <2>7. CASE sync_logical_log(t)
      BY <2>7, LockKept DEF sync_logical_log, Goto
    <2>8. CASE commit_end(t)
      BY <2>8, LockKept DEF commit_end, Goto
    <2>9. CASE commit_take_dependents(t)
      BY <2>9, LockKept DEF commit_take_dependents, Goto
    <2>10. CASE commit_unlock(t)
      <3>1. PICK to \in {"publish", "remove"} : pc' = [pc EXCEPT ![t] = to]
        BY <2>10 DEF commit_unlock, Goto
      <3> QED  BY <2>10, <3>1, LockUnlock DEF commit_unlock
    <2>11. CASE commit_publish(t)
      BY <2>11, LockKept DEF commit_publish, Goto
    <2>12. CASE commit_remove(t)
      <3>1. PICK to \in {"release_exclusive", "done"} :
              pc' = [pc EXCEPT ![t] = to] /\ (to = "done" => exclusive_tx # t)
        BY <2>12 DEF commit_remove, Goto
      <3> QED  BY <2>12, <3>1, LockKept DEF commit_remove
    <2>13. CASE commit_release_exclusive(t)
      <3>1. PICK to \in {"done"} : pc' = [pc EXCEPT ![t] = to] /\ release_exclusive_tx(t)
            /\ UNCHANGED <<pager_commit_lock, pager_commit_lock_held>>
        BY <2>13 DEF commit_release_exclusive, Goto
      <3> QED  BY <3>1, LockReleaseExclusive
    <2>14. ASSUME NEW r \in Rows, commit_validate(t, r)  PROVE LockInv'
      <3>1. PICK to \in {"rollback", "wait", "validate"} :
              pc[t] = "validate" /\ pc' = [pc EXCEPT ![t] = to]
        BY <2>14 DEF commit_validate, Goto
      <3> QED  BY <2>14, <3>1, LockKept DEF commit_validate
    <2>15. ASSUME NEW r \in Rows, build_committed_log_record(t, r) \/ rewrite_live_versions(t, r)
           PROVE  LockInv'
      BY <2>15, LockUnchanged DEF build_committed_log_record, rewrite_live_versions
    <2>16. ASSUME NEW d \in Txns, commit_notify(t, d)  PROVE LockInv'
      BY <2>16, LockUnchanged DEF commit_notify
    <2> QED
      BY <1>5, <2>1, <2>2, <2>3, <2>4, <2>5, <2>6, <2>7, <2>8, <2>9, <2>10, <2>11, <2>12,
         <2>13, <2>14, <2>15, <2>16 DEF Commit
  <1>6. ASSUME NEW t \in Txns, rollback_tx(t)  PROVE LockInv'
    BY <1>6, LockKept DEF rollback_tx, Goto
  <1>7. ASSUME NEW t \in Txns, Rollback(t)  PROVE LockInv'
    <2>1. CASE rollback_take_dependents(t)
      BY <2>1, LockUnlock DEF rollback_take_dependents, Goto
    <2>2. CASE rollback_release_dependent(t)
      BY <2>2, LockUnchanged DEF rollback_release_dependent
    <2>3. CASE rollback_release_exclusive(t)
      <3>1. PICK to \in {"rb_undo"} : pc' = [pc EXCEPT ![t] = to] /\ release_exclusive_tx(t)
            /\ UNCHANGED <<pager_commit_lock, pager_commit_lock_held>>
        BY <2>3 DEF rollback_release_exclusive, Goto
      <3> QED  BY <3>1, LockReleaseExclusive
    <2>4. CASE rollback_terminate(t)
      <3>1. exclusive_tx # t /\ pc' = [pc EXCEPT ![t] = "done"]
        BY <2>4 DEF rollback_terminate, Goto, LockInv
      <3> QED  BY <2>4, <3>1, LockKept DEF rollback_terminate
    <2>5. ASSUME NEW r \in Rows, rollback_rowid(t, r)  PROVE LockInv'
      BY <2>5, LockUnchanged DEF rollback_rowid
    <2>6. ASSUME NEW d \in Txns, rollback_abort_dependent(t, d)  PROVE LockInv'
      BY <2>6, LockUnchanged DEF rollback_abort_dependent
    <2> QED  BY <1>7, <2>1, <2>2, <2>3, <2>4, <2>5, <2>6 DEF Rollback
  <1>8. ASSUME NEW t \in Txns, abandon(t)  PROVE LockInv'
    BY <1>8, LockKept DEF abandon
  <1> QED
    BY <1>1, <1>2, <1>3, <1>4, <1>5, <1>6, <1>7, <1>8 DEF Next, Finished

-----------------------------------------------------------------------------
(* The logical log.                                                         *)

FramesOf(t) == {i \in 1 .. log_offset : log[i].tx = t}

(* What LogWriterAlone and OwnedFramesAreCommitted need to be inductive: the *)
(* frame being written carries the writer's end_ts, and only a read-only    *)
(* transaction commits without a frame.                                     *)
LogInv ==
    /\ \E S : log \in Seq(S)
    /\ log_offset <= Len(log)
    /\ \A t \in Txns : WritingLog(t) =>
          /\ Len(log) = log_offset + 1
          /\ log[Len(log)].tx = t /\ log[Len(log)].ts = end_ts[t]
    /\ \A i \in 1 .. log_offset : log[i].tx \in Committed /\ log[i].ts = end_ts[log[i].tx]
    /\ \A t \in Committed : ~is_read_only(t) => Cardinality(FramesOf(t)) = 1
    /\ \A t \in Txns : pc[t] = "read_only" => is_read_only(t)

(* A step that moves only t, writes no frame and commits nobody.            *)
LogQuiet(t) ==
    /\ UNCHANGED <<log, log_offset>>
    /\ \A u \in Txns \ {t} :
         /\ pc'[u] = pc[u] /\ state'[u] = state[u] /\ end_ts'[u] = end_ts[u]
         /\ write_set'[u] = write_set[u] /\ header_dirty'[u] = header_dirty[u]
    /\ state'[t] = "Committed" <=> state[t] = "Committed"
    /\ state[t] = "Committed" =>
         /\ end_ts'[t] = end_ts[t]
         /\ write_set'[t] = write_set[t] /\ header_dirty'[t] = header_dirty[t]
    /\ WritingLog(t)' => WritingLog(t) /\ end_ts'[t] = end_ts[t]
    /\ pc'[t] = "read_only" => is_read_only(t)'

LEMMA LogKept ==
    ASSUME StoreTypeOK, LogInv, NEW t \in Txns, LogQuiet(t)
    PROVE  LogInv'
  <1>1. Committed' = Committed
    BY DEF LogQuiet, Committed
  <1>2. \A u \in Committed : end_ts'[u] = end_ts[u] /\ (is_read_only(u)' <=> is_read_only(u))
    BY DEF LogQuiet, Committed, is_read_only
  <1>3. \A u \in Txns : WritingLog(u)' => WritingLog(u) /\ end_ts'[u] = end_ts[u]
    BY DEF LogQuiet, WritingLog
  <1>4. \A u \in Txns : pc'[u] = "read_only" => is_read_only(u)'
    BY DEF LogQuiet, LogInv, is_read_only
  <1>5. \A u \in Txns : FramesOf(u)' = FramesOf(u)
    BY DEF LogQuiet, FramesOf
  <1>6. Committed \subseteq Txns
    BY DEF Committed
  <1> QED  BY <1>1, <1>2, <1>3, <1>4, <1>5, <1>6 DEF LogInv, LogQuiet

(* log_tx writes behind the owned frames.                                   *)
LEMMA AppendBehindOwned ==
    ASSUME NEW S, NEW s \in Seq(S), NEW n \in Nat, n <= Len(s), NEW e
    PROVE  LET z == Append(SubSeq(s, 1, n), e) IN
           /\ z \in Seq(S \cup {e})
           /\ Len(z) = n + 1 /\ z[n + 1] = e
           /\ \A i \in 1 .. n : z[i] = s[i]
  <1> DEFINE p == SubSeq(s, 1, n)
  <1>1. p \in Seq(S \cup {e}) /\ Len(p) = n /\ \A i \in 1 .. n : p[i] = s[i]
    <2>1. s \in Seq(S \cup {e})
      OBVIOUS
    <2> QED  BY <2>1
  <1> HIDE DEF p
  <1>2. Append(p, e) \in Seq(S \cup {e}) /\ Len(Append(p, e)) = n + 1
        /\ Append(p, e)[n + 1] = e /\ \A i \in 1 .. n : Append(p, e)[i] = s[i]
    BY <1>1
  <1> QED  BY <1>2 DEF p

LEMMA LogAppend ==
    ASSUME StoreTypeOK, PcMatchesState, LockInv, LockInv', LogInv, NEW t \in Txns,
           begin_commit_logical_log(t)
    PROVE  LogInv'
  <1>1. /\ pc[t] = "build" /\ pc' = [pc EXCEPT ![t] = "sync"] /\ log_tx(t)
        /\ UNCHANGED <<state, end_ts, write_set, header_dirty, log_offset>>
    BY DEF begin_commit_logical_log, Goto, storeVars, opVars, headerVars
  <1> DEFINE frame == [tx |-> t, ts |-> end_ts[t],
                       ops |-> MapChain(log_record[t], serialize_op_entry),
                       header |-> IF header_dirty[t] THEN header[t] ELSE {}]
  <1>2. log' = Append(SubSeq(log, 1, log_offset), frame)
    BY <1>1 DEF log_tx
  <1>3. frame.tx = t /\ frame.ts = end_ts[t]
    OBVIOUS
  <1> HIDE DEF frame
  <1>4. PICK S : log \in Seq(S)
    BY DEF LogInv
  <1>5. /\ log' \in Seq(S \cup {frame}) /\ Len(log') = log_offset + 1
        /\ log'[log_offset + 1] = frame /\ \A i \in 1 .. log_offset : log'[i] = log[i]
    <2>1. log_offset \in 0 .. Len(log)
      BY DEF LogInv, StoreTypeOK
    <2> QED  BY <1>2, <1>4, <2>1, AppendBehindOwned
  <1>6. \A u \in Txns : WritingLog(u)' => u = t
    <2>1. WritingLog(t)'
      BY <1>1 DEF WritingLog, StoreTypeOK
    <2> QED  BY <2>1 DEF LockInv
  <1>7. /\ \A u \in Txns : pc'[u] = "read_only" => is_read_only(u)'
        /\ Committed' = Committed /\ Committed \subseteq Txns
        /\ \A u \in Txns : is_read_only(u)' <=> is_read_only(u)
    BY <1>1 DEF LogInv, is_read_only, Committed, StoreTypeOK
  <1>8. \A u \in Txns : FramesOf(u)' = FramesOf(u)
    BY <1>1, <1>5 DEF FramesOf
  <1>9. log_offset' <= Len(log') /\ \E T : log' \in Seq(T)
    BY <1>1, <1>5 DEF StoreTypeOK
  <1> QED  BY <1>1, <1>3, <1>5, <1>6, <1>7, <1>8, <1>9 DEF LogInv

LEMMA LogCommitEnd ==
    ASSUME StoreTypeOK, PcMatchesState, LockInv', LockInv, LogInv, NEW t \in Txns, commit_end(t)
    PROVE  LogInv'
  <1>1. /\ pc[t] = "commit_end" /\ pc' = [pc EXCEPT ![t] = "rewrite"]
        /\ state' = [state EXCEPT ![t] = "Committed"] /\ log_offset' = log_offset + 1
        /\ UNCHANGED <<end_ts, write_set, header_dirty, log>>
    BY DEF commit_end, Goto, storeVars, opVars, headerVars
  <1>2. WritingLog(t) /\ t \notin Committed
    BY <1>1 DEF WritingLog, Committed, PcMatchesState, CommittingPcs
  <1>3. Len(log) = log_offset + 1 /\ log[log_offset + 1].tx = t
        /\ log[log_offset + 1].ts = end_ts[t]
    BY <1>2 DEF LogInv
  <1>4. Committed' = Committed \cup {t} /\ Committed \subseteq Txns
    BY <1>1 DEF Committed, StoreTypeOK
  <1>5. \A u \in Txns : ~WritingLog(u)'
    <2>1. \A u \in Txns : WritingLog(u) => u = t
      BY <1>2 DEF LockInv
    <2> QED  BY <1>1, <2>1 DEF WritingLog, StoreTypeOK
  <1>6. /\ \A u \in Txns : is_read_only(u)' <=> is_read_only(u)
        /\ \A u \in Txns : pc'[u] = "read_only" => is_read_only(u)'
    BY <1>1 DEF LogInv, is_read_only, StoreTypeOK
  <1>7. log_offset \in Nat /\ 1 .. log_offset' = (1 .. log_offset) \cup {log_offset + 1}
    BY <1>1 DEF StoreTypeOK
  <1>8. \A i \in 1 .. log_offset' : log[i].tx \in Committed' /\ log[i].ts = end_ts[log[i].tx]
    BY <1>3, <1>4, <1>7 DEF LogInv
  <1>9. ASSUME NEW u \in Committed', ~is_read_only(u)'
        PROVE  Cardinality(FramesOf(u)') = 1
    <2>1. CASE u = t
      <3>1. FramesOf(u)' = {log_offset + 1}
        BY <1>1, <1>2, <1>3, <1>7, <2>1 DEF FramesOf, LogInv
      <3> QED  BY <3>1, FS_Singleton
    <2>2. CASE u # t
      <3>1. FramesOf(u)' = FramesOf(u)
        BY <1>1, <1>3, <1>7, <2>2 DEF FramesOf
      <3> QED  BY <1>4, <1>6, <1>9, <2>2, <3>1 DEF LogInv
    <2> QED  BY <2>1, <2>2
  <1>10. log_offset' <= Len(log') /\ \E T : log' \in Seq(T)
    BY <1>1, <1>3, <1>7 DEF LogInv
  <1> QED  BY <1>1, <1>5, <1>6, <1>8, <1>9, <1>10 DEF LogInv

LEMMA LogReadOnly ==
    ASSUME StoreTypeOK, LogInv, NEW t \in Txns, commit_read_only(t)
    PROVE  LogInv'
  <1>1. PICK to \in {"read_only_unlock", "remove"} :
          pc[t] = "read_only" /\ pc' = [pc EXCEPT ![t] = to]
    BY DEF commit_read_only, Goto
  <1>2. /\ state' = [state EXCEPT ![t] = "Committed"]
        /\ UNCHANGED <<end_ts, write_set, header_dirty, log, log_offset>>
    BY DEF commit_read_only, opVars, headerVars, logVars
  <1>3. is_read_only(t) /\ \A u \in Txns : is_read_only(u)' <=> is_read_only(u)
    BY <1>1, <1>2 DEF LogInv, is_read_only
  <1>4. Committed' = Committed \cup {t} /\ Committed \subseteq Txns
    BY <1>2 DEF Committed, StoreTypeOK
  <1>5. \A u \in Txns : /\ FramesOf(u)' = FramesOf(u)
                         /\ (WritingLog(u)' => WritingLog(u))
                         /\ (pc'[u] = "read_only" => is_read_only(u)')
    BY <1>1, <1>2, <1>3 DEF FramesOf, WritingLog, LogInv, StoreTypeOK
  <1> QED  BY <1>2, <1>3, <1>4, <1>5 DEF LogInv

(* Every other step is quiet.                                               *)
LEMMA BeginLogQuiet ==
    ASSUME StoreTypeOK, PcMatchesState, NEW t \in Txns, Begin(t)
    PROVE  LogQuiet(t)
  <1> USE DEF storeVars, lockVars, depVars, logVars, markVars, headerVars, opVars, Goto,
              LogQuiet, WritingLog, StoreTypeOK
  <1>1. pc[t] \in {"idle", "active", "acquire_exclusive", "acquire_commit_lock"} =>
          state[t] # "Committed"
    BY DEF PcMatchesState
  <1>2. CASE begin_tx(t)              BY <1>1, <1>2 DEF begin_tx
  <1>3. CASE begin_exclusive_tx(t)    BY <1>1, <1>3 DEF begin_exclusive_tx
  <1>4. CASE upgrade_to_exclusive(t)  BY <1>1, <1>4 DEF upgrade_to_exclusive
  <1>5. CASE acquire_exclusive_tx(t)  BY <1>1, <1>5 DEF acquire_exclusive_tx, Refused
  <1>6. CASE acquire_pager_commit_lock(t)
    BY <1>1, <1>6 DEF acquire_pager_commit_lock, Refused
  <1> QED  BY <1>2, <1>3, <1>4, <1>5, <1>6 DEF Begin

LEMMA StatementLogQuiet ==
    ASSUME StoreTypeOK, PcMatchesState, NEW t \in Txns, Statement(t)
    PROVE  LogQuiet(t)
  <1> USE DEF storeVars, lockVars, depVars, logVars, markVars, headerVars, opVars,
              StatementFrame
  <1>1. /\ UNCHANGED <<log, log_offset, state, end_ts>>
        /\ pc[t] = "active" /\ (pc' = pc \/ pc' = [pc EXCEPT ![t] = "rollback"])
    BY DEF Statement, with_header_mut, read_visible, read_btree, write_conflict, update,
           insert, delete, insert_tombstone, Goto, CanWrite, CanRead
  <1>2. \A u \in Txns \ {t} : write_set'[u] = write_set[u]
    BY DEF Statement, with_header_mut, read_visible, read_btree, write_conflict, update,
           insert, delete, insert_tombstone, WriteSetAdd, StoreTypeOK
  <1>3. \A u \in Txns \ {t} : header_dirty'[u] = header_dirty[u]
    BY DEF Statement, with_header_mut, read_visible, read_btree, write_conflict, update,
           insert, delete, insert_tombstone, StoreTypeOK
  <1>4. state[t] = "Active"
    BY <1>1 DEF PcMatchesState
  <1> QED  BY <1>1, <1>2, <1>3, <1>4 DEF LogQuiet, WritingLog, StoreTypeOK

LEMMA CommitLogQuiet ==
    ASSUME StoreTypeOK, PcMatchesState, LogInv, NEW t \in Txns, commit_initial(t) \/ Commit(t),
           ~begin_commit_logical_log(t), ~commit_end(t), ~commit_read_only(t)
    PROVE  LogQuiet(t)
  <1> USE DEF storeVars, lockVars, depVars, logVars, markVars, headerVars, opVars, Goto,
              CommitFrame, WritingLog
  <1>1. /\ pc \in [Txns -> ProgramCounter] /\ state \in [Txns -> TransactionState]
        /\ end_ts \in [Txns -> Nat] /\ write_set \in [Txns -> SUBSET Rows]
        /\ header_dirty \in [Txns -> BOOLEAN]
    BY DEF StoreTypeOK
  <1>2. CASE commit_initial(t)
    <2>1. state[t] = "Active" /\ pc[t] = "active"
      BY <1>2 DEF commit_initial, PcMatchesState
    <2> QED  BY <1>1, <1>2, <2>1 DEF commit_initial, LogQuiet
  <1>3. CASE commit_check_exclusive(t)
    BY <1>1, <1>3 DEF commit_check_exclusive, LogQuiet
  <1>4. CASE commit_validate_none(t)
    BY <1>1, <1>4 DEF commit_validate_none, LogQuiet
  <1>5. CASE wait_for_dependencies(t)
    BY <1>1, <1>5 DEF wait_for_dependencies, LogQuiet
  <1>6. CASE wait_recheck_abort_now(t)
    BY <1>1, <1>6 DEF wait_recheck_abort_now, LogQuiet, is_read_only
  <1>7. CASE sync_logical_log(t)
    BY <1>1, <1>7 DEF sync_logical_log, LogQuiet
  <1>8. CASE commit_take_dependents(t)
    BY <1>1, <1>8 DEF commit_take_dependents, LogQuiet
  <1>9. CASE commit_unlock(t)
    BY <1>1, <1>9 DEF commit_unlock, LogQuiet
  <1>10. CASE commit_publish(t)
    BY <1>1, <1>10 DEF commit_publish, LogQuiet
  <1>11. CASE commit_remove(t)
    BY <1>1, <1>11 DEF commit_remove, LogQuiet, remove_tx
  <1>12. CASE commit_release_exclusive(t)
    BY <1>1, <1>12 DEF commit_release_exclusive, LogQuiet
  <1>13. ASSUME NEW r \in Rows, commit_validate(t, r)  PROVE LogQuiet(t)
    BY <1>1, <1>13 DEF commit_validate, LogQuiet
  <1>14. ASSUME NEW r \in Rows, build_committed_log_record(t, r)  PROVE LogQuiet(t)
    BY <1>1, <1>14 DEF build_committed_log_record, LogQuiet, LogInv, is_read_only
  <1>15. ASSUME NEW r \in Rows, rewrite_live_versions(t, r)  PROVE LogQuiet(t)
    BY <1>1, <1>15 DEF rewrite_live_versions, LogQuiet, LogInv, is_read_only
  <1>16. ASSUME NEW d \in Txns, commit_notify(t, d)  PROVE LogQuiet(t)
    BY <1>1, <1>16 DEF commit_notify, LogQuiet
  <1> QED
    BY <1>2, <1>3, <1>4, <1>5, <1>6, <1>7, <1>8, <1>9, <1>10, <1>11, <1>12, <1>13, <1>14, <1>15, <1>16 DEF Commit

LEMMA RollbackLogQuiet ==
    ASSUME StoreTypeOK, PcMatchesState, NEW t \in Txns,
           abandon(t) \/ rollback_tx(t) \/ Rollback(t)
    PROVE  LogQuiet(t)
  <1> USE DEF storeVars, lockVars, depVars, logVars, markVars, headerVars, opVars, Goto,
              WritingLog
  <1>1. /\ pc \in [Txns -> ProgramCounter] /\ state \in [Txns -> TransactionState]
        /\ end_ts \in [Txns -> Nat] /\ write_set \in [Txns -> SUBSET Rows]
        /\ header_dirty \in [Txns -> BOOLEAN]
    BY DEF StoreTypeOK
  <1>2. CASE rollback_tx(t)
    <2>1. state[t] # "Committed"
      BY <1>2 DEF rollback_tx, is_tx_rollbackable
    <2> QED  BY <1>1, <1>2, <2>1 DEF rollback_tx, LogQuiet
  <1>3. CASE rollback_take_dependents(t)
    BY <1>1, <1>3 DEF rollback_take_dependents, LogQuiet
  <1>4. CASE rollback_release_dependent(t)
    BY <1>1, <1>4 DEF rollback_release_dependent, LogQuiet
  <1>5. CASE rollback_release_exclusive(t)
    BY <1>1, <1>5 DEF rollback_release_exclusive, LogQuiet
  <1>6. CASE rollback_terminate(t)
    <2>1. state[t] # "Committed"
      BY <1>6 DEF rollback_terminate, PcMatchesState, RollbackPcs
    <2> QED  BY <1>1, <1>6, <2>1 DEF rollback_terminate, LogQuiet
  <1>7. ASSUME NEW r \in Rows, rollback_rowid(t, r)  PROVE LogQuiet(t)
    BY <1>1, <1>7 DEF rollback_rowid, LogQuiet
  <1>8. ASSUME NEW d \in Txns, rollback_abort_dependent(t, d)  PROVE LogQuiet(t)
    BY <1>1, <1>8 DEF rollback_abort_dependent, LogQuiet
  <1>9. CASE abandon(t)
    BY <1>1, <1>9 DEF abandon, LogQuiet
  <1> QED  BY <1>2, <1>3, <1>4, <1>5, <1>6, <1>7, <1>8, <1>9 DEF Rollback

CommitLogInv == DependencyInv /\ LockInv /\ LogInv

LEMMA CommitLogInit == Init => CommitLogInv
  <1> SUFFICES ASSUME Init PROVE CommitLogInv
    OBVIOUS
  <1>1. DependencyInv
    BY DependencyInit
  <1>2. LockInv
    BY MvStoreAssumption DEF Init, LockInv, WritingLog
  <1>3. LogInv
    <2>1. Committed = {} /\ \A t \in Txns : ~WritingLog(t) /\ pc[t] # "read_only"
      BY DEF Init, Committed, WritingLog
    <2>2. log \in Seq({}) /\ Len(log) = 0 /\ log_offset = 0
      BY DEF Init
    <2> QED  BY <2>1, <2>2 DEF LogInv
  <1> QED  BY <1>1, <1>2, <1>3 DEF CommitLogInv

LEMMA CommitLogStep ==
    ASSUME CommitLogInv, [Next]_vars
    PROVE  CommitLogInv'
  <1> USE DEF CommitLogInv
  <1>1. DependencyInv' /\ LockInv'
    BY DependencyStep, LockStep DEF DependencyInv
  <1>2. StoreTypeOK /\ PcMatchesState
    BY DEF DependencyInv
  <1>3. CASE UNCHANGED vars
    <2>1. UNCHANGED <<log, log_offset, pc, state, end_ts, write_set, header_dirty>>
      BY <1>3 DEF vars, storeVars, logVars, opVars, headerVars
    <2>2. LogInv'
      BY <2>1 DEF LogInv, WritingLog, Committed, is_read_only, FramesOf
    <2> QED  BY <1>1, <2>2
  <1>4. ASSUME NEW t \in Txns,
               \/ Begin(t) \/ Statement(t) \/ commit_initial(t) \/ Commit(t)
               \/ abandon(t) \/ rollback_tx(t) \/ Rollback(t)
        PROVE  LogInv'
    <2>1. CASE begin_commit_logical_log(t)
      BY <1>1, <1>2, <2>1, LogAppend
    <2>2. CASE commit_end(t)
      BY <1>1, <1>2, <2>2, LogCommitEnd
    <2>3. CASE commit_read_only(t)
      BY <1>2, <2>3, LogReadOnly
    <2>4. CASE LogQuiet(t)
      BY <1>2, <2>4, LogKept
    <2> QED
      BY <1>2, <1>4, <2>1, <2>2, <2>3, <2>4, BeginLogQuiet, StatementLogQuiet,
         CommitLogQuiet, RollbackLogQuiet
  <1> QED  BY <1>1, <1>3, <1>4 DEF Next, Finished

(* From log_tx to advance_offset_after_success a committer is alone: it     *)
(* holds the pager commit lock and its frame is the only one not owned,     *)
(* although an exclusive transaction takes the lock at its begin and any    *)
(* commit may be abandoned at its I/O waits.                                *)
THEOREM LogWriterIsAlone == Spec => []LogWriterAlone
  <1>1. CommitLogInv => LogWriterAlone
    BY DEF CommitLogInv, LockInv, LogInv, LogWriterAlone
  <1>2. CommitLogInv /\ [Next]_vars => CommitLogInv'
    BY CommitLogStep
  <1> QED  BY CommitLogInit, <1>1, <1>2, PTL DEF Spec

(* The owned frames of the logical log are the committed writers, each      *)
(* exactly once, with their commit timestamps.                              *)
THEOREM LogHoldsTheCommitted == Spec => []OwnedFramesAreCommitted
  <1>1. CommitLogInv => OwnedFramesAreCommitted
    BY DEF CommitLogInv, LogInv, OwnedFramesAreCommitted, FramesOf
  <1>2. CommitLogInv /\ [Next]_vars => CommitLogInv'
    BY CommitLogStep
  <1> QED  BY CommitLogInit, <1>1, <1>2, PTL DEF Spec
=============================================================================
