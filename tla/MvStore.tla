------------------------------ MODULE MvStore ------------------------------
(***************************************************************************)
(* The multi-version store of core/mvcc/database/mod.rs: transactions,     *)
(* version chains, commit dependencies (the register-and-report protocol), *)
(* first-committer-wins validation, the exclusive transaction, the pager   *)
(* commit lock and the append to the logical log.                          *)
(*                                                                         *)
(* Grain.  A statement on one row is one step: it runs on an Active        *)
(* transaction, whose uncommitted versions nobody else can see, and it     *)
(* reads the chain under the chain's lock.  CommitState::step and          *)
(* rollback_tx are cut wherever another thread can see the difference:     *)
(* between the loads of abort_now and commit_dep_counter, between two rows *)
(* of a loop over the write set, between marking the state and draining    *)
(* commit_dep_set, between unlocking, publishing and removing.             *)
(*                                                                         *)
(* Left out here: savepoints, garbage collection and checkpoints (a        *)
(* behaviour is what happens between two stop-the-world checkpoints), the  *)
(* rowid allocator, and the contents of rows.                              *)
(***************************************************************************)
EXTENDS Integers, Sequences, FiniteSets, SequencesExt

CONSTANTS
    Txns,          \* transaction ids; get_tx_id never hands one out twice
    NoTx,          \* NO_EXCLUSIVE_TX, and "nobody" for the pager commit lock
    Rows,          \* row ids: the keys of rows and of index_rows
    ConflictSet,   \* ConflictSet[r]: the chains a commit that wrote r checks;
                   \* {r} for a table row, the keys that share the indexed
                   \* columns for a key of a unique index
    BtreeRows,     \* the rows the database file already holds
    Exclusive,     \* transactions opened with BEGIN; the others are CONCURRENT
    SchemaTxns,    \* transactions whose writes change the schema
    HeaderTxns,    \* transactions that may update the database header
    MaxOps,        \* bound: statements per transaction
    MaxAbandoned   \* bound: transactions rolled back by the user's will

ASSUME MvStoreAssumption ==
    /\ IsFiniteSet(Txns)
    /\ NoTx \notin Txns
    /\ ConflictSet \in [Rows -> SUBSET Rows]
    /\ \A r \in Rows : r \in ConflictSet[r]
    /\ BtreeRows \subseteq Rows
    /\ Exclusive \subseteq Txns
    /\ SchemaTxns \subseteq Exclusive    \* "DDL statements require an exclusive transaction"
    /\ HeaderTxns \subseteq Exclusive    \* "Header updates require an exclusive transaction"
    /\ MaxOps \in Nat
    /\ MaxAbandoned \in Nat

(* To share the indexed columns is mutual, and the database file is sound:  *)
(* it does not hold two such keys.                                          *)
ASSUME UniqueKeysAssumption ==
    /\ \A r, q \in Rows : q \in ConflictSet[r] => r \in ConflictSet[q]
    /\ \A r, q \in BtreeRows : q \in ConflictSet[r] => q = r

VARIABLES
    clock,            \* the next timestamp MvccClock hands out
    txs,              \* the transactions in the map MvStore.txs
    finalized,        \* finalized_tx_states: committed writers that left txs
    state,            \* TransactionState, without its timestamp
    begin_ts,
    end_ts,           \* the timestamp in Preparing(end_ts) and Committed(end_ts)
    write_set,
    pc,               \* where the thread that runs the transaction is
    todo,             \* rows its loop over the write set has still to visit
    versions,         \* the version chain of every row
    exclusive_tx,
    pager_commit_lock,        \* the transaction that holds it, or NoTx
    pager_commit_lock_held,   \* the flag of every transaction
    commit_dep_counter,
    abort_now,
    commit_dep_set,
    dependents,       \* drained from commit_dep_set, not yet notified
    informed,         \* dependent with abort_now set and counter not decremented yet
    log_record,       \* the LogRecord under construction
    log,              \* frames of the logical log
    log_offset,       \* how many of them the writer owns
    last_committed_tx_ts,
    last_committed_schema_change_ts,
    global_header,    \* a header is the set of transactions whose update it holds
    header,           \* the transaction's own copy
    header_dirty,
    ops,              \* statements run so far
    wrote,            \* history: the transaction's last write to every row
    reads             \* history: <<row, value read, own write to it before>>

storeVars == <<txs, finalized, state, begin_ts, end_ts, clock>>
lockVars == <<exclusive_tx, pager_commit_lock, pager_commit_lock_held>>
depVars == <<commit_dep_counter, abort_now, commit_dep_set, dependents, informed>>
logVars == <<log_record, log, log_offset>>
markVars == <<last_committed_tx_ts, last_committed_schema_change_ts>>
headerVars == <<global_header, header, header_dirty>>
opVars == <<write_set, ops, wrote, reads>>
vars == <<storeVars, lockVars, depVars, logVars, markVars, headerVars, opVars,
          pc, todo, versions>>

-----------------------------------------------------------------------------
(* Option<TxTimestampOrID>, row contents and row versions.                  *)

None == [kind |-> "None"]
Timestamp(ts) == [kind |-> "Timestamp", v |-> ts]
TxID(t) == [kind |-> "TxID", v |-> t]

TxTimestampOrID == [kind : {"Timestamp"}, v : Nat] \cup [kind : {"TxID"}, v : Txns]

(* The contents of a row: the statement that wrote it.  The rows of the     *)
(* database file were written by nobody; a row that is not there is Absent. *)
BtreeValue == <<NoTx, 0>>
Absent == <<NoTx, 1>>
Unwritten == <<NoTx, 2>>
Written == Txns \X (1 .. MaxOps)
Value == Written \cup {BtreeValue, Absent}

RowVersion ==
    [begin : TxTimestampOrID \cup {None}, end : TxTimestampOrID \cup {None},
     id : Rows, row : Value, btree_resident : BOOLEAN]

TransactionState ==
    {"Unborn", "Active", "Preparing", "Committed", "Aborted", "Terminated"}

(* lookup_tx_state: txs first, then the cache of finalized states.          *)
lookup_tx_state(u) ==
    IF u \in txs THEN state[u] ELSE IF u \in finalized THEN "Committed" ELSE "Gone"

-----------------------------------------------------------------------------
(* Visibility (Hekaton tables 1 and 2).                                     *)

is_begin_visible(t, rv) ==
    \/ rv.begin.kind = "Timestamp" /\ begin_ts[t] > rv.begin.v
    \/ /\ rv.begin.kind = "TxID"
       /\ LET tb == rv.begin.v IN
          \/ lookup_tx_state(tb) = "Active" /\ tb = t /\ rv.end = None
          \/ lookup_tx_state(tb) \in {"Preparing", "Committed"} /\ begin_ts[t] > end_ts[tb]

is_end_visible(t, rv) ==
    \/ rv.end = None
    \/ rv.end.kind = "Timestamp" /\ begin_ts[t] < rv.end.v
    \/ /\ rv.end.kind = "TxID"
       /\ LET te == rv.end.v IN
          \/ lookup_tx_state(te) = "Active" /\ te # t
          \/ lookup_tx_state(te) \in {"Preparing", "Committed"} /\ begin_ts[t] < end_ts[te]
          \/ lookup_tx_state(te) \in {"Aborted", "Terminated", "Gone"}

is_visible_to(t, rv) == is_begin_visible(t, rv) /\ is_end_visible(t, rv)

(* The transactions a visibility test takes a commit dependency on: a       *)
(* speculative read of the creator, a speculative ignore of the deleter     *)
(* (only looked at when the begin is visible).                              *)
(* (Mutant: the dependency is not registered.)                              *)
speculates_on_nobody(t, rv) == {}

speculates_on(t, rv) ==
    {u \in Txns :
        /\ lookup_tx_state(u) = "Preparing"
        /\ begin_ts[t] > end_ts[u]
        /\ \/ rv.begin = TxID(u)
           \/ rv.end = TxID(u) /\ is_begin_visible(t, rv)}

(* Whether a version hides the row of the database file, and the commit     *)
(* dependencies that test takes.                                            *)
is_btree_invalidating_version(t, rv) ==
    \/ is_visible_to(t, rv)
    \/ rv.end.kind = "Timestamp" /\ begin_ts[t] > rv.end.v
    \/ /\ rv.end.kind = "TxID"
       /\ LET te == rv.end.v IN
          \/ te = t
          \/ lookup_tx_state(te) \in {"Preparing", "Committed"} /\ begin_ts[t] > end_ts[te]

invalidation_speculates_on(t, rv) ==
    speculates_on(t, rv)
    \cup {u \in Txns : /\ ~is_visible_to(t, rv) /\ rv.end = TxID(u) /\ u # t
                       /\ lookup_tx_state(u) = "Preparing" /\ begin_ts[t] > end_ts[u]}

(* The chain is searched from its end for the first visible version.        *)
is_last_visible(t, chain, i) ==
    is_visible_to(t, chain[i]) /\ \A j \in (i + 1) .. Len(chain) : ~is_visible_to(t, chain[j])

no_visible_version(t, chain) == \A i \in 1 .. Len(chain) : ~is_visible_to(t, chain[i])

examined_down_to(t, chain, i) == UNION {speculates_on(t, chain[j]) : j \in i .. Len(chain)}

query_btree_version_is_valid(t, r) ==
    /\ r \in BtreeRows
    /\ \A i \in 1 .. Len(versions[r]) : ~is_btree_invalidating_version(t, versions[r][i])

(* Dependencies of a lookup that finds no visible version and then asks     *)
(* whether the row of the database file is valid: the whole chain, then the *)
(* chain again from its end down to the first invalidating version.         *)
btree_lookup_speculates_on(t, r) ==
    LET chain == versions[r] IN
    examined_down_to(t, chain, 1)
    \cup UNION {invalidation_speculates_on(t, chain[i]) :
                  i \in {i \in 1 .. Len(chain) :
                           r \in BtreeRows /\ \A j \in (i + 1) .. Len(chain) :
                                                ~is_btree_invalidating_version(t, chain[j])}}

(* V is updatable only if its end is infinity or was set by a transaction   *)
(* that aborted.                                                            *)
is_write_write_conflict(t, rv) ==
    \/ rv.end.kind = "Timestamp"
    \/ /\ rv.end.kind = "TxID" /\ rv.end.v # t
       /\ lookup_tx_state(rv.end.v) \notin {"Aborted", "Terminated"}

-----------------------------------------------------------------------------
(* Version chains.                                                          *)

resolve_begin_timestamp(ts_or_id) ==
    IF ts_or_id.kind = "Timestamp" THEN ts_or_id.v
    ELSE IF ts_or_id.kind = "TxID" THEN begin_ts[ts_or_id.v] ELSE 0

(* Insertion sort from the end of the chain.  A version of the same row     *)
(* with the same concrete begin timestamp is replaced (in a chain of one    *)
(* row that only happens to the versions of a log record).                  *)
insert_version_raw(chain, rv) ==
    LET begins_by(i) == resolve_begin_timestamp(chain[i].begin)
                          <= resolve_begin_timestamp(rv.begin)
        before(i) == \E j \in i .. Len(chain) : begins_by(j)
        replaced(i) == /\ before(i) /\ ~before(i + 1)
                       /\ chain[i].id = rv.id
                       /\ chain[i].begin.kind = "Timestamp" /\ chain[i].begin = rv.begin
    IN  IF \E i \in 1 .. Len(chain) : replaced(i)
        THEN [i \in 1 .. Len(chain) |-> IF replaced(i) THEN rv ELSE chain[i]]
        ELSE [i \in 1 .. (Len(chain) + 1) |->
                IF before(i) THEN chain[i]
                ELSE IF i = 1 \/ before(i - 1) THEN rv
                ELSE chain[i - 1]]

set_end(chain, i, t) == [chain EXCEPT ![i].end = TxID(t)]

(* rewrite_live_versions_to_timestamps, on one version.                     *)
(* (Mutant: the end of a deleted version is forgotten.)                     *)
begin_to_timestamp(t, rv) ==
    [rv EXCEPT !.begin = IF @ = TxID(t) THEN Timestamp(end_ts[t]) ELSE @]

to_timestamps(t, rv) ==
    [rv EXCEPT !.begin = IF @ = TxID(t) THEN Timestamp(end_ts[t]) ELSE @,
               !.end = IF @ = TxID(t) THEN Timestamp(end_ts[t]) ELSE @]

(* (Mutant: a deletion is undone without looking whose it is.)              *)
rollback_any_deletion(t, rv) ==
    IF rv.begin = TxID(t) THEN [rv EXCEPT !.begin = None, !.end = None]
    ELSE [rv EXCEPT !.end = None]

rollback_row_version(t, rv) ==
    IF rv.begin = TxID(t) THEN [rv EXCEPT !.begin = None, !.end = None]
    ELSE IF rv.end = TxID(t) THEN [rv EXCEPT !.end = None]
    ELSE rv

MapChain(chain, F(_)) == [i \in 1 .. Len(chain) |-> F(chain[i])]

-----------------------------------------------------------------------------
Init ==
    /\ clock = 1
    /\ txs = {}
    /\ finalized = {}
    /\ state = [t \in Txns |-> "Unborn"]
    /\ begin_ts = [t \in Txns |-> 0]
    /\ end_ts = [t \in Txns |-> 0]
    /\ write_set = [t \in Txns |-> {}]
    /\ pc = [t \in Txns |-> "idle"]
    /\ todo = [t \in Txns |-> {}]
    /\ versions = [r \in Rows |-> <<>>]
    /\ exclusive_tx = NoTx
    /\ pager_commit_lock = NoTx
    /\ pager_commit_lock_held = [t \in Txns |-> FALSE]
    /\ commit_dep_counter = [t \in Txns |-> 0]
    /\ abort_now = [t \in Txns |-> FALSE]
    /\ commit_dep_set = [t \in Txns |-> {}]
    /\ dependents = [t \in Txns |-> {}]
    /\ informed = [t \in Txns |-> NoTx]
    /\ log_record = [t \in Txns |-> <<>>]
    /\ log = <<>>
    /\ log_offset = 0
    /\ last_committed_tx_ts = 0
    /\ last_committed_schema_change_ts = 0
    /\ global_header = {}
    /\ header = [t \in Txns |-> {}]
    /\ header_dirty = [t \in Txns |-> FALSE]
    /\ ops = [t \in Txns |-> 0]
    /\ wrote = [t \in Txns |-> [r \in Rows |-> Unwritten]]
    /\ reads = [t \in Txns |-> {}]

Goto(t, from, to) == pc[t] = from /\ pc' = [pc EXCEPT ![t] = to]

-----------------------------------------------------------------------------
(* Beginning a transaction.                                                 *)

(* begin_tx: BEGIN CONCURRENT, and BEGIN until its first write.             *)
begin_tx(t) ==
    /\ Goto(t, "idle", "active")
    /\ begin_ts' = [begin_ts EXCEPT ![t] = clock]
    /\ clock' = clock + 1
    /\ txs' = txs \cup {t}
    /\ state' = [state EXCEPT ![t] = "Active"]
    /\ header' = [header EXCEPT ![t] = global_header]
    /\ UNCHANGED <<finalized, end_ts, lockVars, depVars, logVars, markVars,
                   global_header, header_dirty, opVars, todo, versions>>

(* begin_exclusive_tx without an existing transaction: the timestamp is     *)
(* taken before either lock.                                                *)
begin_exclusive_tx(t) ==
    /\ t \in Exclusive
    /\ Goto(t, "idle", "acquire_exclusive")
    /\ begin_ts' = [begin_ts EXCEPT ![t] = clock]
    /\ clock' = clock + 1
    /\ UNCHANGED <<txs, finalized, state, end_ts, lockVars, depVars, logVars,
                   markVars, headerVars, opVars, todo, versions>>

(* begin_exclusive_tx with an existing transaction: the first write of a    *)
(* BEGIN transaction.  acquire_exclusive_tx refuses it (Busy, the           *)
(* transaction goes on) when its snapshot is older than the watermark.      *)
upgrade_to_exclusive(t) ==
    /\ t \in Exclusive
    /\ exclusive_tx # t
    /\ begin_ts[t] >= last_committed_tx_ts
    /\ Goto(t, "active", "acquire_exclusive")
    /\ UNCHANGED <<storeVars, lockVars, depVars, logVars, markVars, headerVars,
                   opVars, todo, versions>>

(* Where a refused begin_exclusive_tx leaves the transaction: a new one     *)
(* never existed, an upgraded one stays Active.                             *)
Refused(t) == IF t \in txs THEN "active" ELSE "done"

(* The compare-and-exchange of acquire_exclusive_tx.                        *)
acquire_exclusive_tx(t) ==
    /\ IF exclusive_tx = NoTx
       THEN Goto(t, "acquire_exclusive", "acquire_commit_lock") /\ exclusive_tx' = t
       ELSE Goto(t, "acquire_exclusive", Refused(t)) /\ UNCHANGED exclusive_tx
    /\ UNCHANGED <<storeVars, pager_commit_lock, pager_commit_lock_held, depVars, logVars,
                   markVars, headerVars, opVars, todo, versions>>

release_exclusive_tx(t) == exclusive_tx' = IF exclusive_tx = t THEN NoTx ELSE exclusive_tx

(* The rest of begin_exclusive_tx: the pager commit lock, or Busy.          *)
acquire_pager_commit_lock(t) ==
    /\ IF pager_commit_lock = NoTx
       THEN /\ Goto(t, "acquire_commit_lock", "active")
            /\ pager_commit_lock' = t
            /\ pager_commit_lock_held' = [pager_commit_lock_held EXCEPT ![t] = TRUE]
            /\ header' = [header EXCEPT ![t] = global_header]
            /\ txs' = txs \cup {t}
            /\ state' = [state EXCEPT ![t] = "Active"]
            /\ UNCHANGED exclusive_tx
       ELSE /\ Goto(t, "acquire_commit_lock", Refused(t))
            /\ exclusive_tx' = NoTx
            /\ UNCHANGED <<pager_commit_lock, pager_commit_lock_held, header, txs, state>>
    /\ UNCHANGED <<finalized, begin_ts, end_ts, clock, depVars, logVars, markVars,
                   global_header, header_dirty, opVars, todo, versions>>

-----------------------------------------------------------------------------
(* Statements of an Active transaction.                                     *)

CanRead(t) == pc[t] = "active" /\ ops[t] < MaxOps

(* A BEGIN transaction writes once it is exclusive.                         *)
CanWrite(t) == CanRead(t) /\ (t \in Exclusive => exclusive_tx = t)

(* The increment of commit_dep_counter: one for every transaction whose     *)
(* commit_dep_set did not hold t yet.                                       *)
(* (Mutants: the counter is not incremented; a second read counts again.)   *)
count_nothing(t, us) == 0

count_every_read(t, us) == Cardinality(us)

new_dependencies(t, us) == Cardinality({u \in us : t \notin commit_dep_set[u]})

(* register_commit_dependency, on every transaction of us: each was found   *)
(* Preparing, so it takes t into its commit_dep_set (once), and t counts    *)
(* it.  One that has gone into rollback_tx since the lookup tells t to      *)
(* abort instead.                                                           *)
register_commit_dependency(t, us) ==
    \E aborted \in SUBSET {u \in us : pc[u] = "rollback"} :
        /\ commit_dep_set' = [u \in Txns |-> IF u \in us \ aborted THEN commit_dep_set[u] \cup {t}
                                                                   ELSE commit_dep_set[u]]
        /\ commit_dep_counter' =
             [commit_dep_counter EXCEPT ![t] = @ + new_dependencies(t, us \ aborted)]
        /\ abort_now' = [abort_now EXCEPT ![t] = @ \/ aborted # {}]
        /\ UNCHANGED <<dependents, informed>>

(* History: the value read, and what the transaction had itself written.    *)
RecordRead(t, r, val) == reads' = [reads EXCEPT ![t] = @ \cup {<<r, val, wrote[t][r]>>}]

NextOp(t) == ops' = [ops EXCEPT ![t] = @ + 1]

WriteSetAdd(t, r, val) ==
    /\ write_set' = [write_set EXCEPT ![t] = @ \cup {r}]
    /\ wrote' = [wrote EXCEPT ![t][r] = val]

NewRow(t) == <<t, ops[t] + 1>>

NewVersion(t, r, resident) ==
    [begin |-> TxID(t), end |-> None, id |-> r, row |-> NewRow(t),
     btree_resident |-> resident]

Tombstone(t, r) ==
    [begin |-> None, end |-> TxID(t), id |-> r, row |-> BtreeValue,
     btree_resident |-> TRUE]

StatementFrame == <<storeVars, lockVars, logVars, markVars, headerVars, todo>>

(* read_from_table_or_index, then the dual cursor's look at the B-tree.     *)
read_visible(t, r) ==
    /\ CanRead(t) /\ NextOp(t) /\ UNCHANGED pc
    /\ \E i \in 1 .. Len(versions[r]) :
         /\ is_last_visible(t, versions[r], i)
         /\ register_commit_dependency(t, examined_down_to(t, versions[r], i))
         /\ RecordRead(t, r, versions[r][i].row)
    /\ UNCHANGED <<StatementFrame, write_set, wrote, versions>>

read_btree(t, r) ==
    /\ CanRead(t) /\ NextOp(t) /\ UNCHANGED pc
    /\ no_visible_version(t, versions[r])
    /\ register_commit_dependency(t, btree_lookup_speculates_on(t, r))
    /\ RecordRead(t, r, IF query_btree_version_is_valid(t, r) THEN BtreeValue ELSE Absent)
    /\ UNCHANGED <<StatementFrame, write_set, wrote, versions>>

(* The statement finds a version that another writer has ended: it fails    *)
(* with WriteWriteConflict and the program rolls the transaction back.      *)
write_conflict(t, r) ==
    /\ CanWrite(t) /\ NextOp(t) /\ Goto(t, "active", "rollback")
    /\ \E i \in 1 .. Len(versions[r]) :
         /\ is_last_visible(t, versions[r], i)
         /\ is_write_write_conflict(t, versions[r][i])
         /\ register_commit_dependency(t, examined_down_to(t, versions[r], i))
    /\ UNCHANGED <<StatementFrame, write_set, wrote, reads, versions>>

(* update_to_table_or_index: end the visible version, insert the new one.   *)
update(t, r) ==
    /\ CanWrite(t) /\ NextOp(t) /\ UNCHANGED pc
    /\ \E i \in 1 .. Len(versions[r]) :
         /\ is_last_visible(t, versions[r], i)
         /\ ~is_write_write_conflict(t, versions[r][i])
         /\ register_commit_dependency(t, examined_down_to(t, versions[r], i))
         /\ RecordRead(t, r, versions[r][i].row)
         /\ versions' = [versions EXCEPT ![r] =
              insert_version_raw(set_end(@, i, t), NewVersion(t, r, FALSE))]
    /\ WriteSetAdd(t, r, NewRow(t))
    /\ UNCHANGED StatementFrame

(* The cursor's insert when no version is visible: an update of a row that  *)
(* only the B-tree holds is marked btree_resident.  Before a key enters a   *)
(* unique index, op_no_conflict has found no visible key with the same      *)
(* columns.                                                                 *)
key_is_free(t, q) ==
    no_visible_version(t, versions[q]) /\ ~query_btree_version_is_valid(t, q)

insert(t, r) ==
    /\ CanWrite(t) /\ NextOp(t) /\ UNCHANGED pc
    /\ no_visible_version(t, versions[r])
    /\ \A q \in ConflictSet[r] \ {r} : key_is_free(t, q)
    /\ register_commit_dependency(t, UNION {btree_lookup_speculates_on(t, q) : q \in ConflictSet[r]})
    /\ LET resident == query_btree_version_is_valid(t, r) IN
         /\ reads' = [reads EXCEPT ![t] = @
              \cup {<<r, IF resident THEN BtreeValue ELSE Absent, wrote[t][r]>>}
              \cup {<<q, Absent, wrote[t][q]>> : q \in ConflictSet[r] \ {r}}]
         /\ versions' = [versions EXCEPT ![r] =
              insert_version_raw(@, NewVersion(t, r, resident))]
    /\ WriteSetAdd(t, r, NewRow(t))
    /\ UNCHANGED StatementFrame

(* delete_from_table_or_index.                                              *)
delete(t, r) ==
    /\ CanWrite(t) /\ NextOp(t) /\ UNCHANGED pc
    /\ \E i \in 1 .. Len(versions[r]) :
         /\ is_last_visible(t, versions[r], i)
         /\ ~is_write_write_conflict(t, versions[r][i])
         /\ register_commit_dependency(t, examined_down_to(t, versions[r], i))
         /\ RecordRead(t, r, versions[r][i].row)
         /\ versions' = [versions EXCEPT ![r] = set_end(@, i, t)]
    /\ WriteSetAdd(t, r, Absent)
    /\ UNCHANGED StatementFrame

(* The cursor deletes a row that only the B-tree holds.                     *)
insert_tombstone(t, r) ==
    /\ CanWrite(t) /\ NextOp(t) /\ UNCHANGED pc
    /\ no_visible_version(t, versions[r])
    /\ query_btree_version_is_valid(t, r)
    /\ register_commit_dependency(t, btree_lookup_speculates_on(t, r))
    /\ RecordRead(t, r, BtreeValue)
    /\ versions' = [versions EXCEPT ![r] = insert_version_raw(@, Tombstone(t, r))]
    /\ WriteSetAdd(t, r, Absent)
    /\ UNCHANGED StatementFrame

(* with_header_mut: PRAGMA user_version and the like.                       *)
with_header_mut(t) ==
    /\ CanWrite(t) /\ NextOp(t) /\ t \in HeaderTxns
    /\ header' = [header EXCEPT ![t] = @ \cup {t}]
    /\ header_dirty' = [header_dirty EXCEPT ![t] = TRUE]
    /\ UNCHANGED <<storeVars, lockVars, depVars, logVars, markVars, global_header,
                   write_set, wrote, reads, pc, todo, versions>>

-----------------------------------------------------------------------------
(* CommitStateMachine::step.                                                *)

CommitFrame == <<finalized, begin_ts, opVars>>

did_commit_schema_change(t) == t \in SchemaTxns /\ write_set[t] # {}

is_read_only(t) == write_set[t] = {} /\ ~header_dirty[t]

(* Initial: a schema change committed since the transaction began fails it; *)
(* otherwise end_ts is drawn and Preparing(end_ts) published under the      *)
(* clock's lock.  A read-only transaction only has dependencies to check.   *)
commit_initial(t) ==
    /\ UNCHANGED <<txs, lockVars, depVars, logVars, markVars, headerVars, versions, CommitFrame>>
    /\ \/ /\ last_committed_schema_change_ts > begin_ts[t]
          /\ Goto(t, "active", "rollback")
          /\ UNCHANGED <<clock, end_ts, state, todo>>
       \/ /\ last_committed_schema_change_ts <= begin_ts[t]
          /\ Goto(t, "active", IF is_read_only(t) THEN "wait" ELSE "commit")
          /\ end_ts' = [end_ts EXCEPT ![t] = clock]
          /\ clock' = clock + 1
          /\ state' = [state EXCEPT ![t] = "Preparing"]
          /\ todo' = [todo EXCEPT ![t] = write_set[t]]

(* Commit: a CONCURRENT transaction fails while an exclusive one is open.   *)
commit_check_exclusive(t) ==
    /\ Goto(t, "commit", IF exclusive_tx \in {t, NoTx} THEN "validate" ELSE "rollback")
    /\ UNCHANGED <<storeVars, lockVars, depVars, logVars, markVars, headerVars, opVars,
                   todo, versions>>

(* check_version_conflicts, on one version of a chain.                      *)
(* (Mutant: versions another transaction has created are not looked at      *)
(* while it is Preparing.)                                                  *)
version_conflicts_committed(t, rv) ==
    \/ rv.end.kind = "Timestamp" /\ rv.end.v > begin_ts[t]
    \/ /\ rv.end.kind = "TxID" /\ rv.end.v # t
       /\ lookup_tx_state(rv.end.v) = "Committed" /\ end_ts[rv.end.v] > begin_ts[t]
    \/ /\ rv.begin # None /\ rv.end = None
       /\ \/ rv.begin.kind = "Timestamp"
          \/ /\ rv.begin.kind = "TxID" /\ rv.begin.v # t
             /\ lookup_tx_state(rv.begin.v) \in {"Committed", "Gone"}

version_conflicts(t, rv) ==
    \/ rv.end.kind = "Timestamp" /\ rv.end.v > begin_ts[t]
    \/ /\ rv.begin = None
       /\ rv.end.kind = "TxID" /\ rv.end.v # t
       /\ \/ state[rv.end.v] = "Committed"
          \/ state[rv.end.v] = "Preparing" /\ end_ts[rv.end.v] < end_ts[t]
    \/ /\ rv.begin # None
       /\ rv.end.kind = "TxID" /\ rv.end.v # t
       /\ lookup_tx_state(rv.end.v) = "Committed" /\ end_ts[rv.end.v] > begin_ts[t]
    \/ /\ rv.begin # None
       /\ \/ rv.end = None
          \/ rv.end.kind = "TxID" /\ rv.end.v # t /\ lookup_tx_state(rv.end.v) # "Committed"
       /\ \/ rv.begin.kind = "Timestamp"
          \/ /\ rv.begin.kind = "TxID" /\ rv.begin.v # t
             /\ \/ lookup_tx_state(rv.begin.v) \in {"Committed", "Gone"}
                \/ lookup_tx_state(rv.begin.v) = "Preparing" /\ end_ts[rv.begin.v] < end_ts[t]

(* (Mutant: a key of a unique index is checked like a table row.)           *)
check_own_chain(t, r) ==
    \E i \in 1 .. Len(versions[r]) : version_conflicts(t, versions[r][i])

check_version_conflicts(t, r) ==
    \E q \in ConflictSet[r] : \E i \in 1 .. Len(versions[q]) : version_conflicts(t, versions[q][i])

(* One iteration of the loop over the write set (check_rowid_for_conflicts, *)
(* check_index_for_conflicts).                                              *)
commit_validate(t, r) ==
    /\ r \in todo[t]
    /\ todo' = [todo EXCEPT ![t] = @ \ {r}]
    /\ Goto(t, "validate", IF check_version_conflicts(t, r) THEN "rollback"
                           ELSE IF todo[t] = {r} THEN "wait" ELSE "validate")
    /\ UNCHANGED <<storeVars, lockVars, depVars, logVars, markVars, headerVars, opVars, versions>>

(* A header-only commit has no row to validate.                             *)
commit_validate_none(t) ==
    /\ todo[t] = {}
    /\ Goto(t, "validate", "wait")
    /\ UNCHANGED <<storeVars, lockVars, depVars, logVars, markVars, headerVars, opVars,
                   todo, versions>>

(* WaitForDependencies (and the read-only path of Initial): abort_now and   *)
(* the counter are loaded; the commit yields while the counter is positive. *)
(* (The eager load of abort_now is not a step of its own: a flag set right  *)
(* after it is found by the second load.)                                   *)
(* (Mutant: the commit does not wait.)                                      *)
do_not_wait(t) ==
    /\ Goto(t, "wait", IF abort_now[t] THEN "rollback" ELSE "wait_recheck")
    /\ UNCHANGED <<storeVars, lockVars, depVars, logVars, markVars, headerVars, opVars,
                   todo, versions>>

wait_for_dependencies(t) ==
    /\ \/ abort_now[t] /\ Goto(t, "wait", "rollback")
       \/ ~abort_now[t] /\ commit_dep_counter[t] = 0 /\ Goto(t, "wait", "wait_recheck")
    /\ UNCHANGED <<storeVars, lockVars, depVars, logVars, markVars, headerVars, opVars,
                   todo, versions>>

(* The load of abort_now after the counter was seen at zero.                *)
wait_recheck_abort_now(t) ==
    /\ Goto(t, "wait_recheck", IF abort_now[t] THEN "rollback"
                               ELSE IF is_read_only(t) THEN "read_only" ELSE "build")
    /\ todo' = [todo EXCEPT ![t] = write_set[t]]
    /\ UNCHANGED <<storeVars, lockVars, depVars, logVars, markVars, headerVars, opVars, versions>>

(* A read-only transaction is Committed without touching the log or the     *)
(* watermark; it gives back exclusivity, then the commit lock.              *)
commit_read_only(t) ==
    /\ Goto(t, "read_only", IF pager_commit_lock_held[t] THEN "read_only_unlock" ELSE "remove")
    /\ state' = [state EXCEPT ![t] = "Committed"]
    /\ release_exclusive_tx(t)
    /\ UNCHANGED <<txs, finalized, begin_ts, end_ts, clock, pager_commit_lock,
                   pager_commit_lock_held, depVars, logVars, markVars, headerVars, opVars,
                   todo, versions>>

(* build_committed_log_record, one row of the write set: the versions the   *)
(* transaction created or ended, stamped with end_ts.  The record of a      *)
(* writer is never empty here (statements that were undone by a savepoint   *)
(* are left out), so that every writer goes on to the log.                  *)
touched(t, rv) == rv.begin = TxID(t) \/ rv.end = TxID(t)

collect_versions(t, record, chain) ==
    LET insert_next(acc, rv) ==
          IF touched(t, rv) THEN insert_version_raw(acc, to_timestamps(t, rv)) ELSE acc
    IN  FoldLeft(insert_next, record, chain)

build_committed_log_record(t, r) ==
    /\ r \in todo[t]
    /\ pc[t] = "build"
    /\ log_record' = [log_record EXCEPT ![t] = collect_versions(t, @, versions[r])]
    /\ todo' = [todo EXCEPT ![t] = @ \ {r}]
    /\ UNCHANGED <<storeVars, lockVars, depVars, log, log_offset, markVars, headerVars,
                   opVars, pc, versions>>

(* BeginCommitLogicalLog: a CONCURRENT committer takes the pager commit     *)
(* lock, or yields; log_tx then writes the frame at the owned offset, over  *)
(* whatever an abandoned commit left there.  serialize_op_entry: a version  *)
(* with an end is a delete.                                                 *)
serialize_op_entry(rv) == [id |-> rv.id, row |-> IF rv.end # None THEN Absent ELSE rv.row]

(* (Mutant: the frame of an abandoned commit is not overwritten.)           *)
log_tx_at_end(t) ==
    log' = Append(log, [tx |-> t, ts |-> end_ts[t],
                        ops |-> MapChain(log_record[t], serialize_op_entry),
                        header |-> IF header_dirty[t] THEN header[t] ELSE {}])

log_tx(t) ==
    log' = Append(SubSeq(log, 1, log_offset),
                  [tx |-> t, ts |-> end_ts[t], ops |-> MapChain(log_record[t], serialize_op_entry),
                   header |-> IF header_dirty[t] THEN header[t] ELSE {}])

(* (Mutant: the exclusive transaction's lock is not honoured.)              *)
begin_commit_without_lock(t) ==
    /\ todo[t] = {}
    /\ Goto(t, "build", "sync")
    /\ log_tx(t)
    /\ pager_commit_lock' = t
    /\ pager_commit_lock_held' = [pager_commit_lock_held EXCEPT ![t] = TRUE]
    /\ UNCHANGED <<storeVars, exclusive_tx, depVars, log_record, log_offset, markVars,
                   headerVars, opVars, todo, versions>>

begin_commit_logical_log(t) ==
    /\ todo[t] = {}
    /\ Goto(t, "build", "sync")
    /\ \/ exclusive_tx = t /\ UNCHANGED <<pager_commit_lock, pager_commit_lock_held>>
       \/ /\ exclusive_tx # t
          /\ pager_commit_lock = NoTx
          /\ pager_commit_lock' = t
          /\ pager_commit_lock_held' = [pager_commit_lock_held EXCEPT ![t] = TRUE]
    /\ log_tx(t)
    /\ UNCHANGED <<storeVars, exclusive_tx, depVars, log_record, log_offset, markVars,
                   headerVars, opVars, todo, versions>>

(* SyncLogicalLog; durability of the frame is the checkpoint module's.      *)
sync_logical_log(t) ==
    /\ Goto(t, "sync", "commit_end")
    /\ UNCHANGED <<storeVars, lockVars, depVars, logVars, markVars, headerVars, opVars,
                   todo, versions>>

(* EndCommitLogicalLog: the shared header becomes the transaction's copy.   *)
(* It goes on, without yielding, to CommitEnd, whose steps keep the order   *)
(* its comment insists on: first own the frame and mark the transaction     *)
(* Committed.                                                               *)
commit_end(t) ==
    /\ Goto(t, "commit_end", "rewrite")
    /\ global_header' = header[t]
    /\ log_offset' = log_offset + 1
    /\ state' = [state EXCEPT ![t] = "Committed"]
    /\ todo' = [todo EXCEPT ![t] = write_set[t]]
    /\ UNCHANGED <<txs, finalized, begin_ts, end_ts, clock, lockVars, depVars, log_record, log,
                   markVars, header, header_dirty, opVars, versions>>

(* Then rewrite_live_versions_to_timestamps, row by row.                    *)
rewrite_live_versions(t, r) ==
    /\ pc[t] = "rewrite"
    /\ r \in todo[t]
    /\ versions' = [versions EXCEPT ![r] = MapChain(@, LAMBDA rv : to_timestamps(t, rv))]
    /\ todo' = [todo EXCEPT ![t] = @ \ {r}]
    /\ UNCHANGED <<storeVars, lockVars, depVars, logVars, markVars, headerVars, opVars, pc>>

(* Then take commit_dep_set and release every dependent.                    *)
(* (Mutant: the set is copied, not taken.)                                  *)
copy_dependents(t) ==
    /\ dependents' = [dependents EXCEPT ![t] = commit_dep_set[t]]
    /\ UNCHANGED <<commit_dep_set, commit_dep_counter, abort_now, informed>>

take_dependents(t) ==
    /\ dependents' = [dependents EXCEPT ![t] = commit_dep_set[t]]
    /\ commit_dep_set' = [commit_dep_set EXCEPT ![t] = {}]
    /\ UNCHANGED <<commit_dep_counter, abort_now, informed>>

commit_take_dependents(t) ==
    /\ todo[t] = {}
    /\ Goto(t, "rewrite", "notify")
    /\ take_dependents(t)
    /\ UNCHANGED <<storeVars, lockVars, logVars, markVars, headerVars, opVars, todo, versions>>

(* (Mutant: the dependent is not told.)                                     *)
leave_counter(d) == UNCHANGED commit_dep_counter

decrement_counter(d) ==
    commit_dep_counter' = IF d \in txs THEN [commit_dep_counter EXCEPT ![d] = @ - 1]
                                       ELSE commit_dep_counter

commit_notify(t, d) ==
    /\ pc[t] = "notify"
    /\ d \in dependents[t]
    /\ dependents' = [dependents EXCEPT ![t] = @ \ {d}]
    /\ decrement_counter(d)
    /\ UNCHANGED <<storeVars, lockVars, abort_now, commit_dep_set, informed, logVars, markVars,
                   headerVars, opVars, pc, todo, versions>>

unlock_commit_lock_if_held(t) ==
    /\ pager_commit_lock' = IF pager_commit_lock_held[t] THEN NoTx ELSE pager_commit_lock
    /\ pager_commit_lock_held' = [pager_commit_lock_held EXCEPT ![t] = FALSE]

commit_unlock(t) ==
    /\ \/ dependents[t] = {} /\ Goto(t, "notify", "publish")
       \/ Goto(t, "read_only_unlock", "remove")
    /\ unlock_commit_lock_if_held(t)
    /\ UNCHANGED <<storeVars, exclusive_tx, depVars, logVars, markVars, headerVars, opVars,
                   todo, versions>>

(* Then the shared header and the watermarks, by plain stores.              *)
store_last_committed(t) == last_committed_tx_ts' = end_ts[t]

commit_publish(t) ==
    /\ Goto(t, "publish", "remove")
    /\ global_header' = header[t]
    /\ store_last_committed(t)
    /\ last_committed_schema_change_ts' =
         IF did_commit_schema_change(t) THEN end_ts[t] ELSE last_committed_schema_change_ts
    /\ UNCHANGED <<storeVars, lockVars, depVars, logVars, header, header_dirty, opVars,
                   todo, versions>>

(* remove_tx: a committed writer leaves its state in finalized_tx_states;   *)
(* the Transaction is dropped.                                              *)
remove_tx(t) ==
    /\ txs' = txs \ {t}
    /\ finalized' = IF state[t] = "Committed" /\ write_set[t] # {}
                    THEN finalized \cup {t} ELSE finalized
    /\ log_record' = [log_record EXCEPT ![t] = <<>>]
    /\ header' = [header EXCEPT ![t] = {}]

commit_remove(t) ==
    /\ Goto(t, "remove", IF exclusive_tx = t THEN "release_exclusive" ELSE "done")
    /\ remove_tx(t)
    /\ UNCHANGED <<state, begin_ts, end_ts, clock, lockVars, depVars, log, log_offset, markVars,
                   global_header, header_dirty, opVars, todo, versions>>

commit_release_exclusive(t) ==
    /\ Goto(t, "release_exclusive", "done")
    /\ release_exclusive_tx(t)
    /\ UNCHANGED <<storeVars, pager_commit_lock, pager_commit_lock_held, depVars, logVars,
                   markVars, headerVars, opVars, todo, versions>>

-----------------------------------------------------------------------------
(* rollback_tx.  It is called for ROLLBACK, after any error, and for a      *)
(* commit that is dropped (connection closed, statement reset) while it     *)
(* yields: at the dependency wait, the lock wait or the two I/O waits.      *)
RolledBack == {u \in Txns : pc[u] = "rollback" \/ state[u] \in {"Aborted", "Terminated"}}

abandon(t) ==
    /\ \/ pc[t] \in {"active", "wait", "sync", "commit_end"}
       \/ pc[t] = "build" /\ todo[t] = {}
    /\ Cardinality(RolledBack) < MaxAbandoned
    /\ pc' = [pc EXCEPT ![t] = "rollback"]
    /\ UNCHANGED <<storeVars, lockVars, depVars, logVars, markVars, headerVars, opVars, todo,
                   versions>>

is_tx_rollbackable(t) == state[t] \in {"Active", "Preparing"}

rollback_tx(t) ==
    /\ is_tx_rollbackable(t)
    /\ Goto(t, "rollback", "rb_unlock")
    /\ state' = [state EXCEPT ![t] = "Aborted"]
    /\ todo' = [todo EXCEPT ![t] = {}]
    /\ UNCHANGED <<txs, finalized, begin_ts, end_ts, clock, lockVars, depVars, logVars, markVars,
                   headerVars, opVars, versions>>

(* The commit lock is given back and commit_dep_set taken: whoever gets the *)
(* lock in between has no business with the set.                            *)
rollback_take_dependents(t) ==
    /\ Goto(t, "rb_unlock", "rb_notify")
    /\ unlock_commit_lock_if_held(t)
    /\ take_dependents(t)
    /\ UNCHANGED <<storeVars, exclusive_tx, logVars, markVars, headerVars, opVars, todo, versions>>

(* abort_now first, the counter second: a waiter that sees the counter at   *)
(* zero must also see abort_now.                                            *)
rollback_abort_dependent(t, d) ==
    /\ pc[t] = "rb_notify"
    /\ informed[t] = NoTx
    /\ d \in dependents[t]
    /\ dependents' = [dependents EXCEPT ![t] = @ \ {d}]
    /\ informed' = [informed EXCEPT ![t] = d]
    /\ abort_now' = IF d \in txs THEN [abort_now EXCEPT ![d] = TRUE] ELSE abort_now
    /\ UNCHANGED <<storeVars, lockVars, commit_dep_counter, commit_dep_set, logVars, markVars,
                   headerVars, opVars, pc, todo, versions>>

rollback_release_dependent(t) ==
    /\ pc[t] = "rb_notify"
    /\ informed[t] # NoTx
    /\ informed' = [informed EXCEPT ![t] = NoTx]
    /\ decrement_counter(informed[t])
    /\ UNCHANGED <<storeVars, lockVars, abort_now, commit_dep_set, dependents, logVars, markVars,
                   headerVars, opVars, pc, todo, versions>>

rollback_release_exclusive(t) ==
    /\ dependents[t] = {} /\ informed[t] = NoTx
    /\ Goto(t, "rb_notify", "rb_undo")
    /\ release_exclusive_tx(t)
    /\ todo' = [todo EXCEPT ![t] = write_set[t]]
    /\ UNCHANGED <<storeVars, pager_commit_lock, pager_commit_lock_held, depVars, logVars,
                   markVars, headerVars, opVars, versions>>

(* rollback_rowid.                                                          *)
rollback_rowid(t, r) ==
    /\ pc[t] = "rb_undo"
    /\ r \in todo[t]
    /\ versions' = [versions EXCEPT ![r] = MapChain(@, LAMBDA rv : rollback_row_version(t, rv))]
    /\ todo' = [todo EXCEPT ![t] = @ \ {r}]
    /\ UNCHANGED <<storeVars, lockVars, depVars, logVars, markVars, headerVars, opVars, pc>>

(* The Transaction is dropped, and the history of what it did with it.      *)
rollback_terminate(t) ==
    /\ todo[t] = {}
    /\ Goto(t, "rb_undo", "done")
    /\ state' = [state EXCEPT ![t] = "Terminated"]
    /\ remove_tx(t)
    /\ begin_ts' = [begin_ts EXCEPT ![t] = 0]
    /\ end_ts' = [end_ts EXCEPT ![t] = 0]
    /\ commit_dep_counter' = [commit_dep_counter EXCEPT ![t] = 0]
    /\ abort_now' = [abort_now EXCEPT ![t] = FALSE]
    /\ header_dirty' = [header_dirty EXCEPT ![t] = FALSE]
    /\ write_set' = [write_set EXCEPT ![t] = {}]
    /\ ops' = [ops EXCEPT ![t] = 0]
    /\ wrote' = [wrote EXCEPT ![t] = [r \in Rows |-> Unwritten]]
    /\ reads' = [reads EXCEPT ![t] = {}]
    /\ UNCHANGED <<clock, lockVars, commit_dep_set, dependents, informed, log, log_offset,
                   markVars, global_header, todo, versions>>

-----------------------------------------------------------------------------
Begin(t) ==
    \/ begin_tx(t) \/ begin_exclusive_tx(t) \/ upgrade_to_exclusive(t)
    \/ acquire_exclusive_tx(t) \/ acquire_pager_commit_lock(t)

Statement(t) ==
    \/ with_header_mut(t)
    \/ \E r \in Rows :
         \/ read_visible(t, r) \/ read_btree(t, r) \/ write_conflict(t, r)
         \/ update(t, r) \/ insert(t, r) \/ delete(t, r) \/ insert_tombstone(t, r)

(* The steps of a commit after Initial, and of a rollback after its start:  *)
(* the ones a thread takes without asking the user.                         *)
Commit(t) ==
    \/ commit_check_exclusive(t) \/ commit_validate_none(t)
    \/ wait_for_dependencies(t) \/ wait_recheck_abort_now(t)
    \/ commit_read_only(t) \/ begin_commit_logical_log(t) \/ sync_logical_log(t)
    \/ commit_end(t) \/ commit_take_dependents(t)
    \/ commit_unlock(t) \/ commit_publish(t) \/ commit_remove(t)
    \/ commit_release_exclusive(t)
    \/ \E r \in Rows : \/ commit_validate(t, r) \/ build_committed_log_record(t, r)
                       \/ rewrite_live_versions(t, r)
    \/ \E d \in Txns : commit_notify(t, d)

Rollback(t) ==
    \/ rollback_take_dependents(t) \/ rollback_release_dependent(t)
    \/ rollback_release_exclusive(t) \/ rollback_terminate(t)
    \/ \E r \in Rows : rollback_rowid(t, r)
    \/ \E d \in Txns : rollback_abort_dependent(t, d)

Finished == (\A t \in Txns : pc[t] = "done") /\ UNCHANGED vars

Next ==
    \/ \E t \in Txns :
         \/ Begin(t) \/ Statement(t) \/ commit_initial(t) \/ Commit(t)
         \/ abandon(t) \/ rollback_tx(t) \/ Rollback(t)
    \/ Finished

Spec == Init /\ [][Next]_vars

-----------------------------------------------------------------------------
(* What every run checks of the types.                                      *)

ProgramCounter ==
    {"idle", "acquire_exclusive", "acquire_commit_lock", "active", "rollback", "commit",
     "validate", "wait", "wait_recheck", "read_only", "read_only_unlock",
     "build", "sync", "commit_end", "rewrite", "notify", "publish", "remove",
     "release_exclusive", "rb_unlock", "rb_notify", "rb_undo", "done"}

LogOp == [id : Rows, row : Value]
Frame == [tx : Txns, ts : Nat, ops : Seq(LogOp), header : SUBSET Txns]

(* The type invariant but for the frames of the log.                        *)
StoreTypeOK ==
    /\ clock \in Nat
    /\ txs \subseteq Txns
    /\ finalized \subseteq Txns
    /\ state \in [Txns -> TransactionState]
    /\ begin_ts \in [Txns -> Nat]
    /\ end_ts \in [Txns -> Nat]
    /\ write_set \in [Txns -> SUBSET Rows]
    /\ pc \in [Txns -> ProgramCounter]
    /\ todo \in [Txns -> SUBSET Rows]
    /\ versions \in [Rows -> Seq(RowVersion)]
    /\ exclusive_tx \in Txns \cup {NoTx}
    /\ pager_commit_lock \in Txns \cup {NoTx}
    /\ pager_commit_lock_held \in [Txns -> BOOLEAN]
    /\ commit_dep_counter \in [Txns -> Nat]
    /\ abort_now \in [Txns -> BOOLEAN]
    /\ commit_dep_set \in [Txns -> SUBSET Txns]
    /\ dependents \in [Txns -> SUBSET Txns]
    /\ informed \in [Txns -> Txns \cup {NoTx}]
    /\ log_offset \in Nat
    /\ last_committed_tx_ts \in Nat
    /\ last_committed_schema_change_ts \in Nat
    /\ global_header \subseteq Txns
    /\ header \in [Txns -> SUBSET Txns]
    /\ header_dirty \in [Txns -> BOOLEAN]
    /\ ops \in [Txns -> 0 .. MaxOps]
    /\ wrote \in [Txns -> [Rows -> Value \cup {Unwritten}]]
    /\ reads \in [Txns -> SUBSET (Rows \X Value \X (Value \cup {Unwritten}))]

(* Every variable of the store stays within its type; in particular the     *)
(* unsigned commit_dep_counter never goes below zero.                       *)
TypeOK ==
    /\ StoreTypeOK
    /\ log_record \in [Txns -> Seq(RowVersion)]
    /\ log \in Seq(Frame)

-----------------------------------------------------------------------------
(* Snapshot isolation.                                                      *)

Committed == {t \in Txns : state[t] = "Committed"}
WritersOf(r) == {t \in Committed : wrote[t][r] # Unwritten}

(* The row as of a timestamp: what the latest earlier committer left.       *)
SnapshotValue(ts, r) ==
    LET earlier == {u \in WritersOf(r) : end_ts[u] < ts}
        latest == {u \in earlier : \A w \in earlier : end_ts[w] <= end_ts[u]}
    IN  IF earlier = {} THEN IF r \in BtreeRows THEN BtreeValue ELSE Absent
        ELSE wrote[CHOOSE u \in latest : TRUE][r]

(* Every value a committed transaction read is its own last write, or else  *)
(* the value its snapshot has: whatever it read speculatively from a        *)
(* Preparing transaction, and whichever of the writers it met rolled back.  *)
SnapshotReads ==
    \A t \in Committed : \A read \in reads[t] :
        LET own == read[3] IN
        read[2] = IF own = Unwritten THEN SnapshotValue(begin_ts[t], read[1]) ELSE own

(* Two committed transactions that wrote one row did not overlap: the       *)
(* later one began after the earlier one's commit timestamp.                *)
FirstCommitterWins ==
    \A r \in Rows : \A t, u \in WritersOf(r) :
        t # u => end_ts[t] < begin_ts[u] \/ end_ts[u] < begin_ts[t]

(* At no timestamp do two keys of a unique index with the same columns      *)
(* exist together.                                                          *)
UniqueIndexHolds ==
    \A r \in Rows : \A q \in ConflictSet[r] \ {r} : \A ts \in 1 .. clock :
        SnapshotValue(ts, r) = Absent \/ SnapshotValue(ts, q) = Absent

-----------------------------------------------------------------------------
(* The commit-dependency protocol and the version chains.                   *)

Owes(u, t) == t \in commit_dep_set[u] \/ t \in dependents[u] \/ informed[u] = t

(* commit_dep_counter is exactly the number of transactions that will still *)
(* decrement it: no wakeup is lost and the counter never wraps.             *)
CounterExact ==
    \A t \in txs : commit_dep_counter[t] = Cardinality({u \in Txns : Owes(u, t)})

(* Nobody is left in the commit_dep_set of a transaction that no longer     *)
(* notifies: what remove_tx and the read-only path of a commit assert.      *)
DependentsDrained ==
    \A t \in Txns : pc[t] \in {"read_only", "read_only_unlock", "remove", "rb_undo", "done"} =>
        commit_dep_set[t] = {}

(* A transaction id in a chain can always be looked up in txs, which        *)
(* resolve_begin_timestamp and check_version_conflicts expect().            *)
NoDanglingTxID ==
    \A r \in Rows : \A i \in 1 .. Len(versions[r]) :
        LET rv == versions[r][i] IN
        /\ rv.begin.kind = "TxID" => rv.begin.v \in txs
        /\ rv.end.kind = "TxID" => rv.end.v \in txs

(* A timestamp, once in a chain, stays: no rollback of another transaction  *)
(* and no later writer undoes a committed creation (a version whose begin   *)
(* is a timestamp, deleted since or not) or a committed deletion (a version *)
(* whose end is one).                                                       *)
CommittedCreations ==
    UNION {{<<r, versions[r][i].row, versions[r][i].begin>> :
              i \in {i \in 1 .. Len(versions[r]) : versions[r][i].begin.kind = "Timestamp"}} :
           r \in Rows}
StampedVersions ==
    UNION {{<<r, versions[r][i].row, versions[r][i].begin, versions[r][i].end>> :
              i \in {i \in 1 .. Len(versions[r]) : versions[r][i].end.kind = "Timestamp"}} :
           r \in Rows}

CommittedVersionsStay ==
    [][CommittedCreations \subseteq CommittedCreations' /\ StampedVersions \subseteq StampedVersions']_vars

-----------------------------------------------------------------------------
(* The pager commit lock and the logical log.                               *)

WritingLog(t) == pc[t] \in {"sync", "commit_end"}

(* From log_tx to the offset's advance the committer holds the pager commit *)
(* lock, its frame is the one at the end of the log, and all frames before  *)
(* it are owned.                                                            *)
LogWriterAlone ==
    \A t \in Txns : WritingLog(t) =>
        /\ pager_commit_lock = t /\ pager_commit_lock_held[t]
        /\ Len(log) = log_offset + 1
        /\ log[Len(log)].tx = t

(* The owned part of the log holds exactly the committed writers, each      *)
(* once: no frame of a transaction that rolled back, none lost.             *)
OwnedFramesAreCommitted ==
    /\ log_offset <= Len(log)
    /\ \A i \in 1 .. log_offset : log[i].tx \in Committed /\ log[i].ts = end_ts[log[i].tx]
    /\ \A t \in Committed : ~is_read_only(t) =>
         Cardinality({i \in 1 .. log_offset : log[i].tx = t}) = 1

FrameWrites(i, r) == \E k \in 1 .. Len(log[i].ops) : log[i].ops[k].id = r

(* Frames may be appended out of timestamp order, but never two frames that *)
(* write the same row: replaying in log order gives the last committer.     *)
LogOrdersWriters ==
    \A i, j \in 1 .. log_offset : \A r \in Rows :
        i < j /\ FrameWrites(i, r) /\ FrameWrites(j, r) => log[i].ts < log[j].ts

-----------------------------------------------------------------------------
(* Progress.                                                                *)

(* The threads keep stepping a commit or a rollback that has started, and   *)
(* a begin_exclusive_tx that is under way; no user is forced to do anything.*)
Fairness ==
    \A t \in Txns :
        /\ WF_vars(Commit(t)) /\ WF_vars(Rollback(t))
        /\ WF_vars(rollback_tx(t))
        /\ WF_vars(acquire_exclusive_tx(t)) /\ WF_vars(acquire_pager_commit_lock(t))

FairSpec == Spec /\ Fairness

(* A commit that was started comes to an end, committed or rolled back.     *)
CommitsEnd == \A t \in Txns : state[t] = "Preparing" ~> pc[t] = "done"

(* Who a blocked commit waits for: WaitForDependencies on the transactions  *)
(* it read from, BeginCommitLogicalLog on the holder of the commit lock.    *)
WaitsFor(t, u) ==
    \/ pc[t] = "wait" /\ Owes(u, t)
    \/ pc[t] = "build" /\ todo[t] = {} /\ exclusive_tx # t /\ pager_commit_lock = u

(* "Deadlock impossible: edges always go from higher end_ts to lower        *)
(* end_ts, so the wait graph is acyclic" (CommitState::WaitForDependencies).*)
WaitGraphAcyclic ==
    \A S \in SUBSET Txns \ {{}} : \E t \in S : \A u \in S : ~WaitsFor(t, u)

-----------------------------------------------------------------------------
(* What a comment of the code says, and the model refutes.                  *)

(* "Build the committed image for the logical log": the last operation a    *)
(* committed frame has for a row is what its transaction left there.        *)
LogHoldsCommittedImage ==
    \A i \in 1 .. log_offset : \A r \in write_set[log[i].tx] :
        \E k \in 1 .. Len(log[i].ops) :
            /\ log[i].ops[k] = [id |-> r, row |-> wrote[log[i].tx][r]]
            /\ \A j \in (k + 1) .. Len(log[i].ops) : log[i].ops[j].id # r
=============================================================================
