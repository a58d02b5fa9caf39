SPECIFICATION Spec
CONSTANTS
    t1 = t1
    t2 = t2
    t3 = t3
    r1 = r1
    r2 = r2
    NoTx = NoTx
    Txns = {t1, t2, t3}
    Rows = {r1, r2}
    ConflictSet <- UniqueKeys
    BtreeRows = {}
    Exclusive = {}
    SchemaTxns = {}
    HeaderTxns = {}
    MaxOps = 1
    MaxAbandoned = 0
SYMMETRY KeySymmetry
INVARIANTS
    SnapshotReads
    LogOrdersWriters
    UniqueIndexHolds
