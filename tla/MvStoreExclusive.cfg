SPECIFICATION Spec
CONSTANTS
    t1 = t1
    t2 = t2
    r1 = r1
    NoTx = NoTx
    Txns = {t1, t2}
    Rows = {r1}
    ConflictSet <- TableRows
    BtreeRows = {r1}
    Exclusive = {t1}
    SchemaTxns = {t1}
    HeaderTxns = {t1}
    MaxOps = 2
    MaxAbandoned = 2
SYMMETRY Symmetry
INVARIANTS
    SnapshotReads
    FirstCommitterWins
