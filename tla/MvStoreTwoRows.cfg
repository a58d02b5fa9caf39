SPECIFICATION Spec
CONSTANTS
    t1 = t1
    t2 = t2
    r1 = r1
    r2 = r2
    NoTx = NoTx
    Txns = {t1, t2}
    Rows = {r1, r2}
    ConflictSet <- TableRows
    BtreeRows = {r1}
    Exclusive = {}
    SchemaTxns = {}
    HeaderTxns = {}
    MaxOps = 2
    MaxAbandoned = 1
SYMMETRY Symmetry
INVARIANTS
    TypeOK
    SnapshotReads
    FirstCommitterWins
    CounterExact
    DependentsDrained
    NoDanglingTxID
    LogWriterAlone
    OwnedFramesAreCommitted
PROPERTIES
    CommittedVersionsStay
