SPECIFICATION Spec
CONSTANTS
    t1 = t1
    t2 = t2
    r1 = r1
    NoTx = NoTx
    Txns = {t1, t2}
    Rows = {r1}
    ConflictSet <- TableRows
    BtreeRows = {}
    Exclusive = {t1}
    SchemaTxns = {}
    HeaderTxns = {}
    MaxOps = 1
    MaxAbandoned = 0
SYMMETRY Symmetry
INVARIANTS
    WaitGraphAcyclic
