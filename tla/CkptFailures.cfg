SPECIFICATION Spec
CONSTANTS
    Rows = {r1, r2}
    Meta = meta
    Conns = {c1}
    Nobody = nobody
    Checkpointers = {k1}
    BtreeRows = {r1}
    FailAt <- EveryStep
    MaxTs = 3
    MaxFailures = 2
    MaxCrashes = 0
INVARIANTS
    TypeOK
    PagerCaughtUp
    DeletesFindTheirRow
PROPERTIES
    ImplementsDurableRows
