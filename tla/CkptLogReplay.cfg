SPECIFICATION Spec
CONSTANTS
    Rows = {r1, r2}
    Meta = meta
    Conns = {c1}
    Nobody = nobody
    Checkpointers = {}
    BtreeRows = {r1}
    FailAt <- OfTransactions
    MaxTs = 3
    MaxFailures = 2
    MaxCrashes = 2
INVARIANTS
    ClockAhead
PROPERTIES
    ImplementsDurableRows
CHECK_DEADLOCK FALSE
