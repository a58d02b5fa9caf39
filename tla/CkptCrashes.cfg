SPECIFICATION Spec
CONSTANTS
    Rows = {r1, r2}
    Meta = meta
    Conns = {c1}
    Nobody = nobody
    Checkpointers = {k1}
    BtreeRows = {r1}
    FailAt <- BeforeCommit
    MaxTs = 3
    MaxFailures = 1
    MaxCrashes = 2
INVARIANTS
    PagerCaughtUp
    BoundaryAgrees
    ClockAhead
PROPERTIES
    ImplementsDurableRows
    BoundaryAdvances
