SPECIFICATION Spec
CONSTANTS
    Rows = {r1, r2}
    Meta = meta
    Conns = {c1, c2}
    Nobody = nobody
    Checkpointers = {k1, k2}
    BtreeRows = {r1}
    FailAt <- NoStep
    MaxTs = 3
    MaxFailures = 0
    MaxCrashes = 0
INVARIANTS
    CollectedStaysCurrent
