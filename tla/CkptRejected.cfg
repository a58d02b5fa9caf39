SPECIFICATION Spec
CONSTANTS
    Rows = {r1}
    Meta = meta
    Conns = {c1}
    Nobody = nobody
    Checkpointers = {k1}
    BtreeRows = {r1}
    FailAt <- NoStep
    MaxTs = 1
    MaxFailures = 0
    MaxCrashes = 1
INVARIANT
    BootstrapSucceeds
