SPECIFICATION Spec
CONSTANTS
    c1 = c1
    c2 = c2
    c3 = c3
    Pages = {1, 2}
    Conns = {c1, c2}
    Writers = {c1}
    Checkpointers = {c1}
    Vacuumers = {c1}
    Spillers = {c1}
    Caching = {}
    Modes = {"Passive", "Full", "Restart", "Truncate"}
    AutoCheckpoint = FALSE
    Slots = 1
    SyncMode = "Full"
    Respill = FALSE
    FailAt = {"frames", "walsync", "backfill", "truncate"}
    MaxTxn = 2
    MaxFrames = 3
    MaxCheckpoints = 1
    MaxFailures = 1
    MaxCrashes = 1
INVARIANTS
    CurrentIsLastCommit
    LockWordsMatchHolders
    VacuumAlone
PROPERTIES
    ImplementsSnapshotStore
