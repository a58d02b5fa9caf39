SPECIFICATION Spec
CONSTANTS
    c1 = c1
    c2 = c2
    c3 = c3
    Pages = {1, 2}
    Conns = {c1, c2}
    Writers = {c1}
    Checkpointers = {c2}
    Vacuumers = {}
    Spillers = {c1}
    Caching = {}
    Modes = {"Passive"}
    AutoCheckpoint = FALSE
    Slots = 2
    SyncMode = "Full"
    Respill = TRUE
    FailAt = {}
    MaxTxn = 2
    MaxFrames = 3
    MaxCheckpoints = 1
    MaxFailures = 0
    MaxCrashes = 0
INVARIANT
    FrameCacheTrue
