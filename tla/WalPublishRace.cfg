SPECIFICATION Spec
CONSTANTS
    c1 = c1
    c2 = c2
    c3 = c3
    Pages = {1}
    Conns = {c1, c2}
    Writers = {c1, c2}
    Checkpointers = {c1, c2}
    Vacuumers = {}
    Spillers = {}
    Caching = {}
    Modes = {"Passive"}
    AutoCheckpoint = TRUE
    Slots = 2
    SyncMode = "Full"
    Respill = FALSE
    FailAt = {}
    MaxTxn = 4
    MaxFrames = 3
    MaxCheckpoints = 0
    MaxFailures = 0
    MaxCrashes = 0
INVARIANT
    BackfillsWithinLog
