SPECIFICATION Spec
CONSTANTS
    c1 = c1
    c2 = c2
    c3 = c3
    Pages = {1, 2}
    Conns = {c1}
    Writers = {c1}
    Checkpointers = {c1}
    Vacuumers = {}
    Spillers = {}
    Caching = {}
    Modes = {"Passive"}
    AutoCheckpoint = FALSE
    Slots = 1
    SyncMode = "Normal"
    Respill = FALSE
    FailAt = {}
    MaxTxn = 1
    MaxFrames = 3
    MaxCheckpoints = 1
    MaxFailures = 0
    MaxCrashes = 1
INVARIANT
    CurrentIsLastCommit
