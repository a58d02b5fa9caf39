SPECIFICATION Spec
CONSTANTS
    c1 = c1
    c2 = c2
    c3 = c3
    Pages = {1, 2}
    Conns = {c1, c2}
    Writers = {c1, c2}
    Checkpointers = {c1}
    Vacuumers = {}
    Spillers = {c1}
    Caching = {c1}
    Modes = {"Full"}
    AutoCheckpoint = TRUE
    Slots = 2
    SyncMode = "Full"
    Respill = FALSE
    FailAt = {"dbsync"}
    MaxTxn = 2
    MaxFrames = 3
    MaxCheckpoints = 1
    MaxFailures = 1
    MaxCrashes = 0
INVARIANTS
    TypeOK
    ReadersSeeTheirSnapshot
    CurrentIsLastCommit
    LockWordsMatchHolders
    CachedTagsAreTrue
PROPERTIES
    HeldMarksStay
