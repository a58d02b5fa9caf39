--------------------------- MODULE MCMvCheckpoint ---------------------------
(* The sets of steps that may fail, for the runs of MvCheckpoint.            *)
EXTENDS MvCheckpoint

NoStep == {}
EveryStep == (Phases \ {"Finalize"}) \cup {"active", "logged"}
OfTransactions == {"active", "logged"}
BeforeCommit == {"BeginPagerTxn", "active"}
=============================================================================
