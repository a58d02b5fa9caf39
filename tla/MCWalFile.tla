----------------------------- MODULE MCWalFile -----------------------------
(* Instances of WalFile for TLC. *)
EXTENDS WalFile, TLC

CONSTANTS c1, c2, c3
=============================================================================
