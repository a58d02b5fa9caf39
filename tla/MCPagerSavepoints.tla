-------------------------- MODULE MCPagerSavepoints --------------------------
(* Instances of PagerSavepoints for TLC. *)
EXTENDS PagerSavepoints
=============================================================================
