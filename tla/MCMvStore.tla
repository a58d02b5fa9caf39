----------------------------- MODULE MCMvStore -----------------------------
(* Instances of MvStore for TLC.                                            *)
EXTENDS MvStore, TLC

(* Every row is a table row: a commit checks only the chains it wrote.      *)
TableRows == [r \in Rows |-> {r}]

(* All rows are keys of one unique index with equal indexed columns.        *)
UniqueKeys == [r \in Rows |-> Rows]

(* Transactions of one kind can be exchanged.                               *)
Symmetry == Permutations(Txns \ Exclusive)

(* So can the keys of a unique index.                                       *)
KeySymmetry == Permutations(Txns) \cup Permutations(Rows)
=============================================================================
