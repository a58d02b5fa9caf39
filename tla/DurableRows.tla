---------------------------- MODULE DurableRows ----------------------------
(***************************************************************************)
(* What the store promises about the rows it keeps, whatever it does with  *)
(* version chains, logs, checkpoints and restarts: the contents change     *)
(* only when a transaction's writes take effect, all of them at once.  A   *)
(* transaction proposes its writes when it puts them in the log; a commit, *)
(* or a crash that finds them in the log, settles them, and with them all  *)
(* earlier proposals: those can take no effect any more.  The writes of a  *)
(* transaction that failed, or that the crash lost, are forgotten.         *)
(***************************************************************************)
EXTENDS TLC

CONSTANT Rows

VARIABLES
    contents,    \* the value of every row
    unsettled    \* proposed writes: functions from some rows to values

vars == <<contents, unsettled>>

Init == DOMAIN contents = Rows /\ unsettled = {}

Propose ==
    /\ contents' = contents
    /\ \E writes \in unsettled' : unsettled' \subseteq unsettled \cup {writes}

Settle ==
    \E writes \in unsettled :
      /\ contents' = writes @@ contents
      /\ unsettled' = {}

Forget ==
    /\ contents' = contents
    /\ unsettled' \subseteq unsettled

Next == Propose \/ Settle \/ Forget

Spec == Init /\ [][Next]_vars
=============================================================================
