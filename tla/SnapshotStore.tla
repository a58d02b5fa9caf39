---------------------------- MODULE SnapshotStore ----------------------------
(****************************************************************************)
(* What the pager and its write-ahead log promise to the layers above:      *)
(* commits are atomic and totally ordered, a reader keeps the image it      *)
(* began with until it ends, and a crash loses no commit that was durable.  *)
(* Checkpoints, log restarts and spilled pages are not visible here.        *)
(****************************************************************************)
EXTENDS Naturals, Sequences, SequencesExt

CONSTANTS Pages, Contents, Readers, NoImage

VARIABLES
    committed,   \* the committed images, oldest first
    durable,     \* how many of them a crash preserves
    doubt,       \* images written but not acknowledged
    seen         \* the image a reader sees, NoImage outside a transaction

vars == <<committed, durable, doubt, seen>>

Images == [Pages -> Contents]

Init ==
    /\ \E img \in Images : committed = <<img>>
    /\ durable = 1 /\ doubt = {}
    /\ seen = [c \in Readers |-> NoImage]

\* A reader begins at the last commit and keeps that image until it ends
Begin(c) ==
    /\ seen[c] = NoImage
    /\ seen' = [seen EXCEPT ![c] = Last(committed)]
    /\ UNCHANGED <<committed, durable, doubt>>

End(c) ==
    /\ seen[c] # NoImage
    /\ seen' = [seen EXCEPT ![c] = NoImage]
    /\ UNCHANGED <<committed, durable, doubt>>

\* A commit may be on disk before it is acknowledged, and may never be
Write ==
    /\ \E img \in Images : doubt' = {img}
    /\ UNCHANGED <<committed, durable, seen>>

Forget ==
    /\ doubt' = {}
    /\ UNCHANGED <<committed, durable, seen>>

\* The writer whose frames are in the file, ended or not, adds them as one image
Commit ==
    /\ \E img \in doubt : committed' = Append(committed, img)
    /\ durable' \in {durable, Len(committed')}
    /\ doubt' = {}
    /\ UNCHANGED seen

Abort(c) ==
    /\ seen' = [seen EXCEPT ![c] = NoImage]
    /\ doubt' = {}
    /\ UNCHANGED <<committed, durable>>

Crash ==
    /\ \/ \E n \in durable..Len(committed) : committed' = SubSeq(committed, 1, n)
       \/ \E img \in doubt : committed' = Append(committed, img)
    /\ durable' = Len(committed')
    /\ doubt' = {}
    /\ seen' = [c \in Readers |-> NoImage]

Next ==
    \/ \E c \in Readers : Begin(c) \/ End(c) \/ Abort(c)
    \/ Write \/ Forget \/ Commit \/ Crash

Spec == Init /\ [][Next]_vars
=============================================================================
