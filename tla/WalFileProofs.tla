--------------------------- MODULE WalFileProofs ---------------------------
(***************************************************************************)
(* Proofs about WalFile for every finite set of connections, every number  *)
(* of read marks and every bound.                                          *)
(*                                                                         *)
(* LockInv is the inductive invariant of the lock protocol: what the       *)
(* program counter says about the locks a connection holds (HeldByPc), and *)
(* the lock words as functions of the holders (ReadMarkWords, LockWords).  *)
(***************************************************************************)
EXTENDS WalFile, FrameCacheProofs

-----------------------------------------------------------------------------
(* Who holds what.                                                          *)

Reading == {c \in Conns : pc[c] \in {"choose", "lock"} \/ guard[c] # NO_LOCK_HELD}
Writing == {c \in Conns : pc[c] \in WriteSteps \/ ckpt[c].held = "writer"}
Holding0 == {c \in Conns : ckpt[c].held \in {"read0", "writer"}}
Checkpointing == {c \in Conns : ckpt[c].held # "none"}
Vacuuming == {c \in Conns : tx[c].vacuum}

AtMostOne(S) == \A c, d \in S : c = d

LockPcs == {"idle", "choose", "lock", "read", "auto", "vacuum"}
AllPcs == LockPcs \union WriteSteps \union CheckpointSteps
HeldKinds == {"none", "raw", "read0", "writer"}

PickRecord(r) == DOMAIN r = {"slot", "mark", "snap"}
TxRecord(r) == DOMAIN r = {"id", "dirty", "spilled", "vacuum"}
CkptRecord(r) == DOMAIN r = {"mode", "auto", "old", "max", "scan", "todo", "all", "held"}
SlotRecord(r) == DOMAIN r = {"writer", "readers", "mark"}

(* The parts of a connection's state the locks depend on have their types.  *)
PcTypes == pc \in [Conns -> AllPcs] /\ guard \in [Conns -> 0..NO_LOCK_HELD]
PickTypes ==
    /\ DOMAIN pick = Conns
    /\ \A c \in Conns : PickRecord(pick[c]) /\ pick[c].slot \in 0..NO_LOCK_HELD
TxTypes ==
    /\ DOMAIN tx = Conns
    /\ \A c \in Conns : TxRecord(tx[c]) /\ tx[c].vacuum \in BOOLEAN
CkptTypes ==
    /\ DOMAIN ckpt = Conns
    /\ \A c \in Conns :
        /\ CkptRecord(ckpt[c])
        /\ ckpt[c].mode \in {"Passive", "Full", "Restart", "Truncate"}
        /\ ckpt[c].held \in HeldKinds /\ ckpt[c].all \in BOOLEAN
LockTypes == PcTypes /\ PickTypes /\ TxTypes /\ CkptTypes

(* Where a connection is says which of the locks it holds.                  *)
HeldAt(c) ==
    /\ pc[c] \in {"idle", "choose", "lock", "read", "auto"} =>
         ckpt[c].held = "none" /\ ~tx[c].vacuum
    /\ pc[c] = "vacuum" => ckpt[c].held = "raw" /\ ~tx[c].vacuum
    /\ pc[c] \in WriteSteps =>
         ckpt[c].held = IF tx[c].vacuum THEN "raw" ELSE "none"
    /\ pc[c] = "restart" => ~tx[c].vacuum
    /\ pc[c] = "guard" => ckpt[c].held = IF tx[c].vacuum THEN "raw" ELSE "none"
    /\ pc[c] \in {"scan", "backfill", "finalize"} => ckpt[c].held = GuardKind(c)
    /\ pc[c] \in {"dbsync", "backfilled", "truncate", "truncated", "finish"} =>
         \/ ckpt[c].held = GuardKind(c)
         \/ ckpt[c].held = "none" /\ ckpt[c].mode = "Passive"
    /\ pc[c] = "finalize" /\ ckpt[c].mode # "Passive" => ckpt[c].all
    /\ pc[c] \in CheckpointSteps /\ tx[c].vacuum => ckpt[c].mode = "Truncate"
    /\ guard[c] # NO_LOCK_HELD <=> pc[c] = "read" \/ (pc[c] \in WriteSteps /\ ~tx[c].vacuum)
HeldByPc == \A c \in Conns : HeldAt(c)

(* A read-mark word counts its readers; slot 0 is locked exclusively by the *)
(* checkpoint guard, the others by a restart of the log.                    *)
ReadMarkWord(i) ==
    /\ SlotRecord(slot[i]) /\ slot[i].writer \in BOOLEAN
    /\ slot[i].readers = Cardinality(ReadHolders(i))
    /\ slot[i].writer <=> (IF i = 0 THEN Holding0 ELSE Restarting) # {}
    /\ slot[i].writer => slot[i].readers = 0
ReadMarkWords == DOMAIN slot = 0..Slots /\ \A i \in 0..Slots : ReadMarkWord(i)

(* The three other locks: two are only ever exclusive, VACUUM excludes the  *)
(* readers.                                                                 *)
LockNames == {"write", "checkpoint", "vacuum"}
LockWord(l) == lock[l] \in [writer : BOOLEAN, readers : Nat]
LockWords ==
    /\ DOMAIN lock = LockNames /\ \A l \in LockNames : LockWord(l)
    /\ lock["write"].readers = 0 /\ lock["checkpoint"].readers = 0
    /\ lock["write"].writer <=> Writing # {}
    /\ lock["checkpoint"].writer <=> Checkpointing # {}
    /\ lock["vacuum"].writer <=> Vacuuming # {}
    /\ lock["vacuum"].readers = Cardinality(Reading)
    /\ lock["vacuum"].writer => lock["vacuum"].readers = 0
    /\ AtMostOne(Writing) /\ AtMostOne(Checkpointing)

LockInv == LockTypes /\ HeldByPc /\ ReadMarkWords /\ LockWords

-----------------------------------------------------------------------------
(* Counting connections.                                                    *)

LEMMA ConnsFinite ==
    ASSUME NEW S, S \subseteq Conns
    PROVE  IsFiniteSet(S) /\ Cardinality(S) \in Nat
  BY ConnsAssumption, FS_Subset, FS_CardinalityType

(* Two sets of connections that differ in c at most.                        *)
LEMMA CountStep ==
    ASSUME NEW S, NEW T, S \subseteq Conns, T \subseteq Conns, NEW c \in Conns,
           \A d \in Conns \ {c} : d \in S <=> d \in T
    PROVE  /\ Cardinality(S) \in Nat /\ Cardinality(T) \in Nat
           /\ (c \in S <=> c \in T) => Cardinality(T) = Cardinality(S)
           /\ c \notin S /\ c \in T => Cardinality(T) = Cardinality(S) + 1
           /\ c \in S /\ c \notin T =>
                Cardinality(S) > 0 /\ Cardinality(T) = Cardinality(S) - 1
  <1>1. /\ IsFiniteSet(S) /\ Cardinality(S) \in Nat
        /\ IsFiniteSet(T) /\ Cardinality(T) \in Nat
    BY ConnsFinite
  <1>2. CASE c \in S <=> c \in T
    <2>1. S = T
      BY <1>2
    <2> QED  BY <1>1, <1>2, <2>1
  <1>3. CASE c \notin S /\ c \in T
    <2>1. T = S \union {c}
      BY <1>3
    <2> QED  BY <1>1, <1>3, <2>1, FS_AddElement
  <1>4. CASE c \in S /\ c \notin T
    <2>1. S = T \union {c}
      BY <1>4
    <2>2. Cardinality(S) = Cardinality(T) + 1
      BY <1>1, <1>4, <2>1, FS_AddElement
    <2> QED  BY <1>1, <1>4, <2>2
  <1> QED  BY <1>2, <1>3, <1>4

LEMMA EmptyCount ==
    ASSUME NEW S, S \subseteq Conns
    PROVE  Cardinality(S) = 0 <=> S = {}
  BY ConnsFinite, FS_EmptySet

LEMMA AtMostOneCount ==
    ASSUME NEW S, S \subseteq Conns, AtMostOne(S)
    PROVE  Cardinality(S) = IF S = {} THEN 0 ELSE 1
  <1>1. CASE S = {}
    BY <1>1, FS_EmptySet
  <1>2. CASE S # {}
    <2>1. PICK c : c \in S
      BY <1>2
    <2>2. S = {c}
      BY <2>1 DEF AtMostOne
    <2> QED  BY <1>2, <2>2, FS_Singleton
  <1> QED  BY <1>1, <1>2

-----------------------------------------------------------------------------
(* Steps of one connection.                                                 *)

(* Step c leaves the other connections alone.                               *)
Local(c) ==
    \A d \in Conns \ {c} :
        /\ pc'[d] = pc[d] /\ guard'[d] = guard[d] /\ pick'[d] = pick[d]
        /\ tx'[d] = tx[d] /\ ckpt'[d] = ckpt[d]

InReading(c) == pc[c] \in {"choose", "lock"} \/ guard[c] # NO_LOCK_HELD
InWriting(c) == pc[c] \in WriteSteps \/ ckpt[c].held = "writer"
InRestarting(c) == pc[c] = "finalize" /\ RestartsLog(ckpt[c].mode)

LEMMA LocalHeld ==
    ASSUME HeldByPc, NEW c \in Conns, Local(c), HeldAt(c)'
    PROVE  HeldByPc'
  <1>1. ASSUME NEW d \in Conns \ {c}  PROVE HeldAt(d)'
    BY <1>1 DEF HeldByPc, Local, HeldAt, GuardKind
  <1> QED  BY <1>1 DEF HeldByPc

LEMMA LocalReaders ==
    ASSUME NEW c \in Conns, Local(c), NEW i
    PROVE  /\ Cardinality(ReadHolders(i)) \in Nat /\ Cardinality(ReadHolders(i))' \in Nat
           /\ (guard[c] = i <=> guard'[c] = i) =>
                Cardinality(ReadHolders(i))' = Cardinality(ReadHolders(i))
           /\ guard[c] # i /\ guard'[c] = i =>
                Cardinality(ReadHolders(i))' = Cardinality(ReadHolders(i)) + 1
           /\ guard[c] = i /\ guard'[c] # i =>
                /\ Cardinality(ReadHolders(i)) > 0
                /\ Cardinality(ReadHolders(i))' = Cardinality(ReadHolders(i)) - 1
  <1> DEFINE S == {d \in Conns : guard[d] = i}
             T == {d \in Conns : guard'[d] = i}
  <1>1. /\ S \subseteq Conns /\ T \subseteq Conns
        /\ \A d \in Conns \ {c} : d \in S <=> d \in T
    BY DEF Local
  <1>2. (c \in S <=> guard[c] = i) /\ (c \in T <=> guard'[c] = i)
    OBVIOUS
  <1>3. ReadHolders(i) = S /\ ReadHolders(i)' = T
    BY DEF ReadHolders
  <1> HIDE DEF S, T
  <1> QED  BY <1>1, <1>2, <1>3, CountStep

LEMMA LocalReading ==
    ASSUME NEW c \in Conns, Local(c)
    PROVE  /\ Cardinality(Reading) \in Nat /\ Cardinality(Reading)' \in Nat
           /\ (InReading(c) <=> InReading(c)') =>
                Cardinality(Reading)' = Cardinality(Reading)
           /\ ~InReading(c) /\ InReading(c)' =>
                Cardinality(Reading)' = Cardinality(Reading) + 1
           /\ InReading(c) /\ ~InReading(c)' =>
                /\ Cardinality(Reading) > 0
                /\ Cardinality(Reading)' = Cardinality(Reading) - 1
  <1> DEFINE S == Reading
             T == Reading'
  <1>1. /\ S \subseteq Conns /\ T \subseteq Conns
        /\ \A d \in Conns \ {c} : d \in S <=> d \in T
    BY DEF Local, Reading
  <1>2. (c \in S <=> InReading(c)) /\ (c \in T <=> InReading(c)')
    BY DEF Reading, InReading
  <1> HIDE DEF S, T
  <1>3. /\ Cardinality(S) \in Nat /\ Cardinality(T) \in Nat
        /\ (c \in S <=> c \in T) => Cardinality(T) = Cardinality(S)
        /\ c \notin S /\ c \in T => Cardinality(T) = Cardinality(S) + 1
        /\ c \in S /\ c \notin T =>
             Cardinality(S) > 0 /\ Cardinality(T) = Cardinality(S) - 1
    BY <1>1, CountStep
  <1> QED  BY <1>2, <1>3 DEF S, T

(* Membership of the other holder sets, before and after.                   *)
LEMMA LocalSets ==
    ASSUME NEW c \in Conns, Local(c)
    PROVE  /\ \A d \in Conns \ {c} :
                /\ d \in Writing' <=> d \in Writing
                /\ d \in Holding0' <=> d \in Holding0
                /\ d \in Checkpointing' <=> d \in Checkpointing
                /\ d \in Vacuuming' <=> d \in Vacuuming
                /\ d \in Restarting' <=> d \in Restarting
           /\ c \in Writing <=> InWriting(c)
           /\ c \in Writing' <=> InWriting(c)'
           /\ c \in Holding0 <=> ckpt[c].held \in {"read0", "writer"}
           /\ c \in Holding0' <=> ckpt'[c].held \in {"read0", "writer"}
           /\ c \in Checkpointing <=> ckpt[c].held # "none"
           /\ c \in Checkpointing' <=> ckpt'[c].held # "none"
           /\ c \in Vacuuming <=> tx[c].vacuum
           /\ c \in Vacuuming' <=> tx'[c].vacuum
           /\ c \in Restarting <=> InRestarting(c)
           /\ c \in Restarting' <=> InRestarting(c)'
  BY DEF Local, Writing, Holding0, Checkpointing, Vacuuming, Restarting,
         InWriting, InRestarting

(* A step that changes marks and moves inside one phase, no lock word.      *)
SameWords ==
    /\ DOMAIN slot' = 0..Slots
    /\ \A i \in 0..Slots :
        /\ SlotRecord(slot'[i])
        /\ slot'[i].writer = slot[i].writer /\ slot'[i].readers = slot[i].readers
Quiet(c) ==
    /\ Local(c) /\ lock' = lock /\ SameWords
    /\ guard'[c] = guard[c] /\ (InReading(c)' <=> InReading(c))
    /\ (InWriting(c)' <=> InWriting(c)) /\ (InRestarting(c)' <=> InRestarting(c))
    /\ ckpt'[c].held = ckpt[c].held /\ tx'[c].vacuum = tx[c].vacuum

LEMMA QuietStep ==
    ASSUME LockInv, NEW c \in Conns, Quiet(c)
    PROVE  ReadMarkWords' /\ LockWords'
  <1>1. Writing' = Writing /\ Holding0' = Holding0 /\ Checkpointing' = Checkpointing
        /\ Vacuuming' = Vacuuming /\ Restarting' = Restarting
    <2>1. /\ Writing' \subseteq Conns /\ Holding0' \subseteq Conns
          /\ Checkpointing' \subseteq Conns /\ Vacuuming' \subseteq Conns
          /\ Restarting' \subseteq Conns
          /\ Writing \subseteq Conns /\ Holding0 \subseteq Conns
          /\ Checkpointing \subseteq Conns /\ Vacuuming \subseteq Conns
          /\ Restarting \subseteq Conns
      BY DEF Writing, Holding0, Checkpointing, Vacuuming, Restarting
    <2>2. Local(c) /\ (InWriting(c)' <=> InWriting(c)) /\ (InRestarting(c)' <=> InRestarting(c))
          /\ ckpt'[c].held = ckpt[c].held /\ tx'[c].vacuum = tx[c].vacuum
      BY DEF Quiet
    <2>3. \A d \in Conns :
            /\ d \in Writing' <=> d \in Writing
            /\ d \in Holding0' <=> d \in Holding0
            /\ d \in Checkpointing' <=> d \in Checkpointing
            /\ d \in Vacuuming' <=> d \in Vacuuming
            /\ d \in Restarting' <=> d \in Restarting
      BY <2>2, LocalSets
    <2> QED  BY <2>1, <2>3
  <1>2. Cardinality(Reading)' = Cardinality(Reading)
    BY LocalReading DEF Quiet
  <1>3. ASSUME NEW i \in 0..Slots  PROVE ReadMarkWord(i)'
    <2>1. Cardinality(ReadHolders(i))' = Cardinality(ReadHolders(i))
      BY LocalReaders DEF Quiet
    <2>2. ReadMarkWord(i)
      BY DEF LockInv, ReadMarkWords
    <2>3. /\ SlotRecord(slot'[i])
          /\ slot'[i].writer = slot[i].writer /\ slot'[i].readers = slot[i].readers
      BY DEF Quiet, SameWords
    <2> QED  BY <1>1, <2>1, <2>2, <2>3 DEF ReadMarkWord
  <1>4. ReadMarkWords'
    BY <1>3 DEF ReadMarkWords, Quiet, SameWords
  <1>5. LockWords'
    BY <1>1, <1>2 DEF LockInv, LockWords, LockWord, Quiet
  <1> QED  BY <1>4, <1>5

-----------------------------------------------------------------------------
(* What a step does to the state of its connection.                         *)

(* The loops over the slots take the first of a set of them.                *)
LEMMA MinMark ==
    ASSUME NEW S, S \subseteq Marks, S # {}
    PROVE  Min(S) \in S /\ Min(S) \in 1..Slots /\ \A i \in S : Min(S) <= i
  <1>1. S \subseteq Nat /\ S \subseteq 1..Slots
    BY BoundsAssumption DEF Marks
  <1> QED  BY <1>1, MinOf

(* ChooseMark picks a slot of the array or none, and sets only a mark that   *)
(* nobody holds.                                                            *)
LEMMA ChosenMark ==
    ASSUME NEW c \in Conns, ChooseMark(c)
    PROVE  /\ \E s \in 0..NO_LOCK_HELD : \E m :
                pick' = [pick EXCEPT ![c].slot = s, ![c].mark = m]
           /\ \/ slot' = slot
              \/ \E i \in Marks : \E m : Free(slot[i]) /\ slot' = [slot EXCEPT ![i].mark = m]
  <1> DEFINE max  == pick[c].snap.max
             fit  == {i \in Marks : slot[i].mark # READMARK_NOT_USED /\ slot[i].mark \in 1..max}
             best == {i \in fit : \A j \in fit : slot[j].mark <= slot[i].mark}
             free == {i \in Marks : Free(slot[i])}
             low  == best = {} \/ slot[Min(best)].mark < max
  <1>1. best \subseteq Marks /\ free \subseteq Marks
    OBVIOUS
  <1>2. free # {} => Min(free) \in Marks /\ Free(slot[Min(free)])
    <2>1. free # {} => Min(free) \in free
      BY <1>1, MinMark
    <2> QED  BY <2>1
  <1>3. best # {} => Min(best) \in Marks
    BY <1>1, MinMark
  <1>4. Marks \subseteq 0..NO_LOCK_HELD /\ NO_LOCK_HELD \in 0..NO_LOCK_HELD
    BY SMTT(40), BoundsAssumption DEF Marks, NO_LOCK_HELD
  <1>5. IF low /\ free # {}
        THEN /\ slot' = [slot EXCEPT ![Min(free)].mark = max]
             /\ pick' = [pick EXCEPT ![c].slot = Min(free), ![c].mark = max]
        ELSE /\ pick' = [pick EXCEPT ![c].slot = IF best = {} THEN NO_LOCK_HELD ELSE Min(best),
                                     ![c].mark = IF best = {} THEN 0 ELSE slot[Min(best)].mark]
             /\ UNCHANGED slot
    BY DEF ChooseMark
  <1> HIDE DEF max, best, free, low
  <1> QED  BY <1>2, <1>3, <1>4, <1>5

(* A step on one connection's record keeps the types and the others' records. *)
PickStep(c) == PickTypes' /\ \A d \in Conns \ {c} : pick'[d] = pick[d]
TxStep(c) == TxTypes' /\ \A d \in Conns \ {c} : tx'[d] = tx[d]
CkptStep(c) == CkptTypes' /\ \A d \in Conns \ {c} : ckpt'[d] = ckpt[d]

LEMMA PickSteps ==
    ASSUME PickTypes, NEW c \in Conns
    PROVE  /\ UNCHANGED pick => PickStep(c) /\ pick'[c] = pick[c]
           /\ pick' = [pick EXCEPT ![c] = NoPick] => PickStep(c)
           /\ \A s \in 0..NO_LOCK_HELD : \A m, n :
                pick' = [pick EXCEPT ![c] = [slot |-> s, mark |-> m, snap |-> n]] => PickStep(c)
           /\ \A s \in 0..NO_LOCK_HELD : \A m :
                pick' = [pick EXCEPT ![c].slot = s, ![c].mark = m] => PickStep(c)
  <1> USE DEF PickTypes, PickRecord, PickStep
  <1>1. UNCHANGED pick => PickStep(c) /\ pick'[c] = pick[c]
    OBVIOUS
  <1>2. ASSUME NEW s \in 0..NO_LOCK_HELD, NEW m, NEW n,
               pick' = [pick EXCEPT ![c] = [slot |-> s, mark |-> m, snap |-> n]]
        PROVE  PickStep(c)
    BY <1>2
  <1>3. ASSUME pick' = [pick EXCEPT ![c] = NoPick]  PROVE PickStep(c)
    BY <1>2, <1>3, BoundsAssumption DEF NoPick, NO_LOCK_HELD
  <1>4. ASSUME NEW s \in 0..NO_LOCK_HELD, NEW m,
               pick' = [pick EXCEPT ![c].slot = s, ![c].mark = m]
        PROVE  PickStep(c)
    BY <1>4
  <1> QED  BY <1>1, <1>2, <1>3, <1>4

LEMMA TxSteps ==
    ASSUME TxTypes, NEW c \in Conns
    PROVE  /\ UNCHANGED tx => TxStep(c) /\ tx'[c].vacuum = tx[c].vacuum
           /\ tx' = [tx EXCEPT ![c] = NoTx] => TxStep(c) /\ ~tx'[c].vacuum
           /\ \A D, S : tx' = [tx EXCEPT ![c].dirty = D, ![c].spilled = S] =>
                TxStep(c) /\ tx'[c].vacuum = tx[c].vacuum
           /\ \A S : tx' = [tx EXCEPT ![c].spilled = S] =>
                TxStep(c) /\ tx'[c].vacuum = tx[c].vacuum
  <1> USE DEF TxTypes, TxRecord, TxStep
  <1>1. UNCHANGED tx => TxStep(c) /\ tx'[c].vacuum = tx[c].vacuum
    OBVIOUS
  <1>2. ASSUME tx' = [tx EXCEPT ![c] = NoTx]  PROVE TxStep(c) /\ ~tx'[c].vacuum
    <2>1. tx'[c] = NoTx
      BY <1>2
    <2> QED  BY <1>2, <2>1 DEF NoTx
  <1>3. ASSUME NEW D, NEW S, tx' = [tx EXCEPT ![c].dirty = D, ![c].spilled = S]
        PROVE  TxStep(c) /\ tx'[c].vacuum = tx[c].vacuum
    BY <1>3
  <1>4. ASSUME NEW S, tx' = [tx EXCEPT ![c].spilled = S]
        PROVE  TxStep(c) /\ tx'[c].vacuum = tx[c].vacuum
    BY <1>4
  <1> QED  BY <1>1, <1>2, <1>3, <1>4

(* What a step of the checkpoint keeps of its lock state.                   *)
CkptKept(c) ==
    /\ CkptStep(c) /\ ckpt'[c].held = ckpt[c].held
    /\ ckpt'[c].mode = ckpt[c].mode /\ ckpt'[c].all = ckpt[c].all

LEMMA CkptSteps ==
    ASSUME CkptTypes, NEW c \in Conns
    PROVE  /\ UNCHANGED ckpt => CkptKept(c)
           /\ ckpt' = [ckpt EXCEPT ![c] = NoCheckpoint] => CkptStep(c) /\ ckpt'[c].held = "none"
           /\ \A i : ckpt' = [ckpt EXCEPT ![c].scan = i] => CkptKept(c)
           /\ \A i, m : ckpt' = [ckpt EXCEPT ![c].scan = i, ![c].max = m] => CkptKept(c)
           /\ \A i, t : ckpt' = [ckpt EXCEPT ![c].scan = i, ![c].todo = t] => CkptKept(c)
           /\ \A t : ckpt' = [ckpt EXCEPT ![c].todo = t] => CkptKept(c)
           /\ \A a \in BOOLEAN : ckpt' = [ckpt EXCEPT ![c].all = a] =>
                /\ CkptStep(c) /\ ckpt'[c].held = ckpt[c].held
                /\ ckpt'[c].mode = ckpt[c].mode /\ ckpt'[c].all = a
           /\ \A h \in HeldKinds : \A m, i :
                \/ ckpt' = [ckpt EXCEPT ![c].held = h, ![c].max = m, ![c].scan = i]
                \/ ckpt' = [ckpt EXCEPT ![c].held = h]
                => /\ CkptStep(c) /\ ckpt'[c].held = h
                   /\ ckpt'[c].mode = ckpt[c].mode /\ ckpt'[c].all = ckpt[c].all
  <1> USE DEF CkptTypes, CkptRecord, CkptStep, CkptKept
  <1>1. UNCHANGED ckpt => CkptKept(c)
    OBVIOUS
  <1>2. ASSUME ckpt' = [ckpt EXCEPT ![c] = NoCheckpoint]
        PROVE  CkptStep(c) /\ ckpt'[c].held = "none"
    <2>1. ckpt'[c] = NoCheckpoint
      BY <1>2
    <2> QED  BY <1>2, <2>1 DEF NoCheckpoint, HeldKinds
  <1>3. ASSUME NEW i, ckpt' = [ckpt EXCEPT ![c].scan = i]  PROVE CkptKept(c)
    BY <1>3
  <1>4. ASSUME NEW i, NEW m, ckpt' = [ckpt EXCEPT ![c].scan = i, ![c].max = m]
        PROVE  CkptKept(c)
    BY <1>4
  <1>5. ASSUME NEW i, NEW t, ckpt' = [ckpt EXCEPT ![c].scan = i, ![c].todo = t]
        PROVE  CkptKept(c)
    BY <1>5
  <1>6. ASSUME NEW t, ckpt' = [ckpt EXCEPT ![c].todo = t]  PROVE CkptKept(c)
    BY <1>6
  <1>7. ASSUME NEW a \in BOOLEAN, ckpt' = [ckpt EXCEPT ![c].all = a]
        PROVE  /\ CkptStep(c) /\ ckpt'[c].held = ckpt[c].held
               /\ ckpt'[c].mode = ckpt[c].mode /\ ckpt'[c].all = a
    BY <1>7
  <1>8. ASSUME NEW h \in HeldKinds, NEW m, NEW i,
               \/ ckpt' = [ckpt EXCEPT ![c].held = h, ![c].max = m, ![c].scan = i]
               \/ ckpt' = [ckpt EXCEPT ![c].held = h]
        PROVE  /\ CkptStep(c) /\ ckpt'[c].held = h
               /\ ckpt'[c].mode = ckpt[c].mode /\ ckpt'[c].all = ckpt[c].all
    <2>1. CASE ckpt' = [ckpt EXCEPT ![c].held = h]
      BY <2>1
    <2>2. CASE ckpt' = [ckpt EXCEPT ![c].held = h, ![c].max = m, ![c].scan = i]
      BY <2>2
    <2> QED  BY <1>8, <2>1, <2>2
  <1> QED  BY <1>1, <1>2, <1>3, <1>4, <1>5, <1>6, <1>7, <1>8

(* pc and guard of one connection move.                                     *)
PcStep(c, q, g) ==
    /\ PcTypes' /\ pc'[c] = q /\ guard'[c] = g
    /\ \A d \in Conns \ {c} : pc'[d] = pc[d] /\ guard'[d] = guard[d]

ShapeAfter(c) == LockTypes' /\ HeldAt(c)' /\ Local(c)

LEMMA ShapeFrom ==
    ASSUME LockInv, NEW c \in Conns, NEW q, NEW g, PcStep(c, q, g),
           PickStep(c), TxStep(c), CkptStep(c), HeldAt(c)'
    PROVE  ShapeAfter(c)
  BY DEF ShapeAfter, LockTypes, Local, PcStep, PickStep, TxStep, CkptStep

LEMMA ReadShapes ==
    ASSUME LockInv, NEW c \in Conns,
           BeginRead(c) \/ ChooseMark(c) \/ LockMark(c) \/ RetryRead(c) \/ EndRead(c)
    PROVE  ShapeAfter(c)
  <1>1. /\ PcTypes /\ PickTypes /\ TxTypes /\ CkptTypes /\ HeldAt(c)
        /\ pc[c] \in AllPcs /\ guard[c] \in 0..NO_LOCK_HELD
        /\ NO_LOCK_HELD \in 0..NO_LOCK_HELD /\ 0 \in 0..NO_LOCK_HELD
    BY SMTT(40), BoundsAssumption DEF LockInv, LockTypes, HeldByPc, PcTypes, NO_LOCK_HELD
  <1>2. UNCHANGED <<tx, ckpt>>
    BY DEF BeginRead, ChooseMark, LockMark, RetryRead, EndRead
  <1>3. TxStep(c) /\ CkptKept(c) /\ tx'[c].vacuum = tx[c].vacuum
    BY <1>1, <1>2, TxSteps, CkptSteps
  <1>4. CkptStep(c) /\ ckpt'[c].held = ckpt[c].held
    BY <1>3 DEF CkptKept
  <1>5. PickStep(c)
    <2>1. CASE BeginRead(c)
      BY <2>1, <1>1, PickSteps DEF BeginRead
    <2>2. CASE ChooseMark(c)
      BY <2>2, <1>1, ChosenMark, PickSteps
    <2>3. CASE LockMark(c) \/ RetryRead(c) \/ EndRead(c)
      BY <2>3, <1>1, PickSteps DEF LockMark, RetryRead, EndRead
    <2> QED  BY <2>1, <2>2, <2>3
  <1>6. \E q \in {"idle", "choose", "lock", "read"}, g \in 0..NO_LOCK_HELD :
          PcStep(c, q, g) /\ (g # NO_LOCK_HELD <=> q = "read")
    <2>1. /\ {"idle", "choose", "lock", "read"} \subseteq AllPcs
          /\ pc[c] # "read" /\ pc[c] \notin WriteSteps => guard[c] = NO_LOCK_HELD
      BY <1>1 DEF HeldAt, AllPcs, LockPcs
    <2>2. CASE BeginRead(c) \/ ChooseMark(c) \/ RetryRead(c)
      <3>1. guard' = guard /\ guard[c] = NO_LOCK_HELD
        BY ZenonT(60), <2>1, <2>2 DEF BeginRead, ChooseMark, RetryRead, WriteSteps
      <3>2. PICK q \in {"idle", "choose", "lock"} : pc' = [pc EXCEPT ![c] = q]
        BY <2>2 DEF BeginRead, ChooseMark, RetryRead
      <3>3. PcStep(c, q, NO_LOCK_HELD)
        BY <1>1, <2>1, <3>1, <3>2 DEF PcTypes, PcStep
      <3> QED  BY SMTT(40), <1>1, <3>3
    <2>3. CASE LockMark(c)
      <3>1. pick[c].slot \in 0..NO_LOCK_HELD /\ pick[c].slot # NO_LOCK_HELD
        BY <1>1, <2>3 DEF LockMark, Validated, PickTypes
      <3>2. guard' = [guard EXCEPT ![c] = pick[c].slot] /\ pc' = [pc EXCEPT ![c] = "read"]
        BY <2>3 DEF LockMark
      <3>3. PcStep(c, "read", pick[c].slot)
        BY <1>1, <2>1, <3>1, <3>2 DEF PcTypes, PcStep
      <3> QED  BY <3>1, <3>3
    <2>4. CASE EndRead(c)
      <3>1. guard' = [guard EXCEPT ![c] = NO_LOCK_HELD] /\ pc' = [pc EXCEPT ![c] = "idle"]
        BY <2>4 DEF EndRead
      <3>2. PcStep(c, "idle", NO_LOCK_HELD)
        BY SMTT(40), <1>1, <2>1, <3>1 DEF PcTypes, PcStep
      <3> QED  BY <1>1, <3>2
    <2> QED  BY <2>2, <2>3, <2>4
  <1>7. pc[c] \in {"idle", "choose", "lock", "read"}
    BY DEF BeginRead, ChooseMark, LockMark, RetryRead, EndRead
  <1>8. HeldAt(c)'
    BY <1>1, <1>3, <1>4, <1>6, <1>7 DEF HeldAt, PcStep, WriteSteps, CheckpointSteps
  <1> QED  BY <1>3, <1>4, <1>5, <1>6, <1>8, ShapeFrom

(* What LockInv says of the connection that steps.                          *)
LEMMA StepFacts ==
    ASSUME LockInv, NEW c \in Conns
    PROVE  /\ PcTypes /\ PickTypes /\ TxTypes /\ CkptTypes /\ HeldAt(c)
           /\ pc[c] \in AllPcs /\ guard[c] \in 0..NO_LOCK_HELD
           /\ NO_LOCK_HELD \in 0..NO_LOCK_HELD /\ 0 \in 0..NO_LOCK_HELD
           /\ tx[c].vacuum \in BOOLEAN /\ ckpt[c].held \in HeldKinds
           /\ ckpt[c].mode \in {"Passive", "Full", "Restart", "Truncate"}
           /\ ckpt[c].all \in BOOLEAN
  BY BoundsAssumption DEF LockInv, LockTypes, HeldByPc, PcTypes, NO_LOCK_HELD, TxTypes, CkptTypes

LEMMA WriteShapes ==
    ASSUME LockInv, NEW c \in Conns,
           \/ \E p \in Pages : ReadPage(c, p) \/ Modify(c, p) \/ SpillPage(c, p)
           \/ BeginWriteTx(c) \/ TryRestartLog(c) \/ PrepareWal(c) \/ PrepareWalSync(c)
           \/ WriteFrames(c) \/ SyncWal(c) \/ WalCommitDone(c) \/ EndCommit(c)
           \/ RollbackTx(c) /\ pc[c] \in WriteSteps
    PROVE  ShapeAfter(c)
  <1>1. /\ PcTypes /\ PickTypes /\ TxTypes /\ CkptTypes /\ HeldAt(c)
        /\ pc[c] \in AllPcs /\ guard[c] \in 0..NO_LOCK_HELD /\ NO_LOCK_HELD \in 0..NO_LOCK_HELD
    BY SMTT(40), StepFacts
  <1>2. UNCHANGED pick
    BY ZenonT(60) DEF ReadPage, Modify, SpillPage, BeginWriteTx, TryRestartLog, PrepareWal,
                      PrepareWalSync, WriteFrames, SyncWal, WalCommitDone, EndCommit, RollbackTx
  <1>3. PickStep(c)
    BY <1>1, <1>2, PickSteps
  <1>4. CASE \E p \in Pages : ReadPage(c, p) \/ Modify(c, p) \/ SpillPage(c, p)
    <2>1. PICK p \in Pages : ReadPage(c, p) \/ Modify(c, p) \/ SpillPage(c, p)
      BY <1>4
    <2>2. UNCHANGED <<pc, guard, ckpt>>
      BY <2>1 DEF ReadPage, Modify, SpillPage
    <2>3. PcStep(c, pc[c], guard[c])
      BY <1>1, <2>2 DEF PcTypes, PcStep
    <2>4. CkptKept(c)
      BY <1>1, <2>2, CkptSteps
    <2>5. TxStep(c) /\ tx'[c].vacuum = tx[c].vacuum
      <3> USE DEF TxTypes, TxRecord, TxStep
      <3>1. CASE ReadPage(c, p)   BY <1>1, <3>1 DEF ReadPage
      <3>2. CASE Modify(c, p)     BY ZenonT(60), <1>1, <3>2 DEF Modify
      <3>3. CASE SpillPage(c, p)
        <4>1. tx' = [tx EXCEPT ![c].spilled = @ \union {p}]
          BY <3>3 DEF SpillPage
        <4> QED  BY <1>1, <4>1
      <3> QED  BY <2>1, <3>1, <3>2, <3>3
    <2>6. HeldAt(c)'
      BY <1>1, <2>3, <2>4, <2>5 DEF HeldAt, PcStep, CkptKept, GuardKind
    <2> QED  BY <1>3, <2>3, <2>4, <2>5, <2>6, ShapeFrom DEF CkptKept
  <1>5. CASE BeginWriteTx(c)
    <2>1. pc[c] = "read" /\ pc' = [pc EXCEPT ![c] = "restart"] /\ UNCHANGED <<guard, ckpt>>
          /\ tx' = [tx EXCEPT ![c] = [NoTx EXCEPT !.id = txns + 1]]
      BY <1>5 DEF BeginWriteTx
    <2>2. PcStep(c, "restart", guard[c])
      BY <1>1, <2>1 DEF PcTypes, PcStep, AllPcs, WriteSteps
    <2>3. CkptKept(c)
      BY <1>1, <2>1, CkptSteps
    <2>4. TxStep(c) /\ ~tx'[c].vacuum
      <3> DEFINE r == [NoTx EXCEPT !.id = txns + 1]
      <3>1. TxRecord(r) /\ r.vacuum = FALSE
        BY DEF NoTx, TxRecord
      <3>2. tx' = [tx EXCEPT ![c] = r]
        BY <2>1
      <3> HIDE DEF r
      <3> QED  BY <1>1, <3>1, <3>2 DEF TxTypes, TxStep
    <2>5. HeldAt(c)'
      BY <1>1, <2>1, <2>2, <2>3, <2>4
         DEF HeldAt, PcStep, CkptKept, WriteSteps, CheckpointSteps
    <2> QED  BY <1>3, <2>2, <2>3, <2>4, <2>5, ShapeFrom DEF CkptKept
  <1>6. CASE \/ TryRestartLog(c) \/ PrepareWal(c) \/ PrepareWalSync(c) \/ WriteFrames(c)
             \/ SyncWal(c) \/ WalCommitDone(c)
    <2>1. UNCHANGED <<guard, tx, ckpt>> /\ pc[c] \in WriteSteps
      BY ZenonT(60), <1>6 DEF TryRestartLog, PrepareWal, PrepareWalSync, WriteFrames, SyncWal,
                  WalCommitDone, WriteSteps
    <2>2. PICK q \in WriteSteps \ {"restart"} : pc' = [pc EXCEPT ![c] = q]
      BY <1>6 DEF TryRestartLog, PrepareWal, PrepareWalSync, WriteFrames, SyncWal,
                  WalCommitDone, WriteSteps
    <2>3. PcStep(c, q, guard[c])
      BY <1>1, <2>1, <2>2 DEF PcTypes, PcStep, AllPcs
    <2>4. CkptKept(c) /\ TxStep(c) /\ tx'[c].vacuum = tx[c].vacuum
      BY <1>1, <2>1, CkptSteps, TxSteps
    <2>5. HeldAt(c)'
      BY <1>1, <2>1, <2>2, <2>3, <2>4
         DEF HeldAt, PcStep, CkptKept, WriteSteps, CheckpointSteps
    <2> QED  BY SMTT(40), <1>3, <2>3, <2>4, <2>5, ShapeFrom DEF CkptKept
  <1>7. CASE EndCommit(c)
    <2>1. PICK q \in {"auto", "idle"} : pc' = [pc EXCEPT ![c] = q]
      BY <1>7 DEF EndCommit
    <2>2. /\ pc[c] = "committed" /\ ~tx[c].vacuum /\ UNCHANGED ckpt
          /\ guard' = [guard EXCEPT ![c] = NO_LOCK_HELD] /\ tx' = [tx EXCEPT ![c] = NoTx]
      BY <1>7 DEF EndCommit
    <2>3. PcStep(c, q, NO_LOCK_HELD)
      BY <1>1, <2>1, <2>2 DEF PcTypes, PcStep, AllPcs, LockPcs
    <2>4. CkptKept(c) /\ TxStep(c) /\ ~tx'[c].vacuum
      BY <1>1, <2>2, CkptSteps, TxSteps
    <2>5. HeldAt(c)'
      BY <1>1, <2>1, <2>2, <2>3, <2>4
         DEF HeldAt, PcStep, CkptKept, WriteSteps, CheckpointSteps
    <2> QED  BY <1>3, <2>3, <2>4, <2>5, ShapeFrom DEF CkptKept
  <1>8. CASE RollbackTx(c) /\ pc[c] \in WriteSteps
    <2>1. /\ ckpt' = [ckpt EXCEPT ![c] = NoCheckpoint] /\ pc' = [pc EXCEPT ![c] = "idle"]
          /\ guard' = [guard EXCEPT ![c] = NO_LOCK_HELD] /\ tx' = [tx EXCEPT ![c] = NoTx]
      BY <1>8 DEF RollbackTx
    <2>2. PcStep(c, "idle", NO_LOCK_HELD)
      BY <1>1, <2>1 DEF PcTypes, PcStep, AllPcs, LockPcs
    <2>3. CkptStep(c) /\ ckpt'[c].held = "none" /\ TxStep(c) /\ ~tx'[c].vacuum
      BY <1>1, <2>1, CkptSteps, TxSteps
    <2>4. HeldAt(c)'
      BY <2>2, <2>3 DEF HeldAt, PcStep, WriteSteps, CheckpointSteps
    <2> QED  BY <1>3, <2>2, <2>3, <2>4, ShapeFrom
  <1> QED  BY <1>4, <1>5, <1>6, <1>7, <1>8

(* A checkpoint that returns holds nothing any more.                        *)
LEMMA EndShape ==
    ASSUME LockInv, NEW c \in Conns, EndCheckpoint(c), UNCHANGED <<guard, pick>>,
           pc[c] \in CheckpointSteps \union {"vacuum"}
    PROVE  ShapeAfter(c) /\ pc'[c] = "idle" /\ ckpt'[c].held = "none" /\ ~tx'[c].vacuum
           /\ guard[c] = NO_LOCK_HELD /\ guard'[c] = NO_LOCK_HELD
  <1>1. /\ PcTypes /\ PickTypes /\ TxTypes /\ CkptTypes /\ HeldAt(c)
        /\ guard[c] \in 0..NO_LOCK_HELD
    BY StepFacts
  <1>2. guard[c] = NO_LOCK_HELD
    BY <1>1 DEF HeldAt, CheckpointSteps, WriteSteps
  <1>3. PcStep(c, "idle", NO_LOCK_HELD)
    BY <1>1, <1>2 DEF PcTypes, PcStep, AllPcs, LockPcs, EndCheckpoint
  <1>4. /\ CkptStep(c) /\ ckpt'[c].held = "none" /\ TxStep(c) /\ ~tx'[c].vacuum
        /\ PickStep(c)
    BY <1>1, CkptSteps, TxSteps, PickSteps DEF EndCheckpoint
  <1>5. HeldAt(c)'
    BY <1>3, <1>4 DEF HeldAt, PcStep, WriteSteps, CheckpointSteps
  <1> QED  BY <1>2, <1>3, <1>4, <1>5, ShapeFrom DEF PcStep

(* A checkpoint between its guard and its result moves only its cursor.      *)
LEMMA ScanKept ==
    ASSUME CkptTypes, NEW c \in Conns, ScanMark(c) \/ ListFrames(c) \/ Backfill(c)
    PROVE  CkptKept(c)
  <1>1. CASE ScanMark(c)
    <2>1. \/ ckpt' = [ckpt EXCEPT ![c].scan = ckpt[c].scan + 1]
          \/ ckpt' = [ckpt EXCEPT ![c].scan = ckpt[c].scan + 1,
                                  ![c].max = slot[ckpt[c].scan].mark]
      BY <1>1 DEF ScanMark
    <2> QED  BY <2>1 DEF CkptTypes, CkptRecord, CkptStep, CkptKept
  <1>2. CASE ListFrames(c)
    <2> DEFINE latest == [p \in Pages |->
                            LatestFrame(frame_cache, p, ckpt[c].old + 1, ckpt[c].max)]
               t == {<<p, latest[p]>> : p \in {q1 \in Pages : latest[q1] # 0}}
    <2>1. ckpt' = [ckpt EXCEPT ![c].scan = 1, ![c].todo = t]
      BY <1>2 DEF ListFrames
    <2> HIDE DEF t
    <2> QED  BY <2>1, CkptSteps
  <1>3. CASE Backfill(c)
    <2>1. PICK t \in ckpt[c].todo : ckpt' = [ckpt EXCEPT ![c].todo = @ \ {t}]
      BY <1>3 DEF Backfill
    <2> QED  BY <2>1 DEF CkptTypes, CkptRecord, CkptStep, CkptKept
  <1> QED  BY <1>1, <1>2, <1>3

LEMMA CheckpointShapes ==
    ASSUME LockInv, NEW c \in Conns, CheckpointStep(c)
    PROVE  ShapeAfter(c)
  <1>1. /\ PcTypes /\ PickTypes /\ TxTypes /\ CkptTypes /\ HeldAt(c)
        /\ pc[c] \in AllPcs /\ guard[c] \in 0..NO_LOCK_HELD /\ NO_LOCK_HELD \in 0..NO_LOCK_HELD
        /\ ckpt[c].mode \in {"Passive", "Full", "Restart", "Truncate"}
    BY StepFacts
  <1>2. UNCHANGED <<guard, pick>>
    BY DEF CheckpointStep, Checkpoint, StartCheckpoint, SkipAutoCheckpoint, AcquireGuard,
           CheckpointBusy, ScanMark, ListFrames, Backfill, DetermineResult, FinalizeWal,
           SyncDbFile, PublishBackfill, TruncateWal, SyncTruncatedWal, FinishCheckpoint,
           CheckpointFails
  <1>3. PickStep(c)
    BY <1>1, <1>2, PickSteps
  <1>4. CASE Checkpoint(c)
    <2>1. PICK m \in {"Passive", "Full", "Restart", "Truncate"}, auto \in BOOLEAN :
            StartCheckpoint(c, m, auto)
      BY <1>4, ModesAssumption DEF Checkpoint
    <2>2. /\ pc[c] \in {"idle", "auto"} /\ pc' = [pc EXCEPT ![c] = "guard"] /\ UNCHANGED tx
          /\ ckpt' = [ckpt EXCEPT ![c] =
                        [NoCheckpoint EXCEPT !.mode = m, !.auto = auto, !.old = shared.nb]]
      BY <2>1 DEF StartCheckpoint
    <2>3. PcStep(c, "guard", guard[c])
      BY <1>1, <1>2, <2>2 DEF PcTypes, PcStep, AllPcs, CheckpointSteps
    <2>4. TxStep(c) /\ tx'[c].vacuum = tx[c].vacuum
      BY <1>1, <2>2, TxSteps
    <2>5. CkptStep(c) /\ ckpt'[c].held = "none"
      <3> DEFINE r == [NoCheckpoint EXCEPT !.mode = m, !.auto = auto, !.old = shared.nb]
      <3>1. CkptRecord(r) /\ r.mode = m /\ r.held = "none" /\ r.all = FALSE
        BY DEF NoCheckpoint, CkptRecord
      <3> HIDE DEF r
      <3> QED  BY <1>1, <2>2, <3>1 DEF CkptTypes, CkptStep, HeldKinds, r
    <2>6. HeldAt(c)'
      BY <1>1, <2>2, <2>3, <2>4, <2>5 DEF HeldAt, PcStep, WriteSteps, CheckpointSteps
    <2> QED  BY <1>3, <2>3, <2>4, <2>5, <2>6, ShapeFrom
  <1>5. CASE AcquireGuard(c)
    <2>1. /\ pc[c] = "guard" /\ pc' = [pc EXCEPT ![c] = "scan"] /\ UNCHANGED tx
          /\ ckpt' = [ckpt EXCEPT ![c].held = GuardKind(c), ![c].max = shared.max, ![c].scan = 1]
      BY <1>5 DEF AcquireGuard
    <2>2. PcStep(c, "scan", guard[c])
      BY <1>1, <1>2, <2>1 DEF PcTypes, PcStep, AllPcs, CheckpointSteps
    <2>3. TxStep(c) /\ tx'[c].vacuum = tx[c].vacuum
      BY <1>1, <2>1, TxSteps
    <2>4. GuardKind(c) \in HeldKinds
      BY DEF GuardKind, HeldKinds
    <2>5. /\ CkptStep(c) /\ ckpt'[c].held = GuardKind(c)
          /\ ckpt'[c].mode = ckpt[c].mode /\ ckpt'[c].all = ckpt[c].all
      BY <1>1, <2>1, <2>4, CkptSteps
    <2>6. HeldAt(c)'
      BY <1>1, <2>1, <2>2, <2>3, <2>5
         DEF HeldAt, PcStep, WriteSteps, CheckpointSteps, GuardKind
    <2> QED  BY <1>3, <2>2, <2>3, <2>5, <2>6, ShapeFrom
  <1>6. CASE SkipAutoCheckpoint(c) \/ SyncDbFile(c) \/ PublishBackfill(c) \/ TruncateWal(c)
             \/ SyncTruncatedWal(c)
    <2>1. UNCHANGED <<tx, ckpt>>
      BY <1>6 DEF SkipAutoCheckpoint, SyncDbFile, PublishBackfill, TruncateWal, SyncTruncatedWal
    <2>2. PICK q : /\ pc' = [pc EXCEPT ![c] = q]
                   /\ \/ pc[c] = "auto" /\ q = "idle"
                      \/ /\ pc[c] \in {"dbsync", "backfilled", "truncate", "truncated"}
                         /\ q \in {"backfilled", "truncate", "truncated", "finish"}
      BY <1>6 DEF SkipAutoCheckpoint, SyncDbFile, PublishBackfill, TruncateWal, SyncTruncatedWal
    <2>3. PcStep(c, q, guard[c])
      BY <1>1, <1>2, <2>2 DEF PcTypes, PcStep, AllPcs, CheckpointSteps, LockPcs
    <2>4. TxStep(c) /\ tx'[c].vacuum = tx[c].vacuum /\ CkptKept(c)
      BY <1>1, <2>1, TxSteps, CkptSteps
    <2>5. HeldAt(c)'
      BY <1>1, <2>2, <2>3, <2>4
         DEF HeldAt, PcStep, WriteSteps, CheckpointSteps, GuardKind, CkptKept
    <2> QED  BY <1>3, <2>3, <2>4, <2>5, ShapeFrom DEF CkptKept
  <1>7. CASE ScanMark(c) \/ ListFrames(c) \/ Backfill(c)
    <2>1. UNCHANGED tx /\ pc[c] \in {"scan", "backfill"}
      BY <1>7 DEF ScanMark, ListFrames, Backfill
    <2>2. pc'[c] \in {"scan", "backfill"} /\ PcStep(c, pc'[c], guard[c])
      <3> USE DEF PcTypes, PcStep, AllPcs, CheckpointSteps
      <3>1. CASE ScanMark(c) \/ Backfill(c)
        <4>1. pc' = pc
          BY <3>1 DEF ScanMark, Backfill
        <4> QED  BY <1>1, <1>2, <2>1, <4>1
      <3>2. CASE ListFrames(c)
        <4>1. pc' = [pc EXCEPT ![c] = "backfill"]
          BY <3>2 DEF ListFrames
        <4> QED  BY <1>1, <1>2, <4>1
      <3> QED  BY <1>7, <3>1, <3>2
    <2>4. CkptKept(c)
      BY <1>1, <1>7, ScanKept
    <2>5. TxStep(c) /\ tx'[c].vacuum = tx[c].vacuum
      BY <1>1, <2>1, TxSteps
    <2>6. HeldAt(c)'
      BY <1>1, <2>1, <2>2, <2>4, <2>5
         DEF HeldAt, PcStep, WriteSteps, CheckpointSteps, GuardKind, CkptKept
    <2> QED  BY <1>3, <2>2, <2>4, <2>5, <2>6, ShapeFrom DEF CkptKept
  <1>8. CASE DetermineResult(c)
    <2>1. pc[c] = "backfill"
      BY <1>8 DEF DetermineResult
    <2>2. CASE EndCheckpoint(c)
      BY <1>2, <2>1, <2>2, EndShape DEF CheckpointSteps
    <2>3. CASE ~EndCheckpoint(c)
      <3>1. PICK a \in BOOLEAN : /\ ckpt' = [ckpt EXCEPT ![c].all = a]
                                 /\ a \/ ckpt[c].mode = "Passive"
                                 /\ pc' = [pc EXCEPT ![c] = "finalize"] /\ UNCHANGED tx
        BY <1>8, <2>3 DEF DetermineResult
      <3>2. PcStep(c, "finalize", guard[c])
        BY <1>1, <1>2, <3>1 DEF PcTypes, PcStep, AllPcs, CheckpointSteps
      <3>3. TxStep(c) /\ tx'[c].vacuum = tx[c].vacuum
        BY <1>1, <3>1, TxSteps
      <3>4. /\ CkptStep(c) /\ ckpt'[c].held = ckpt[c].held
            /\ ckpt'[c].mode = ckpt[c].mode /\ ckpt'[c].all = a
        BY <1>1, <3>1, CkptSteps
      <3>5. HeldAt(c)'
        BY <1>1, <2>1, <3>1, <3>2, <3>3, <3>4
           DEF HeldAt, PcStep, WriteSteps, CheckpointSteps, GuardKind
      <3> QED  BY <1>3, <3>2, <3>3, <3>4, <3>5, ShapeFrom
    <2> QED  BY <2>2, <2>3
  <1>9. CASE FinalizeWal(c)
    <2>1. PICK q \in {"truncate", "dbsync", "finish"} : pc' = [pc EXCEPT ![c] = q]
      BY <1>9 DEF FinalizeWal
    <2>2. /\ pc[c] = "finalize" /\ UNCHANGED tx
          /\ ckpt' = IF ckpt[c].all THEN ckpt ELSE [ckpt EXCEPT ![c].held = "none"]
      BY <1>9 DEF FinalizeWal
    <2>3. PcStep(c, q, guard[c])
      BY <1>1, <1>2, <2>1 DEF PcTypes, PcStep, AllPcs, CheckpointSteps
    <2>4. TxStep(c) /\ tx'[c].vacuum = tx[c].vacuum
      BY <1>1, <2>2, TxSteps
    <2>5. /\ CkptStep(c) /\ ckpt'[c].mode = ckpt[c].mode
          /\ ckpt'[c].held = IF ckpt[c].all THEN ckpt[c].held ELSE "none"
      <3>1. "none" \in HeldKinds
        BY DEF HeldKinds
      <3> QED  BY <1>1, <2>2, <3>1, CkptSteps DEF CkptKept
    <2>6. HeldAt(c)'
      BY <1>1, <2>1, <2>2, <2>3, <2>4, <2>5
         DEF HeldAt, PcStep, WriteSteps, CheckpointSteps, GuardKind
    <2> QED  BY <1>3, <2>3, <2>4, <2>5, <2>6, ShapeFrom
  <1>10. CASE CheckpointBusy(c) \/ FinishCheckpoint(c) \/ CheckpointFails(c)
    <2>1. EndCheckpoint(c) /\ pc[c] \in CheckpointSteps
      BY <1>10 DEF CheckpointBusy, FinishCheckpoint, CheckpointFails, CheckpointSteps
    <2> QED  BY <1>2, <2>1, EndShape
  <1> QED  BY <1>4, <1>5, <1>6, <1>7, <1>8, <1>9, <1>10 DEF CheckpointStep

LEMMA VacuumShapes ==
    ASSUME LockInv, NEW c \in Conns, VacuumStep(c)
    PROVE  ShapeAfter(c)
  <1>1. /\ PcTypes /\ PickTypes /\ TxTypes /\ CkptTypes /\ HeldAt(c)
        /\ pc[c] \in AllPcs /\ guard[c] \in 0..NO_LOCK_HELD /\ NO_LOCK_HELD \in 0..NO_LOCK_HELD
    BY StepFacts
  <1>2. UNCHANGED <<guard, pick>>
    BY DEF VacuumStep, BeginVacuum, BeginVacuumTx, VacuumBusy, EndVacuumCommit
  <1>3. PickStep(c)
    BY <1>1, <1>2, PickSteps
  <1>4. CASE VacuumBusy(c)
    BY <1>2, <1>4, EndShape DEF VacuumBusy
  <1>5. CASE BeginVacuum(c)
    <2>1. /\ pc[c] = "idle" /\ pc' = [pc EXCEPT ![c] = "vacuum"] /\ UNCHANGED tx
          /\ ckpt' = [ckpt EXCEPT ![c] = [NoCheckpoint EXCEPT !.held = "raw"]]
      BY <1>5 DEF BeginVacuum
    <2>2. PcStep(c, "vacuum", guard[c])
      BY <1>1, <1>2, <2>1 DEF PcTypes, PcStep, AllPcs, LockPcs
    <2>3. TxStep(c) /\ tx'[c].vacuum = tx[c].vacuum
      BY <1>1, <2>1, TxSteps
    <2>4. CkptStep(c) /\ ckpt'[c].held = "raw"
      <3> DEFINE r == [NoCheckpoint EXCEPT !.held = "raw"]
      <3>1. CkptRecord(r) /\ r.mode = "Passive" /\ r.held = "raw" /\ r.all = FALSE
        BY DEF NoCheckpoint, CkptRecord
      <3> HIDE DEF r
      <3> QED  BY <1>1, <2>1, <3>1 DEF CkptTypes, CkptStep, HeldKinds, r
    <2>5. HeldAt(c)'
      BY <1>1, <2>1, <2>2, <2>3, <2>4 DEF HeldAt, PcStep, WriteSteps, CheckpointSteps
    <2> QED  BY <1>3, <2>2, <2>3, <2>4, <2>5, ShapeFrom
  <1>6. CASE BeginVacuumTx(c)
    <2>1. /\ pc[c] = "vacuum" /\ pc' = [pc EXCEPT ![c] = "write"] /\ UNCHANGED ckpt
          /\ tx' = [tx EXCEPT ![c] = [id |-> txns + 1, dirty |-> Pages, spilled |-> {},
                                      vacuum |-> TRUE]]
      BY <1>6 DEF BeginVacuumTx
    <2>2. PcStep(c, "write", guard[c])
      BY <1>1, <1>2, <2>1 DEF PcTypes, PcStep, AllPcs, WriteSteps
    <2>3. CkptKept(c)
      BY <1>1, <2>1, CkptSteps
    <2>4. TxStep(c) /\ tx'[c].vacuum
      BY <1>1, <2>1 DEF TxTypes, TxRecord, TxStep
    <2>5. HeldAt(c)'
      BY <1>1, <2>1, <2>2, <2>3, <2>4
         DEF HeldAt, PcStep, CkptKept, WriteSteps, CheckpointSteps
    <2> QED  BY <1>3, <2>2, <2>3, <2>4, <2>5, ShapeFrom DEF CkptKept
  <1>7. CASE EndVacuumCommit(c)
    <2>1. /\ pc[c] = "committed" /\ tx[c].vacuum
          /\ pc' = [pc EXCEPT ![c] = "guard"] /\ UNCHANGED tx
          /\ ckpt' = [ckpt EXCEPT ![c] = [NoCheckpoint EXCEPT !.mode = "Truncate", !.held = "raw",
                                                              !.old = shared.nb]]
      BY <1>7 DEF EndVacuumCommit
    <2>2. PcStep(c, "guard", guard[c])
      BY <1>1, <1>2, <2>1 DEF PcTypes, PcStep, AllPcs, CheckpointSteps
    <2>3. TxStep(c) /\ tx'[c].vacuum = tx[c].vacuum
      BY <1>1, <2>1, TxSteps
    <2>4. CkptStep(c) /\ ckpt'[c].held = "raw" /\ ckpt'[c].mode = "Truncate"
      <3> DEFINE r == [NoCheckpoint EXCEPT !.mode = "Truncate", !.held = "raw", !.old = shared.nb]
      <3>1. CkptRecord(r) /\ r.mode = "Truncate" /\ r.held = "raw" /\ r.all = FALSE
        BY DEF NoCheckpoint, CkptRecord
      <3> HIDE DEF r
      <3> QED  BY <1>1, <2>1, <3>1 DEF CkptTypes, CkptStep, HeldKinds, r
    <2>5. HeldAt(c)'
      BY <1>1, <2>1, <2>2, <2>3, <2>4 DEF HeldAt, PcStep, WriteSteps, CheckpointSteps
    <2> QED  BY <1>3, <2>2, <2>3, <2>4, <2>5, ShapeFrom
  <1> QED  BY <1>4, <1>5, <1>6, <1>7 DEF VacuumStep

-----------------------------------------------------------------------------
(* Lock words, action by action.                                            *)

(* The words after a step of c, from what c holds before and after it.      *)
LEMMA SlotWords ==
    ASSUME LockInv, NEW c \in Conns, Local(c), DOMAIN slot' = 0..Slots,
           NEW i \in 0..Slots, SlotRecord(slot'[i]), slot'[i].writer \in BOOLEAN,
           \/ /\ guard[c] = i <=> guard'[c] = i
              /\ slot'[i].readers = slot[i].readers
           \/ /\ guard[c] # i /\ guard'[c] = i
              /\ slot'[i].readers = slot[i].readers + 1
           \/ /\ guard[c] = i /\ guard'[c] # i
              /\ slot'[i].readers = slot[i].readers - 1,
           slot'[i].writer <=> (IF i = 0 THEN Holding0' ELSE Restarting') # {},
           slot'[i].writer => slot'[i].readers = 0
    PROVE  ReadMarkWord(i)'
  <1>1. ReadMarkWord(i)
    BY DEF LockInv, ReadMarkWords
  <1>2. slot'[i].readers = Cardinality(ReadHolders(i))'
    BY <1>1, LocalReaders DEF ReadMarkWord
  <1> QED  BY <1>2 DEF ReadMarkWord

(* A reader's slot is not locked exclusively, and is counted.                *)
LEMMA GuardedSlot ==
    ASSUME LockInv, NEW c \in Conns, guard[c] # NO_LOCK_HELD
    PROVE  /\ guard[c] \in 0..Slots
           /\ ~slot[guard[c]].writer /\ slot[guard[c]].readers > 0
           /\ ~lock["vacuum"].writer /\ lock["vacuum"].readers > 0
  <1>1. guard[c] \in 0..Slots
    BY StepFacts, BoundsAssumption DEF NO_LOCK_HELD
  <1>2. c \in ReadHolders(guard[c]) /\ c \in Reading
    BY DEF ReadHolders, Reading
  <1>3. /\ ReadHolders(guard[c]) \subseteq Conns /\ Reading \subseteq Conns
    BY DEF ReadHolders, Reading
  <1>4. /\ Cardinality(ReadHolders(guard[c])) # 0 /\ Cardinality(Reading) # 0
        /\ Cardinality(ReadHolders(guard[c])) \in Nat /\ Cardinality(Reading) \in Nat
    BY <1>2, <1>3, EmptyCount, ConnsFinite
  <1>5. ReadMarkWord(guard[c])
    BY <1>1 DEF LockInv, ReadMarkWords
  <1> QED  BY <1>1, <1>4, <1>5 DEF ReadMarkWord, LockInv, LockWords

LEMMA BeginReadWords ==
    ASSUME LockInv, NEW c \in Conns, BeginRead(c)
    PROVE  ReadMarkWords' /\ LockWords'
  <1>1. ShapeAfter(c) /\ Local(c)
    BY ReadShapes DEF ShapeAfter
  <1>2. /\ pc[c] = "idle" /\ pc'[c] \in {"lock", "choose"} /\ guard' = guard /\ slot' = slot
        /\ UNCHANGED <<tx, ckpt>> /\ guard[c] = NO_LOCK_HELD
        /\ lock' = [lock EXCEPT !["vacuum"] = Shared(@)] /\ ~lock["vacuum"].writer
    BY StepFacts DEF BeginRead, ReadsAllowed, CanShare, PcTypes, HeldAt, WriteSteps
  <1>3. Writing' = Writing /\ Holding0' = Holding0 /\ Checkpointing' = Checkpointing
        /\ Vacuuming' = Vacuuming /\ Restarting' = Restarting
    BY <1>1, <1>2 DEF Writing, Holding0, Checkpointing, Vacuuming, Restarting, Local, WriteSteps
  <1>4. ASSUME NEW i \in 0..Slots  PROVE ReadMarkWord(i)'
    BY <1>1, <1>2, <1>3, SlotWords DEF LockInv, ReadMarkWords, ReadMarkWord
  <1>5. Cardinality(Reading)' = Cardinality(Reading) + 1
    BY <1>1, <1>2, LocalReading DEF InReading
  <1>6. LockWords'
    BY <1>2, <1>3, <1>5, SMTT(30) DEF LockInv, LockWords, LockWord, LockNames, Shared
  <1> QED  BY <1>2, <1>4, <1>6 DEF ReadMarkWords, LockInv

LEMMA LockMarkWords ==
    ASSUME LockInv, NEW c \in Conns, LockMark(c)
    PROVE  ReadMarkWords' /\ LockWords'
  <1>1. ShapeAfter(c) /\ Local(c)
    BY ReadShapes DEF ShapeAfter
  <1> DEFINE k == pick[c].slot
  <1>2. /\ pc[c] = "lock" /\ pc'[c] = "read" /\ guard'[c] = k /\ k # NO_LOCK_HELD
        /\ slot' = [slot EXCEPT ![k] = Shared(@)] /\ ~slot[k].writer
        /\ UNCHANGED <<tx, ckpt, lock>> /\ guard[c] = NO_LOCK_HELD /\ k \in 0..Slots
    <2>1. guard[c] = NO_LOCK_HELD /\ k \in 0..NO_LOCK_HELD
      BY StepFacts DEF LockMark, HeldAt, WriteSteps, PickTypes
    <2>2. /\ pc[c] = "lock" /\ pc'[c] = "read" /\ guard'[c] = k /\ k # NO_LOCK_HELD
          /\ slot' = [slot EXCEPT ![k] = Shared(@)] /\ ~slot[k].writer
          /\ UNCHANGED <<tx, ckpt, lock>>
      BY StepFacts DEF LockMark, Validated, CanShare, PcTypes
    <2> QED  BY <2>1, <2>2, BoundsAssumption DEF NO_LOCK_HELD
  <1> HIDE DEF k
  <1>3. Writing' = Writing /\ Holding0' = Holding0 /\ Checkpointing' = Checkpointing
        /\ Vacuuming' = Vacuuming /\ Restarting' = Restarting
    BY <1>1, <1>2 DEF Writing, Holding0, Checkpointing, Vacuuming, Restarting, Local, WriteSteps
  <1>4. DOMAIN slot' = 0..Slots /\ DOMAIN slot = 0..Slots
    BY <1>2 DEF LockInv, ReadMarkWords
  <1>5. ASSUME NEW i \in 0..Slots  PROVE ReadMarkWord(i)'
    <2>1. ReadMarkWord(i)
      BY DEF LockInv, ReadMarkWords
    <2>2. CASE i = k
      <3>1. /\ SlotRecord(slot'[i]) /\ slot'[i].writer = slot[i].writer
            /\ slot'[i].readers = slot[i].readers + 1
        BY <1>2, <1>4, <2>1, <2>2 DEF ReadMarkWord, SlotRecord, Shared
      <3> QED  BY <1>1, <1>2, <1>3, <1>4, <2>1, <2>2, <3>1, SlotWords DEF ReadMarkWord
    <2>3. CASE i # k
      <3>1. slot'[i] = slot[i]
        BY <1>2, <1>4, <2>3
      <3>2. i # NO_LOCK_HELD
        BY BoundsAssumption DEF NO_LOCK_HELD
      <3> QED  BY <1>1, <1>2, <1>3, <1>4, <2>1, <2>3, <3>1, <3>2, SlotWords DEF ReadMarkWord
    <2> QED  BY <2>2, <2>3
  <1>6. Cardinality(Reading)' = Cardinality(Reading)
    BY <1>1, <1>2, LocalReading DEF InReading
  <1>7. LockWords'
    BY <1>2, <1>3, <1>6 DEF LockInv, LockWords, LockWord
  <1> QED  BY <1>4, <1>5, <1>7 DEF ReadMarkWords

LEMMA RetryReadWords ==
    ASSUME LockInv, NEW c \in Conns, RetryRead(c)
    PROVE  ReadMarkWords' /\ LockWords'
  <1>1. ShapeAfter(c) /\ Local(c)
    BY ReadShapes DEF ShapeAfter
  <1>2. /\ pc[c] = "lock" /\ pc'[c] = "idle" /\ guard' = guard /\ slot' = slot
        /\ UNCHANGED <<tx, ckpt>> /\ guard[c] = NO_LOCK_HELD
        /\ lock' = [lock EXCEPT !["vacuum"] = Unlock(@)]
    BY StepFacts DEF RetryRead, PcTypes, HeldAt, WriteSteps
  <1>3. Writing' = Writing /\ Holding0' = Holding0 /\ Checkpointing' = Checkpointing
        /\ Vacuuming' = Vacuuming /\ Restarting' = Restarting
    BY <1>1, <1>2 DEF Writing, Holding0, Checkpointing, Vacuuming, Restarting, Local, WriteSteps
  <1>4. ASSUME NEW i \in 0..Slots  PROVE ReadMarkWord(i)'
    BY <1>1, <1>2, <1>3, SlotWords DEF LockInv, ReadMarkWords, ReadMarkWord
  <1>5. /\ Cardinality(Reading)' = Cardinality(Reading) - 1 /\ Cardinality(Reading) > 0
        /\ Cardinality(Reading)' \in Nat
    BY <1>1, <1>2, LocalReading DEF InReading
  <1>6. lock["vacuum"].writer = FALSE
    BY <1>5 DEF LockInv, LockWords, LockWord, LockNames
  <1>7. LockWords'
    BY <1>2, <1>3, <1>5, <1>6, SMTT(30) DEF LockInv, LockWords, LockWord, LockNames, Unlock
  <1> QED  BY <1>2, <1>4, <1>7 DEF ReadMarkWords, LockInv

(* The end of a transaction that read: its slot and its share of the vacuum  *)
(* lock are given back, and the write lock if it wrote.                      *)
LEMMA EndTransactionWords ==
    ASSUME LockInv, NEW c \in Conns, ShapeAfter(c),
           guard[c] # NO_LOCK_HELD, guard'[c] = NO_LOCK_HELD,
           pc'[c] \in {"idle", "auto"}, ckpt[c].held = "none", ckpt'[c].held = "none",
           ~tx[c].vacuum, ~tx'[c].vacuum, pc[c] = "read" \/ pc[c] \in WriteSteps,
           slot' = [slot EXCEPT ![guard[c]] = Unlock(@)],
           \/ pc[c] = "read" /\ lock' = [lock EXCEPT !["vacuum"] = Unlock(@)]
           \/ /\ pc[c] \in WriteSteps /\ DOMAIN lock' = LockNames
              /\ lock'["write"] = Unlock(lock["write"])
              /\ lock'["vacuum"] = Unlock(lock["vacuum"])
              /\ lock'["checkpoint"] = lock["checkpoint"]
    PROVE  ReadMarkWords' /\ LockWords'
  <1>1. Local(c)
    BY DEF ShapeAfter
  <1> DEFINE k == guard[c]
  <1>2. /\ k \in 0..Slots /\ ~slot[k].writer /\ slot[k].readers > 0
        /\ ~lock["vacuum"].writer /\ lock["vacuum"].readers > 0
        /\ slot' = [slot EXCEPT ![k] = Unlock(@)]
    BY GuardedSlot
  <1>3. /\ Holding0' = Holding0 /\ Checkpointing' = Checkpointing
        /\ Vacuuming' = Vacuuming /\ Restarting' = Restarting
    BY <1>1 DEF Holding0, Checkpointing, Vacuuming, Restarting, Local, WriteSteps
  <1>4. DOMAIN slot' = 0..Slots /\ DOMAIN slot = 0..Slots
    BY <1>2 DEF LockInv, ReadMarkWords
  <1>5. ASSUME NEW i \in 0..Slots  PROVE ReadMarkWord(i)'
    <2>1. ReadMarkWord(i) /\ i # NO_LOCK_HELD
      BY BoundsAssumption DEF LockInv, ReadMarkWords, NO_LOCK_HELD
    <2>2. CASE i = k
      <3>1. /\ SlotRecord(slot'[i]) /\ slot'[i].writer = slot[i].writer
            /\ slot'[i].readers = slot[i].readers - 1
        <4>1. slot'[i] = Unlock(slot[i]) /\ ~slot[i].writer
          BY <1>2, <1>4, <2>2
        <4>2. slot'[i] = [slot[i] EXCEPT !.readers = @ - 1]
          BY <4>1 DEF Unlock
        <4> QED  BY <4>2, <2>1 DEF ReadMarkWord, SlotRecord
      <3> QED  BY <1>1, <1>2, <1>3, <1>4, <2>1, <2>2, <3>1, SlotWords DEF ReadMarkWord
    <2>3. CASE i # k
      <3>1. slot'[i] = slot[i]
        BY <1>2, <1>4, <2>3
      <3> QED  BY <1>1, <1>2, <1>3, <1>4, <2>1, <2>3, <3>1, SlotWords DEF ReadMarkWord
    <2> QED  BY <2>2, <2>3
  <1>6. Cardinality(Reading)' = Cardinality(Reading) - 1 /\ Cardinality(Reading)' \in Nat
    BY <1>1, <1>2, LocalReading DEF InReading
  <1>7. /\ lock'["vacuum"].writer = FALSE /\ lock'["vacuum"].readers = Cardinality(Reading)'
        /\ DOMAIN lock' = LockNames /\ lock'["checkpoint"] = lock["checkpoint"]
        /\ LockWord("vacuum")'
    <2>1. /\ lock["vacuum"] \in [writer : BOOLEAN, readers : Nat]
          /\ lock["vacuum"].readers = Cardinality(Reading) /\ lock["vacuum"].writer = FALSE
          /\ DOMAIN lock = LockNames
      BY <1>2 DEF LockInv, LockWords, LockWord, LockNames
    <2>2. lock'["vacuum"] = Unlock(lock["vacuum"])
          /\ DOMAIN lock' = LockNames /\ lock'["checkpoint"] = lock["checkpoint"]
      BY <2>1 DEF LockNames
    <2> QED  BY <1>6, <2>1, <2>2 DEF Unlock, LockWord
  <1>8. /\ lock'["write"].readers = 0 /\ LockWord("write")'
        /\ lock'["write"].writer <=> Writing' # {}
        /\ AtMostOne(Writing')
    <2>1. /\ lock["write"] \in [writer : BOOLEAN, readers : Nat] /\ lock["write"].readers = 0
          /\ lock["write"].writer <=> Writing # {}
          /\ AtMostOne(Writing) /\ DOMAIN lock = LockNames
      BY DEF LockInv, LockWords, LockWord, LockNames
    <2>2. c \notin Writing'
      BY DEF Writing, WriteSteps
    <2>3. CASE pc[c] = "read"
      <3>1. Writing' = Writing
        BY <1>1, <2>3 DEF Writing, Local, WriteSteps
      <3>2. lock'["write"] = lock["write"]
        BY <2>1, <2>3 DEF WriteSteps, LockNames
      <3> QED  BY <2>1, <3>1, <3>2 DEF LockWord
    <2>4. CASE pc[c] \in WriteSteps
      <3>1. c \in Writing
        BY <2>4 DEF Writing
      <3>2. Writing' = {}
        <4>1. \A d \in Conns \ {c} : d \in Writing' <=> d \in Writing
          BY <1>1, LocalSets
        <4>2. Writing' \subseteq Conns /\ Writing \subseteq Conns
          BY DEF Writing
        <4> QED  BY <2>1, <2>2, <3>1, <4>1, <4>2 DEF AtMostOne
      <3>3. lock'["write"] = Unlock(lock["write"])
        BY <2>4 DEF WriteSteps
      <3> QED  BY <2>1, <3>1, <3>2, <3>3 DEF LockWord, Unlock, AtMostOne
    <2> QED  BY <2>3, <2>4
  <1>9. LockWords'
    <2>1. /\ LockWord("checkpoint")' /\ lock'["checkpoint"].readers = 0
          /\ lock'["checkpoint"].writer <=> Checkpointing' # {}
          /\ AtMostOne(Checkpointing')
      BY <1>3, <1>7 DEF LockInv, LockWords, LockWord, LockNames
    <2>2. ~(Vacuuming' # {})
      BY <1>2, <1>3 DEF LockInv, LockWords
    <2> QED  BY <1>7, <1>8, <2>1, <2>2 DEF LockWords, LockWord, LockNames
  <1> QED  BY <1>4, <1>5, <1>9 DEF ReadMarkWords

LEMMA EndReadWords ==
    ASSUME LockInv, NEW c \in Conns, EndRead(c)
    PROVE  ReadMarkWords' /\ LockWords'
  <1>1. ShapeAfter(c)
    BY ReadShapes
  <1>2. /\ pc[c] = "read" /\ pc'[c] = "idle" /\ guard'[c] = NO_LOCK_HELD
        /\ UNCHANGED <<tx, ckpt>> /\ slot' = [slot EXCEPT ![guard[c]] = Unlock(@)]
        /\ lock' = [lock EXCEPT !["vacuum"] = Unlock(@)]
    BY StepFacts DEF EndRead, PcTypes
  <1>3. guard[c] # NO_LOCK_HELD /\ ckpt[c].held = "none" /\ ~tx[c].vacuum
    BY <1>2, StepFacts DEF HeldAt
  <1> QED  BY <1>1, <1>2, <1>3, EndTransactionWords

LEMMA EndCommitWords ==
    ASSUME LockInv, NEW c \in Conns, EndCommit(c)
    PROVE  ReadMarkWords' /\ LockWords'
  <1>1. ShapeAfter(c)
    BY WriteShapes
  <1>2. /\ pc[c] = "committed" /\ ~tx[c].vacuum /\ UNCHANGED ckpt
        /\ slot' = [slot EXCEPT ![guard[c]] = Unlock(@)]
        /\ lock' = [lock EXCEPT !["write"] = Unlock(@), !["vacuum"] = Unlock(@)]
        /\ guard' = [guard EXCEPT ![c] = NO_LOCK_HELD] /\ tx' = [tx EXCEPT ![c] = NoTx]
    BY DEF EndCommit
  <1>3. pc'[c] \in {"idle", "auto"} /\ guard'[c] = NO_LOCK_HELD /\ ~tx'[c].vacuum
    <2>1. pc'[c] \in {"idle", "auto"}
      BY StepFacts DEF EndCommit, PcTypes
    <2> QED  BY <1>2, <2>1, StepFacts, TxSteps DEF PcTypes
  <1>4. pc[c] \in WriteSteps /\ guard[c] # NO_LOCK_HELD /\ ckpt[c].held = "none"
    BY <1>2, StepFacts DEF HeldAt, WriteSteps
  <1>5. /\ DOMAIN lock' = LockNames /\ lock'["write"] = Unlock(lock["write"])
        /\ lock'["vacuum"] = Unlock(lock["vacuum"]) /\ lock'["checkpoint"] = lock["checkpoint"]
    <2>1. DOMAIN lock = LockNames
      BY DEF LockInv, LockWords
    <2> QED  BY <1>2, <2>1 DEF LockNames
  <1> QED  BY <1>1, <1>2, <1>3, <1>4, <1>5, EndTransactionWords

LEMMA BeginWriteWords ==
    ASSUME LockInv, NEW c \in Conns, BeginWriteTx(c)
    PROVE  ReadMarkWords' /\ LockWords'
  <1>1. Local(c) /\ HeldAt(c)'
    BY WriteShapes DEF ShapeAfter
  <1>2. /\ pc[c] = "read" /\ pc'[c] = "restart" /\ UNCHANGED <<slot, guard, ckpt>>
        /\ lock' = [lock EXCEPT !["write"] = Exclusive(@)] /\ ~lock["write"].writer
    BY StepFacts DEF BeginWriteTx, PcTypes, Free
  <1>3. ~tx[c].vacuum /\ ~tx'[c].vacuum
    BY <1>1, <1>2, StepFacts DEF HeldAt
  <1>4. /\ Holding0' = Holding0 /\ Checkpointing' = Checkpointing
        /\ Vacuuming' = Vacuuming /\ Restarting' = Restarting
    BY <1>1, <1>2, <1>3 DEF Holding0, Checkpointing, Vacuuming, Restarting, Local
  <1>5. Writing' # {} /\ AtMostOne(Writing')
    <2>1. Writing = {} /\ Writing \subseteq Conns /\ Writing' \subseteq Conns
      BY <1>2 DEF LockInv, LockWords, Writing
    <2>2. \A d \in Conns \ {c} : d \in Writing' <=> d \in Writing
      BY <1>1, LocalSets
    <2>3. c \in Writing'
      BY <1>2 DEF Writing, WriteSteps
    <2> QED  BY <2>1, <2>2, <2>3 DEF AtMostOne
  <1>6. ASSUME NEW i \in 0..Slots  PROVE ReadMarkWord(i)'
    BY <1>1, <1>2, <1>4, SlotWords DEF LockInv, ReadMarkWords, ReadMarkWord
  <1>7. Cardinality(Reading)' = Cardinality(Reading)
    BY <1>1, <1>2, LocalReading DEF InReading
  <1>8. LockWords'
    <2>1. /\ DOMAIN lock' = LockNames /\ lock'["vacuum"] = lock["vacuum"]
          /\ lock'["checkpoint"] = lock["checkpoint"]
          /\ lock'["write"] = Exclusive(lock["write"])
      BY <1>2 DEF LockInv, LockWords, LockNames
    <2>2. LockWord("write")' /\ lock'["write"].readers = 0 /\ lock'["write"].writer
      BY <2>1 DEF LockInv, LockWords, LockWord, LockNames, Exclusive
    <2> QED  BY <1>4, <1>5, <1>7, <2>1, <2>2 DEF LockInv, LockWords, LockWord, LockNames
  <1> QED  BY <1>2, <1>6, <1>8 DEF ReadMarkWords, LockInv

(* VACUUM is one of the holders of the checkpoint lock, so there is one.     *)
LEMMA VacuumIsCheckpointer ==
    ASSUME LockInv
    PROVE  Vacuuming \subseteq Checkpointing /\ AtMostOne(Vacuuming)
           /\ AtMostOne(Holding0)
  <1>1. ASSUME NEW c \in Conns, tx[c].vacuum  PROVE ckpt[c].held # "none"
    BY <1>1, StepFacts DEF HeldAt, AllPcs, LockPcs, WriteSteps, CheckpointSteps, GuardKind
  <1>2. Vacuuming \subseteq Checkpointing /\ Holding0 \subseteq Checkpointing
    BY <1>1 DEF Vacuuming, Checkpointing, Holding0
  <1> QED  BY <1>2 DEF LockInv, LockWords, AtMostOne

LEMMA RollbackWords ==
    ASSUME LockInv, NEW c \in Conns, RollbackTx(c), pc[c] \in WriteSteps
    PROVE  ReadMarkWords' /\ LockWords'
  <1>1. ShapeAfter(c) /\ Local(c)
    BY WriteShapes DEF ShapeAfter
  <1>2. /\ slot' = IF tx[c].vacuum THEN slot ELSE [slot EXCEPT ![guard[c]] = Unlock(@)]
        /\ lock' = [lock EXCEPT !["write"] = Unlock(@), !["vacuum"] = Unlock(@),
                                !["checkpoint"] = IF tx[c].vacuum THEN Unlock(@) ELSE @]
        /\ guard' = [guard EXCEPT ![c] = NO_LOCK_HELD] /\ tx' = [tx EXCEPT ![c] = NoTx]
        /\ ckpt' = [ckpt EXCEPT ![c] = NoCheckpoint] /\ pc' = [pc EXCEPT ![c] = "idle"]
    BY DEF RollbackTx
  <1>3. /\ pc'[c] = "idle" /\ guard'[c] = NO_LOCK_HELD /\ ~tx'[c].vacuum
        /\ ckpt'[c].held = "none"
    BY <1>2, StepFacts, TxSteps, CkptSteps DEF PcTypes
  <1>4. /\ DOMAIN lock' = LockNames /\ lock'["write"] = Unlock(lock["write"])
        /\ lock'["vacuum"] = Unlock(lock["vacuum"])
        /\ lock'["checkpoint"] = IF tx[c].vacuum THEN Unlock(lock["checkpoint"]) ELSE lock["checkpoint"]
    <2>1. DOMAIN lock = LockNames
      BY DEF LockInv, LockWords
    <2> QED  BY <1>2, <2>1 DEF LockNames
  <1>5. CASE ~tx[c].vacuum
    <2>1. guard[c] # NO_LOCK_HELD /\ ckpt[c].held = "none"
      BY <1>5, StepFacts DEF HeldAt
    <2> QED  BY <1>1, <1>2, <1>3, <1>4, <1>5, <2>1, EndTransactionWords
  <1>6. CASE tx[c].vacuum
    <2>1. guard[c] = NO_LOCK_HELD /\ ckpt[c].held = "raw" /\ slot' = slot
      BY <1>2, <1>6, StepFacts DEF HeldAt, WriteSteps
    <2>2. c \in Writing /\ c \in Checkpointing /\ c \in Vacuuming
      BY <1>6, <2>1 DEF Writing, Checkpointing, Vacuuming
    <2>3. c \notin Writing' /\ c \notin Checkpointing' /\ c \notin Vacuuming'
      BY <1>3 DEF Writing, Checkpointing, Vacuuming, WriteSteps
    <2>4. Writing' = {} /\ Checkpointing' = {} /\ Vacuuming' = {}
      <3>1. /\ Writing' \subseteq Conns /\ Checkpointing' \subseteq Conns
            /\ Vacuuming' \subseteq Conns
        BY DEF Writing, Checkpointing, Vacuuming
      <3>2. \A d \in Conns \ {c} : /\ d \in Writing' <=> d \in Writing
                                   /\ d \in Checkpointing' <=> d \in Checkpointing
                                   /\ d \in Vacuuming' <=> d \in Vacuuming
        BY <1>1, LocalSets
      <3>3. AtMostOne(Writing) /\ AtMostOne(Checkpointing) /\ AtMostOne(Vacuuming)
        BY VacuumIsCheckpointer DEF LockInv, LockWords
      <3> QED  BY <2>2, <2>3, <3>1, <3>2, <3>3 DEF AtMostOne
    <2>5. Holding0' = Holding0 /\ Restarting' = Restarting
      BY <1>1, <1>3, <2>1 DEF Holding0, Restarting, Local, WriteSteps
    <2>6. ASSUME NEW i \in 0..Slots  PROVE ReadMarkWord(i)'
      BY <1>1, <1>3, <2>1, <2>5, SlotWords DEF LockInv, ReadMarkWords, ReadMarkWord
    <2>7. Cardinality(Reading)' = Cardinality(Reading)
      BY <1>1, <1>3, <2>1, LocalReading DEF InReading, WriteSteps
    <2>8. /\ lock["write"] \in [writer : BOOLEAN, readers : Nat] /\ lock["write"].writer
          /\ lock["vacuum"] \in [writer : BOOLEAN, readers : Nat] /\ lock["vacuum"].writer
          /\ lock["checkpoint"] \in [writer : BOOLEAN, readers : Nat] /\ lock["checkpoint"].writer
          /\ lock["write"].readers = 0 /\ lock["checkpoint"].readers = 0
          /\ lock["vacuum"].readers = Cardinality(Reading)
      BY <2>2 DEF LockInv, LockWords, LockWord, LockNames
    <2>9. /\ LockWord("write")' /\ lock'["write"].readers = 0 /\ ~lock'["write"].writer
          /\ LockWord("checkpoint")' /\ lock'["checkpoint"].readers = 0
          /\ ~lock'["checkpoint"].writer
          /\ LockWord("vacuum")' /\ ~lock'["vacuum"].writer
          /\ lock'["vacuum"].readers = lock["vacuum"].readers
      BY <1>4, <1>6, <2>8 DEF LockWord, Unlock
    <2>10. AtMostOne(Writing') /\ AtMostOne(Checkpointing')
      BY <2>4 DEF AtMostOne
    <2>11. LockWords'
      BY <1>4, <2>4, <2>7, <2>8, <2>9, <2>10 DEF LockWords, LockWord, LockNames
    <2> QED  BY <2>1, <2>6, <2>11 DEF ReadMarkWords, LockInv
  <1> QED  BY <1>5, <1>6

LEMMA AcquireGuardWords ==
    ASSUME LockInv, NEW c \in Conns, AcquireGuard(c)
    PROVE  ReadMarkWords' /\ LockWords'
  <1>1. Local(c) /\ HeldAt(c)' /\ CkptTypes'
    BY CheckpointShapes DEF ShapeAfter, CheckpointStep, LockTypes
  <1>2. /\ pc[c] = "guard" /\ pc'[c] = "scan" /\ UNCHANGED <<guard, tx>> /\ GuardFree(c)
        /\ slot' = [slot EXCEPT ![0] = Exclusive(@)]
        /\ lock' = [lock EXCEPT !["checkpoint"] = Exclusive(@),
                                !["write"] = IF GuardKind(c) = "writer" THEN Exclusive(@) ELSE @]
        /\ ckpt' = [ckpt EXCEPT ![c].held = GuardKind(c), ![c].max = shared.max, ![c].scan = 1]
    BY StepFacts DEF AcquireGuard, PcTypes
  <1>3. /\ GuardKind(c) \in {"read0", "writer"} /\ ckpt'[c].held = GuardKind(c)
        /\ guard[c] = NO_LOCK_HELD /\ ckpt[c].held \in {"none", "raw"}
        /\ ckpt'[c].mode = ckpt[c].mode
    <2>1. GuardKind(c) \in {"read0", "writer"} /\ GuardKind(c) \in HeldKinds
      BY DEF GuardKind, HeldKinds
    <2>2. ckpt'[c].held = GuardKind(c) /\ ckpt'[c].mode = ckpt[c].mode
      BY <1>2, <2>1, StepFacts, CkptSteps
    <2> QED  BY <1>2, <2>1, <2>2, StepFacts DEF HeldAt, WriteSteps
  <1>4. /\ Free(slot[0]) /\ (ckpt[c].held = "raw" \/ ~lock["checkpoint"].writer)
        /\ GuardKind(c) = "writer" => ~lock["write"].writer
    BY <1>2 DEF GuardFree, Free
  <1>5. Vacuuming' = Vacuuming /\ Restarting' = Restarting
    BY <1>1, <1>2 DEF Vacuuming, Restarting, Local
  <1>6. Holding0' # {} /\ Checkpointing' # {} /\ AtMostOne(Checkpointing')
    <2>1. c \in Holding0' /\ c \in Checkpointing' /\ Checkpointing' \subseteq Conns
          /\ Checkpointing \subseteq Conns
      BY <1>3 DEF Holding0, Checkpointing
    <2>2. \A d \in Conns \ {c} : d \in Checkpointing' <=> d \in Checkpointing
      BY <1>1, LocalSets
    <2>3. \A d \in Conns \ {c} : d \notin Checkpointing
      <3>1. CASE ckpt[c].held = "raw"
        <4>1. c \in Checkpointing
          BY <3>1 DEF Checkpointing
        <4> QED  BY <4>1 DEF LockInv, LockWords, AtMostOne
      <3>2. CASE ~lock["checkpoint"].writer
        BY <3>2 DEF LockInv, LockWords
      <3> QED  BY <1>4, <3>1, <3>2
    <2> QED  BY <2>1, <2>2, <2>3 DEF AtMostOne
  <1>7. /\ AtMostOne(Writing') /\ Writing \subseteq Conns /\ Writing' \subseteq Conns
        /\ GuardKind(c) = "writer" => Writing' # {}
        /\ GuardKind(c) = "read0" => Writing' = Writing
    <2>1. \A d \in Conns \ {c} : d \in Writing' <=> d \in Writing
      BY <1>1, LocalSets
    <2>2. c \notin Writing /\ (c \in Writing' <=> GuardKind(c) = "writer")
          /\ Writing \subseteq Conns /\ Writing' \subseteq Conns
      BY <1>2, <1>3 DEF Writing, WriteSteps
    <2>3. GuardKind(c) = "writer" => Writing = {}
      BY <1>4 DEF LockInv, LockWords
    <2>4. AtMostOne(Writing)
      BY DEF LockInv, LockWords
    <2> QED  BY <1>3, <2>1, <2>2, <2>3, <2>4 DEF AtMostOne
  <1>8. DOMAIN slot' = 0..Slots /\ DOMAIN slot = 0..Slots /\ 0 \in 0..Slots
    BY <1>2, BoundsAssumption DEF LockInv, ReadMarkWords
  <1>9. ASSUME NEW i \in 0..Slots  PROVE ReadMarkWord(i)'
    <2>1. ReadMarkWord(i)
      BY DEF LockInv, ReadMarkWords
    <2>2. CASE i = 0
      <3>1. slot'[i] = Exclusive(slot[i])
        BY <1>2, <1>8, <2>2
      <3>2. SlotRecord(slot'[i]) /\ slot'[i].writer = TRUE /\ slot'[i].readers = slot[i].readers
        BY <2>1, <3>1 DEF Exclusive, ReadMarkWord, SlotRecord
      <3>3. slot[i].readers = 0
        BY <1>4, <2>2 DEF Free
      <3> QED  BY <1>1, <1>2, <1>6, <1>8, <2>1, <2>2, <3>2, <3>3, SlotWords
    <2>3. CASE i # 0
      <3>1. slot'[i] = slot[i]
        BY <1>2, <1>8, <2>3
      <3> QED  BY <1>1, <1>2, <1>5, <1>8, <2>1, <2>3, <3>1, SlotWords DEF ReadMarkWord
    <2> QED  BY <2>2, <2>3
  <1>10. Cardinality(Reading)' = Cardinality(Reading)
    BY <1>1, <1>2, LocalReading DEF InReading
  <1>11. /\ DOMAIN lock' = LockNames /\ lock'["vacuum"] = lock["vacuum"]
         /\ lock'["checkpoint"] = Exclusive(lock["checkpoint"])
         /\ lock'["write"] = IF GuardKind(c) = "writer" THEN Exclusive(lock["write"]) ELSE lock["write"]
    <2>1. DOMAIN lock = LockNames
      BY DEF LockInv, LockWords
    <2> QED  BY <1>2, <2>1 DEF LockNames
  <1>12. LockWords'
    <2>1. LockWord("checkpoint")' /\ lock'["checkpoint"].readers = 0 /\ lock'["checkpoint"].writer
      BY <1>11 DEF LockInv, LockWords, LockWord, LockNames, Exclusive
    <2>2. LockWord("write")' /\ lock'["write"].readers = 0
      BY <1>11 DEF LockInv, LockWords, LockWord, LockNames, Exclusive
    <2>3. lock'["write"].writer <=> Writing' # {}
      <3>1. CASE GuardKind(c) = "writer"
        BY <3>1, <1>7, <1>11 DEF Exclusive, LockInv, LockWords, LockWord, LockNames
      <3>2. CASE GuardKind(c) = "read0"
        BY <3>2, <1>7, <1>11 DEF LockInv, LockWords
      <3> QED  BY <1>3, <3>1, <3>2
    <2>4. /\ LockWord("vacuum")'
          /\ lock'["vacuum"].writer <=> Vacuuming' # {}
          /\ lock'["vacuum"].readers = Cardinality(Reading)'
          /\ lock'["vacuum"].writer => lock'["vacuum"].readers = 0
      BY <1>5, <1>10, <1>11 DEF LockInv, LockWords, LockWord, LockNames
    <2> QED  BY <1>6, <1>7, <1>11, <2>1, <2>2, <2>3, <2>4 DEF LockWords, LockWord, LockNames
  <1> QED  BY <1>8, <1>9, <1>12 DEF ReadMarkWords

(* What release_checkpoint_guard leaves of the lock words when checkpoint c  *)
(* gives up everything it holds.                                             *)
LEMMA ReleasedLockWords ==
    ASSUME LockInv, NEW c \in Conns, Local(c), lock' = ReleasedLocks(c),
           pc[c] \in CheckpointSteps \union {"vacuum"},
           pc'[c] \in CheckpointSteps \union {"idle"},
           guard[c] = NO_LOCK_HELD, guard'[c] = NO_LOCK_HELD,
           ckpt'[c].held = "none", ~tx'[c].vacuum
    PROVE  LockWords'
  <1>1. /\ AtMostOne(Writing) /\ AtMostOne(Checkpointing) /\ AtMostOne(Vacuuming)
        /\ Vacuuming \subseteq Checkpointing
    BY VacuumIsCheckpointer DEF LockInv, LockWords
  <1>2. \A d \in Conns \ {c} : /\ d \in Writing' <=> d \in Writing
                               /\ d \in Checkpointing' <=> d \in Checkpointing
                               /\ d \in Vacuuming' <=> d \in Vacuuming
    BY LocalSets
  <1>3. /\ Writing' \subseteq Conns /\ Checkpointing' \subseteq Conns /\ Vacuuming' \subseteq Conns
        /\ Writing \subseteq Conns /\ Checkpointing \subseteq Conns /\ Vacuuming \subseteq Conns
    BY DEF Writing, Checkpointing, Vacuuming
  <1>4. c \notin Writing' /\ c \notin Checkpointing' /\ c \notin Vacuuming'
    BY DEF Writing, Checkpointing, Vacuuming, WriteSteps, CheckpointSteps
  <1>5. /\ c \in Writing <=> ckpt[c].held = "writer"
        /\ c \in Checkpointing <=> ckpt[c].held # "none"
        /\ c \in Vacuuming <=> tx[c].vacuum
    BY DEF Writing, Checkpointing, Vacuuming, WriteSteps, CheckpointSteps
  <1>6. /\ DOMAIN lock' = LockNames
        /\ lock'["checkpoint"] = IF ckpt[c].held # "none" THEN Unlock(lock["checkpoint"]) ELSE lock["checkpoint"]
        /\ lock'["write"] = IF ckpt[c].held = "writer" THEN Unlock(lock["write"]) ELSE lock["write"]
        /\ lock'["vacuum"] = IF tx[c].vacuum THEN Unlock(lock["vacuum"]) ELSE lock["vacuum"]
    <2>1. DOMAIN lock = LockNames
      BY DEF LockInv, LockWords
    <2> QED  BY <2>1 DEF ReleasedLocks, LockNames
  <1>7. /\ LockWord("checkpoint")' /\ lock'["checkpoint"].readers = 0
        /\ lock'["checkpoint"].writer <=> Checkpointing' # {}
        /\ AtMostOne(Checkpointing')
    <2>1. CASE ckpt[c].held # "none"
      <3>1. Checkpointing' = {}
        BY <1>1, <1>2, <1>3, <1>4, <1>5, <2>1 DEF AtMostOne
      <3>2. lock["checkpoint"].writer /\ lock'["checkpoint"] = Unlock(lock["checkpoint"])
        BY <1>5, <1>6, <2>1 DEF LockInv, LockWords
      <3> QED  BY ZenonT(60), <3>1, <3>2 DEF LockInv, LockWords, LockWord, LockNames, Unlock, AtMostOne
    <2>2. CASE ckpt[c].held = "none"
      <3>1. Checkpointing' = Checkpointing
        BY SMTT(40), <1>2, <1>3, <1>4, <1>5, <2>2
      <3> QED  BY <1>6, <2>2, <3>1 DEF LockInv, LockWords, LockWord, LockNames
    <2> QED  BY <2>1, <2>2
  <1>8. /\ LockWord("write")' /\ lock'["write"].readers = 0
        /\ lock'["write"].writer <=> Writing' # {}
        /\ AtMostOne(Writing')
    <2>1. CASE ckpt[c].held = "writer"
      <3>1. Writing' = {}
        BY <1>1, <1>2, <1>3, <1>4, <1>5, <2>1 DEF AtMostOne
      <3>2. lock["write"].writer /\ lock'["write"] = Unlock(lock["write"])
        BY <1>5, <1>6, <2>1 DEF LockInv, LockWords
      <3> QED  BY ZenonT(60), <3>1, <3>2 DEF LockInv, LockWords, LockWord, LockNames, Unlock, AtMostOne
    <2>2. CASE ckpt[c].held # "writer"
      <3>1. Writing' = Writing
        BY SMTT(40), <1>2, <1>3, <1>4, <1>5, <2>2
      <3> QED  BY <1>6, <2>2, <3>1 DEF LockInv, LockWords, LockWord, LockNames
    <2> QED  BY <2>1, <2>2
  <1>9. Cardinality(Reading)' = Cardinality(Reading)
    BY LocalReading DEF InReading, CheckpointSteps
  <1>10. /\ LockWord("vacuum")' /\ lock'["vacuum"].readers = Cardinality(Reading)'
         /\ lock'["vacuum"].writer <=> Vacuuming' # {}
         /\ lock'["vacuum"].writer => lock'["vacuum"].readers = 0
    <2>1. CASE tx[c].vacuum
      <3>1. Vacuuming' = {}
        BY <1>1, <1>2, <1>3, <1>4, <1>5, <2>1 DEF AtMostOne
      <3>2. lock["vacuum"].writer /\ lock'["vacuum"] = Unlock(lock["vacuum"])
        BY <1>5, <1>6, <2>1 DEF LockInv, LockWords
      <3> QED  BY <1>9, <3>1, <3>2 DEF LockInv, LockWords, LockWord, LockNames, Unlock
    <2>2. CASE ~tx[c].vacuum
      <3>1. Vacuuming' = Vacuuming
        BY SMTT(40), <1>2, <1>3, <1>4, <1>5, <2>2
      <3> QED  BY <1>6, <1>9, <2>2, <3>1 DEF LockInv, LockWords, LockWord, LockNames
    <2> QED  BY <2>1, <2>2
  <1> QED  BY <1>6, <1>7, <1>8, <1>10 DEF LockWords, LockWord, LockNames

(* The slots after slot 0 was given back, marks aside.                       *)
LEMMA ReleasedSlotWords ==
    ASSUME LockInv, NEW c \in Conns, Local(c), DOMAIN slot' = 0..Slots,
           \A i \in Marks : /\ SlotRecord(slot'[i]) /\ slot'[i].writer = slot[i].writer
                            /\ slot'[i].readers = slot[i].readers,
           slot'[0] = IF ckpt[c].held \in {"read0", "writer"} THEN Unlock(slot[0]) ELSE slot[0],
           pc[c] # "finalize", pc'[c] # "finalize",
           guard[c] = NO_LOCK_HELD, guard'[c] = NO_LOCK_HELD, ckpt'[c].held = "none"
    PROVE  ReadMarkWords'
  <1>1. Restarting' = Restarting
    BY DEF Restarting, Local
  <1>2. /\ Holding0' \subseteq Conns /\ Holding0 \subseteq Conns /\ c \notin Holding0'
        /\ c \in Holding0 <=> ckpt[c].held \in {"read0", "writer"}
        /\ AtMostOne(Holding0) /\ \A d \in Conns \ {c} : d \in Holding0' <=> d \in Holding0
    BY VacuumIsCheckpointer DEF Holding0, Local
  <1>3. ASSUME NEW i \in 0..Slots  PROVE ReadMarkWord(i)'
    <2>1. ReadMarkWord(i)
      BY DEF LockInv, ReadMarkWords
    <2>2. CASE i # 0
      <3>1. i \in Marks
        BY <2>2 DEF Marks
      <3> QED  BY <1>1, <2>1, <2>2, <3>1, SlotWords DEF ReadMarkWord
    <2>3. CASE i = 0 /\ c \in Holding0
      <3>1. Holding0' = {}
        BY <1>2, <2>3 DEF AtMostOne
      <3>2. slot[i].writer /\ slot'[i] = Unlock(slot[i])
        BY <1>2, <2>1, <2>3 DEF ReadMarkWord
      <3>3. SlotRecord(slot'[i]) /\ slot'[i].writer = FALSE /\ slot'[i].readers = slot[i].readers
        BY <2>1, <3>2 DEF ReadMarkWord, Unlock, SlotRecord
      <3> QED  BY <2>1, <2>3, <3>1, <3>3, SlotWords
    <2>4. CASE i = 0 /\ c \notin Holding0
      <3>1. Holding0' = Holding0
        <4>1. \A d \in Conns : d \in Holding0' <=> d \in Holding0
          BY <1>2, <2>4
        <4> QED  BY <1>2, <4>1
      <3>2. slot'[i] = slot[i]
        BY <1>2, <2>4
      <3> QED  BY <2>1, <2>4, <3>1, <3>2, SlotWords DEF ReadMarkWord
    <2> QED  BY <2>2, <2>3, <2>4
  <1> QED  BY <1>3 DEF ReadMarkWords

(* begin_restart that meets a busy slot changes marks only.                  *)
LEMMA ClearedPrefixWords ==
    ASSUME ReadMarkWords
    PROVE  /\ DOMAIN ClearedPrefix = 0..Slots /\ ClearedPrefix[0] = slot[0]
           /\ \A i \in 0..Slots : /\ SlotRecord(ClearedPrefix[i])
                                  /\ ClearedPrefix[i].writer = slot[i].writer
                                  /\ ClearedPrefix[i].readers = slot[i].readers
  <1>1. \A i \in 0..Slots : SlotRecord(slot[i])
    BY DEF ReadMarkWords, ReadMarkWord
  <1> QED  BY <1>1, BoundsAssumption DEF ClearedPrefix, SlotRecord, Marks

LEMMA RestartedMarksWords ==
    ASSUME ReadMarkWords
    PROVE  /\ DOMAIN RestartedMarks(slot) = 0..Slots
           /\ \A i \in 0..Slots : /\ SlotRecord(RestartedMarks(slot)[i])
                                  /\ RestartedMarks(slot)[i].writer = slot[i].writer
                                  /\ RestartedMarks(slot)[i].readers = slot[i].readers
  <1>1. \A i \in 0..Slots : SlotRecord(slot[i])
    BY DEF ReadMarkWords, ReadMarkWord
  <1> QED  BY <1>1 DEF RestartedMarks, SlotRecord

(* Every way a checkpoint returns.                                           *)
LEMMA EndCheckpointWords ==
    ASSUME LockInv, NEW c \in Conns,
           \/ CheckpointBusy(c) \/ FinishCheckpoint(c) \/ CheckpointFails(c) \/ VacuumBusy(c)
           \/ DetermineResult(c) /\ EndCheckpoint(c)
    PROVE  ReadMarkWords' /\ LockWords'
  <1>1. /\ EndCheckpoint(c) /\ UNCHANGED <<guard, pick>>
        /\ pc[c] \in CheckpointSteps \union {"vacuum"} /\ pc[c] # "finalize"
    BY DEF CheckpointBusy, FinishCheckpoint, CheckpointFails, VacuumBusy, DetermineResult,
           CheckpointSteps
  <1>2. /\ ShapeAfter(c) /\ pc'[c] = "idle" /\ ckpt'[c].held = "none" /\ ~tx'[c].vacuum
        /\ guard[c] = NO_LOCK_HELD /\ guard'[c] = NO_LOCK_HELD
    BY <1>1, EndShape
  <1>3. LockWords'
    BY <1>1, <1>2, ReleasedLockWords DEF ShapeAfter, EndCheckpoint
  <1>4. DOMAIN slot = 0..Slots /\ 0 \in 0..Slots /\ Marks \subseteq 0..Slots
        /\ \A i \in 0..Slots : SlotRecord(slot[i])
    BY BoundsAssumption DEF LockInv, ReadMarkWords, ReadMarkWord, Marks
  <1>5. /\ DOMAIN slot' = 0..Slots
        /\ \A i \in Marks : /\ SlotRecord(slot'[i]) /\ slot'[i].writer = slot[i].writer
                            /\ slot'[i].readers = slot[i].readers
        /\ slot'[0] = IF ckpt[c].held \in {"read0", "writer"} THEN Unlock(slot[0]) ELSE slot[0]
    <2>1. CASE slot' = ReleasedSlots(c)
      BY <1>4, <2>1 DEF ReleasedSlots, Marks
    <2>2. CASE CheckpointBusy(c) \/ VacuumBusy(c)
      <3>1. slot' = slot /\ pc[c] \in {"guard", "vacuum"}
        BY <2>2 DEF CheckpointBusy, VacuumBusy
      <3>2. ckpt[c].held \notin {"read0", "writer"}
        BY <3>1, StepFacts DEF HeldAt
      <3> QED  BY <1>4, <3>1, <3>2
    <2>3. CASE DetermineResult(c) /\ slot' = [ClearedPrefix EXCEPT ![0] = Unlock(@)]
      <3>1. pc[c] = "backfill"
        BY <2>3 DEF DetermineResult
      <3>2. ckpt[c].held \in {"read0", "writer"}
        BY <3>1, StepFacts DEF HeldAt, GuardKind
      <3>3. /\ DOMAIN ClearedPrefix = 0..Slots /\ ClearedPrefix[0] = slot[0]
            /\ \A i \in 0..Slots : /\ SlotRecord(ClearedPrefix[i])
                                   /\ ClearedPrefix[i].writer = slot[i].writer
                                   /\ ClearedPrefix[i].readers = slot[i].readers
        BY ClearedPrefixWords DEF LockInv
      <3>4. \A i \in Marks : i # 0
        BY DEF Marks
      <3> HIDE DEF ClearedPrefix
      <3> QED  BY <1>4, <2>3, <3>2, <3>3, <3>4
    <2>4. DetermineResult(c) => \/ slot' = ReleasedSlots(c)
                                \/ slot' = [ClearedPrefix EXCEPT ![0] = Unlock(@)]
      <3>1. pc' # [pc EXCEPT ![c] = "finalize"]
        BY <1>2, StepFacts DEF PcTypes
      <3> QED  BY <3>1 DEF DetermineResult
    <2> QED  BY <2>1, <2>2, <2>3, <2>4 DEF FinishCheckpoint, CheckpointFails
  <1>6. ReadMarkWords'
    BY <1>1, <1>2, <1>5, ReleasedSlotWords DEF ShapeAfter
  <1> QED  BY <1>3, <1>6

(* Restart and Truncate keep slots 1..n until the log is restarted.          *)
LEMMA RestartWords ==
    ASSUME LockInv, NEW c \in Conns, DetermineResult(c), ~EndCheckpoint(c),
           RestartsLog(ckpt[c].mode)
    PROVE  ReadMarkWords' /\ LockWords'
  <1>1. Local(c) /\ HeldAt(c)'
    BY CheckpointShapes DEF ShapeAfter, CheckpointStep
  <1>2. /\ pc[c] = "backfill" /\ pc'[c] = "finalize" /\ BusySlots = {}
        /\ UNCHANGED <<lock, tx, guard>>
        /\ slot' = [i \in 0..Slots |-> IF i = 0 THEN RestartedMarks(slot)[0]
                                                ELSE Exclusive(RestartedMarks(slot)[i])]
    BY StepFacts DEF DetermineResult, PcTypes
  <1>3. ckpt'[c].held = ckpt[c].held /\ ckpt'[c].mode = ckpt[c].mode
    <2>1. ckpt' = [ckpt EXCEPT ![c].all = TRUE]
      BY DEF DetermineResult
    <2> QED  BY <2>1, StepFacts, CkptSteps
  <1>4. /\ Holding0' = Holding0 /\ Checkpointing' = Checkpointing
        /\ Vacuuming' = Vacuuming /\ Writing' = Writing
    BY <1>1, <1>2, <1>3 DEF Holding0, Checkpointing, Vacuuming, Writing, Local, WriteSteps
  <1>5. Restarting' # {}
    <2>1. c \in Restarting'
      BY <1>2, <1>3 DEF Restarting
    <2> QED  BY <2>1
  <1>6. /\ DOMAIN RestartedMarks(slot) = 0..Slots /\ 0 \in 0..Slots
        /\ \A i \in 0..Slots : /\ SlotRecord(RestartedMarks(slot)[i])
                               /\ RestartedMarks(slot)[i].writer = slot[i].writer
                               /\ RestartedMarks(slot)[i].readers = slot[i].readers
    BY RestartedMarksWords, BoundsAssumption DEF LockInv
  <1>7. ASSUME NEW i \in 0..Slots  PROVE ReadMarkWord(i)'
    <2>1. ReadMarkWord(i) /\ DOMAIN slot' = 0..Slots
      BY <1>2 DEF LockInv, ReadMarkWords
    <2>2. CASE i = 0
      <3>1. slot'[i] = RestartedMarks(slot)[i]
        BY <1>2, <2>2
      <3> QED  BY <1>1, <1>2, <1>4, <1>6, <2>1, <2>2, <3>1, SlotWords DEF ReadMarkWord
    <2>3. CASE i # 0
      <3>1. slot'[i] = Exclusive(RestartedMarks(slot)[i])
        BY <1>2, <2>3
      <3>2. i \in Marks /\ slot[i].readers = 0
        BY <1>2, <2>3 DEF BusySlots, Free, Marks
      <3>3. SlotRecord(slot'[i]) /\ slot'[i].writer = TRUE /\ slot'[i].readers = slot[i].readers
        BY <1>6, <3>1 DEF Exclusive, SlotRecord
      <3> QED  BY <1>1, <1>2, <1>5, <2>1, <2>3, <3>2, <3>3, SlotWords
    <2> QED  BY <2>2, <2>3
  <1>8. Cardinality(Reading)' = Cardinality(Reading)
    BY <1>1, <1>2, LocalReading DEF InReading
  <1>9. LockWords'
    BY <1>2, <1>4, <1>8 DEF LockInv, LockWords, LockWord
  <1> QED  BY <1>2, <1>7, <1>9 DEF ReadMarkWords

LEMMA FinalizeWords ==
    ASSUME LockInv, NEW c \in Conns, FinalizeWal(c)
    PROVE  ReadMarkWords' /\ LockWords'
  <1>1. Local(c) /\ HeldAt(c)'
    BY CheckpointShapes DEF ShapeAfter, CheckpointStep
  <1> DEFINE mode == ckpt[c].mode
             keeps == ckpt[c].all
  <1>2. /\ pc[c] = "finalize" /\ UNCHANGED <<tx, guard>>
        /\ slot' = [i \in 0..Slots |->
             IF \/ i > 0 /\ RestartsLog(mode)
                \/ i = 0 /\ ~keeps
             THEN Unlock(slot[i]) ELSE slot[i]]
        /\ lock' = IF keeps THEN lock ELSE ReleasedLocks(c)
        /\ ckpt' = IF keeps THEN ckpt ELSE [ckpt EXCEPT ![c].held = "none"]
    BY DEF FinalizeWal
  <1>3. pc'[c] \in {"truncate", "dbsync", "finish"}
    BY StepFacts DEF FinalizeWal, PcTypes
  <1>4. /\ guard[c] = NO_LOCK_HELD /\ ckpt[c].held \in {"read0", "writer"}
        /\ ckpt'[c].mode = mode /\ ckpt'[c].held = IF keeps THEN ckpt[c].held ELSE "none"
        /\ ~keeps => mode = "Passive" /\ ~tx[c].vacuum
        /\ keeps \in BOOLEAN
    <2>1. "none" \in HeldKinds
      BY DEF HeldKinds
    <2>2. ckpt'[c].mode = mode /\ ckpt'[c].held = IF keeps THEN ckpt[c].held ELSE "none"
      BY ZenonT(60), <1>2, <2>1, StepFacts, CkptSteps
    <2> QED  BY <1>2, <2>2, StepFacts DEF HeldAt, GuardKind, WriteSteps, CheckpointSteps
  <1>5. c \in Restarting <=> RestartsLog(mode)
    BY <1>2 DEF Restarting
  <1>6. c \notin Restarting'
    BY <1>3 DEF Restarting
  <1>7. /\ Restarting \subseteq Holding0 /\ Restarting' \subseteq Conns /\ AtMostOne(Holding0)
        /\ Holding0 \subseteq Conns /\ Holding0' \subseteq Conns
        /\ \A d \in Conns \ {c} : d \in Restarting' <=> d \in Restarting
        /\ \A d \in Conns \ {c} : d \in Holding0' <=> d \in Holding0
    <2>1. \A d \in Conns : d \in Restarting => ckpt[d].held \in {"read0", "writer"}
      BY StepFacts DEF Restarting, HeldAt, GuardKind
    <2>2. Restarting \subseteq Holding0
      BY <2>1 DEF Restarting, Holding0
    <2> QED  BY <1>1, <2>2, LocalSets, VacuumIsCheckpointer DEF Restarting, Holding0
  <1>8. c \in Holding0 /\ (c \in Holding0' <=> keeps)
    BY <1>4 DEF Holding0
  <1>9. Restarting' = {}
    BY <1>6, <1>7, <1>8 DEF AtMostOne
  <1>10. /\ keeps => Holding0' = Holding0
         /\ ~keeps => Holding0' = {}
    <2>1. CASE keeps
      <3>1. \A d \in Conns : d \in Holding0' <=> d \in Holding0
        BY <1>7, <1>8, <2>1
      <3> QED  BY <1>7, <2>1, <3>1
    <2>2. CASE ~keeps
      BY <1>7, <1>8, <2>2 DEF AtMostOne
    <2> QED  BY <2>1, <2>2
  <1> HIDE DEF mode, keeps
  <1>11. ASSUME NEW i \in 0..Slots  PROVE ReadMarkWord(i)'
    <2>1. ReadMarkWord(i) /\ DOMAIN slot' = 0..Slots /\ SlotRecord(slot[i])
      BY <1>2 DEF LockInv, ReadMarkWords, ReadMarkWord
    <2>2. CASE i = 0 /\ keeps
      <3>1. slot'[i] = slot[i]
        BY <1>2, <2>2
      <3> QED  BY <1>1, <1>2, <1>10, <2>1, <2>2, <3>1, SlotWords DEF ReadMarkWord
    <2>3. CASE i = 0 /\ ~keeps
      <3>1. slot'[i] = Unlock(slot[i]) /\ slot[i].writer
        BY <1>2, <1>8, <2>1, <2>3 DEF ReadMarkWord
      <3>2. SlotRecord(slot'[i]) /\ slot'[i].writer = FALSE /\ slot'[i].readers = slot[i].readers
        BY <2>1, <3>1 DEF Unlock, SlotRecord
      <3> QED  BY <1>1, <1>2, <1>10, <2>1, <2>3, <3>2, SlotWords
    <2>4. CASE i # 0 /\ RestartsLog(mode)
      <3>1. slot'[i] = Unlock(slot[i]) /\ slot[i].writer
        BY <1>2, <1>5, <2>1, <2>4 DEF ReadMarkWord
      <3>2. SlotRecord(slot'[i]) /\ slot'[i].writer = FALSE /\ slot'[i].readers = slot[i].readers
        BY <2>1, <3>1 DEF Unlock, SlotRecord
      <3> QED  BY <1>1, <1>2, <1>9, <2>1, <2>4, <3>2, SlotWords
    <2>5. CASE i # 0 /\ ~RestartsLog(mode)
      <3>1. slot'[i] = slot[i]
        BY <1>2, <2>5
      <3>2. Restarting = {}
        BY <1>5, <1>7, <1>8, <2>5 DEF AtMostOne
      <3> QED  BY <1>1, <1>2, <1>9, <2>1, <2>5, <3>1, <3>2, SlotWords DEF ReadMarkWord
    <2> QED  BY <2>2, <2>3, <2>4, <2>5
  <1>12. LockWords'
    <2>1. CASE ~keeps
      BY <1>1, <1>2, <1>3, <1>4, <2>1, ReleasedLockWords DEF CheckpointSteps
    <2>2. CASE keeps
      <3>1. UNCHANGED <<lock, ckpt>>
        BY <1>2, <2>2
      <3>2. /\ Checkpointing' = Checkpointing /\ Vacuuming' = Vacuuming /\ Writing' = Writing
        BY <1>1, <1>2, <1>3, <3>1 DEF Checkpointing, Vacuuming, Writing, Local, WriteSteps
      <3>3. Cardinality(Reading)' = Cardinality(Reading)
        BY <1>1, <1>2, <1>3, LocalReading DEF InReading
      <3> QED  BY <3>1, <3>2, <3>3 DEF LockInv, LockWords, LockWord
    <2> QED  BY <1>4, <2>1, <2>2
  <1> QED  BY <1>2, <1>11, <1>12 DEF ReadMarkWords

LEMMA BeginVacuumWords ==
    ASSUME LockInv, NEW c \in Conns, BeginVacuum(c)
    PROVE  ReadMarkWords' /\ LockWords'
  <1>1. Local(c) /\ HeldAt(c)'
    BY VacuumShapes DEF ShapeAfter, VacuumStep
  <1>2. /\ pc[c] = "idle" /\ pc'[c] = "vacuum" /\ UNCHANGED <<slot, guard, tx>>
        /\ lock' = [lock EXCEPT !["checkpoint"] = Exclusive(@)] /\ ~lock["checkpoint"].writer
    BY StepFacts DEF BeginVacuum, PcTypes, Free
  <1>3. ckpt[c].held = "none" /\ ckpt'[c].held = "raw"
    BY <1>1, <1>2, StepFacts DEF HeldAt
  <1>4. /\ Holding0' = Holding0 /\ Writing' = Writing
        /\ Vacuuming' = Vacuuming /\ Restarting' = Restarting
    BY <1>1, <1>2, <1>3 DEF Holding0, Writing, Vacuuming, Restarting, Local, WriteSteps
  <1>5. Checkpointing' # {} /\ AtMostOne(Checkpointing')
    <2>1. Checkpointing = {} /\ Checkpointing \subseteq Conns /\ Checkpointing' \subseteq Conns
      BY <1>2 DEF LockInv, LockWords, Checkpointing
    <2>2. \A d \in Conns \ {c} : d \in Checkpointing' <=> d \in Checkpointing
      BY <1>1, LocalSets
    <2>3. c \in Checkpointing'
      BY <1>3 DEF Checkpointing
    <2> QED  BY <2>1, <2>2, <2>3 DEF AtMostOne
  <1>6. ASSUME NEW i \in 0..Slots  PROVE ReadMarkWord(i)'
    BY <1>1, <1>2, <1>4, SlotWords DEF LockInv, ReadMarkWords, ReadMarkWord
  <1>7. Cardinality(Reading)' = Cardinality(Reading)
    BY <1>1, <1>2, LocalReading DEF InReading
  <1>8. LockWords'
    <2>1. /\ DOMAIN lock' = LockNames /\ lock'["vacuum"] = lock["vacuum"]
          /\ lock'["write"] = lock["write"]
          /\ lock'["checkpoint"] = Exclusive(lock["checkpoint"])
      BY <1>2 DEF LockInv, LockWords, LockNames
    <2>2. LockWord("checkpoint")' /\ lock'["checkpoint"].readers = 0 /\ lock'["checkpoint"].writer
      BY <2>1 DEF LockInv, LockWords, LockWord, LockNames, Exclusive
    <2> QED  BY <1>4, <1>5, <1>7, <2>1, <2>2 DEF LockInv, LockWords, LockWord, LockNames
  <1> QED  BY <1>2, <1>6, <1>8 DEF ReadMarkWords, LockInv

(* begin_vacuum_blocking_tx takes the write lock without asking: with the    *)
(* vacuum lock and the checkpoint lock in hand nobody else can have it.      *)
LEMMA BeginVacuumTxWords ==
    ASSUME LockInv, NEW c \in Conns, BeginVacuumTx(c)
    PROVE  Writing = {} /\ ReadMarkWords' /\ LockWords'
  <1>1. Local(c) /\ HeldAt(c)' /\ TxTypes'
    BY VacuumShapes DEF ShapeAfter, VacuumStep, LockTypes
  <1>2. /\ pc[c] = "vacuum" /\ pc'[c] = "write" /\ UNCHANGED <<slot, guard, ckpt>>
        /\ lock' = [lock EXCEPT !["vacuum"] = Exclusive(@), !["write"] = Exclusive(@)]
        /\ Free(lock["vacuum"])
        /\ tx' = [tx EXCEPT ![c] = [id |-> txns + 1, dirty |-> Pages, spilled |-> {},
                                    vacuum |-> TRUE]]
    BY StepFacts DEF BeginVacuumTx, PcTypes
  <1>3. /\ ckpt[c].held = "raw" /\ guard[c] = NO_LOCK_HELD /\ ~tx[c].vacuum /\ tx'[c].vacuum
    BY <1>2, StepFacts DEF HeldAt, WriteSteps, TxTypes
  <1>4. Vacuuming = {} /\ Reading = {}
    BY <1>2, EmptyCount DEF LockInv, LockWords, Free, Reading
  <1>5. Writing = {}
    <2>1. SUFFICES ASSUME NEW d \in Writing  PROVE FALSE
      OBVIOUS
    <2>2. d \in Conns /\ HeldAt(d) /\ ~tx[d].vacuum /\ guard[d] = NO_LOCK_HELD
      BY <1>4, StepFacts DEF Writing, Vacuuming, Reading
    <2>3. CASE pc[d] \in WriteSteps
      BY <2>2, <2>3 DEF HeldAt
    <2>4. CASE ckpt[d].held = "writer"
      <3>1. d \in Checkpointing /\ c \in Checkpointing
        BY <1>3, <2>2, <2>4 DEF Checkpointing
      <3> QED  BY <1>3, <2>4, <3>1 DEF LockInv, LockWords, AtMostOne
    <2> QED  BY <2>3, <2>4 DEF Writing
  <1>6. /\ Holding0' = Holding0 /\ Checkpointing' = Checkpointing /\ Restarting' = Restarting
    BY <1>1, <1>2 DEF Holding0, Checkpointing, Restarting, Local
  <1>7. /\ Writing' # {} /\ AtMostOne(Writing') /\ Vacuuming' # {}
    <2>1. Writing \subseteq Conns /\ Writing' \subseteq Conns
      BY DEF Writing
    <2>2. \A d \in Conns \ {c} : d \in Writing' <=> d \in Writing
      BY <1>1, LocalSets
    <2>3. c \in Writing' /\ c \in Vacuuming'
      BY <1>2, <1>3 DEF Writing, WriteSteps, Vacuuming
    <2> QED  BY <1>5, <2>1, <2>2, <2>3 DEF AtMostOne
  <1>8. ASSUME NEW i \in 0..Slots  PROVE ReadMarkWord(i)'
    BY <1>1, <1>2, <1>6, SlotWords DEF LockInv, ReadMarkWords, ReadMarkWord
  <1>9. Cardinality(Reading)' = Cardinality(Reading)
    BY <1>1, <1>2, LocalReading DEF InReading
  <1>10. LockWords'
    <2>1. /\ DOMAIN lock' = LockNames /\ lock'["vacuum"] = Exclusive(lock["vacuum"])
          /\ lock'["write"] = Exclusive(lock["write"])
          /\ lock'["checkpoint"] = lock["checkpoint"]
      BY <1>2 DEF LockInv, LockWords, LockNames
    <2>2. /\ LockWord("write")' /\ lock'["write"].readers = 0 /\ lock'["write"].writer
          /\ LockWord("vacuum")' /\ lock'["vacuum"].writer /\ lock'["vacuum"].readers = 0
      BY <1>2, <2>1 DEF LockInv, LockWords, LockWord, LockNames, Exclusive, Free
    <2>3. Cardinality(Reading) = 0
      BY <1>2 DEF Free, LockInv, LockWords
    <2> QED  BY <1>6, <1>7, <1>9, <2>1, <2>2, <2>3 DEF LockInv, LockWords, LockWord, LockNames
  <1> QED  BY <1>2, <1>5, <1>8, <1>10 DEF ReadMarkWords, LockInv

LEMMA EndVacuumCommitWords ==
    ASSUME LockInv, NEW c \in Conns, EndVacuumCommit(c)
    PROVE  ReadMarkWords' /\ LockWords'
  <1>1. Local(c) /\ HeldAt(c)'
    BY VacuumShapes DEF ShapeAfter, VacuumStep
  <1>2. /\ pc[c] = "committed" /\ pc'[c] = "guard" /\ UNCHANGED <<slot, guard, tx>>
        /\ lock' = [lock EXCEPT !["write"] = Unlock(@)] /\ tx[c].vacuum
    BY StepFacts DEF EndVacuumCommit, PcTypes
  <1>3. ckpt[c].held = "raw" /\ ckpt'[c].held = "raw"
    BY <1>1, <1>2, StepFacts DEF HeldAt, WriteSteps
  <1>4. /\ Holding0' = Holding0 /\ Checkpointing' = Checkpointing
        /\ Vacuuming' = Vacuuming /\ Restarting' = Restarting
    BY <1>1, <1>2, <1>3 DEF Holding0, Checkpointing, Vacuuming, Restarting, Local
  <1>5. c \in Writing /\ Writing' = {} /\ AtMostOne(Writing')
    <2>1. Writing \subseteq Conns /\ Writing' \subseteq Conns /\ AtMostOne(Writing)
      BY DEF LockInv, LockWords, Writing
    <2>2. \A d \in Conns \ {c} : d \in Writing' <=> d \in Writing
      BY <1>1, LocalSets
    <2>3. c \in Writing /\ c \notin Writing'
      BY <1>2, <1>3 DEF Writing, WriteSteps
    <2> QED  BY <2>1, <2>2, <2>3 DEF AtMostOne
  <1>6. ASSUME NEW i \in 0..Slots  PROVE ReadMarkWord(i)'
    BY <1>1, <1>2, <1>4, SlotWords DEF LockInv, ReadMarkWords, ReadMarkWord
  <1>7. Cardinality(Reading)' = Cardinality(Reading)
    BY <1>1, <1>2, LocalReading DEF InReading
  <1>8. LockWords'
    <2>1. /\ DOMAIN lock' = LockNames /\ lock'["vacuum"] = lock["vacuum"]
          /\ lock'["checkpoint"] = lock["checkpoint"]
          /\ lock'["write"] = Unlock(lock["write"])
      BY <1>2 DEF LockInv, LockWords, LockNames
    <2>2. LockWord("write")' /\ lock'["write"].readers = 0 /\ ~lock'["write"].writer
      BY <1>5, <2>1 DEF LockInv, LockWords, LockWord, LockNames, Unlock
    <2> QED  BY <1>4, <1>5, <1>7, <2>1, <2>2 DEF LockInv, LockWords, LockWord, LockNames
  <1> QED  BY <1>2, <1>6, <1>8 DEF ReadMarkWords, LockInv

LEMMA QuietSteps ==
    ASSUME LockInv, NEW c \in Conns,
           \/ ChooseMark(c)
           \/ \E p \in Pages : ReadPage(c, p) \/ Modify(c, p) \/ SpillPage(c, p)
           \/ TryRestartLog(c) \/ PrepareWal(c) \/ PrepareWalSync(c) \/ WriteFrames(c)
           \/ SyncWal(c) \/ WalCommitDone(c)
           \/ Checkpoint(c) \/ SkipAutoCheckpoint(c) \/ ScanMark(c) \/ ListFrames(c)
           \/ Backfill(c) \/ SyncDbFile(c) \/ PublishBackfill(c) \/ TruncateWal(c)
           \/ SyncTruncatedWal(c)
           \/ DetermineResult(c) /\ ~EndCheckpoint(c) /\ ~RestartsLog(ckpt[c].mode)
    PROVE  ReadMarkWords' /\ LockWords'
  <1>1. ShapeAfter(c)
    BY ReadShapes, WriteShapes, CheckpointShapes DEF CheckpointStep
  <1>2. Local(c) /\ HeldAt(c)' /\ HeldAt(c)
    BY SMTT(40), <1>1, StepFacts DEF ShapeAfter
  <1>3. UNCHANGED <<lock, guard>>
    BY ZenonT(40) DEF ChooseMark, ReadPage, Modify, SpillPage, TryRestartLog, PrepareWal, PrepareWalSync,
           WriteFrames, SyncWal, WalCommitDone, Checkpoint, StartCheckpoint, SkipAutoCheckpoint,
           ScanMark, ListFrames, Backfill, SyncDbFile, PublishBackfill, TruncateWal,
           SyncTruncatedWal, DetermineResult, EndCheckpoint
  <1>4. /\ \A i \in 0..Slots : SlotRecord(slot[i])
        /\ DOMAIN slot = 0..Slots /\ Marks \subseteq 0..Slots /\ \A i \in Marks : i # 0
    BY BoundsAssumption DEF LockInv, ReadMarkWords, ReadMarkWord, Marks
  <1>5. slot' = slot => SameWords
    BY <1>4 DEF SameWords
  <1>6. ASSUME NEW i \in Marks, NEW m, slot' = [slot EXCEPT ![i].mark = m]
        PROVE  SameWords
    BY <1>4, <1>6 DEF SameWords, SlotRecord
  <1>7. CASE ChooseMark(c)
    <2>1. SameWords
      BY SMTT(40), <1>5, <1>6, <1>7, ChosenMark
    <2>2. pc[c] = "choose" /\ pc'[c] = "lock" /\ UNCHANGED <<tx, ckpt>>
      BY <1>7, StepFacts DEF ChooseMark, PcTypes
    <2>3. Quiet(c)
      BY <1>2, <1>3, <2>1, <2>2 DEF Quiet, InReading, InWriting, InRestarting, WriteSteps
    <2> QED  BY <2>3, QuietStep
  <1>8. CASE \E p \in Pages : ReadPage(c, p) \/ Modify(c, p) \/ SpillPage(c, p)
    <2>1. PICK p \in Pages : ReadPage(c, p) \/ Modify(c, p) \/ SpillPage(c, p)
      BY SMTT(40), <1>8
    <2>2. UNCHANGED <<slot, pc, ckpt>>
      BY <2>1 DEF ReadPage, Modify, SpillPage
    <2>3. tx'[c].vacuum = tx[c].vacuum
      <3> USE StepFacts DEF TxTypes, TxRecord
      <3>1. CASE ReadPage(c, p)   BY <3>1 DEF ReadPage
      <3>2. CASE Modify(c, p)     BY <3>2 DEF Modify
      <3>3. CASE SpillPage(c, p)
        <4>1. tx' = [tx EXCEPT ![c].spilled = @ \union {p}]
          BY <3>3 DEF SpillPage
        <4> QED  BY SMTT(40), <4>1
      <3> QED  BY <2>1, <3>1, <3>2, <3>3
    <2>4. Quiet(c)
      BY SMTT(40), <1>2, <1>3, <1>5, <2>2, <2>3 DEF Quiet, InReading, InWriting, InRestarting
    <2> QED  BY <2>4, QuietStep
  <1>9. CASE TryRestartLog(c) \/ PrepareWal(c) \/ PrepareWalSync(c) \/ WriteFrames(c)
             \/ SyncWal(c) \/ WalCommitDone(c)
    <2>1. UNCHANGED <<tx, ckpt>> /\ pc[c] \in WriteSteps
      BY ZenonT(60), <1>9 DEF TryRestartLog, PrepareWal, PrepareWalSync, WriteFrames, SyncWal,
                  WalCommitDone, WriteSteps
    <2>2. pc'[c] \in WriteSteps
      BY <1>9, StepFacts DEF TryRestartLog, PrepareWal, PrepareWalSync, WriteFrames, SyncWal,
                  WalCommitDone, WriteSteps, PcTypes
    <2>3. SameWords
      <3>1. slot' = slot \/ slot' = RestartedMarks(slot) \/ slot' = ClearedPrefix
        BY <1>9 DEF TryRestartLog, PrepareWal, PrepareWalSync, WriteFrames, SyncWal, WalCommitDone
      <3>2. ReadMarkWords
        BY DEF LockInv
      <3> QED  BY <1>5, <3>1, <3>2, RestartedMarksWords, ClearedPrefixWords DEF SameWords
    <2>4. Quiet(c)
      BY <1>2, <1>3, <2>1, <2>2, <2>3
         DEF Quiet, InReading, InWriting, InRestarting, WriteSteps
    <2> QED  BY <2>4, QuietStep
  <1>10. CASE Checkpoint(c)
    <2>1. PICK m \in {"Passive", "Full", "Restart", "Truncate"}, auto \in BOOLEAN :
            StartCheckpoint(c, m, auto)
      BY <1>10, ModesAssumption DEF Checkpoint
    <2>2. /\ pc[c] \in {"idle", "auto"} /\ pc'[c] = "guard" /\ UNCHANGED <<tx, slot>>
      BY <2>1, StepFacts DEF StartCheckpoint, PcTypes
    <2>3. Quiet(c)
      BY <1>2, <1>3, <1>5, <2>2
         DEF Quiet, InReading, InWriting, InRestarting, WriteSteps, HeldAt
    <2> QED  BY <2>3, QuietStep
  <1>11. CASE SkipAutoCheckpoint(c) \/ SyncDbFile(c) \/ PublishBackfill(c) \/ TruncateWal(c)
             \/ SyncTruncatedWal(c)
    <2>1. UNCHANGED <<tx, ckpt, slot>>
          /\ pc[c] \in {"auto", "dbsync", "backfilled", "truncate", "truncated"}
      BY <1>11 DEF SkipAutoCheckpoint, SyncDbFile, PublishBackfill, TruncateWal, SyncTruncatedWal
    <2>2. pc'[c] \in {"idle", "backfilled", "truncate", "truncated", "finish"}
      BY <1>11, StepFacts
         DEF SkipAutoCheckpoint, SyncDbFile, PublishBackfill, TruncateWal, SyncTruncatedWal, PcTypes
    <2>3. Quiet(c)
      BY SMTT(40), <1>2, <1>3, <1>5, <2>1, <2>2
         DEF Quiet, InReading, InWriting, InRestarting, WriteSteps
    <2> QED  BY <2>3, QuietStep
  <1>12. CASE ScanMark(c) \/ ListFrames(c) \/ Backfill(c)
    <2>1. UNCHANGED tx /\ pc[c] \in {"scan", "backfill"}
      BY <1>12 DEF ScanMark, ListFrames, Backfill
    <2>2. pc'[c] \in {"scan", "backfill"}
      <3>1. CASE ScanMark(c) \/ Backfill(c)   BY <2>1, <3>1 DEF ScanMark, Backfill
      <3>2. CASE ListFrames(c)
        <4>1. pc' = [pc EXCEPT ![c] = "backfill"]
          BY <3>2 DEF ListFrames
        <4> QED  BY <4>1, StepFacts DEF PcTypes
      <3> QED  BY <1>12, <3>1, <3>2
    <2>3. CkptKept(c)
      BY <1>12, StepFacts, ScanKept
    <2>4. SameWords
      <3>1. CASE ListFrames(c) \/ Backfill(c)
        BY <1>5, <3>1 DEF ListFrames, Backfill
      <3>2. CASE ScanMark(c)
        <4> DEFINE i == ckpt[c].scan
                   m == IF i = 1 THEN ckpt[c].max ELSE READMARK_NOT_USED
        <4>1. i \in Marks /\ (slot' = slot \/ slot' = [slot EXCEPT ![i].mark = m])
          BY <3>2 DEF ScanMark
        <4> HIDE DEF i, m
        <4> QED  BY <1>5, <1>6, <4>1
      <3> QED  BY <1>12, <3>1, <3>2
    <2>5. Quiet(c)
      BY <1>2, <1>3, <2>1, <2>2, <2>3, <2>4
         DEF Quiet, InReading, InWriting, InRestarting, WriteSteps, CkptKept
    <2> QED  BY <2>5, QuietStep
  <1>13. CASE DetermineResult(c) /\ ~EndCheckpoint(c) /\ ~RestartsLog(ckpt[c].mode)
    <2>1. pc[c] = "backfill" /\ pc'[c] = "finalize" /\ UNCHANGED <<tx, slot>>
      BY <1>13, StepFacts DEF DetermineResult, PcTypes
    <2>2. ckpt'[c].held = ckpt[c].held /\ ckpt'[c].mode = ckpt[c].mode
      <3>1. PICK a \in BOOLEAN : ckpt' = [ckpt EXCEPT ![c].all = a]
        BY <1>13 DEF DetermineResult
      <3> QED  BY <3>1, StepFacts, CkptSteps
    <2>3. Quiet(c)
      BY <1>2, <1>3, <1>5, <1>13, <2>1, <2>2
         DEF Quiet, InReading, InWriting, InRestarting, WriteSteps
    <2> QED  BY <2>3, QuietStep
  <1> QED  BY <1>7, <1>8, <1>9, <1>10, <1>11, <1>12, <1>13

-----------------------------------------------------------------------------
(* The invariant.                                                           *)

(* With no connection inside a transaction every word is empty.             *)
NobodyHolds ==
    /\ slot = EmptySlots /\ lock = EmptyLocks
    /\ pc = [c \in Conns |-> "idle"] /\ guard = [c \in Conns |-> NO_LOCK_HELD]
    /\ pick = [c \in Conns |-> NoPick] /\ tx = [c \in Conns |-> NoTx]
    /\ ckpt = [c \in Conns |-> NoCheckpoint]

LEMMA EmptyWords == NobodyHolds => LockInv
  <1> SUFFICES ASSUME NobodyHolds  PROVE LockInv
    OBVIOUS
  <1>1. \A c \in Conns : /\ ckpt[c].held = "none" /\ ckpt[c].mode = "Passive"
                         /\ ckpt[c].all = FALSE /\ CkptRecord(ckpt[c])
                         /\ tx[c].vacuum = FALSE /\ TxRecord(tx[c])
                         /\ PickRecord(pick[c]) /\ pick[c].slot = NO_LOCK_HELD
                         /\ pc[c] = "idle" /\ guard[c] = NO_LOCK_HELD
    BY DEF NobodyHolds, NoCheckpoint, CkptRecord, NoTx, TxRecord, NoPick, PickRecord
  <1>2. LockTypes
    <2>1. NO_LOCK_HELD \in 0..NO_LOCK_HELD
      BY BoundsAssumption DEF NO_LOCK_HELD
    <2>2. PcTypes
      BY <2>1 DEF NobodyHolds, PcTypes, AllPcs, LockPcs
    <2>3. DOMAIN pick = Conns /\ DOMAIN tx = Conns /\ DOMAIN ckpt = Conns
      BY DEF NobodyHolds
    <2>4. PickTypes
      BY <1>1, <2>1, <2>3 DEF PickTypes
    <2>5. TxTypes /\ CkptTypes
      BY <1>1, <2>3 DEF TxTypes, CkptTypes, HeldKinds
    <2> QED  BY <2>2, <2>4, <2>5 DEF LockTypes
  <1>3. HeldByPc
    BY <1>1 DEF HeldByPc, HeldAt, WriteSteps, CheckpointSteps
  <1>4. /\ Writing = {} /\ Holding0 = {} /\ Checkpointing = {} /\ Vacuuming = {}
        /\ Restarting = {} /\ Reading = {}
    BY <1>1 DEF Writing, Holding0, Checkpointing, Vacuuming, Restarting, Reading, WriteSteps
  <1>5. \A i \in 0..Slots : ReadHolders(i) = {}
    BY <1>1, BoundsAssumption DEF ReadHolders, NO_LOCK_HELD
  <1>6. Cardinality({}) = 0
    BY FS_EmptySet
  <1>7. ReadMarkWords
    BY <1>4, <1>5, <1>6 DEF NobodyHolds, ReadMarkWords, ReadMarkWord, EmptySlots, SlotRecord
  <1>8. LockWords
    BY <1>4, <1>6 DEF NobodyHolds, LockWords, LockWord, LockNames, EmptyLocks, AtMostOne
  <1> QED  BY <1>2, <1>3, <1>7, <1>8 DEF LockInv

LEMMA EmptyWordsAfter == (NobodyHolds => LockInv)'
  BY EmptyWords, PTL

LEMMA LockInvInit == Init => LockInv
  BY EmptyWords DEF Init, NobodyHolds

LEMMA CrashKeepsLockInv == Crash => LockInv'
  <1>1. Crash => NobodyHolds'
    BY DEF Crash, NobodyHolds
  <1> QED  BY <1>1, EmptyWordsAfter

LEMMA TransactionKeepsLockInv ==
    ASSUME LockInv, NEW c \in Conns, Transaction(c)
    PROVE  LockInv'
  <1>1. CASE Rollback(c) \/ CommitFails(c)
    <2>1. RollbackTx(c) /\ pc[c] \in WriteSteps
      BY <1>1 DEF Rollback, CommitFails, WriteSteps
    <2>2. ShapeAfter(c) /\ ReadMarkWords' /\ LockWords'
      BY <2>1, WriteShapes, RollbackWords
    <2> QED  BY <2>2, LocalHeld DEF ShapeAfter, LockInv
  <1>2. CASE ~(Rollback(c) \/ CommitFails(c))
    <2>1. \/ BeginRead(c) \/ ChooseMark(c) \/ LockMark(c) \/ RetryRead(c) \/ EndRead(c)
          \/ \E p \in Pages : ReadPage(c, p) \/ Modify(c, p) \/ SpillPage(c, p)
          \/ BeginWriteTx(c) \/ TryRestartLog(c) \/ PrepareWal(c) \/ PrepareWalSync(c)
          \/ WriteFrames(c) \/ SyncWal(c) \/ WalCommitDone(c) \/ EndCommit(c)
      BY <1>2 DEF Transaction
    <2>2. ShapeAfter(c)
      BY <2>1, ReadShapes, WriteShapes
    <2>3. ReadMarkWords' /\ LockWords'
      BY <2>1, BeginReadWords, LockMarkWords, RetryReadWords, EndReadWords, EndCommitWords,
         BeginWriteWords, QuietSteps
    <2> QED  BY <2>2, <2>3, LocalHeld DEF ShapeAfter, LockInv
  <1> QED  BY <1>1, <1>2

LEMMA CheckpointKeepsLockInv ==
    ASSUME LockInv, NEW c \in Conns, CheckpointStep(c)
    PROVE  LockInv'
  <1>1. ShapeAfter(c)
    BY CheckpointShapes
  <1>2. ReadMarkWords' /\ LockWords'
    <2>1. CASE DetermineResult(c)
      BY <2>1, EndCheckpointWords, RestartWords, QuietSteps
    <2>2. CASE ~DetermineResult(c)
      BY <2>2, QuietSteps, AcquireGuardWords, EndCheckpointWords, FinalizeWords
         DEF CheckpointStep
    <2> QED  BY <2>1, <2>2
  <1> QED  BY <1>1, <1>2, LocalHeld DEF ShapeAfter, LockInv

LEMMA VacuumKeepsLockInv ==
    ASSUME LockInv, NEW c \in Conns, VacuumStep(c)
    PROVE  LockInv'
  <1>1. ShapeAfter(c)
    BY VacuumShapes
  <1>2. ReadMarkWords' /\ LockWords'
    BY BeginVacuumWords, BeginVacuumTxWords, EndCheckpointWords, EndVacuumCommitWords
       DEF VacuumStep
  <1> QED  BY <1>1, <1>2, LocalHeld DEF ShapeAfter, LockInv

LEMMA LockInvNext == LockInv /\ [Next]_vars => LockInv'
  <1> SUFFICES ASSUME LockInv, [Next]_vars  PROVE LockInv'
    OBVIOUS
  <1>1. CASE UNCHANGED vars
    <2>1. UNCHANGED <<slot, lock, pc, guard, pick, tx, ckpt>>
      BY <1>1 DEF vars, mem
    <2>2. LockTypes'
      BY <2>1 DEF LockInv, LockTypes, PcTypes, PickTypes, TxTypes, CkptTypes
    <2>3. \A c \in Conns : HeldAt(c) => HeldAt(c)'
      BY <2>1 DEF HeldAt, GuardKind
    <2>4. /\ Writing' = Writing /\ Holding0' = Holding0 /\ Checkpointing' = Checkpointing
          /\ Vacuuming' = Vacuuming /\ Restarting' = Restarting /\ Reading' = Reading
          /\ \A i : ReadHolders(i)' = ReadHolders(i)
      BY <2>1 DEF Writing, Holding0, Checkpointing, Vacuuming, Restarting, Reading, ReadHolders
    <2>5. ReadMarkWords'
      BY <2>1, <2>4 DEF LockInv, ReadMarkWords, ReadMarkWord
    <2>6. LockWords'
      BY <2>1, <2>4 DEF LockInv, LockWords, LockWord
    <2> QED  BY <2>2, <2>3, <2>5, <2>6 DEF LockInv, HeldByPc
  <1>2. CASE Next
    BY <1>2, TransactionKeepsLockInv, CheckpointKeepsLockInv, VacuumKeepsLockInv,
       CrashKeepsLockInv DEF Next
  <1> QED  BY <1>1, <1>2

LEMMA LockInvHolds == Spec => []LockInv
  BY LockInvInit, LockInvNext, PTL DEF Spec

-----------------------------------------------------------------------------
(* The theorems.                                                            *)

LEMMA HoldersFromLockInv == LockInv => LockWordsMatchHolders
  <1> SUFFICES ASSUME LockInv  PROVE LockWordsMatchHolders
    OBVIOUS
  <1>1. GuardHolders({"read0", "writer"}) = Holding0
    BY DEF GuardHolders, Holding0
  <1>2. {c \in Conns : pc[c] \in WriteSteps} \union GuardHolders({"writer"}) = Writing
    BY DEF GuardHolders, Writing
  <1>3. GuardHolders({"read0", "writer", "raw"}) = Checkpointing
    BY DEF GuardHolders, Checkpointing, LockInv, LockTypes, CkptTypes, HeldKinds
  <1>4. {c \in Conns : pc[c] \in {"choose", "lock"} \/ guard[c] # NO_LOCK_HELD} = Reading
    BY DEF Reading
  <1>5. LockWords /\ ReadMarkWords
    BY DEF LockInv
  <1>6. /\ Cardinality(Writing) <= 1
        /\ Cardinality(Checkpointing) = IF lock["checkpoint"].writer THEN 1 ELSE 0
    <2>1. Writing \subseteq Conns /\ Checkpointing \subseteq Conns
      BY DEF Writing, Checkpointing
    <2>2. /\ AtMostOne(Writing) /\ AtMostOne(Checkpointing)
          /\ lock["checkpoint"].writer <=> Checkpointing # {}
      BY <1>5 DEF LockWords
    <2>3. /\ Cardinality(Writing) = IF Writing = {} THEN 0 ELSE 1
          /\ Cardinality(Checkpointing) = IF Checkpointing = {} THEN 0 ELSE 1
      BY <2>1, <2>2, AtMostOneCount
    <2> QED  BY <2>2, <2>3
  <1>7. lock["write"].writer <=>
          \E c \in Conns : pc[c] \in WriteSteps \/ ckpt[c].held = "writer"
    BY <1>5 DEF LockWords, Writing
  <1>8. lock["vacuum"].readers = Cardinality(Reading)
    BY <1>5 DEF LockWords
  <1>9. \A i \in 0..Slots :
          /\ slot[i].readers = Cardinality(ReadHolders(i))
          /\ slot[i].writer <=> (IF i = 0 THEN Holding0 ELSE Restarting) # {}
          /\ ~(slot[i].writer /\ slot[i].readers > 0)
    BY <1>5 DEF ReadMarkWords, ReadMarkWord
  <1> HIDE DEF LockInv
  <1> QED  BY <1>1, <1>2, <1>3, <1>4, <1>6, <1>7, <1>8, <1>9 DEF LockWordsMatchHolders

(* No path through a busy lock, an error, a failed checkpoint, a rollback or *)
(* a crash leaks one of the WAL's locks or releases it twice: every lock     *)
(* word of WalFileShared is, at every step, the sum of what the connections  *)
(* hold.                                                                     *)
THEOREM LocksAreAccountedFor == Spec => []LockWordsMatchHolders
  BY LockInvHolds, HoldersFromLockInv, PTL

LEMMA VacuumAloneFromLockInv == LockInv => VacuumAlone
  <1> SUFFICES ASSUME LockInv, NEW c \in Conns, tx[c].vacuum, NEW o \in Conns \ {c}
               PROVE  /\ guard[o] = NO_LOCK_HELD /\ pc[o] \notin WriteSteps
                      /\ ckpt[o].held = "none"
    BY DEF VacuumAlone
  <1>1. LockWords /\ HeldAt(o) /\ HeldAt(c) /\ tx[o].vacuum \in BOOLEAN
    BY StepFacts DEF LockInv
  <1>2. c \in Vacuuming /\ c \in Checkpointing
    BY VacuumIsCheckpointer DEF Vacuuming
  <1>3. Cardinality(Reading) = 0
    BY <1>1, <1>2 DEF LockWords
  <1>4. Reading = {}
    BY <1>3, EmptyCount DEF Reading
  <1>5. guard[o] = NO_LOCK_HELD
    BY <1>4 DEF Reading
  <1>6. o \notin Checkpointing
    BY <1>1, <1>2 DEF LockWords, AtMostOne
  <1>7. ckpt[o].held = "none" /\ ~tx[o].vacuum
    BY <1>6, VacuumIsCheckpointer DEF Checkpointing, Vacuuming
  <1>8. pc[o] \notin WriteSteps
    BY <1>1, <1>5, <1>7 DEF HeldAt
  <1> QED  BY <1>5, <1>7, <1>8

(* What begin_vacuum_blocking_tx asserts once it has the vacuum lock, for as *)
(* long as VACUUM keeps it: no other connection reads, writes or holds a     *)
(* checkpoint guard.                                                         *)
THEOREM VacuumRunsAlone == Spec => []VacuumAlone
  BY LockInvHolds, VacuumAloneFromLockInv, PTL

-----------------------------------------------------------------------------
(* Read marks.                                                              *)

(* The marks of the slots that are held are kept.                           *)
MarksKept == \A i \in Marks : slot[i].readers > 0 => slot'[i].mark = slot[i].mark

LEMMA SlotShape ==
    ASSUME LockInv
    PROVE  /\ DOMAIN slot = 0..Slots /\ Marks \subseteq 0..Slots /\ 0 \notin Marks
           /\ \A i \in 0..Slots : /\ SlotRecord(slot[i])
                                  /\ slot[i].readers \in Nat
  <1>1. \A i \in 0..Slots : ReadMarkWord(i)
    BY DEF LockInv, ReadMarkWords
  <1>2. \A i \in 0..Slots : Cardinality(ReadHolders(i)) \in Nat
    BY ConnsFinite DEF ReadHolders
  <1> QED  BY <1>1, <1>2, BoundsAssumption DEF LockInv, ReadMarkWords, ReadMarkWord, Marks

(* Taking or releasing a slot does not touch its mark.                      *)
LEMMA LockedMark ==
    ASSUME NEW l, SlotRecord(l)
    PROVE  Shared(l).mark = l.mark /\ Exclusive(l).mark = l.mark /\ Unlock(l).mark = l.mark
  BY DEF SlotRecord, Shared, Exclusive, Unlock

(* A free slot has no readers, so its mark may be set.                      *)
LEMMA FreeMark ==
    ASSUME LockInv, NEW i \in Marks, NEW m, Free(slot[i]),
           slot' = [slot EXCEPT ![i].mark = m]
    PROVE  MarksKept
  BY SlotShape DEF MarksKept, Free, SlotRecord

(* begin_restart clears the marks before the first busy slot, or all.       *)
LEMMA ClearedMarks ==
    ASSUME LockInv
    PROVE  /\ BusySlots # {} => \A i \in Marks : slot[i].readers > 0 =>
                                    ClearedPrefix[i].mark = slot[i].mark
           /\ BusySlots = {} => \A i \in Marks : slot[i].readers = 0
  <1>1. ASSUME NEW i \in Marks, slot[i].readers > 0  PROVE i \in BusySlots
    BY <1>1, SlotShape DEF BusySlots, Free
  <1>2. ASSUME NEW i \in Marks, slot[i].readers > 0, BusySlots # {}
        PROVE  ClearedPrefix[i].mark = slot[i].mark
    <2>1. Min(BusySlots) <= i /\ Min(BusySlots) \in 1..Slots /\ i \in 1..Slots
      BY <1>1, <1>2, MinMark DEF BusySlots, Marks
    <2>2. ~(i < Min(BusySlots))
      BY <2>1, BoundsAssumption
    <2>3. i \in 0..Slots
      BY SlotShape
    <2> QED  BY <2>2, <2>3 DEF ClearedPrefix
  <1>3. ASSUME NEW i \in Marks, BusySlots = {}  PROVE slot[i].readers = 0
    BY <1>1, <1>3, SlotShape
  <1> QED  BY <1>2, <1>3

LEMMA StepKeepsMarks ==
    ASSUME LockInv, NEW c \in Conns, Transaction(c) \/ CheckpointStep(c) \/ VacuumStep(c)
    PROVE  MarksKept
  <1>1. /\ DOMAIN slot = 0..Slots /\ Marks \subseteq 0..Slots /\ 0 \notin Marks
        /\ \A i \in 0..Slots : SlotRecord(slot[i]) /\ slot[i].readers \in Nat
    BY SlotShape
  <1>2. slot' = slot => MarksKept
    BY DEF MarksKept
  <1>3. ASSUME NEW j, \/ slot' = [slot EXCEPT ![j] = Shared(@)]
                      \/ slot' = [slot EXCEPT ![j] = Exclusive(@)]
                      \/ slot' = [slot EXCEPT ![j] = Unlock(@)]
        PROVE  MarksKept
    <2>1. ASSUME NEW i \in Marks  PROVE slot'[i].mark = slot[i].mark
      <3>1. SlotRecord(slot[i]) /\ i \in DOMAIN slot
        BY <1>1
      <3>2. \/ slot'[i] = slot[i] \/ slot'[i] = Shared(slot[i])
            \/ slot'[i] = Exclusive(slot[i]) \/ slot'[i] = Unlock(slot[i])
        BY <1>3, <3>1
      <3> QED  BY <3>1, <3>2, LockedMark
    <2> QED  BY <2>1 DEF MarksKept
  <1>4. CASE ChooseMark(c)
    BY <1>2, <1>4, ChosenMark, FreeMark
  <1>5. CASE LockMark(c) \/ EndRead(c) \/ EndCommit(c) \/ AcquireGuard(c)
    BY <1>3, <1>5 DEF LockMark, EndRead, EndCommit, AcquireGuard
  <1>6. CASE Rollback(c) \/ CommitFails(c)
    BY <1>2, <1>3, <1>6 DEF Rollback, CommitFails, RollbackTx
  <1>7. CASE FinishCheckpoint(c) \/ CheckpointFails(c)
    BY <1>2, <1>3, <1>7 DEF FinishCheckpoint, CheckpointFails, ReleasedSlots
  <1>8. CASE TryRestartLog(c)
    <2>1. \/ slot' = slot
          \/ BusySlots = {} /\ slot' = RestartedMarks(slot)
          \/ BusySlots # {} /\ slot' = ClearedPrefix
      BY <1>8 DEF TryRestartLog
    <2>2. CASE BusySlots = {} /\ slot' = RestartedMarks(slot)
      <3>1. \A i \in Marks : slot[i].readers = 0
        BY <2>2, ClearedMarks
      <3> QED  BY <3>1 DEF MarksKept
    <2>3. CASE BusySlots # {} /\ slot' = ClearedPrefix
      BY <2>3, ClearedMarks DEF MarksKept
    <2> QED  BY <1>2, <2>1, <2>2, <2>3
  <1>9. CASE ScanMark(c)
    <2> DEFINE i == ckpt[c].scan
               m == IF i = 1 THEN ckpt[c].max ELSE READMARK_NOT_USED
    <2>1. i \in Marks /\ (slot' = slot \/ (Free(slot[i]) /\ slot' = [slot EXCEPT ![i].mark = m]))
      BY <1>9 DEF ScanMark, Movable
    <2> HIDE DEF i, m
    <2> QED  BY <1>2, <2>1, FreeMark
  <1>10. CASE DetermineResult(c)
    <2>1. \/ slot' = ReleasedSlots(c) \/ slot' = slot
          \/ BusySlots # {} /\ slot' = [ClearedPrefix EXCEPT ![0] = Unlock(@)]
          \/ BusySlots = {}
      BY <1>10 DEF DetermineResult
    <2>2. CASE slot' = ReleasedSlots(c)
      BY <1>2, <1>3, <2>2 DEF ReleasedSlots
    <2>3. CASE BusySlots # {} /\ slot' = [ClearedPrefix EXCEPT ![0] = Unlock(@)]
      <3>1. \A i \in Marks : slot'[i] = ClearedPrefix[i]
        BY <1>1, <2>3 DEF ClearedPrefix
      <3> QED  BY <2>3, <3>1, ClearedMarks DEF MarksKept
    <2>4. CASE BusySlots = {}
      <3>1. \A i \in Marks : slot[i].readers = 0
        BY <2>4, ClearedMarks
      <3> QED  BY <3>1 DEF MarksKept
    <2> QED  BY <1>2, <2>1, <2>2, <2>3, <2>4
  <1>11. CASE FinalizeWal(c)
    <2>1. \A i \in 0..Slots : slot'[i] = slot[i] \/ slot'[i] = Unlock(slot[i])
      BY <1>11 DEF FinalizeWal
    <2> QED  BY <1>1, <2>1, LockedMark DEF MarksKept
  <1>12. CASE VacuumStep(c)
    BY <1>2, <1>12 DEF VacuumStep, BeginVacuum, BeginVacuumTx, VacuumBusy, EndVacuumCommit
  <1>13. CASE \/ BeginRead(c) \/ RetryRead(c) \/ BeginWriteTx(c) \/ PrepareWal(c)
              \/ PrepareWalSync(c) \/ WriteFrames(c) \/ SyncWal(c) \/ WalCommitDone(c)
              \/ \E p \in Pages : ReadPage(c, p) \/ Modify(c, p) \/ SpillPage(c, p)
    <2>1. CASE BeginRead(c) \/ RetryRead(c) \/ BeginWriteTx(c) \/ PrepareWal(c)
      BY <1>2, <2>1 DEF BeginRead, RetryRead, BeginWriteTx, PrepareWal
    <2>2. CASE PrepareWalSync(c) \/ WriteFrames(c) \/ SyncWal(c)
      BY <1>2, <2>2 DEF PrepareWalSync, WriteFrames, SyncWal
    <2>3. CASE WalCommitDone(c)
      <3>1. UNCHANGED slot
        BY <2>3 DEF WalCommitDone
      <3> QED  BY <1>2, <3>1
    <2>4. CASE \E p \in Pages : ReadPage(c, p) \/ Modify(c, p) \/ SpillPage(c, p)
      <3>1. PICK p \in Pages : ReadPage(c, p) \/ Modify(c, p) \/ SpillPage(c, p)
        BY <2>4
      <3> QED  BY <1>2, <3>1 DEF ReadPage, Modify, SpillPage
    <2> QED  BY <1>13, <2>1, <2>2, <2>3, <2>4
  <1>14. CASE \/ Checkpoint(c) \/ SkipAutoCheckpoint(c) \/ CheckpointBusy(c) \/ ListFrames(c)
              \/ Backfill(c) \/ SyncDbFile(c) \/ PublishBackfill(c) \/ TruncateWal(c)
              \/ SyncTruncatedWal(c)
    <2>1. CASE Checkpoint(c) \/ SkipAutoCheckpoint(c) \/ CheckpointBusy(c)
      BY <1>2, <2>1 DEF Checkpoint, StartCheckpoint, SkipAutoCheckpoint, CheckpointBusy
    <2>4. CASE ListFrames(c)
      <3>1. UNCHANGED slot
        BY <2>4 DEF ListFrames
      <3> QED  BY <1>2, <3>1
    <2>2. CASE Backfill(c)
      BY <1>2, <2>2 DEF Backfill
    <2>3. CASE SyncDbFile(c) \/ PublishBackfill(c) \/ TruncateWal(c) \/ SyncTruncatedWal(c)
      BY <1>2, <2>3 DEF SyncDbFile, PublishBackfill, TruncateWal, SyncTruncatedWal
    <2> QED  BY <1>14, <2>1, <2>2, <2>3, <2>4
  <1> QED  BY <1>4, <1>5, <1>6, <1>7, <1>8, <1>9, <1>10, <1>11, <1>12, <1>13, <1>14
              DEF Transaction, CheckpointStep

LEMMA HeldMarkStep ==
    LockInv /\ [Next]_vars =>
        [\A i \in Marks : slot[i].readers > 0 /\ slot'[i].readers > 0
            => slot'[i].mark = slot[i].mark]_vars
  <1> SUFFICES ASSUME LockInv, Next
               PROVE  \A i \in Marks : slot[i].readers > 0 /\ slot'[i].readers > 0
                        => slot'[i].mark = slot[i].mark
    OBVIOUS
  <1>1. CASE Crash
    <2>1. \A i \in Marks : slot'[i].readers = 0
      BY <1>1, SlotShape DEF Crash, EmptySlots
    <2> QED  BY <2>1
  <1>2. CASE \E c \in Conns : Transaction(c) \/ CheckpointStep(c) \/ VacuumStep(c)
    BY <1>2, StepKeepsMarks DEF MarksKept
  <1> QED  BY <1>1, <1>2 DEF Next

(* What determine_max_safe_checkpoint_frame relies on ("We never modify slot *)
(* values while a reader holds that slot's lock"): whatever begin_read,      *)
(* a checkpoint's scan or a restart of the log does to the marks, one that a *)
(* reader holds keeps its value.                                             *)
THEOREM ReadMarksAreStable == Spec => HeldMarksStay
  BY LockInvHolds, HeldMarkStep, PTL DEF Spec, HeldMarksStay

=============================================================================
