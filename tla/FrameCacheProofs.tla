-------------------------- MODULE FrameCacheProofs --------------------------
(***************************************************************************)
(* Facts about the frame cache, for the proofs about the modules that use  *)
(* it.                                                                     *)
(***************************************************************************)
EXTENDS FrameCache, Extrema

-----------------------------------------------------------------------------
(* The cached frames of one page.                                           *)

TopOf(s) == IF s = <<>> THEN 0 ELSE s[Len(s)]

LatestOf(s, hi) ==
    LET hits == {i \in DOMAIN s : s[i] \in 1..hi}
    IN  IF hits = {} THEN 0 ELSE s[Max(hits)]

Popped(s, m) ==
    LET keep == {i \in DOMAIN s : s[i] <= m}
    IN  IF keep = {} THEN <<>> ELSE SubSeq(s, 1, Max(keep))

LEMMA LatestFrameOf ==
    ASSUME NEW fc, NEW p, NEW hi
    PROVE  LatestFrame(fc, p, 1, hi) = LatestOf(fc[p], hi)
  BY DEF LatestFrame, LatestOf

LEMMA RolledBackOf ==
    ASSUME NEW fc, NEW m
    PROVE  /\ DOMAIN RolledBack(fc, m) = DOMAIN fc
           /\ \A p \in DOMAIN fc : RolledBack(fc, m)[p] = Popped(fc[p], m)
  BY DEF RolledBack, Popped

FrameNumber == Nat \ {0}

(* Both choices are the newest entry that qualifies.                        *)
LEMMA LatestIs ==
    ASSUME NEW s \in Seq(FrameNumber), NEW hi \in Nat
    PROVE  \/ LatestOf(s, hi) = 0 /\ \A i \in 1..Len(s) : s[i] > hi
           \/ \E i \in 1..Len(s) : /\ LatestOf(s, hi) = s[i] /\ s[i] \in 1..hi
                                   /\ \A j \in 1..Len(s) : j > i => s[j] > hi
  <1> DEFINE hits == {i \in DOMAIN s : s[i] \in 1..hi}
  <1>1. hits \subseteq Nat /\ (\A x \in hits : x <= Len(s)) /\ Len(s) \in Nat /\ DOMAIN s = 1..Len(s)
    OBVIOUS
  <1>2. \A i \in 1..Len(s) : s[i] \in FrameNumber
    OBVIOUS
  <1>3. \A i \in 1..Len(s) : i \notin hits => s[i] > hi
    BY <1>2 DEF FrameNumber
  <1>4. LatestOf(s, hi) = IF hits = {} THEN 0 ELSE s[Max(hits)]
    BY DEF LatestOf
  <1>5. CASE hits = {}
    BY <1>3, <1>4, <1>5
  <1>6. CASE hits # {}
    <2>1. Max(hits) \in hits /\ \A y \in hits : Max(hits) >= y
      BY <1>1, <1>6, MaxOf
    <2> DEFINE i == Max(hits)
    <2>2. i \in 1..Len(s) /\ s[i] \in 1..hi /\ LatestOf(s, hi) = s[i]
      BY <1>1, <1>4, <1>6, <2>1
    <2>0. i \in Nat /\ \A y \in hits : i >= y /\ y \in Nat
      BY <1>1, <2>1
    <2> HIDE DEF i, hits
    <2>3. \A j \in 1..Len(s) : j > i => j \notin hits
      BY <2>0
    <2>4. \A j \in 1..Len(s) : j > i => s[j] > hi
      BY <1>3, <2>3
    <2> QED  BY <2>2, <2>4
  <1> QED  BY <1>5, <1>6

LEMMA PoppedIs ==
    ASSUME NEW s \in Seq(FrameNumber), NEW m \in Nat
    PROVE  \/ Popped(s, m) = <<>> /\ \A i \in 1..Len(s) : s[i] > m
           \/ \E i \in 1..Len(s) : /\ Popped(s, m) = SubSeq(s, 1, i) /\ s[i] \in 1..m
                                   /\ \A j \in 1..Len(s) : j > i => s[j] > m
  <1> DEFINE keep == {i \in DOMAIN s : s[i] <= m}
  <1>1. keep \subseteq Nat /\ (\A x \in keep : x <= Len(s)) /\ Len(s) \in Nat /\ DOMAIN s = 1..Len(s)
    OBVIOUS
  <1>2. \A i \in 1..Len(s) : s[i] \in FrameNumber
    OBVIOUS
  <1>3. \A i \in 1..Len(s) : i \notin keep => s[i] > m
    BY <1>2 DEF FrameNumber
  <1>4. Popped(s, m) = IF keep = {} THEN <<>> ELSE SubSeq(s, 1, Max(keep))
    BY DEF Popped
  <1>5. CASE keep = {}
    BY <1>3, <1>4, <1>5
  <1>6. CASE keep # {}
    <2>1. Max(keep) \in keep /\ \A y \in keep : Max(keep) >= y
      BY <1>1, <1>6, MaxOf
    <2> DEFINE i == Max(keep)
    <2>2. i \in 1..Len(s) /\ s[i] <= m /\ Popped(s, m) = SubSeq(s, 1, i)
      BY <1>1, <1>4, <1>6, <2>1
    <2>3. s[i] \in 1..m
      BY <1>2, <2>2 DEF FrameNumber
    <2>0. i \in Nat /\ \A y \in keep : i >= y /\ y \in Nat
      BY <1>1, <2>1
    <2> HIDE DEF i, keep
    <2>4. \A j \in 1..Len(s) : j > i => j \notin keep
      BY <2>0
    <2>5. \A j \in 1..Len(s) : j > i => s[j] > m
      BY <1>3, <2>4
    <2> QED  BY <2>2, <2>3, <2>5
  <1> QED  BY <1>5, <1>6

(* The newest entry in range is determined by its position.                 *)
LEMMA LatestUnique ==
    ASSUME NEW s \in Seq(FrameNumber), NEW hi \in Nat, NEW i \in 1..Len(s), s[i] \in 1..hi,
           \A j \in 1..Len(s) : j > i => s[j] > hi
    PROVE  LatestOf(s, hi) = s[i]
  <1>1. \A j \in 1..Len(s) : s[j] \in Nat /\ j \in Nat
    BY DEF FrameNumber
  <1>2. CASE LatestOf(s, hi) = 0 /\ \A j \in 1..Len(s) : s[j] > hi
    BY <1>1, <1>2
  <1>3. ASSUME NEW j \in 1..Len(s), LatestOf(s, hi) = s[j], s[j] \in 1..hi,
               \A k \in 1..Len(s) : k > j => s[k] > hi
        PROVE  LatestOf(s, hi) = s[i]
    <2>1. ~(j > i) /\ ~(i > j)
      BY <1>1, <1>3
    <2>2. i = j
      BY <1>1, <1>3, <2>1
    <2> QED  BY <1>3, <2>2
  <1> QED  BY <1>2, <1>3, LatestIs

LEMMA LatestNone ==
    ASSUME NEW s \in Seq(FrameNumber), NEW hi \in Nat, \A j \in 1..Len(s) : s[j] > hi
    PROVE  LatestOf(s, hi) = 0
  <1>1. \A j \in 1..Len(s) : s[j] \in Nat
    BY DEF FrameNumber
  <1> QED  BY <1>1, LatestIs

LEMMA LatestRange ==
    ASSUME NEW s \in Seq(FrameNumber), NEW hi \in Nat
    PROVE  LatestOf(s, hi) \in 0..hi
  BY LatestIs DEF FrameNumber

LEMMA LatestIsTop ==
    ASSUME NEW s \in Seq(FrameNumber), NEW hi \in Nat, TopOf(s) <= hi
    PROVE  LatestOf(s, hi) = TopOf(s)
  <1>1. CASE s = <<>>
    <2>1. TopOf(s) = 0 /\ \A j \in 1..Len(s) : s[j] > hi
      BY <1>1 DEF TopOf
    <2> QED  BY <2>1, LatestNone
  <1>2. CASE s # <<>>
    <2> DEFINE n == Len(s)
    <2>1. n \in 1..Len(s) /\ s[n] \in FrameNumber /\ TopOf(s) = s[n]
      BY <1>2 DEF TopOf
    <2>2. s[n] \in 1..hi /\ \A j \in 1..Len(s) : ~(j > n)
      BY <2>1 DEF FrameNumber
    <2> QED  BY <2>1, <2>2, LatestUnique
  <1> QED  BY <1>1, <1>2

LEMMA AppendFrame ==
    ASSUME NEW s \in Seq(FrameNumber), NEW n \in FrameNumber, NEW u, u = Append(s, n)
    PROVE  /\ u \in Seq(FrameNumber) /\ TopOf(u) = n
           /\ \A hi \in Nat : LatestOf(u, hi) = IF n <= hi THEN n ELSE LatestOf(s, hi)
  <1>1. /\ u \in Seq(FrameNumber) /\ Len(u) = Len(s) + 1 /\ u[Len(s) + 1] = n
        /\ \A i \in 1..Len(s) : u[i] = s[i]
    OBVIOUS
  <1>2. TopOf(u) = n
    BY <1>1 DEF TopOf
  <1>3. ASSUME NEW hi \in Nat, n <= hi  PROVE LatestOf(u, hi) = n
    BY <1>1, <1>2, <1>3, LatestIsTop
  <1>4. ASSUME NEW hi \in Nat, n > hi  PROVE LatestOf(u, hi) = LatestOf(s, hi)
    <2>0. Len(s) \in Nat /\ \A j \in 1..Len(u) : j \in 1..Len(s) \/ j = Len(s) + 1
      BY <1>1
    <2>1. CASE LatestOf(s, hi) = 0 /\ \A i \in 1..Len(s) : s[i] > hi
      <3>1. \A j \in 1..Len(u) : u[j] > hi
        BY <1>1, <1>4, <2>0, <2>1
      <3> QED  BY <1>1, <2>1, <3>1, LatestNone
    <2>2. ASSUME NEW i \in 1..Len(s), LatestOf(s, hi) = s[i], s[i] \in 1..hi,
                 \A j \in 1..Len(s) : j > i => s[j] > hi
          PROVE  LatestOf(u, hi) = LatestOf(s, hi)
      <3>1. \A j \in 1..Len(u) : j > i => u[j] > hi
        BY <1>1, <1>4, <2>0, <2>2
      <3>2. i \in 1..Len(u) /\ u[i] = s[i]
        BY <1>1, <2>0, <2>2
      <3> QED  BY <1>1, <2>2, <3>1, <3>2, LatestUnique
    <2> QED  BY <2>1, <2>2, LatestIs
  <1>5. ASSUME NEW hi \in Nat
        PROVE  LatestOf(u, hi) = IF n <= hi THEN n ELSE LatestOf(s, hi)
    <2>1. n <= hi \/ n > hi
      BY DEF FrameNumber
    <2> QED  BY <1>3, <1>4, <2>1 DEF FrameNumber
  <1> QED  BY <1>1, <1>2, <1>5

(* Popping keeps what is found up to the mark and uncovers it.              *)
LEMMA PoppedKeeps ==
    ASSUME NEW s \in Seq(FrameNumber), NEW m \in Nat, NEW u, u = Popped(s, m)
    PROVE  /\ u \in Seq(FrameNumber) /\ TopOf(u) = LatestOf(s, m)
           /\ \A hi \in 0..m : LatestOf(u, hi) = LatestOf(s, hi)
  <1>0. \A i \in 1..Len(s) : s[i] \in Nat /\ i \in Nat
    BY DEF FrameNumber
  <1>1. CASE u = <<>> /\ \A i \in 1..Len(s) : s[i] > m
    <2>1. u \in Seq(FrameNumber) /\ TopOf(u) = 0 /\ Len(u) = 0
      BY <1>1 DEF TopOf
    <2>2. LatestOf(s, m) = 0
      BY <1>1, LatestNone
    <2>3. ASSUME NEW hi \in 0..m  PROVE LatestOf(u, hi) = LatestOf(s, hi)
      <3>1. hi \in Nat /\ \A i \in 1..Len(s) : s[i] > hi
        BY <1>0, <1>1, <2>3
      <3>2. LatestOf(s, hi) = 0
        BY <3>1, LatestNone
      <3>3. \A i \in 1..Len(u) : u[i] > hi
        BY <2>1
      <3>4. LatestOf(u, hi) = 0
        BY <2>1, <3>1, <3>3, LatestNone
      <3> QED  BY <3>2, <3>4
    <2> QED  BY <2>1, <2>2, <2>3
  <1>2. ASSUME NEW i \in 1..Len(s), u = SubSeq(s, 1, i), s[i] \in 1..m,
               \A j \in 1..Len(s) : j > i => s[j] > m
        PROVE  /\ u \in Seq(FrameNumber) /\ TopOf(u) = LatestOf(s, m)
               /\ \A hi \in 0..m : LatestOf(u, hi) = LatestOf(s, hi)
    <2>1. /\ u \in Seq(FrameNumber) /\ Len(u) = i /\ i \in 1..i
          /\ \A j \in 1..i : u[j] = s[j] /\ j \in 1..Len(s)
      BY <1>0, <1>2
    <2>2. TopOf(u) = s[i]
      BY <1>0, <2>1 DEF TopOf
    <2>3. LatestOf(s, m) = s[i]
      BY <1>2, LatestUnique
    <2>4. ASSUME NEW hi \in 0..m  PROVE LatestOf(u, hi) = LatestOf(s, hi)
      <3>0. hi \in Nat /\ \A j \in 1..Len(s) : j > i => s[j] > hi
        BY <1>0, <1>2, <2>4
      <3>1. CASE LatestOf(u, hi) = 0 /\ \A j \in 1..Len(u) : u[j] > hi
        <4>1. \A j \in 1..Len(s) : s[j] > hi
          BY <1>0, <2>1, <3>0, <3>1
        <4> QED  BY <3>0, <3>1, <4>1, LatestNone
      <3>2. ASSUME NEW k \in 1..Len(u), LatestOf(u, hi) = u[k], u[k] \in 1..hi,
                   \A j \in 1..Len(u) : j > k => u[j] > hi
            PROVE  LatestOf(u, hi) = LatestOf(s, hi)
        <4>1. k \in 1..Len(s) /\ u[k] = s[k]
          BY <2>1, <3>2
        <4>2. \A j \in 1..Len(s) : j > k => s[j] > hi
          BY <1>0, <1>2, <2>1, <3>0, <3>2
        <4> QED  BY <3>0, <3>2, <4>1, <4>2, LatestUnique
      <3> QED  BY <2>1, <3>0, <3>1, <3>2, LatestIs
    <2> QED  BY <2>1, <2>2, <2>3, <2>4
  <1> QED  BY <1>1, <1>2, PoppedIs

LEMMA PoppedType ==
    ASSUME NEW T, T \subseteq FrameNumber, NEW s \in Seq(T), NEW m \in Nat
    PROVE  Popped(s, m) \in Seq(T)
  <1>1. s \in Seq(FrameNumber)
    OBVIOUS
  <1>2. CASE Popped(s, m) = <<>>
    BY <1>2
  <1>3. ASSUME NEW i \in 1..Len(s), Popped(s, m) = SubSeq(s, 1, i)
        PROVE  Popped(s, m) \in Seq(T)
    BY <1>3
  <1> QED  BY <1>1, <1>2, <1>3, PoppedIs

-----------------------------------------------------------------------------
(* Lookups that do not begin at the first frame.                            *)

LatestBetween(s, lo, hi) ==
    LET hits == {i \in DOMAIN s : s[i] \in lo + 1..hi}
    IN  IF hits = {} THEN 0 ELSE s[Max(hits)]

LEMMA LatestFrameBetween ==
    ASSUME NEW fc, NEW p, NEW lo, NEW hi
    PROVE  LatestFrame(fc, p, lo + 1, hi) = LatestBetween(fc[p], lo, hi)
  BY DEF LatestFrame, LatestBetween

(* The entries up to b are a prefix of the list.                            *)
InOrderAt(s, b) == \A i, j \in 1..Len(s) : i < j /\ s[j] <= b => s[i] <= b

(* Behind such a bound the newest entry is the newest of all, if any is.    *)
LEMMA LatestSplit ==
    ASSUME NEW s \in Seq(FrameNumber), NEW lo \in Nat, NEW hi \in Nat, InOrderAt(s, lo)
    PROVE  LatestBetween(s, lo, hi) = IF LatestOf(s, hi) > lo THEN LatestOf(s, hi) ELSE 0
  <1> DEFINE hits == {i \in DOMAIN s : s[i] \in lo + 1..hi}
  <1>1. /\ hits \subseteq Nat /\ (\A x \in hits : x <= Len(s)) /\ Len(s) \in Nat
        /\ \A x : x \in hits <=> x \in 1..Len(s) /\ s[x] \in lo + 1..hi
    OBVIOUS
  <1>2. \A i \in 1..Len(s) : s[i] \in Nat /\ i \in Nat
    BY DEF FrameNumber
  <1>3. LatestBetween(s, lo, hi) = IF hits = {} THEN 0 ELSE s[Max(hits)]
    BY DEF LatestBetween
  <1> HIDE DEF hits
  <1>4. CASE LatestOf(s, hi) = 0 /\ \A i \in 1..Len(s) : s[i] > hi
    <2>1. hits = {}
      BY <1>1, <1>2, <1>4
    <2> QED  BY <1>3, <1>4, <2>1
  <1>5. ASSUME NEW i \in 1..Len(s), LatestOf(s, hi) = s[i], s[i] \in 1..hi,
               \A j \in 1..Len(s) : j > i => s[j] > hi
        PROVE  LatestBetween(s, lo, hi) = IF LatestOf(s, hi) > lo THEN LatestOf(s, hi) ELSE 0
    <2>1. CASE s[i] > lo
      <3>0. s[i] \in lo + 1..hi
        BY <1>2, <1>5, <2>1
      <3>1. i \in hits
        BY Zenon, <1>1, <1>5, <3>0
      <3>2. Max(hits) \in hits /\ \A y \in hits : Max(hits) >= y
        BY <1>1, <3>1, MaxOf
      <3>3. PICK k \in hits : k = Max(hits) /\ k >= i
        BY <3>1, <3>2
      <3>4. k \in 1..Len(s) /\ s[k] <= hi
        BY <1>1, <1>2, <3>3
      <3>5. ~(k > i)
        BY <1>2, <1>5, <3>4
      <3>6. k = i
        BY <1>2, <3>3, <3>4, <3>5
      <3> QED  BY <1>3, <1>5, <2>1, <3>1, <3>3, <3>6
    <2>2. CASE s[i] <= lo
      <3>1. ASSUME NEW x \in hits  PROVE FALSE
        <4>1. x \in 1..Len(s) /\ s[x] > lo /\ s[x] <= hi
          BY <1>1, <1>2, <3>1
        <4>2. ~(x > i)
          BY <1>2, <1>5, <4>1
        <4>3. ~(x < i)
          BY <1>2, <2>2, <4>1 DEF InOrderAt
        <4>4. x = i
          BY <1>2, <4>1, <4>2, <4>3
        <4> QED  BY <1>2, <2>2, <4>1, <4>4
      <3> QED  BY <1>2, <1>3, <1>5, <2>2, <3>1
    <2> QED  BY <1>2, <2>1, <2>2
  <1> QED  BY <1>4, <1>5, LatestIs

(* The newest entry up to b is the newest up to a when it is not above a,   *)
(* and never older than that.                                               *)
LEMMA LatestBelow ==
    ASSUME NEW s \in Seq(FrameNumber), NEW a \in Nat, NEW b \in Nat, a <= b
    PROVE  /\ LatestOf(s, b) <= a => LatestOf(s, b) = LatestOf(s, a)
           /\ LatestOf(s, a) <= LatestOf(s, b)
  <1>0. \A i \in 1..Len(s) : s[i] \in Nat /\ i \in Nat
    BY DEF FrameNumber
  <1>1. CASE LatestOf(s, b) = 0 /\ \A i \in 1..Len(s) : s[i] > b
    <2>1. \A i \in 1..Len(s) : s[i] > a
      BY <1>0, <1>1
    <2>2. LatestOf(s, a) = 0
      BY <2>1, LatestNone
    <2> QED  BY <1>1, <2>2
  <1>2. ASSUME NEW i \in 1..Len(s), LatestOf(s, b) = s[i], s[i] \in 1..b,
               \A j \in 1..Len(s) : j > i => s[j] > b
        PROVE  /\ LatestOf(s, b) <= a => LatestOf(s, b) = LatestOf(s, a)
               /\ LatestOf(s, a) <= LatestOf(s, b)
    <2>1. \A j \in 1..Len(s) : j > i => s[j] > a
      BY <1>0, <1>2
    <2>2. CASE s[i] <= a
      <3>1. s[i] \in 1..a
        BY <1>0, <1>2, <2>2
      <3>2. LatestOf(s, a) = s[i]
        BY <2>1, <3>1, LatestUnique
      <3> QED  BY <1>0, <1>2, <3>2
    <2>3. CASE s[i] > a
      <3>1. LatestOf(s, a) \in 0..a
        BY LatestRange
      <3>2. LatestOf(s, a) <= s[i]
        BY <1>0, <2>3, <3>1
      <3>3. ~(s[i] <= a)
        BY <1>0, <2>3
      <3> QED  BY <1>2, <3>2, <3>3
    <2> QED  BY <1>0, <2>2, <2>3
  <1> QED  BY <1>1, <1>2, LatestIs

(* A new entry above the bounds, a list cut at its end.                     *)
LEMMA InOrderAppend ==
    ASSUME NEW s \in Seq(FrameNumber), NEW n \in FrameNumber, NEW b \in Nat,
           InOrderAt(s, b), n > b
    PROVE  InOrderAt(Append(s, n), b)
  <1> DEFINE u == Append(s, n)
  <1>1. /\ Len(u) = Len(s) + 1 /\ u[Len(s) + 1] = n /\ Len(s) \in Nat
        /\ \A i \in 1..Len(s) : u[i] = s[i]
    OBVIOUS
  <1> HIDE DEF u
  <1>2. SUFFICES ASSUME NEW i \in 1..Len(u), NEW j \in 1..Len(u), i < j, u[j] <= b
                 PROVE  u[i] <= b
    BY DEF InOrderAt, u
  <1>3. j # Len(s) + 1
    BY <1>1, <1>2 DEF FrameNumber
  <1>4. i \in 1..Len(s) /\ j \in 1..Len(s)
    BY <1>1, <1>2, <1>3
  <1> QED  BY <1>1, <1>2, <1>4 DEF InOrderAt

LEMMA InOrderBelow ==
    ASSUME NEW s \in Seq(FrameNumber), NEW b \in Nat, \A i \in 1..Len(s) : s[i] <= b
    PROVE  InOrderAt(s, b)
  BY DEF InOrderAt

LEMMA PoppedPrefix ==
    ASSUME NEW s \in Seq(FrameNumber), NEW m \in Nat, NEW u, u = Popped(s, m)
    PROVE  /\ \A b \in Nat : InOrderAt(s, b) => InOrderAt(u, b)
           /\ InOrderAt(s, m) => \A i \in 1..Len(u) : u[i] <= m
  <1>0. \A i \in 1..Len(s) : s[i] \in Nat /\ i \in Nat
    BY DEF FrameNumber
  <1>1. CASE u = <<>>
    BY <1>1 DEF InOrderAt
  <1>2. ASSUME NEW i \in 1..Len(s), u = SubSeq(s, 1, i), s[i] \in 1..m
        PROVE  /\ \A b \in Nat : InOrderAt(s, b) => InOrderAt(u, b)
               /\ InOrderAt(s, m) => \A j \in 1..Len(u) : u[j] <= m
    <2>1. /\ Len(u) = i /\ i \in Nat /\ \A j \in 1..i : u[j] = s[j] /\ j \in 1..Len(s)
      BY <1>0, <1>2
    <2>2. ASSUME NEW b \in Nat, InOrderAt(s, b)  PROVE InOrderAt(u, b)
      BY <2>1, <2>2 DEF InOrderAt
    <2>3. ASSUME InOrderAt(s, m), NEW j \in 1..Len(u)  PROVE u[j] <= m
      <3>1. j \in 1..Len(s) /\ u[j] = s[j] /\ (j < i \/ j = i)
        BY <1>0, <2>1, <2>3
      <3>2. s[i] <= m
        BY <1>0, <1>2
      <3> QED  BY <2>3, <3>1, <3>2 DEF InOrderAt
    <2> QED  BY <2>2, <2>3
  <1> QED  BY <1>1, <1>2, PoppedIs
=============================================================================
