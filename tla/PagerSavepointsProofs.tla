------------------------ MODULE PagerSavepointsProofs ------------------------
(***************************************************************************)
(* Proofs about PagerSavepoints for every database size, every nesting of  *)
(* savepoints and every bound: first that the savepoints nest (NestInv),   *)
(* then what a transaction sees between them.                              *)
(***************************************************************************)
EXTENDS PagerSavepoints, FrameCacheProofs

-----------------------------------------------------------------------------
(* Sequences of anything.                                                   *)

IsSeq(s) == \E S : s \in Seq(S)

LEMMA SeqShape ==
    ASSUME NEW s, IsSeq(s)
    PROVE  Len(s) \in Nat /\ DOMAIN s = 1..Len(s) /\ (s = <<>> <=> Len(s) = 0)
  <1>1. PICK S : s \in Seq(S)
    BY DEF IsSeq
  <1> QED  BY <1>1

LEMMA SeqAppend ==
    ASSUME NEW s, IsSeq(s), NEW x, NEW u, u = Append(s, x)
    PROVE  /\ IsSeq(u) /\ Len(u) = Len(s) + 1
           /\ \A i \in 1..Len(s) : u[i] = s[i]
           /\ u[Len(s) + 1] = x
  <1>1. PICK S : s \in Seq(S)
    BY DEF IsSeq
  <1>2. s \in Seq(S \union {x})
    BY <1>1
  <1>3. u \in Seq(S \union {x})
    BY <1>2
  <1> QED  BY <1>2, <1>3 DEF IsSeq

LEMMA SeqPrefix ==
    ASSUME NEW s, IsSeq(s), NEW n \in 0..Len(s), NEW u, u = SubSeq(s, 1, n)
    PROVE  /\ IsSeq(u) /\ Len(u) = n
           /\ \A i \in 1..n : u[i] = s[i]
  <1>1. PICK S : s \in Seq(S)
    BY DEF IsSeq
  <1>2. u \in Seq(S) /\ Len(u) = n
    BY <1>1
  <1>3. \A i \in 1..n : u[i] = s[i]
    BY <1>1
  <1> QED  BY <1>2, <1>3 DEF IsSeq

LEMMA SeqReplace ==
    ASSUME NEW s, IsSeq(s), NEW n \in 1..Len(s), NEW x, NEW u, u = [s EXCEPT ![n] = x]
    PROVE  /\ IsSeq(u) /\ Len(u) = Len(s)
           /\ \A i \in 1..Len(s) : u[i] = IF i = n THEN x ELSE s[i]
  <1>1. PICK S : s \in Seq(S)
    BY DEF IsSeq
  <1>2. s \in Seq(S \union {x})
    BY <1>1
  <1>3. u \in Seq(S \union {x}) /\ Len(u) = Len(s)
    BY <1>2
  <1> QED  BY <1>2, <1>3 DEF IsSeq

LEMMA SeqConcat ==
    ASSUME NEW s, IsSeq(s), NEW t, IsSeq(t), NEW u, u = s \o t
    PROVE  /\ IsSeq(u) /\ Len(u) = Len(s) + Len(t)
           /\ \A i \in 1..Len(s) : u[i] = s[i]
           /\ \A i \in 1..Len(t) : u[Len(s) + i] = t[i]
  <1>1. PICK S : s \in Seq(S)
    BY DEF IsSeq
  <1>2. PICK T : t \in Seq(T)
    BY DEF IsSeq
  <1>3. s \in Seq(S \union T) /\ t \in Seq(S \union T)
    BY <1>1, <1>2
  <1>4. u \in Seq(S \union T) /\ Len(u) = Len(s) + Len(t)
    BY <1>3
  <1> QED  BY <1>3, <1>4 DEF IsSeq

LEMMA SeqEmpty == IsSeq(<<>>) /\ Len(<<>>) = 0
  <1>1. <<>> \in Seq({})
    OBVIOUS
  <1> QED  BY <1>1 DEF IsSeq

LEMMA SeqSingle ==
    ASSUME NEW x
    PROVE  IsSeq(<<x>>) /\ Len(<<x>>) = 1 /\ <<x>>[1] = x
  <1>1. <<x>> \in Seq({x})
    OBVIOUS
  <1> QED  BY <1>1 DEF IsSeq

-----------------------------------------------------------------------------
(* The stack of savepoints and the subjournal.                              *)

SavepointRecord(r) ==
    DOMAIN r = {"kind", "starts", "start", "end", "bitmap", "db_size", "wal_max", "fk"}

Stack ==
    /\ IsSeq(savepoints) /\ IsSeq(subjournal)
    /\ \A i \in 1..Len(savepoints) :
        /\ SavepointRecord(savepoints[i])
        /\ savepoints[i].start \in Nat /\ savepoints[i].end \in Nat

(* Every savepoint ends before any later one starts: what lets a rollback   *)
(* cut the subjournal at the start of its savepoint.                        *)
Offsets ==
    /\ JournalEnd = Len(subjournal)
    /\ savepoints # <<>> => savepoints[1].start = 0
    /\ \A i \in 1..Len(savepoints) :
        /\ savepoints[i].start <= savepoints[i].end
        /\ \A j \in 1..i - 1 : savepoints[j].end <= savepoints[i].start

Owners ==
    /\ in_use \in BOOLEAN /\ running \in BOOLEAN /\ auto_commit \in BOOLEAN
    /\ in_use <=> running /\ ~auto_commit
    /\ in_use <=> \E i \in 1..Len(savepoints) : savepoints[i].kind = "Statement"
    /\ \A i \in 1..Len(savepoints) : savepoints[i].kind = "Statement" => i = Len(savepoints)

NestInv == Stack /\ Offsets /\ Owners

(* The end of the subjournal bounds every offset.                           *)
LEMMA EndBounds ==
    ASSUME Stack, Offsets
    PROVE  /\ Len(subjournal) \in Nat /\ Len(savepoints) \in Nat
           /\ DOMAIN savepoints = 1..Len(savepoints) /\ DOMAIN subjournal = 1..Len(subjournal)
           /\ savepoints = <<>> <=> Len(savepoints) = 0
           /\ Len(savepoints) = 0 => Len(subjournal) = 0
           /\ Len(savepoints) > 0 => savepoints[Len(savepoints)].end = Len(subjournal)
           /\ \A i \in 1..Len(savepoints) : savepoints[i].end <= Len(subjournal)
  <1>1. /\ Len(subjournal) \in Nat /\ Len(savepoints) \in Nat
        /\ DOMAIN savepoints = 1..Len(savepoints) /\ DOMAIN subjournal = 1..Len(subjournal)
        /\ savepoints = <<>> <=> Len(savepoints) = 0
    BY SeqShape DEF Stack
  <1>2. /\ Len(savepoints) = 0 => Len(subjournal) = 0
        /\ Len(savepoints) > 0 => savepoints[Len(savepoints)].end = Len(subjournal)
    BY <1>1 DEF Offsets, JournalEnd, Last
  <1>3. ASSUME NEW i \in 1..Len(savepoints)  PROVE savepoints[i].end <= Len(subjournal)
    <2>1. CASE i = Len(savepoints)
      BY <1>1, <1>2, <2>1
    <2>2. CASE i # Len(savepoints)
      <3> DEFINE n == Len(savepoints)
      <3>0. n \in Nat /\ i \in 1..n /\ i # n
        BY <1>1, <1>3, <2>2
      <3> HIDE DEF n
      <3>1. n \in 1..n /\ i \in 1..n - 1 /\ n > 0
        BY <3>0
      <3>2. /\ savepoints[i].end <= savepoints[n].start /\ savepoints[n].start <= savepoints[n].end
            /\ savepoints[i].end \in Nat /\ savepoints[n].start \in Nat /\ savepoints[n].end \in Nat
        BY <3>1 DEF n, Stack, Offsets
      <3> QED  BY SMTT(40), <1>1, <1>2, <3>1, <3>2 DEF n
    <2> QED  BY <2>1, <2>2
  <1> QED  BY <1>1, <1>2, <1>3

(* What a savepoint keeps while others are opened, released or taken back.  *)
SameSavepoint(r, s) ==
    /\ SavepointRecord(r)
    /\ r.kind = s.kind /\ r.starts = s.starts /\ r.start = s.start
    /\ r.db_size = s.db_size /\ r.wal_max = s.wal_max /\ r.fk = s.fk

LEMMA JournalStep ==
    ASSUME Stack, Offsets, NEW new, IsSeq(new), savepoints = <<>> => new = <<>>, Journal(new)
    PROVE  /\ IsSeq(savepoints') /\ Len(savepoints') = Len(savepoints)
           /\ \A i \in 1..Len(savepoints) :
                /\ SameSavepoint(savepoints'[i], savepoints[i])
                /\ savepoints'[i].end = IF i = Len(savepoints) THEN Len(subjournal')
                                        ELSE savepoints[i].end
                /\ \A p : p \in savepoints'[i].bitmap <=>
                            \/ p \in savepoints[i].bitmap
                            \/ i = Len(savepoints) /\ \E k \in 1..Len(new) : new[k].page = p
           /\ IsSeq(subjournal') /\ Len(subjournal') = Len(subjournal) + Len(new)
           /\ \A k \in 1..Len(subjournal) : subjournal'[k] = subjournal[k]
           /\ \A k \in 1..Len(new) : subjournal'[Len(subjournal) + k] = new[k]
  <1>1. /\ Len(subjournal) \in Nat /\ Len(savepoints) \in Nat /\ IsSeq(subjournal)
        /\ JournalEnd = Len(subjournal) /\ Len(new) \in Nat /\ DOMAIN new = 1..Len(new)
        /\ new = <<>> <=> Len(new) = 0
    BY EndBounds, SeqShape DEF Stack, Offsets
  <1>0. PICK old : old = SubSeq(subjournal, 1, Len(subjournal))
    OBVIOUS
  <1>2. /\ IsSeq(old) /\ Len(old) = Len(subjournal)
        /\ \A k \in 1..Len(subjournal) : old[k] = subjournal[k]
    <2>1. IsSeq(subjournal) /\ Len(subjournal) \in 0..Len(subjournal)
      BY <1>1
    <2> QED  BY <1>0, <2>1, SeqPrefix
  <1>3. subjournal' = old \o new
    BY <1>0, <1>1 DEF Journal
  <1>4. /\ IsSeq(subjournal') /\ Len(subjournal') = Len(subjournal) + Len(new)
        /\ \A k \in 1..Len(subjournal) : subjournal'[k] = subjournal[k]
        /\ \A k \in 1..Len(new) : subjournal'[Len(subjournal) + k] = new[k]
    <2>1. IsSeq(old) /\ IsSeq(new)
      BY <1>2
    <2>2. IsSeq(subjournal')
      BY <1>3, <2>1, SeqConcat, Zenon
    <2>3. /\ Len(subjournal') = Len(old) + Len(new)
          /\ \A k \in 1..Len(old) : subjournal'[k] = old[k]
          /\ \A k \in 1..Len(new) : subjournal'[Len(old) + k] = new[k]
      BY <1>3, <2>1, SeqConcat
    <2> QED  BY <1>2, <2>2, <2>3
  <1>5. CASE new = <<>>
    <2>1. savepoints' = savepoints /\ Len(subjournal') = Len(subjournal)
      BY <1>1, <1>4, <1>5 DEF Journal
    <2>2. \A k \in 1..Len(new) : FALSE
      BY <1>1, <1>5
    <2>3. \A i \in 1..Len(savepoints) :
            /\ SameSavepoint(savepoints[i], savepoints[i])
            /\ i = Len(savepoints) => savepoints[i].end = Len(subjournal)
      BY <1>1, EndBounds DEF SameSavepoint, Stack
    <2> QED  BY <1>4, <2>1, <2>2, <2>3 DEF Stack
  <1>6. CASE new # <<>>
    <2> DEFINE n == Len(savepoints)
               B == savepoints[n].bitmap \union {new[k].page : k \in 1..Len(new)}
               r == [savepoints[n] EXCEPT !.end = @ + Len(new), !.bitmap = B]
    <2>1. n \in 1..Len(savepoints) /\ savepoints[n].end = Len(subjournal)
      BY <1>1, <1>6, EndBounds
    <2>2. SavepointRecord(savepoints[n])
      BY <2>1 DEF Stack
    <2>3. /\ SameSavepoint(r, savepoints[n])
          /\ r.end = Len(subjournal) + Len(new) /\ r.bitmap = B
      BY <2>1, <2>2 DEF SameSavepoint, SavepointRecord
    <2>4. savepoints' = [savepoints EXCEPT ![n] = r]
      BY <1>1, <1>6, <2>1 DEF Journal
    <2>5. \A p : p \in B <=> p \in savepoints[n].bitmap \/ \E k \in 1..Len(new) : new[k].page = p
      OBVIOUS
    <2> HIDE DEF r, B
    <2>6. /\ IsSeq(savepoints') /\ Len(savepoints') = Len(savepoints)
          /\ \A i \in 1..Len(savepoints) : savepoints'[i] = IF i = n THEN r ELSE savepoints[i]
      <3>1. IsSeq(savepoints)
        BY DEF Stack
      <3>2. IsSeq(savepoints')
        BY <2>1, <2>4, <3>1, SeqReplace, Zenon
      <3> QED  BY <2>1, <2>4, <3>1, <3>2, SeqReplace
    <2>7. \A i \in 1..Len(savepoints) : SameSavepoint(savepoints[i], savepoints[i])
      BY DEF SameSavepoint, Stack
    <2> QED  BY <1>4, <2>3, <2>5, <2>6, <2>7
  <1> QED  BY <1>5, <1>6

LEMMA CutShape ==
    ASSUME Stack, NEW n \in 0..Len(savepoints), NEW off
    PROVE  /\ IsSeq(Cut(n, off)) /\ Len(Cut(n, off)) = n
           /\ \A i \in 1..n :
                /\ SameSavepoint(Cut(n, off)[i], savepoints[i])
                /\ Cut(n, off)[i].end = IF i = n THEN off ELSE savepoints[i].end
                /\ Cut(n, off)[i].bitmap = savepoints[i].bitmap
  <1>0. PICK below : below = SubSeq(savepoints, 1, n)
    OBVIOUS
  <1>1. /\ IsSeq(below) /\ Len(below) = n /\ \A i \in 1..n : below[i] = savepoints[i]
    BY <1>0, SeqPrefix DEF Stack
  <1>2. Len(savepoints) \in Nat /\ \A i \in 1..n : SavepointRecord(savepoints[i])
    BY SeqShape DEF Stack
  <1>3. CASE n = 0
    BY <1>3, SeqEmpty DEF Cut
  <1>4. CASE n # 0
    <2> DEFINE r == [below[n] EXCEPT !.end = off]
    <2>1. n \in 1..n
      BY <1>4
    <2>2. Cut(n, off) = [below EXCEPT ![n] = r]
      BY <1>0, <1>4 DEF Cut
    <2>3. SameSavepoint(r, savepoints[n]) /\ r.end = off /\ r.bitmap = savepoints[n].bitmap
      BY <1>1, <1>2, <2>1 DEF SameSavepoint, SavepointRecord
    <2> HIDE DEF r
    <2>4. /\ IsSeq(Cut(n, off)) /\ Len(Cut(n, off)) = n
          /\ \A i \in 1..n : Cut(n, off)[i] = IF i = n THEN r ELSE below[i]
      <3> DEFINE u == Cut(n, off)
      <3>1. IsSeq(below) /\ n \in 1..Len(below) /\ u = [below EXCEPT ![n] = r]
        BY <1>1, <2>1, <2>2
      <3> HIDE DEF u
      <3>2. IsSeq(u)
        BY <3>1, SeqReplace, Zenon
      <3>3. /\ Len(u) = Len(below)
            /\ \A i \in 1..Len(below) : u[i] = IF i = n THEN r ELSE below[i]
        BY <3>1, SeqReplace
      <3> QED  BY <1>1, <3>2, <3>3 DEF u
    <2>5. \A i \in 1..n : SameSavepoint(savepoints[i], savepoints[i])
      BY <1>2 DEF SameSavepoint
    <2> QED  BY <1>1, <2>3, <2>4, <2>5
  <1> QED  BY <1>3, <1>4

LEMMA OpenedShape ==
    ASSUME NEW kind, NEW starts, NEW k
    PROVE  LET r == Opened(kind, starts, k) IN
           /\ SavepointRecord(r) /\ r.kind = kind /\ r.starts = starts /\ r.fk = k
           /\ r.start = JournalEnd /\ r.end = JournalEnd /\ r.bitmap = {}
           /\ r.db_size = DbSize /\ r.wal_max = max_frame
  BY DEF Opened, SavepointRecord

(* The ways the stack changes.                                              *)

LEMMA JournalNests ==
    ASSUME Stack, Offsets, NEW new, IsSeq(new), savepoints = <<>> => new = <<>>, Journal(new)
    PROVE  Stack' /\ Offsets'
  <1> DEFINE n == Len(savepoints)
  <1>1. /\ IsSeq(savepoints') /\ Len(savepoints') = n
        /\ \A i \in 1..n :
             /\ SameSavepoint(savepoints'[i], savepoints[i])
             /\ savepoints'[i].end = IF i = n THEN Len(subjournal') ELSE savepoints[i].end
        /\ IsSeq(subjournal') /\ Len(subjournal') = Len(subjournal) + Len(new)
    BY JournalStep
  <1>2. /\ n \in Nat /\ Len(subjournal) \in Nat /\ Len(new) \in Nat
        /\ n = 0 => Len(subjournal) = 0 /\ Len(new) = 0
        /\ savepoints = <<>> <=> n = 0
        /\ \A i \in 1..n : savepoints[i].end <= Len(subjournal)
    BY EndBounds, SeqShape
  <1>3. /\ savepoints' = <<>> <=> n = 0
        /\ n # 0 => 1 \in 1..n /\ n \in 1..n
    BY <1>1, <1>2, SeqShape
  <1> HIDE DEF n
  <1>4. \A i \in 1..n : /\ savepoints[i].start \in Nat /\ savepoints[i].end \in Nat
                        /\ savepoints[i].start <= savepoints[i].end
                        /\ \A j \in 1..i - 1 : savepoints[j].end <= savepoints[i].start
    BY DEF n, Stack, Offsets
  <1>5. Stack'
    <2>1. Len(subjournal') \in Nat
      BY <1>1, <1>2
    <2>2. \A i \in 1..n : /\ SavepointRecord(savepoints'[i])
                          /\ savepoints'[i].start \in Nat /\ savepoints'[i].end \in Nat
      BY <1>1, <1>4, <2>1 DEF SameSavepoint
    <2> QED  BY <1>1, <2>2 DEF Stack
  <1>6. JournalEnd' = Len(subjournal')
    BY <1>1, <1>2, <1>3 DEF JournalEnd, Last
  <1>7. savepoints' # <<>> => savepoints'[1].start = 0
    BY <1>1, <1>2, <1>3 DEF Offsets, SameSavepoint
  <1>8. ASSUME NEW i \in 1..n  PROVE savepoints'[i].start <= savepoints'[i].end
    BY <1>1, <1>2, <1>4, <1>8 DEF SameSavepoint
  <1>9. ASSUME NEW i \in 1..n, NEW j \in 1..i - 1
        PROVE  savepoints'[j].end <= savepoints'[i].start
    <2>1. j \in 1..n /\ j # n
      BY <1>2, <1>9
    <2> QED  BY <1>1, <1>4, <1>9, <2>1 DEF SameSavepoint
  <1> QED  BY <1>1, <1>5, <1>6, <1>7, <1>8, <1>9 DEF Offsets

LEMMA OpenNests ==
    ASSUME Stack, Offsets, NEW r, SavepointRecord(r), r.start = JournalEnd, r.end = JournalEnd,
           savepoints' = Append(savepoints, r), UNCHANGED subjournal
    PROVE  /\ Stack' /\ Offsets' /\ Len(savepoints') = Len(savepoints) + 1
           /\ \A i \in 1..Len(savepoints) : savepoints'[i] = savepoints[i]
           /\ savepoints'[Len(savepoints) + 1] = r
  <1> DEFINE n == Len(savepoints)
  <1>1. IsSeq(savepoints) /\ IsSeq(subjournal')
    BY DEF Stack
  <1>2. IsSeq(savepoints')
    BY <1>1, SeqAppend, Zenon
  <1>3. /\ Len(savepoints') = n + 1
        /\ \A i \in 1..n : savepoints'[i] = savepoints[i]
        /\ savepoints'[n + 1] = r
    BY <1>1, SeqAppend
  <1>4. /\ n \in Nat /\ Len(subjournal) \in Nat /\ JournalEnd = Len(subjournal)
        /\ n = 0 => Len(subjournal) = 0
        /\ savepoints = <<>> <=> n = 0
        /\ \A i \in 1..n : savepoints[i].end <= Len(subjournal)
    BY EndBounds DEF Offsets
  <1>5. savepoints' # <<>>
    BY <1>2, <1>3, <1>4, SeqShape
  <1> HIDE DEF n
  <1>6. \A i \in 1..n : /\ savepoints[i].start \in Nat /\ savepoints[i].end \in Nat
                        /\ savepoints[i].start <= savepoints[i].end
                        /\ \A j \in 1..i - 1 : savepoints[j].end <= savepoints[i].start
    BY DEF n, Stack, Offsets
  <1>7. \A i \in 1..n + 1 : i \in 1..n \/ i = n + 1
    BY <1>4
  <1>8. Stack'
    <2>1. \A i \in 1..n : SavepointRecord(savepoints[i])
      BY DEF n, Stack
    <2>2. \A i \in 1..n + 1 : /\ SavepointRecord(savepoints'[i])
                              /\ savepoints'[i].start \in Nat /\ savepoints'[i].end \in Nat
      BY <1>3, <1>4, <1>6, <1>7, <2>1
    <2> QED  BY <1>1, <1>2, <1>3, <2>2 DEF Stack
  <1>9. JournalEnd' = Len(subjournal')
    BY <1>3, <1>4, <1>5 DEF JournalEnd, Last
  <1>10. savepoints'[1].start = 0
    <2>1. CASE n = 0
      BY <1>3, <1>4, <2>1
    <2>2. CASE n # 0
      <3>1. 1 \in 1..n /\ savepoints # <<>>
        BY <1>4, <2>2
      <3> QED  BY <1>3, <3>1 DEF Offsets
    <2> QED  BY <2>1, <2>2
  <1>11. ASSUME NEW i \in 1..n + 1  PROVE savepoints'[i].start <= savepoints'[i].end
    BY <1>3, <1>4, <1>6, <1>7, <1>11
  <1>12. ASSUME NEW i \in 1..n + 1, NEW j \in 1..i - 1
         PROVE  savepoints'[j].end <= savepoints'[i].start
    <2>1. j \in 1..n
      BY <1>4, <1>12
    <2> QED  BY <1>3, <1>4, <1>6, <1>7, <1>12, <2>1
  <1>13. Offsets'
    BY <1>3, <1>9, <1>10, <1>11, <1>12 DEF Offsets
  <1> QED  BY <1>3, <1>8, <1>13 DEF n

LEMMA CutNests ==
    ASSUME Stack, Offsets, NEW n \in 0..Len(savepoints), NEW off \in Nat,
           n > 0 => savepoints[n].start <= off, savepoints' = Cut(n, off),
           IsSeq(subjournal'), Len(subjournal') = IF n = 0 THEN 0 ELSE off
    PROVE  /\ Stack' /\ Offsets' /\ Len(savepoints') = n
           /\ \A i \in 1..n : SameSavepoint(savepoints'[i], savepoints[i])
  <1>1. /\ IsSeq(savepoints') /\ Len(savepoints') = n
        /\ \A i \in 1..n :
             /\ SameSavepoint(savepoints'[i], savepoints[i])
             /\ savepoints'[i].end = IF i = n THEN off ELSE savepoints[i].end
    BY CutShape
  <1>2. n \in Nat /\ n <= Len(savepoints) /\ Len(savepoints) \in Nat
    BY EndBounds
  <1>3. savepoints' = <<>> <=> n = 0
    BY <1>1, SeqShape
  <1>4. \A i \in 1..n : /\ savepoints[i].start \in Nat /\ savepoints[i].end \in Nat
                        /\ savepoints[i].start <= savepoints[i].end
                        /\ \A j \in 1..i - 1 : savepoints[j].end <= savepoints[i].start
    BY <1>2 DEF Stack, Offsets
  <1>5. Stack'
    BY <1>1, <1>2, <1>4 DEF Stack, SameSavepoint
  <1>6. JournalEnd' = Len(subjournal')
    BY <1>1, <1>2, <1>3 DEF JournalEnd, Last
  <1>7. savepoints' # <<>> => savepoints'[1].start = 0
    <2>1. CASE n # 0
      <3>1. 1 \in 1..n /\ savepoints # <<>>
        BY <1>2, <2>1, EndBounds
      <3> QED  BY <1>1, <3>1 DEF Offsets, SameSavepoint
    <2> QED  BY <1>3, <2>1
  <1>8. ASSUME NEW i \in 1..n  PROVE savepoints'[i].start <= savepoints'[i].end
    BY <1>1, <1>2, <1>4, <1>8 DEF SameSavepoint
  <1>9. ASSUME NEW i \in 1..n, NEW j \in 1..i - 1
        PROVE  savepoints'[j].end <= savepoints'[i].start
    <2>1. j \in 1..n /\ j # n
      BY <1>2, <1>9
    <2> QED  BY <1>1, <1>4, <1>9, <2>1 DEF SameSavepoint
  <1>10. Offsets'
    BY <1>1, <1>6, <1>7, <1>8, <1>9 DEF Offsets
  <1> QED  BY <1>1, <1>5, <1>10

LEMMA RewindStep ==
    ASSUME Stack, Offsets, NEW i \in 1..Len(savepoints), NEW sp, sp = savepoints[i],
           savepoints' = Append(Cut(i - 1, sp.start), [sp EXCEPT !.end = sp.start, !.bitmap = {}]),
           subjournal' = SubSeq(subjournal, 1, sp.start)
    PROVE  /\ IsSeq(savepoints') /\ Len(savepoints') = i
           /\ \A j \in 1..i :
                /\ SameSavepoint(savepoints'[j], savepoints[j])
                /\ savepoints'[j].end = IF j >= i - 1 THEN sp.start ELSE savepoints[j].end
                /\ savepoints'[j].bitmap = IF j = i THEN {} ELSE savepoints[j].bitmap
           /\ IsSeq(subjournal') /\ Len(subjournal') = sp.start
           /\ \A k \in 1..sp.start : subjournal'[k] = subjournal[k]
  <1> DEFINE cut == Cut(i - 1, sp.start)
             r == [sp EXCEPT !.end = sp.start, !.bitmap = {}]
  <1>1. /\ i - 1 \in 0..Len(savepoints) /\ Len(savepoints) \in Nat /\ Len(subjournal) \in Nat
        /\ i - 1 \in Nat /\ i - 1 + 1 = i
        /\ \A j \in 1..i : j \in 1..i - 1 \/ j = i
    BY EndBounds
  <1>2. /\ IsSeq(cut) /\ Len(cut) = i - 1
        /\ \A j \in 1..i - 1 :
             /\ SameSavepoint(cut[j], savepoints[j])
             /\ cut[j].end = IF j = i - 1 THEN sp.start ELSE savepoints[j].end
             /\ cut[j].bitmap = savepoints[j].bitmap
    BY <1>1, CutShape
  <1>3. SavepointRecord(sp) /\ sp.start \in Nat /\ sp.end \in Nat /\ sp.start <= sp.end
    BY DEF Stack, Offsets
  <1>4. SameSavepoint(r, sp) /\ r.end = sp.start /\ r.bitmap = {}
    BY <1>3 DEF SameSavepoint, SavepointRecord
  <1>5. savepoints' = Append(cut, r)
    OBVIOUS
  <1> HIDE DEF cut, r
  <1>6. IsSeq(savepoints')
    BY <1>2, <1>5, SeqAppend, Zenon
  <1>7. /\ Len(savepoints') = Len(cut) + 1
        /\ \A j \in 1..Len(cut) : savepoints'[j] = cut[j]
        /\ savepoints'[Len(cut) + 1] = r
    BY <1>2, <1>5, SeqAppend
  <1>8. Len(savepoints') = i /\ savepoints'[i] = r /\ \A j \in 1..i - 1 : savepoints'[j] = cut[j]
    BY <1>1, <1>2, <1>7
  <1>9. IsSeq(subjournal') /\ Len(subjournal') = sp.start
        /\ \A k \in 1..sp.start : subjournal'[k] = subjournal[k]
    <2>1. sp.start \in 0..Len(subjournal) /\ IsSeq(subjournal)
      BY SMTT(40), <1>1, <1>3, EndBounds DEF Stack
    <2>2. IsSeq(subjournal')
      BY <2>1, SeqPrefix, Zenon
    <2> QED  BY <2>1, <2>2, SeqPrefix
  <1>10. ASSUME NEW j \in 1..i
         PROVE  /\ SameSavepoint(savepoints'[j], savepoints[j])
                /\ savepoints'[j].end = IF j >= i - 1 THEN sp.start ELSE savepoints[j].end
                /\ savepoints'[j].bitmap = IF j = i THEN {} ELSE savepoints[j].bitmap
    <2>1. CASE j = i
      BY <1>4, <1>8, <2>1
    <2>2. CASE j \in 1..i - 1
      BY <1>1, <1>2, <1>8, <2>2
    <2> QED  BY <1>1, <1>10, <2>1, <2>2
  <1> QED  BY <1>6, <1>8, <1>9, <1>10

LEMMA RewindNests ==
    ASSUME Stack, Offsets, NEW i \in 1..Len(savepoints), NEW sp, sp = savepoints[i],
           savepoints' = Append(Cut(i - 1, sp.start), [sp EXCEPT !.end = sp.start, !.bitmap = {}]),
           subjournal' = SubSeq(subjournal, 1, sp.start)
    PROVE  Stack' /\ Offsets'
  <1>1. /\ IsSeq(savepoints') /\ Len(savepoints') = i
        /\ \A j \in 1..i :
             /\ SameSavepoint(savepoints'[j], savepoints[j])
             /\ savepoints'[j].end = IF j >= i - 1 THEN sp.start ELSE savepoints[j].end
        /\ IsSeq(subjournal') /\ Len(subjournal') = sp.start
    BY RewindStep
  <1>2. i \in Nat /\ i > 0 /\ i <= Len(savepoints) /\ Len(savepoints) \in Nat
    BY EndBounds
  <1>3. savepoints' # <<>>
    BY <1>1, <1>2, SeqShape
  <1>4. \A j \in 1..i : /\ savepoints[j].start \in Nat /\ savepoints[j].end \in Nat
                        /\ savepoints[j].start <= savepoints[j].end
                        /\ \A k \in 1..j - 1 : savepoints[k].end <= savepoints[j].start
    BY <1>2 DEF Stack, Offsets
  <1>5. sp.start \in Nat
    BY <1>2, <1>4
  <1>6. Stack'
    <2>1. \A j \in 1..i : /\ SavepointRecord(savepoints'[j])
                          /\ savepoints'[j].start \in Nat /\ savepoints'[j].end \in Nat
      BY <1>1, <1>4, <1>5 DEF SameSavepoint
    <2> QED  BY <1>1, <2>1 DEF Stack
  <1>7. JournalEnd' = Len(subjournal')
    <2>1. i \in 1..i /\ i >= i - 1
      BY <1>2
    <2> QED  BY <1>1, <1>3, <2>1 DEF JournalEnd, Last
  <1>8. savepoints'[1].start = 0
    <2>1. 1 \in 1..i /\ savepoints # <<>>
      BY <1>2, EndBounds
    <2> QED  BY <1>1, <2>1 DEF Offsets, SameSavepoint
  <1>9. ASSUME NEW j \in 1..i  PROVE savepoints'[j].start <= savepoints'[j].end
    <2>1. savepoints[j].start <= sp.start
      <3>1. CASE j = i
        BY <1>5, <3>1
      <3>2. CASE j # i
        <4>1. i \in 1..i /\ j \in 1..i - 1
          BY <1>2, <1>9, <3>2
        <4>2. savepoints[j].start <= savepoints[j].end /\ savepoints[j].end <= savepoints[i].start
          BY <1>4, <4>1
        <4> QED  BY <1>4, <1>5, <1>9, <4>2
      <3> QED  BY <3>1, <3>2
    <2> QED  BY <1>1, <1>4, <1>9, <2>1 DEF SameSavepoint
  <1>10. ASSUME NEW j \in 1..i, NEW k \in 1..j - 1
         PROVE  savepoints'[k].end <= savepoints'[j].start
    <2>1. k \in 1..i /\ k # i /\ (k >= i - 1 => j = i)
      BY <1>2, <1>10
    <2>2. savepoints'[j].start = savepoints[j].start
      BY <1>1, <1>10 DEF SameSavepoint
    <2> QED  BY <1>1, <1>4, <1>5, <1>10, <2>1, <2>2
  <1>11. Offsets'
    BY <1>1, <1>7, <1>8, <1>9, <1>10 DEF Offsets
  <1> QED  BY <1>6, <1>11

LEMMA ClearNests ==
    ASSUME savepoints' = <<>>, subjournal' = <<>>
    PROVE  Stack' /\ Offsets' /\ Len(savepoints') = 0
  BY SeqEmpty DEF Stack, Offsets, JournalEnd

-----------------------------------------------------------------------------
(* Who owns the subjournal.                                                 *)

LEMMA BeforeImageSeq ==
    ASSUME NEW p
    PROVE  IsSeq(BeforeImage(p)) /\ (savepoints = <<>> => BeforeImage(p) = <<>>)
  BY SeqEmpty, SeqSingle DEF BeforeImage, Required

(* The index of the newest savepoint of a name.                             *)
LEMMA NewestIndex ==
    ASSUME Stack, NEW n, Newest(n) # 0
    PROVE  Newest(n) \in 1..Len(savepoints) /\ savepoints[Newest(n)].kind = n
  <1> DEFINE S == {i \in DOMAIN savepoints : savepoints[i].kind = n}
  <1>1. Len(savepoints) \in Nat /\ DOMAIN savepoints = 1..Len(savepoints)
    BY SeqShape DEF Stack
  <1>2. {0} \union S \subseteq Nat /\ \A x \in {0} \union S : x <= Len(savepoints)
    BY <1>1
  <1>3. Newest(n) = Max({0} \union S)
    BY DEF Newest
  <1>4. Newest(n) \in {0} \union S
    BY <1>1, <1>2, <1>3, MaxOf
  <1> QED  BY <1>1, <1>4

LEMMA OwnersKept ==
    ASSUME Stack, Owners, in_use' = in_use, running' = running, auto_commit' = auto_commit,
           Len(savepoints') = Len(savepoints),
           \A i \in 1..Len(savepoints) : savepoints'[i].kind = savepoints[i].kind
    PROVE  Owners'
  BY DEF Owners

(* Without a statement no savepoint is one.                                 *)
LEMMA OwnersIdle ==
    ASSUME in_use' = FALSE, running' = FALSE, auto_commit' \in BOOLEAN,
           \A i \in 1..Len(savepoints') : savepoints'[i].kind # "Statement"
    PROVE  Owners'
  BY DEF Owners

LEMMA OwnersCleared ==
    ASSUME in_use' = FALSE, running' \in BOOLEAN, auto_commit' = TRUE,
           Len(savepoints') = 0
    PROVE  Owners'
  <1>1. \A i \in 1..Len(savepoints') : FALSE
    OBVIOUS
  <1>2. /\ in_use' \in BOOLEAN /\ running' \in BOOLEAN /\ auto_commit' \in BOOLEAN
        /\ in_use' <=> running' /\ ~auto_commit'
    OBVIOUS
  <1> QED  BY <1>1, <1>2, Zenon DEF Owners

LEMMA NestKept ==
    ASSUME Stack, Offsets, savepoints' = savepoints, subjournal' = subjournal
    PROVE  Stack' /\ Offsets' /\ Len(savepoints') = Len(savepoints)
  BY DEF Stack, Offsets, JournalEnd

(* No statement savepoint while no statement runs, and a running statement  *)
(* of an explicit transaction has the last savepoint.                       *)
LEMMA OwnersRead ==
    ASSUME Stack, Owners
    PROVE  /\ ~running => in_use = FALSE /\ \A i \in 1..Len(savepoints) : savepoints[i].kind # "Statement"
           /\ running /\ auto_commit => in_use = FALSE
           /\ running /\ ~auto_commit =>
                /\ in_use = TRUE /\ Len(savepoints) \in 1..Len(savepoints)
                /\ savepoints[Len(savepoints)].kind = "Statement"
                /\ \A i \in 1..Len(savepoints) - 1 : savepoints[i].kind # "Statement"
  <1>1. /\ in_use \in BOOLEAN /\ running \in BOOLEAN /\ auto_commit \in BOOLEAN
        /\ in_use <=> running /\ ~auto_commit
        /\ in_use <=> \E i \in 1..Len(savepoints) : savepoints[i].kind = "Statement"
        /\ \A i \in 1..Len(savepoints) : savepoints[i].kind = "Statement" => i = Len(savepoints)
    BY DEF Owners
  <1>2. Len(savepoints) \in Nat
    BY SeqShape DEF Stack
  <1>3. \A i \in 1..Len(savepoints) - 1 : i \in 1..Len(savepoints) /\ i # Len(savepoints)
    BY <1>2
  <1>4. ASSUME ~running
        PROVE  in_use = FALSE /\ \A i \in 1..Len(savepoints) : savepoints[i].kind # "Statement"
    BY <1>1, <1>4
  <1>5. ASSUME running, auto_commit  PROVE in_use = FALSE
    BY <1>1, <1>5
  <1>6. ASSUME running, ~auto_commit
        PROVE  /\ in_use = TRUE /\ Len(savepoints) \in 1..Len(savepoints)
               /\ savepoints[Len(savepoints)].kind = "Statement"
               /\ \A i \in 1..Len(savepoints) - 1 : savepoints[i].kind # "Statement"
    <2>1. in_use = TRUE
      BY <1>1, <1>6, Zenon
    <2>2. PICK i \in 1..Len(savepoints) : savepoints[i].kind = "Statement"
      BY <1>1, <2>1, Zenon
    <2>3. i = Len(savepoints)
      BY <1>1, <2>2, Zenon
    <2> QED  BY <1>1, <1>3, <2>1, <2>2, <2>3, Zenon
  <1> QED  BY <1>4, <1>5, <1>6

LEMMA NestQuiet ==
    ASSUME NestInv, savepoints' = savepoints, subjournal' = subjournal, in_use' = in_use,
           \/ running' = running /\ auto_commit' = auto_commit
           \/ ~running /\ running' = FALSE /\ auto_commit' \in BOOLEAN
           \/ ~running /\ running' = TRUE /\ auto_commit' = TRUE
    PROVE  NestInv'
  <1>1. Stack' /\ Offsets'
    BY NestKept DEF NestInv
  <1>2. Owners'
    <2>1. CASE running' = running /\ auto_commit' = auto_commit
      BY <2>1, OwnersKept DEF NestInv
    <2>2. CASE ~running
      <3>1. in_use = FALSE /\ \A i \in 1..Len(savepoints) : savepoints[i].kind # "Statement"
        BY <2>2, OwnersRead DEF NestInv
      <3>2. running' \in BOOLEAN /\ auto_commit' \in BOOLEAN /\ ~(running' /\ ~auto_commit')
        <4>1. running \in BOOLEAN /\ auto_commit \in BOOLEAN
          BY DEF NestInv, Owners
        <4>2. CASE running' = running /\ auto_commit' = auto_commit
          BY <2>2, <4>1, <4>2
        <4>3. CASE running' = FALSE /\ auto_commit' \in BOOLEAN
          BY <4>3
        <4>4. CASE running' = TRUE /\ auto_commit' = TRUE
          BY <4>4
        <4> QED  BY <4>2, <4>3, <4>4
      <3>3. \A i \in 1..Len(savepoints') : savepoints'[i].kind # "Statement"
        BY <3>1
      <3> QED  BY <3>1, <3>2, <3>3, Zenon DEF Owners
    <2> QED  BY <2>1, <2>2
  <1> QED  BY <1>1, <1>2 DEF NestInv

LEMMA NestJournal ==
    ASSUME NestInv, NEW new, IsSeq(new), savepoints = <<>> => new = <<>>, Journal(new),
           in_use' = in_use, running' = running, auto_commit' = auto_commit
    PROVE  NestInv'
  <1>1. Stack' /\ Offsets'
    BY JournalNests DEF NestInv
  <1>2. /\ Len(savepoints') = Len(savepoints)
        /\ \A i \in 1..Len(savepoints) : savepoints'[i].kind = savepoints[i].kind
    BY JournalStep DEF NestInv, SameSavepoint
  <1>3. Owners'
    BY <1>2, OwnersKept DEF NestInv
  <1> QED  BY <1>1, <1>3 DEF NestInv

LEMMA NestClear ==
    ASSUME savepoints' = <<>>, subjournal' = <<>>, in_use' = FALSE, running' = FALSE,
           auto_commit' = TRUE
    PROVE  NestInv'
  BY ClearNests, OwnersCleared DEF NestInv

LEMMA NestBeginStatement ==
    ASSUME NestInv, BeginStatement
    PROVE  NestInv'
  <1>1. PICK r : /\ SavepointRecord(r) /\ r.kind = "Statement"
                 /\ r.start = JournalEnd /\ r.end = JournalEnd
                 /\ savepoints' = Append(savepoints, r) /\ subjournal' = subjournal
    <2>1. CASE tx_state = "None"
      <3> DEFINE size == IF max_frame = shared_max THEN DbSize ELSE ContentUpTo(shared_max, PAGE_1)
                 o == Opened("Statement", FALSE, 0)
                 r == [o EXCEPT !.db_size = size, !.wal_max = shared_max]
      <3>1. /\ SavepointRecord(o) /\ o.kind = "Statement" /\ o.start = JournalEnd /\ o.end = JournalEnd
        BY DEF Opened, SavepointRecord
      <3>2. savepoints' = Append(savepoints, r) /\ subjournal' = subjournal
        BY <2>1 DEF BeginStatement
      <3> HIDE DEF o, size
      <3>3. /\ SavepointRecord(r) /\ r.kind = "Statement"
            /\ r.start = JournalEnd /\ r.end = JournalEnd
        BY <3>1 DEF SavepointRecord
      <3> QED  BY <3>2, <3>3
    <2>2. CASE tx_state # "None"
      <3>1. savepoints' = Append(savepoints, Opened("Statement", FALSE, 0)) /\ subjournal' = subjournal
        BY <2>2 DEF BeginStatement
      <3> QED  BY <3>1, OpenedShape
    <2> QED  BY <2>1, <2>2
  <1>2. ~running /\ running' = TRUE /\ ~auto_commit /\ auto_commit' = auto_commit /\ in_use' = TRUE
    BY DEF BeginStatement, StartStatement
  <1>3. /\ Stack' /\ Offsets' /\ Len(savepoints') = Len(savepoints) + 1
        /\ \A i \in 1..Len(savepoints) : savepoints'[i] = savepoints[i]
        /\ savepoints'[Len(savepoints) + 1] = r
    BY <1>1, OpenNests DEF NestInv
  <1>4. \A i \in 1..Len(savepoints) : savepoints[i].kind # "Statement"
    BY <1>2, OwnersRead DEF NestInv
  <1>5. Len(savepoints) \in Nat /\ Len(savepoints') \in 1..Len(savepoints')
    BY <1>3, SeqShape DEF NestInv, Stack
  <1>6. \A i \in 1..Len(savepoints') : i \in 1..Len(savepoints) \/ i = Len(savepoints')
    BY <1>3, <1>5
  <1>7. \A i \in 1..Len(savepoints') : savepoints'[i].kind = "Statement" <=> i = Len(savepoints')
    BY <1>1, <1>3, <1>4, <1>5, <1>6
  <1>8. auto_commit' = FALSE
    BY <1>2 DEF NestInv, Owners
  <1>9. Owners'
    BY <1>2, <1>5, <1>7, <1>8, Zenon DEF Owners
  <1> QED  BY <1>3, <1>9 DEF NestInv

LEMMA NestSavepoint ==
    ASSUME NestInv, NEW n \in Names, Savepoint(n)
    PROVE  NestInv'
  <1>1. PICK r : /\ SavepointRecord(r) /\ r.kind = n
                 /\ r.start = JournalEnd /\ r.end = JournalEnd
                 /\ savepoints' = Append(savepoints, r) /\ subjournal' = subjournal
    BY OpenedShape DEF Savepoint
  <1>2. ~running /\ running' = running /\ auto_commit' = FALSE /\ in_use' = in_use
    BY DEF Savepoint
  <1>3. /\ Stack' /\ Offsets' /\ Len(savepoints') = Len(savepoints) + 1
        /\ \A i \in 1..Len(savepoints) : savepoints'[i] = savepoints[i]
        /\ savepoints'[Len(savepoints) + 1] = r
    BY <1>1, OpenNests DEF NestInv
  <1>4. in_use = FALSE /\ \A i \in 1..Len(savepoints) : savepoints[i].kind # "Statement"
    BY <1>2, OwnersRead DEF NestInv
  <1>5. Len(savepoints) \in Nat
    BY SeqShape DEF NestInv, Stack
  <1>6. \A i \in 1..Len(savepoints') : i \in 1..Len(savepoints) \/ i = Len(savepoints) + 1
    BY <1>3, <1>5
  <1>7. n # "Statement"
    BY NamesAssumption
  <1>8. \A i \in 1..Len(savepoints') : savepoints'[i].kind # "Statement"
    BY <1>1, <1>3, <1>4, <1>6, <1>7
  <1>9. Owners'
    BY <1>2, <1>4, <1>8, OwnersIdle DEF NestInv, Owners
  <1> QED  BY <1>3, <1>9 DEF NestInv

(* Releasing and taking back cut the stack.                                 *)
LEMMA NestRelease ==
    ASSUME NestInv, NEW m \in 0..Len(savepoints), Release(m),
           in_use' = FALSE, running' = FALSE, auto_commit' \in BOOLEAN,
           \A i \in 1..m : savepoints[i].kind # "Statement"
    PROVE  NestInv'
  <1>1. /\ JournalEnd = Len(subjournal) /\ Len(subjournal) \in Nat /\ Len(savepoints) \in Nat
        /\ m > 0 => savepoints[m].start <= Len(subjournal)
    <2>1. JournalEnd = Len(subjournal) /\ Len(subjournal) \in Nat /\ Len(savepoints) \in Nat
      BY EndBounds DEF NestInv, Offsets
    <2>2. ASSUME m > 0  PROVE savepoints[m].start <= Len(subjournal)
      <3>1. m \in 1..Len(savepoints)
        BY <2>2
      <3>2. /\ savepoints[m].start \in Nat /\ savepoints[m].end \in Nat
            /\ savepoints[m].start <= savepoints[m].end /\ savepoints[m].end <= Len(subjournal)
        BY <3>1, EndBounds DEF NestInv, Offsets, Stack
      <3> QED  BY <2>1, <3>2
    <2> QED  BY <2>1, <2>2
  <1>2. /\ savepoints' = Cut(m, Len(subjournal))
        /\ subjournal' = IF m = 0 THEN <<>> ELSE subjournal
    BY <1>1 DEF Release
  <1>3. IsSeq(subjournal') /\ Len(subjournal') = IF m = 0 THEN 0 ELSE Len(subjournal)
    BY <1>2, SeqEmpty DEF NestInv, Stack
  <1>4. /\ Stack' /\ Offsets' /\ Len(savepoints') = m
        /\ \A i \in 1..m : SameSavepoint(savepoints'[i], savepoints[i])
    BY <1>1, <1>2, <1>3, CutNests DEF NestInv
  <1>5. \A i \in 1..Len(savepoints') : savepoints'[i].kind # "Statement"
    BY <1>4 DEF SameSavepoint
  <1>6. Owners'
    BY <1>5, OwnersIdle
  <1> QED  BY <1>4, <1>6 DEF NestInv

LEMMA NestAbortStatement ==
    ASSUME NestInv, AbortStatement
    PROVE  NestInv'
  <1> DEFINE n == Len(savepoints)
             sp == savepoints[n]
  <1>1. /\ running /\ ~auto_commit /\ running' = FALSE /\ in_use' = FALSE
        /\ auto_commit' = auto_commit
        /\ savepoints' = Cut(n - 1, sp.start) /\ subjournal' = SubSeq(subjournal, 1, sp.start)
    BY DEF AbortStatement, EndStatement, RollbackToSnapshot, Last
  <1>2. n \in 1..n /\ n \in Nat /\ \A i \in 1..n - 1 : savepoints[i].kind # "Statement"
    BY <1>1, OwnersRead, SeqShape DEF NestInv, Stack
  <1>3. /\ sp.start \in Nat /\ sp.end \in Nat /\ sp.start <= sp.end
        /\ Len(subjournal) \in Nat /\ sp.end <= Len(subjournal)
        /\ savepoints # <<>> /\ savepoints[1].start = 0
    BY <1>2, EndBounds DEF NestInv, Stack, Offsets
  <1>4. IsSeq(subjournal') /\ Len(subjournal') = sp.start
    <2>1. IsSeq(subjournal) /\ sp.start \in 0..Len(subjournal)
      BY <1>3 DEF NestInv, Stack
    <2>2. IsSeq(subjournal')
      BY <1>1, <2>1, SeqPrefix, Zenon
    <2> QED  BY <1>1, <2>1, <2>2, SeqPrefix
  <1>5. n - 1 \in 0..n
    BY <1>2
  <1>6. ASSUME n - 1 > 0  PROVE savepoints[n - 1].start <= sp.start
    <2>1. n - 1 \in 1..n /\ n - 1 \in 1..n - 1
      BY <1>2, <1>6
    <2>2. /\ savepoints[n - 1].start \in Nat /\ savepoints[n - 1].end \in Nat
          /\ savepoints[n - 1].start <= savepoints[n - 1].end /\ savepoints[n - 1].end <= sp.start
      BY <1>2, <2>1 DEF NestInv, Stack, Offsets
    <2> QED  BY <1>3, <2>2
  <1>7. ASSUME n - 1 = 0  PROVE sp.start = 0
    <2>1. n = 1
      BY <1>2, <1>7
    <2> QED  BY <1>3, <2>1
  <1>8. Len(subjournal') = IF n - 1 = 0 THEN 0 ELSE sp.start
    BY <1>4, <1>7
  <1> HIDE DEF sp
  <1>9. /\ Stack' /\ Offsets' /\ Len(savepoints') = n - 1
        /\ \A i \in 1..n - 1 : SameSavepoint(savepoints'[i], savepoints[i])
    BY <1>1, <1>3, <1>4, <1>5, <1>6, <1>8, CutNests DEF NestInv
  <1>10. \A i \in 1..Len(savepoints') : savepoints'[i].kind # "Statement"
    BY <1>2, <1>9 DEF SameSavepoint
  <1>11. Owners'
    BY <1>1, <1>10, OwnersIdle DEF NestInv, Owners
  <1> QED  BY <1>9, <1>11 DEF NestInv

LEMMA NestRollbackTo ==
    ASSUME NestInv, NEW n \in Names, RollbackToNamed(n)
    PROVE  NestInv'
  <1> DEFINE i == Newest(n)
             sp == savepoints[i]
  <1>1. /\ ~running /\ i # 0 /\ running' = running /\ in_use' = in_use /\ auto_commit' = auto_commit
        /\ savepoints' = Append(Cut(i - 1, sp.start), [sp EXCEPT !.end = sp.start, !.bitmap = {}])
        /\ subjournal' = SubSeq(subjournal, 1, sp.start)
    BY DEF RollbackToNamed, RollbackToSnapshot
  <1>2. i \in 1..Len(savepoints)
    BY <1>1, NewestIndex DEF NestInv
  <1>3. in_use = FALSE /\ \A j \in 1..Len(savepoints) : savepoints[j].kind # "Statement"
    BY <1>1, OwnersRead DEF NestInv
  <1> HIDE DEF i
  <1>4. Stack' /\ Offsets'
    BY <1>1, <1>2, RewindNests DEF NestInv
  <1>5. Len(savepoints') = i /\ \A j \in 1..i : SameSavepoint(savepoints'[j], savepoints[j])
    BY <1>1, <1>2, RewindStep DEF NestInv
  <1>6. \A j \in 1..i : j \in 1..Len(savepoints)
    BY <1>2, SeqShape DEF NestInv, Stack
  <1>7. \A j \in 1..Len(savepoints') : savepoints'[j].kind # "Statement"
    BY <1>3, <1>5, <1>6 DEF SameSavepoint
  <1>8. Owners'
    BY <1>1, <1>3, <1>7, OwnersIdle DEF NestInv, Owners
  <1> QED  BY <1>4, <1>8 DEF NestInv

-----------------------------------------------------------------------------
(* The savepoints nest in the subjournal.                                   *)

LEMMA NestInit == Init => NestInv
  <1> SUFFICES ASSUME Init  PROVE NestInv
    OBVIOUS
  <1>1. /\ savepoints = <<>> /\ subjournal = <<>> /\ in_use = FALSE
        /\ auto_commit = TRUE /\ running = FALSE
    BY DEF Init
  <1>2. Stack /\ Offsets
    BY <1>1, SeqEmpty DEF Stack, Offsets, JournalEnd
  <1>3. \A i \in 1..Len(savepoints) : FALSE
    BY <1>1, SeqEmpty
  <1> QED  BY <1>1, <1>2, <1>3, Zenon DEF Owners, NestInv

(* Transactions end with the stack emptied or, after a read, untouched.     *)
LEMMA NestCommitTransaction ==
    ASSUME NestInv, ~running, CommitTransaction
    PROVE  NestInv'
  <1>1. /\ savepoints' = <<>> /\ subjournal' = <<>> /\ in_use' = in_use /\ running' = running
        /\ auto_commit' = TRUE
    BY DEF CommitTransaction, ClearSavepoints, EndTransaction
  <1>2. in_use = FALSE /\ running = FALSE
    BY OwnersRead DEF NestInv, Owners
  <1> QED  BY <1>1, <1>2, NestClear

LEMMA NestReleaseNamed ==
    ASSUME NestInv, NEW n \in Names, ReleaseNamed(n)
    PROVE  NestInv'
  <1> DEFINE i == Newest(n)
  <1>1. ~running /\ i # 0
    BY DEF ReleaseNamed
  <1>2. CASE CommitTransaction
    BY <1>1, <1>2, NestCommitTransaction
  <1>3. CASE ~(i = 1 /\ savepoints[1].starts)
    <2>1. Release(i - 1) /\ in_use' = in_use /\ running' = running /\ auto_commit' = auto_commit
      BY <1>3 DEF ReleaseNamed, conn
    <2>2. i \in 1..Len(savepoints) /\ Len(savepoints) \in Nat
      BY <1>1, NewestIndex, SeqShape DEF NestInv, Stack
    <2>3. i - 1 \in 0..Len(savepoints) /\ \A j \in 1..i - 1 : j \in 1..Len(savepoints)
      BY <2>2
    <2>4. /\ in_use' = FALSE /\ running' = FALSE /\ auto_commit' \in BOOLEAN
          /\ \A j \in 1..i - 1 : savepoints[j].kind # "Statement"
      BY <1>1, <2>1, <2>3, OwnersRead DEF NestInv, Owners
    <2> HIDE DEF i
    <2> QED  BY <2>1, <2>3, <2>4, NestRelease
  <1>4. CASE i = 1 /\ savepoints[1].starts
    BY <1>2, <1>4 DEF ReleaseNamed
  <1> QED  BY <1>3, <1>4

LEMMA NestStep ==
    ASSUME NestInv, [Next]_vars
    PROVE  NestInv'
  <1>1. CASE BeginAutoCommit
    <2>1. /\ savepoints' = savepoints /\ subjournal' = subjournal /\ in_use' = in_use
          /\ ~running /\ running' = TRUE /\ auto_commit /\ auto_commit' = auto_commit
      BY <1>1 DEF BeginAutoCommit, StartStatement
    <2>2. auto_commit' = TRUE
      BY <2>1 DEF NestInv, Owners
    <2> QED  BY <2>1, <2>2, NestQuiet
  <1>2. CASE BeginStatement
    BY <1>2, NestBeginStatement
  <1>3. CASE BeginRead
    BY <1>3, NestQuiet DEF BeginRead
  <1>4. CASE Begin
    <2>1. /\ savepoints' = savepoints /\ subjournal' = subjournal /\ in_use' = in_use
          /\ ~running /\ running' = running /\ auto_commit' = FALSE
      BY <1>4 DEF Begin, pager
    <2>2. running' = FALSE
      BY <2>1 DEF NestInv, Owners
    <2> QED  BY <2>1, <2>2, NestQuiet
  <1>5. ASSUME NEW p \in Pages, ReadPage(p) \/ WritePage(p) \/ SpillPage(p) \/ EvictPage(p)
        PROVE  NestInv'
    <2>1. CASE ReadPage(p)
      BY <2>1, NestQuiet DEF ReadPage, conn
    <2>2. CASE WritePage(p)
      <3>1. /\ Journal(BeforeImage(p))
            /\ in_use' = in_use /\ running' = running /\ auto_commit' = auto_commit
        BY <2>2 DEF WritePage, conn
      <3> QED  BY <3>1, BeforeImageSeq, NestJournal
    <2>3. CASE SpillPage(p)
      <3>1. /\ Journal(BeforeImage(p))
            /\ in_use' = in_use /\ running' = running /\ auto_commit' = auto_commit
        BY <2>3 DEF SpillPage, SpillJournal, conn
      <3> QED  BY <3>1, BeforeImageSeq, NestJournal
    <2>4. CASE EvictPage(p)
      BY <2>4, NestQuiet DEF EvictPage, conn
    <2> QED  BY <1>5, <2>1, <2>2, <2>3, <2>4
  <1>6. CASE AllocatePage
    <2> DEFINE a == BeforeImage(PAGE_1)
               b == BeforeImage(DbSize + 1)
    <2>1. /\ Journal(a \o b)
          /\ in_use' = in_use /\ running' = running /\ auto_commit' = auto_commit
      BY <1>6 DEF AllocatePage, conn
    <2>2. IsSeq(a) /\ IsSeq(b) /\ (savepoints = <<>> => a = <<>> /\ b = <<>>)
      BY BeforeImageSeq
    <2> HIDE DEF a, b
    <2>3. PICK ab : ab = a \o b
      OBVIOUS
    <2>4. IsSeq(ab)
      BY <2>2, <2>3, SeqConcat, Zenon
    <2>5. savepoints = <<>> => ab = <<>>
      BY <2>2, <2>3
    <2> QED  BY <2>1, <2>3, <2>4, <2>5, NestJournal
  <1>7. ASSUME NEW k \in Fks, CountViolations(k) \/ AbortTransaction(k)
        PROVE  NestInv'
    <2>1. CASE CountViolations(k)
      BY <2>1, NestQuiet DEF CountViolations, pager
    <2>2. CASE AbortTransaction(k)
      BY <2>2, NestClear DEF AbortTransaction, EndStatement, ClearSavepoints, EndTransaction
    <2> QED  BY <1>7, <2>1, <2>2
  <1>8. CASE ReleaseStatement
    <2> DEFINE m == Len(savepoints) - 1
    <2>1. /\ Release(m) /\ running /\ ~auto_commit /\ running' = FALSE /\ in_use' = FALSE
          /\ auto_commit' = auto_commit
      BY <1>8 DEF ReleaseStatement, EndStatement
    <2>2. m \in 0..Len(savepoints) /\ \A i \in 1..m : savepoints[i].kind # "Statement"
      <3>1. /\ Len(savepoints) \in 1..Len(savepoints)
            /\ \A i \in 1..Len(savepoints) - 1 : savepoints[i].kind # "Statement"
        BY <2>1, OwnersRead DEF NestInv
      <3>2. Len(savepoints) \in Nat
        BY SeqShape DEF NestInv, Stack
      <3> QED  BY <3>1, <3>2
    <2>3. auto_commit' \in BOOLEAN
      BY <2>1 DEF NestInv, Owners
    <2> HIDE DEF m
    <2> QED  BY <2>1, <2>2, <2>3, NestRelease
  <1>9. CASE AutoCommit
    BY <1>9, NestClear DEF AutoCommit, EndStatement, ClearSavepoints, EndTransaction
  <1>10. CASE AbortStatement
    BY <1>10, NestAbortStatement
  <1>11. CASE FailRead
    <2>1. /\ ~running /\ in_use' = in_use /\ running' = running /\ auto_commit' = TRUE
      BY <1>11 DEF FailRead, EndTransaction
    <2>2. in_use = FALSE /\ running = FALSE
      BY <2>1, OwnersRead DEF NestInv, Owners
    <2>3. CASE tx_state = "Write"
      <3>1. savepoints' = <<>> /\ subjournal' = <<>>
        BY <1>11, <2>3 DEF FailRead, ClearSavepoints
      <3> QED  BY <2>1, <2>2, <3>1, NestClear
    <2>4. CASE tx_state # "Write"
      <3>1. savepoints' = savepoints /\ subjournal' = subjournal
        BY <1>11, <2>4 DEF FailRead
      <3> QED  BY <2>1, <2>2, <3>1, NestQuiet
    <2> QED  BY <2>3, <2>4
  <1>12. CASE Commit
    BY <1>12, NestCommitTransaction DEF Commit
  <1>13. CASE Rollback
    <2>1. /\ ~running /\ in_use' = in_use /\ running' = running /\ auto_commit' = TRUE
          /\ savepoints' = <<>> /\ subjournal' = <<>>
      BY <1>13 DEF Rollback, ClearSavepoints, EndTransaction
    <2>2. in_use = FALSE /\ running = FALSE
      BY <2>1, OwnersRead DEF NestInv, Owners
    <2> QED  BY <2>1, <2>2, NestClear
  <1>14. ASSUME NEW n \in Names, Savepoint(n) \/ ReleaseNamed(n) \/ RollbackToNamed(n)
         PROVE  NestInv'
    BY <1>14, NestSavepoint, NestReleaseNamed, NestRollbackTo
  <1>15. ASSUME NEW p \in Pages, OtherCommit(p)  PROVE NestInv'
    BY <1>15, NestQuiet DEF OtherCommit, pager, conn
  <1>16. CASE UNCHANGED vars
    BY SMTT(40), <1>16, NestQuiet DEF vars, pager, conn
  <1> QED  BY <1>1, <1>2, <1>3, <1>4, <1>5, <1>6, <1>7, <1>8, <1>9, <1>10, <1>11, <1>12, <1>13,
              <1>14, <1>15, <1>16 DEF Next

(* What the runs check is what the invariant says of neighbours.            *)
LEMMA NestImplies == NestInv => SavepointsNest
  <1> SUFFICES ASSUME NestInv  PROVE SavepointsNest
    OBVIOUS
  <1>1. DOMAIN savepoints = 1..Len(savepoints) /\ JournalEnd = Len(subjournal) /\ Len(savepoints) \in Nat
    BY EndBounds DEF NestInv, Offsets
  <1>2. ASSUME NEW i \in 1..Len(savepoints)
        PROVE  /\ savepoints[i].start <= savepoints[i].end
               /\ i > 1 => savepoints[i].start >= savepoints[i - 1].end
               /\ savepoints[i].kind = "Statement" => i = Len(savepoints)
    <2>1. savepoints[i].start <= savepoints[i].end
      BY <1>2 DEF NestInv, Offsets
    <2>2. savepoints[i].kind = "Statement" => i = Len(savepoints)
      BY <1>2 DEF NestInv, Owners
    <2>3. ASSUME i > 1  PROVE savepoints[i].start >= savepoints[i - 1].end
      <3>1. i - 1 \in 1..i - 1 /\ i - 1 \in 1..Len(savepoints)
        BY <1>1, <2>3
      <3> QED  BY <3>1 DEF NestInv, Offsets, Stack
    <2> QED  BY <2>1, <2>2, <2>3
  <1>3. in_use <=> \E i \in 1..Len(savepoints) : savepoints[i].kind = "Statement"
    BY DEF NestInv, Owners
  <1> QED  BY <1>1, <1>2, <1>3 DEF SavepointsNest

(* In every reachable state the savepoints partition the subjournal, and a  *)
(* statement savepoint is the newest and exists exactly while a statement   *)
(* owns the subjournal, however statements, SAVEPOINT, RELEASE, ROLLBACK TO *)
(* and failures follow one another (open_savepoint_with_kind,               *)
(* release_savepoint, rollback_to_newest_savepoint, end_statement).         *)
THEOREM SavepointsAlwaysNest == Spec => []SavepointsNest
  <1>1. NestInv /\ [Next]_vars => NestInv'
    BY NestStep
  <1> QED  BY <1>1, NestInit, NestImplies, PTL DEF Spec

-----------------------------------------------------------------------------
(* What a transaction sees between its savepoints.                          *)

(* The savepoints of a transaction and, above them, its present state are   *)
(* levels: at each the transaction saw an image, the subjournal ended at an *)
(* offset and the log at a frame.                                           *)
Depth == Len(savepoints)
Now == Depth + 1
Levels == 1..Now
Img(i) == IF i <= Depth THEN marks[i].pages ELSE image.pages
Pos(i) == IF i <= Depth THEN savepoints[i].start ELSE Len(subjournal)
Wal(i) == IF i <= Depth THEN savepoints[i].wal_max ELSE max_frame

-----------------------------------------------------------------------------
(* The parts of TypeOK.                                                     *)

PageImage == [page : Pages, ver : Content]
LogTypes ==
    /\ frames \in Seq(PageImage)
    /\ frame_cache \in [Pages -> Seq(1..MaxFrames)]
    /\ shared_max \in 0..MaxFrames /\ max_frame \in 0..MaxFrames
CacheTypes ==
    /\ cache \in [Pages -> [used : BOOLEAN, ver : Content, dirty : BOOLEAN, restored : BOOLEAN]]
    /\ dirty_pages \subseteq Pages
SavepointType ==
    [kind : Names \union {"Statement"}, starts : BOOLEAN, start : Nat, end : Nat,
     bitmap : SUBSET Pages, db_size : Pages, wal_max : 0..MaxFrames, fk : Fks]
StackTypes ==
    savepoints \in Seq(SavepointType) /\ subjournal \in Seq(PageImage)
ConnTypes ==
    /\ in_use \in BOOLEAN /\ auto_commit \in BOOLEAN /\ running \in BOOLEAN
    /\ tx_state \in {"None", "Read", "Write"}
    /\ fk \in Fks /\ stmt_fk \in Fks
GhostTypes == image \in Image /\ marks \in Seq(Image) /\ committed \in [Pages -> Content]

LEMMA TypeParts == TypeOK <=> LogTypes /\ CacheTypes /\ StackTypes /\ ConnTypes /\ GhostTypes
  BY DEF TypeOK, LogTypes, CacheTypes, StackTypes, ConnTypes, GhostTypes, PageImage, SavepointType

LEMMA TypePartsAfter ==
    (TypeOK <=> LogTypes /\ CacheTypes /\ StackTypes /\ ConnTypes /\ GhostTypes)'
  BY TypeParts, PTL

-----------------------------------------------------------------------------
(* The inductive invariant.                                                 *)

Control ==
    /\ running => tx_state = "Write"
    /\ writes \in 0..MaxWrites

Sizes ==
    /\ Len(marks) = Depth
    /\ image.pages[PAGE_1] \in Pages /\ committed[PAGE_1] \in Pages
    /\ \A i \in 1..Depth : marks[i].pages[PAGE_1] \in Pages

(* Frames behind the last published one belong to the write transaction and *)
(* to its dirty pages.                                                      *)
LogInv ==
    /\ shared_max <= Len(frames) /\ max_frame <= Len(frames)
    /\ tx_state = "Write" =>
          shared_max <= max_frame /\ \A p \in Pages : TopOf(frame_cache[p]) <= max_frame
    /\ tx_state # "Write" => max_frame <= shared_max /\ dirty_pages = {}
    /\ \A p \in Pages \ dirty_pages : TopOf(frame_cache[p]) <= shared_max

(* A page in the cache is to be written by the commit, or it is what the    *)
(* files hold.                                                              *)
CacheInv ==
    \A p \in Pages : cache[p].used =>
        IF cache[p].dirty \/ cache[p].restored THEN p \in dirty_pages
        ELSE cache[p].ver = ContentUpTo(max_frame, p)

DirtyInv ==
    /\ tx_state # "None" => dirty_pages \subseteq 1..image.pages[PAGE_1]
    /\ \A k \in 1..Len(subjournal) : subjournal[k].page \in dirty_pages

(* Savepoints outside a write transaction are all at the last commit.       *)
Flat ==
    tx_state # "Write" /\ Depth > 0 =>
        /\ max_frame = shared_max /\ Len(subjournal) = 0
        /\ \A i \in 1..Depth :
            /\ savepoints[i].wal_max = shared_max /\ savepoints[i].bitmap = {}
            /\ savepoints[i].db_size = committed[PAGE_1] /\ savepoints[i].fk = fk

Bitmaps ==
    \A i \in 1..Depth : \A p \in savepoints[i].bitmap :
        \E k \in savepoints[i].start + 1..savepoints[i].end : subjournal[k].page = p

(* Between two levels page p was journaled, first as it was at the lower    *)
(* one, or it is still what it was there, in the image and in the files.    *)
Between(a, b, p) ==
    \/ \E k \in Pos(a) + 1..Pos(b) :
        /\ subjournal[k].page = p /\ subjournal[k].ver = Img(a)[p]
        /\ \A l \in Pos(a) + 1..k - 1 : subjournal[l].page # p
    \/ /\ \A k \in Pos(a) + 1..Pos(b) : subjournal[k].page # p
       /\ Img(b)[p] = Img(a)[p]
       /\ ContentUpTo(Wal(b), p) = ContentUpTo(Wal(a), p)

LevelOK(i) ==
    /\ i <= Depth => savepoints[i].db_size = Img(i)[PAGE_1]
    /\ tx_state = "Write" \/ Depth > 0 => shared_max <= Wal(i)
    /\ \A p \in Pages : p > Img(i)[PAGE_1] => LatestOf(frame_cache[p], Wal(i)) <= shared_max
    /\ \A k \in 1..Pos(i) : subjournal[k].page <= Img(i)[PAGE_1]

LevelPair(a, b) ==
    /\ Img(a)[PAGE_1] <= Img(b)[PAGE_1] /\ Wal(a) <= Wal(b)
    /\ \A p \in 1..Img(a)[PAGE_1] : Between(a, b, p)

LevelInv ==
    tx_state # "None" =>
        /\ \A i \in Levels : LevelOK(i)
        /\ \A b \in Levels : \A a \in 1..b - 1 : LevelPair(a, b)

(* The violation counter a rollback puts back is the one of the image.      *)
Counter ==
    /\ tx_state # "None" => \A i \in 1..Depth :
          savepoints[i].kind # "Statement" => savepoints[i].fk = marks[i].fk
    /\ running /\ ~auto_commit => marks[Depth].fk = stmt_fk

ImageInv ==
    /\ NestInv /\ TypeOK /\ Control /\ Sizes /\ LogInv /\ CacheInv /\ DirtyInv /\ Flat /\ Bitmaps
    /\ LevelInv /\ Counter /\ SeesItsImage /\ CommittedIsShared

Strict == ~StaleSavepoints /\ ~EvictRestored

-----------------------------------------------------------------------------
(* What the types say.                                                      *)

LEMMA PagesAre ==
    /\ Pages \subseteq Nat /\ PAGE_1 \in Pages /\ MaxPages \in Nat /\ PAGE_1 = 1
    /\ \A p \in Pages : p >= 1 /\ p <= MaxPages
    /\ \A n \in Pages : \A p \in 1..n : p \in Pages
  BY SizeAssumption DEF Pages, PAGE_1

LEMMA FirstPage == \A n \in Pages : PAGE_1 \in 1..n
  BY DEF Pages, PAGE_1

LEMMA PagesNat == \A x \in Pages : x \in Nat
  BY PagesAre

LEMMA SeqWider ==
    ASSUME NEW S, NEW T, S \subseteq T, NEW s \in Seq(S)
    PROVE  s \in Seq(T)
  OBVIOUS

LEMMA LogFacts ==
    ASSUME LogTypes
    PROVE  /\ frames \in Seq(PageImage) /\ Len(frames) \in Nat /\ DOMAIN frames = 1..Len(frames)
           /\ IsSeq(frames)
           /\ shared_max \in Nat /\ max_frame \in Nat
           /\ DOMAIN frame_cache = Pages
           /\ \A p \in Pages : frame_cache[p] \in Seq(FrameNumber)
  <1>1. frames \in Seq(PageImage) /\ frame_cache \in [Pages -> Seq(1..MaxFrames)]
    BY DEF LogTypes
  <1>2. MaxFrames \in Nat
    BY LimitAssumption
  <1>3. 1..MaxFrames \subseteq FrameNumber
    BY <1>2 DEF FrameNumber
  <1>4. ASSUME NEW p \in Pages  PROVE frame_cache[p] \in Seq(FrameNumber)
    <2>1. frame_cache[p] \in Seq(1..MaxFrames)
      BY <1>1
    <2> QED  BY <1>3, <2>1, SeqWider, Zenon
  <1>5. IsSeq(frames)
    BY <1>1 DEF IsSeq
  <1>6. shared_max \in Nat /\ max_frame \in Nat
    BY <1>2 DEF LogTypes
  <1> QED  BY <1>1, <1>4, <1>5, <1>6

LEMMA StackFacts ==
    ASSUME StackTypes
    PROVE  /\ Len(savepoints) \in Nat /\ DOMAIN savepoints = 1..Len(savepoints)
           /\ Len(subjournal) \in Nat /\ DOMAIN subjournal = 1..Len(subjournal)
           /\ \A i \in 1..Len(savepoints) :
                /\ savepoints[i] \in SavepointType
                /\ savepoints[i].start \in Nat /\ savepoints[i].end \in Nat
                /\ savepoints[i].bitmap \subseteq Pages /\ savepoints[i].db_size \in Pages
                /\ savepoints[i].wal_max \in Nat /\ savepoints[i].fk \in Fks
           /\ \A k \in 1..Len(subjournal) :
                subjournal[k] \in PageImage /\ subjournal[k].page \in Pages
                /\ subjournal[k].ver \in Content
  <1>1. savepoints \in Seq(SavepointType) /\ subjournal \in Seq(PageImage) /\ MaxFrames \in Nat
    BY LimitAssumption DEF StackTypes
  <1>2. ASSUME NEW r \in SavepointType
        PROVE  /\ r.start \in Nat /\ r.end \in Nat
                /\ r.bitmap \subseteq Pages /\ r.db_size \in Pages
                /\ r.wal_max \in Nat /\ r.fk \in Fks
    BY <1>1 DEF SavepointType
  <1>3. ASSUME NEW r \in PageImage
        PROVE  r.page \in Pages /\ r.ver \in Content
    BY DEF PageImage
  <1>4. /\ Len(savepoints) \in Nat /\ DOMAIN savepoints = 1..Len(savepoints)
        /\ Len(subjournal) \in Nat /\ DOMAIN subjournal = 1..Len(subjournal)
        /\ \A i \in 1..Len(savepoints) : savepoints[i] \in SavepointType
        /\ \A k \in 1..Len(subjournal) : subjournal[k] \in PageImage
    BY <1>1
  <1> QED  BY <1>2, <1>3, <1>4

LEMMA GhostFacts ==
    ASSUME GhostTypes
    PROVE  /\ image.pages \in [Pages -> Content] /\ image.fk \in Fks
           /\ Len(marks) \in Nat
           /\ \A i \in 1..Len(marks) : marks[i] \in Image /\ marks[i].pages \in [Pages -> Content]
                                       /\ marks[i].fk \in Fks
           /\ \A p \in Pages : image.pages[p] \in Content /\ committed[p] \in Content
  <1>1. image \in Image /\ marks \in Seq(Image) /\ committed \in [Pages -> Content]
    BY DEF GhostTypes
  <1>2. ASSUME NEW r \in Image  PROVE r.pages \in [Pages -> Content] /\ r.fk \in Fks
    BY DEF Image
  <1>3. Len(marks) \in Nat /\ \A i \in 1..Len(marks) : marks[i] \in Image
    BY <1>1
  <1>4. image.pages \in [Pages -> Content]
    BY <1>1, <1>2
  <1> QED  BY <1>1, <1>2, <1>3, <1>4

-----------------------------------------------------------------------------
(* The content of a page is found again as long as its frame is there.      *)

ContentOf(F, s, hi, p) ==
    LET f == LatestOf(s, hi)
    IN  IF f = 0 THEN FileContent(p)
        ELSE IF f \in DOMAIN F /\ F[f].page = p THEN F[f].ver ELSE Garbage

LEMMA ContentIs ==
    ASSUME NEW h, NEW p
    PROVE  /\ ContentUpTo(h, p) = ContentOf(frames, frame_cache[p], h, p)
           /\ ContentUpTo(h, p)' = ContentOf(frames', frame_cache'[p], h, p)
  BY DEF ContentUpTo, ContentOf, LatestFrame, LatestOf, FileContent, Garbage

LEMMA ContentKept ==
    ASSUME NEW p, NEW h, NEW g, NEW m \in Nat,
           LatestOf(frame_cache'[p], g) = LatestOf(frame_cache[p], h),
           LatestOf(frame_cache[p], h) \in 0..m,
           \A k \in 1..m : k \in DOMAIN frames /\ k \in DOMAIN frames' /\ frames'[k] = frames[k]
    PROVE  ContentUpTo(g, p)' = ContentUpTo(h, p)
  <1> DEFINE f == LatestOf(frame_cache[p], h)
  <1>1. f \in 0..m /\ LatestOf(frame_cache'[p], g) = f
    OBVIOUS
  <1> HIDE DEF f
  <1>2. CASE f = 0
    BY <1>1, <1>2, ContentIs DEF ContentOf, f
  <1>3. CASE f # 0
    <2>1. f \in DOMAIN frames /\ f \in DOMAIN frames' /\ frames'[f] = frames[f]
      BY <1>1, <1>3
    <2>2. ContentOf(frames, frame_cache[p], h, p) = IF frames[f].page = p THEN frames[f].ver ELSE Garbage
      BY <1>3, <2>1 DEF ContentOf, f
    <2>3. ContentOf(frames', frame_cache'[p], g, p) = IF frames[f].page = p THEN frames[f].ver ELSE Garbage
      BY <1>1, <1>3, <2>1 DEF ContentOf
    <2> QED  BY <2>2, <2>3, ContentIs
  <1> QED  BY <1>2, <1>3

LEMMA ContentUnchanged ==
    ASSUME frames' = frames, frame_cache' = frame_cache, NEW h, NEW p
    PROVE  ContentUpTo(h, p)' = ContentUpTo(h, p)
  BY ContentIs

-----------------------------------------------------------------------------
(* Levels.                                                                  *)

LEMMA LevelFacts ==
    ASSUME NestInv, TypeOK, Sizes
    PROVE  /\ Depth \in Nat /\ Now \in Levels /\ Now = Depth + 1
           /\ \A i \in 1..Depth : i \in Levels
           /\ \A i \in Levels : i \in Nat /\ (i \in 1..Depth \/ i = Now)
           /\ \A i \in Levels : /\ Pos(i) \in 0..Len(subjournal) /\ Wal(i) \in Nat
                                /\ Img(i) \in [Pages -> Content] /\ Img(i)[PAGE_1] \in Pages
           /\ \A b \in Levels : \A a \in 1..b - 1 : a \in 1..Depth /\ Pos(a) <= Pos(b)
           /\ \A i \in 1..Depth : /\ Img(i) = marks[i].pages /\ Pos(i) = savepoints[i].start
                                  /\ Wal(i) = savepoints[i].wal_max
           /\ Img(Now) = image.pages /\ Pos(Now) = Len(subjournal)
           /\ Wal(Now) = max_frame
  <1>1. LogTypes /\ StackTypes /\ GhostTypes
    BY TypeParts
  <1>2. /\ Depth \in Nat /\ Now \in Levels /\ Now = Depth + 1
        /\ \A i \in 1..Depth : i \in Levels /\ i <= Depth
        /\ ~(Now <= Depth)
        /\ \A i \in Levels : i \in Nat /\ (i \in 1..Depth \/ i = Now)
    <2>1. Depth \in Nat
      BY <1>1, StackFacts DEF Depth
    <2> QED  BY <2>1 DEF Levels, Now
  <1>3. /\ \A i \in 1..Depth : /\ Img(i) = marks[i].pages /\ Pos(i) = savepoints[i].start
                               /\ Wal(i) = savepoints[i].wal_max
        /\ Img(Now) = image.pages /\ Pos(Now) = Len(subjournal)
        /\ Wal(Now) = max_frame
    BY <1>2 DEF Img, Pos, Wal
  <1>4. /\ Len(subjournal) \in Nat
        /\ \A i \in 1..Depth : /\ savepoints[i].start \in Nat /\ savepoints[i].end \in Nat
                               /\ savepoints[i].start <= savepoints[i].end
                               /\ savepoints[i].end <= Len(subjournal)
                               /\ savepoints[i].wal_max \in Nat
    BY <1>1, EndBounds, StackFacts DEF NestInv, Offsets, Depth
  <1>5. ASSUME NEW i \in Levels
        PROVE  /\ Pos(i) \in 0..Len(subjournal) /\ Wal(i) \in Nat
               /\ Img(i) \in [Pages -> Content] /\ Img(i)[PAGE_1] \in Pages
    <2>1. CASE i \in 1..Depth
      <3>1. Pos(i) \in 0..Len(subjournal) /\ Wal(i) \in Nat
        BY <1>3, <1>4, <2>1
      <3>2. Img(i) \in [Pages -> Content] /\ Img(i)[PAGE_1] \in Pages
        BY <1>1, <1>3, <2>1, GhostFacts DEF Sizes
      <3> QED  BY <3>1, <3>2
    <2>2. CASE i = Now
      BY <1>1, <1>3, <1>4, <2>2, GhostFacts, LogFacts DEF Sizes
    <2> QED  BY <1>2, <1>5, <2>1, <2>2
  <1>6. ASSUME NEW b \in Levels, NEW a \in 1..b - 1
        PROVE  a \in 1..Depth /\ Pos(a) <= Pos(b)
    <2>1. a \in 1..Depth
      BY <1>2, <1>6
    <2>2. CASE b \in 1..Depth
      <3>1. savepoints[a].end <= savepoints[b].start
        BY <1>6, <2>2 DEF NestInv, Offsets, Depth
      <3> QED  BY <1>3, <1>4, <2>1, <2>2, <3>1
    <2>3. CASE b = Now
      BY <1>3, <1>4, <2>1, <2>3
    <2> QED  BY <1>2, <1>6, <2>1, <2>2, <2>3
  <1> QED  BY <1>2, <1>3, <1>5, <1>6

(* A level of the new state is one of the old: opening a savepoint repeats  *)
(* the last, releasing and taking back leave some out.                      *)
LEMMA LevelsMapped ==
    ASSUME ImageInv, tx_state # "None", shared_max' = shared_max, NEW lev, Depth' \in Nat,
           \A a \in Levels' :
             /\ lev[a] \in Levels
             /\ Img(a)' = Img(lev[a]) /\ Pos(a)' = Pos(lev[a]) /\ Wal(a)' = Wal(lev[a])
             /\ a <= Depth' => savepoints'[a].db_size = Img(lev[a])[PAGE_1]
             /\ tx_state' = "Write" \/ Depth' > 0 => shared_max <= Wal(lev[a])
             /\ \A k \in 1..Pos(lev[a]) : subjournal'[k] = subjournal[k]
             /\ \A p \in Pages :
                  /\ LatestOf(frame_cache'[p], Wal(lev[a])) = LatestOf(frame_cache[p], Wal(lev[a]))
                  /\ ContentUpTo(Wal(a), p)' = ContentUpTo(Wal(lev[a]), p),
           \A b \in Levels' : \A a \in 1..b - 1 :
             a \in Levels' /\ (lev[a] = lev[b] \/ lev[a] \in 1..lev[b] - 1)
    PROVE  LevelInv'
  <1>0. NestInv /\ TypeOK /\ Sizes /\ LevelInv
    BY DEF ImageInv
  <1>1. ASSUME NEW i \in Levels'  PROVE LevelOK(i)'
    <2>1. LevelOK(lev[i])
      BY <1>0, <1>1 DEF LevelInv
    <2> QED  BY <1>1, <2>1 DEF LevelOK
  <1>2. ASSUME NEW b \in Levels', NEW a \in 1..b - 1  PROVE LevelPair(a, b)'
    <2> DEFINE la == lev[a]
               lb == lev[b]
    <2>1. a \in Levels' /\ la \in Levels /\ lb \in Levels /\ (la = lb \/ la \in 1..lb - 1)
      BY <1>2
    <2>2. /\ Img(a)' = Img(la) /\ Pos(a)' = Pos(la) /\ Wal(a)' = Wal(la)
          /\ Img(b)' = Img(lb) /\ Pos(b)' = Pos(lb) /\ Wal(b)' = Wal(lb)
          /\ \A k \in 1..Pos(lb) : subjournal'[k] = subjournal[k]
          /\ \A p \in Pages : /\ ContentUpTo(Wal(a), p)' = ContentUpTo(Wal(la), p)
                              /\ ContentUpTo(Wal(b), p)' = ContentUpTo(Wal(lb), p)
      BY <1>2, <2>1
    <2>3. /\ Pos(la) \in Nat /\ Pos(lb) \in Nat /\ Wal(la) \in Nat /\ Wal(lb) \in Nat
          /\ Img(la)[PAGE_1] \in Pages /\ Img(lb)[PAGE_1] \in Pages
      BY <1>0, <2>1, LevelFacts
    <2> HIDE DEF la, lb
    <2>4. /\ Img(la)[PAGE_1] <= Img(lb)[PAGE_1] /\ Wal(la) <= Wal(lb)
          /\ \A p \in 1..Img(la)[PAGE_1] : Between(la, lb, p)
      <3>1. CASE la \in 1..lb - 1
        BY <1>0, <2>1, <3>1 DEF LevelInv, LevelPair
      <3>2. CASE la = lb
        <4>1. \A k \in Pos(la) + 1..Pos(lb) : FALSE
          BY <2>3, <3>2
        <4>2. Img(la)[PAGE_1] <= Img(lb)[PAGE_1] /\ Wal(la) <= Wal(lb)
          <5>1. Img(la)[PAGE_1] \in Nat /\ Wal(la) \in Nat
            BY <2>3, PagesAre
          <5>2. Img(lb) = Img(la) /\ Wal(lb) = Wal(la)
            BY <3>2
          <5>3. \A x \in Nat : x <= x
            OBVIOUS
          <5> QED  BY <5>1, <5>2, <5>3
        <4>3. \A p \in 1..Img(la)[PAGE_1] : Between(la, lb, p)
          BY <3>2, <4>1 DEF Between
        <4> QED  BY <4>2, <4>3
      <3> QED  BY <2>1, <3>1, <3>2
    <2>5. ASSUME NEW p \in 1..Img(la)[PAGE_1]  PROVE Between(a, b, p)'
      <3>0. p \in Pages
        BY <2>3, <2>5, PagesAre
      <3>1. \A k \in Pos(la) + 1..Pos(lb) : /\ subjournal'[k] = subjournal[k]
                                            /\ \A l \in Pos(la) + 1..k - 1 : subjournal'[l] = subjournal[l]
        BY <2>2, <2>3
      <3>2. Between(la, lb, p)
        BY <2>4, <2>5
      <3> QED  BY <2>2, <3>0, <3>1, <3>2 DEF Between
    <2> QED  BY <2>2, <2>4, <2>5 DEF LevelPair
  <1> QED  BY <1>1, <1>2 DEF LevelInv

(* The pages X that existed at the newest savepoint are in the subjournal   *)
(* once the entries new are.                                                *)
InJournal(X, new) ==
    \A q \in X : Depth > 0 /\ q <= savepoints[Depth].db_size =>
        \/ q \in savepoints[Depth].bitmap
        \/ \E k \in 1..Len(new) : new[k].page = q

(* A statement changes pages X of its image or of the log: the pages that   *)
(* existed at the newest savepoint are in the subjournal by then, the new   *)
(* entries as the image had them.                                           *)
LEMMA LevelsEdited ==
    ASSUME ImageInv, tx_state = "Write", tx_state' = tx_state, shared_max' = shared_max,
           marks' = marks, NEW new, IsSeq(new), savepoints = <<>> => new = <<>>, Journal(new),
           \A k \in 1..Len(new) : /\ new[k].page <= savepoints[Depth].db_size /\ new[k].page \in Pages
                                  /\ new[k].ver = image.pages[new[k].page],
           NEW X,
           InJournal(X, new),
           image.pages[PAGE_1] <= image'.pages[PAGE_1], image'.pages[PAGE_1] \in Nat,
           max_frame <= max_frame', max_frame' \in Nat,
           \A q \in Pages \ X : /\ image'.pages[q] = image.pages[q]
                                /\ ContentUpTo(max_frame, q)' = ContentUpTo(max_frame, q),
           \A h \in 0..max_frame : \A q \in Pages :
                /\ LatestOf(frame_cache'[q], h) = LatestOf(frame_cache[q], h)
                /\ ContentUpTo(h, q)' = ContentUpTo(h, q),
           \A q \in Pages : q > image'.pages[PAGE_1] =>
                LatestOf(frame_cache'[q], max_frame') <= shared_max
    PROVE  LevelInv'
  <1> DEFINE n == Depth
  <1>0. /\ NestInv /\ TypeOK /\ Sizes /\ LevelInv /\ Bitmaps /\ LogInv
        /\ \A i \in Levels : LevelOK(i)
        /\ \A b \in Levels : \A a \in 1..b - 1 : LevelPair(a, b)
    BY DEF ImageInv, LevelInv
  <1>1. /\ n \in Nat /\ Now \in Levels /\ Now = n + 1
        /\ \A i \in 1..n : i \in Levels
        /\ \A i \in Levels : i \in Nat /\ (i \in 1..n \/ i = Now)
        /\ \A i \in Levels : /\ Pos(i) \in 0..Len(subjournal) /\ Wal(i) \in Nat
                             /\ Img(i) \in [Pages -> Content] /\ Img(i)[PAGE_1] \in Pages
        /\ \A b \in Levels : \A a \in 1..b - 1 : a \in 1..n /\ Pos(a) <= Pos(b)
        /\ \A i \in 1..n : /\ Img(i) = marks[i].pages /\ Pos(i) = savepoints[i].start
                           /\ Wal(i) = savepoints[i].wal_max
        /\ Img(Now) = image.pages /\ Pos(Now) = Len(subjournal)
        /\ Wal(Now) = max_frame
    BY <1>0, LevelFacts
  <1>2. /\ Len(savepoints') = n
        /\ \A i \in 1..n : SameSavepoint(savepoints'[i], savepoints[i])
        /\ Len(subjournal') = Len(subjournal) + Len(new)
        /\ \A k \in 1..Len(subjournal) : subjournal'[k] = subjournal[k]
        /\ \A k \in 1..Len(new) : subjournal'[Len(subjournal) + k] = new[k]
    BY <1>0, JournalStep DEF NestInv, Depth
  <1>3. /\ Len(subjournal) \in Nat /\ Len(new) \in Nat /\ (n = 0 => Len(new) = 0)
        /\ Len(subjournal') \in Nat /\ Len(subjournal) <= Len(subjournal')
    <2>1. Len(subjournal) \in Nat /\ Len(new) \in Nat /\ (n = 0 => Len(new) = 0)
      BY <1>0, EndBounds, SeqShape DEF NestInv, Depth
    <2> QED  BY <1>2, <2>1
  <1>4. \A k \in 1..Len(subjournal') :
          \/ k \in 1..Len(subjournal)
          \/ k - Len(subjournal) \in 1..Len(new) /\ subjournal'[k] = new[k - Len(subjournal)]
    <2>1. ASSUME NEW k \in 1..Len(subjournal'), k \notin 1..Len(subjournal)
          PROVE  k - Len(subjournal) \in 1..Len(new) /\ subjournal'[k] = new[k - Len(subjournal)]
      <3>1. PICK d \in 1..Len(new) : d = k - Len(subjournal)
        BY <1>2, <1>3, <2>1
      <3>2. k = Len(subjournal) + d
        BY <1>3, <2>1, <3>1
      <3> QED  BY <1>2, <3>1, <3>2
    <2> QED  BY <2>1
  <1>5. /\ Depth' = n /\ Levels' = Levels /\ Now' = Now
        /\ \A i \in 1..n : Img(i)' = Img(i) /\ Pos(i)' = Pos(i) /\ Wal(i)' = Wal(i)
        /\ Img(Now)' = image'.pages /\ Pos(Now)' = Len(subjournal') /\ Wal(Now)' = max_frame'
    <2>1. Depth' = n /\ Levels' = Levels /\ Now' = Now
      BY <1>2 DEF Depth, Levels, Now
    <2>2. ASSUME NEW i \in 1..n  PROVE Img(i)' = Img(i) /\ Pos(i)' = Pos(i) /\ Wal(i)' = Wal(i)
      BY <1>1, <1>2, <2>1, <2>2 DEF Img, Pos, Wal, SameSavepoint
    <2>3. ~(Now <= n)
      BY <1>1
    <2> QED  BY <2>1, <2>2, <2>3 DEF Img, Pos, Wal
  <1> HIDE DEF n
  <1>6. \A i \in 1..n : /\ Wal(i) \in 0..max_frame /\ Img(i)[PAGE_1] <= image.pages[PAGE_1]
                        /\ Img(i)[PAGE_1] <= image'.pages[PAGE_1] /\ Wal(i) <= max_frame'
                        /\ savepoints[i].db_size = Img(i)[PAGE_1]
    <2>1. ASSUME NEW i \in 1..n
          PROVE  /\ Wal(i) \in 0..max_frame /\ Img(i)[PAGE_1] <= image.pages[PAGE_1]
                 /\ Img(i)[PAGE_1] <= image'.pages[PAGE_1] /\ Wal(i) <= max_frame'
      <3>1. i \in 1..Now - 1 /\ i \in Levels /\ Now \in Levels
        BY <1>1, <2>1
      <3>2. Img(i)[PAGE_1] <= Img(Now)[PAGE_1] /\ Wal(i) <= Wal(Now)
        BY <1>0, <3>1 DEF LevelPair
      <3>3. Img(i)[PAGE_1] \in Nat /\ Img(Now)[PAGE_1] \in Nat /\ Wal(i) \in Nat /\ Wal(Now) \in Nat
        BY <1>1, <3>1, PagesAre
      <3> QED  BY <1>1, <3>2, <3>3, SMTT(30)
    <2>2. \A i \in 1..n : savepoints[i].db_size = Img(i)[PAGE_1]
      <3>1. \A i \in 1..n : i \in Levels /\ i <= Depth
        BY <1>1 DEF n
      <3> QED  BY <1>0, <3>1 DEF LevelOK
    <2> QED  BY <2>1, <2>2
  <1>7. ASSUME NEW i \in Levels'  PROVE LevelOK(i)'
    <2>0. i \in Levels
      BY <1>5, <1>7
    <2>1. CASE i \in 1..n
      <3>1. LevelOK(i) /\ i <= Depth
        BY <1>0, <1>1, <2>0, <2>1 DEF n
      <3>2. i <= Depth' => savepoints'[i].db_size = Img(i)'[PAGE_1]
        BY <1>2, <1>5, <2>1, <3>1 DEF LevelOK, SameSavepoint
      <3>3. shared_max' <= Wal(i)'
        BY <1>5, <2>1, <3>1 DEF LevelOK
      <3>4. \A p \in Pages : p > Img(i)'[PAGE_1] => LatestOf(frame_cache'[p], Wal(i)') <= shared_max'
        BY <1>5, <1>6, <2>1, <3>1 DEF LevelOK
      <3>5. \A k \in 1..Pos(i)' : subjournal'[k].page <= Img(i)'[PAGE_1]
        <4>1. \A k \in 1..Pos(i) : k \in 1..Len(subjournal)
          BY <1>1, <1>3, <2>0
        <4> QED  BY <1>2, <1>5, <2>1, <3>1, <4>1 DEF LevelOK
      <3> QED  BY <3>2, <3>3, <3>4, <3>5 DEF LevelOK
    <2>2. CASE i = Now
      <3>1. LevelOK(Now)
        BY <1>0, <1>1
      <3>2. ~(i <= Depth')
        BY <1>1, <1>5, <2>2
      <3>3. shared_max' <= Wal(i)'
        <4>1. shared_max <= max_frame /\ shared_max \in Nat /\ max_frame \in Nat
          BY <1>0, LogFacts, TypeParts DEF LogInv
        <4> QED  BY <1>5, <2>2, <4>1
      <3>4. \A p \in Pages : p > Img(i)'[PAGE_1] => LatestOf(frame_cache'[p], Wal(i)') <= shared_max'
        BY <1>5, <2>2
      <3>5. ASSUME NEW k \in 1..Len(subjournal')
            PROVE  subjournal'[k].page <= image'.pages[PAGE_1]
        <4>0. /\ image.pages[PAGE_1] \in Nat
              /\ \A j \in 1..Len(subjournal) : subjournal[j].page \in Nat
          BY <1>0, PagesAre, StackFacts, TypeParts DEF Sizes
        <4>1. CASE k \in 1..Len(subjournal)
          <5>1. subjournal[k].page <= image.pages[PAGE_1]
            BY <1>1, <3>1, <4>1 DEF LevelOK
          <5> QED  BY <1>2, <4>0, <4>1, <5>1
        <4>2. CASE k \notin 1..Len(subjournal)
          <5>1. PICK d \in 1..Len(new) : subjournal'[k] = new[d]
            BY <1>4, <3>5, <4>2
          <5>2. n \in 1..n
            BY <1>1, <1>3, <5>1
          <5>3. new[d].page <= savepoints[n].db_size /\ new[d].page \in Pages
            BY <5>1 DEF n
          <5>4. savepoints[n].db_size = Img(n)[PAGE_1] /\ Img(n)[PAGE_1] <= image'.pages[PAGE_1]
            BY <1>6, <5>2
          <5>5. Img(n)[PAGE_1] \in Nat /\ new[d].page \in Nat
            BY <1>1, <5>2, <5>3, PagesAre
          <5> QED  BY <5>1, <5>3, <5>4, <5>5
        <4> QED  BY <4>1, <4>2
      <3> QED  BY <1>5, <2>2, <3>2, <3>3, <3>4, <3>5 DEF LevelOK
    <2> QED  BY <1>1, <2>0, <2>1, <2>2
  <1>8. ASSUME NEW b \in Levels', NEW a \in 1..b - 1  PROVE LevelPair(a, b)'
    <2>0. b \in Levels /\ a \in 1..n /\ a \in Levels /\ LevelPair(a, b) /\ Pos(a) <= Pos(b)
      BY <1>0, <1>1, <1>5, <1>8
    <2>1. CASE b \in 1..n
      <3>1. Img(a)'[PAGE_1] <= Img(b)'[PAGE_1] /\ Wal(a)' <= Wal(b)'
        BY <1>5, <2>0, <2>1 DEF LevelPair
      <3>2. ASSUME NEW p \in 1..Img(a)[PAGE_1]  PROVE Between(a, b, p)'
        <4>0. p \in Pages
          BY <1>1, <2>0, <3>2, PagesAre
        <4>1. Between(a, b, p)
          BY <2>0, <3>2 DEF LevelPair
        <4>2. /\ ContentUpTo(Wal(a), p)' = ContentUpTo(Wal(a), p)
              /\ ContentUpTo(Wal(b), p)' = ContentUpTo(Wal(b), p)
          BY <1>5, <1>6, <2>0, <2>1, <4>0
        <4>3. \A k \in Pos(a) + 1..Pos(b) : /\ subjournal'[k] = subjournal[k]
                                            /\ \A l \in Pos(a) + 1..k - 1 : subjournal'[l] = subjournal[l]
          <5>1. Pos(a) \in Nat /\ Pos(b) \in Nat /\ Pos(b) <= Len(subjournal)
            BY <1>1, <1>3, <2>0
          <5>2. \A k \in Pos(a) + 1..Pos(b) : /\ k \in 1..Len(subjournal)
                                              /\ \A l \in Pos(a) + 1..k - 1 : l \in 1..Len(subjournal)
            BY <1>3, <5>1
          <5> QED  BY <1>2, <5>2
        <4> QED  BY <1>5, <2>0, <2>1, <4>1, <4>2, <4>3 DEF Between
      <3> QED  BY <1>5, <2>0, <2>1, <3>1, <3>2 DEF LevelPair
    <2>2. CASE b = Now
      <3>1. Img(a)'[PAGE_1] <= Img(b)'[PAGE_1] /\ Wal(a)' <= Wal(b)'
        BY <1>5, <1>6, <2>0, <2>2
      <3>2. ASSUME NEW p \in 1..Img(a)[PAGE_1]  PROVE Between(a, b, p)'
        <4> DEFINE lo == Pos(a)
                   hi == Len(subjournal)
                   J == subjournal'
        <4>0. /\ p \in Pages /\ lo \in Nat /\ hi \in Nat /\ lo <= hi /\ hi <= Len(J) /\ Len(J) \in Nat
              /\ Pos(b) = hi
          <5>1. Img(a)[PAGE_1] \in Pages /\ lo \in 0..hi /\ Pos(b) = hi
            BY <1>1, <2>0, <2>2
          <5>2. p \in Pages
            BY <3>2, <5>1, PagesAre
          <5> QED  BY <1>3, <5>1, <5>2
        <4>00. \A k \in lo + 1..hi : J[k] = subjournal[k] /\ \A l \in lo + 1..k - 1 : J[l] = subjournal[l]
          BY <1>2, <4>0
        <4>1. Between(a, b, p)
          BY <2>0, <3>2 DEF LevelPair
        <4>2. CASE \E k \in lo + 1..hi :
                     /\ subjournal[k].page = p /\ subjournal[k].ver = Img(a)[p]
                     /\ \A l \in lo + 1..k - 1 : subjournal[l].page # p
          <5>1. PICK k \in lo + 1..hi :
                     /\ subjournal[k].page = p /\ subjournal[k].ver = Img(a)[p]
                     /\ \A l \in lo + 1..k - 1 : subjournal[l].page # p
            BY <4>2
          <5>2. /\ J[k].page = p /\ J[k].ver = Img(a)[p]
                /\ \A l \in lo + 1..k - 1 : J[l].page # p
            BY <4>00, <5>1
          <5>3. k \in lo + 1..Len(J)
            BY <4>0, <5>1
          <5> QED  BY <1>5, <2>0, <2>2, <5>2, <5>3 DEF Between
        <4>3. CASE /\ \A k \in lo + 1..hi : subjournal[k].page # p
                   /\ Img(b)[p] = Img(a)[p]
                   /\ ContentUpTo(Wal(b), p) = ContentUpTo(Wal(a), p)
          <5>0. \A k \in lo + 1..hi : J[k].page # p
            BY <4>00, <4>3
          <5> DEFINE K == {k \in lo + 1..Len(J) : J[k].page = p}
          <5>1. CASE K # {}
            <6>1. PICK k \in K : \A l \in K : k <= l
              <7>1. K \subseteq Nat
                BY <4>0
              <7> QED  BY <5>1, <7>1, LeastNumber
            <6>2. k \in lo + 1..Len(J) /\ J[k].page = p /\ \A l \in lo + 1..k - 1 : J[l].page # p
              BY <4>0, <6>1
            <6>3. k \in 1..Len(subjournal') /\ k \notin 1..Len(subjournal)
              BY <4>0, <5>0, <6>2
            <6>4. PICK d \in 1..Len(new) : J[k] = new[d]
              BY <1>4, <6>3
            <6>5. J[k].ver = image.pages[p]
              BY <6>2, <6>4
            <6>6. J[k].ver = Img(a)[p]
              BY <1>1, <2>2, <4>3, <6>5
            <6> QED  BY <1>5, <2>0, <2>2, <6>2, <6>6 DEF Between
          <5>2. CASE K = {}
            <6>1. \A k \in lo + 1..Len(J) : J[k].page # p
              BY <5>2
            <6>2. p \notin X
              <7> SUFFICES ASSUME p \in X  PROVE FALSE
                OBVIOUS
              <7>1. n \in 1..n /\ n \in Levels /\ (a = n \/ a \in 1..n - 1) /\ n > 0
                <8>1. n \in Nat /\ a \in 1..n
                  BY <1>1, <2>0
                <8>2. n \in 1..n /\ (a = n \/ a \in 1..n - 1) /\ n > 0
                  BY <8>1
                <8> QED  BY <1>1, <8>2
              <7>2. Img(a)[PAGE_1] <= Img(n)[PAGE_1] /\ Pos(a) <= Pos(n)
                <8>1. CASE a = n
                  <9>1. Img(n)[PAGE_1] \in Nat /\ Pos(n) \in Nat
                    <10>1. Img(n)[PAGE_1] \in Pages /\ Pos(n) \in 0..Len(subjournal)
                      BY <1>1, <7>1
                    <10>2. \A x \in 0..Len(subjournal) : x \in Nat
                      BY <1>3
                    <10> QED  BY <10>1, <10>2, PagesNat
                  <9> QED  BY <8>1, <9>1
                <8>2. CASE a \in 1..n - 1
                  BY <1>0, <1>1, <7>1, <8>2 DEF LevelPair
                <8> QED  BY <7>1, <8>1, <8>2
              <7>3. p <= savepoints[n].db_size
                <8>1. Img(a)[PAGE_1] \in Nat /\ Img(n)[PAGE_1] \in Nat /\ p \in Nat
                  BY <1>1, <2>0, <4>0, <7>1, PagesAre
                <8> QED  BY <1>6, <3>2, <7>1, <7>2, <8>1
              <7>4. CASE p \in savepoints[n].bitmap
                <8>1. PICK k \in savepoints[n].start + 1..savepoints[n].end : subjournal[k].page = p
                  BY <1>0, <7>1, <7>4 DEF Bitmaps, n
                <8>2. /\ savepoints[n].start \in Nat /\ savepoints[n].end \in Nat
                      /\ savepoints[n].end <= Len(subjournal)
                  BY <1>0, <7>1, EndBounds DEF NestInv, Stack, n, Depth
                <8>3. Pos(n) = savepoints[n].start
                  BY <1>1, <7>1
                <8>4. k \in lo + 1..hi
                  BY <4>0, <7>2, <8>1, <8>2, <8>3, SMTT(30)
                <8> QED  BY <4>3, <8>1, <8>4
              <7>5. ASSUME NEW d \in 1..Len(new), new[d].page = p  PROVE FALSE
                <8>1. J[hi + d].page = p
                  BY <1>2, <7>5
                <8>2. hi + d \in lo + 1..Len(J)
                  BY <1>2, <1>3, <4>0, <7>5
                <8> QED  BY <6>1, <8>1, <8>2
              <7> QED  BY <7>1, <7>3, <7>4, <7>5 DEF n, InJournal
            <6>3. image'.pages[p] = image.pages[p] /\ ContentUpTo(max_frame, p)' = ContentUpTo(max_frame, p)
              BY <4>0, <6>2
            <6>4. ContentUpTo(Wal(a), p)' = ContentUpTo(Wal(a), p)
              BY <1>5, <1>6, <2>0, <4>0
            <6>5. ContentUpTo(Wal(b), p)' = ContentUpTo(Wal(b), p)
              BY <1>1, <1>5, <2>2, <6>3
            <6> QED  BY <1>1, <1>5, <2>0, <2>2, <4>3, <6>1, <6>3, <6>4, <6>5 DEF Between
          <5> QED  BY <5>1, <5>2
        <4> QED  BY <4>0, <4>1, <4>2, <4>3 DEF Between
      <3> QED  BY <1>5, <2>0, <2>2, <3>1, <3>2 DEF LevelPair
    <2> QED  BY <1>1, <2>0, <2>1, <2>2
  <1> QED  BY <1>7, <1>8 DEF LevelInv

(* At the start of a transaction every level is the last commit.            *)
LEMMA LevelsFresh ==
    ASSUME Depth' \in Nat, shared_max' \in Nat, NEW P, P[PAGE_1] \in Nat,
           \A i \in Levels' : Img(i)' = P /\ Pos(i)' = 0 /\ Wal(i)' = shared_max',
           \A i \in 1..Depth' : savepoints'[i].db_size = P[PAGE_1],
           \A p \in Pages : frame_cache'[p] \in Seq(FrameNumber)
    PROVE  LevelInv'
  <1>1. ASSUME NEW i \in Levels'  PROVE LevelOK(i)'
    <2>1. Img(i)' = P /\ Pos(i)' = 0 /\ Wal(i)' = shared_max'
      BY <1>1
    <2>2. i <= Depth' => savepoints'[i].db_size = P[PAGE_1]
      <3>1. i <= Depth' => i \in 1..Depth'
        BY <1>1 DEF Levels, Now
      <3> QED  BY <3>1
    <2>3. \A p \in Pages : LatestOf(frame_cache'[p], shared_max') <= shared_max'
      BY LatestRange
    <2>4. shared_max' <= shared_max'
      OBVIOUS
    <2>5. \A k \in 1..0 : FALSE
      OBVIOUS
    <2> QED  BY <2>1, <2>2, <2>3, <2>4, <2>5 DEF LevelOK
  <1>2. ASSUME NEW b \in Levels', NEW a \in 1..b - 1  PROVE LevelPair(a, b)'
    <2>1. a \in Levels'
      <3>1. PICK d \in Nat : d = Depth'
        OBVIOUS
      <3>2. b \in 1..d + 1 /\ Levels' = 1..d + 1
        BY <1>2, <3>1 DEF Levels, Now
      <3> QED  BY <1>2, <3>2
    <2>2. /\ Img(a)' = P /\ Pos(a)' = 0 /\ Wal(a)' = shared_max'
          /\ Img(b)' = P /\ Pos(b)' = 0 /\ Wal(b)' = shared_max'
      BY <1>2, <2>1
    <2>3. shared_max' <= shared_max' /\ P[PAGE_1] <= P[PAGE_1]
      OBVIOUS
    <2>4. ASSUME NEW p  PROVE Between(a, b, p)'
      <3>1. \A k \in 0 + 1..0 : FALSE
        OBVIOUS
      <3>2. ContentUpTo(Wal(a), p)' = ContentUpTo(Wal(b), p)'
        BY <2>2
      <3> QED  BY <2>2, <3>1, <3>2 DEF Between
    <2> QED  BY <2>2, <2>3, <2>4 DEF LevelPair
  <1> QED  BY <1>1, <1>2 DEF LevelInv

LEMMA BitmapsKept ==
    ASSUME NestInv, Bitmaps,
           \A i \in 1..Depth' :
             \/ savepoints'[i].bitmap = {}
             \/ /\ i \in 1..Depth /\ savepoints'[i].bitmap = savepoints[i].bitmap
                /\ savepoints'[i].start = savepoints[i].start
                /\ savepoints'[i].end \in Nat /\ savepoints[i].end <= savepoints'[i].end
                /\ \A k \in 1..savepoints[i].end : subjournal'[k] = subjournal[k]
    PROVE  Bitmaps'
  <1>1. ASSUME NEW i \in 1..Depth', NEW p \in savepoints'[i].bitmap
        PROVE  \E k \in savepoints'[i].start + 1..savepoints'[i].end : subjournal'[k].page = p
    <2>1. /\ i \in 1..Depth /\ savepoints'[i].bitmap = savepoints[i].bitmap
          /\ savepoints'[i].start = savepoints[i].start
          /\ savepoints'[i].end \in Nat /\ savepoints[i].end <= savepoints'[i].end
          /\ \A k \in 1..savepoints[i].end : subjournal'[k] = subjournal[k]
      BY <1>1
    <2>2. PICK k \in savepoints[i].start + 1..savepoints[i].end : subjournal[k].page = p
      BY <1>1, <2>1 DEF Bitmaps
    <2>3. savepoints[i].start \in Nat /\ savepoints[i].end \in Nat
      BY <2>1 DEF NestInv, Stack, Depth
    <2>4. k \in 1..savepoints[i].end /\ k \in savepoints[i].start + 1..savepoints'[i].end
      BY <2>1, <2>2, <2>3
    <2> QED  BY <2>1, <2>2, <2>4
  <1> QED  BY <1>1 DEF Bitmaps

LEMMA BitmapsJournaled ==
    ASSUME NestInv, Bitmaps, NEW new, IsSeq(new), savepoints = <<>> => new = <<>>, Journal(new)
    PROVE  Bitmaps'
  <1>1. /\ Len(savepoints') = Len(savepoints)
        /\ \A i \in 1..Len(savepoints) :
             /\ SameSavepoint(savepoints'[i], savepoints[i])
             /\ savepoints'[i].end = IF i = Len(savepoints) THEN Len(subjournal')
                                     ELSE savepoints[i].end
             /\ \A p : p \in savepoints'[i].bitmap <=>
                         \/ p \in savepoints[i].bitmap
                         \/ i = Len(savepoints) /\ \E k \in 1..Len(new) : new[k].page = p
        /\ Len(subjournal') = Len(subjournal) + Len(new)
        /\ \A k \in 1..Len(subjournal) : subjournal'[k] = subjournal[k]
        /\ \A k \in 1..Len(new) : subjournal'[Len(subjournal) + k] = new[k]
    <2>1. Stack /\ Offsets
      BY DEF NestInv
    <2> QED  BY <2>1, JournalStep
  <1>2. /\ Len(new) \in Nat /\ Len(subjournal) \in Nat
        /\ \A i \in 1..Len(savepoints) :
             /\ savepoints[i].start \in Nat /\ savepoints[i].end \in Nat
             /\ savepoints[i].start <= savepoints[i].end /\ savepoints[i].end <= Len(subjournal)
    BY EndBounds, SeqShape DEF NestInv, Stack, Offsets
  <1>3. ASSUME NEW i \in 1..Len(savepoints), NEW p \in savepoints'[i].bitmap
        PROVE  \E k \in savepoints'[i].start + 1..savepoints'[i].end : subjournal'[k].page = p
    <2>0. savepoints'[i].start = savepoints[i].start /\ savepoints[i].end <= savepoints'[i].end
          /\ savepoints'[i].end \in Nat
      <3>1. savepoints'[i].start = savepoints[i].start
        BY <1>1, <1>3 DEF SameSavepoint
      <3>2. Len(subjournal') \in Nat /\ savepoints[i].end <= Len(subjournal')
        BY <1>1, <1>2, <1>3
      <3>3. savepoints'[i].end = Len(subjournal') \/ savepoints'[i].end = savepoints[i].end
        BY <1>1, <1>3
      <3> QED  BY <1>2, <1>3, <3>1, <3>2, <3>3
    <2>1. CASE p \in savepoints[i].bitmap
      <3>1. PICK k \in savepoints[i].start + 1..savepoints[i].end : subjournal[k].page = p
        BY <1>3, <2>1 DEF Bitmaps, Depth
      <3>2. k \in 1..Len(subjournal) /\ k \in savepoints[i].start + 1..savepoints'[i].end
        BY <1>2, <2>0, <3>1
      <3> QED  BY <1>1, <2>0, <3>1, <3>2
    <2>2. CASE p \notin savepoints[i].bitmap
      <3>1. i = Len(savepoints) /\ \E k \in 1..Len(new) : new[k].page = p
        BY <1>1, <1>3, <2>2
      <3>2. PICK k \in 1..Len(new) : new[k].page = p
        BY <3>1
      <3>3. subjournal'[Len(subjournal) + k].page = p
        BY <1>1, <3>2
      <3>4. Len(subjournal) + k \in savepoints[i].start + 1..savepoints'[i].end
        <4>1. savepoints'[i].end = Len(subjournal) + Len(new)
          BY <1>1, <3>1
        <4>2. /\ savepoints[i].start \in Nat /\ savepoints[i].start <= Len(subjournal)
          BY <1>2, <1>3
        <4> QED  BY <1>2, <3>2, <4>1, <4>2
      <3> QED  BY <2>0, <3>3, <3>4
    <2> QED  BY <2>1, <2>2
  <1> QED  BY <1>1, <1>3 DEF Bitmaps, Depth

-----------------------------------------------------------------------------
(* After the end of a transaction.                                          *)

LEMMA Ended ==
    ASSUME LogTypes', CacheTypes', ConnTypes', NestInv', LogInv', CacheInv', CommittedIsShared',
           committed' \in [Pages -> Content], committed'[PAGE_1] \in Pages,
           image' = [pages |-> committed', fk |-> 0], marks' = <<>>,
           savepoints' = <<>>, subjournal' = <<>>, tx_state' = "None", running' = FALSE,
           writes' \in 0..MaxWrites
    PROVE  ImageInv'
  <1>1. /\ Depth' = 0 /\ Len(subjournal') = 0 /\ Len(marks') = 0 /\ Len(savepoints') = 0
        /\ \A i \in 1..0 : FALSE
    BY DEF Depth
  <1>2. StackTypes'
    BY DEF StackTypes
  <1>3. 0 \in Fks
    BY ChoiceAssumption
  <1>4. image'.pages = committed' /\ image' \in Image
    BY <1>3 DEF Image
  <1>5. GhostTypes'
    BY <1>4 DEF GhostTypes
  <1>6. TypeOK'
    BY <1>2, <1>5, TypePartsAfter
  <1>7. Control'
    BY DEF Control
  <1>8. Sizes'
    BY <1>1, <1>4 DEF Sizes
  <1>9. DirtyInv' /\ Flat' /\ Bitmaps'
    BY <1>1 DEF DirtyInv, Flat, Bitmaps
  <1>10. LevelInv' /\ SeesItsImage'
    BY DEF LevelInv, SeesItsImage
  <1>11. Counter'
    BY DEF Counter
  <1> QED  BY <1>6, <1>7, <1>8, <1>9, <1>10, <1>11 DEF ImageInv

LEMMA RolledBackFacts ==
    ASSUME LogTypes, NEW m \in Nat, m <= Len(frames), frames' = frames,
           frame_cache' = RolledBack(frame_cache, m)
    PROVE  /\ frame_cache' \in [Pages -> Seq(1..MaxFrames)]
           /\ \A p \in Pages :
                /\ TopOf(frame_cache'[p]) = LatestOf(frame_cache[p], m)
                /\ TopOf(frame_cache'[p]) \in 0..m
                /\ \A h \in 0..m : /\ LatestOf(frame_cache'[p], h) = LatestOf(frame_cache[p], h)
                                   /\ ContentUpTo(h, p)' = ContentUpTo(h, p)
  <1>1. /\ frame_cache \in [Pages -> Seq(1..MaxFrames)] /\ DOMAIN frame_cache = Pages
        /\ \A p \in Pages : frame_cache[p] \in Seq(FrameNumber)
        /\ Len(frames) \in Nat /\ DOMAIN frames = 1..Len(frames)
    BY LogFacts DEF LogTypes
  <1>2. /\ DOMAIN frame_cache' = Pages
        /\ \A p \in Pages : frame_cache'[p] = Popped(frame_cache[p], m)
    BY <1>1, RolledBackOf
  <1>3. 1..MaxFrames \subseteq FrameNumber
    BY LimitAssumption DEF FrameNumber
  <1>4. \A p \in Pages : frame_cache'[p] \in Seq(1..MaxFrames)
    BY <1>1, <1>2, <1>3, PoppedType
  <1>5. frame_cache' \in [Pages -> Seq(1..MaxFrames)]
    <2>1. frame_cache' = [p \in DOMAIN frame_cache |-> frame_cache'[p]]
      BY DEF RolledBack
    <2> QED  BY <1>1, <1>4, <2>1
  <1>6. ASSUME NEW p \in Pages
        PROVE  /\ TopOf(frame_cache'[p]) = LatestOf(frame_cache[p], m)
               /\ TopOf(frame_cache'[p]) \in 0..m
               /\ \A h \in 0..m : LatestOf(frame_cache'[p], h) = LatestOf(frame_cache[p], h)
    <2>1. frame_cache[p] \in Seq(FrameNumber) /\ frame_cache'[p] = Popped(frame_cache[p], m)
      BY <1>1, <1>2
    <2>2. LatestOf(frame_cache[p], m) \in 0..m
      BY <2>1, LatestRange
    <2> QED  BY <2>1, <2>2, PoppedKeeps
  <1>7. ASSUME NEW p \in Pages, NEW h \in 0..m
        PROVE  ContentUpTo(h, p)' = ContentUpTo(h, p)
    <2>1. LatestOf(frame_cache'[p], h) = LatestOf(frame_cache[p], h)
      BY <1>6, <1>7
    <2>2. LatestOf(frame_cache[p], h) \in 0..h /\ h \in Nat
      BY <1>1, <1>7, LatestRange
    <2>3. \A k \in 1..h : k \in DOMAIN frames /\ k \in DOMAIN frames' /\ frames'[k] = frames[k]
      BY <1>1, <1>7
    <2> QED  BY <2>1, <2>2, <2>3, ContentKept
  <1> QED  BY <1>5, <1>6, <1>7

LEMMA EmptyCacheOK ==
    ASSUME cache' = EmptyCache, dirty_pages' = {}
    PROVE  CacheTypes' /\ CacheInv'
  <1>1. 0 \in Content
    BY SizeAssumption, LimitAssumption DEF Content
  <1>2. NoPage \in [used : BOOLEAN, ver : Content, dirty : BOOLEAN, restored : BOOLEAN] /\ NoPage.used = FALSE
    BY <1>1 DEF NoPage
  <1>3. CacheTypes'
    BY <1>2 DEF CacheTypes, EmptyCache
  <1>4. \A p \in Pages : cache'[p].used = FALSE
    BY <1>2 DEF EmptyCache
  <1> QED  BY <1>3, <1>4 DEF CacheInv

LEMMA RollbackLog ==
    ASSUME ImageInv, tx_state = "Write", RollbackWrites, committed' = committed, tx_state' = "None"
    PROVE  /\ LogTypes' /\ CacheTypes' /\ LogInv' /\ CacheInv' /\ CommittedIsShared'
  <1>1. /\ cache' = EmptyCache /\ dirty_pages' = {}
        /\ frame_cache' = RolledBack(frame_cache, shared_max)
        /\ max_frame' = shared_max /\ frames' = frames /\ shared_max' = shared_max
    BY DEF RollbackWrites
  <1>2. LogTypes /\ LogInv /\ CommittedIsShared /\ Sizes
    BY TypeParts DEF ImageInv
  <1>3. shared_max \in Nat /\ shared_max <= Len(frames) /\ shared_max \in 0..MaxFrames
        /\ frames \in Seq(PageImage)
    BY <1>2, LogFacts DEF LogInv, LogTypes
  <1>4. /\ frame_cache' \in [Pages -> Seq(1..MaxFrames)]
        /\ \A p \in Pages :
             /\ TopOf(frame_cache'[p]) \in 0..shared_max
             /\ \A h \in 0..shared_max : ContentUpTo(h, p)' = ContentUpTo(h, p)
    BY <1>1, <1>2, <1>3, RolledBackFacts
  <1>5. CacheTypes' /\ CacheInv'
    BY <1>1, EmptyCacheOK
  <1>6. LogTypes'
    BY <1>1, <1>3, <1>4 DEF LogTypes
  <1>7. LogInv'
    <2>1. \A p \in Pages : TopOf(frame_cache'[p]) <= shared_max'
      BY <1>1, <1>3, <1>4
    <2> QED  BY <1>1, <1>3, <2>1 DEF LogInv
  <1>8. CommittedIsShared'
    <2>1. shared_max \in 0..shared_max
      BY <1>3
    <2>2. \A p \in Pages : ContentUpTo(shared_max, p)' = ContentUpTo(shared_max, p)
      BY <1>1, <1>4, <2>1
    <2>3. \A p \in 1..committed[PAGE_1] : p \in Pages
      BY <1>2, PagesAre DEF Sizes
    <2> QED  BY <1>1, <1>2, <2>2, <2>3 DEF CommittedIsShared
  <1> QED  BY <1>5, <1>6, <1>7, <1>8

(* What the transaction sees of a page: the cache, or the files.            *)
LEMMA SeenPages ==
    ASSUME ImageInv, tx_state # "None"
    PROVE  /\ DbSize = image.pages[PAGE_1] /\ DbSize \in Pages
           /\ \A p \in 1..DbSize : /\ p \in Pages /\ PageSeen(p) = image.pages[p]
                                   /\ PageSeen(p) \in Content
           /\ \A p \in Pages \ dirty_pages : PageSeen(p) = ContentUpTo(max_frame, p)
           /\ dirty_pages \subseteq 1..DbSize
  <1>1. TypeOK /\ Sizes /\ SeesItsImage /\ CacheInv /\ DirtyInv
    BY DEF ImageInv
  <1>2. \A p \in 1..image.pages[PAGE_1] : PageSeen(p) = image.pages[p]
    BY <1>1 DEF SeesItsImage
  <1>3. image.pages[PAGE_1] \in Pages /\ PAGE_1 \in 1..image.pages[PAGE_1]
        /\ \A p \in 1..image.pages[PAGE_1] : p \in Pages
    <2>1. image.pages[PAGE_1] \in Pages
      BY <1>1 DEF Sizes
    <2> QED  BY <2>1, FirstPage, PagesAre
  <1>4. DbSize = image.pages[PAGE_1]
    BY <1>2, <1>3 DEF DbSize
  <1>5. \A p \in Pages : image.pages[p] \in Content
    BY <1>1, TypeParts, GhostFacts
  <1>6. \A p \in Pages \ dirty_pages : PageSeen(p) = ContentUpTo(max_frame, p)
    BY <1>1 DEF CacheInv, PageSeen
  <1>7. dirty_pages \subseteq 1..image.pages[PAGE_1]
    BY <1>1 DEF DirtyInv
  <1> QED  BY <1>2, <1>3, <1>4, <1>5, <1>6, <1>7

LEMMA CommitFrames ==
    ASSUME ImageInv, tx_state = "Write", CommitDirtyPages
    PROVE  /\ LogTypes' /\ shared_max' <= Len(frames') /\ max_frame' = shared_max'
           /\ \A p \in Pages : TopOf(frame_cache'[p]) <= shared_max'
           /\ \A p \in Pages : ContentUpTo(shared_max, p)' = PageSeen(p)
  <1> DEFINE D == dirty_pages
             n == Cardinality(D)
             r(p) == Cardinality(D \intersect 1..p)
             new == [i \in 1..n |-> LET p == CHOOSE p \in D : r(p) = i
                                    IN  [page |-> p, ver |-> PageSeen(p)]]
  <1>0. LogTypes /\ LogInv /\ tx_state # "None" /\ CacheTypes
    BY TypeParts DEF ImageInv
  <1>1. /\ shared_max + Len(new) <= MaxFrames
        /\ frames' = SubSeq(frames, 1, shared_max) \o new
        /\ frame_cache' = [p \in Pages |-> IF p \in D THEN Append(frame_cache[p], shared_max + r(p))
                                           ELSE frame_cache[p]]
        /\ shared_max' = shared_max + Len(new) /\ max_frame' = shared_max'
    BY DEF CommitDirtyPages
  <1>2. /\ n \in Nat
        /\ \A p \in D : r(p) \in 1..n
        /\ \A p, q \in D : r(p) = r(q) => p = q
        /\ \A i \in 1..n : \E p \in D : r(p) = i
    <2>1. MaxPages \in Nat /\ D \subseteq 1..MaxPages
      BY <1>0, SizeAssumption DEF CacheTypes, Pages
    <2> QED  BY <2>1, Ranks
  <1> HIDE DEF n, r
  <1>3. \A i \in 1..n : (CHOOSE p \in D : r(p) = i) \in D /\ r(CHOOSE p \in D : r(p) = i) = i
    BY <1>2
  <1>4. \A p \in D : (CHOOSE q \in D : r(q) = r(p)) = p
    BY <1>2, <1>3
  <1>5. \A p \in D : p \in Pages /\ PageSeen(p) \in Content
    BY <1>0, SeenPages
  <1>6. /\ new \in Seq(PageImage) /\ Len(new) = n
        /\ \A p \in D : new[r(p)] = [page |-> p, ver |-> PageSeen(p)]
    <2>1. ASSUME NEW i \in 1..n  PROVE new[i] \in PageImage
      <3>1. PICK p \in D : p = (CHOOSE q \in D : r(q) = i)
        BY <1>3, <2>1
      <3>2. new[i] = [page |-> p, ver |-> PageSeen(p)]
        BY <2>1, <3>1
      <3> QED  BY <1>5, <3>1, <3>2 DEF PageImage
    <2>2. ASSUME NEW p \in D  PROVE new[r(p)] = [page |-> p, ver |-> PageSeen(p)]
      BY <1>2, <1>4, <2>2
    <2>3. DOMAIN new = 1..n
      OBVIOUS
    <2>4. new = [i \in 1..n |-> new[i]]
      OBVIOUS
    <2> HIDE DEF new
    <2>5. new \in Seq(PageImage)
      BY <1>2, <2>1, <2>3, <2>4
    <2>6. Len(new) = n
      BY <1>2, <2>3, <2>5
    <2> QED  BY <2>2, <2>5, <2>6
  <1> HIDE DEF new
  <1>7. /\ frames \in Seq(PageImage) /\ shared_max \in Nat /\ shared_max <= Len(frames)
        /\ Len(frames) \in Nat /\ DOMAIN frames = 1..Len(frames) /\ max_frame \in Nat
        /\ shared_max <= max_frame /\ max_frame <= Len(frames)
        /\ \A p \in Pages : frame_cache[p] \in Seq(FrameNumber)
        /\ \A p \in Pages \ D : TopOf(frame_cache[p]) <= shared_max
        /\ MaxFrames \in Nat
    BY <1>0, LogFacts, LimitAssumption DEF LogInv
  <1>8. /\ frames' \in Seq(PageImage) /\ Len(frames') = shared_max + n
        /\ \A k \in 1..shared_max : frames'[k] = frames[k]
        /\ \A i \in 1..n : frames'[shared_max + i] = new[i]
    <2>1. PICK old : old = SubSeq(frames, 1, shared_max)
      OBVIOUS
    <2>2. old \in Seq(PageImage) /\ Len(old) = shared_max /\ \A k \in 1..shared_max : old[k] = frames[k]
      BY <1>7, <2>1
    <2>3. frames' = old \o new
      BY <1>1, <2>1
    <2>4. frames' \in Seq(PageImage)
      BY <1>6, <2>2, <2>3
    <2>5. IsSeq(old) /\ IsSeq(new)
      BY <1>6, <2>2 DEF IsSeq
    <2>6. /\ Len(frames') = Len(old) + Len(new)
          /\ \A k \in 1..Len(old) : frames'[k] = old[k]
          /\ \A i \in 1..Len(new) : frames'[Len(old) + i] = new[i]
      BY <2>3, <2>5, SeqConcat
    <2> QED  BY <1>6, <2>2, <2>4, <2>6
  <1>9. shared_max' = shared_max + n /\ shared_max' \in 0..MaxFrames
    BY <1>1, <1>2, <1>6, <1>7
  <1>10. ASSUME NEW p \in D
         PROVE  /\ frame_cache'[p] = Append(frame_cache[p], shared_max + r(p))
                /\ shared_max + r(p) \in 1..MaxFrames /\ shared_max + r(p) \in FrameNumber
                /\ shared_max + r(p) <= shared_max' /\ shared_max + r(p) \in 1..Len(frames')
    <2>1. frame_cache'[p] = Append(frame_cache[p], shared_max + r(p))
      BY <1>1, <1>5, <1>10
    <2>2. r(p) \in 1..n
      BY <1>2
    <2> QED  BY <1>2, <1>7, <1>8, <1>9, <2>1, <2>2 DEF FrameNumber
  <1>11. \A p \in Pages \ D : frame_cache'[p] = frame_cache[p]
    BY <1>1
  <1>12. LogTypes'
    <2>1. \A p \in Pages : frame_cache'[p] \in Seq(1..MaxFrames)
      <3>1. ASSUME NEW p \in D  PROVE frame_cache'[p] \in Seq(1..MaxFrames)
        <4>1. frame_cache[p] \in Seq(1..MaxFrames)
          BY <1>0, <1>5 DEF LogTypes
        <4>2. PICK x \in 1..MaxFrames : frame_cache'[p] = Append(frame_cache[p], x)
          BY <1>10, <3>1
        <4> QED  BY <4>1, <4>2
      <3>2. ASSUME NEW p \in Pages \ D  PROVE frame_cache'[p] \in Seq(1..MaxFrames)
        BY <1>0, <1>11 DEF LogTypes
      <3> QED  BY <3>1, <3>2
    <2>2. frame_cache' = [p \in Pages |-> frame_cache'[p]]
      BY <1>1
    <2>3. frame_cache' \in [Pages -> Seq(1..MaxFrames)]
      BY <2>1, <2>2
    <2> QED  BY <1>1, <1>8, <1>9, <2>3 DEF LogTypes
  <1>13. ASSUME NEW p \in D
         PROVE  TopOf(frame_cache'[p]) = shared_max + r(p)
                /\ LatestOf(frame_cache'[p], shared_max') = shared_max + r(p)
    <2>1. frame_cache[p] \in Seq(FrameNumber) /\ shared_max' \in Nat
      BY <1>5, <1>7, <1>9
    <2> QED  BY <1>10, <2>1, AppendFrame
  <1>14. ASSUME NEW p \in Pages \ D
         PROVE  /\ LatestOf(frame_cache'[p], shared_max') = TopOf(frame_cache[p])
                /\ LatestOf(frame_cache[p], max_frame) = TopOf(frame_cache[p])
                /\ TopOf(frame_cache[p]) \in 0..shared_max
    <2>1. frame_cache[p] \in Seq(FrameNumber) /\ TopOf(frame_cache[p]) <= shared_max
          /\ frame_cache'[p] = frame_cache[p]
      BY <1>7, <1>11
    <2>2. LatestOf(frame_cache[p], shared_max) = TopOf(frame_cache[p])
      BY <1>7, <2>1, LatestIsTop
    <2>3. TopOf(frame_cache[p]) \in 0..shared_max
      BY <1>7, <2>1, <2>2, LatestRange
    <2>4. TopOf(frame_cache[p]) <= max_frame /\ TopOf(frame_cache[p]) <= shared_max' /\ shared_max' \in Nat
      BY <1>2, <1>7, <1>9, <2>3
    <2> QED  BY <1>7, <2>1, <2>3, <2>4, LatestIsTop
  <1>15. ASSUME NEW p \in D  PROVE ContentUpTo(shared_max, p)' = PageSeen(p)
    <2> DEFINE f == shared_max + r(p)
    <2>1. LatestOf(frame_cache'[p], shared_max') = f /\ f # 0 /\ f \in DOMAIN frames'
      <3>1. DOMAIN frames' = 1..Len(frames')
        BY <1>8
      <3> QED  BY <1>10, <1>13, <1>15, <3>1 DEF FrameNumber
    <2>2. frames'[f] = [page |-> p, ver |-> PageSeen(p)]
      <3>1. r(p) \in 1..n
        BY <1>2
      <3> QED  BY <1>6, <1>8, <3>1
    <2> HIDE DEF f
    <2>3. frames'[f].page = p /\ frames'[f].ver = PageSeen(p)
      BY <2>2
    <2>4. ContentUpTo(shared_max, p)' = ContentOf(frames', frame_cache'[p], shared_max', p)
      BY ContentIs
    <2> QED  BY <2>1, <2>3, <2>4 DEF ContentOf
  <1>16. ASSUME NEW p \in Pages \ D  PROVE ContentUpTo(shared_max, p)' = PageSeen(p)
    <2>1. PageSeen(p) = ContentUpTo(max_frame, p)
      BY <1>0, SeenPages
    <2>2. \A k \in 1..shared_max : k \in DOMAIN frames /\ k \in DOMAIN frames' /\ frames'[k] = frames[k]
      <3>1. DOMAIN frames' = 1..shared_max + n
        BY <1>8
      <3> QED  BY <1>2, <1>7, <1>8, <3>1, SMTT(30)
    <2>3. ContentUpTo(shared_max, p)' = ContentUpTo(max_frame, p)
      BY <1>7, <1>14, <2>2, ContentKept
    <2> QED  BY <2>1, <2>3
  <1>17. \A p \in Pages : TopOf(frame_cache'[p]) <= shared_max'
    <2>1. ASSUME NEW p \in Pages \ D  PROVE TopOf(frame_cache'[p]) <= shared_max'
      BY <1>2, <1>7, <1>9, <1>11, <1>14, <2>1
    <2> QED  BY <1>10, <1>13, <2>1
  <1>18. shared_max' <= Len(frames')
    BY <1>2, <1>7, <1>8, <1>9
  <1> QED  BY <1>1, <1>12, <1>15, <1>16, <1>17, <1>18

LEMMA CommitLog ==
    ASSUME ImageInv, tx_state = "Write", CommitDirtyPages, tx_state' = "None"
    PROVE  /\ LogTypes' /\ CacheTypes' /\ LogInv' /\ CacheInv' /\ CommittedIsShared'
           /\ committed' \in [Pages -> Content] /\ committed'[PAGE_1] \in Pages
  <1>1. /\ LogTypes' /\ shared_max' <= Len(frames') /\ max_frame' = shared_max'
        /\ \A p \in Pages : TopOf(frame_cache'[p]) <= shared_max'
        /\ \A p \in Pages : ContentUpTo(shared_max, p)' = PageSeen(p)
    BY CommitFrames
  <1>2. /\ cache' = [p \in Pages |-> [cache[p] EXCEPT !.dirty = FALSE, !.restored = FALSE]]
        /\ dirty_pages' = {} /\ committed' = image.pages
    BY DEF CommitDirtyPages
  <1>3. TypeOK /\ Sizes /\ CacheTypes /\ GhostTypes
    BY TypeParts DEF ImageInv
  <1>4. committed' \in [Pages -> Content] /\ committed'[PAGE_1] \in Pages
    BY <1>2, <1>3, GhostFacts DEF Sizes
  <1>5. ASSUME NEW p \in Pages
        PROVE  /\ cache'[p] \in [used : BOOLEAN, ver : Content, dirty : BOOLEAN, restored : BOOLEAN]
               /\ cache'[p].used = cache[p].used /\ cache'[p].ver = cache[p].ver
               /\ cache'[p].dirty = FALSE /\ cache'[p].restored = FALSE
    <2>1. cache[p] \in [used : BOOLEAN, ver : Content, dirty : BOOLEAN, restored : BOOLEAN]
      BY <1>3 DEF CacheTypes
    <2>2. cache'[p] = [cache[p] EXCEPT !.dirty = FALSE, !.restored = FALSE]
      BY <1>2
    <2> QED  BY <2>1, <2>2
  <1>6. CacheTypes'
    <2>1. cache' = [p \in Pages |-> cache'[p]]
      BY <1>2
    <2> QED  BY <1>2, <1>5, <2>1 DEF CacheTypes
  <1>7. CacheInv'
    <2>1. ASSUME NEW p \in Pages, cache'[p].used  PROVE cache'[p].ver = ContentUpTo(max_frame, p)'
      <3>1. cache'[p].ver = PageSeen(p)
        BY <1>5, <2>1 DEF PageSeen
      <3>2. ContentUpTo(max_frame, p)' = ContentUpTo(shared_max, p)'
        BY <1>1
      <3> QED  BY <1>1, <3>1, <3>2
    <2> QED  BY <1>5, <2>1 DEF CacheInv
  <1>8. LogInv'
    <2>1. shared_max' \in Nat
      BY <1>1, LimitAssumption DEF LogTypes
    <2>2. max_frame' <= shared_max' /\ max_frame' <= Len(frames') /\ shared_max' <= Len(frames')
      BY <1>1, <2>1
    <2>3. \A p \in Pages \ dirty_pages' : TopOf(frame_cache'[p]) <= shared_max'
      BY <1>1
    <2>4. tx_state' # "Write"
      OBVIOUS
    <2> QED  BY <1>2, <2>2, <2>3, <2>4, Zenon DEF LogInv
  <1>9. CommittedIsShared'
    <2>1. \A p \in 1..image.pages[PAGE_1] : p \in Pages /\ PageSeen(p) = image.pages[p]
      BY SeenPages
    <2> QED  BY <1>1, <1>2, <2>1 DEF CommittedIsShared
  <1> QED  BY <1>1, <1>4, <1>6, <1>7, <1>8, <1>9

(* The ends of a transaction.                                               *)

LEMMA EndWritten ==
    ASSUME ImageInv, NestInv', tx_state = "Write",
           CommitDirtyPages \/ (RollbackWrites /\ committed' = committed),
           ClearSavepoints, EndTransaction, image' = [pages |-> committed', fk |-> 0],
           running' = FALSE, in_use' \in BOOLEAN, fk' \in Fks, stmt_fk' \in Fks, writes' = writes
    PROVE  ImageInv'
  <1>1. tx_state' = "None" /\ auto_commit' = TRUE /\ savepoints' = <<>> /\ subjournal' = <<>> /\ marks' = <<>>
    BY DEF EndTransaction, ClearSavepoints
  <1>2. ConnTypes'
    BY <1>1 DEF ConnTypes
  <1>3. /\ LogTypes' /\ CacheTypes' /\ LogInv' /\ CacheInv' /\ CommittedIsShared'
        /\ committed' \in [Pages -> Content] /\ committed'[PAGE_1] \in Pages
    <2>1. CASE CommitDirtyPages
      BY <1>1, <2>1, CommitLog
    <2>2. CASE RollbackWrites /\ committed' = committed
      <3>1. committed \in [Pages -> Content] /\ committed[PAGE_1] \in Pages
        BY TypeParts DEF ImageInv, GhostTypes, Sizes
      <3> QED  BY <1>1, <2>2, <3>1, RollbackLog
    <2> QED  BY <2>1, <2>2
  <1>4. writes' \in 0..MaxWrites
    BY DEF ImageInv, Control
  <1> QED  BY <1>1, <1>2, <1>3, <1>4, Ended

(* Nothing was written: the log and the cache stay.                         *)
LEMMA EndUnwritten ==
    ASSUME ImageInv, NestInv', tx_state # "Write", UNCHANGED <<log, cache, dirty_pages, committed>>,
           ClearSavepoints, EndTransaction, image' = [pages |-> committed', fk |-> 0],
           running' = FALSE, in_use' \in BOOLEAN, fk' \in Fks, stmt_fk' \in Fks, writes' = writes
    PROVE  ImageInv'
  <1>1. tx_state' = "None" /\ auto_commit' = TRUE /\ savepoints' = <<>> /\ subjournal' = <<>> /\ marks' = <<>>
    BY DEF EndTransaction, ClearSavepoints
  <1>2. ConnTypes'
    BY <1>1 DEF ConnTypes
  <1>3. /\ frames' = frames /\ frame_cache' = frame_cache /\ shared_max' = shared_max
        /\ max_frame' = max_frame /\ cache' = cache /\ dirty_pages' = dirty_pages /\ committed' = committed
    BY DEF log
  <1>4. /\ LogTypes /\ CacheTypes /\ LogInv /\ CacheInv /\ CommittedIsShared
        /\ committed \in [Pages -> Content] /\ committed[PAGE_1] \in Pages
    BY TypeParts DEF ImageInv, GhostTypes, Sizes
  <1>5. LogTypes' /\ CacheTypes'
    BY <1>3, <1>4 DEF LogTypes, CacheTypes
  <1>6. LogInv'
    BY <1>1, <1>3, <1>4 DEF LogInv
  <1>7. \A h, p : ContentUpTo(h, p)' = ContentUpTo(h, p)
    BY <1>3, ContentUnchanged
  <1>8. CacheInv' /\ CommittedIsShared'
    BY <1>3, <1>4, <1>7 DEF CacheInv, CommittedIsShared
  <1>9. writes' \in 0..MaxWrites
    BY DEF ImageInv, Control
  <1> QED  BY <1>1, <1>2, <1>3, <1>4, <1>5, <1>6, <1>8, <1>9, Ended

-----------------------------------------------------------------------------
(* Frames of other connections and spilled pages.                           *)

LEMMA CachedFacts ==
    ASSUME NEW fc \in [Pages -> Seq(1..MaxFrames)], NEW p \in Pages, NEW n \in 1..MaxFrames,
           NEW u, u = Cached(fc, p, n)
    PROVE  /\ u \in [Pages -> Seq(1..MaxFrames)]
           /\ \A q \in Pages : q # p => u[q] = fc[q]
           /\ TopOf(u[p]) = n
           /\ \A h \in Nat : LatestOf(u[p], h) = IF n <= h THEN n ELSE LatestOf(fc[p], h)
  <1>1. fc[p] \in Seq(1..MaxFrames) /\ u[p] = Append(fc[p], n)
    BY DEF Cached
  <1>2. Append(fc[p], n) \in Seq(1..MaxFrames)
    BY <1>1
  <1>3. u = [fc EXCEPT ![p] = Append(fc[p], n)]
    BY DEF Cached
  <1>4. /\ u \in [Pages -> Seq(1..MaxFrames)]
        /\ \A q \in Pages : q # p => u[q] = fc[q]
    BY <1>2, <1>3
  <1>5. 1..MaxFrames \subseteq FrameNumber /\ n \in FrameNumber
    BY LimitAssumption DEF FrameNumber
  <1>6. fc[p] \in Seq(FrameNumber)
    BY <1>1, <1>5, SeqWider, Zenon
  <1> QED  BY <1>1, <1>4, <1>5, <1>6, AppendFrame

LEMMA ContentNewest ==
    ASSUME NEW q, NEW h, NEW f, LatestOf(frame_cache'[q], h) = f, f # 0, f \in DOMAIN frames',
           frames'[f].page = q
    PROVE  ContentUpTo(h, q)' = frames'[f].ver
  BY ContentIs DEF ContentOf

LEMMA FramesAppended ==
    ASSUME frames \in Seq(PageImage), NEW m \in 0..Len(frames), NEW new \in Seq(PageImage),
           frames' = SubSeq(frames, 1, m) \o new
    PROVE  /\ frames' \in Seq(PageImage) /\ Len(frames') = m + Len(new)
           /\ DOMAIN frames' = 1..m + Len(new)
           /\ \A k \in 1..m : frames'[k] = frames[k] /\ k \in DOMAIN frames /\ k \in DOMAIN frames'
           /\ \A i \in 1..Len(new) : frames'[m + i] = new[i] /\ m + i \in DOMAIN frames'
  <1>1. PICK old : old = SubSeq(frames, 1, m)
    OBVIOUS
  <1>2. old \in Seq(PageImage) /\ Len(old) = m /\ \A k \in 1..m : old[k] = frames[k]
    BY <1>1
  <1>3. frames' = old \o new
    BY <1>1
  <1>4. frames' \in Seq(PageImage)
    BY <1>2, <1>3
  <1>5. IsSeq(old) /\ IsSeq(new)
    BY <1>2 DEF IsSeq
  <1>6. /\ Len(frames') = Len(old) + Len(new)
        /\ \A k \in 1..Len(old) : frames'[k] = old[k]
        /\ \A i \in 1..Len(new) : frames'[Len(old) + i] = new[i]
    <2>1. PICK u : u = frames'
      OBVIOUS
    <2>2. PICK t : t = new
      OBVIOUS
    <2>3. IsSeq(t) /\ u = old \o t
      BY <1>3, <1>5, <2>1, <2>2
    <2>4. /\ Len(u) = Len(old) + Len(t)
          /\ \A k \in 1..Len(old) : u[k] = old[k]
          /\ \A i \in 1..Len(t) : u[Len(old) + i] = t[i]
      BY <1>5, <2>3, SeqConcat
    <2> QED  BY <2>1, <2>2, <2>4
  <1>7. Len(new) \in Nat /\ m \in Nat /\ m <= Len(frames) /\ Len(frames) \in Nat /\ DOMAIN frames = 1..Len(frames)
    OBVIOUS
  <1>8. DOMAIN frames' = 1..Len(frames')
    BY <1>4
  <1>9. \A k \in 1..m : k \in 1..Len(frames) /\ k \in 1..m + Len(new)
    BY <1>7
  <1>10. \A i \in 1..Len(new) : m + i \in 1..m + Len(new)
    BY <1>7
  <1> QED  BY <1>2, <1>4, <1>6, <1>7, <1>8, <1>9, <1>10

LEMMA OtherFrames ==
    ASSUME ImageInv, NEW p \in Pages, OtherCommit(p)
    PROVE  /\ LogTypes' /\ shared_max < shared_max' /\ shared_max' <= Len(frames')
           /\ \A k \in 1..shared_max : k \in DOMAIN frames /\ k \in DOMAIN frames' /\ frames'[k] = frames[k]
           /\ \A q \in Pages : /\ TopOf(frame_cache'[q]) <= shared_max'
                               /\ \A h \in 0..shared_max :
                                    LatestOf(frame_cache'[q], h) = LatestOf(frame_cache[q], h)
           /\ committed' \in [Pages -> Content] /\ committed'[PAGE_1] \in Pages
           /\ CommittedIsShared'
  <1> DEFINE size == committed[PAGE_1]
             v == MaxPages + writes + 1
             new == IF p <= size THEN <<[page |-> p, ver |-> v]>>
                    ELSE <<[page |-> PAGE_1, ver |-> p], [page |-> p, ver |-> v]>>
             last == shared_max + Len(new)
  <1>1. /\ tx_state # "Write" /\ p # PAGE_1 /\ p <= size + 1 /\ writes < MaxWrites /\ last <= MaxFrames
        /\ writes' = writes + 1 /\ frames' = SubSeq(frames, 1, shared_max) \o new
        /\ frame_cache' = IF p <= size THEN Cached(frame_cache, p, last)
                          ELSE Cached(Cached(frame_cache, PAGE_1, last - 1), p, last)
        /\ shared_max' = last
        /\ committed' = [committed EXCEPT ![p] = MaxPages + writes', ![PAGE_1] = Max({size, p})]
        /\ max_frame' = max_frame
    BY DEF OtherCommit
  <1>2. TypeOK /\ LogTypes /\ GhostTypes /\ Sizes /\ LogInv /\ CommittedIsShared /\ Control
    BY TypeParts DEF ImageInv
  <1>3. /\ size \in Pages /\ committed \in [Pages -> Content] /\ size \in Nat /\ p \in Nat
        /\ writes \in Nat /\ MaxWrites \in Nat /\ MaxPages \in Nat /\ p <= MaxPages /\ MaxFrames \in Nat
        /\ v \in Content /\ p \in Content /\ MaxPages + writes' = v /\ PAGE_1 \in Pages
    <2>1. /\ size \in Pages /\ committed \in [Pages -> Content] /\ PAGE_1 \in Pages /\ writes \in 0..MaxWrites
      BY <1>2, PagesAre DEF Sizes, GhostTypes, Control
    <2>2. size \in Nat /\ p \in Nat /\ p <= MaxPages /\ MaxPages \in Nat
      BY <2>1, PagesAre
    <2>3. MaxWrites \in Nat /\ MaxFrames \in Nat
      BY LimitAssumption
    <2>4. v \in Content /\ p \in Content /\ MaxPages + writes' = v
      BY <1>1, <2>1, <2>2, <2>3 DEF Content
    <2> QED  BY <2>1, <2>2, <2>3, <2>4
  <1>4. /\ frames \in Seq(PageImage) /\ shared_max \in 0..Len(frames) /\ max_frame \in 0..MaxFrames
        /\ shared_max \in Nat /\ Len(frames) \in Nat
        /\ frame_cache \in [Pages -> Seq(1..MaxFrames)]
        /\ \A q \in Pages : frame_cache[q] \in Seq(FrameNumber) /\ TopOf(frame_cache[q]) <= shared_max
    BY <1>1, <1>2, LogFacts DEF LogInv, LogTypes
  <1>5. new \in Seq(PageImage) /\ Len(new) = IF p <= size THEN 1 ELSE 2
    <2>1. /\ [page |-> p, ver |-> v] \in PageImage
          /\ [page |-> PAGE_1, ver |-> p] \in PageImage
      BY <1>3 DEF PageImage
    <2>2. ASSUME NEW x \in PageImage, NEW y \in PageImage
          PROVE  /\ <<x>> \in Seq(PageImage) /\ Len(<<x>>) = 1
                 /\ <<x, y>> \in Seq(PageImage) /\ Len(<<x, y>>) = 2
      OBVIOUS
    <2> QED  BY <2>1, <2>2
  <1>6. /\ frames' \in Seq(PageImage) /\ Len(frames') = last /\ last \in Nat /\ shared_max < last
        /\ \A k \in 1..shared_max : frames'[k] = frames[k] /\ k \in DOMAIN frames /\ k \in DOMAIN frames'
        /\ \A i \in 1..Len(new) : frames'[shared_max + i] = new[i] /\ shared_max + i \in DOMAIN frames'
    BY <1>1, <1>4, <1>5, FramesAppended
  <1>7. committed'[p] = v /\ committed'[PAGE_1] = (IF p <= size THEN size ELSE p)
        /\ committed' \in [Pages -> Content] /\ committed'[PAGE_1] \in Pages
        /\ \A q \in Pages : q # p /\ q # PAGE_1 => committed'[q] = committed[q]
    <2>1. Max({size, p}) = IF p <= size THEN size ELSE p
      <3>1. {size, p} \subseteq Nat /\ {size, p} # {} /\ \A x \in {size, p} : x <= size + p
        BY <1>3
      <3>2. Max({size, p}) \in {size, p} /\ \A y \in {size, p} : Max({size, p}) >= y
        BY <1>3, <3>1, MaxOf
      <3> QED  BY <1>3, <3>2
    <2>2. size \in Content
      BY <1>3
    <2> QED  BY <1>1, <1>3, <2>1, <2>2
  <1> HIDE DEF new, last, v
  <1>8. CASE p <= size
    <2>1. last = shared_max + 1 /\ last \in 1..MaxFrames /\ new = <<[page |-> p, ver |-> v]>>
      BY <1>1, <1>4, <1>5, <1>8 DEF last, new
    <2>2. /\ frame_cache' \in [Pages -> Seq(1..MaxFrames)]
          /\ \A q \in Pages : q # p => frame_cache'[q] = frame_cache[q]
          /\ TopOf(frame_cache'[p]) = last
          /\ \A h \in Nat : LatestOf(frame_cache'[p], h) = IF last <= h THEN last ELSE LatestOf(frame_cache[p], h)
      BY <1>1, <1>4, <1>8, <2>1, CachedFacts
    <2>3. frames'[last].page = p /\ frames'[last].ver = v /\ last \in DOMAIN frames' /\ last # 0
      BY <1>5, <1>6, <1>8, <2>1
    <2>4. ContentUpTo(shared_max, p)' = v
      <3>1. LatestOf(frame_cache'[p], shared_max') = last
        BY <1>1, <1>6, <2>2
      <3> QED  BY <2>3, <3>1, ContentNewest
    <2>5. \A q \in Pages : q # p => frame_cache'[q] = frame_cache[q]
      BY <2>2
    <2>6. LogTypes'
      BY <1>1, <1>4, <1>6, <2>1, <2>2 DEF LogTypes
    <2>7. ASSUME NEW q \in Pages
          PROVE  /\ TopOf(frame_cache'[q]) <= shared_max'
                 /\ \A h \in 0..shared_max : LatestOf(frame_cache'[q], h) = LatestOf(frame_cache[q], h)
      <3>1. CASE q = p
        BY <1>1, <1>4, <1>6, <2>2, <3>1
      <3>2. CASE q # p
        <4>1. TopOf(frame_cache[q]) \in Nat
          BY <1>4, LatestIsTop, LatestRange
        <4> QED  BY <1>1, <1>4, <1>6, <2>2, <3>2, <4>1
      <3> QED  BY <3>1, <3>2
    <2>8. ASSUME NEW q \in 1..size, q # p  PROVE ContentUpTo(shared_max, q)' = committed[q]
      <3>1. q \in Pages
        BY <1>3, <2>8, PagesAre
      <3>2. LatestOf(frame_cache'[q], shared_max') = LatestOf(frame_cache[q], shared_max)
            /\ LatestOf(frame_cache[q], shared_max) \in 0..shared_max
        <4>1. TopOf(frame_cache[q]) <= shared_max /\ frame_cache[q] \in Seq(FrameNumber) /\ frame_cache'[q] = frame_cache[q]
          BY <1>4, <2>2, <2>8, <3>1
        <4>2. LatestOf(frame_cache[q], shared_max) = TopOf(frame_cache[q])
              /\ LatestOf(frame_cache[q], shared_max) \in 0..shared_max
          BY <1>4, <4>1, LatestIsTop, LatestRange
        <4>3. TopOf(frame_cache[q]) <= last
          BY <1>4, <1>6, <4>2
        <4> QED  BY <1>1, <1>6, <4>1, <4>2, <4>3, LatestIsTop
      <3>3. ContentUpTo(shared_max, q)' = ContentUpTo(shared_max, q)
        BY <1>4, <1>6, <3>2, ContentKept
      <3> QED  BY <1>2, <2>8, <3>3 DEF CommittedIsShared
    <2>9. CommittedIsShared'
      <3>1. ASSUME NEW q \in 1..size  PROVE ContentUpTo(shared_max, q)' = committed'[q]
        <4>1. q \in Pages
          BY <1>3, <3>1, PagesAre
        <4>2. CASE q = p
          BY <1>7, <2>4, <4>2
        <4>3. CASE q # p
          BY <1>7, <1>8, <2>8, <3>1, <4>1, <4>3
        <4> QED  BY <4>2, <4>3
      <3> QED  BY <1>7, <1>8, <3>1 DEF CommittedIsShared
    <2>20. shared_max < shared_max' /\ shared_max' <= Len(frames')
      BY <1>1, <1>6
    <2> QED  BY <1>6, <1>7, <2>20, <2>6, <2>7, <2>9
  <1>9. CASE ~(p <= size)
    <2>0. p = size + 1
      BY <1>1, <1>3, <1>9
    <2>1. /\ last = shared_max + 2 /\ last \in 1..MaxFrames /\ last - 1 \in 1..MaxFrames
          /\ last - 1 = shared_max + 1 /\ last - 1 < last
          /\ new = <<[page |-> PAGE_1, ver |-> p], [page |-> p, ver |-> v]>>
      <3>1. Len(new) = 2 /\ new = <<[page |-> PAGE_1, ver |-> p], [page |-> p, ver |-> v]>>
        BY <1>5, <1>9 DEF new
      <3>2. last = shared_max + 2 /\ last <= MaxFrames
        BY <1>1, <3>1 DEF last
      <3> QED  BY <1>3, <1>4, <3>1, <3>2
    <2>2. PICK mid : mid = Cached(frame_cache, PAGE_1, last - 1)
      OBVIOUS
    <2> DEFINE lm == last - 1
    <2>2a. lm \in 1..MaxFrames /\ lm = shared_max + 1 /\ lm < last /\ lm \in Nat
           /\ mid = Cached(frame_cache, PAGE_1, lm)
      BY <1>4, <2>1, <2>2
    <2> HIDE DEF lm
    <2>3. /\ mid \in [Pages -> Seq(1..MaxFrames)]
          /\ \A q \in Pages : q # PAGE_1 => mid[q] = frame_cache[q]
          /\ TopOf(mid[PAGE_1]) = lm
          /\ \A h \in Nat : LatestOf(mid[PAGE_1], h) = IF lm <= h THEN lm ELSE LatestOf(frame_cache[PAGE_1], h)
      <3>1. PICK one \in Pages : one = PAGE_1
        BY <1>3
      <3>2. mid = Cached(frame_cache, one, lm)
        BY <2>2a, <3>1
      <3>3. /\ mid \in [Pages -> Seq(1..MaxFrames)]
            /\ \A q \in Pages : q # one => mid[q] = frame_cache[q]
            /\ TopOf(mid[one]) = lm
            /\ \A h \in Nat : LatestOf(mid[one], h) = IF lm <= h THEN lm ELSE LatestOf(frame_cache[one], h)
        <4>1. frame_cache \in [Pages -> Seq(1..MaxFrames)] /\ lm \in 1..MaxFrames
          BY <1>4, <2>2a
        <4> QED  BY <3>2, <4>1, CachedFacts
      <3> QED  BY <3>1, <3>3
    <2>4. frame_cache' = Cached(mid, p, last)
      BY <1>1, <1>9, <2>2
    <2>5. /\ frame_cache' \in [Pages -> Seq(1..MaxFrames)]
          /\ \A q \in Pages : q # p => frame_cache'[q] = mid[q]
          /\ TopOf(frame_cache'[p]) = last
          /\ \A h \in Nat : LatestOf(frame_cache'[p], h) = IF last <= h THEN last ELSE LatestOf(mid[p], h)
      <3>1. mid \in [Pages -> Seq(1..MaxFrames)] /\ last \in 1..MaxFrames
        BY <2>1, <2>3
      <3>2. PICK m : m = last
        OBVIOUS
      <3>3. frame_cache' = Cached(mid, p, m) /\ m \in 1..MaxFrames
        BY <2>4, <3>1, <3>2
      <3>4. /\ frame_cache' \in [Pages -> Seq(1..MaxFrames)]
            /\ \A q \in Pages : q # p => frame_cache'[q] = mid[q]
            /\ TopOf(frame_cache'[p]) = m
            /\ \A h \in Nat : LatestOf(frame_cache'[p], h) = IF m <= h THEN m ELSE LatestOf(mid[p], h)
        BY <3>1, <3>3, CachedFacts
      <3> QED  BY <3>2, <3>4
    <2>6. /\ frame_cache'[PAGE_1] = mid[PAGE_1] /\ mid[p] = frame_cache[p]
          /\ \A q \in Pages : q # p /\ q # PAGE_1 => frame_cache'[q] = frame_cache[q]
      BY <1>1, <1>3, <2>3, <2>5
    <2>7. /\ frames'[last].page = p /\ frames'[last].ver = v /\ last \in DOMAIN frames' /\ last # 0
          /\ frames'[lm].page = PAGE_1 /\ frames'[lm].ver = p /\ lm \in DOMAIN frames' /\ lm # 0
      <3>1. 1 \in 1..Len(new) /\ 2 \in 1..Len(new)
        BY <1>5, <1>9
      <3>2. frames'[shared_max + 1] = new[1] /\ frames'[shared_max + 2] = new[2]
            /\ shared_max + 1 \in DOMAIN frames' /\ shared_max + 2 \in DOMAIN frames'
        BY <1>6, <3>1
      <3>3. new[1].page = PAGE_1 /\ new[1].ver = p /\ new[2].page = p /\ new[2].ver = v
        BY <2>1
      <3> QED  BY <1>4, <2>1, <2>2a, <3>2, <3>3
    <2>8. ContentUpTo(shared_max, p)' = v
      <3>1. LatestOf(frame_cache'[p], shared_max') = last
        BY <1>1, <1>6, <2>5
      <3> QED  BY <2>7, <3>1, ContentNewest
    <2>9. ContentUpTo(shared_max, PAGE_1)' = p
      <3>1. LatestOf(frame_cache'[PAGE_1], shared_max') = lm
        BY <1>1, <1>6, <2>2a, <2>3, <2>6
      <3> QED  BY <2>7, <3>1, ContentNewest
    <2>10. LogTypes'
      BY <1>1, <1>4, <1>6, <2>1, <2>5 DEF LogTypes
    <2>11. ASSUME NEW q \in Pages
          PROVE  /\ TopOf(frame_cache'[q]) <= shared_max'
                 /\ \A h \in 0..shared_max : LatestOf(frame_cache'[q], h) = LatestOf(frame_cache[q], h)
      <3>1. CASE q = p
        <4>1. /\ TopOf(frame_cache'[p]) = last /\ last = shared_max' /\ last \in Nat
              /\ shared_max \in Nat /\ shared_max < last
          BY <1>1, <1>4, <1>6, <2>1, <2>5
        <4>2. ASSUME NEW h \in 0..shared_max
              PROVE  LatestOf(frame_cache'[p], h) = LatestOf(frame_cache[p], h)
          <5>1. h \in Nat /\ ~(last <= h)
            BY <4>1, <4>2
          <5> QED  BY <2>5, <2>6, <5>1
        <4> QED  BY <3>1, <4>1, <4>2
      <3>2. CASE q = PAGE_1
        BY <1>1, <1>4, <1>6, <2>2a, <2>3, <2>6, <3>2
      <3>3. CASE q # p /\ q # PAGE_1
        <4>1. TopOf(frame_cache[q]) \in Nat
          BY <1>4, LatestIsTop, LatestRange
        <4> QED  BY <1>1, <1>4, <1>6, <2>6, <3>3, <4>1
      <3> QED  BY <3>1, <3>2, <3>3
    <2>12. ASSUME NEW q \in 1..size, q # PAGE_1  PROVE ContentUpTo(shared_max, q)' = committed[q]
      <3>1. q \in Pages /\ q # p
        BY <1>3, <2>0, <2>12, PagesAre
      <3>2. LatestOf(frame_cache'[q], shared_max') = LatestOf(frame_cache[q], shared_max)
            /\ LatestOf(frame_cache[q], shared_max) \in 0..shared_max
        <4>1. TopOf(frame_cache[q]) <= shared_max /\ frame_cache[q] \in Seq(FrameNumber) /\ frame_cache'[q] = frame_cache[q]
          BY <1>4, <2>6, <2>12, <3>1
        <4>2. LatestOf(frame_cache[q], shared_max) = TopOf(frame_cache[q])
              /\ LatestOf(frame_cache[q], shared_max) \in 0..shared_max
          BY <1>4, <4>1, LatestIsTop, LatestRange
        <4>3. TopOf(frame_cache[q]) <= last
          BY <1>4, <1>6, <4>2
        <4> QED  BY <1>1, <1>6, <4>1, <4>2, <4>3, LatestIsTop
      <3>3. ContentUpTo(shared_max, q)' = ContentUpTo(shared_max, q)
        BY <1>4, <1>6, <3>2, ContentKept
      <3> QED  BY <1>2, <2>12, <3>3 DEF CommittedIsShared
    <2>13. CommittedIsShared'
      <3>1. ASSUME NEW q \in 1..p  PROVE ContentUpTo(shared_max, q)' = committed'[q]
        <4>1. q \in Pages /\ (q = p \/ q \in 1..size)
          BY <1>3, <2>0, <3>1, PagesAre
        <4>2. CASE q = p
          BY <1>7, <2>8, <4>2
        <4>3. CASE q = PAGE_1
          BY <1>7, <1>9, <2>9, <4>3
        <4>4. CASE q # p /\ q # PAGE_1
          BY <1>7, <2>12, <4>1, <4>4
        <4> QED  BY <4>2, <4>3, <4>4
      <3> QED  BY <1>7, <1>9, <3>1 DEF CommittedIsShared
    <2>20. shared_max < shared_max' /\ shared_max' <= Len(frames')
      BY <1>1, <1>6
    <2> QED  BY <1>6, <1>7, <2>20, <2>10, <2>11, <2>13
  <1> QED  BY <1>8, <1>9

(* The facts of an idle stack.                                              *)
LEMMA NoSavepoints ==
    ASSUME NestInv, Depth = 0
    PROVE  Len(subjournal) = 0 /\ savepoints = <<>>
  BY EndBounds DEF NestInv, Depth

LEMMA ImageOther ==
    ASSUME ImageInv, NestInv', Strict, NEW p \in Pages, OtherCommit(p)
    PROVE  ImageInv'
  <1>1. /\ tx_state # "Write" /\ savepoints = <<>> /\ writes < MaxWrites /\ writes' = writes + 1
        /\ max_frame' = max_frame /\ cache' = cache /\ dirty_pages' = dirty_pages
        /\ savepoints' = savepoints /\ subjournal' = subjournal /\ in_use' = in_use
        /\ tx_state' = tx_state /\ auto_commit' = auto_commit /\ running' = running
        /\ fk' = fk /\ stmt_fk' = stmt_fk /\ image' = image /\ marks' = marks
    BY DEF OtherCommit, pager, conn, Strict
  <1>2. /\ LogTypes' /\ shared_max < shared_max' /\ shared_max' <= Len(frames')
        /\ \A k \in 1..shared_max : k \in DOMAIN frames /\ k \in DOMAIN frames' /\ frames'[k] = frames[k]
        /\ \A q \in Pages : /\ TopOf(frame_cache'[q]) <= shared_max'
                            /\ \A h \in 0..shared_max :
                                 LatestOf(frame_cache'[q], h) = LatestOf(frame_cache[q], h)
        /\ committed' \in [Pages -> Content] /\ committed'[PAGE_1] \in Pages
        /\ CommittedIsShared'
    BY OtherFrames
  <1>3. /\ NestInv /\ TypeOK /\ LogTypes /\ CacheTypes /\ StackTypes /\ ConnTypes /\ GhostTypes
        /\ Control /\ Sizes /\ LogInv /\ CacheInv /\ DirtyInv /\ LevelInv /\ Counter /\ SeesItsImage
    BY TypeParts DEF ImageInv
  <1>4. /\ shared_max \in Nat /\ max_frame \in Nat /\ max_frame <= shared_max /\ shared_max' \in Nat
        /\ \A q \in Pages : frame_cache[q] \in Seq(FrameNumber)
        /\ max_frame \in 0..shared_max
    <2>1. shared_max \in Nat /\ max_frame \in Nat /\ \A q \in Pages : frame_cache[q] \in Seq(FrameNumber)
      BY <1>3, LogFacts
    <2>2. max_frame <= shared_max
      BY <1>1, <1>3 DEF LogInv
    <2>3. shared_max' \in Nat
      BY <1>2, LimitAssumption DEF LogTypes
    <2> QED  BY <2>1, <2>2, <2>3
  <1>5. Depth = 0 /\ Depth' = 0 /\ Len(subjournal) = 0 /\ Len(savepoints) = 0 /\ \A i \in 1..0 : FALSE
    BY <1>1, <1>3, EndBounds DEF Depth, NestInv
  <1>6. \A q \in Pages : ContentUpTo(max_frame, q)' = ContentUpTo(max_frame, q)
    <2>1. ASSUME NEW q \in Pages  PROVE ContentUpTo(max_frame, q)' = ContentUpTo(max_frame, q)
      <3>1. LatestOf(frame_cache'[q], max_frame') = LatestOf(frame_cache[q], max_frame)
        BY <1>1, <1>2, <1>4, <2>1
      <3>2. LatestOf(frame_cache[q], max_frame) \in 0..max_frame
        BY <1>4, <2>1, LatestRange
      <3>3. \A k \in 1..max_frame : k \in 1..shared_max
        BY <1>4
      <3> QED  BY <1>2, <1>4, <3>1, <3>2, <3>3, ContentKept
    <2> QED  BY <2>1
  <1>7. TypeOK'
    <2>1. CacheTypes' /\ StackTypes' /\ ConnTypes' /\ GhostTypes'
      BY <1>1, <1>2, <1>3 DEF CacheTypes, StackTypes, ConnTypes, GhostTypes
    <2> QED  BY <1>2, <2>1, TypePartsAfter
  <1>8. Control' /\ Sizes'
    <2>1. writes' \in 0..MaxWrites
      BY <1>1, <1>3, LimitAssumption DEF Control
    <2>2. Control'
      BY <1>1, <1>3, <2>1 DEF Control
    <2>3. Sizes'
      BY <1>1, <1>2, <1>3, <1>5 DEF Sizes, Depth
    <2> QED  BY <2>2, <2>3
  <1>9. LogInv'
    <2>1. max_frame' <= shared_max' /\ dirty_pages' = {} /\ max_frame' <= Len(frames')
      <3>1. Len(frames') \in Nat
        BY <1>2 DEF LogTypes
      <3> QED  BY <1>1, <1>2, <1>3, <1>4, <3>1 DEF LogInv
    <2> QED  BY <1>1, <1>2, <2>1 DEF LogInv
  <1>10. CacheInv'
    BY <1>1, <1>3, <1>6 DEF CacheInv
  <1>11. DirtyInv' /\ Flat' /\ Bitmaps'
    BY <1>1, <1>3, <1>5 DEF DirtyInv, Flat, Bitmaps
  <1>12. SeesItsImage'
    <2>1. \A q \in Pages : PageSeen(q)' = PageSeen(q)
      BY <1>1, <1>6 DEF PageSeen
    <2>2. \A q \in 1..image.pages[PAGE_1] : q \in Pages
      BY <1>3, PagesAre DEF Sizes
    <2> QED  BY <1>1, <1>3, <2>1, <2>2 DEF SeesItsImage
  <1>13. LevelInv'
    <2>1. /\ Now' = 1 /\ Levels' = {1} /\ Img(1)' = image.pages /\ Pos(1)' = 0 /\ Wal(1)' = max_frame
      <3>1. ~(1 <= 0) /\ 1..1 = {1}
        OBVIOUS
      <3> QED  BY <1>1, <1>5, <3>1 DEF Now, Levels, Img, Pos, Wal
    <2>2. LevelOK(1)'
      <3>1. \A q \in Pages : LatestOf(frame_cache'[q], max_frame) <= shared_max'
        <4>1. ASSUME NEW q \in Pages  PROVE LatestOf(frame_cache'[q], max_frame) <= shared_max'
          <5>1. LatestOf(frame_cache'[q], max_frame) = LatestOf(frame_cache[q], max_frame)
            BY <1>2, <1>4, <4>1
          <5>2. LatestOf(frame_cache[q], max_frame) \in 0..max_frame
            BY <1>4, <4>1, LatestRange
          <5> QED  BY <1>2, <1>4, <5>1, <5>2
        <4> QED  BY <4>1
      <3>2. ~(1 <= Depth') /\ ~(Depth' > 0)
        BY <1>5
      <3> QED  BY <1>1, <1>5, <2>1, <3>1, <3>2 DEF LevelOK
    <2>3. \A a \in 1..1 - 1 : FALSE
      OBVIOUS
    <2> QED  BY <2>1, <2>2, <2>3 DEF LevelInv
  <1>14. Counter'
    BY <1>1, <1>3, <1>5 DEF Counter, Control
  <1> QED  BY <1>2, <1>7, <1>8, <1>9, <1>10, <1>11, <1>12, <1>13, <1>14 DEF ImageInv

-----------------------------------------------------------------------------
(* The beginning of a transaction.                                          *)

LEMMA CommittedSize ==
    ASSUME ImageInv
    PROVE  /\ ContentUpTo(shared_max, PAGE_1) = committed[PAGE_1]
           /\ committed[PAGE_1] \in Pages
           /\ \A p \in 1..committed[PAGE_1] : p \in Pages /\ ContentUpTo(shared_max, p) = committed[p]
           /\ tx_state # "Write" /\ max_frame = shared_max => DbSize = committed[PAGE_1]
  <1>1. CommittedIsShared /\ Sizes /\ CacheInv /\ LogInv
    BY DEF ImageInv
  <1>2. committed[PAGE_1] \in Pages
    BY <1>1 DEF Sizes
  <1>3. \A p \in 1..committed[PAGE_1] : p \in Pages /\ ContentUpTo(shared_max, p) = committed[p]
    BY <1>1, <1>2, PagesAre DEF CommittedIsShared
  <1>4. ContentUpTo(shared_max, PAGE_1) = committed[PAGE_1] /\ PAGE_1 \in Pages
    BY <1>2, <1>3, FirstPage
  <1>5. ASSUME tx_state # "Write", max_frame = shared_max  PROVE DbSize = committed[PAGE_1]
    <2>1. dirty_pages = {}
      BY <1>1, <1>5 DEF LogInv
    <2>2. cache[PAGE_1].used => cache[PAGE_1].ver = ContentUpTo(max_frame, PAGE_1)
      BY <1>1, <1>4, <2>1 DEF CacheInv
    <2> QED  BY <1>4, <1>5, <2>2 DEF DbSize, PageSeen
  <1> QED  BY <1>2, <1>3, <1>4, <1>5

LEMMA SnapshotTaken ==
    ASSUME ImageInv, tx_state = "None", TakeSnapshot, frames' = frames, frame_cache' = frame_cache,
           shared_max' = shared_max, dirty_pages' = dirty_pages, committed' = committed, fk' = fk,
           tx_state' \in {"Read", "Write"}
    PROVE  /\ LogTypes' /\ CacheTypes' /\ LogInv' /\ CacheInv' /\ SeesItsImage' /\ CommittedIsShared'
           /\ image' \in Image /\ image'.pages = committed /\ image'.fk = fk /\ max_frame' = shared_max
           /\ MarksAtStart \in Seq(Image) /\ Len(MarksAtStart) = Depth
           /\ \A i \in 1..Depth : MarksAtStart[i] = image'
           /\ dirty_pages = {}
  <1>1. /\ max_frame' = shared_max
        /\ cache' = IF max_frame # shared_max THEN EmptyCache ELSE cache
        /\ image' = [pages |-> committed, fk |-> fk]
    BY DEF TakeSnapshot
  <1>2. /\ LogTypes /\ CacheTypes /\ GhostTypes /\ ConnTypes /\ LogInv /\ CacheInv /\ CommittedIsShared /\ Sizes
        /\ NestInv
    BY TypeParts DEF ImageInv
  <1>3. image' \in Image /\ image'.pages = committed /\ image'.fk = fk
    BY <1>1, <1>2 DEF Image, GhostTypes, ConnTypes
  <1>4. dirty_pages = {} /\ shared_max <= Len(frames) /\ \A p \in Pages : TopOf(frame_cache[p]) <= shared_max
    BY <1>2 DEF LogInv
  <1>5. shared_max \in Nat /\ shared_max <= shared_max
    BY <1>2, LogFacts
  <1>6. LogTypes'
    BY <1>1, <1>2 DEF LogTypes
  <1>7. LogInv'
    BY <1>1, <1>4, <1>5 DEF LogInv
  <1>8. \A h, p : ContentUpTo(h, p)' = ContentUpTo(h, p)
    BY ContentUnchanged
  <1>9. CommittedIsShared'
    BY <1>2, <1>8 DEF CommittedIsShared
  <1>10. CacheTypes' /\ CacheInv'
    <2>1. CASE max_frame # shared_max
      <3>1. cache' = EmptyCache /\ dirty_pages' = {}
        BY <1>1, <1>4, <2>1
      <3> QED  BY <3>1, EmptyCacheOK
    <2>2. CASE max_frame = shared_max
      <3>1. cache' = cache /\ max_frame' = max_frame
        BY <1>1, <2>2
      <3> QED  BY <1>2, <1>8, <3>1 DEF CacheTypes, CacheInv
    <2> QED  BY <2>1, <2>2
  <1>11. SeesItsImage'
    <2>1. \A p \in Pages : PageSeen(p)' = ContentUpTo(shared_max, p)
      <3>1. ASSUME NEW p \in Pages  PROVE PageSeen(p)' = ContentUpTo(shared_max, p)
        <4>1. cache'[p].used => cache'[p].ver = ContentUpTo(max_frame, p)'
          BY <1>4, <1>10, <3>1 DEF CacheInv
        <4>2. ContentUpTo(max_frame, p)' = ContentUpTo(shared_max, p)
          BY <1>1, <1>8
        <4> QED  BY <4>1, <4>2 DEF PageSeen
      <3> QED  BY <3>1
    <2>2. \A p \in 1..committed[PAGE_1] : p \in Pages /\ ContentUpTo(shared_max, p) = committed[p]
      BY CommittedSize
    <2> QED  BY <1>3, <2>1, <2>2 DEF SeesItsImage
  <1>12. /\ MarksAtStart \in Seq(Image) /\ Len(MarksAtStart) = Depth
         /\ \A i \in 1..Depth : MarksAtStart[i] = image'
    <2>1. DOMAIN marks = 1..Depth /\ Depth \in Nat
      <3>1. marks \in Seq(Image) /\ Len(marks) = Depth
        BY <1>2 DEF GhostTypes, Sizes
      <3> QED  BY <3>1
    <2>2. MarksAtStart = [i \in 1..Depth |-> image']
      BY <2>1 DEF MarksAtStart
    <2> QED  BY <1>3, <2>1, <2>2
  <1> QED  BY <1>1, <1>3, <1>4, <1>6, <1>7, <1>9, <1>10, <1>11, <1>12

(* The stack that was opened before the transaction.                        *)
LEMMA StackAtStart ==
    ASSUME ImageInv, tx_state = "None"
    PROVE  /\ Len(subjournal) = 0
           /\ \A i \in 1..Depth : /\ savepoints[i].wal_max = shared_max /\ savepoints[i].bitmap = {}
                                  /\ savepoints[i].db_size = committed[PAGE_1] /\ savepoints[i].fk = fk
                                  /\ savepoints[i].start = 0 /\ savepoints[i].end = 0
           /\ Depth > 0 => max_frame = shared_max
           /\ Depth \in Nat /\ DOMAIN savepoints = 1..Depth
  <1>1. NestInv /\ Flat
    BY DEF ImageInv
  <1>2. /\ Depth \in Nat /\ DOMAIN savepoints = 1..Depth /\ (Depth = 0 => Len(subjournal) = 0)
        /\ \A i \in 1..Depth : /\ savepoints[i].end <= Len(subjournal)
                               /\ savepoints[i].start \in Nat /\ savepoints[i].end \in Nat
                               /\ savepoints[i].start <= savepoints[i].end
    BY <1>1, EndBounds DEF NestInv, Depth, Stack, Offsets
  <1>3. CASE Depth = 0
    BY <1>2, <1>3
  <1>4. CASE Depth > 0
    <2>1. /\ max_frame = shared_max /\ Len(subjournal) = 0
          /\ \A i \in 1..Depth :
              /\ savepoints[i].wal_max = shared_max /\ savepoints[i].bitmap = {}
              /\ savepoints[i].db_size = committed[PAGE_1] /\ savepoints[i].fk = fk
      BY <1>1, <1>4 DEF Flat
    <2>2. ASSUME NEW i \in 1..Depth  PROVE savepoints[i].start = 0 /\ savepoints[i].end = 0
      BY <1>2, <2>1, <2>2
    <2> QED  BY <1>2, <1>4, <2>1, <2>2
  <1> QED  BY <1>2, <1>3, <1>4

LEMMA ImageBegin ==
    ASSUME ImageInv, NestInv', BeginAutoCommit \/ BeginRead
    PROVE  ImageInv'
  <1>1. /\ tx_state = "None" /\ TakeSnapshot /\ marks' = MarksAtStart
        /\ frames' = frames /\ frame_cache' = frame_cache /\ shared_max' = shared_max
        /\ dirty_pages' = dirty_pages /\ savepoints' = savepoints /\ subjournal' = subjournal
        /\ in_use' = in_use /\ auto_commit' = auto_commit /\ fk' = fk /\ committed' = committed
        /\ writes' = writes
        /\ \/ tx_state' = "Write" /\ running' = TRUE /\ stmt_fk' = fk /\ auto_commit
           \/ tx_state' = "Read" /\ running' = running /\ stmt_fk' = stmt_fk /\ ~running
    <2>1. CASE BeginAutoCommit
      BY <2>1 DEF BeginAutoCommit, StartStatement
    <2>2. CASE BeginRead
      BY <2>2 DEF BeginRead
    <2> QED  BY <2>1, <2>2
  <1>2. /\ LogTypes' /\ CacheTypes' /\ LogInv' /\ CacheInv' /\ SeesItsImage' /\ CommittedIsShared'
        /\ image' \in Image /\ image'.pages = committed /\ image'.fk = fk /\ max_frame' = shared_max
        /\ marks' \in Seq(Image) /\ Len(marks') = Depth
        /\ \A i \in 1..Depth : marks'[i] = image'
        /\ dirty_pages = {}
    BY <1>1, SnapshotTaken
  <1>3. /\ Len(subjournal) = 0
        /\ \A i \in 1..Depth : /\ savepoints[i].wal_max = shared_max /\ savepoints[i].bitmap = {}
                               /\ savepoints[i].db_size = committed[PAGE_1] /\ savepoints[i].fk = fk
                               /\ savepoints[i].start = 0
        /\ (Depth > 0 => max_frame = shared_max) /\ Depth \in Nat
    BY <1>1, StackAtStart
  <1>4. TypeOK /\ StackTypes /\ ConnTypes /\ GhostTypes /\ Control /\ Sizes /\ LogTypes
    BY TypeParts DEF ImageInv
  <1>5. Depth' = Depth /\ Levels' = Levels
    BY <1>1 DEF Depth, Levels, Now
  <1>6. TypeOK'
    <2>1. StackTypes' /\ GhostTypes' /\ ConnTypes'
      BY <1>1, <1>2, <1>4 DEF StackTypes, GhostTypes, ConnTypes
    <2> QED  BY <1>2, <2>1, TypePartsAfter
  <1>7. Control'
    BY <1>1, <1>4 DEF Control
  <1>8. Sizes'
    BY <1>1, <1>2, <1>4, <1>5 DEF Sizes
  <1>9. DirtyInv' /\ Bitmaps'
    BY <1>1, <1>2, <1>3, <1>5 DEF DirtyInv, Bitmaps
  <1>10. Flat'
    BY <1>1, <1>2, <1>3, <1>5 DEF Flat
  <1>11. LevelInv'
    <2>1. committed[PAGE_1] \in Nat /\ shared_max' \in Nat /\ \A p \in Pages : frame_cache'[p] \in Seq(FrameNumber)
      BY <1>1, <1>4, LogFacts, PagesAre DEF Sizes
    <2>2. ASSUME NEW i \in Levels'
          PROVE  Img(i)' = committed /\ Pos(i)' = 0 /\ Wal(i)' = shared_max'
      <3>1. i <= Depth' => i \in 1..Depth
        BY <1>3, <1>5, <2>2 DEF Levels, Now
      <3>2. CASE i <= Depth'
        BY <1>1, <1>2, <1>3, <3>1, <3>2 DEF Img, Pos, Wal
      <3>3. CASE ~(i <= Depth')
        BY <1>1, <1>2, <1>3, <3>3 DEF Img, Pos, Wal
      <3> QED  BY <3>2, <3>3
    <2>3. \A i \in 1..Depth' : savepoints'[i].db_size = committed[PAGE_1]
      BY <1>1, <1>3, <1>5
    <2> QED  BY <1>3, <1>5, <2>1, <2>2, <2>3, LevelsFresh
  <1>12. Counter'
    <2>1. \A i \in 1..Depth' : savepoints'[i].fk = marks'[i].fk
      BY <1>1, <1>2, <1>3, <1>5
    <2>2. ~(running' /\ ~auto_commit')
      BY <1>1
    <2> QED  BY <2>1, <2>2 DEF Counter
  <1> QED  BY <1>2, <1>6, <1>7, <1>8, <1>9, <1>10, <1>11, <1>12 DEF ImageInv

-----------------------------------------------------------------------------
(* The ends of a transaction.                                               *)

LEMMA ImageEnd ==
    ASSUME ImageInv, NestInv',
           AutoCommit \/ (\E k \in Fks : AbortTransaction(k)) \/ Rollback
           \/ (~running /\ CommitTransaction) \/ (FailRead /\ tx_state = "Write")
    PROVE  ImageInv'
  <1>1. TypeOK /\ ConnTypes /\ Control /\ 0 \in Fks
    BY TypeParts, ChoiceAssumption DEF ImageInv
  <1>2. /\ in_use \in BOOLEAN /\ running \in BOOLEAN /\ fk \in Fks /\ stmt_fk \in Fks
        /\ (running => tx_state = "Write")
    BY <1>1 DEF ConnTypes, Control
  <1>3. CASE AutoCommit
    <2>1. /\ CommitDirtyPages /\ ClearSavepoints /\ EndTransaction
          /\ image' = [pages |-> committed', fk |-> 0]
          /\ running /\ running' = FALSE /\ in_use' = FALSE /\ stmt_fk' = 0 /\ fk' = fk /\ writes' = writes
      BY <1>3 DEF AutoCommit, EndStatement
    <2>2. tx_state = "Write" /\ in_use' \in BOOLEAN /\ fk' \in Fks /\ stmt_fk' \in Fks
      BY <1>1, <1>2, <2>1
    <2> QED  BY <2>1, <2>2, EndWritten
  <1>4. ASSUME NEW k \in Fks, AbortTransaction(k)  PROVE ImageInv'
    <2>1. /\ RollbackWrites /\ ClearSavepoints /\ EndTransaction /\ committed' = committed
          /\ image' = [pages |-> committed', fk |-> 0]
          /\ running /\ running' = FALSE /\ in_use' = FALSE /\ stmt_fk' = 0 /\ fk' = k /\ writes' = writes
      BY <1>4 DEF AbortTransaction, EndStatement
    <2>2. tx_state = "Write" /\ in_use' \in BOOLEAN /\ fk' \in Fks /\ stmt_fk' \in Fks
      BY <1>1, <1>2, <1>4, <2>1
    <2> QED  BY <2>1, <2>2, EndWritten
  <1>5. CASE Rollback
    <2>1. /\ IF tx_state = "Write" THEN RollbackWrites ELSE UNCHANGED <<log, cache, dirty_pages>>
          /\ ClearSavepoints /\ EndTransaction /\ committed' = committed
          /\ image' = [pages |-> committed', fk |-> 0]
          /\ ~running /\ running' = running /\ in_use' = in_use /\ stmt_fk' = stmt_fk /\ fk' = 0 /\ writes' = writes
      BY <1>5 DEF Rollback
    <2>2. running' = FALSE /\ in_use' \in BOOLEAN /\ fk' \in Fks /\ stmt_fk' \in Fks
      BY <1>1, <1>2, <2>1
    <2>3. CASE tx_state = "Write"
      BY <2>1, <2>2, <2>3, EndWritten
    <2>4. CASE tx_state # "Write"
      BY <2>1, <2>2, <2>4, EndUnwritten
    <2> QED  BY <2>3, <2>4
  <1>6. CASE ~running /\ CommitTransaction
    <2>1. /\ IF tx_state = "Write" THEN CommitDirtyPages ELSE UNCHANGED <<log, cache, dirty_pages, committed>>
          /\ ClearSavepoints /\ EndTransaction
          /\ image' = [pages |-> committed', fk |-> 0]
          /\ ~running /\ running' = running /\ in_use' = in_use /\ stmt_fk' = stmt_fk /\ fk' = fk /\ writes' = writes
      BY <1>6 DEF CommitTransaction
    <2>2. running' = FALSE /\ in_use' \in BOOLEAN /\ fk' \in Fks /\ stmt_fk' \in Fks
      BY <1>2, <2>1
    <2>3. CASE tx_state = "Write"
      BY <2>1, <2>2, <2>3, EndWritten
    <2>4. CASE tx_state # "Write"
      BY <2>1, <2>2, <2>4, EndUnwritten
    <2> QED  BY <2>3, <2>4
  <1>7. CASE FailRead /\ tx_state = "Write"
    <2>1. /\ RollbackWrites /\ ClearSavepoints /\ EndTransaction /\ committed' = committed
          /\ image' = [pages |-> committed', fk |-> 0]
          /\ ~running /\ running' = running /\ in_use' = in_use /\ stmt_fk' = stmt_fk /\ fk' = fk /\ writes' = writes
      BY <1>7 DEF FailRead
    <2>2. running' = FALSE /\ in_use' \in BOOLEAN /\ fk' \in Fks /\ stmt_fk' \in Fks
      BY <1>2, <2>1
    <2> QED  BY <1>7, <2>1, <2>2, EndWritten
  <1> QED  BY <1>3, <1>4, <1>5, <1>6, <1>7

-----------------------------------------------------------------------------
(* Steps that leave the log, the stack and the pages of the image.          *)

LEMMA LevelsKept ==
    ASSUME ImageInv, tx_state' \in {tx_state, "None"}, UNCHANGED log, savepoints' = savepoints,
           subjournal' = subjournal, marks' = marks, image'.pages = image.pages
    PROVE  LevelInv' /\ Bitmaps'
  <1>1. /\ frames' = frames /\ frame_cache' = frame_cache /\ shared_max' = shared_max
        /\ max_frame' = max_frame
    BY DEF log
  <1>2. Depth' = Depth /\ Levels' = Levels
    BY DEF Depth, Levels, Now
  <1>3. \A i : Img(i)' = Img(i) /\ Pos(i)' = Pos(i) /\ Wal(i)' = Wal(i)
    BY <1>1, <1>2 DEF Img, Pos, Wal
  <1>4. \A h, p : ContentUpTo(h, p)' = ContentUpTo(h, p)
    BY <1>1, ContentUnchanged
  <1>5. LevelInv /\ Bitmaps
    BY DEF ImageInv
  <1>6. Bitmaps'
    BY <1>2, <1>5 DEF Bitmaps
  <1>7. ASSUME tx_state' # "None"  PROVE LevelInv'
    <2>1. tx_state' = tx_state
      BY <1>7
    <2>2. \A i : LevelOK(i) => LevelOK(i)'
      BY <1>1, <1>2, <1>3, <2>1 DEF LevelOK
    <2>3. \A a, b, p : Between(a, b, p) => Between(a, b, p)'
      <3>1. \A a, p : ContentUpTo(Wal(a), p)' = ContentUpTo(Wal(a), p)
        BY <1>3, <1>4
      <3> QED  BY <1>3, <3>1 DEF Between
    <2>4. \A a, b : LevelPair(a, b) => LevelPair(a, b)'
      BY <1>3, <2>3 DEF LevelPair
    <2> QED  BY <1>2, <1>5, <1>7, <2>1, <2>2, <2>4 DEF LevelInv
  <1>8. ASSUME tx_state' = "None"  PROVE LevelInv'
    BY <1>8 DEF LevelInv
  <1> QED  BY <1>6, <1>7, <1>8

LEMMA ImageQuiet ==
    ASSUME ImageInv, NestInv', UNCHANGED log, cache' = cache, dirty_pages' = dirty_pages,
           committed' = committed, savepoints' = savepoints, subjournal' = subjournal, marks' = marks,
           ConnTypes', Control', image' \in Image, image'.pages[PAGE_1] \in Pages,
           \/ tx_state' = tx_state /\ image'.pages = image.pages
           \/ tx_state' = "None" /\ tx_state # "Write",
           tx_state # "Write" => fk' = fk,
           tx_state' # "None" => fk' = image'.fk,
           running' /\ ~auto_commit' => running /\ ~auto_commit /\ stmt_fk' = stmt_fk
    PROVE  ImageInv'
  <1>1. /\ LogTypes /\ CacheTypes /\ StackTypes /\ GhostTypes /\ Sizes /\ LogInv /\ CacheInv
        /\ DirtyInv /\ Flat /\ LevelInv /\ Counter /\ SeesItsImage /\ CommittedIsShared
    BY TypeParts DEF ImageInv
  <1>2. /\ frames' = frames /\ frame_cache' = frame_cache /\ shared_max' = shared_max
        /\ max_frame' = max_frame /\ Depth' = Depth /\ tx_state' \in {tx_state, "None"}
    BY DEF log, Depth
  <1>3. \A h, p : ContentUpTo(h, p)' = ContentUpTo(h, p)
    BY <1>2, ContentUnchanged
  <1>4. \A p : PageSeen(p)' = PageSeen(p)
    BY <1>2, <1>3 DEF PageSeen
  <1>5. TypeOK'
    <2>1. LogTypes' /\ CacheTypes' /\ StackTypes' /\ GhostTypes'
      BY <1>1, <1>2 DEF LogTypes, CacheTypes, StackTypes, GhostTypes
    <2> QED  BY <2>1, TypePartsAfter
  <1>6. Sizes'
    BY <1>1, <1>2 DEF Sizes
  <1>7. LogInv'
    BY <1>1, <1>2 DEF LogInv
  <1>8. CacheInv'
    BY <1>1, <1>2, <1>3 DEF CacheInv
  <1>9. DirtyInv'
    BY <1>1, <1>2 DEF DirtyInv
  <1>10. Flat'
    BY <1>1, <1>2 DEF Flat
  <1>11. Counter'
    BY <1>1, <1>2 DEF Counter
  <1>12. CommittedIsShared'
    BY <1>1, <1>2, <1>3 DEF CommittedIsShared
  <1>13. SeesItsImage'
    BY <1>1, <1>4 DEF SeesItsImage
  <1>14. CASE tx_state' = tx_state /\ image'.pages = image.pages
    <2>1. LevelInv' /\ Bitmaps'
      BY <1>2, <1>14, LevelsKept
    <2> QED  BY <1>5, <1>6, <1>7, <1>8, <1>9, <1>10, <1>11, <1>12, <1>13, <2>1 DEF ImageInv
  <1>15. CASE tx_state' = "None" /\ tx_state # "Write"
    <2>1. LevelInv'
      BY <1>15 DEF LevelInv
    <2>2. Bitmaps'
      BY <1>2 DEF ImageInv, Bitmaps
    <2> QED  BY <1>5, <1>6, <1>7, <1>8, <1>9, <1>10, <1>11, <1>12, <1>13, <2>1, <2>2 DEF ImageInv
  <1> QED  BY <1>14, <1>15

LEMMA ImageIdle ==
    ASSUME ImageInv, NestInv',
           Begin \/ (\E k \in Fks : CountViolations(k)) \/ (FailRead /\ tx_state # "Write") \/ UNCHANGED vars
    PROVE  ImageInv'
  <1>1. /\ TypeOK /\ ConnTypes /\ GhostTypes /\ Control /\ Sizes /\ SeesItsImage
        /\ (tx_state # "None" => fk = image.fk)
    BY TypeParts DEF ImageInv, SeesItsImage
  <1>2. /\ image \in Image /\ image.pages \in [Pages -> Content] /\ image.pages[PAGE_1] \in Pages
        /\ committed \in [Pages -> Content] /\ committed[PAGE_1] \in Pages /\ 0 \in Fks
    BY <1>1, GhostFacts, ChoiceAssumption DEF Sizes, GhostTypes
  <1>3. CASE Begin
    <2>1. /\ UNCHANGED log /\ cache' = cache /\ dirty_pages' = dirty_pages
          /\ committed' = committed /\ savepoints' = savepoints /\ subjournal' = subjournal /\ marks' = marks
          /\ in_use' = in_use /\ tx_state' = tx_state /\ fk' = fk /\ stmt_fk' = stmt_fk /\ image' = image
          /\ ~running /\ running' = running /\ auto_commit' = FALSE /\ writes' = writes
      BY <1>3 DEF Begin, pager, ghosts
    <2>2. ConnTypes' /\ Control'
      BY <1>1, <2>1 DEF ConnTypes, Control
    <2> QED  BY <1>1, <1>2, <2>1, <2>2, ImageQuiet
  <1>4. ASSUME NEW k \in Fks, CountViolations(k)  PROVE ImageInv'
    <2>1. /\ UNCHANGED log /\ cache' = cache /\ dirty_pages' = dirty_pages
          /\ committed' = committed /\ savepoints' = savepoints /\ subjournal' = subjournal /\ marks' = marks
          /\ in_use' = in_use /\ tx_state' = tx_state /\ fk' = k /\ stmt_fk' = stmt_fk
          /\ image' = [image EXCEPT !.fk = k]
          /\ running /\ running' = running /\ auto_commit' = auto_commit
          /\ writes < MaxWrites /\ writes' = writes + 1
      BY <1>4 DEF CountViolations, pager
    <2>2. ConnTypes' /\ Control' /\ tx_state = "Write"
      BY <1>1, <1>4, <2>1, LimitAssumption DEF ConnTypes, Control
    <2>3. image' \in Image /\ image'.pages = image.pages /\ image'.fk = k
      BY <1>2, <1>4, <2>1 DEF Image
    <2> QED  BY <1>2, <2>1, <2>2, <2>3, ImageQuiet
  <1>5. CASE FailRead /\ tx_state # "Write"
    <2>1. /\ UNCHANGED log /\ cache' = cache /\ dirty_pages' = dirty_pages
          /\ committed' = committed /\ savepoints' = savepoints /\ subjournal' = subjournal /\ marks' = marks
          /\ in_use' = in_use /\ tx_state' = "None" /\ fk' = fk /\ stmt_fk' = stmt_fk
          /\ image' = [pages |-> committed, fk |-> 0]
          /\ ~running /\ running' = running /\ auto_commit' = TRUE /\ writes' = writes
      BY <1>5 DEF FailRead, EndTransaction
    <2>2. ConnTypes' /\ Control'
      BY <1>1, <2>1 DEF ConnTypes, Control
    <2>3. image' \in Image /\ image'.pages[PAGE_1] \in Pages
      BY <1>2, <2>1 DEF Image
    <2> QED  BY <1>5, <2>1, <2>2, <2>3, ImageQuiet
  <1>6. CASE UNCHANGED vars
    <2>1. /\ UNCHANGED log /\ cache' = cache /\ dirty_pages' = dirty_pages
          /\ committed' = committed /\ savepoints' = savepoints /\ subjournal' = subjournal /\ marks' = marks
          /\ in_use' = in_use /\ tx_state' = tx_state /\ fk' = fk /\ stmt_fk' = stmt_fk /\ image' = image
          /\ running' = running /\ auto_commit' = auto_commit /\ writes' = writes
      BY <1>6 DEF vars, pager, conn, ghosts
    <2>2. ConnTypes' /\ Control'
      BY <1>1, <2>1 DEF ConnTypes, Control
    <2> QED  BY <1>1, <1>2, <2>1, <2>2, ImageQuiet
  <1> QED  BY <1>3, <1>4, <1>5, <1>6

-----------------------------------------------------------------------------
(* A page comes into the cache or leaves it.                                *)

LEMMA ImageCached ==
    ASSUME ImageInv, NestInv', UNCHANGED <<log, dirty_pages, savepoints, subjournal, conn, ghosts, writes>>,
           tx_state = "Write", CacheTypes', CacheInv',
           \A p \in 1..image.pages[PAGE_1] : PageSeen(p)' = image.pages[p]
    PROVE  ImageInv'
  <1>1. /\ LogTypes /\ StackTypes /\ GhostTypes /\ ConnTypes /\ Control /\ Sizes /\ LogInv
        /\ DirtyInv /\ Counter /\ SeesItsImage /\ CommittedIsShared
    BY TypeParts DEF ImageInv
  <1>2. /\ frames' = frames /\ frame_cache' = frame_cache /\ shared_max' = shared_max
        /\ max_frame' = max_frame /\ Depth' = Depth /\ tx_state' = tx_state
        /\ dirty_pages' = dirty_pages /\ savepoints' = savepoints /\ subjournal' = subjournal
        /\ auto_commit' = auto_commit /\ running' = running /\ fk' = fk /\ stmt_fk' = stmt_fk
        /\ image' = image /\ marks' = marks /\ committed' = committed /\ writes' = writes
    BY DEF log, conn, ghosts, Depth
  <1>3. in_use' \in BOOLEAN
    BY DEF NestInv, Owners
  <1>4. TypeOK'
    <2>1. LogTypes' /\ StackTypes' /\ GhostTypes' /\ ConnTypes'
      BY <1>1, <1>2, <1>3 DEF LogTypes, StackTypes, GhostTypes, ConnTypes
    <2> QED  BY <2>1, TypePartsAfter
  <1>5. Control' /\ Sizes' /\ LogInv' /\ DirtyInv' /\ Counter'
    BY <1>1, <1>2 DEF Control, Sizes, LogInv, DirtyInv, Counter
  <1>6. Flat'
    BY <1>2 DEF Flat
  <1>7. LevelInv' /\ Bitmaps'
    BY <1>2, LevelsKept
  <1>8. CommittedIsShared'
    BY <1>1, <1>2, ContentUnchanged DEF CommittedIsShared
  <1>9. SeesItsImage'
    BY <1>1, <1>2 DEF SeesItsImage
  <1> QED  BY <1>4, <1>5, <1>6, <1>7, <1>8, <1>9 DEF ImageInv

LEMMA ImageReadPage ==
    ASSUME ImageInv, NestInv', NEW p \in Pages, ReadPage(p)
    PROVE  ImageInv'
  <1>1. /\ running /\ p <= DbSize /\ ~cache[p].used
        /\ cache' = [cache EXCEPT ![p] = [NoPage EXCEPT !.used = TRUE, !.ver = PageSeen(p)]]
        /\ UNCHANGED <<log, dirty_pages, savepoints, subjournal, conn, ghosts, writes>>
    BY DEF ReadPage
  <1>2. CacheTypes /\ CacheInv /\ tx_state = "Write"
    BY <1>1, TypeParts DEF ImageInv, Control
  <1>3. /\ DbSize = image.pages[PAGE_1] /\ DbSize \in Pages
        /\ \A q \in 1..DbSize : q \in Pages /\ PageSeen(q) = image.pages[q] /\ PageSeen(q) \in Content
    BY <1>2, SeenPages
  <1>4. PageSeen(p) \in Content /\ PageSeen(p) = ContentUpTo(max_frame, p)
    <2>1. p \in 1..DbSize
      BY <1>1, <1>3, PagesAre
    <2> QED  BY <1>1, <1>3, <2>1 DEF PageSeen
  <1>5. PICK v : v = PageSeen(p)
    OBVIOUS
  <1>6. /\ cache'[p] = [used |-> TRUE, ver |-> v, dirty |-> FALSE, restored |-> FALSE]
        /\ \A q \in Pages : q # p => cache'[q] = cache[q]
    BY <1>1, <1>2, <1>5 DEF NoPage, CacheTypes
  <1>7. CacheTypes'
    <2>1. [used |-> TRUE, ver |-> v, dirty |-> FALSE, restored |-> FALSE] \in
              [used : BOOLEAN, ver : Content, dirty : BOOLEAN, restored : BOOLEAN]
      BY <1>4, <1>5
    <2>2. PICK r : r = [NoPage EXCEPT !.used = TRUE, !.ver = v]
      OBVIOUS
    <2>3. r = [used |-> TRUE, ver |-> v, dirty |-> FALSE, restored |-> FALSE]
      BY <2>2 DEF NoPage
    <2>4. cache' = [cache EXCEPT ![p] = r]
      BY <1>1, <1>5, <2>2
    <2> QED  BY <1>1, <1>2, <2>1, <2>3, <2>4 DEF CacheTypes
  <1>8. /\ \A h, q : ContentUpTo(h, q)' = ContentUpTo(h, q)
        /\ max_frame' = max_frame /\ dirty_pages' = dirty_pages
    BY <1>1, ContentUnchanged DEF log
  <1>9. CacheInv'
    <2>1. ASSUME NEW q \in Pages, cache'[q].used
          PROVE  IF cache'[q].dirty \/ cache'[q].restored THEN q \in dirty_pages'
                 ELSE cache'[q].ver = ContentUpTo(max_frame, q)'
      <3>1. CASE q = p
        BY <1>4, <1>5, <1>6, <1>8, <3>1
      <3>2. CASE q # p
        BY <1>2, <1>6, <1>8, <2>1, <3>2 DEF CacheInv
      <3> QED  BY <3>1, <3>2
    <2> QED  BY <2>1 DEF CacheInv
  <1>10. \A q \in Pages : PageSeen(q)' = PageSeen(q)
    <2>1. ASSUME NEW q \in Pages  PROVE PageSeen(q)' = PageSeen(q)
      <3>1. CASE q = p
        BY <1>5, <1>6, <3>1 DEF PageSeen
      <3>2. CASE q # p
        BY <1>6, <1>8, <3>2 DEF PageSeen
      <3> QED  BY <3>1, <3>2
    <2> QED  BY <2>1
  <1> QED  BY <1>1, <1>2, <1>3, <1>7, <1>9, <1>10, ImageCached

LEMMA ImageEvictPage ==
    ASSUME ImageInv, NestInv', Strict, NEW p \in Pages, EvictPage(p)
    PROVE  ImageInv'
  <1>1. /\ running /\ cache[p].used /\ ~cache[p].dirty /\ ~cache[p].restored
        /\ cache' = [cache EXCEPT ![p] = NoPage]
        /\ UNCHANGED <<log, dirty_pages, savepoints, subjournal, conn, ghosts, writes>>
    BY DEF EvictPage, Strict
  <1>2. CacheTypes /\ CacheInv /\ tx_state = "Write"
    BY <1>1, TypeParts DEF ImageInv, Control
  <1>3. /\ DbSize = image.pages[PAGE_1]
        /\ \A q \in 1..DbSize : q \in Pages /\ PageSeen(q) = image.pages[q]
    BY <1>2, SeenPages
  <1>4. cache[p].ver = ContentUpTo(max_frame, p)
    BY <1>1, <1>2 DEF CacheInv
  <1>5. cache'[p] = NoPage /\ NoPage.used = FALSE /\ \A q \in Pages : q # p => cache'[q] = cache[q]
    BY <1>1, <1>2 DEF NoPage, CacheTypes
  <1>6. CacheTypes'
    <2>1. 0 \in Content
      BY SizeAssumption, LimitAssumption DEF Content
    <2>2. NoPage \in [used : BOOLEAN, ver : Content, dirty : BOOLEAN, restored : BOOLEAN]
      BY <2>1 DEF NoPage
    <2> QED  BY <1>1, <1>2, <2>2 DEF CacheTypes
  <1>7. /\ \A h, q : ContentUpTo(h, q)' = ContentUpTo(h, q)
        /\ max_frame' = max_frame /\ dirty_pages' = dirty_pages
    BY <1>1, ContentUnchanged DEF log
  <1>8. CacheInv'
    BY <1>2, <1>5, <1>7 DEF CacheInv
  <1>9. \A q \in Pages : PageSeen(q)' = PageSeen(q)
    BY <1>1, <1>4, <1>5, <1>7 DEF PageSeen
  <1> QED  BY <1>1, <1>2, <1>3, <1>6, <1>8, <1>9, ImageCached

-----------------------------------------------------------------------------
(* The types of the stack.                                                  *)

LEMMA OpenedTyped ==
    ASSUME NEW kind \in Names \union {"Statement"}, NEW starts \in BOOLEAN, NEW k \in Fks,
           NEW size \in Pages, NEW w \in 0..MaxFrames, NEW e \in Nat
    PROVE  [kind |-> kind, starts |-> starts, start |-> e, end |-> e, bitmap |-> {},
            db_size |-> size, wal_max |-> w, fk |-> k] \in SavepointType
  BY DEF SavepointType

LEMMA StackOpened ==
    ASSUME StackTypes, NEW r \in SavepointType, savepoints' = Append(savepoints, r),
           subjournal' = subjournal
    PROVE  StackTypes'
  BY DEF StackTypes

LEMMA CutTyped ==
    ASSUME StackTypes, NEW n \in 0..Len(savepoints), NEW off \in Nat
    PROVE  Cut(n, off) \in Seq(SavepointType)
  <1>0. PICK below : below = SubSeq(savepoints, 1, n)
    OBVIOUS
  <1>1. savepoints \in Seq(SavepointType) /\ Len(savepoints) \in Nat
    BY DEF StackTypes
  <1>2. below \in Seq(SavepointType) /\ Len(below) = n
    BY <1>0, <1>1
  <1>3. CASE n = 0
    BY <1>3 DEF Cut
  <1>4. CASE n # 0
    <2>1. n \in 1..Len(below) /\ below[n] \in SavepointType
      BY <1>2, <1>4
    <2>2. PICK r : r = [below[n] EXCEPT !.end = off]
      OBVIOUS
    <2>3. r \in SavepointType
      BY <2>1, <2>2 DEF SavepointType
    <2>4. Cut(n, off) = [below EXCEPT ![n] = r]
      BY <1>0, <1>4, <2>2 DEF Cut
    <2> QED  BY <1>2, <2>1, <2>3, <2>4
  <1> QED  BY <1>3, <1>4

LEMMA StackJournaled ==
    ASSUME NestInv, StackTypes, NEW new \in Seq(PageImage), savepoints = <<>> => new = <<>>, Journal(new)
    PROVE  StackTypes'
  <1>1. /\ savepoints \in Seq(SavepointType) /\ subjournal \in Seq(PageImage)
        /\ JournalEnd = Len(subjournal) /\ Len(subjournal) \in Nat /\ Len(new) \in Nat
        /\ DOMAIN new = 1..Len(new)
    BY DEF StackTypes, NestInv, Offsets
  <1>2. PICK old : old = SubSeq(subjournal, 1, Len(subjournal))
    OBVIOUS
  <1>3. old \in Seq(PageImage) /\ subjournal' = old \o new
    BY <1>1, <1>2 DEF Journal
  <1>4. subjournal' \in Seq(PageImage)
    BY <1>3
  <1>5. CASE new = <<>>
    BY <1>1, <1>4, <1>5 DEF Journal, StackTypes
  <1>6. CASE new # <<>>
    <2> DEFINE n == Len(savepoints)
               B == savepoints[n].bitmap \union {new[k].page : k \in 1..Len(new)}
               e == savepoints[n].end + Len(new)
               r == [savepoints[n] EXCEPT !.end = e, !.bitmap = B]
    <2>1. n \in 1..Len(savepoints)
      BY <1>1, <1>6
    <2>2. savepoints[n] \in SavepointType /\ savepoints[n].end \in Nat /\ savepoints[n].bitmap \subseteq Pages
      BY <2>1, StackFacts
    <2>3. \A k \in 1..Len(new) : new[k].page \in Pages
      <3>1. \A k \in 1..Len(new) : new[k] \in PageImage
        OBVIOUS
      <3> QED  BY <3>1 DEF PageImage
    <2>4. B \subseteq Pages /\ e \in Nat
      BY <1>1, <2>2, <2>3
    <2>5. r \in SavepointType
      <3> HIDE DEF B, e
      <3>1. PICK sp : sp = savepoints[n]
        OBVIOUS
      <3>2. sp \in SavepointType
        BY <2>2, <3>1
      <3>3. [sp EXCEPT !.end = e, !.bitmap = B] \in SavepointType
        BY <2>4, <3>2 DEF SavepointType
      <3> QED  BY <3>1, <3>3
    <2>6. savepoints' = [savepoints EXCEPT ![n] = r]
      BY <1>1, <1>6, <2>1 DEF Journal
    <2> HIDE DEF r
    <2>7. savepoints' \in Seq(SavepointType)
      BY <1>1, <2>1, <2>5, <2>6
    <2> QED  BY <1>4, <2>7 DEF StackTypes
  <1> QED  BY <1>5, <1>6

-----------------------------------------------------------------------------
(* A statement changes a page, or the log takes a page of it.               *)

LEMMA ImageEdited ==
    ASSUME ImageInv, NestInv', running, UNCHANGED conn, marks' = marks, committed' = committed,
           shared_max' = shared_max, NEW new \in Seq(PageImage), savepoints = <<>> => new = <<>>, Journal(new),
           \A k \in 1..Len(new) : new[k].page \in dirty_pages',
           LogTypes', CacheTypes', LogInv', CacheInv', CommittedIsShared', SeesItsImage', LevelInv',
           image' \in Image, image'.pages[PAGE_1] \in Pages, writes' \in 0..MaxWrites,
           dirty_pages \subseteq dirty_pages', dirty_pages' \subseteq 1..image'.pages[PAGE_1]
    PROVE  ImageInv'
  <1>1. /\ NestInv /\ StackTypes /\ GhostTypes /\ ConnTypes /\ Control /\ Sizes /\ DirtyInv /\ Counter /\ Bitmaps
        /\ Stack /\ Offsets
    BY TypeParts DEF ImageInv, NestInv
  <1>2. /\ tx_state' = tx_state /\ auto_commit' = auto_commit /\ running' = running /\ fk' = fk
        /\ stmt_fk' = stmt_fk /\ tx_state = "Write"
    BY <1>1 DEF conn, Control
  <1>3. in_use' \in BOOLEAN /\ IsSeq(new)
    BY DEF NestInv, Owners, IsSeq
  <1>4. TypeOK'
    <2>1. StackTypes'
      BY <1>1, StackJournaled
    <2>2. GhostTypes' /\ ConnTypes'
      BY <1>1, <1>2, <1>3 DEF GhostTypes, ConnTypes
    <2> QED  BY <2>1, <2>2, TypePartsAfter
  <1>5. Control'
    BY <1>2 DEF Control
  <1>6. /\ Depth' = Depth /\ Depth \in Nat
        /\ \A i \in 1..Depth : SameSavepoint(savepoints'[i], savepoints[i])
        /\ Len(subjournal') = Len(subjournal) + Len(new) /\ Len(subjournal) \in Nat /\ Len(new) \in Nat
        /\ \A k \in 1..Len(subjournal) : subjournal'[k] = subjournal[k]
        /\ \A k \in 1..Len(new) : subjournal'[Len(subjournal) + k] = new[k]
    <2>1. /\ Len(savepoints') = Len(savepoints)
          /\ \A i \in 1..Len(savepoints) : SameSavepoint(savepoints'[i], savepoints[i])
          /\ Len(subjournal') = Len(subjournal) + Len(new)
          /\ \A k \in 1..Len(subjournal) : subjournal'[k] = subjournal[k]
          /\ \A k \in 1..Len(new) : subjournal'[Len(subjournal) + k] = new[k]
      BY <1>1, <1>3, JournalStep
    <2>2. Len(savepoints) \in Nat /\ Len(subjournal) \in Nat /\ Len(new) \in Nat
      BY <1>1, StackFacts
    <2> QED  BY <2>1, <2>2 DEF Depth
  <1>7. Sizes'
    BY <1>1, <1>6 DEF Sizes
  <1>8. DirtyInv'
    <2>1. ASSUME NEW k \in 1..Len(subjournal')  PROVE subjournal'[k].page \in dirty_pages'
      <3>1. CASE k \in 1..Len(subjournal)
        BY <1>1, <1>6, <3>1 DEF DirtyInv
      <3>2. CASE k \notin 1..Len(subjournal)
        <4>1. PICK j : j = k - Len(subjournal)
          OBVIOUS
        <4>2. j \in 1..Len(new) /\ k = Len(subjournal) + j
          BY <1>6, <2>1, <3>2, <4>1
        <4> QED  BY <1>6, <4>2
      <3> QED  BY <3>1, <3>2
    <2> QED  BY <2>1 DEF DirtyInv
  <1>9. Flat'
    BY <1>2 DEF Flat
  <1>10. Bitmaps'
    BY <1>1, <1>3, BitmapsJournaled
  <1>11. Counter'
    <2>1. \A i \in 1..Depth : savepoints'[i].kind = savepoints[i].kind /\ savepoints'[i].fk = savepoints[i].fk
      BY <1>6 DEF SameSavepoint
    <2> QED  BY <1>1, <1>2, <1>6, <2>1 DEF Counter
  <1> QED  BY <1>4, <1>5, <1>7, <1>8, <1>9, <1>10, <1>11 DEF ImageInv

LEMMA BeforeImageFacts ==
    ASSUME ImageInv, tx_state = "Write", NEW p \in 1..DbSize, NEW new, new = BeforeImage(p)
    PROVE  /\ new \in Seq(PageImage) /\ (savepoints = <<>> => new = <<>>)
           /\ \A k \in 1..Len(new) : /\ new[k].page = p /\ new[k].ver = image.pages[p]
                                     /\ p <= savepoints[Depth].db_size
           /\ Depth > 0 /\ p <= savepoints[Depth].db_size =>
                 p \in savepoints[Depth].bitmap \/ \E k \in 1..Len(new) : new[k].page = p
  <1>1. p \in Pages /\ PageSeen(p) = image.pages[p] /\ PageSeen(p) \in Content
    BY SeenPages
  <1>2. Depth \in Nat /\ (savepoints = <<>> <=> Depth = 0) /\ Last(savepoints) = savepoints[Depth]
    BY EndBounds DEF ImageInv, NestInv, Depth, Last
  <1>3. CASE Required(p)
    <2>1. PICK e : e = [page |-> p, ver |-> PageSeen(p)]
      OBVIOUS
    <2>2. e \in PageImage /\ e.page = p /\ e.ver = image.pages[p]
      BY <1>1, <2>1 DEF PageImage
    <2>3. new = <<e>>
      BY <1>3, <2>1 DEF BeforeImage
    <2>4. new \in Seq(PageImage) /\ Len(new) = 1 /\ new[1] = e
      BY <2>2, <2>3
    <2>5. savepoints # <<>> /\ p <= savepoints[Depth].db_size
      BY <1>2, <1>3 DEF Required
    <2>6. \A k \in 1..Len(new) : k = 1
      BY <2>4
    <2>7. 1 \in 1..Len(new)
      BY <2>4
    <2> QED  BY <2>2, <2>4, <2>5, <2>6, <2>7
  <1>4. CASE ~Required(p)
    <2>1. new = <<>>
      BY <1>4 DEF BeforeImage
    <2>2. new \in Seq(PageImage) /\ \A k \in 1..Len(new) : FALSE
      BY <2>1
    <2>3. Depth > 0 /\ p <= savepoints[Depth].db_size => p \in savepoints[Depth].bitmap
      BY <1>2, <1>4 DEF Required
    <2> QED  BY <2>1, <2>2, <2>3
  <1> QED  BY <1>3, <1>4

LEMMA LevelNow ==
    ASSUME ImageInv, tx_state = "Write"
    PROVE  /\ \A q \in Pages : q > image.pages[PAGE_1] => LatestOf(frame_cache[q], max_frame) <= shared_max
           /\ image.pages[PAGE_1] \in Pages /\ image.pages[PAGE_1] \in Nat
           /\ Depth \in Nat
           /\ Depth > 0 => savepoints[Depth].db_size <= image.pages[PAGE_1]
  <1>1. NestInv /\ TypeOK /\ Sizes /\ LevelInv
    BY DEF ImageInv
  <1>2. /\ Now \in Levels /\ Now = Depth + 1 /\ Depth \in Nat /\ Img(Now) = image.pages /\ Wal(Now) = max_frame
        /\ \A i \in 1..Depth : i \in Levels
    BY <1>1, LevelFacts
  <1>3. LevelOK(Now)
    BY <1>1, <1>2 DEF LevelInv
  <1>4. \A q \in Pages : q > image.pages[PAGE_1] => LatestOf(frame_cache[q], max_frame) <= shared_max
    BY <1>2, <1>3 DEF LevelOK
  <1>5. ASSUME Depth > 0  PROVE savepoints[Depth].db_size <= image.pages[PAGE_1]
    <2>1. Depth \in 1..Now - 1 /\ Depth \in Levels /\ Depth <= Depth
      BY <1>2, <1>5
    <2>2. LevelOK(Depth) /\ LevelPair(Depth, Now)
      BY <1>1, <1>2, <2>1 DEF LevelInv
    <2> QED  BY <1>2, <2>1, <2>2 DEF LevelOK, LevelPair
  <1>6. image.pages[PAGE_1] \in Pages /\ image.pages[PAGE_1] \in Nat
    BY <1>1, PagesAre DEF Sizes
  <1> QED  BY <1>2, <1>4, <1>5, <1>6

LEMMA DirtiedTyped ==
    ASSUME NEW v \in Content
    PROVE  /\ Dirtied(v) \in [used : BOOLEAN, ver : Content, dirty : BOOLEAN, restored : BOOLEAN]
           /\ Dirtied(v).used = TRUE /\ Dirtied(v).ver = v /\ Dirtied(v).dirty = TRUE
           /\ Dirtied(v).restored = FALSE
  BY DEF Dirtied, NoPage

LEMMA ImageWritePage ==
    ASSUME ImageInv, NestInv', NEW p \in Pages, WritePage(p)
    PROVE  ImageInv'
  <1>1. /\ running /\ writes < MaxWrites /\ p # PAGE_1 /\ p <= DbSize /\ writes' = writes + 1
        /\ Journal(BeforeImage(p)) /\ dirty_pages' = dirty_pages \union {p}
        /\ cache' = [cache EXCEPT ![p] = Dirtied(MaxPages + writes')]
        /\ image' = [image EXCEPT !.pages[p] = MaxPages + writes']
        /\ UNCHANGED <<log, conn>> /\ marks' = marks /\ committed' = committed
    BY DEF WritePage
  <1>2. /\ LogTypes /\ CacheTypes /\ GhostTypes /\ Control /\ Sizes /\ LogInv /\ CacheInv /\ DirtyInv
        /\ SeesItsImage /\ CommittedIsShared /\ tx_state = "Write" /\ NestInv
    BY <1>1, TypeParts DEF ImageInv, Control
  <1>3. PICK v : v = MaxPages + writes'
    OBVIOUS
  <1>4. v \in Content /\ writes' \in 0..MaxWrites
    BY <1>1, <1>2, <1>3, SizeAssumption, LimitAssumption DEF Control, Content
  <1>5. /\ DbSize = image.pages[PAGE_1] /\ DbSize \in Pages
        /\ \A q \in 1..DbSize : q \in Pages /\ PageSeen(q) = image.pages[q]
    BY <1>2, SeenPages
  <1>6. p \in 1..DbSize
    BY <1>1, <1>5, PagesAre
  <1>7. /\ frames' = frames /\ frame_cache' = frame_cache /\ shared_max' = shared_max /\ max_frame' = max_frame
        /\ tx_state' = tx_state /\ fk' = fk
    BY <1>1 DEF log, conn
  <1>8. image' \in Image /\ image'.fk = image.fk
        /\ \A q \in Pages : image'.pages[q] = IF q = p THEN v ELSE image.pages[q]
    <2>1. image \in Image
      BY <1>2 DEF GhostTypes
    <2>2. image.pages \in [Pages -> Content] /\ image.fk \in Fks
      BY <2>1 DEF Image
    <2>3. image' = [image EXCEPT !.pages = [image.pages EXCEPT ![p] = v]]
      BY <1>1, <1>3
    <2>4. PICK P : P = [image.pages EXCEPT ![p] = v]
      OBVIOUS
    <2>5. P \in [Pages -> Content] /\ \A q \in Pages : P[q] = IF q = p THEN v ELSE image.pages[q]
      BY <1>4, <2>2, <2>4
    <2>6. image' \in Image /\ image'.pages = P /\ image'.fk = image.fk
      BY <2>1, <2>3, <2>4, <2>5 DEF Image
    <2> QED  BY <2>5, <2>6
  <1>9. /\ \A q \in Pages : cache'[q] = IF q = p THEN Dirtied(v) ELSE cache[q]
        /\ CacheTypes'
    <2>1. Dirtied(v) \in [used : BOOLEAN, ver : Content, dirty : BOOLEAN, restored : BOOLEAN]
      BY <1>4, DirtiedTyped
    <2>2. cache' = [cache EXCEPT ![p] = Dirtied(v)]
      BY <1>1, <1>3
    <2> QED  BY <1>1, <1>2, <2>1, <2>2 DEF CacheTypes
  <1>10. \A h, q : ContentUpTo(h, q)' = ContentUpTo(h, q)
    BY <1>7, ContentUnchanged
  <1>11. /\ Dirtied(v).used = TRUE /\ Dirtied(v).ver = v /\ Dirtied(v).dirty = TRUE
    BY <1>4, DirtiedTyped
  <1>12. CacheInv'
    <2>1. ASSUME NEW q \in Pages, cache'[q].used
          PROVE  IF cache'[q].dirty \/ cache'[q].restored THEN q \in dirty_pages'
                 ELSE cache'[q].ver = ContentUpTo(max_frame, q)'
      <3>1. CASE q = p
        BY <1>1, <1>9, <1>11, <3>1
      <3>2. CASE q # p
        <4>1. cache'[q] = cache[q] /\ ContentUpTo(max_frame, q)' = ContentUpTo(max_frame, q)
          BY <1>7, <1>9, <1>10, <3>2
        <4> QED  BY <1>1, <1>2, <2>1, <4>1 DEF CacheInv
      <3> QED  BY <3>1, <3>2
    <2> QED  BY <2>1 DEF CacheInv
  <1>13. image'.pages[PAGE_1] = image.pages[PAGE_1] /\ image.pages[PAGE_1] \in Pages
    BY <1>1, <1>2, <1>8, PagesAre DEF Sizes
  <1>14. SeesItsImage'
    <2>1. ASSUME NEW q \in 1..image.pages[PAGE_1]  PROVE PageSeen(q)' = image'.pages[q]
      <3>0. q \in Pages /\ PageSeen(q) = image.pages[q]
        BY <1>5, <2>1
      <3>1. CASE q = p
        BY <1>8, <1>9, <1>11, <3>0, <3>1 DEF PageSeen
      <3>2. CASE q # p
        <4>1. PageSeen(q)' = PageSeen(q)
          BY <1>7, <1>9, <1>10, <3>0, <3>2 DEF PageSeen
        <4> QED  BY <1>8, <3>0, <3>2, <4>1
      <3> QED  BY <3>1, <3>2
    <2>2. fk' = image'.fk
      BY <1>2, <1>7, <1>8 DEF SeesItsImage
    <2> QED  BY <1>13, <2>1, <2>2 DEF SeesItsImage
  <1>15. LogTypes' /\ CommittedIsShared'
    BY <1>1, <1>2, <1>7, <1>10 DEF LogTypes, CommittedIsShared
  <1>16. LogInv'
    BY <1>1, <1>2, <1>7 DEF LogInv
  <1>17. dirty_pages \subseteq dirty_pages' /\ dirty_pages' \subseteq 1..image'.pages[PAGE_1]
    BY <1>1, <1>2, <1>5, <1>6, <1>13 DEF DirtyInv
  <1>18. PICK new : new = BeforeImage(p)
    OBVIOUS
  <1>19. /\ new \in Seq(PageImage) /\ (savepoints = <<>> => new = <<>>)
         /\ \A k \in 1..Len(new) : /\ new[k].page = p /\ new[k].ver = image.pages[p]
                                   /\ p <= savepoints[Depth].db_size
         /\ Depth > 0 /\ p <= savepoints[Depth].db_size =>
               p \in savepoints[Depth].bitmap \/ \E k \in 1..Len(new) : new[k].page = p
    BY <1>2, <1>6, <1>18, BeforeImageFacts
  <1>20. LevelInv'
    <2>0. PICK X : X = {p}
      OBVIOUS
    <2>1. IsSeq(new) /\ Journal(new)
      BY <1>1, <1>18, <1>19 DEF IsSeq
    <2>2. InJournal(X, new)
      BY <1>19, <2>0 DEF InJournal
    <2>3. \A k \in 1..Len(new) : /\ new[k].page <= savepoints[Depth].db_size /\ new[k].page \in Pages
                                 /\ new[k].ver = image.pages[new[k].page]
      BY <1>19
    <2>4. \A q \in Pages \ X : /\ image'.pages[q] = image.pages[q]
                                 /\ ContentUpTo(max_frame, q)' = ContentUpTo(max_frame, q)
      BY <1>7, <1>8, <1>10, <2>0
    <2>5. \A h \in 0..max_frame : \A q \in Pages :
                /\ LatestOf(frame_cache'[q], h) = LatestOf(frame_cache[q], h)
                /\ ContentUpTo(h, q)' = ContentUpTo(h, q)
      BY <1>7, <1>10
    <2>6. \A q \in Pages : q > image'.pages[PAGE_1] =>
                LatestOf(frame_cache'[q], max_frame') <= shared_max
      BY <1>2, <1>7, <1>13, LevelNow
    <2>7. /\ image.pages[PAGE_1] <= image'.pages[PAGE_1] /\ image'.pages[PAGE_1] \in Nat
          /\ max_frame <= max_frame' /\ max_frame' \in Nat
      BY <1>2, <1>7, <1>13, LogFacts, PagesNat
    <2>8. /\ tx_state = "Write" /\ tx_state' = tx_state /\ shared_max' = shared_max /\ marks' = marks
          /\ (savepoints = <<>> => new = <<>>)
      BY <1>1, <1>2, <1>7, <1>19
    <2> QED  BY <2>1, <2>2, <2>3, <2>4, <2>5, <2>6, <2>7, <2>8, LevelsEdited
  <1>21. \A k \in 1..Len(new) : new[k].page \in dirty_pages'
    BY <1>1, <1>19
  <1>22. Journal(new)
    BY <1>1, <1>18
  <1> QED  BY <1>1, <1>4, <1>7, <1>8, <1>9, <1>12, <1>13, <1>14, <1>15, <1>16, <1>17, <1>19, <1>20, <1>21, <1>22, ImageEdited

LEMMA ImageAllocatePage ==
    ASSUME ImageInv, NestInv', AllocatePage
    PROVE  ImageInv'
  <1>1. PICK n : n = DbSize + 1
    OBVIOUS
  <1>2. /\ running /\ n <= MaxPages
        /\ Journal(BeforeImage(PAGE_1) \o BeforeImage(n)) /\ dirty_pages' = dirty_pages \union {PAGE_1, n}
        /\ cache' = [cache EXCEPT ![PAGE_1] = Dirtied(n), ![n] = Dirtied(0)]
        /\ image' = [image EXCEPT !.pages[PAGE_1] = n, !.pages[n] = 0]
        /\ UNCHANGED <<log, conn>> /\ marks' = marks /\ committed' = committed /\ writes' = writes
    BY <1>1 DEF AllocatePage
  <1>3. /\ LogTypes /\ CacheTypes /\ GhostTypes /\ Control /\ Sizes /\ LogInv /\ CacheInv /\ DirtyInv
        /\ SeesItsImage /\ CommittedIsShared /\ tx_state = "Write" /\ NestInv
    BY <1>2, TypeParts DEF ImageInv, Control
  <1>4. /\ DbSize = image.pages[PAGE_1] /\ DbSize \in Pages
        /\ \A q \in 1..DbSize : q \in Pages /\ PageSeen(q) = image.pages[q]
    BY <1>3, SeenPages
  <1>5. PICK size : size = image.pages[PAGE_1]
    OBVIOUS
  <1>6. /\ size \in Pages /\ size \in Nat /\ n = size + 1 /\ n \in Pages /\ n # PAGE_1 /\ n \in Nat
        /\ PAGE_1 \in 1..DbSize /\ PAGE_1 \in Pages /\ DbSize = size
    <2>1. DbSize = size /\ size \in Nat /\ size >= 1 /\ MaxPages \in Nat
      BY <1>4, <1>5, PagesAre
    <2> QED  BY <1>1, <1>2, <1>4, <2>1, FirstPage DEF Pages, PAGE_1
  <1>7. n \in Content /\ 0 \in Content
    BY <1>2, <1>6, SizeAssumption, LimitAssumption DEF Content
  <1>8. /\ frames' = frames /\ frame_cache' = frame_cache /\ shared_max' = shared_max /\ max_frame' = max_frame
        /\ tx_state' = tx_state /\ fk' = fk
    BY <1>2 DEF log, conn
  <1>9. /\ image' \in Image /\ image'.fk = image.fk
        /\ \A q \in Pages : image'.pages[q] = IF q = PAGE_1 THEN n ELSE IF q = n THEN 0 ELSE image.pages[q]
    <2>1. image \in Image
      BY <1>3 DEF GhostTypes
    <2>2. image.pages \in [Pages -> Content] /\ image.fk \in Fks
      BY <2>1 DEF Image
    <2>3. PICK P : P = [image.pages EXCEPT ![PAGE_1] = n, ![n] = 0]
      OBVIOUS
    <2>4. P \in [Pages -> Content]
          /\ \A q \in Pages : P[q] = IF q = PAGE_1 THEN n ELSE IF q = n THEN 0 ELSE image.pages[q]
      BY <1>6, <1>7, <2>2, <2>3
    <2>5. image' = [image EXCEPT !.pages = P]
      BY <1>2, <2>1, <2>3 DEF Image
    <2>6. image' \in Image /\ image'.pages = P /\ image'.fk = image.fk
      BY <2>1, <2>4, <2>5 DEF Image
    <2> QED  BY <2>4, <2>6
  <1>10. /\ \A q \in Pages : cache'[q] = IF q = PAGE_1 THEN Dirtied(n) ELSE IF q = n THEN Dirtied(0) ELSE cache[q]
         /\ CacheTypes'
    <2>1. /\ Dirtied(n) \in [used : BOOLEAN, ver : Content, dirty : BOOLEAN, restored : BOOLEAN]
          /\ Dirtied(0) \in [used : BOOLEAN, ver : Content, dirty : BOOLEAN, restored : BOOLEAN]
      BY <1>7, DirtiedTyped
    <2> QED  BY <1>2, <1>3, <1>6, <2>1 DEF CacheTypes
  <1>11. \A h, q : ContentUpTo(h, q)' = ContentUpTo(h, q)
    BY <1>8, ContentUnchanged
  <1>12. /\ Dirtied(n).used = TRUE /\ Dirtied(n).ver = n /\ Dirtied(n).dirty = TRUE
         /\ Dirtied(0).used = TRUE /\ Dirtied(0).ver = 0 /\ Dirtied(0).dirty = TRUE
    BY <1>7, DirtiedTyped
  <1>13. CacheInv'
    <2>1. ASSUME NEW q \in Pages, cache'[q].used
          PROVE  IF cache'[q].dirty \/ cache'[q].restored THEN q \in dirty_pages'
                 ELSE cache'[q].ver = ContentUpTo(max_frame, q)'
      <3>1. CASE q = PAGE_1
        BY <1>2, <1>10, <1>12, <3>1
      <3>2. CASE q = n /\ q # PAGE_1
        BY <1>2, <1>10, <1>12, <3>2
      <3>3. CASE q # PAGE_1 /\ q # n
        <4>1. cache'[q] = cache[q] /\ ContentUpTo(max_frame, q)' = ContentUpTo(max_frame, q)
          BY <1>8, <1>10, <1>11, <3>3
        <4> QED  BY <1>2, <1>3, <2>1, <4>1 DEF CacheInv
      <3> QED  BY <3>1, <3>2, <3>3
    <2> QED  BY <2>1 DEF CacheInv
  <1>14. image'.pages[PAGE_1] = n
    BY <1>6, <1>9
  <1>15. SeesItsImage'
    <2>1. ASSUME NEW q \in 1..n  PROVE PageSeen(q)' = image'.pages[q]
      <3>0. q \in Pages
        BY <1>6, <2>1, PagesAre
      <3>1. CASE q = PAGE_1
        BY <1>9, <1>10, <1>12, <3>0, <3>1 DEF PageSeen
      <3>2. CASE q = n /\ q # PAGE_1
        BY <1>9, <1>10, <1>12, <3>0, <3>2 DEF PageSeen
      <3>3. CASE q # PAGE_1 /\ q # n
        <4>0. q \in 1..DbSize
          BY <1>6, <2>1, <3>3
        <4>1. PageSeen(q)' = PageSeen(q)
          BY <1>8, <1>10, <1>11, <3>0, <3>3 DEF PageSeen
        <4> QED  BY <1>4, <1>9, <3>0, <3>3, <4>0, <4>1
      <3> QED  BY <3>1, <3>2, <3>3
    <2>2. fk' = image'.fk
      BY <1>3, <1>8, <1>9 DEF SeesItsImage
    <2> QED  BY <1>14, <2>1, <2>2 DEF SeesItsImage
  <1>16. LogTypes' /\ CommittedIsShared'
    BY <1>2, <1>3, <1>8, <1>11 DEF LogTypes, CommittedIsShared
  <1>17. LogInv'
    BY <1>2, <1>3, <1>8 DEF LogInv
  <1>18. dirty_pages \subseteq dirty_pages' /\ dirty_pages' \subseteq 1..image'.pages[PAGE_1]
    <2>1. dirty_pages \subseteq 1..size
      BY <1>3, <1>5 DEF DirtyInv
    <2> QED  BY <1>2, <1>6, <1>14, <2>1 DEF PAGE_1
  <1>19. PICK new : new = BeforeImage(PAGE_1)
    OBVIOUS
  <1>20. /\ new \in Seq(PageImage) /\ (savepoints = <<>> => new = <<>>)
         /\ \A k \in 1..Len(new) : /\ new[k].page = PAGE_1 /\ new[k].ver = image.pages[PAGE_1]
                                   /\ PAGE_1 <= savepoints[Depth].db_size
         /\ Depth > 0 /\ PAGE_1 <= savepoints[Depth].db_size =>
               PAGE_1 \in savepoints[Depth].bitmap \/ \E k \in 1..Len(new) : new[k].page = PAGE_1
    <2>1. PICK one \in 1..DbSize : one = PAGE_1
      BY <1>6
    <2>2. new = BeforeImage(one)
      BY <1>19, <2>1
    <2>3. /\ new \in Seq(PageImage) /\ (savepoints = <<>> => new = <<>>)
          /\ \A k \in 1..Len(new) : /\ new[k].page = one /\ new[k].ver = image.pages[one]
                                    /\ one <= savepoints[Depth].db_size
          /\ Depth > 0 /\ one <= savepoints[Depth].db_size =>
                one \in savepoints[Depth].bitmap \/ \E k \in 1..Len(new) : new[k].page = one
      BY <1>3, <2>2, BeforeImageFacts
    <2> QED  BY <2>1, <2>3
  <1>21. /\ Depth \in Nat /\ (Depth > 0 => savepoints[Depth].db_size <= size)
         /\ \A q \in Pages : q > size => LatestOf(frame_cache[q], max_frame) <= shared_max
    BY <1>3, <1>5, LevelNow
  <1>22. Depth > 0 => ~(n <= savepoints[Depth].db_size)
    <2>1. ASSUME Depth > 0  PROVE savepoints[Depth].db_size \in Nat
      <3>1. StackTypes /\ Depth \in 1..Len(savepoints)
        BY <1>21, <2>1, TypeParts DEF ImageInv, Depth
      <3> QED  BY <3>1, StackFacts, PagesNat
    <2> QED  BY <1>6, <1>21, <2>1
  <1>23. Journal(new)
    <2>1. ~Required(n)
      <3>1. savepoints # <<>> => Depth > 0 /\ Last(savepoints) = savepoints[Depth]
        BY <1>3, EndBounds DEF NestInv, Depth, Last
      <3> QED  BY <1>22, <3>1 DEF Required
    <2>2. BeforeImage(n) = <<>>
      BY <2>1 DEF BeforeImage
    <2>3. new \o <<>> = new
      BY <1>20
    <2> QED  BY <1>2, <1>19, <2>2, <2>3
  <1>24. LevelInv'
    <2>0. PICK X : X = {PAGE_1, n}
      OBVIOUS
    <2>1. IsSeq(new)
      BY <1>20 DEF IsSeq
    <2>2. InJournal(X, new)
      BY <1>20, <1>22, <2>0 DEF InJournal
    <2>3. \A k \in 1..Len(new) : /\ new[k].page <= savepoints[Depth].db_size /\ new[k].page \in Pages
                                 /\ new[k].ver = image.pages[new[k].page]
      BY <1>6, <1>20
    <2>4. \A q \in Pages \ X : /\ image'.pages[q] = image.pages[q]
                               /\ ContentUpTo(max_frame, q)' = ContentUpTo(max_frame, q)
      BY <1>8, <1>9, <1>11, <2>0
    <2>5. \A h \in 0..max_frame : \A q \in Pages :
                /\ LatestOf(frame_cache'[q], h) = LatestOf(frame_cache[q], h)
                /\ ContentUpTo(h, q)' = ContentUpTo(h, q)
      BY <1>8, <1>11
    <2>6. \A q \in Pages : q > image'.pages[PAGE_1] =>
                LatestOf(frame_cache'[q], max_frame') <= shared_max
      <3>1. \A q \in Pages : q > n => q > size
        BY <1>6, PagesNat
      <3> QED  BY <1>8, <1>14, <1>21, <3>1
    <2>7. /\ image.pages[PAGE_1] <= image'.pages[PAGE_1] /\ image'.pages[PAGE_1] \in Nat
          /\ max_frame <= max_frame' /\ max_frame' \in Nat
      <3>1. max_frame \in Nat
        BY <1>3, LogFacts
      <3> QED  BY <1>5, <1>6, <1>8, <1>14, <3>1
    <2>8. /\ tx_state = "Write" /\ tx_state' = tx_state /\ shared_max' = shared_max /\ marks' = marks
          /\ (savepoints = <<>> => new = <<>>)
      BY <1>2, <1>3, <1>8, <1>20
    <2> QED  BY <1>23, <2>1, <2>2, <2>3, <2>4, <2>5, <2>6, <2>7, <2>8, LevelsEdited
  <1>25. \A k \in 1..Len(new) : new[k].page \in dirty_pages'
    BY <1>2, <1>20
  <1>26. writes' \in 0..MaxWrites
    BY <1>2, <1>3 DEF Control
  <1> QED  BY <1>2, <1>6, <1>8, <1>9, <1>10, <1>13, <1>14, <1>15, <1>16, <1>17, <1>18, <1>20, <1>23, <1>24, <1>25, <1>26, ImageEdited

LEMMA ImageSpillPage ==
    ASSUME ImageInv, NestInv', NEW p \in Pages, SpillPage(p)
    PROVE  ImageInv'
  <1>1. PICK w : w = max_frame + 1
    OBVIOUS
  <1>2. PICK e : e = [page |-> p, ver |-> cache[p].ver]
    OBVIOUS
  <1>3. /\ running /\ max_frame < MaxFrames /\ cache[p].used /\ cache[p].dirty
        /\ Journal(BeforeImage(p)) /\ dirty_pages' = dirty_pages
        /\ frames' = SubSeq(frames, 1, max_frame) \o <<e>>
        /\ frame_cache' = Cached(frame_cache, p, w) /\ max_frame' = w
        /\ cache' = [cache EXCEPT ![p].dirty = FALSE]
        /\ shared_max' = shared_max /\ UNCHANGED conn /\ image' = image /\ marks' = marks
        /\ committed' = committed /\ writes' = writes
    BY <1>1, <1>2 DEF SpillPage, SpillJournal, ghosts
  <1>4. /\ LogTypes /\ CacheTypes /\ GhostTypes /\ Control /\ Sizes /\ LogInv /\ CacheInv /\ DirtyInv
        /\ SeesItsImage /\ CommittedIsShared /\ tx_state = "Write" /\ NestInv
    BY <1>3, TypeParts DEF ImageInv, Control
  <1>5. /\ DbSize = image.pages[PAGE_1] /\ DbSize \in Pages /\ dirty_pages \subseteq 1..DbSize
        /\ \A q \in 1..DbSize : q \in Pages /\ PageSeen(q) = image.pages[q]
    BY <1>4, SeenPages
  <1>6. p \in dirty_pages /\ p \in 1..DbSize
    BY <1>3, <1>4, <1>5 DEF CacheInv
  <1>7. PICK m : m = max_frame
    OBVIOUS
  <1>8. /\ m \in Nat /\ w = m + 1 /\ w \in 1..MaxFrames /\ shared_max \in Nat /\ shared_max <= m
        /\ m \in 0..Len(frames) /\ w \in Nat
        /\ \A q \in Pages : TopOf(frame_cache[q]) <= m /\ frame_cache[q] \in Seq(FrameNumber)
    <2>1. /\ max_frame \in Nat /\ shared_max \in Nat /\ Len(frames) \in Nat
          /\ \A q \in Pages : frame_cache[q] \in Seq(FrameNumber)
      BY <1>4, LogFacts
    <2>2. /\ max_frame <= Len(frames) /\ shared_max <= max_frame
          /\ \A q \in Pages : TopOf(frame_cache[q]) <= max_frame
      BY <1>4 DEF LogInv
    <2> QED  BY <1>1, <1>3, <1>7, <2>1, <2>2, LimitAssumption
  <1>9. e \in PageImage /\ e.page = p /\ e.ver = cache[p].ver
    BY <1>2, <1>4 DEF PageImage, CacheTypes
  <1>10. /\ frames' \in Seq(PageImage) /\ Len(frames') = w
         /\ \A k \in 1..m : frames'[k] = frames[k] /\ k \in DOMAIN frames /\ k \in DOMAIN frames'
         /\ frames'[w] = e /\ w \in DOMAIN frames'
    <2>1. PICK new : new = <<e>>
      OBVIOUS
    <2>2. new \in Seq(PageImage) /\ Len(new) = 1 /\ new[1] = e /\ 1 \in 1..Len(new)
      BY <1>9, <2>1
    <2>3. frames \in Seq(PageImage) /\ frames' = SubSeq(frames, 1, m) \o new
      BY <1>3, <1>4, <1>7, <2>1, LogFacts
    <2>4. /\ frames' \in Seq(PageImage) /\ Len(frames') = m + Len(new)
          /\ \A k \in 1..m : frames'[k] = frames[k] /\ k \in DOMAIN frames /\ k \in DOMAIN frames'
          /\ \A i \in 1..Len(new) : frames'[m + i] = new[i] /\ m + i \in DOMAIN frames'
      BY <1>8, <2>2, <2>3, FramesAppended
    <2> QED  BY <1>8, <2>2, <2>4
  <1>11. /\ frame_cache' \in [Pages -> Seq(1..MaxFrames)]
         /\ \A q \in Pages : q # p => frame_cache'[q] = frame_cache[q]
         /\ TopOf(frame_cache'[p]) = w
         /\ \A h \in Nat : LatestOf(frame_cache'[p], h) = IF w <= h THEN w ELSE LatestOf(frame_cache[p], h)
    <2>1. frame_cache \in [Pages -> Seq(1..MaxFrames)] /\ w \in 1..MaxFrames
      BY <1>4, <1>8 DEF LogTypes
    <2>2. frame_cache' = Cached(frame_cache, p, w)
      BY <1>3
    <2> QED  BY <2>1, <2>2, CachedFacts
  <1>12. LogTypes'
    BY <1>3, <1>4, <1>8, <1>10, <1>11 DEF LogTypes
  <1>13. tx_state' = tx_state /\ fk' = fk
    BY <1>3 DEF conn
  <1>14. LogInv'
    <2>1. \A q \in Pages : TopOf(frame_cache'[q]) <= w
      <3>1. ASSUME NEW q \in Pages  PROVE TopOf(frame_cache'[q]) <= w
        <4>1. CASE q = p
          BY <1>8, <1>11, <4>1
        <4>2. CASE q # p
          <5>1. TopOf(frame_cache[q]) <= m /\ frame_cache[q] \in Seq(FrameNumber) /\ LatestOf(frame_cache[q], m) \in 0..m
            BY <1>8, LatestRange
          <5>2. LatestOf(frame_cache[q], m) = TopOf(frame_cache[q])
            BY <1>8, <5>1, LatestIsTop
          <5> QED  BY <1>8, <1>11, <4>2, <5>1, <5>2
        <4> QED  BY <4>1, <4>2
      <3> QED  BY <3>1
    <2>2. \A q \in Pages \ dirty_pages : TopOf(frame_cache'[q]) <= shared_max
      BY <1>4, <1>6, <1>11 DEF LogInv
    <2>3. shared_max <= Len(frames') /\ max_frame' <= Len(frames') /\ shared_max <= max_frame'
      BY <1>3, <1>8, <1>10
    <2> QED  BY <1>3, <1>4, <1>13, <2>1, <2>2, <2>3 DEF LogInv
  <1>15. \A h \in 0..m : \A q \in Pages :
            /\ LatestOf(frame_cache'[q], h) = LatestOf(frame_cache[q], h)
            /\ ContentUpTo(h, q)' = ContentUpTo(h, q)
    <2>1. ASSUME NEW h \in 0..m, NEW q \in Pages
          PROVE  /\ LatestOf(frame_cache'[q], h) = LatestOf(frame_cache[q], h)
                 /\ ContentUpTo(h, q)' = ContentUpTo(h, q)
      <3>1. LatestOf(frame_cache'[q], h) = LatestOf(frame_cache[q], h)
        <4>1. CASE q = p
          BY <1>8, <1>11, <2>1, <4>1
        <4>2. CASE q # p
          BY <1>11, <4>2
        <4> QED  BY <4>1, <4>2
      <3>2. h \in Nat /\ h <= m
        BY <1>8, <2>1
      <3>3. LatestOf(frame_cache[q], h) \in 0..h
        BY <1>8, <3>2, LatestRange
      <3>4. LatestOf(frame_cache[q], h) \in 0..m
        BY <1>8, <3>2, <3>3
      <3> QED  BY <1>8, <1>10, <3>1, <3>4, ContentKept
    <2> QED  BY <2>1
  <1>16. /\ ContentUpTo(max_frame, p)' = cache[p].ver
         /\ \A q \in Pages : q # p => ContentUpTo(max_frame, q)' = ContentUpTo(max_frame, q)
    <2>1. LatestOf(frame_cache'[p], w) = w /\ w # 0
      BY <1>8, <1>11
    <2>2. ContentUpTo(w, p)' = cache[p].ver
      BY <1>9, <1>10, <2>1, ContentNewest
    <2>3. ASSUME NEW q \in Pages, q # p  PROVE ContentUpTo(w, q)' = ContentUpTo(m, q)
      <3>1. TopOf(frame_cache[q]) <= m /\ frame_cache[q] \in Seq(FrameNumber) /\ LatestOf(frame_cache[q], m) \in 0..m
        BY <1>8, LatestRange
      <3>2. LatestOf(frame_cache[q], m) = TopOf(frame_cache[q])
        BY <1>8, <3>1, LatestIsTop
      <3>3. TopOf(frame_cache[q]) <= w
        BY <1>8, <3>1, <3>2
      <3>4. LatestOf(frame_cache[q], w) = TopOf(frame_cache[q])
        BY <1>8, <3>1, <3>3, LatestIsTop
      <3>5. LatestOf(frame_cache'[q], w) = LatestOf(frame_cache[q], m)
        BY <1>11, <2>3, <3>2, <3>4
      <3> QED  BY <1>8, <1>10, <3>1, <3>5, ContentKept
    <2> QED  BY <1>3, <1>7, <2>2, <2>3
  <1>17. /\ \A q \in Pages : q # p => cache'[q] = cache[q]
         /\ cache'[p].used = cache[p].used /\ cache'[p].ver = cache[p].ver /\ cache'[p].dirty = FALSE
         /\ CacheTypes'
    <2>1. PICK r : r = [cache[p] EXCEPT !.dirty = FALSE]
      OBVIOUS
    <2>2. /\ r \in [used : BOOLEAN, ver : Content, dirty : BOOLEAN, restored : BOOLEAN]
          /\ r.used = cache[p].used /\ r.ver = cache[p].ver /\ r.dirty = FALSE
      BY <1>4, <2>1 DEF CacheTypes
    <2>3. cache' = [cache EXCEPT ![p] = r]
      BY <1>3, <2>1
    <2> QED  BY <1>3, <1>4, <2>2, <2>3 DEF CacheTypes
  <1>18. CacheInv'
    <2>1. ASSUME NEW q \in Pages, cache'[q].used
          PROVE  IF cache'[q].dirty \/ cache'[q].restored THEN q \in dirty_pages'
                 ELSE cache'[q].ver = ContentUpTo(max_frame, q)'
      <3>1. CASE q = p
        BY <1>3, <1>6, <1>16, <1>17, <3>1
      <3>2. CASE q # p
        <4>1. cache'[q] = cache[q] /\ ContentUpTo(max_frame, q)' = ContentUpTo(max_frame, q)
          BY <1>16, <1>17, <3>2
        <4> QED  BY <1>3, <1>4, <2>1, <4>1 DEF CacheInv
      <3> QED  BY <3>1, <3>2
    <2> QED  BY <2>1 DEF CacheInv
  <1>19. SeesItsImage'
    <2>1. ASSUME NEW q \in 1..image.pages[PAGE_1]  PROVE PageSeen(q)' = image.pages[q]
      <3>0. q \in Pages /\ PageSeen(q) = image.pages[q]
        BY <1>5, <2>1
      <3>1. CASE q = p
        BY <1>3, <1>17, <3>0, <3>1 DEF PageSeen
      <3>2. CASE q # p
        <4>1. cache'[q] = cache[q] /\ ContentUpTo(max_frame, q)' = ContentUpTo(max_frame, q)
          BY <1>16, <1>17, <3>0, <3>2
        <4> QED  BY <3>0, <4>1 DEF PageSeen
      <3> QED  BY <3>1, <3>2
    <2> QED  BY <1>3, <1>4, <1>13, <2>1 DEF SeesItsImage
  <1>20. CommittedIsShared'
    <2>1. \A q \in 1..committed[PAGE_1] : q \in Pages /\ ContentUpTo(shared_max, q) = committed[q]
      BY CommittedSize
    <2>2. \A q \in Pages : ContentUpTo(shared_max, q)' = ContentUpTo(shared_max, q)
      BY <1>3, <1>8, <1>15
    <2> QED  BY <1>3, <2>1, <2>2 DEF CommittedIsShared
  <1>21. PICK new : new = BeforeImage(p)
    OBVIOUS
  <1>22. /\ new \in Seq(PageImage) /\ (savepoints = <<>> => new = <<>>)
         /\ \A k \in 1..Len(new) : /\ new[k].page = p /\ new[k].ver = image.pages[p]
                                   /\ p <= savepoints[Depth].db_size
         /\ Depth > 0 /\ p <= savepoints[Depth].db_size =>
               p \in savepoints[Depth].bitmap \/ \E k \in 1..Len(new) : new[k].page = p
    BY <1>4, <1>6, <1>21, BeforeImageFacts
  <1>23. Journal(new)
    BY <1>3, <1>21
  <1>24. LevelInv'
    <2>0. PICK X : X = {p}
      OBVIOUS
    <2>1. IsSeq(new)
      BY <1>22 DEF IsSeq
    <2>2. InJournal(X, new)
      BY <1>22, <2>0 DEF InJournal
    <2>3. \A k \in 1..Len(new) : /\ new[k].page <= savepoints[Depth].db_size /\ new[k].page \in Pages
                                 /\ new[k].ver = image.pages[new[k].page]
      BY <1>22
    <2>4. \A q \in Pages \ X : /\ image'.pages[q] = image.pages[q]
                               /\ ContentUpTo(max_frame, q)' = ContentUpTo(max_frame, q)
      BY <1>3, <1>16, <2>0
    <2>5. \A h \in 0..max_frame : \A q \in Pages :
                /\ LatestOf(frame_cache'[q], h) = LatestOf(frame_cache[q], h)
                /\ ContentUpTo(h, q)' = ContentUpTo(h, q)
      BY <1>7, <1>15
    <2>6. \A q \in Pages : q > image'.pages[PAGE_1] =>
                LatestOf(frame_cache'[q], max_frame') <= shared_max
      <3>1. ASSUME NEW q \in Pages, q > image.pages[PAGE_1]
            PROVE  LatestOf(frame_cache'[q], w) <= shared_max
        <4>1. q \notin dirty_pages /\ q # p
          BY <1>5, <1>6, <3>1, PagesNat
        <4>2. TopOf(frame_cache'[q]) <= shared_max /\ TopOf(frame_cache'[q]) <= w /\ frame_cache'[q] \in Seq(FrameNumber)
          BY <1>3, <1>8, <1>11, <1>13, <1>14, <3>1, <4>1, <1>4 DEF LogInv
        <4> QED  BY <1>8, <4>2, LatestIsTop
      <3> QED  BY <1>3, <3>1
    <2>7. /\ image.pages[PAGE_1] <= image'.pages[PAGE_1] /\ image'.pages[PAGE_1] \in Nat
          /\ max_frame <= max_frame' /\ max_frame' \in Nat
      <3>1. image.pages[PAGE_1] \in Nat
        BY <1>4, LevelNow
      <3> QED  BY <1>3, <1>7, <1>8, <3>1
    <2>8. /\ tx_state = "Write" /\ tx_state' = tx_state /\ shared_max' = shared_max /\ marks' = marks
          /\ (savepoints = <<>> => new = <<>>)
      BY <1>3, <1>4, <1>13, <1>22
    <2> QED  BY <1>23, <2>1, <2>2, <2>3, <2>4, <2>5, <2>6, <2>7, <2>8, LevelsEdited
  <1>25. \A k \in 1..Len(new) : new[k].page \in dirty_pages'
    BY <1>3, <1>6, <1>22
  <1>26. /\ writes' \in 0..MaxWrites /\ image' \in Image /\ image'.pages[PAGE_1] \in Pages
         /\ dirty_pages \subseteq dirty_pages' /\ dirty_pages' \subseteq 1..image'.pages[PAGE_1]
    BY <1>3, <1>4, <1>5 DEF Control, GhostTypes
  <1> QED  BY <1>3, <1>12, <1>14, <1>17, <1>18, <1>19, <1>20, <1>22, <1>23, <1>24, <1>25, <1>26, ImageEdited

-----------------------------------------------------------------------------
(* A savepoint is opened.                                                   *)

LEMMA BitmapsOpened ==
    ASSUME NestInv, Bitmaps, NEW r, r.bitmap = {}, savepoints' = Append(savepoints, r),
           subjournal' = subjournal
    PROVE  /\ Bitmaps' /\ Depth' = Depth + 1 /\ Depth \in Nat
           /\ \A i \in 1..Depth : savepoints'[i] = savepoints[i]
           /\ savepoints'[Depth'] = r
           /\ \A i \in 1..Depth' : i \in 1..Depth \/ i = Depth'
  <1>1. /\ IsSeq(savepoints) /\ Len(savepoints) \in Nat
        /\ \A i \in 1..Len(savepoints) : savepoints[i].end \in Nat
    BY EndBounds DEF NestInv, Stack
  <1>2. /\ Len(savepoints') = Len(savepoints) + 1
        /\ \A i \in 1..Len(savepoints) : savepoints'[i] = savepoints[i]
        /\ savepoints'[Len(savepoints) + 1] = r
    BY <1>1, SeqAppend
  <1>3. /\ Depth' = Depth + 1 /\ Depth \in Nat
        /\ \A i \in 1..Depth : savepoints'[i] = savepoints[i] /\ savepoints[i].end \in Nat
        /\ savepoints'[Depth'] = r
    BY <1>1, <1>2 DEF Depth
  <1>4. \A i \in 1..Depth' : i \in 1..Depth \/ i = Depth'
    BY <1>3
  <1>5. \A i \in 1..Depth' :
              \/ savepoints'[i].bitmap = {}
              \/ /\ i \in 1..Depth /\ savepoints'[i].bitmap = savepoints[i].bitmap
                 /\ savepoints'[i].start = savepoints[i].start
                 /\ savepoints'[i].end \in Nat /\ savepoints[i].end <= savepoints'[i].end
                 /\ \A k \in 1..savepoints[i].end : subjournal'[k] = subjournal[k]
    <2>1. \A x \in Nat : x <= x
      OBVIOUS
    <2>2. \A i \in 1..Depth : savepoints'[i].end \in Nat /\ savepoints[i].end <= savepoints'[i].end
      BY <1>3, <2>1
    <2> QED  BY <1>3, <1>4, <2>2
  <1> QED  BY <1>3, <1>4, <1>5, BitmapsKept

LEMMA LevelsOpened ==
    ASSUME ImageInv, tx_state # "None", UNCHANGED log, subjournal' = subjournal,
           image'.pages = image.pages, shared_max <= max_frame,
           NEW r, savepoints' = Append(savepoints, r), r.bitmap = {}, r.start = Len(subjournal),
           r.db_size = DbSize, r.wal_max = max_frame,
           NEW mk, marks' = Append(marks, mk), mk.pages = image.pages
    PROVE  LevelInv'
  <1>1. /\ NestInv /\ TypeOK /\ Sizes /\ LevelInv /\ Bitmaps /\ GhostTypes
        /\ frames' = frames /\ frame_cache' = frame_cache /\ shared_max' = shared_max /\ max_frame' = max_frame
    BY TypeParts DEF ImageInv, log
  <1>2. /\ Depth' = Depth + 1 /\ Depth \in Nat
        /\ \A i \in 1..Depth : savepoints'[i] = savepoints[i]
        /\ savepoints'[Depth'] = r
    BY <1>1, BitmapsOpened
  <1>3. /\ Depth \in Nat /\ Now \in Levels /\ Now = Depth + 1
        /\ \A i \in 1..Depth : i \in Levels
        /\ \A i \in Levels : i \in Nat /\ (i \in 1..Depth \/ i = Now)
        /\ \A i \in 1..Depth : /\ Img(i) = marks[i].pages /\ Pos(i) = savepoints[i].start
                               /\ Wal(i) = savepoints[i].wal_max
        /\ Img(Now) = image.pages /\ Pos(Now) = Len(subjournal) /\ Wal(Now) = max_frame
    BY <1>1, LevelFacts
  <1>4. \A i \in 1..Depth : marks'[i] = marks[i]
    <2>1. marks \in Seq(Image) /\ Len(marks) = Depth
      BY <1>1 DEF GhostTypes, Sizes
    <2>2. IsSeq(marks)
      BY <2>1 DEF IsSeq
    <2> QED  BY <2>1, <2>2, SeqAppend
  <1>5. marks'[Depth'] = mk
    <2>1. marks \in Seq(Image) /\ Len(marks) = Depth
      BY <1>1 DEF GhostTypes, Sizes
    <2>2. IsSeq(marks)
      BY <2>1 DEF IsSeq
    <2> QED  BY <1>2, <2>1, <2>2, SeqAppend
  <1>6. PICK lev : lev = [a \in Levels' |-> IF a <= Depth THEN a ELSE Now]
    OBVIOUS
  <1>7. /\ \A a \in Levels' : a \in Nat /\ (a \in 1..Depth \/ a = Depth' \/ a = Now')
        /\ Depth' = Now /\ Now' = Depth' + 1 /\ ~(Now' <= Depth') /\ ~(Depth' <= Depth) /\ ~(Now' <= Depth)
        /\ Depth' \in Nat /\ Depth' \in Levels' /\ Now' \in Levels' /\ Depth' <= Depth'
        /\ \A a \in 1..Depth : a \in Levels' /\ a <= Depth' /\ a <= Depth
    BY <1>2 DEF Levels, Now
  <1>8. ASSUME NEW a \in 1..Depth
        PROVE  lev[a] = a /\ Img(a)' = Img(a) /\ Pos(a)' = Pos(a) /\ Wal(a)' = Wal(a)
               /\ savepoints'[a].db_size = Img(a)[PAGE_1]
    <2>1. lev[a] = a
      BY <1>6, <1>7, <1>8
    <2>2. Img(a)' = Img(a) /\ Pos(a)' = Pos(a) /\ Wal(a)' = Wal(a)
      BY <1>2, <1>3, <1>4, <1>7, <1>8 DEF Img, Pos, Wal
    <2>3. savepoints[a].db_size = Img(a)[PAGE_1]
      BY <1>1, <1>3, <1>7, <1>8 DEF LevelInv, LevelOK
    <2> QED  BY <1>2, <1>8, <2>1, <2>2, <2>3
  <1>9. DbSize = image.pages[PAGE_1]
    BY SeenPages
  <1>10. /\ lev[Depth'] = Now /\ lev[Now'] = Now
         /\ Img(Depth)' = image.pages /\ Pos(Depth)' = Len(subjournal) /\ Wal(Depth)' = max_frame
         /\ Img(Now)' = image.pages /\ Pos(Now)' = Len(subjournal) /\ Wal(Now)' = max_frame
    BY <1>1, <1>2, <1>5, <1>6, <1>7 DEF Img, Pos, Wal
  <1>11. \A h, q : ContentUpTo(h, q)' = ContentUpTo(h, q)
    BY <1>1, ContentUnchanged
  <1>12. ASSUME NEW a \in Levels'
         PROVE  /\ lev[a] \in Levels
                /\ Img(a)' = Img(lev[a]) /\ Pos(a)' = Pos(lev[a]) /\ Wal(a)' = Wal(lev[a])
                /\ a <= Depth' => savepoints'[a].db_size = Img(lev[a])[PAGE_1]
                /\ tx_state' = "Write" \/ Depth' > 0 => shared_max <= Wal(lev[a])
    <2>1. CASE a \in 1..Depth
      <3>1. LevelOK(a) /\ Depth > 0
        BY <1>1, <1>3, <2>1 DEF LevelInv
      <3> QED  BY <1>3, <1>8, <2>1, <3>1 DEF LevelOK
    <2>2. CASE a = Depth'
      BY <1>2, <1>3, <1>9, <1>10, <2>2
    <2>3. CASE a = Now'
      BY <1>3, <1>7, <1>10, <2>3
    <2> QED  BY <1>7, <2>1, <2>2, <2>3
  <1>13. ASSUME NEW a \in Levels'
         PROVE  /\ \A k \in 1..Pos(lev[a]) : subjournal'[k] = subjournal[k]
                /\ \A p \in Pages :
                     /\ LatestOf(frame_cache'[p], Wal(lev[a])) = LatestOf(frame_cache[p], Wal(lev[a]))
                     /\ ContentUpTo(Wal(a), p)' = ContentUpTo(Wal(lev[a]), p)
    BY <1>1, <1>11, <1>12
  <1>14. ASSUME NEW b \in Levels', NEW a \in 1..b - 1
         PROVE  a \in Levels' /\ (lev[a] = lev[b] \/ lev[a] \in 1..lev[b] - 1)
    <2>1. a \in 1..Depth' /\ a \in Levels' /\ (a \in 1..Depth \/ a = Depth') /\ a \in Nat /\ b \in Nat
      BY <1>2, <1>7, <1>14 DEF Levels, Now
    <2>2. CASE b \in 1..Depth
      <3>1. a \in 1..Depth
        BY <1>2, <1>14, <2>2
      <3> QED  BY <1>8, <1>14, <2>1, <2>2, <3>1
    <2>3. CASE b \notin 1..Depth
      <3>1. lev[b] = Now
        BY <1>7, <1>10, <2>3
      <3>2. CASE a \in 1..Depth
        <4>1. a \in 1..Now - 1
          BY <1>3, <3>2
        <4> QED  BY <1>8, <2>1, <3>1, <3>2, <4>1
      <3>3. CASE a = Depth'
        BY <1>10, <2>1, <3>1, <3>3
      <3> QED  BY <2>1, <3>2, <3>3
    <2> QED  BY <2>2, <2>3
  <1> QED  BY <1>1, <1>7, <1>12, <1>13, <1>14, LevelsMapped

LEMMA MarksOpened ==
    ASSUME GhostTypes, Sizes, Depth' = Depth + 1, NEW mk \in Image, mk.pages[PAGE_1] \in Pages,
           NEW old \in Seq(Image), Len(old) = Depth,
           \A i \in 1..Depth : old[i].pages[PAGE_1] \in Pages, marks' = Append(old, mk)
    PROVE  /\ marks' \in Seq(Image) /\ Len(marks') = Depth' /\ marks'[Depth'] = mk
           /\ \A i \in 1..Depth : marks'[i] = old[i]
           /\ \A i \in 1..Depth' : marks'[i].pages[PAGE_1] \in Pages
  <1>1. Depth \in Nat
    OBVIOUS
  <1>2. marks' \in Seq(Image)
    OBVIOUS
  <1>3. IsSeq(old)
    BY DEF IsSeq
  <1>4. /\ Len(marks') = Depth + 1 /\ \A i \in 1..Depth : marks'[i] = old[i]
        /\ marks'[Depth + 1] = mk
    BY <1>3, SeqAppend
  <1>5. \A i \in 1..Depth' : i \in 1..Depth \/ i = Depth'
    BY <1>1
  <1> QED  BY <1>2, <1>4, <1>5

LEMMA ImageOpened ==
    ASSUME ImageInv, NestInv', tx_state # "None", tx_state' \in {tx_state, "Write"}, UNCHANGED log,
           cache' = cache, dirty_pages' = dirty_pages, committed' = committed,
           subjournal' = subjournal, image' = image, fk' = fk, ConnTypes', Control', shared_max <= max_frame,
           NEW r \in SavepointType, savepoints' = Append(savepoints, r), r.bitmap = {},
           r.start = Len(subjournal), r.db_size = DbSize, r.wal_max = max_frame,
           NEW mk \in Image, marks' = Append(marks, mk), mk.pages = image.pages,
           r.kind # "Statement" => r.fk = mk.fk, tx_state' # "Write" => r.fk = fk,
           running' /\ ~auto_commit' => mk.fk = stmt_fk'
    PROVE  ImageInv'
  <1>1. /\ LogTypes /\ CacheTypes /\ StackTypes /\ GhostTypes /\ Sizes /\ LogInv /\ CacheInv /\ Bitmaps
        /\ DirtyInv /\ Flat /\ LevelInv /\ Counter /\ SeesItsImage /\ CommittedIsShared /\ NestInv
    BY TypeParts DEF ImageInv
  <1>2. /\ frames' = frames /\ frame_cache' = frame_cache /\ shared_max' = shared_max /\ max_frame' = max_frame
    BY DEF log
  <1>3. /\ Bitmaps' /\ Depth' = Depth + 1 /\ Depth \in Nat
        /\ \A i \in 1..Depth : savepoints'[i] = savepoints[i]
        /\ savepoints'[Depth'] = r
        /\ \A i \in 1..Depth' : i \in 1..Depth \/ i = Depth'
    BY <1>1, BitmapsOpened
  <1>4. /\ marks' \in Seq(Image) /\ Len(marks') = Depth' /\ marks'[Depth'] = mk
        /\ \A i \in 1..Depth : marks'[i] = marks[i]
        /\ \A i \in 1..Depth' : marks'[i].pages[PAGE_1] \in Pages
    <2>1. marks \in Seq(Image) /\ Len(marks) = Depth /\ mk.pages[PAGE_1] \in Pages
          /\ \A i \in 1..Depth : marks[i].pages[PAGE_1] \in Pages
      BY <1>1 DEF GhostTypes, Sizes
    <2> QED  BY <1>1, <1>3, <2>1, MarksOpened
  <1>5. \A h, q : ContentUpTo(h, q)' = ContentUpTo(h, q)
    BY <1>2, ContentUnchanged
  <1>6. \A p : PageSeen(p)' = PageSeen(p)
    BY <1>2, <1>5 DEF PageSeen
  <1>7. TypeOK'
    <2>1. StackTypes'
      BY <1>1, StackOpened
    <2>2. LogTypes' /\ CacheTypes' /\ GhostTypes'
      BY <1>1, <1>2, <1>4 DEF LogTypes, CacheTypes, GhostTypes
    <2> QED  BY <2>1, <2>2, TypePartsAfter
  <1>8. Sizes'
    BY <1>1, <1>4 DEF Sizes
  <1>9. LogInv'
    <2>1. CASE tx_state' = tx_state
      BY <1>1, <1>2, <2>1 DEF LogInv
    <2>2. CASE tx_state # "Write" /\ tx_state' = "Write"
      <3>1. max_frame = shared_max
        BY <1>1, <2>2, LogFacts DEF LogInv
      <3>2. \A p \in Pages : TopOf(frame_cache[p]) <= shared_max
        BY <1>1, <2>2 DEF LogInv
      <3> QED  BY <1>1, <1>2, <2>2, <3>1, <3>2 DEF LogInv
    <2> QED  BY <2>1, <2>2
  <1>10. CacheInv' /\ CommittedIsShared'
    BY <1>1, <1>2, <1>5 DEF CacheInv, CommittedIsShared
  <1>11. DirtyInv'
    BY <1>1 DEF DirtyInv
  <1>12. LevelInv'
    BY LevelsOpened
  <1>13. Flat'
    <2>1. ASSUME tx_state' # "Write"
          PROVE  /\ max_frame' = shared_max' /\ Len(subjournal') = 0
                 /\ \A i \in 1..Depth' :
                     /\ savepoints'[i].wal_max = shared_max' /\ savepoints'[i].bitmap = {}
                     /\ savepoints'[i].db_size = committed'[PAGE_1] /\ savepoints'[i].fk = fk'
      <3>1. tx_state # "Write" /\ max_frame = shared_max
        BY <1>1, <2>1, LogFacts DEF LogInv
      <3>2. DbSize = committed[PAGE_1]
        BY <3>1, CommittedSize
      <3>3. /\ Len(subjournal) = 0
            /\ \A i \in 1..Depth :
                 /\ savepoints[i].wal_max = shared_max /\ savepoints[i].bitmap = {}
                 /\ savepoints[i].db_size = committed[PAGE_1] /\ savepoints[i].fk = fk
        <4>1. CASE Depth = 0
          BY <1>1, <4>1, NoSavepoints
        <4>2. CASE Depth > 0
          BY <1>1, <3>1, <4>2 DEF Flat
        <4> QED  BY <1>3, <4>1, <4>2
      <3> QED  BY <1>2, <1>3, <2>1, <3>1, <3>2, <3>3, ZenonT(40)
    <2> QED  BY <2>1 DEF Flat
  <1>14. Counter'
    BY <1>1, <1>3, <1>4 DEF Counter
  <1>15. SeesItsImage'
    BY <1>1, <1>6 DEF SeesItsImage
  <1> QED  BY <1>3, <1>7, <1>8, <1>9, <1>10, <1>11, <1>12, <1>13, <1>14, <1>15 DEF ImageInv

(* Outside a transaction a savepoint is at the last commit.                 *)
LEMMA ImageOpenedFirst ==
    ASSUME ImageInv, NestInv', tx_state = "None", tx_state' = tx_state, UNCHANGED log,
           cache' = cache, dirty_pages' = dirty_pages, committed' = committed,
           subjournal' = subjournal, image' = image, fk' = fk, ConnTypes', Control', shared_max = max_frame,
           NEW r \in SavepointType, savepoints' = Append(savepoints, r), r.bitmap = {},
           r.db_size = DbSize, r.wal_max = max_frame, r.fk = fk,
           NEW mk \in Image, marks' = Append(marks, mk), mk.pages = image.pages, ~running'
    PROVE  ImageInv'
  <1>1. /\ LogTypes /\ CacheTypes /\ StackTypes /\ GhostTypes /\ Sizes /\ LogInv /\ CacheInv /\ Bitmaps
        /\ DirtyInv /\ CommittedIsShared /\ NestInv
    BY TypeParts DEF ImageInv
  <1>2. /\ frames' = frames /\ frame_cache' = frame_cache /\ shared_max' = shared_max /\ max_frame' = max_frame
    BY DEF log
  <1>3. /\ Bitmaps' /\ Depth' = Depth + 1 /\ Depth \in Nat
        /\ \A i \in 1..Depth : savepoints'[i] = savepoints[i]
        /\ savepoints'[Depth'] = r
        /\ \A i \in 1..Depth' : i \in 1..Depth \/ i = Depth'
    BY <1>1, BitmapsOpened
  <1>4. /\ marks' \in Seq(Image) /\ Len(marks') = Depth'
        /\ \A i \in 1..Depth' : marks'[i].pages[PAGE_1] \in Pages
    <2>1. marks \in Seq(Image) /\ Len(marks) = Depth /\ mk.pages[PAGE_1] \in Pages
          /\ \A i \in 1..Depth : marks[i].pages[PAGE_1] \in Pages
      BY <1>1 DEF GhostTypes, Sizes
    <2> QED  BY <1>1, <1>3, <2>1, MarksOpened
  <1>5. \A h, q : ContentUpTo(h, q)' = ContentUpTo(h, q)
    BY <1>2, ContentUnchanged
  <1>6. TypeOK'
    <2>1. StackTypes'
      BY <1>1, StackOpened
    <2>2. LogTypes' /\ CacheTypes' /\ GhostTypes'
      BY <1>1, <1>2, <1>4 DEF LogTypes, CacheTypes, GhostTypes
    <2> QED  BY <2>1, <2>2, TypePartsAfter
  <1>7. Sizes' /\ LogInv' /\ DirtyInv'
    BY <1>1, <1>2, <1>4 DEF Sizes, LogInv, DirtyInv
  <1>8. CacheInv' /\ CommittedIsShared'
    BY <1>1, <1>2, <1>5 DEF CacheInv, CommittedIsShared
  <1>9. Flat'
    <2>1. /\ Len(subjournal) = 0
          /\ \A i \in 1..Depth : /\ savepoints[i].wal_max = shared_max /\ savepoints[i].bitmap = {}
                                 /\ savepoints[i].db_size = committed[PAGE_1] /\ savepoints[i].fk = fk
      BY StackAtStart
    <2>2. DbSize = committed[PAGE_1]
      BY CommittedSize
    <2>3. ASSUME NEW i \in 1..Depth'
          PROVE  /\ savepoints'[i].wal_max = shared_max' /\ savepoints'[i].bitmap = {}
                 /\ savepoints'[i].db_size = committed'[PAGE_1] /\ savepoints'[i].fk = fk'
      <3>1. CASE i \in 1..Depth
        BY <1>2, <1>3, <2>1, <3>1
      <3>2. CASE i = Depth'
        <4>1. savepoints'[i] = r
          BY <1>3, <3>2
        <4> QED  BY <1>2, <2>2, <4>1
      <3> QED  BY <1>3, <2>3, <3>1, <3>2
    <2>4. max_frame' = shared_max' /\ Len(subjournal') = 0
      BY <1>2, <2>1
    <2> QED  BY <2>3, <2>4 DEF Flat
  <1>10. LevelInv'
    BY DEF LevelInv
  <1>11. Counter' /\ SeesItsImage'
    BY DEF Counter, SeesItsImage
  <1> QED  BY <1>3, <1>6, <1>7, <1>8, <1>9, <1>10, <1>11 DEF ImageInv

LEMMA ImageSavepoint ==
    ASSUME ImageInv, NestInv', Strict, NEW n \in Names, Savepoint(n)
    PROVE  ImageInv'
  <1>1. PICK r : r = Opened(n, auto_commit, fk)
    OBVIOUS
  <1>2. PICK mk : mk = [image EXCEPT !.fk = fk]
    OBVIOUS
  <1>3. /\ ~running /\ ~(max_frame < shared_max) /\ savepoints' = Append(savepoints, r)
        /\ auto_commit' = FALSE /\ marks' = Append(marks, mk) /\ UNCHANGED log
        /\ cache' = cache /\ dirty_pages' = dirty_pages /\ committed' = committed
        /\ subjournal' = subjournal /\ image' = image /\ fk' = fk /\ tx_state' = tx_state
        /\ in_use' = in_use /\ running' = running /\ stmt_fk' = stmt_fk /\ writes' = writes
    BY <1>1, <1>2 DEF Savepoint, Strict
  <1>4. /\ LogTypes /\ GhostTypes /\ ConnTypes /\ Control /\ NestInv /\ LogInv /\ SeesItsImage /\ StackTypes
    BY TypeParts DEF ImageInv
  <1>5. ConnTypes' /\ Control'
    BY <1>3, <1>4 DEF ConnTypes, Control
  <1>6. mk \in Image /\ mk.pages = image.pages /\ mk.fk = fk
    <2>1. image \in Image /\ fk \in Fks
      BY <1>4 DEF GhostTypes, ConnTypes
    <2> QED  BY <1>2, <2>1 DEF Image
  <1>7. shared_max <= max_frame /\ (tx_state # "Write" => shared_max = max_frame)
    BY <1>3, <1>4, LogFacts DEF LogInv
  <1>8. /\ r.kind = n /\ r.fk = fk /\ r.start = Len(subjournal) /\ r.bitmap = {}
        /\ r.db_size = DbSize /\ r.wal_max = max_frame
    BY <1>1, <1>4, OpenedShape DEF NestInv, Offsets
  <1>9. DbSize \in Pages
    <2>1. CASE tx_state = "None"
      BY <1>7, <2>1, CommittedSize
    <2>2. CASE tx_state # "None"
      BY <2>2, SeenPages
    <2> QED  BY <2>1, <2>2
  <1>10. r \in SavepointType
    <2>1. auto_commit \in BOOLEAN /\ fk \in Fks /\ max_frame \in 0..MaxFrames /\ JournalEnd \in Nat
      BY <1>4, StackFacts DEF ConnTypes, LogTypes, NestInv, Offsets
    <2> QED  BY <1>1, <1>9, <2>1, OpenedTyped DEF Opened
  <1>11. n # "Statement"
    BY NamesAssumption
  <1>12. CASE tx_state = "None"
    BY <1>3, <1>5, <1>6, <1>7, <1>8, <1>10, <1>12, ImageOpenedFirst
  <1>13. CASE tx_state # "None"
    BY <1>3, <1>5, <1>6, <1>7, <1>8, <1>10, <1>13, ImageOpened
  <1> QED  BY <1>12, <1>13

LEMMA ImageBeginStatement ==
    ASSUME ImageInv, NestInv', BeginStatement
    PROVE  ImageInv'
  <1>1. /\ ~running /\ running' = TRUE /\ tx_state' = "Write" /\ stmt_fk' = fk /\ ~auto_commit
        /\ ~in_use /\ in_use' = TRUE
        /\ frames' = frames /\ frame_cache' = frame_cache /\ shared_max' = shared_max
        /\ dirty_pages' = dirty_pages /\ subjournal' = subjournal /\ auto_commit' = auto_commit
        /\ fk' = fk /\ committed' = committed /\ writes' = writes
    BY DEF BeginStatement, StartStatement
  <1>2. /\ LogTypes /\ StackTypes /\ GhostTypes /\ ConnTypes /\ Control /\ Sizes /\ LogInv /\ SeesItsImage
        /\ DirtyInv /\ NestInv /\ Bitmaps /\ 0 \in Fks
    BY TypeParts, ChoiceAssumption DEF ImageInv
  <1>3. ConnTypes' /\ Control'
    BY <1>1, <1>2 DEF ConnTypes, Control
  <1>4. CASE tx_state = "None"
    <2>1. PICK size : size = IF max_frame = shared_max THEN DbSize ELSE ContentUpTo(shared_max, PAGE_1)
      OBVIOUS
    <2>2. PICK r : r = [Opened("Statement", FALSE, 0) EXCEPT !.db_size = size, !.wal_max = shared_max]
      OBVIOUS
    <2>3. /\ TakeSnapshot /\ savepoints' = Append(savepoints, r) /\ marks' = Append(MarksAtStart, image')
      BY <1>4, <2>1, <2>2 DEF BeginStatement
    <2>4. size = committed[PAGE_1] /\ committed[PAGE_1] \in Pages
      BY <1>4, <2>1, CommittedSize
    <2>5. /\ Len(subjournal) = 0
          /\ \A i \in 1..Depth : /\ savepoints[i].wal_max = shared_max /\ savepoints[i].bitmap = {}
                                 /\ savepoints[i].db_size = committed[PAGE_1] /\ savepoints[i].fk = fk
                                 /\ savepoints[i].start = 0
          /\ Depth \in Nat
      BY <1>4, StackAtStart
    <2>6. r = [kind |-> "Statement", starts |-> FALSE, start |-> JournalEnd, end |-> JournalEnd,
               bitmap |-> {}, db_size |-> size, wal_max |-> shared_max, fk |-> 0]
      BY <2>2 DEF Opened
    <2>7. JournalEnd = 0
      BY <1>2, <2>5 DEF NestInv, Offsets
    <2>8. /\ r \in SavepointType /\ r.kind = "Statement" /\ r.start = 0 /\ r.bitmap = {}
          /\ r.db_size = committed[PAGE_1] /\ r.wal_max = shared_max
      <3>1. /\ r.kind = "Statement" /\ r.start = 0 /\ r.bitmap = {}
            /\ r.db_size = committed[PAGE_1] /\ r.wal_max = shared_max
        BY <2>4, <2>6, <2>7
      <3>2. shared_max \in 0..MaxFrames /\ JournalEnd \in Nat
        BY <1>2, <2>7 DEF LogTypes
      <3>3. r \in SavepointType
        BY <1>2, <2>4, <2>6, <3>2, OpenedTyped
      <3> QED  BY <3>1, <3>3
    <2>9. /\ LogTypes' /\ CacheTypes' /\ LogInv' /\ CacheInv' /\ SeesItsImage' /\ CommittedIsShared'
          /\ image' \in Image /\ image'.pages = committed /\ image'.fk = fk /\ max_frame' = shared_max
          /\ MarksAtStart \in Seq(Image) /\ Len(MarksAtStart) = Depth
          /\ \A i \in 1..Depth : MarksAtStart[i] = image'
          /\ dirty_pages = {}
      BY <1>1, <1>4, <2>3, SnapshotTaken
    <2>10. /\ Bitmaps' /\ Depth' = Depth + 1
           /\ \A i \in 1..Depth : savepoints'[i] = savepoints[i]
           /\ savepoints'[Depth'] = r
           /\ \A i \in 1..Depth' : i \in 1..Depth \/ i = Depth'
      BY <1>1, <1>2, <2>3, <2>8, BitmapsOpened
    <2>11. /\ marks' \in Seq(Image) /\ Len(marks') = Depth' /\ marks'[Depth'] = image'
           /\ \A i \in 1..Depth : marks'[i] = image'
           /\ \A i \in 1..Depth' : marks'[i].pages[PAGE_1] \in Pages
      <3>1. PICK old : old = MarksAtStart
        OBVIOUS
      <3>2. PICK mk : mk = image'
        OBVIOUS
      <3>3. old \in Seq(Image) /\ Len(old) = Depth /\ mk \in Image /\ mk.pages[PAGE_1] \in Pages
            /\ marks' = Append(old, mk) /\ \A i \in 1..Depth : old[i] = mk
        BY <2>3, <2>4, <2>9, <3>1, <3>2
      <3>4. \A i \in 1..Depth : old[i].pages[PAGE_1] \in Pages
        BY <3>3
      <3>5. /\ marks' \in Seq(Image) /\ Len(marks') = Depth' /\ marks'[Depth'] = mk
            /\ \A i \in 1..Depth : marks'[i] = old[i]
            /\ \A i \in 1..Depth' : marks'[i].pages[PAGE_1] \in Pages
        BY <1>2, <2>10, <3>3, <3>4, MarksOpened
      <3> QED  BY <3>2, <3>3, <3>5
    <2>12. TypeOK'
      <3>1. StackTypes'
        BY <1>1, <1>2, <2>3, <2>8, StackOpened
      <3>2. GhostTypes'
        BY <1>1, <1>2, <2>9, <2>11 DEF GhostTypes
      <3> QED  BY <1>3, <2>9, <3>1, <3>2, TypePartsAfter
    <2>13. Sizes'
      BY <1>1, <2>4, <2>9, <2>11 DEF Sizes
    <2>14. DirtyInv' /\ Flat'
      BY <1>1, <2>5, <2>9 DEF DirtyInv, Flat
    <2>15. Counter'
      <3>1. ASSUME NEW i \in 1..Depth', savepoints'[i].kind # "Statement"
            PROVE  savepoints'[i].fk = marks'[i].fk
        BY <2>5, <2>8, <2>9, <2>10, <2>11, <3>1
      <3> QED  BY <1>1, <2>9, <2>11, <3>1 DEF Counter
    <2>16. LevelInv'
      <3>1. committed[PAGE_1] \in Nat /\ shared_max' \in Nat /\ \A p \in Pages : frame_cache'[p] \in Seq(FrameNumber)
        BY <1>1, <1>2, <2>4, LogFacts, PagesNat
      <3>2. ASSUME NEW i \in Levels'
            PROVE  Img(i)' = committed /\ Pos(i)' = 0 /\ Wal(i)' = shared_max'
        <4>1. CASE i <= Depth'
          <5>1. i \in 1..Depth \/ i = Depth'
            BY <2>5, <2>10, <3>2, <4>1 DEF Levels, Now
          <5> QED  BY <1>1, <2>5, <2>8, <2>9, <2>10, <2>11, <4>1, <5>1 DEF Img, Pos, Wal
        <4>2. CASE ~(i <= Depth')
          BY <1>1, <2>5, <2>9, <4>2 DEF Img, Pos, Wal
        <4> QED  BY <4>1, <4>2
      <3>3. \A i \in 1..Depth' : savepoints'[i].db_size = committed[PAGE_1]
        BY <2>5, <2>8, <2>10
      <3>4. Depth' \in Nat
        BY <2>5, <2>10
      <3> QED  BY <3>1, <3>2, <3>3, <3>4, LevelsFresh
    <2> QED  BY <1>3, <2>9, <2>10, <2>12, <2>13, <2>14, <2>15, <2>16 DEF ImageInv
  <1>5. CASE tx_state # "None"
    <2>1. PICK r : r = Opened("Statement", FALSE, 0)
      OBVIOUS
    <2>2. PICK mk : mk = image
      OBVIOUS
    <2>3. /\ tx_state = "Write" \/ max_frame = shared_max
          /\ savepoints' = Append(savepoints, r) /\ marks' = Append(marks, mk)
          /\ max_frame' = max_frame /\ cache' = cache /\ image' = image
      BY <1>5, <2>1, <2>2 DEF BeginStatement
    <2>4. UNCHANGED log
      BY <1>1, <2>3 DEF log
    <2>5. shared_max <= max_frame
      BY <1>2, <2>3, LogFacts DEF LogInv
    <2>6. /\ r.kind = "Statement" /\ r.start = Len(subjournal) /\ r.bitmap = {}
          /\ r.db_size = DbSize /\ r.wal_max = max_frame
      <3>1. JournalEnd = Len(subjournal)
        BY <1>2 DEF NestInv, Offsets
      <3> QED  BY <2>1, <3>1 DEF Opened
    <2>7. r \in SavepointType
      <3>1. DbSize \in Pages
        BY <1>5, SeenPages
      <3>2. max_frame \in 0..MaxFrames /\ JournalEnd \in Nat
        BY <1>2, StackFacts DEF LogTypes, NestInv, Offsets
      <3> QED  BY <1>2, <2>1, <3>1, <3>2, OpenedTyped DEF Opened
    <2>8. mk \in Image /\ mk.pages = image.pages /\ mk.fk = stmt_fk'
      BY <1>1, <1>2, <1>5, <2>2 DEF GhostTypes, SeesItsImage
    <2> QED  BY <1>1, <1>3, <1>5, <2>3, <2>4, <2>5, <2>6, <2>7, <2>8, ImageOpened
  <1> QED  BY <1>4, <1>5

-----------------------------------------------------------------------------
(* Savepoints are released.                                                 *)

LEMMA MarksCut ==
    ASSUME GhostTypes, Sizes, NEW m \in 0..Depth, marks' = SubSeq(marks, 1, m)
    PROVE  /\ marks' \in Seq(Image) /\ Len(marks') = m /\ \A i \in 1..m : marks'[i] = marks[i]
           /\ \A i \in 1..m : marks'[i].pages[PAGE_1] \in Pages
  <1>1. marks \in Seq(Image) /\ Len(marks) = Depth /\ Depth \in Nat
    BY DEF GhostTypes, Sizes
  <1>2. marks' \in Seq(Image)
    BY <1>1
  <1>3. IsSeq(marks)
    BY <1>1 DEF IsSeq
  <1>4. Len(marks') = m /\ \A i \in 1..m : marks'[i] = marks[i]
    BY <1>1, <1>3, SeqPrefix
  <1>5. \A i \in 1..m : i \in 1..Depth
    BY <1>1
  <1> QED  BY <1>2, <1>4, <1>5 DEF Sizes

LEMMA ReleaseFacts ==
    ASSUME ImageInv, NEW m \in 0..Depth, Release(m)
    PROVE  /\ Depth' = m /\ Depth \in Nat /\ m \in Nat /\ StackTypes' /\ Bitmaps'
           /\ \A i \in 1..m : /\ i \in 1..Depth /\ SameSavepoint(savepoints'[i], savepoints[i])
                              /\ savepoints'[i].bitmap = savepoints[i].bitmap
           /\ Len(subjournal) \in Nat
           /\ m = 0 => subjournal' = <<>>
           /\ m # 0 => subjournal' = subjournal
  <1>1. NestInv /\ Stack /\ Offsets /\ StackTypes /\ Bitmaps
    BY TypeParts DEF ImageInv, NestInv
  <1>2. /\ savepoints' = Cut(m, JournalEnd) /\ subjournal' = IF m = 0 THEN <<>> ELSE subjournal
        /\ JournalEnd = Len(subjournal) /\ Len(subjournal) \in Nat /\ m \in 0..Len(savepoints)
        /\ Len(savepoints) \in Nat
    BY <1>1, EndBounds DEF Release, Offsets, Depth
  <1>3. /\ Len(savepoints') = m
        /\ \A i \in 1..m : /\ SameSavepoint(savepoints'[i], savepoints[i])
                           /\ savepoints'[i].end = IF i = m THEN JournalEnd ELSE savepoints[i].end
                           /\ savepoints'[i].bitmap = savepoints[i].bitmap
    BY <1>1, <1>2, CutShape
  <1>4. StackTypes'
    <2>1. savepoints' \in Seq(SavepointType)
      BY <1>1, <1>2, CutTyped
    <2>2. subjournal' \in Seq(PageImage)
      BY <1>1, <1>2 DEF StackTypes
    <2> QED  BY <2>1, <2>2 DEF StackTypes
  <1>5. Depth' = m /\ Depth \in Nat /\ m \in Nat /\ \A i \in 1..m : i \in 1..Depth
    BY <1>2, <1>3 DEF Depth
  <1>6. Bitmaps'
    <2>1. ASSUME NEW i \in 1..m
          PROVE  /\ i \in 1..Depth /\ savepoints'[i].bitmap = savepoints[i].bitmap
                 /\ savepoints'[i].start = savepoints[i].start
                 /\ savepoints'[i].end \in Nat /\ savepoints[i].end <= savepoints'[i].end
                 /\ \A k \in 1..savepoints[i].end : subjournal'[k] = subjournal[k]
      <3>1. savepoints[i].end \in Nat /\ savepoints[i].end <= Len(subjournal) /\ m # 0
        BY <1>1, <1>5, <2>1, EndBounds DEF Stack, Depth
      <3>2. savepoints'[i].end \in Nat /\ savepoints[i].end <= savepoints'[i].end
        BY <1>2, <1>3, <2>1, <3>1
      <3> QED  BY <1>2, <1>3, <1>5, <2>1, <3>1, <3>2 DEF SameSavepoint
    <2> QED  BY <1>1, <1>5, <2>1, BitmapsKept
  <1> QED  BY <1>2, <1>3, <1>4, <1>5, <1>6

LEMMA LevelsReleased ==
    ASSUME ImageInv, tx_state # "None", tx_state' = tx_state, UNCHANGED log, image' = image,
           NEW m \in 0..Depth, m # Depth, Release(m)
    PROVE  LevelInv'
  <1>1. /\ NestInv /\ TypeOK /\ Sizes /\ LevelInv /\ GhostTypes
        /\ frames' = frames /\ frame_cache' = frame_cache /\ shared_max' = shared_max /\ max_frame' = max_frame
    BY TypeParts DEF ImageInv, log
  <1>2. /\ Depth' = m /\ Depth \in Nat /\ m \in Nat
        /\ \A i \in 1..m : i \in 1..Depth /\ SameSavepoint(savepoints'[i], savepoints[i])
        /\ Len(subjournal) \in Nat
        /\ m = 0 => subjournal' = <<>>
        /\ m # 0 => subjournal' = subjournal
    BY ReleaseFacts
  <1>3. /\ Now \in Levels /\ Now = Depth + 1
        /\ \A i \in 1..Depth : i \in Levels
        /\ \A i \in 1..Depth : /\ Img(i) = marks[i].pages /\ Pos(i) = savepoints[i].start
                               /\ Wal(i) = savepoints[i].wal_max
        /\ Img(Now) = image.pages /\ Pos(Now) = Len(subjournal) /\ Wal(Now) = max_frame
    BY <1>1, LevelFacts
  <1>4. \A i \in 1..m : marks'[i] = marks[i]
    BY <1>1, MarksCut DEF Release
  <1>5. PICK top : top = Now'
    OBVIOUS
  <1>6. /\ top = m + 1 /\ top \in Nat /\ Levels' = 1..top /\ ~(top <= m)
        /\ \A a \in Levels' : a \in 1..m \/ a = top
        /\ \A a \in 1..m : a \in Levels' /\ a <= m
        /\ top \in Levels'
    BY <1>2, <1>5 DEF Levels, Now
  <1>7. LevelOK(Now) /\ Depth > 0
    BY <1>1, <1>2, <1>3 DEF LevelInv
  <1>8. \A h, q : ContentUpTo(h, q)' = ContentUpTo(h, q)
    BY <1>1, ContentUnchanged
  <1>9. Img(top)' = image.pages /\ Wal(top)' = max_frame /\ Pos(top)' = Len(subjournal')
    BY <1>1, <1>2, <1>6 DEF Img, Wal, Pos
  <1>10. CASE m = 0
    <2>1. Len(subjournal') = 0 /\ top = 1 /\ \A a \in Levels' : a = top
      BY <1>2, <1>6, <1>10
    <2>2. LevelOK(top)'
      <3>1. ~(top <= Depth')
        BY <1>2, <1>6
      <3>2. tx_state' = "Write" \/ Depth' > 0 => shared_max' <= Wal(top)'
        BY <1>1, <1>3, <1>7, <1>9 DEF LevelOK
      <3>3. \A p \in Pages : p > Img(top)'[PAGE_1] => LatestOf(frame_cache'[p], Wal(top)') <= shared_max'
        BY <1>1, <1>3, <1>7, <1>9 DEF LevelOK
      <3>4. \A k \in 1..Pos(top)' : FALSE
        BY <1>9, <2>1
      <3> QED  BY <3>1, <3>2, <3>3, <3>4 DEF LevelOK
    <2>3. \A b \in Levels' : \A a \in 1..b - 1 : FALSE
      BY <2>1
    <2> QED  BY <2>1, <2>2, <2>3 DEF LevelInv
  <1>11. CASE m # 0
    <2>1. PICK lev : lev = [a \in Levels' |-> IF a <= m THEN a ELSE Now]
      OBVIOUS
    <2>2. ASSUME NEW a \in 1..m
          PROVE  /\ lev[a] = a /\ Img(a)' = Img(a) /\ Pos(a)' = Pos(a) /\ Wal(a)' = Wal(a)
                 /\ savepoints'[a].db_size = Img(a)[PAGE_1] /\ shared_max <= Wal(a) /\ a \in Levels
      <3>1. lev[a] = a
        BY <1>6, <2>1, <2>2
      <3>2. /\ savepoints'[a].start = savepoints[a].start /\ savepoints'[a].db_size = savepoints[a].db_size
            /\ savepoints'[a].wal_max = savepoints[a].wal_max
        BY <1>2, <2>2 DEF SameSavepoint
      <3>3. Img(a)' = Img(a) /\ Pos(a)' = Pos(a) /\ Wal(a)' = Wal(a)
        BY <1>2, <1>3, <1>4, <1>6, <2>2, <3>2 DEF Img, Pos, Wal
      <3>4. LevelOK(a) /\ a \in Levels /\ a <= Depth
        BY <1>1, <1>2, <1>3, <2>2 DEF LevelInv
      <3>5. savepoints[a].db_size = Img(a)[PAGE_1] /\ shared_max <= Wal(a)
        BY <1>7, <3>4 DEF LevelOK
      <3> QED  BY <3>1, <3>2, <3>3, <3>4, <3>5
    <2>3. /\ lev[top] = Now /\ Img(top)' = Img(Now) /\ Pos(top)' = Pos(Now) /\ Wal(top)' = Wal(Now)
          /\ shared_max <= Wal(Now) /\ ~(top <= Depth')
      <3>1. lev[top] = Now /\ ~(top <= Depth')
        BY <1>2, <1>6, <2>1
      <3>2. shared_max <= Wal(Now)
        BY <1>7 DEF LevelOK
      <3> QED  BY <1>2, <1>3, <1>9, <1>11, <3>1, <3>2
    <2>4. ASSUME NEW a \in Levels'
          PROVE  /\ lev[a] \in Levels
                 /\ Img(a)' = Img(lev[a]) /\ Pos(a)' = Pos(lev[a]) /\ Wal(a)' = Wal(lev[a])
                 /\ a <= Depth' => savepoints'[a].db_size = Img(lev[a])[PAGE_1]
                 /\ tx_state' = "Write" \/ Depth' > 0 => shared_max <= Wal(lev[a])
      <3>1. CASE a \in 1..m
        BY <2>2, <3>1
      <3>2. CASE a = top
        BY <1>3, <2>3, <3>2
      <3> QED  BY <1>6, <2>4, <3>1, <3>2
    <2>5. ASSUME NEW a \in Levels'
          PROVE  /\ \A k \in 1..Pos(lev[a]) : subjournal'[k] = subjournal[k]
                 /\ \A p \in Pages :
                      /\ LatestOf(frame_cache'[p], Wal(lev[a])) = LatestOf(frame_cache[p], Wal(lev[a]))
                      /\ ContentUpTo(Wal(a), p)' = ContentUpTo(Wal(lev[a]), p)
      BY <1>1, <1>2, <1>8, <1>11, <2>4
    <2>6. ASSUME NEW b \in Levels', NEW a \in 1..b - 1
          PROVE  a \in Levels' /\ (lev[a] = lev[b] \/ lev[a] \in 1..lev[b] - 1)
      <3>1. a \in 1..m /\ a \in Levels'
        BY <1>2, <1>6, <2>6
      <3>2. CASE b \in 1..m
        BY <2>2, <2>6, <3>1, <3>2
      <3>3. CASE b = top
        <4>1. a \in 1..Now - 1
          BY <1>2, <1>3, <3>1
        <4> QED  BY <2>2, <2>3, <3>1, <3>3, <4>1
      <3> QED  BY <1>6, <2>6, <3>1, <3>2, <3>3
    <2>7. Depth' \in Nat
      BY <1>2
    <2> QED  BY <1>1, <2>4, <2>5, <2>6, <2>7, LevelsMapped
  <1> QED  BY <1>10, <1>11

LEMMA ImageReleased ==
    ASSUME ImageInv, NestInv', NEW m \in 0..Depth, m # Depth, Release(m), UNCHANGED log, cache' = cache,
           dirty_pages' = dirty_pages, tx_state' = tx_state, fk' = fk, image' = image,
           committed' = committed, ConnTypes', Control', ~running'
    PROVE  ImageInv'
  <1>1. /\ LogTypes /\ CacheTypes /\ StackTypes /\ GhostTypes /\ Sizes /\ LogInv /\ CacheInv
        /\ DirtyInv /\ Flat /\ Counter /\ SeesItsImage /\ CommittedIsShared
    BY TypeParts DEF ImageInv
  <1>2. /\ frames' = frames /\ frame_cache' = frame_cache /\ shared_max' = shared_max /\ max_frame' = max_frame
    BY DEF log
  <1>3. /\ Depth' = m /\ Depth \in Nat /\ m \in Nat /\ StackTypes' /\ Bitmaps'
        /\ \A i \in 1..m : /\ i \in 1..Depth /\ SameSavepoint(savepoints'[i], savepoints[i])
                           /\ savepoints'[i].bitmap = savepoints[i].bitmap
        /\ Len(subjournal) \in Nat
        /\ m = 0 => subjournal' = <<>>
        /\ m # 0 => subjournal' = subjournal
    BY ReleaseFacts
  <1>4. /\ marks' \in Seq(Image) /\ Len(marks') = m /\ \A i \in 1..m : marks'[i] = marks[i]
        /\ \A i \in 1..m : marks'[i].pages[PAGE_1] \in Pages
    BY <1>1, MarksCut DEF Release
  <1>5. \A h, q : ContentUpTo(h, q)' = ContentUpTo(h, q)
    BY <1>2, ContentUnchanged
  <1>6. \A p : PageSeen(p)' = PageSeen(p)
    BY <1>2, <1>5 DEF PageSeen
  <1>7. TypeOK'
    <2>1. LogTypes' /\ CacheTypes' /\ GhostTypes'
      BY <1>1, <1>2, <1>4 DEF LogTypes, CacheTypes, GhostTypes
    <2> QED  BY <1>3, <2>1, TypePartsAfter
  <1>8. Sizes' /\ LogInv'
    BY <1>1, <1>2, <1>3, <1>4 DEF Sizes, LogInv
  <1>9. CacheInv' /\ CommittedIsShared' /\ SeesItsImage'
    BY <1>1, <1>2, <1>5, <1>6 DEF CacheInv, CommittedIsShared, SeesItsImage
  <1>10. DirtyInv'
    <2>1. m = 0 => Len(subjournal') = 0
      BY <1>3
    <2>2. \A k \in 1..Len(subjournal') : subjournal'[k].page \in dirty_pages
      BY <1>1, <1>3, <2>1 DEF DirtyInv
    <2> QED  BY <1>1, <2>2 DEF DirtyInv
  <1>11. Flat'
    <2>1. ASSUME tx_state # "Write", m > 0
          PROVE  /\ max_frame = shared_max /\ Len(subjournal) = 0
                 /\ \A i \in 1..Depth :
                      /\ savepoints[i].wal_max = shared_max /\ savepoints[i].bitmap = {}
                      /\ savepoints[i].db_size = committed[PAGE_1] /\ savepoints[i].fk = fk
      BY <1>1, <1>3, <2>1 DEF Flat
    <2>2. \A i \in 1..m : /\ savepoints'[i].wal_max = savepoints[i].wal_max
                          /\ savepoints'[i].db_size = savepoints[i].db_size
                          /\ savepoints'[i].fk = savepoints[i].fk
      BY <1>3 DEF SameSavepoint
    <2> QED  BY <1>2, <1>3, <2>1, <2>2 DEF Flat
  <1>12. LevelInv'
    <2>1. CASE tx_state = "None"
      BY <2>1 DEF LevelInv
    <2>2. CASE tx_state # "None"
      BY <2>2, LevelsReleased
    <2> QED  BY <2>1, <2>2
  <1>13. Counter'
    <2>1. \A i \in 1..m : savepoints'[i].kind = savepoints[i].kind /\ savepoints'[i].fk = savepoints[i].fk
      BY <1>3 DEF SameSavepoint
    <2> QED  BY <1>1, <1>3, <1>4, <2>1 DEF Counter
  <1> QED  BY <1>3, <1>7, <1>8, <1>9, <1>10, <1>11, <1>12, <1>13 DEF ImageInv

LEMMA ImageRelease ==
    ASSUME ImageInv, NestInv', ReleaseStatement \/ \E n \in Names : ReleaseNamed(n)
    PROVE  ImageInv'
  <1>1. NestInv /\ Stack /\ Owners /\ ConnTypes /\ Control /\ Depth \in Nat /\ 0 \in Fks
    BY TypeParts, StackFacts, ChoiceAssumption DEF ImageInv, NestInv, Depth
  <1>2. CASE ReleaseStatement
    <2>1. PICK m : m = Len(savepoints) - 1
      OBVIOUS
    <2>2. /\ running /\ running' = FALSE /\ in_use' = FALSE /\ stmt_fk' = 0 /\ ~auto_commit
          /\ Release(m) /\ UNCHANGED log /\ cache' = cache
          /\ dirty_pages' = dirty_pages /\ tx_state' = tx_state /\ fk' = fk /\ image' = image
          /\ committed' = committed /\ auto_commit' = auto_commit /\ writes' = writes
      BY <1>2, <2>1 DEF ReleaseStatement, EndStatement
    <2>3. Len(savepoints) \in 1..Len(savepoints)
      BY <1>1, <2>2, OwnersRead
    <2>4. m \in 0..Depth /\ m # Depth
      BY <1>1, <2>1, <2>3 DEF Depth
    <2>5. ConnTypes' /\ Control'
      BY <1>1, <2>2 DEF ConnTypes, Control
    <2> QED  BY <2>2, <2>4, <2>5, ImageReleased
  <1>3. ASSUME NEW n \in Names, ReleaseNamed(n)  PROVE ImageInv'
    <2>1. PICK i : i = Newest(n)
      OBVIOUS
    <2>2. /\ ~running /\ i # 0
          /\ IF i = 1 /\ savepoints[1].starts
             THEN CommitTransaction
             ELSE /\ Release(i - 1)
                  /\ UNCHANGED <<log, cache, dirty_pages, in_use, conn, image, committed, writes, moves>>
      BY <1>3, <2>1 DEF ReleaseNamed
    <2>3. i \in 1..Depth
      BY <1>1, <2>1, <2>2, NewestIndex DEF Depth
    <2>4. CASE i = 1 /\ savepoints[1].starts
      <3>1. CommitTransaction
        BY <2>2, <2>4
      <3> QED  BY <2>2, <3>1, ImageEnd
    <2>5. CASE ~(i = 1 /\ savepoints[1].starts)
      <3>1. PICK m : m = i - 1
        OBVIOUS
      <3>2. m \in 0..Depth /\ m # Depth
        BY <1>1, <2>3, <3>1
      <3>3. /\ Release(m) /\ UNCHANGED log /\ cache' = cache
            /\ dirty_pages' = dirty_pages /\ tx_state' = tx_state /\ fk' = fk /\ image' = image
            /\ committed' = committed /\ auto_commit' = auto_commit /\ writes' = writes
            /\ running' = running /\ in_use' = in_use /\ stmt_fk' = stmt_fk
        BY <2>2, <2>5, <3>1 DEF conn
      <3>4. ConnTypes' /\ Control' /\ ~running'
        BY <1>1, <2>2, <3>3 DEF ConnTypes, Control
      <3> QED  BY <3>2, <3>3, <3>4, ImageReleased
    <2> QED  BY <2>4, <2>5
  <1> QED  BY <1>2, <1>3

-----------------------------------------------------------------------------
(* A savepoint is taken back.                                               *)

LEMMA RewindFacts ==
    ASSUME ImageInv, NEW i \in 1..Depth, NEW sp, sp = savepoints[i]
    PROVE  /\ i \in Levels /\ Depth \in Nat
           /\ sp.wal_max \in Nat /\ shared_max <= sp.wal_max /\ sp.wal_max <= max_frame
           /\ sp.wal_max \in 0..MaxFrames
           /\ max_frame \in Nat /\ shared_max \in Nat /\ sp.wal_max <= Len(frames)
           /\ sp.db_size \in Pages /\ sp.start \in Nat /\ sp.start <= Len(subjournal) /\ Len(subjournal) \in Nat
           /\ JournalEnd = Len(subjournal)
           /\ tx_state # "None" =>
                /\ sp.db_size = marks[i].pages[PAGE_1] /\ sp.db_size <= image.pages[PAGE_1]
                /\ image.pages[PAGE_1] \in Pages
                /\ \A p \in 1..sp.db_size : Between(i, Now, p)
                /\ \A p \in Pages : p > sp.db_size => LatestOf(frame_cache[p], sp.wal_max) <= shared_max
                /\ \A k \in 1..sp.start : subjournal[k].page <= sp.db_size
           /\ tx_state # "Write" => sp.wal_max = shared_max /\ max_frame = shared_max /\ Len(subjournal) = 0
           /\ Img(i) = marks[i].pages /\ Pos(i) = sp.start /\ Wal(i) = sp.wal_max
           /\ Img(Now) = image.pages /\ Pos(Now) = Len(subjournal) /\ Wal(Now) = max_frame
  <1>1. /\ NestInv /\ TypeOK /\ Sizes /\ LevelInv /\ LogTypes /\ StackTypes /\ LogInv /\ Flat
    BY TypeParts DEF ImageInv
  <1>2. /\ Now \in Levels /\ Now = Depth + 1 /\ Depth \in Nat /\ i \in Levels
        /\ Img(i) = marks[i].pages /\ Pos(i) = sp.start /\ Wal(i) = sp.wal_max
        /\ Img(Now) = image.pages /\ Pos(Now) = Len(subjournal) /\ Wal(Now) = max_frame
        /\ Pos(i) \in 0..Len(subjournal)
    BY <1>1, LevelFacts
  <1>3. /\ sp.wal_max \in Nat /\ sp.db_size \in Pages /\ sp.start \in Nat /\ Len(subjournal) \in Nat
        /\ sp.wal_max \in 0..MaxFrames
    <2>1. sp \in SavepointType
      BY <1>1, StackFacts DEF Depth
    <2> QED  BY <1>1, <2>1, StackFacts, LimitAssumption DEF SavepointType
  <1>4. /\ max_frame \in Nat /\ shared_max \in Nat /\ Len(frames) \in Nat /\ max_frame <= Len(frames)
    BY <1>1, LogFacts DEF LogInv
  <1>5. ASSUME tx_state # "None"
        PROVE  /\ sp.db_size = marks[i].pages[PAGE_1] /\ sp.db_size <= image.pages[PAGE_1]
               /\ \A p \in 1..sp.db_size : Between(i, Now, p)
               /\ \A p \in Pages : p > sp.db_size => LatestOf(frame_cache[p], sp.wal_max) <= shared_max
               /\ \A k \in 1..sp.start : subjournal[k].page <= sp.db_size
               /\ shared_max <= sp.wal_max /\ sp.wal_max <= max_frame
    <2>1. i \in 1..Now - 1 /\ i <= Depth /\ Depth > 0
      BY <1>2
    <2>2. LevelOK(i) /\ LevelPair(i, Now)
      BY <1>1, <1>2, <1>5, <2>1 DEF LevelInv
    <2>3. sp.db_size = Img(i)[PAGE_1] /\ shared_max <= Wal(i)
      BY <2>1, <2>2 DEF LevelOK
    <2> QED  BY <1>2, <2>2, <2>3 DEF LevelOK, LevelPair
  <1>6. ASSUME tx_state # "Write"
        PROVE  sp.wal_max = shared_max /\ max_frame = shared_max /\ Len(subjournal) = 0
    BY <1>1, <1>2, <1>6 DEF Flat
  <1>7. shared_max <= sp.wal_max /\ sp.wal_max <= max_frame
    <2>1. CASE tx_state # "None"
      BY <1>5, <2>1
    <2>2. CASE tx_state = "None"
      BY <1>4, <1>6, <2>2
    <2> QED  BY <2>1, <2>2
  <1>8. image.pages[PAGE_1] \in Pages /\ JournalEnd = Len(subjournal)
    BY <1>1 DEF Sizes, NestInv, Offsets
  <1>9. sp.start <= Len(subjournal) /\ sp.wal_max <= Len(frames)
    BY <1>2, <1>3, <1>4, <1>7
  <1> QED  BY <1>2, <1>3, <1>4, <1>5, <1>6, <1>7, <1>8, <1>9

(* A page in the subjournal since the savepoint is put back as it was at it.*)
LEMMA RestoredFacts ==
    ASSUME ImageInv, NEW i \in 1..Depth, NEW sp, sp = savepoints[i], NEW p \in Pages
    PROVE  /\ p \in RestoredPages(sp) <=>
                 p <= sp.db_size /\ \E k \in sp.start + 1..Len(subjournal) : subjournal[k].page = p
           /\ p \in RestoredPages(sp) => /\ p \in dirty_pages /\ RestoredImage(sp, p) \in Content
                                         /\ tx_state # "None" => RestoredImage(sp, p) = marks[i].pages[p]
           /\ tx_state # "None" /\ p <= sp.db_size /\ p \notin RestoredPages(sp) =>
                 /\ image.pages[p] = marks[i].pages[p]
                 /\ ContentUpTo(max_frame, p) = ContentUpTo(sp.wal_max, p)
  <1>1. /\ sp.start \in Nat /\ Len(subjournal) \in Nat /\ JournalEnd = Len(subjournal) /\ sp.db_size \in Pages
        /\ tx_state # "None" => \A q \in 1..sp.db_size : Between(i, Now, q)
        /\ Img(i) = marks[i].pages /\ Pos(i) = sp.start /\ Wal(i) = sp.wal_max
        /\ Img(Now) = image.pages /\ Pos(Now) = Len(subjournal) /\ Wal(Now) = max_frame
    BY RewindFacts
  <1>2. p \in Nat /\ p >= 1 /\ sp.db_size \in Nat /\ (p <= sp.db_size <=> p \in 1..sp.db_size)
    BY <1>1, PagesAre
  <1>3. p \in RestoredPages(sp) <=>
            p <= sp.db_size /\ \E k \in sp.start + 1..Len(subjournal) : subjournal[k].page = p
    <2>1. p \in RestoredPages(sp) <=>
            p \in 1..sp.db_size /\ \E k \in sp.start + 1..JournalEnd : subjournal[k].page = p
      BY DEF RestoredPages
    <2> QED  BY <1>1, <1>2, <2>1
  <1>4. ASSUME p \in RestoredPages(sp)
        PROVE  /\ p \in dirty_pages /\ RestoredImage(sp, p) \in Content
               /\ tx_state # "None" => RestoredImage(sp, p) = marks[i].pages[p]
    <2> DEFINE K == {k \in sp.start + 1..JournalEnd : subjournal[k].page = p}
    <2>1. PICK k0 \in sp.start + 1..Len(subjournal) : subjournal[k0].page = p
      BY <1>3, <1>4
    <2>2. K \subseteq Nat /\ K # {}
      BY <1>1, <2>1
    <2>3. PICK f : f = Min(K)
      OBVIOUS
    <2>4. f \in K /\ \A k \in K : f <= k
      BY <2>2, <2>3, MinOf
    <2>5. /\ f \in sp.start + 1..Len(subjournal) /\ subjournal[f].page = p
          /\ \A l \in sp.start + 1..f - 1 : subjournal[l].page # p
      <3>1. f \in sp.start + 1..Len(subjournal) /\ subjournal[f].page = p
        BY <1>1, <2>4
      <3>2. ASSUME NEW l \in sp.start + 1..f - 1, subjournal[l].page = p  PROVE FALSE
        <4>1. l \in sp.start + 1..Len(subjournal) /\ ~(f <= l)
          BY <1>1, <3>1, <3>2
        <4>2. l \in K
          BY <1>1, <3>2, <4>1
        <4> QED  BY <2>4, <4>1, <4>2
      <3> QED  BY <3>1, <3>2
    <2>6. RestoredImage(sp, p) = subjournal[f].ver
      BY <2>3 DEF RestoredImage
    <2>7. f \in 1..Len(subjournal)
      BY <1>1, <2>5
    <2>8. subjournal[f].ver \in Content /\ subjournal[f].page \in dirty_pages
      BY <2>7, StackFacts, TypeParts DEF ImageInv, DirtyInv
    <2>9. ASSUME tx_state # "None"  PROVE subjournal[f].ver = marks[i].pages[p]
      <3>1. Between(i, Now, p)
        BY <1>1, <1>2, <1>3, <1>4, <2>9
      <3>2. PICK k \in sp.start + 1..Len(subjournal) :
                /\ subjournal[k].page = p /\ subjournal[k].ver = marks[i].pages[p]
                /\ \A l \in sp.start + 1..k - 1 : subjournal[l].page # p
        BY <1>1, <2>5, <3>1 DEF Between
      <3>3. k = f
        <4>1. k \in Int /\ f \in Int
          BY <1>1, <2>5, <3>2
        <4>2. ~(k < f)
          <5>1. k < f => k \in sp.start + 1..f - 1
            BY <1>1, <2>5, <3>2, <4>1
          <5> QED  BY <2>5, <3>2, <5>1
        <4>3. ~(f < k)
          <5>1. f < k => f \in sp.start + 1..k - 1
            BY <1>1, <2>5, <3>2, <4>1
          <5> QED  BY <2>5, <3>2, <5>1
        <4> QED  BY <4>1, <4>2, <4>3
      <3> QED  BY <3>2, <3>3
    <2> QED  BY <2>5, <2>6, <2>8, <2>9
  <1>5. ASSUME tx_state # "None", p <= sp.db_size, p \notin RestoredPages(sp)
        PROVE  /\ image.pages[p] = marks[i].pages[p]
               /\ ContentUpTo(max_frame, p) = ContentUpTo(sp.wal_max, p)
    <2>1. Between(i, Now, p)
      BY <1>1, <1>2, <1>5
    <2>2. \A k \in Pos(i) + 1..Pos(Now) : subjournal[k].page # p
      BY <1>1, <1>3, <1>5
    <2>3. Img(Now)[p] = Img(i)[p] /\ ContentUpTo(Wal(Now), p) = ContentUpTo(Wal(i), p)
      BY <2>1, <2>2 DEF Between
    <2> QED  BY <1>1, <2>3
  <1> QED  BY <1>3, <1>4, <1>5

PutBack(sp, p) ==
    CASE p > sp.db_size -> NoPage
      [] p \in RestoredPages(sp) ->
            [NoPage EXCEPT !.used = TRUE, !.restored = TRUE, !.ver = RestoredImage(sp, p)]
      [] OTHER -> cache[p]

LEMMA PutBackIs ==
    ASSUME NEW sp, NEW p, p \in RestoredPages(sp) => ~(p > sp.db_size)
    PROVE  /\ p > sp.db_size => PutBack(sp, p) = NoPage
           /\ p \in RestoredPages(sp) =>
                 PutBack(sp, p) = [used |-> TRUE, ver |-> RestoredImage(sp, p), dirty |-> FALSE, restored |-> TRUE]
           /\ ~(p > sp.db_size) /\ p \notin RestoredPages(sp) => PutBack(sp, p) = cache[p]
  <1>1. PICK v : v = RestoredImage(sp, p)
    OBVIOUS
  <1>2. PICK r : r = [NoPage EXCEPT !.used = TRUE, !.restored = TRUE, !.ver = v]
    OBVIOUS
  <1>3. r = [used |-> TRUE, ver |-> v, dirty |-> FALSE, restored |-> TRUE]
    BY <1>2 DEF NoPage
  <1>4. PutBack(sp, p) = CASE p > sp.db_size -> NoPage
                           [] p \in RestoredPages(sp) -> r
                           [] OTHER -> cache[p]
    BY <1>1, <1>2, Zenon DEF PutBack
  <1>5. /\ p > sp.db_size => PutBack(sp, p) = NoPage
        /\ p \in RestoredPages(sp) => PutBack(sp, p) = r
        /\ ~(p > sp.db_size) /\ p \notin RestoredPages(sp) => PutBack(sp, p) = cache[p]
    BY <1>4
  <1> QED  BY <1>1, <1>3, <1>5

LEMMA RewoundPages ==
    ASSUME ImageInv, NEW i \in 1..Depth, NEW sp, sp = savepoints[i], RollbackToSnapshot(sp),
           tx_state' = tx_state, committed' = committed
    PROVE  /\ LogTypes' /\ CacheTypes' /\ LogInv' /\ CacheInv' /\ CommittedIsShared'
           /\ dirty_pages' = dirty_pages \intersect 1..sp.db_size
           /\ tx_state # "None" => \A p \in 1..sp.db_size : PageSeen(p)' = marks[i].pages[p]
           /\ \A p \in Pages : \A h \in 0..sp.wal_max :
                /\ LatestOf(frame_cache'[p], h) = LatestOf(frame_cache[p], h)
                /\ ContentUpTo(h, p)' = ContentUpTo(h, p)
  <1> DEFINE w == sp.wal_max
             d == sp.db_size
  <1>1. /\ frames' = frames /\ shared_max' = shared_max /\ max_frame' = w
        /\ frame_cache' = RolledBack(frame_cache, w)
        /\ dirty_pages' = dirty_pages \intersect 1..d
    BY Zenon DEF RollbackToSnapshot, StillDirty
  <1>0. cache' = [p \in Pages |-> PutBack(sp, p)]
    BY Zenon DEF RollbackToSnapshot, PutBack
  <1>2. /\ LogTypes /\ CacheTypes /\ LogInv /\ CacheInv /\ CommittedIsShared
    BY TypeParts DEF ImageInv
  <1>3. /\ w \in Nat /\ shared_max <= w /\ w \in 0..MaxFrames /\ max_frame \in Nat /\ shared_max \in Nat
        /\ w <= Len(frames) /\ d \in Pages /\ d \in Nat
        /\ tx_state # "None" => d <= image.pages[PAGE_1] /\ image.pages[PAGE_1] \in Pages
        /\ tx_state # "None" => \A p \in Pages : p > d => LatestOf(frame_cache[p], w) <= shared_max
        /\ tx_state # "Write" => w = shared_max /\ max_frame = shared_max
    BY RewindFacts, PagesNat
  <1>4. /\ frame_cache' \in [Pages -> Seq(1..MaxFrames)]
        /\ \A p \in Pages :
             /\ TopOf(frame_cache'[p]) = LatestOf(frame_cache[p], w)
             /\ TopOf(frame_cache'[p]) \in 0..w
             /\ \A h \in 0..w : /\ LatestOf(frame_cache'[p], h) = LatestOf(frame_cache[p], h)
                                /\ ContentUpTo(h, p)' = ContentUpTo(h, p)
    <2>1. PICK m \in Nat : m = w
      BY <1>3
    <2>2. m <= Len(frames) /\ frame_cache' = RolledBack(frame_cache, m)
      BY <1>1, <1>3, <2>1
    <2>3. /\ frame_cache' \in [Pages -> Seq(1..MaxFrames)]
          /\ \A p \in Pages :
               /\ TopOf(frame_cache'[p]) = LatestOf(frame_cache[p], m)
               /\ TopOf(frame_cache'[p]) \in 0..m
               /\ \A h \in 0..m : /\ LatestOf(frame_cache'[p], h) = LatestOf(frame_cache[p], h)
                                  /\ ContentUpTo(h, p)' = ContentUpTo(h, p)
      BY <1>1, <1>2, <2>2, RolledBackFacts
    <2> QED  BY <2>1, <2>3
  <1>5. LogTypes'
    BY <1>1, <1>2, <1>3, <1>4 DEF LogTypes
  <1>6. w \in 0..w /\ shared_max \in 0..w
    BY <1>3
  <1>7. \A p \in Pages : ContentUpTo(max_frame, p)' = ContentUpTo(w, p)
    BY <1>1, <1>4, <1>6
  <1>8. CommittedIsShared'
    <2>1. \A p \in 1..committed[PAGE_1] : p \in Pages /\ ContentUpTo(shared_max, p) = committed[p]
      BY CommittedSize
    <2>2. \A p \in Pages : ContentUpTo(shared_max, p)' = ContentUpTo(shared_max, p)
      BY <1>1, <1>4, <1>6
    <2> QED  BY <2>1, <2>2 DEF CommittedIsShared
  <1>9. LogInv'
    <2>1. shared_max <= Len(frames) /\ (tx_state # "Write" => dirty_pages = {})
      BY <1>2 DEF LogInv
    <2>2. ASSUME NEW p \in Pages \ dirty_pages'  PROVE TopOf(frame_cache'[p]) <= shared_max
      <3>1. CASE p \notin dirty_pages
        <4>1. TopOf(frame_cache[p]) <= shared_max /\ frame_cache[p] \in Seq(FrameNumber)
          BY <1>2, <2>2, <3>1, LogFacts DEF LogInv
        <4>2. LatestOf(frame_cache[p], shared_max) = TopOf(frame_cache[p])
              /\ LatestOf(frame_cache[p], shared_max) \in 0..shared_max
          BY <1>3, <4>1, LatestIsTop, LatestRange
        <4>3. TopOf(frame_cache[p]) <= w
          BY <1>3, <4>2
        <4>4. LatestOf(frame_cache[p], w) = TopOf(frame_cache[p])
          BY <1>3, <4>1, <4>3, LatestIsTop
        <4> QED  BY <1>4, <2>2, <4>1, <4>4
      <3>2. CASE p \in dirty_pages
        <4>1. p > d /\ tx_state # "None"
          <5>1. p \notin 1..d
            BY <1>1, <2>2, <3>2
          <5>2. p \in Nat /\ d \in Nat /\ p >= 1
            BY <1>3, <2>2, PagesAre
          <5>3. tx_state # "None"
            BY <2>1, <3>2
          <5> QED  BY <5>1, <5>2, <5>3
        <4> QED  BY <1>3, <1>4, <2>2, <4>1
      <3> QED  BY <3>1, <3>2
    <2>3. \A p \in Pages : TopOf(frame_cache'[p]) <= w
      BY <1>3, <1>4
    <2>4. \A x \in Nat : x <= x
      OBVIOUS
    <2> QED  BY <1>1, <1>3, <2>1, <2>2, <2>3, <2>4 DEF LogInv
  <1>10. ASSUME NEW p \in Pages
         PROVE  /\ p > d => cache'[p] = NoPage
                /\ ~(p > d) /\ p \in RestoredPages(sp) =>
                      cache'[p] = [used |-> TRUE, ver |-> RestoredImage(sp, p), dirty |-> FALSE, restored |-> TRUE]
                /\ ~(p > d) /\ p \notin RestoredPages(sp) => cache'[p] = cache[p]
    <2>1. cache'[p] = PutBack(sp, p)
      BY <1>0, <1>10
    <2>2. p \in RestoredPages(sp) => ~(p > d)
      BY <1>3, PagesAre DEF RestoredPages
    <2> QED  BY <2>1, <2>2, PutBackIs
  <1>11. ASSUME NEW p \in Pages
         PROVE  /\ p \in RestoredPages(sp) => /\ p \in dirty_pages /\ RestoredImage(sp, p) \in Content
                                              /\ tx_state # "None" => RestoredImage(sp, p) = marks[i].pages[p]
                                              /\ p <= d
                /\ tx_state # "None" /\ p <= d /\ p \notin RestoredPages(sp) =>
                      /\ image.pages[p] = marks[i].pages[p]
                      /\ ContentUpTo(max_frame, p) = ContentUpTo(w, p)
    BY <1>11, RestoredFacts
  <1>12. NoPage.used = FALSE /\ NoPage \in [used : BOOLEAN, ver : Content, dirty : BOOLEAN, restored : BOOLEAN]
    <2>1. 0 \in Content
      BY SizeAssumption, LimitAssumption DEF Content
    <2> QED  BY <2>1 DEF NoPage
  <1> HIDE DEF w, d
  <1>13. CacheTypes'
    <2>1. ASSUME NEW p \in Pages
          PROVE  cache'[p] \in [used : BOOLEAN, ver : Content, dirty : BOOLEAN, restored : BOOLEAN]
      <3>1. CASE p > d
        BY <1>10, <1>12, <2>1, <3>1
      <3>2. CASE ~(p > d) /\ p \in RestoredPages(sp)
        <4>1. PICK v \in Content : v = RestoredImage(sp, p)
          BY <1>11, <2>1, <3>2
        <4>2. cache'[p] = [used |-> TRUE, ver |-> v, dirty |-> FALSE, restored |-> TRUE]
          BY <1>10, <2>1, <3>2, <4>1
        <4> QED  BY <4>2
      <3>3. CASE ~(p > d) /\ p \notin RestoredPages(sp)
        BY <1>2, <1>10, <2>1, <3>3 DEF CacheTypes
      <3> QED  BY <3>1, <3>2, <3>3
    <2>2. cache' = [p \in Pages |-> cache'[p]]
      BY <1>0
    <2>3. dirty_pages' \subseteq Pages
      BY <1>1, <1>2 DEF CacheTypes
    <2>4. cache' \in [Pages -> [used : BOOLEAN, ver : Content, dirty : BOOLEAN, restored : BOOLEAN]]
      BY <2>1, <2>2
    <2> QED  BY <2>3, <2>4 DEF CacheTypes
  <1>14. ASSUME NEW p \in Pages, p <= d, p \notin RestoredPages(sp)
         PROVE  ContentUpTo(w, p) = ContentUpTo(max_frame, p)
    <2>1. CASE tx_state # "None"
      BY <1>11, <1>14, <2>1
    <2>2. CASE tx_state = "None"
      BY <1>3, <2>2
    <2> QED  BY <2>1, <2>2
  <1>15. CacheInv'
    <2>1. ASSUME NEW p \in Pages, cache'[p].used
          PROVE  IF cache'[p].dirty \/ cache'[p].restored THEN p \in dirty_pages'
                 ELSE cache'[p].ver = ContentUpTo(max_frame, p)'
      <3>0. ~(p > d) /\ p <= d /\ p \in 1..d
        <4>1. ~(p > d)
          BY <1>10, <1>12, <2>1
        <4> QED  BY <1>3, <2>1, <4>1, PagesAre
      <3>1. CASE p \in RestoredPages(sp)
        <4>1. p \in dirty_pages'
          BY <1>1, <1>11, <2>1, <3>0, <3>1
        <4>2. cache'[p].restored = TRUE
          <5>1. PICK v : v = RestoredImage(sp, p)
            OBVIOUS
          <5>2. cache'[p] = [used |-> TRUE, ver |-> v, dirty |-> FALSE, restored |-> TRUE]
            BY <1>10, <2>1, <3>0, <3>1, <5>1
          <5> QED  BY <5>2
        <4> QED  BY <4>1, <4>2
      <3>2. CASE p \notin RestoredPages(sp)
        <4>1. cache'[p] = cache[p] /\ cache[p].used
          BY <1>10, <2>1, <3>0, <3>2
        <4>2. IF cache[p].dirty \/ cache[p].restored THEN p \in dirty_pages
              ELSE cache[p].ver = ContentUpTo(max_frame, p)
          BY <1>2, <2>1, <4>1 DEF CacheInv
        <4>3. ContentUpTo(max_frame, p)' = ContentUpTo(max_frame, p)
          BY <1>7, <1>14, <2>1, <3>0, <3>2
        <4>4. p \in dirty_pages => p \in dirty_pages'
          BY <1>1, <3>0
        <4> QED  BY <4>1, <4>2, <4>3, <4>4
      <3> QED  BY <3>1, <3>2
    <2> QED  BY <2>1 DEF CacheInv
  <1>16. ASSUME tx_state # "None", NEW p \in 1..d  PROVE PageSeen(p)' = marks[i].pages[p]
    <2>1. p \in Pages /\ p <= d /\ ~(p > d)
      BY <1>3, <1>16, PagesAre
    <2>2. CASE p \in RestoredPages(sp)
      <3>1. cache'[p].used = TRUE /\ cache'[p].ver = RestoredImage(sp, p)
        <4>1. PICK v : v = RestoredImage(sp, p)
          OBVIOUS
        <4>2. cache'[p] = [used |-> TRUE, ver |-> v, dirty |-> FALSE, restored |-> TRUE]
          BY <1>10, <2>1, <2>2, <4>1
        <4> QED  BY <4>1, <4>2
      <3> QED  BY <1>11, <1>16, <2>1, <2>2, <3>1 DEF PageSeen
    <2>3. CASE p \notin RestoredPages(sp)
      <3>1. cache'[p] = cache[p] /\ ContentUpTo(max_frame, p)' = ContentUpTo(max_frame, p)
        BY <1>7, <1>10, <1>14, <2>1, <2>3
      <3>2. PageSeen(p)' = PageSeen(p)
        BY <3>1 DEF PageSeen
      <3>3. PageSeen(p) = image.pages[p]
        <4>1. p \in 1..image.pages[PAGE_1]
          <5>1. PICK m : m = image.pages[PAGE_1]
            OBVIOUS
          <5>2. m \in Nat /\ d \in Nat /\ d <= m
            BY <1>3, <1>16, <5>1, PagesNat
          <5>3. p \in 1..m
            BY <1>16, <5>2
          <5> QED  BY <5>1, <5>3
        <4>2. SeesItsImage
          BY DEF ImageInv
        <4> QED  BY <1>16, <4>1, <4>2 DEF SeesItsImage
      <3> QED  BY <1>11, <1>16, <2>1, <2>3, <3>2, <3>3
    <2> QED  BY <2>2, <2>3
  <1> QED  BY <1>1, <1>4, <1>5, <1>8, <1>9, <1>13, <1>15, <1>16 DEF w, d

(* The stack below savepoint i, and i itself when it stays.                 *)
Rewound(i, d) ==
    /\ Depth' = d /\ IsSeq(savepoints')
    /\ \A a \in 1..d : SameSavepoint(savepoints'[a], savepoints[a])
    /\ Len(subjournal') = savepoints[i].start
    /\ \A k \in 1..savepoints[i].start : subjournal'[k] = subjournal[k]
    /\ \A a \in 1..d : marks'[a] = marks[a]
    /\ image' = marks[i]

LEMMA LevelsRewound ==
    ASSUME ImageInv, tx_state # "None", tx_state' = tx_state, committed' = committed,
           NEW i \in 1..Depth, NEW d \in {i - 1, i}, Rewound(i, d), RollbackToSnapshot(savepoints[i])
    PROVE  LevelInv'
  <1>0. PICK sp : sp = savepoints[i]
    OBVIOUS
  <1>1. /\ NestInv /\ TypeOK /\ Sizes /\ LevelInv
    BY DEF ImageInv
  <1>2. /\ Depth' = d /\ \A a \in 1..d : SameSavepoint(savepoints'[a], savepoints[a])
        /\ Len(subjournal') = sp.start
        /\ \A k \in 1..sp.start : subjournal'[k] = subjournal[k]
        /\ \A a \in 1..d : marks'[a] = marks[a]
        /\ image' = marks[i]
    BY <1>0 DEF Rewound
  <1>3. /\ i \in Levels /\ Depth \in Nat /\ sp.wal_max \in Nat /\ sp.start \in Nat
        /\ Img(i) = marks[i].pages /\ Pos(i) = sp.start /\ Wal(i) = sp.wal_max
    BY <1>0, RewindFacts
  <1>4. /\ \A p \in Pages : \A h \in 0..sp.wal_max :
             /\ LatestOf(frame_cache'[p], h) = LatestOf(frame_cache[p], h)
             /\ ContentUpTo(h, p)' = ContentUpTo(h, p)
    <2>1. RollbackToSnapshot(sp)
      BY <1>0
    <2> QED  BY <1>0, <2>1, RewoundPages
  <1>5. max_frame' = sp.wal_max /\ shared_max' = shared_max
    BY <1>0, Zenon DEF RollbackToSnapshot
  <1>6. PICK top : top = Now'
    OBVIOUS
  <1>7. /\ i \in Nat /\ d \in Nat /\ top = d + 1 /\ top \in Nat /\ Levels' = 1..top /\ ~(top <= d) /\ d <= i /\ top >= i
        /\ \A a \in Levels' : a \in 1..d \/ a = top
        /\ \A a \in 1..d : a \in Levels' /\ a <= d /\ a \in 1..i /\ a \in 1..Depth
        /\ top \in Levels'
    BY <1>2, <1>3, <1>6 DEF Levels, Now
  <1>8. /\ \A a \in 1..Depth : /\ Img(a) = marks[a].pages /\ Pos(a) = savepoints[a].start
                               /\ Wal(a) = savepoints[a].wal_max /\ a \in Levels
        /\ \A a \in Levels : Wal(a) \in Nat /\ Pos(a) \in Nat
        /\ \A b \in Levels : \A a \in 1..b - 1 : a \in 1..Depth /\ Pos(a) <= Pos(b)
    BY <1>1, LevelFacts
  <1>9. ASSUME NEW a \in 1..i  PROVE Wal(a) <= Wal(i) /\ Pos(a) <= Pos(i) /\ a \in Levels /\ shared_max <= Wal(a)
    <2>1. a \in 1..Depth /\ a \in Levels /\ Depth > 0
      BY <1>3, <1>7, <1>8, <1>9
    <2>2. LevelOK(a)
      BY <1>1, <2>1 DEF LevelInv
    <2>3. shared_max <= Wal(a)
      BY <2>1, <2>2 DEF LevelOK
    <2>4. CASE a = i
      BY <1>3, <2>1, <2>3, <2>4
    <2>5. CASE a # i
      <3>1. a \in 1..i - 1
        BY <1>7, <1>9, <2>5
      <3>2. LevelPair(a, i)
        BY <1>1, <1>3, <3>1 DEF LevelInv
      <3> QED  BY <1>3, <1>8, <2>1, <2>3, <3>1, <3>2 DEF LevelPair
    <2> QED  BY <2>4, <2>5
  <1>10. PICK lev : lev = [a \in Levels' |-> IF a <= d THEN a ELSE i]
    OBVIOUS
  <1>11. ASSUME NEW a \in 1..d
         PROVE  /\ lev[a] = a /\ a \in 1..i /\ a \in Levels
                /\ Img(a)' = Img(a) /\ Pos(a)' = Pos(a) /\ Wal(a)' = Wal(a)
                /\ savepoints'[a].db_size = Img(a)[PAGE_1]
    <2>1. lev[a] = a /\ a \in 1..i /\ a \in Levels /\ a \in 1..Depth
      BY <1>7, <1>8, <1>10, <1>11
    <2>2. /\ savepoints'[a].start = savepoints[a].start /\ savepoints'[a].db_size = savepoints[a].db_size
          /\ savepoints'[a].wal_max = savepoints[a].wal_max
      BY <1>2, <1>11 DEF SameSavepoint
    <2>3. Img(a)' = Img(a) /\ Pos(a)' = Pos(a) /\ Wal(a)' = Wal(a)
      BY <1>2, <1>7, <1>8, <1>11, <2>1, <2>2 DEF Img, Pos, Wal
    <2>4. LevelOK(a) /\ a <= Depth
      BY <1>1, <1>3, <2>1 DEF LevelInv
    <2>5. savepoints[a].db_size = Img(a)[PAGE_1]
      BY <2>4 DEF LevelOK
    <2> QED  BY <2>1, <2>2, <2>3, <2>5
  <1>12. /\ lev[top] = i /\ Img(top)' = Img(i) /\ Pos(top)' = Pos(i) /\ Wal(top)' = Wal(i) /\ ~(top <= Depth')
         /\ i \in 1..i
    <2>1. lev[top] = i /\ ~(top <= Depth') /\ i \in 1..i
      BY <1>2, <1>7, <1>10
    <2>2. Img(top)' = image'.pages /\ Pos(top)' = Len(subjournal') /\ Wal(top)' = max_frame'
      BY <2>1 DEF Img, Pos, Wal
    <2> QED  BY <1>2, <1>3, <1>5, <2>1, <2>2
  <1>13. ASSUME NEW a \in Levels'
         PROVE  /\ lev[a] \in Levels /\ lev[a] \in 1..i
                /\ Img(a)' = Img(lev[a]) /\ Pos(a)' = Pos(lev[a]) /\ Wal(a)' = Wal(lev[a])
                /\ a <= Depth' => savepoints'[a].db_size = Img(lev[a])[PAGE_1]
    <2>1. CASE a \in 1..d
      BY <1>11, <2>1
    <2>2. CASE a = top
      BY <1>3, <1>12, <2>2
    <2> QED  BY <1>7, <1>13, <2>1, <2>2
  <1>14. ASSUME NEW a \in Levels'
         PROVE  /\ shared_max <= Wal(lev[a])
                /\ \A k \in 1..Pos(lev[a]) : subjournal'[k] = subjournal[k]
                /\ \A p \in Pages :
                     /\ LatestOf(frame_cache'[p], Wal(lev[a])) = LatestOf(frame_cache[p], Wal(lev[a]))
                     /\ ContentUpTo(Wal(a), p)' = ContentUpTo(Wal(lev[a]), p)
    <2>1. PICK la \in 1..i : la = lev[a]
      BY <1>13, <1>14
    <2>2. Wal(la) <= sp.wal_max /\ Pos(la) <= sp.start /\ la \in Levels /\ shared_max <= Wal(la)
      BY <1>3, <1>9
    <2>3. Wal(la) \in Nat /\ Pos(la) \in Nat
      BY <1>8, <2>2
    <2>4. Wal(la) \in 0..sp.wal_max /\ \A k \in 1..Pos(la) : k \in 1..sp.start
      BY <1>3, <2>2, <2>3
    <2>5. \A p \in Pages : /\ LatestOf(frame_cache'[p], Wal(la)) = LatestOf(frame_cache[p], Wal(la))
                           /\ ContentUpTo(Wal(a), p)' = ContentUpTo(Wal(la), p)
      BY <1>4, <1>13, <1>14, <2>1, <2>4
    <2> QED  BY <1>2, <2>1, <2>2, <2>4, <2>5
  <1>15. ASSUME NEW b \in Levels', NEW a \in 1..b - 1
         PROVE  a \in Levels' /\ (lev[a] = lev[b] \/ lev[a] \in 1..lev[b] - 1)
    <2>1. a \in 1..d /\ a \in Levels' /\ a \in 1..i
      BY <1>7, <1>15
    <2>2. CASE b \in 1..d
      BY <1>11, <1>15, <2>1, <2>2
    <2>3. CASE b = top
      <3>1. a = i \/ a \in 1..i - 1
        BY <1>7, <2>1
      <3> QED  BY <1>11, <1>12, <2>1, <2>3, <3>1
    <2> QED  BY <1>7, <1>15, <2>1, <2>2, <2>3
  <1>16. Depth' \in Nat
    BY <1>2, <1>7
  <1> QED  BY <1>5, <1>13, <1>14, <1>15, <1>16, LevelsMapped

LEMMA ImageRewound ==
    ASSUME ImageInv, NestInv', tx_state' = tx_state, committed' = committed, ConnTypes', Control', ~running',
           NEW i \in 1..Depth, NEW d \in {i - 1, i}, Rewound(i, d), RollbackToSnapshot(savepoints[i]),
           marks' \in Seq(Image), Len(marks') = d, StackTypes', Bitmaps',
           \A a \in 1..d : savepoints'[a].bitmap \subseteq savepoints[a].bitmap,
           tx_state # "None" => fk' = marks[i].fk, tx_state # "Write" => fk' = fk
    PROVE  ImageInv'
  <1>0. PICK sp : sp = savepoints[i]
    OBVIOUS
  <1>1. /\ GhostTypes /\ Sizes /\ DirtyInv /\ Flat /\ Counter
    BY TypeParts DEF ImageInv
  <1>2. /\ Depth' = d /\ \A a \in 1..d : SameSavepoint(savepoints'[a], savepoints[a])
        /\ Len(subjournal') = sp.start
        /\ \A k \in 1..sp.start : subjournal'[k] = subjournal[k]
        /\ \A a \in 1..d : marks'[a] = marks[a]
        /\ image' = marks[i]
    BY <1>0 DEF Rewound
  <1>3. /\ Depth \in Nat /\ sp.start \in Nat /\ sp.start <= Len(subjournal) /\ Len(subjournal) \in Nat
        /\ sp.db_size \in Pages
        /\ tx_state # "None" =>
             /\ sp.db_size = marks[i].pages[PAGE_1]
             /\ \A k \in 1..sp.start : subjournal[k].page <= sp.db_size
        /\ tx_state # "Write" => sp.wal_max = shared_max /\ max_frame = shared_max /\ Len(subjournal) = 0
    BY <1>0, RewindFacts
  <1>4. /\ LogTypes' /\ CacheTypes' /\ LogInv' /\ CacheInv' /\ CommittedIsShared'
        /\ dirty_pages' = dirty_pages \intersect 1..sp.db_size
        /\ tx_state # "None" => \A p \in 1..sp.db_size : PageSeen(p)' = marks[i].pages[p]
    <2>1. RollbackToSnapshot(sp)
      BY <1>0
    <2> QED  BY <1>0, <2>1, RewoundPages
  <1>5. max_frame' = sp.wal_max /\ shared_max' = shared_max
    BY <1>0, Zenon DEF RollbackToSnapshot
  <1>6. /\ i \in Nat /\ d \in Nat /\ \A a \in 1..d : a \in 1..Depth
    BY <1>3
  <1>7. marks[i] \in Image /\ \A a \in 1..Depth : marks[a].pages[PAGE_1] \in Pages
    <2>1. marks \in Seq(Image) /\ Len(marks) = Depth
      BY <1>1 DEF GhostTypes, Sizes
    <2>2. \A a \in 1..Depth : marks[a].pages[PAGE_1] \in Pages
      BY <1>1 DEF Sizes
    <2> QED  BY <2>1, <2>2
  <1>8. TypeOK'
    <2>1. GhostTypes'
      BY <1>1, <1>2, <1>7 DEF GhostTypes
    <2> QED  BY <1>4, <2>1, TypePartsAfter
  <1>9. Sizes'
    BY <1>1, <1>2, <1>6, <1>7 DEF Sizes
  <1>10. DirtyInv'
    <2>1. ASSUME NEW k \in 1..Len(subjournal')  PROVE subjournal'[k].page \in dirty_pages'
      <3>1. k \in 1..sp.start /\ k \in 1..Len(subjournal) /\ Len(subjournal) # 0
        BY <1>2, <1>3, <2>1
      <3>2. tx_state # "None"
        BY <1>3, <3>1
      <3>3. subjournal'[k] = subjournal[k] /\ subjournal[k].page <= sp.db_size
            /\ subjournal[k].page \in dirty_pages /\ subjournal[k].page \in Pages
        BY <1>1, <1>2, <1>3, <3>1, <3>2, StackFacts, TypeParts DEF DirtyInv, ImageInv
      <3>4. subjournal[k].page \in 1..sp.db_size
        BY <1>3, <3>3, PagesAre
      <3> QED  BY <1>4, <3>3, <3>4
    <2>2. tx_state # "None" => dirty_pages' \subseteq 1..image'.pages[PAGE_1]
      BY <1>2, <1>3, <1>4
    <2> QED  BY <2>1, <2>2 DEF DirtyInv
  <1>11. Flat'
    <2>1. ASSUME tx_state # "Write"
          PROVE  /\ max_frame' = shared_max' /\ Len(subjournal') = 0
                 /\ \A a \in 1..d :
                     /\ savepoints'[a].wal_max = shared_max' /\ savepoints'[a].bitmap = {}
                     /\ savepoints'[a].db_size = committed'[PAGE_1] /\ savepoints'[a].fk = fk'
      <3>1. max_frame' = shared_max' /\ Len(subjournal') = 0
        BY <1>2, <1>3, <1>5, <2>1
      <3>2. \A a \in 1..Depth :
                 /\ savepoints[a].wal_max = shared_max /\ savepoints[a].bitmap = {}
                 /\ savepoints[a].db_size = committed[PAGE_1] /\ savepoints[a].fk = fk
        BY <1>1, <1>3, <2>1 DEF Flat
      <3>3. ASSUME NEW a \in 1..d
            PROVE  /\ savepoints'[a].wal_max = shared_max' /\ savepoints'[a].bitmap = {}
                   /\ savepoints'[a].db_size = committed'[PAGE_1] /\ savepoints'[a].fk = fk'
        <4>1. /\ savepoints'[a].wal_max = savepoints[a].wal_max
              /\ savepoints'[a].db_size = savepoints[a].db_size
              /\ savepoints'[a].fk = savepoints[a].fk
          BY <1>2, <3>3 DEF SameSavepoint
        <4>2. savepoints[a].bitmap = {} /\ savepoints'[a].bitmap \subseteq savepoints[a].bitmap
          BY <1>6, <3>2, <3>3
        <4> QED  BY <1>5, <1>6, <2>1, <3>2, <3>3, <4>1, <4>2
      <3> QED  BY <3>1, <3>3
    <2> QED  BY <1>2, <2>1 DEF Flat
  <1>12. LevelInv'
    <2>1. CASE tx_state = "None"
      BY <2>1 DEF LevelInv
    <2>2. CASE tx_state # "None"
      BY <2>2, LevelsRewound
    <2> QED  BY <2>1, <2>2
  <1>13. Counter'
    <2>1. \A a \in 1..d : savepoints'[a].kind = savepoints[a].kind /\ savepoints'[a].fk = savepoints[a].fk
      BY <1>2 DEF SameSavepoint
    <2> QED  BY <1>1, <1>2, <1>6, <2>1 DEF Counter
  <1>14. SeesItsImage'
    BY <1>2, <1>3, <1>4 DEF SeesItsImage
  <1> QED  BY <1>4, <1>8, <1>9, <1>10, <1>11, <1>12, <1>13, <1>14 DEF ImageInv

LEMMA ImageAbortStatement ==
    ASSUME ImageInv, NestInv', AbortStatement
    PROVE  ImageInv'
  <1>1. /\ NestInv /\ Stack /\ Offsets /\ Owners /\ ConnTypes /\ Control /\ StackTypes /\ GhostTypes
        /\ Sizes /\ Counter /\ Bitmaps /\ 0 \in Fks
    BY TypeParts, ChoiceAssumption DEF ImageInv, NestInv
  <1>2. PICK n : n = Depth
    OBVIOUS
  <1>3. PICK sp : sp = savepoints[n]
    OBVIOUS
  <1>4. Last(savepoints) = sp /\ Last(marks) = marks[n] /\ Front(marks) = SubSeq(marks, 1, n - 1)
        /\ Len(savepoints) = n
    BY <1>1, <1>2, <1>3 DEF Last, Front, Depth, Sizes
  <1>5. PICK d : d = n - 1
    OBVIOUS
  <1>6. /\ running /\ running' = FALSE /\ in_use' = FALSE /\ stmt_fk' = 0 /\ ~auto_commit
        /\ RollbackToSnapshot(sp) /\ savepoints' = Cut(d, sp.start) /\ fk' = stmt_fk
        /\ image' = marks[n] /\ marks' = SubSeq(marks, 1, d)
        /\ tx_state' = tx_state /\ auto_commit' = auto_commit /\ committed' = committed
        /\ writes' = writes
    BY <1>4, <1>5 DEF AbortStatement, EndStatement
  <1>7. n \in 1..n /\ n \in Nat /\ n \in 1..Depth
    BY <1>1, <1>2, <1>6, OwnersRead, SeqShape DEF Stack, Depth
  <1>8. d \in 0..Depth /\ d \in {n - 1, n} /\ d \in Nat /\ d <= n
        /\ \A a \in 1..d : a \in 1..n /\ a \in 1..n - 1
    BY <1>2, <1>5, <1>7
  <1>9. subjournal' = SubSeq(subjournal, 1, sp.start)
    BY <1>6, Zenon DEF RollbackToSnapshot
  <1>10. sp.start \in Nat /\ sp.start \in 0..Len(subjournal) /\ IsSeq(subjournal)
    BY <1>1, <1>3, <1>7, RewindFacts DEF Stack
  <1>11. Len(subjournal') = sp.start /\ \A k \in 1..sp.start : subjournal'[k] = subjournal[k]
    BY <1>9, <1>10, SeqPrefix
  <1>12. /\ IsSeq(savepoints') /\ Len(savepoints') = d
         /\ \A i \in 1..d :
              /\ SameSavepoint(savepoints'[i], savepoints[i])
              /\ savepoints'[i].end = IF i = d THEN sp.start ELSE savepoints[i].end
              /\ savepoints'[i].bitmap = savepoints[i].bitmap
    <2>1. d \in 0..Len(savepoints)
      BY <1>8 DEF Depth
    <2> QED  BY <1>1, <1>6, <2>1, CutShape
  <1>13. marks' \in Seq(Image) /\ Len(marks') = d /\ \A a \in 1..d : marks'[a] = marks[a]
    BY <1>1, <1>6, <1>8, MarksCut
  <1>14. StackTypes'
    <2>1. savepoints' \in Seq(SavepointType)
      BY <1>1, <1>6, <1>8, <1>10, CutTyped DEF Depth
    <2>2. subjournal' \in Seq(PageImage)
      BY <1>1, <1>9, <1>10 DEF StackTypes
    <2> QED  BY <2>1, <2>2 DEF StackTypes
  <1>15. Bitmaps'
    <2>1. ASSUME NEW a \in 1..d
          PROVE  /\ a \in 1..Depth /\ savepoints'[a].bitmap = savepoints[a].bitmap
                 /\ savepoints'[a].start = savepoints[a].start
                 /\ savepoints'[a].end \in Nat /\ savepoints[a].end <= savepoints'[a].end
                 /\ \A k \in 1..savepoints[a].end : subjournal'[k] = subjournal[k]
      <3>1. savepoints[a].end \in Nat /\ savepoints[a].end <= sp.start
        BY <1>1, <1>2, <1>3, <1>7, <1>8, <2>1 DEF Stack, Offsets, Depth
      <3>2. savepoints'[a].end \in Nat /\ savepoints[a].end <= savepoints'[a].end
        BY <1>10, <1>12, <2>1, <3>1
      <3>3. \A k \in 1..savepoints[a].end : k \in 1..sp.start
        BY <1>10, <3>1
      <3> QED  BY <1>2, <1>8, <1>11, <1>12, <2>1, <3>2, <3>3 DEF SameSavepoint
    <2>2. Depth' = d
      BY <1>12 DEF Depth
    <2> QED  BY <1>1, <2>1, <2>2, BitmapsKept
  <1>16. Rewound(n, d)
    BY <1>3, <1>6, <1>11, <1>12, <1>13 DEF Rewound, Depth
  <1>17. ConnTypes' /\ Control'
    BY <1>1, <1>6 DEF ConnTypes, Control
  <1>18. fk' = marks[n].fk /\ tx_state = "Write"
    BY <1>1, <1>2, <1>6 DEF Counter, Control
  <1>19. RollbackToSnapshot(savepoints[n]) /\ \A a \in 1..d : savepoints'[a].bitmap \subseteq savepoints[a].bitmap
    BY <1>3, <1>6, <1>12
  <1> QED  BY <1>6, <1>7, <1>8, <1>13, <1>14, <1>15, <1>16, <1>17, <1>18, <1>19, ImageRewound

LEMMA ImageRollbackTo ==
    ASSUME ImageInv, NestInv', NEW n \in Names, RollbackToNamed(n)
    PROVE  ImageInv'
  <1>1. /\ NestInv /\ Stack /\ Offsets /\ Owners /\ ConnTypes /\ Control /\ StackTypes /\ GhostTypes
        /\ Sizes /\ Counter /\ Bitmaps /\ Flat /\ Depth \in Nat
    BY TypeParts, StackFacts DEF ImageInv, NestInv, Depth
  <1>2. PICK i : i = Newest(n)
    OBVIOUS
  <1>3. PICK sp : sp = savepoints[i]
    OBVIOUS
  <1>4. /\ ~running /\ i # 0 /\ RollbackToSnapshot(sp)
        /\ savepoints' = Append(Cut(i - 1, sp.start), [sp EXCEPT !.end = sp.start, !.bitmap = {}])
        /\ fk' = sp.fk /\ image' = marks[i] /\ marks' = SubSeq(marks, 1, i)
        /\ in_use' = in_use /\ tx_state' = tx_state /\ auto_commit' = auto_commit
        /\ running' = running /\ stmt_fk' = stmt_fk /\ committed' = committed /\ writes' = writes
    BY <1>2, <1>3 DEF RollbackToNamed
  <1>5. i \in 1..Depth /\ i \in 1..Len(savepoints) /\ sp.kind = n
    BY <1>1, <1>2, <1>3, <1>4, NewestIndex DEF Depth
  <1>6. subjournal' = SubSeq(subjournal, 1, sp.start)
    BY <1>4, Zenon DEF RollbackToSnapshot
  <1>7. /\ IsSeq(savepoints') /\ Len(savepoints') = i
        /\ \A j \in 1..i :
             /\ SameSavepoint(savepoints'[j], savepoints[j])
             /\ savepoints'[j].end = IF j >= i - 1 THEN sp.start ELSE savepoints[j].end
             /\ savepoints'[j].bitmap = IF j = i THEN {} ELSE savepoints[j].bitmap
        /\ Len(subjournal') = sp.start
        /\ \A k \in 1..sp.start : subjournal'[k] = subjournal[k]
    BY <1>1, <1>3, <1>4, <1>5, <1>6, RewindStep, ZenonT(40)
  <1>8. sp.start \in Nat /\ sp.start <= Len(subjournal) /\ Len(subjournal) \in Nat /\ sp \in SavepointType
        /\ sp.fk \in Fks
    BY <1>1, <1>3, <1>5, RewindFacts, StackFacts DEF Depth
  <1>9. /\ i \in Nat /\ i \in 0..Depth /\ i \in {i - 1, i} /\ i - 1 \in 0..Len(savepoints)
        /\ \A a \in 1..i : a \in 1..Depth
    BY <1>1, <1>5 DEF Depth
  <1>10. marks' \in Seq(Image) /\ Len(marks') = i /\ \A a \in 1..i : marks'[a] = marks[a]
    BY <1>1, <1>4, <1>9, MarksCut
  <1>11. StackTypes'
    <2>1. PICK r : r = [sp EXCEPT !.end = sp.start, !.bitmap = {}]
      OBVIOUS
    <2>2. r \in SavepointType
      BY <1>8, <2>1 DEF SavepointType
    <2>3. Cut(i - 1, sp.start) \in Seq(SavepointType)
      BY <1>1, <1>8, <1>9, CutTyped
    <2>4. savepoints' = Append(Cut(i - 1, sp.start), r)
      BY <1>4, <2>1
    <2>5. savepoints' \in Seq(SavepointType)
      BY <2>2, <2>3, <2>4
    <2>6. subjournal' \in Seq(PageImage)
      BY <1>1, <1>6, <1>8 DEF StackTypes
    <2> QED  BY <2>5, <2>6 DEF StackTypes
  <1>12. Depth' = i
    BY <1>7 DEF Depth
  <1>13. Bitmaps'
    <2>1. ASSUME NEW a \in 1..i
          PROVE  \/ savepoints'[a].bitmap = {}
                 \/ /\ a \in 1..Depth /\ savepoints'[a].bitmap = savepoints[a].bitmap
                    /\ savepoints'[a].start = savepoints[a].start
                    /\ savepoints'[a].end \in Nat /\ savepoints[a].end <= savepoints'[a].end
                    /\ \A k \in 1..savepoints[a].end : subjournal'[k] = subjournal[k]
      <3>1. CASE a = i
        BY <1>7, <2>1, <3>1
      <3>2. CASE a # i
        <4>1. a \in 1..i - 1
          BY <1>9, <2>1, <3>2
        <4>2. savepoints[a].end \in Nat /\ savepoints[a].end <= sp.start
          BY <1>1, <1>3, <1>5, <1>9, <2>1, <4>1 DEF Stack, Offsets, Depth
        <4>3. savepoints'[a].end \in Nat /\ savepoints[a].end <= savepoints'[a].end
          BY <1>7, <1>8, <2>1, <4>2
        <4>4. \A k \in 1..savepoints[a].end : k \in 1..sp.start
          BY <1>8, <4>2
        <4> QED  BY <1>7, <1>9, <2>1, <3>2, <4>3, <4>4 DEF SameSavepoint
      <3> QED  BY <3>1, <3>2
    <2> QED  BY <1>1, <1>12, <2>1, BitmapsKept
  <1>14. Rewound(i, i)
    BY <1>3, <1>4, <1>7, <1>10, <1>12 DEF Rewound
  <1>15. ConnTypes' /\ Control' /\ ~running'
    BY <1>1, <1>4, <1>8 DEF ConnTypes, Control
  <1>16. tx_state # "None" => fk' = marks[i].fk
    <2>1. sp.kind # "Statement"
      BY <1>5, NamesAssumption
    <2> QED  BY <1>1, <1>3, <1>4, <1>5, <2>1 DEF Counter
  <1>17. tx_state # "Write" => fk' = fk
    BY <1>1, <1>3, <1>4, <1>5 DEF Flat
  <1>18. RollbackToSnapshot(savepoints[i]) /\ \A a \in 1..i : savepoints'[a].bitmap \subseteq savepoints[a].bitmap
    BY <1>3, <1>4, <1>7
  <1> QED  BY <1>4, <1>5, <1>9, <1>10, <1>11, <1>13, <1>14, <1>15, <1>16, <1>17, <1>18, ImageRewound

-----------------------------------------------------------------------------
(* The invariant.                                                           *)

LEMMA ImageInit == Init => ImageInv
  <1> SUFFICES ASSUME Init  PROVE ImageInv
    OBVIOUS
  <1>1. /\ frames = <<>> /\ frame_cache = [p \in Pages |-> <<>>]
        /\ shared_max = 0 /\ max_frame = 0
        /\ cache = EmptyCache /\ dirty_pages = {}
        /\ savepoints = <<>> /\ subjournal = <<>> /\ in_use = FALSE
        /\ tx_state = "None" /\ auto_commit = TRUE /\ running = FALSE
        /\ fk = 0 /\ stmt_fk = 0
        /\ committed = [p \in Pages |-> FileContent(p)]
        /\ image = [pages |-> committed, fk |-> 0] /\ marks = <<>>
        /\ writes = 0
    BY DEF Init
  <1>2. NestInv
    BY NestInit
  <1>3. /\ 0 \in Fks /\ 0 \in Content /\ InitSize \in Content /\ InitSize \in Pages
        /\ MaxFrames \in Nat /\ MaxWrites \in Nat /\ MaxPages \in Nat /\ PAGE_1 \in Pages
    BY ChoiceAssumption, LimitAssumption, SizeAssumption, PagesAre DEF Content, Pages
  <1>4. committed \in [Pages -> Content] /\ committed[PAGE_1] = InitSize
    BY <1>1, <1>3 DEF FileContent
  <1>5. Depth = 0 /\ Len(marks) = 0 /\ Len(subjournal) = 0 /\ Len(frames) = 0
    BY <1>1 DEF Depth
  <1>6. TypeOK
    <2>1. LogTypes
      BY <1>1, <1>3 DEF LogTypes
    <2>2. CacheTypes
      BY <1>1, <1>3 DEF CacheTypes, EmptyCache, NoPage
    <2>3. StackTypes
      BY <1>1 DEF StackTypes
    <2>4. ConnTypes
      BY <1>1, <1>3 DEF ConnTypes
    <2>5. GhostTypes
      BY <1>1, <1>3, <1>4 DEF GhostTypes, Image
    <2> QED  BY <2>1, <2>2, <2>3, <2>4, <2>5, TypeParts
  <1>7. Control /\ Sizes
    BY <1>1, <1>3, <1>4, <1>5 DEF Control, Sizes
  <1>8. ASSUME NEW p \in Pages  PROVE frame_cache[p] = <<>> /\ TopOf(frame_cache[p]) = 0
    BY <1>1, <1>8 DEF TopOf
  <1>9. LogInv
    BY <1>1, <1>5, <1>8 DEF LogInv
  <1>10. CacheInv
    BY <1>1 DEF CacheInv, EmptyCache, NoPage
  <1>11. DirtyInv /\ Flat /\ Bitmaps
    BY <1>1, <1>5 DEF DirtyInv, Flat, Bitmaps
  <1>12. LevelInv /\ Counter /\ SeesItsImage
    BY <1>1, <1>5 DEF LevelInv, Counter, SeesItsImage
  <1>13. CommittedIsShared
    <2>1. ASSUME NEW p \in 1..committed[PAGE_1]  PROVE ContentUpTo(shared_max, p) = committed[p]
      <3>1. p \in Pages
        BY <1>3, <1>4, <2>1, PagesAre
      <3>2. LatestOf(frame_cache[p], shared_max) = 0
        <4>1. frame_cache[p] = <<>> /\ DOMAIN frame_cache[p] = {}
          BY <1>8, <3>1
        <4> QED  BY <4>1 DEF LatestOf
      <3> QED  BY <1>1, <3>1, <3>2, ContentIs DEF ContentOf
    <2> QED  BY <2>1 DEF CommittedIsShared
  <1> QED  BY <1>2, <1>6, <1>7, <1>9, <1>10, <1>11, <1>12, <1>13 DEF ImageInv

LEMMA ImageStep ==
    ASSUME Strict, ImageInv, [Next]_vars
    PROVE  ImageInv'
  <1>1. NestInv'
    BY NestStep DEF ImageInv
  <1>2. CASE UNCHANGED vars
    BY <1>1, <1>2, ImageIdle
  <1>3. CASE BeginAutoCommit \/ BeginRead
    BY <1>1, <1>3, ImageBegin
  <1>4. CASE BeginStatement
    BY <1>1, <1>4, ImageBeginStatement
  <1>5. CASE Begin
    BY <1>1, <1>5, ImageIdle
  <1>6. ASSUME NEW p \in Pages, ReadPage(p) \/ WritePage(p) \/ SpillPage(p) \/ EvictPage(p)
        PROVE  ImageInv'
    BY <1>1, <1>6, ImageReadPage, ImageWritePage, ImageSpillPage, ImageEvictPage
  <1>7. CASE AllocatePage
    BY <1>1, <1>7, ImageAllocatePage
  <1>8. ASSUME NEW k \in Fks, CountViolations(k) \/ AbortTransaction(k)  PROVE ImageInv'
    BY <1>1, <1>8, ImageIdle, ImageEnd
  <1>9. CASE ReleaseStatement
    BY <1>1, <1>9, ImageRelease
  <1>10. CASE AutoCommit \/ Commit \/ Rollback
    BY <1>1, <1>10, ImageEnd DEF Commit
  <1>11. CASE AbortStatement
    BY <1>1, <1>11, ImageAbortStatement
  <1>12. CASE FailRead
    BY <1>1, <1>12, ImageIdle, ImageEnd
  <1>13. ASSUME NEW n \in Names, Savepoint(n) \/ ReleaseNamed(n) \/ RollbackToNamed(n)
         PROVE  ImageInv'
    BY <1>1, <1>13, ImageSavepoint, ImageRelease, ImageRollbackTo
  <1>14. ASSUME NEW p \in Pages, OtherCommit(p)  PROVE ImageInv'
    BY <1>1, <1>14, ImageOther
  <1> QED
    BY <1>2, <1>3, <1>4, <1>5, <1>6, <1>7, <1>8, <1>9, <1>10, <1>11, <1>12, <1>13, <1>14 DEF Next

(* Without a transaction nothing is dirty; in one the dirty pages are those *)
(* of the image.                                                            *)
LEMMA ImageImplies ==
    ImageInv => TypeOK /\ SeesItsImage /\ CommittedIsShared /\ DirtyPagesExist
  <1> SUFFICES ASSUME ImageInv  PROVE DirtyPagesExist
    BY DEF ImageInv
  <1>1. CASE tx_state # "None"
    BY <1>1, SeenPages DEF DirtyPagesExist
  <1>2. CASE tx_state = "None"
    <2>1. dirty_pages = {}
      BY <1>2 DEF ImageInv, LogInv
    <2> QED  BY <2>1 DEF DirtyPagesExist
  <1> QED  BY <1>1, <1>2

LEMMA ImageAlways ==
    ASSUME Strict
    PROVE  Spec => []ImageInv
  <1>1. ImageInv /\ [Next]_vars => ImageInv'
    BY ImageStep
  <1> QED  BY <1>1, ImageInit, PTL DEF Spec

(* The state keeps its types: every page, frame, offset and counter is one  *)
(* the code can hold, in every reachable state.                             *)
THEOREM PagerTypes ==
    ASSUME Strict
    PROVE  Spec => []TypeOK
  BY ImageAlways, ImageImplies, PTL

(* A transaction always reads exactly what its statements wrote and did not *)
(* take back, and the violation counter goes with the pages: for every size *)
(* of the database, every nesting of statements, SAVEPOINT, RELEASE and     *)
(* ROLLBACK TO, and every choice of the pages spilled to the log and        *)
(* evicted (subjournal_page_if_required, try_spill_dirty_pages,             *)
(* rollback_to_snapshot).                                                   *)
THEOREM TransactionsSeeTheirImage ==
    ASSUME Strict
    PROVE  Spec => []SeesItsImage
  BY ImageAlways, ImageImplies, PTL

(* Every other connection always finds exactly the pages of the last commit *)
(* in the log and the database, whatever this one spills, takes back or     *)
(* writes over (prepare_frames, rollback_cache).                            *)
THEOREM CommitsAreShared ==
    ASSUME Strict
    PROVE  Spec => []CommittedIsShared
  BY ImageAlways, ImageImplies, PTL

(* The pages a commit will write are always pages of the database: a        *)
(* rollback leaves no entry for a page that it dropped                      *)
(* (rollback_to_snapshot).                                                  *)
THEOREM CommitsWriteExistingPages ==
    ASSUME Strict
    PROVE  Spec => []DirtyPagesExist
  BY ImageAlways, ImageImplies, PTL

=============================================================================
