---------------------------- MODULE WalLogProofs ----------------------------
(***************************************************************************)
(* What readers, writers and checkpoints find in the log and the database  *)
(* file, proved for every finite set of connections, every number of read  *)
(* marks and pages and every bound.                                        *)
(*                                                                         *)
(* WalInv is the inductive invariant, on top of LockInv. It speaks of the  *)
(* image the log was started on (base): the published frames over base are *)
(* the last commit (LogInv), the frames up to a reader's last one over     *)
(* base are the image it began at (ReadInv), frames behind the published   *)
(* ones are the writer's own (SpillInv, WriteInv), and a page whose frame  *)
(* a lookup may pass over is in the database file, or still to be copied   *)
(* by the checkpoint that lets it pass over (FileServes, CkptInv). base    *)
(* changes only when the log is restarted, and then to the last commit.    *)
(*                                                                         *)
(* The last part maps the log to SnapshotStore.  StoreInv adds what WalInv *)
(* does not keep of a writer whose frames are written: it still sees the   *)
(* image it began at, and what is in doubt is what it will publish.        *)
(***************************************************************************)
EXTENDS WalFileProofs

-----------------------------------------------------------------------------
(* What the files and the frame cache hold.                                 *)

Unpublished == {"restart", "write", "header", "frames", "walsync", "publish"}
Looking == {"read", "restart", "write", "header"}

(* Frame b ends a commit (or no frame is before it): lookups bounded by it  *)
(* find frames that hold the page that is looked up.                        *)
Boundary(b) ==
    /\ b \in 0..shared.max
    /\ \A p \in Pages :
        /\ InOrderAt(frame_cache[p], b)
        /\ LET f == LatestOf(frame_cache[p], b) IN f # 0 => wal.frames[f].page = p

(* The image the log gives up to frame b, over the image base it started on. *)
ImageAt(base, b) ==
    [p \in Pages |-> LET f == LatestOf(frame_cache[p], b)
                     IN  IF f = 0 THEN base[p] ELSE wal.frames[f].ver]

(* The database file has what a reader of the frames nb + 1 .. m misses.    *)
FileServes(base, nb, m) ==
    \A p \in Pages : LatestOf(frame_cache[p], m) <= nb => db[p] = ImageAt(base, m)[p]

Snapshots == [max : Nat, nb : Nat, seq : Nat, tx : Nat, hdr : BOOLEAN]
Frames == [page : Pages, ver : 0..MaxTxn, commit : BOOLEAN]
CachedPages == [ver : Nat, frame : Nat, epoch : Nat, dirty : BOOLEAN, used : BOOLEAN]

LogTypes ==
    /\ shared \in [max : Nat, nb : Nat, seq : Nat, tx : Nat, hdr : BOOLEAN,
                   init : BOOLEAN, epoch : Nat]
    /\ frame_cache \in [Pages -> Seq(FrameNumber)]
    /\ wal \in [gen : Nat, frames : Seq(Frames)]
    /\ db \in Images
    /\ history \in Seq(Images) /\ history # <<>>
    /\ txns \in 0..MaxTxn /\ crashes = 0
    /\ \A i \in 0..Slots : slot[i].mark \in Nat
ConnType(c) ==
    /\ pick[c].snap \in Snapshots /\ pick[c].mark \in Nat
    /\ tx[c].id \in 0..MaxTxn /\ tx[c].dirty \subseteq Pages /\ tx[c].spilled \subseteq tx[c].dirty
    /\ ckpt[c].old \in Nat /\ ckpt[c].max \in Nat /\ ckpt[c].scan \in Nat
    /\ view[c] \in 1..Len(history)
ConnTypes ==
    /\ snap \in [Conns -> Snapshots] /\ cache \in [Conns -> [Pages -> CachedPages]]
    /\ DOMAIN view = Conns
    /\ \A c \in Conns : ConnType(c)

(* The shared part: the published frames over base are the last committed   *)
(* image, and the database file has what is backfilled.                     *)
LogInv(base) ==
    /\ shared.max <= Len(wal.frames) /\ (~shared.init => shared.max = 0)
    /\ shared.nb <= shared.max /\ Boundary(shared.nb) /\ Boundary(shared.max)
    /\ ImageAt(base, shared.max) = Last(history)
    /\ FileServes(base, shared.nb, shared.max)

(* Only a writer's own spilled pages have frames behind the published ones. *)
SpillInv ==
    \A p \in Pages : \A i \in 1..Len(frame_cache[p]) :
        frame_cache[p][i] > shared.max =>
            \E c \in Conns : pc[c] \in Unpublished /\ p \in tx[c].spilled

OwnFrame(c, p) ==
    LET s == frame_cache[p] IN
    /\ s # <<>> /\ s[Len(s)] \in shared.max + 1..shared.max + Cardinality(tx[c].spilled)
    /\ \A i \in 1..Len(s) - 1 : s[i] <= shared.max
WriteInv(c) ==
    /\ pc[c] \notin WriteSteps \union CheckpointSteps => tx[c].dirty = {}
    /\ pc[c] \in Unpublished /\ tx[c].vacuum => tx[c].spilled = {}
    /\ pc[c] \in Unpublished =>
        /\ \A p \in tx[c].spilled : OwnFrame(c, p)
        /\ snap[c].tx = shared.tx /\ history[view[c]] = Last(history)
        /\ ~shared.init => tx[c].spilled = {}
    /\ pc[c] = "restart" => tx[c].dirty = {}
    /\ pc[c] = "header" => shared.max = 0 /\ tx[c].spilled = {}
    /\ pc[c] \in {"frames", "walsync", "publish"} => shared.init
    /\ pc[c] \in {"restart", "write", "header"} =>
        /\ snap[c].max = shared.max + Cardinality(tx[c].spilled)
        /\ snap[c].max <= Len(wal.frames)
        /\ \A p \in tx[c].spilled :
             LET f == frame_cache[p][Len(frame_cache[p])]
             IN  wal.frames[f].page = p /\ wal.frames[f].ver = tx[c].id
    /\ pc[c] \in {"walsync", "publish"} =>
        /\ shared.max + Cardinality(tx[c].dirty) <= Len(wal.frames)
        /\ \A i \in 1..Cardinality(tx[c].dirty) : wal.frames[shared.max + i] = CommitFrames(c)[i]

(* The frames connection c looks up pages in end here, its own aside.       *)
ViewMax(c) == IF pc[c] = "read" THEN snap[c].max ELSE shared.max

(* A lookup in the frames nb + 1 .. m, else in the database file, gives      *)
(* image v of the history.                                                  *)
Sees(base, nb, m, v) ==
    /\ Boundary(nb) /\ Boundary(m) /\ nb <= m
    /\ ImageAt(base, m) = history[v] /\ FileServes(base, nb, m)
ReadInv(base, c) ==
    /\ snap[c].tx <= shared.tx
    /\ guard[c] \in Marks => Boundary(slot[guard[c]].mark)
    /\ pc[c] = "read" /\ snap[c].tx = shared.tx => history[view[c]] = Last(history)
    /\ pc[c] \in Looking =>
        /\ Sees(base, snap[c].nb, ViewMax(c), view[c]) /\ snap[c].nb <= shared.nb
        /\ guard[c] \in Marks => slot[guard[c]].mark <= ViewMax(c)

PickInv(c) ==
    pc[c] \in {"choose", "lock"} =>
        /\ pick[c].snap.seq <= shared.seq
        /\ pick[c].snap.seq = shared.seq => 
            /\ Boundary(pick[c].snap.max)
            /\ pc[c] = "lock" /\ pick[c].slot \in Marks =>
                Boundary(pick[c].mark) /\ pick[c].mark <= pick[c].snap.max

(* A checkpoint between its start and the publication of what it copied.    *)
Copying(c) ==
    \/ pc[c] \in {"guard", "scan", "backfill"}
    \/ pc[c] \in {"finalize", "dbsync", "backfilled"} /\ ~RestartsLog(ckpt[c].mode)
Copied(base, c) ==
    /\ \A p \in Pages : LET f == LatestOf(frame_cache[p], ckpt[c].max) IN
        f > ckpt[c].old => <<p, f>> \in ckpt[c].todo \/ db[p] = ImageAt(base, ckpt[c].max)[p]
    /\ \A t \in ckpt[c].todo : \E p \in Pages : LET f == LatestOf(frame_cache[p], ckpt[c].max) IN
        t = <<p, f>> /\ f > ckpt[c].old
CkptInv(base, c) ==
    /\ pc[c] \in CheckpointSteps \/ pc[c] = "vacuum" \/ tx[c].vacuum => c \in Checkpointers \union Vacuumers
    /\ pc[c] \in WriteSteps => c \in Writers \/ tx[c].vacuum
    /\ Copying(c) =>
        /\ ckpt[c].old = shared.nb
        /\ shared.nb < shared.max \/ RestartsLog(ckpt[c].mode)
        /\ pc[c] # "guard" => Boundary(ckpt[c].max)
        /\ pc[c] \notin {"guard", "scan"} =>
             Copied(base, c)
        /\ pc[c] \in {"finalize", "dbsync", "backfilled"} => ckpt[c].todo = {}
        /\ pc[c] \in {"dbsync", "backfilled"} => ckpt[c].max > ckpt[c].old
    /\ \A d \in Conns : pc[d] = "read" /\ (pc[c] = "backfill" \/ (pc[c] = "scan" /\ guard[d] < ckpt[c].scan))
            => ckpt[c].max <= snap[d].max
    /\ pc[c] \in {"truncate", "truncated"} => ckpt[c].mode = "Truncate"
    /\ pc[c] = "backfilled" => ~RestartsLog(ckpt[c].mode)
    /\ RestartsLog(ckpt[c].mode) =>
        /\ pc[c] \in CheckpointSteps => tx[c].vacuum \/ Writers \subseteq {c}
        /\ pc[c] \in {"finalize", "dbsync", "truncate", "truncated", "finish"} => shared.max = 0

(* A clean page is tagged with a published frame that has its content, or   *)
(* with the writer's own one.                                               *)
Tags(c) ==
    \A p \in Pages : LET pg == cache[c][p] IN pg.used =>
        /\ c \in Caching /\ pg.epoch <= shared.epoch
        /\ ~pg.dirty /\ pg.epoch = shared.epoch /\ pg.frame # 0 =>
            \/ pg.frame <= shared.max /\ pg.ver = FrameContent(wal, pg.frame, p)
            \/ pc[c] \in Unpublished /\ p \in tx[c].spilled
            \/ Restarting # {}
        /\ pc[c] \in Unpublished /\ p \in tx[c].spilled => pg.frame > shared.max

(* In a transaction the cache has the pages it sees, between transactions   *)
(* those of the last commit unless the snapshot tells that it is stale.     *)
InTransaction == {"read"} \union Unpublished
Content(c) ==
    /\ ~tx[c].vacuum => \A p \in Pages : LET pg == cache[c][p] IN
        /\ pc[c] \in InTransaction =>
            /\ p \in tx[c].dirty /\ c \in Caching => pg.used
            /\ pg.used => pg.ver = IF p \in tx[c].dirty THEN tx[c].id ELSE history[view[c]][p]
        /\ pc[c] \notin InTransaction /\ snap[c].tx = shared.tx /\ pg.used =>
              pg.ver = Last(history)[p]
    /\ tx[c].vacuum /\ pc[c] \in CheckpointSteps => \A p \in Pages : ~cache[c][p].used
CacheInv(c) == Tags(c) /\ Content(c)

(* The log with everything that is looked up through it.                    *)
ConnInv(base, c) ==
    WriteInv(c) /\ ReadInv(base, c) /\ PickInv(c) /\ CkptInv(base, c) /\ CacheInv(c)
WalInvOver(base) == LogInv(base) /\ SpillInv /\ \A c \in Conns : ConnInv(base, c)
WalInv == LogTypes /\ ConnTypes /\ \E base \in Images : WalInvOver(base)

(* One connection checkpoints, and no other writes when it restarts the log: *)
(* without it a checkpoint may publish what it copied of an older log.      *)
OneCheckpointer ==
    /\ AtMostOne(Checkpointers \union Vacuumers)
    /\ \A c \in Checkpointers : Writers \subseteq {c} \/ \A m \in Modes : ~RestartsLog(m)

-----------------------------------------------------------------------------
(* Lookups.                                                                 *)

LEMMA LogParts ==
    ASSUME LogTypes
    PROVE  /\ shared.max \in Nat /\ shared.nb \in Nat /\ shared.seq \in Nat /\ shared.tx \in Nat
           /\ shared.epoch \in Nat /\ shared.init \in BOOLEAN /\ shared.hdr \in BOOLEAN
           /\ \A p \in Pages : frame_cache[p] \in Seq(FrameNumber)
           /\ Len(wal.frames) \in Nat /\ DOMAIN wal.frames = 1..Len(wal.frames)
           /\ \A f \in 1..Len(wal.frames) : wal.frames[f] \in Frames
           /\ Len(history) \in Nat \ {0} /\ history[Len(history)] = Last(history)
           /\ Last(history) \in Images
           /\ \A i \in 1..Len(history) : history[i] \in Images
  <1>1. wal.frames \in Seq(Frames) /\ history \in Seq(Images) /\ history # <<>>
    BY DEF LogTypes
  <1>2. Len(history) \in Nat \ {0} /\ \A i \in 1..Len(history) : history[i] \in Images
    BY <1>1
  <1>3. Len(wal.frames) \in Nat /\ DOMAIN wal.frames = 1..Len(wal.frames)
        /\ \A f \in 1..Len(wal.frames) : wal.frames[f] \in Frames
    BY <1>1
  <1>4. history[Len(history)] = Last(history) /\ Len(history) \in 1..Len(history)
    BY <1>2 DEF Last
  <1>5. Last(history) \in Images
    BY <1>2, <1>4
  <1>6. /\ shared.max \in Nat /\ shared.nb \in Nat /\ shared.seq \in Nat /\ shared.tx \in Nat
        /\ shared.epoch \in Nat /\ shared.init \in BOOLEAN /\ shared.hdr \in BOOLEAN
        /\ \A p \in Pages : frame_cache[p] \in Seq(FrameNumber)
    BY DEF LogTypes
  <1> QED  BY <1>2, <1>3, <1>4, <1>5, <1>6

LEMMA LogPartsNext ==
    ASSUME LogTypes'
    PROVE  /\ shared'.max \in Nat /\ shared'.nb \in Nat /\ shared'.seq \in Nat /\ shared'.tx \in Nat
           /\ shared'.epoch \in Nat /\ shared'.init \in BOOLEAN /\ shared'.hdr \in BOOLEAN
           /\ \A p \in Pages : frame_cache'[p] \in Seq(FrameNumber)
           /\ Len(wal'.frames) \in Nat /\ DOMAIN wal'.frames = 1..Len(wal'.frames)
           /\ \A f \in 1..Len(wal'.frames) : wal'.frames[f] \in Frames
           /\ Len(history') \in Nat \ {0} /\ history'[Len(history')] = Last(history')
           /\ Last(history') \in Images
           /\ \A i \in 1..Len(history') : history'[i] \in Images
  <1>2. /\ shared'.max \in Nat /\ shared'.nb \in Nat /\ shared'.seq \in Nat /\ shared'.tx \in Nat
        /\ shared'.epoch \in Nat /\ shared'.init \in BOOLEAN /\ shared'.hdr \in BOOLEAN
        /\ \A p \in Pages : frame_cache'[p] \in Seq(FrameNumber)
    BY DEF LogTypes
  <1>3. wal'.frames \in Seq(Frames) /\ history' \in Seq(Images) /\ history' # <<>>
    BY DEF LogTypes
  <1>4. Len(history') \in Nat \ {0} /\ \A i \in 1..Len(history') : history'[i] \in Images
    BY <1>3
  <1>5. Len(wal'.frames) \in Nat /\ DOMAIN wal'.frames = 1..Len(wal'.frames)
        /\ \A f \in 1..Len(wal'.frames) : wal'.frames[f] \in Frames
    BY <1>3
  <1>6. history'[Len(history')] = Last(history') /\ Len(history') \in 1..Len(history')
    BY <1>4 DEF Last
  <1>7. Last(history') \in Images
    BY <1>4, <1>6
  <1> QED  BY <1>2, <1>4, <1>5, <1>6, <1>7

(* What a lookup between two boundaries gives is the image at the upper one. *)
LEMMA LookupIsImage ==
    ASSUME LogTypes, NEW base, NEW nb, NEW m, Boundary(nb), Boundary(m), nb <= m,
           FileServes(base, nb, m), shared.max <= Len(wal.frames), NEW p \in Pages
    PROVE  LET f == LatestFrame(frame_cache, p, nb + 1, m)
           IN  /\ ImageAt(base, m)[p] = IF f = 0 THEN db[p] ELSE FrameContent(wal, f, p)
               /\ f # 0 => f \in 1..m /\ wal.frames[f].page = p
  <1> DEFINE s == frame_cache[p]
             g == LatestOf(s, m)
  <1>1. s \in Seq(FrameNumber) /\ nb \in Nat /\ m \in Nat /\ InOrderAt(s, nb) /\ m <= Len(wal.frames)
        /\ (g # 0 => wal.frames[g].page = p) /\ DOMAIN wal.frames = 1..Len(wal.frames)
        /\ Len(wal.frames) \in Nat
    BY LogParts DEF Boundary
  <1>2. g \in 0..m
    BY <1>1, LatestRange
  <1>3. LatestFrame(frame_cache, p, nb + 1, m) = IF g > nb THEN g ELSE 0
    <2>1. LatestFrame(frame_cache, p, nb + 1, m) = LatestBetween(s, nb, m)
      BY LatestFrameBetween
    <2>2. LatestBetween(s, nb, m) = IF LatestOf(s, m) > nb THEN LatestOf(s, m) ELSE 0
      <3> HIDE DEF s
      <3> QED  BY <1>1, LatestSplit
    <2> QED  BY <2>1, <2>2
  <1>4. ImageAt(base, m)[p] = IF g = 0 THEN base[p] ELSE wal.frames[g].ver
    BY DEF ImageAt
  <1>5. g <= nb => db[p] = ImageAt(base, m)[p]
    BY DEF FileServes
  <1> HIDE DEF g, s
  <1>6. CASE g > nb
    <2>1. g \in DOMAIN wal.frames /\ g # 0 /\ g \in 1..m
      BY <1>1, <1>2, <1>6
    <2>2. FrameContent(wal, g, p) = wal.frames[g].ver
      BY <1>1, <2>1 DEF FrameContent
    <2> QED  BY <1>1, <1>3, <1>4, <1>6, <2>1, <2>2
  <1>7. CASE ~(g > nb)
    <2>1. g <= nb
      BY <1>1, <1>2, <1>7
    <2> QED  BY <1>3, <1>5, <1>7, <2>1
  <1> QED  BY <1>6, <1>7

(* With guard 0 and nothing behind the backfilled frames the lookup is empty. *)
LEMMA FindFrameIs ==
    ASSUME LogTypes, NEW c \in Conns, snap[c] \in Snapshots, NEW p \in Pages
    PROVE  FindFrame(c, p) = LatestFrame(frame_cache, p, snap[c].nb + 1, snap[c].max)
  <1>1. snap[c].nb \in Nat /\ snap[c].max \in Nat
    BY DEF Snapshots
  <1>2. CASE guard[c] = 0 /\ snap[c].max < snap[c].nb + 1
    <2>1. snap[c].nb + 1..snap[c].max = {}
      BY <1>1, <1>2
    <2>2. LatestFrame(frame_cache, p, snap[c].nb + 1, snap[c].max) = 0
      BY <2>1 DEF LatestFrame
    <2> QED  BY <1>2, <2>2 DEF FindFrame
  <1>3. CASE ~(guard[c] = 0 /\ snap[c].max < snap[c].nb + 1)
    BY <1>3 DEF FindFrame
  <1> QED  BY <1>2, <1>3

-----------------------------------------------------------------------------
(* Steps that keep the published part of the log.                           *)

Grows ==
    /\ shared.max <= shared'.max
    /\ \A p \in Pages : \A b \in 0..shared.max :
        /\ LatestOf(frame_cache'[p], b) = LatestOf(frame_cache[p], b)
        /\ InOrderAt(frame_cache[p], b) => InOrderAt(frame_cache'[p], b)
    /\ \A f \in 1..shared.max : wal'.frames[f] = wal.frames[f]

LEMMA GrowsKeeps ==
    ASSUME LogTypes, LogTypes', Grows, NEW b, Boundary(b), NEW base
    PROVE  /\ Boundary(b)' /\ ImageAt(base, b)' = ImageAt(base, b)
           /\ \A p \in Pages : LatestOf(frame_cache'[p], b) = LatestOf(frame_cache[p], b)
  <1>1. shared.max \in Nat /\ shared'.max \in Nat /\ b \in 0..shared.max
    BY LogParts, LogPartsNext DEF Boundary
  <1>2. b \in 0..shared'.max
    BY <1>1 DEF Grows
  <1>3. \A p \in Pages : LatestOf(frame_cache'[p], b) = LatestOf(frame_cache[p], b)
    BY <1>1 DEF Grows
  <1>4. \A p \in Pages : LatestOf(frame_cache[p], b) \in 0..b
    BY <1>1, LogParts, LatestRange
  <1>5. ASSUME NEW p \in Pages, LatestOf(frame_cache[p], b) # 0
        PROVE  wal'.frames[LatestOf(frame_cache[p], b)] = wal.frames[LatestOf(frame_cache[p], b)]
    <2>1. PICK f : f = LatestOf(frame_cache[p], b)
      OBVIOUS
    <2>2. f \in 1..shared.max
      BY <1>1, <1>4, <1>5, <2>1
    <2> QED  BY <2>1, <2>2 DEF Grows
  <1>6. ASSUME NEW p \in Pages
        PROVE  /\ InOrderAt(frame_cache'[p], b)
               /\ LatestOf(frame_cache'[p], b) # 0 => wal'.frames[LatestOf(frame_cache'[p], b)].page = p
    <2>1. InOrderAt(frame_cache[p], b)
          /\ (LatestOf(frame_cache[p], b) # 0 => wal.frames[LatestOf(frame_cache[p], b)].page = p)
      BY DEF Boundary
    <2>2. InOrderAt(frame_cache'[p], b)
      BY <1>1, <2>1 DEF Grows
    <2> QED  BY <1>3, <1>5, <2>1, <2>2
  <1>7. Boundary(b)'
    BY <1>2, <1>6 DEF Boundary
  <1>8. ImageAt(base, b)' = ImageAt(base, b)
    BY <1>3, <1>5 DEF ImageAt
  <1> QED  BY <1>3, <1>7, <1>8

-----------------------------------------------------------------------------
(* What a step means for a connection it does not move.                     *)

Kept(d) ==
    /\ pc'[d] = pc[d] /\ guard'[d] = guard[d] /\ pick'[d] = pick[d]
    /\ tx'[d] = tx[d] /\ ckpt'[d] = ckpt[d]
    /\ snap'[d] = snap[d] /\ cache'[d] = cache[d] /\ view'[d] = view[d]

(* The metadata and the log of the writer stay as they are.                 *)
LogStill ==
    /\ frame_cache' = frame_cache /\ wal' = wal /\ history' = history
    /\ shared'.max = shared.max /\ shared'.tx = shared.tx /\ shared'.init = shared.init

(* Either nothing is committed or one image is.                             *)
HistoryStep ==
    \/ shared'.tx = shared.tx /\ history' = history
    \/ shared'.tx = shared.tx + 1 /\ \E x \in Images : history' = Append(history, x)

LEMMA WriteKept ==
    ASSUME NEW d \in Conns, Kept(d), WriteInv(d), pc[d] \in Unpublished => LogStill
    PROVE  WriteInv(d)'
  <1>1. /\ pc'[d] = pc[d] /\ tx'[d] = tx[d] /\ snap'[d] = snap[d] /\ view'[d] = view[d]
    BY DEF Kept
  <1>2. CASE pc[d] \in Unpublished
    <2>1. /\ frame_cache' = frame_cache /\ wal' = wal /\ history' = history
          /\ shared'.max = shared.max /\ shared'.tx = shared.tx /\ shared'.init = shared.init
      BY <1>2 DEF LogStill
    <2>2. CommitFrames(d)' = CommitFrames(d)
      BY <1>1 DEF CommitFrames, DirtySeq
    <2>3. \A p : OwnFrame(d, p)' <=> OwnFrame(d, p)
      BY <1>1, <2>1 DEF OwnFrame
    <2> QED  BY <1>1, <2>1, <2>2, <2>3 DEF WriteInv
  <1>3. CASE pc[d] \notin Unpublished
    BY <1>1, <1>3 DEF WriteInv, Unpublished
  <1> QED  BY <1>2, <1>3

LEMMA HistoryKept ==
    ASSUME LogTypes, HistoryStep
    PROVE  /\ \A i \in 1..Len(history) : history'[i] = history[i]
           /\ Len(history) <= Len(history')
           /\ shared.tx <= shared'.tx
           /\ shared'.tx = shared.tx => history' = history
  <1>1. shared.tx \in Nat /\ history \in Seq(Images)
    BY LogParts DEF LogTypes
  <1>2. CASE shared'.tx = shared.tx /\ history' = history
    BY <1>1, <1>2
  <1>3. ASSUME NEW x \in Images, shared'.tx = shared.tx + 1, history' = Append(history, x)
        PROVE  /\ \A i \in 1..Len(history) : history'[i] = history[i]
               /\ Len(history) <= Len(history')
               /\ shared.tx <= shared'.tx
               /\ shared'.tx # shared.tx
    BY <1>1, <1>3
  <1> QED  BY <1>2, <1>3 DEF HistoryStep

LEMMA ServesKept ==
    ASSUME LogTypes, LogTypes', Grows, db' = db, NEW base, NEW nb, NEW m, Boundary(m),
           FileServes(base, nb, m)
    PROVE  FileServes(base, nb, m)'
  <1>1. ImageAt(base, m)' = ImageAt(base, m)
        /\ \A p \in Pages : LatestOf(frame_cache'[p], m) = LatestOf(frame_cache[p], m)
    BY GrowsKeeps
  <1> QED  BY <1>1 DEF FileServes

LEMMA SeesKept ==
    ASSUME LogTypes, LogTypes', Grows, HistoryStep, NEW base, NEW nb, NEW m, NEW v,
           Sees(base, nb, m, v), v \in 1..Len(history),
           db' = db \/ FileServes(base, nb, m)'
    PROVE  Sees(base, nb, m, v)'
  <1>1. Boundary(nb) /\ Boundary(m) /\ nb <= m /\ ImageAt(base, m) = history[v]
        /\ FileServes(base, nb, m)
    BY DEF Sees
  <1>2. Boundary(nb)' /\ Boundary(m)' /\ ImageAt(base, m)' = ImageAt(base, m)
    BY <1>1, GrowsKeeps
  <1>3. FileServes(base, nb, m)'
    BY <1>1, ServesKept
  <1>4. history'[v] = history[v]
    BY HistoryKept
  <1> QED  BY <1>1, <1>2, <1>3, <1>4 DEF Sees

(* From facts about the values a connection has after a step.               *)
LEMMA ReadInvFrom ==
    ASSUME NEW base, NEW d \in Conns, NEW q, NEW g, NEW nb, NEW m, NEW v, NEW k,
           pc'[d] = q, guard'[d] = g, snap'[d].nb = nb, view'[d] = v,
           q \in Looking => m = IF q = "read" THEN snap'[d].max ELSE shared'.max,
           g \in Marks => slot'[g].mark = k /\ Boundary(k)',
           snap'[d].tx <= shared'.tx,
           q = "read" /\ snap'[d].tx = shared'.tx => history'[v] = Last(history'),
           q \in Looking => /\ Sees(base, nb, m, v)' /\ nb <= shared'.nb
                            /\ g \in Marks => k <= m
    PROVE  ReadInv(base, d)'
  <1>1. g \in Marks => Boundary(slot[guard[d]].mark)'
    <2>1. ASSUME g \in Marks  PROVE slot'[guard'[d]].mark = k /\ Boundary(k)'
      BY <2>1
    <2> QED  BY <2>1 DEF Boundary
  <1>2. q \in Looking => ViewMax(d)' = m
    BY DEF ViewMax
  <1>3. q \in Looking => Sees(base, snap[d].nb, ViewMax(d), view[d])'
    BY <1>2 DEF Sees, Boundary, ImageAt, FileServes
  <1> QED  BY <1>1, <1>2, <1>3 DEF ReadInv

LEMMA ReadKept ==
    ASSUME LogTypes, LogTypes', Grows, HistoryStep, shared.nb <= shared'.nb,
           NEW base, NEW d \in Conns, Kept(d), ReadInv(base, d), view[d] \in 1..Len(history),
           snap[d] \in Snapshots,
           guard[d] \in Marks => slot'[guard[d]].mark = slot[guard[d]].mark,
           pc[d] \in Unpublished => shared'.max = shared.max,
           pc[d] \in Looking => \A nb, m : nb = snap[d].nb /\ m = ViewMax(d) =>
                                    db' = db \/ FileServes(base, nb, m)'
    PROVE  ReadInv(base, d)'
  <1>1. /\ pc'[d] = pc[d] /\ guard'[d] = guard[d] /\ snap'[d] = snap[d] /\ view'[d] = view[d]
    BY DEF Kept
  <1>2. /\ history'[view[d]] = history[view[d]] /\ shared.tx <= shared'.tx
        /\ shared'.tx = shared.tx => history' = history
    BY HistoryKept
  <1>3. snap[d].tx \in Nat /\ shared.tx \in Nat /\ shared'.tx \in Nat /\ snap[d].nb \in Nat
        /\ shared.nb \in Nat /\ shared'.nb \in Nat
    BY LogParts, LogPartsNext DEF Snapshots
  <1>4. snap'[d].tx <= shared'.tx
    BY <1>1, <1>2, <1>3 DEF ReadInv
  <1>5. PICK k : k = slot[guard[d]].mark
    OBVIOUS
  <1>6. PICK nb, m, v : nb = snap[d].nb /\ m = ViewMax(d) /\ v = view[d]
    OBVIOUS
  <1>7. guard[d] \in Marks => slot'[guard[d]].mark = k /\ Boundary(k)'
    <2>1. SUFFICES ASSUME guard[d] \in Marks  PROVE slot'[guard[d]].mark = k /\ Boundary(k)'
      OBVIOUS
    <2>2. Boundary(k)
      BY <1>5, <2>1 DEF ReadInv
    <2> QED  BY <1>5, <2>1, <2>2, GrowsKeeps
  <1>8. pc[d] \in Looking => /\ Sees(base, nb, m, v)' /\ nb <= shared'.nb
                             /\ guard[d] \in Marks => k <= m
                             /\ m = IF pc[d] = "read" THEN snap'[d].max ELSE shared'.max
    <2>1. SUFFICES ASSUME pc[d] \in Looking
                   PROVE  /\ Sees(base, nb, m, v)' /\ nb <= shared'.nb
                          /\ guard[d] \in Marks => k <= m
                          /\ m = IF pc[d] = "read" THEN snap'[d].max ELSE shared'.max
      OBVIOUS
    <2>2. /\ Sees(base, nb, m, v) /\ nb <= shared.nb
          /\ guard[d] \in Marks => k <= m
      BY <1>5, <1>6, <2>1 DEF ReadInv
    <2>3. db' = db \/ FileServes(base, nb, m)'
      BY <1>6, <2>1
    <2>4. Sees(base, nb, m, v)'
      BY <1>6, <2>2, <2>3, SeesKept
    <2>5. nb <= shared'.nb
      BY <1>3, <1>6, <2>2
    <2>6. m = IF pc[d] = "read" THEN snap'[d].max ELSE shared'.max
      BY <1>1, <1>6, <2>1 DEF ViewMax, Looking, Unpublished
    <2> QED  BY <2>2, <2>4, <2>5, <2>6
  <1>9. pc[d] = "read" /\ snap[d].tx = shared'.tx => history'[v] = Last(history')
    <2>1. SUFFICES ASSUME pc[d] = "read", snap[d].tx = shared'.tx  PROVE history'[v] = Last(history')
      OBVIOUS
    <2>2. snap[d].tx <= shared.tx
      BY DEF ReadInv
    <2>3. shared'.tx = shared.tx
      BY <1>2, <1>3, <2>1, <2>2
    <2>4. history' = history /\ history[view[d]] = Last(history)
      BY <1>2, <2>1, <2>3 DEF ReadInv
    <2> QED  BY <1>6, <2>4
  <1> QED  BY <1>1, <1>4, <1>6, <1>7, <1>8, <1>9, ReadInvFrom

LEMMA PickKept ==
    ASSUME LogTypes, LogTypes', Grows, shared'.seq = shared.seq,
           NEW d \in Conns, pc'[d] = pc[d], pick'[d] = pick[d], PickInv(d)
    PROVE  PickInv(d)'
  <1>1. PICK m, k : m = pick[d].snap.max /\ k = pick[d].mark
    OBVIOUS
  <1>2. (Boundary(m) => Boundary(m)') /\ (Boundary(k) => Boundary(k)')
    BY GrowsKeeps
  <1>3. CASE pc[d] \in {"choose", "lock"} /\ pick[d].snap.seq = shared.seq
    <2>1. Boundary(m)' /\ (pc[d] = "lock" /\ pick[d].slot \in Marks => Boundary(k)' /\ k <= m)
      BY <1>1, <1>2, <1>3 DEF PickInv
    <2>2. pick'[d].snap.max = m /\ pick'[d].mark = k
      BY <1>1
    <2>3. Boundary(pick[d].snap.max)'
      BY <2>1, <2>2 DEF Boundary
    <2>4. pc[d] = "lock" /\ pick[d].slot \in Marks => Boundary(pick[d].mark)' /\ k <= m
      BY <2>1, <2>2 DEF Boundary
    <2> QED  BY <1>3, <2>2, <2>3, <2>4 DEF PickInv
  <1>4. CASE ~(pc[d] \in {"choose", "lock"} /\ pick[d].snap.seq = shared.seq)
    BY <1>4 DEF PickInv
  <1> QED  BY <1>3, <1>4

LEMMA CopiedKept ==
    ASSUME LogTypes, LogTypes', Grows, db' = db, NEW base, NEW d \in Conns,
           ckpt'[d].max = ckpt[d].max, ckpt'[d].old = ckpt[d].old, ckpt'[d].todo = ckpt[d].todo,
           Boundary(ckpt[d].max), Copied(base, d)
    PROVE  Copied(base, d)' /\ Boundary(ckpt[d].max)'
  <1>1. PICK m : m = ckpt[d].max
    OBVIOUS
  <1>2. Boundary(m)' /\ ImageAt(base, m)' = ImageAt(base, m)
        /\ \A p \in Pages : LatestOf(frame_cache'[p], m) = LatestOf(frame_cache[p], m)
    BY <1>1, GrowsKeeps
  <1>3. ckpt'[d].max = m
    BY <1>1
  <1>4. Boundary(ckpt[d].max)'
    BY <1>2, <1>3 DEF Boundary
  <1>5. ImageAt(base, ckpt[d].max)' = ImageAt(base, m)
    BY <1>2, <1>3 DEF ImageAt
  <1>6. ASSUME NEW p \in Pages
        PROVE  /\ LatestOf(frame_cache'[p], ckpt'[d].max) = LatestOf(frame_cache[p], m)
               /\ ImageAt(base, ckpt[d].max)'[p] = ImageAt(base, m)[p]
    BY <1>2, <1>3, <1>5
  <1>7. ASSUME NEW p \in Pages, LatestOf(frame_cache'[p], ckpt'[d].max) > ckpt'[d].old
        PROVE  \/ <<p, LatestOf(frame_cache'[p], ckpt'[d].max)>> \in ckpt'[d].todo
               \/ db'[p] = ImageAt(base, ckpt[d].max)'[p]
    BY <1>1, <1>6, <1>7 DEF Copied
  <1>8. ASSUME NEW t \in ckpt'[d].todo
        PROVE  \E p \in Pages : /\ t = <<p, LatestOf(frame_cache'[p], ckpt'[d].max)>>
                                /\ LatestOf(frame_cache'[p], ckpt'[d].max) > ckpt'[d].old
    BY <1>1, <1>6, <1>8 DEF Copied
  <1>9. Copied(base, d)'
    BY <1>7, <1>8 DEF Copied
  <1> QED  BY <1>4, <1>9

(* Whoever reads after the step read before it, or has the published frames. *)
ReadersJoin ==
    \A e \in Conns : pc'[e] = "read" =>
        \/ pc[e] = "read" /\ snap'[e].max = snap[e].max /\ guard'[e] = guard[e]
        \/ shared.max <= snap'[e].max
ReadersAhead(c) ==
    \A e \in Conns : pc[e] = "read" /\ (pc[c] = "backfill" \/ (pc[c] = "scan" /\ guard[e] < ckpt[c].scan))
        => ckpt[c].max <= snap[e].max

LEMMA AheadKept ==
    ASSUME LogTypes, ConnTypes, ConnTypes', ReadersJoin, NEW d \in Conns,
           pc'[d] = pc[d], ckpt'[d] = ckpt[d],
           pc[d] \in {"scan", "backfill"} => Boundary(ckpt[d].max), ReadersAhead(d)
    PROVE  ReadersAhead(d)'
  <1>1. SUFFICES ASSUME NEW e \in Conns, pc'[e] = "read",
                        pc[d] = "backfill" \/ (pc[d] = "scan" /\ guard'[e] < ckpt[d].scan)
                 PROVE  ckpt[d].max <= snap'[e].max
    BY DEF ReadersAhead
  <1>2. CASE pc[e] = "read" /\ snap'[e].max = snap[e].max /\ guard'[e] = guard[e]
    BY <1>1, <1>2 DEF ReadersAhead
  <1>3. CASE shared.max <= snap'[e].max
    <2>1. ckpt[d].max \in 0..shared.max
      BY <1>1 DEF Boundary
    <2>2. shared.max \in Nat /\ snap'[e].max \in Nat
      BY LogParts DEF ConnTypes, Snapshots
    <2> QED  BY <1>3, <2>1, <2>2
  <1> QED  BY <1>1, <1>2, <1>3 DEF ReadersJoin

LEMMA CkptOther ==
    ASSUME LogTypes, LogTypes', ConnTypes, ConnTypes', Grows, ReadersJoin,
           NEW base, NEW d \in Conns, Kept(d), CkptInv(base, d), HeldAt(d),
           Copying(d) => shared'.nb = shared.nb /\ db' = db,
           shared'.max = shared.max \/ ckpt[d].held # "writer"
    PROVE  CkptInv(base, d)'
  <1>1. pc'[d] = pc[d] /\ tx'[d] = tx[d] /\ ckpt'[d] = ckpt[d]
    BY DEF Kept
  <1>2. (Copying(d)' <=> Copying(d))
    BY <1>1 DEF Copying
  <1>3. shared.max \in Nat /\ shared'.max \in Nat /\ shared.nb \in Nat /\ shared.max <= shared'.max
    BY LogParts, LogPartsNext DEF Grows
  <1>4. ASSUME Copying(d)
        PROVE  /\ ckpt[d].old = shared'.nb
               /\ shared'.nb < shared'.max \/ RestartsLog(ckpt[d].mode)
               /\ pc[d] # "guard" => Boundary(ckpt[d].max)'
               /\ pc[d] \notin {"guard", "scan"} => Copied(base, d)'
    <2>1. /\ ckpt[d].old = shared.nb
          /\ shared.nb < shared.max \/ RestartsLog(ckpt[d].mode)
          /\ pc[d] # "guard" => Boundary(ckpt[d].max)
          /\ pc[d] \notin {"guard", "scan"} => Copied(base, d)
      BY <1>4 DEF CkptInv
    <2>2. shared'.nb = shared.nb /\ db' = db
      BY <1>4
    <2>3. shared'.nb < shared'.max \/ RestartsLog(ckpt[d].mode)
      BY <1>3, <2>1, <2>2
    <2>4. pc[d] # "guard" => Boundary(ckpt[d].max)'
      <3>1. PICK m : m = ckpt[d].max
        OBVIOUS
      <3>2. Boundary(m) => Boundary(m)'
        BY GrowsKeeps
      <3>3. ckpt'[d].max = m
        BY <1>1, <3>1
      <3>4. Boundary(m)' => Boundary(ckpt[d].max)'
        BY <3>3 DEF Boundary
      <3> QED  BY <2>1, <3>1, <3>2, <3>4
    <2>5. pc[d] \notin {"guard", "scan"} => Copied(base, d)'
      BY <1>1, <2>1, <2>2, CopiedKept
    <2> QED  BY <2>1, <2>2, <2>3, <2>4, <2>5
  <1>5. ReadersAhead(d)'
    <2>1. ReadersAhead(d)
      BY DEF CkptInv, ReadersAhead
    <2>2. pc[d] \in {"scan", "backfill"} => Boundary(ckpt[d].max)
      BY DEF CkptInv, Copying
    <2> QED  BY <1>1, <2>1, <2>2, AheadKept
  <1>6. ASSUME RestartsLog(ckpt[d].mode), pc[d] \in {"finalize", "dbsync", "truncate", "truncated", "finish"}
        PROVE  shared'.max = 0
    <2>1. shared.max = 0
      BY <1>6 DEF CkptInv
    <2>2. ckpt[d].held = "writer"
      BY <1>6 DEF HeldAt, GuardKind, RestartsLog
    <2> QED  BY <2>1, <2>2
  <1>7. \A e \in Conns : pc'[e] = "read" /\ (pc'[d] = "backfill" \/ (pc'[d] = "scan" /\ guard'[e] < ckpt'[d].scan))
            => ckpt'[d].max <= snap'[e].max
    BY <1>5 DEF ReadersAhead
  <1>8. /\ pc'[d] \in CheckpointSteps \/ pc'[d] = "vacuum" \/ tx'[d].vacuum => d \in Checkpointers \union Vacuumers
        /\ pc'[d] \in WriteSteps => d \in Writers \/ tx'[d].vacuum
        /\ pc'[d] \in {"truncate", "truncated"} => ckpt'[d].mode = "Truncate"
        /\ pc'[d] = "backfilled" => ~RestartsLog(ckpt'[d].mode)
    BY <1>1 DEF CkptInv
  <1>9. RestartsLog(ckpt'[d].mode) =>
        /\ pc'[d] \in CheckpointSteps => tx'[d].vacuum \/ Writers \subseteq {d}
        /\ pc'[d] \in {"finalize", "dbsync", "truncate", "truncated", "finish"} => shared'.max = 0
    BY <1>1, <1>6 DEF CkptInv
  <1>10. Copying(d)' =>
        /\ ckpt'[d].old = shared'.nb
        /\ shared'.nb < shared'.max \/ RestartsLog(ckpt'[d].mode)
        /\ pc'[d] # "guard" => Boundary(ckpt[d].max)'
        /\ pc'[d] \notin {"guard", "scan"} => Copied(base, d)'
        /\ pc'[d] \in {"finalize", "dbsync", "backfilled"} => ckpt'[d].todo = {}
        /\ pc'[d] \in {"dbsync", "backfilled"} => ckpt'[d].max > ckpt'[d].old
    <2>1. SUFFICES ASSUME Copying(d)
                   PROVE  /\ ckpt'[d].old = shared'.nb
                          /\ shared'.nb < shared'.max \/ RestartsLog(ckpt'[d].mode)
                          /\ pc'[d] # "guard" => Boundary(ckpt[d].max)'
                          /\ pc'[d] \notin {"guard", "scan"} => Copied(base, d)'
                          /\ pc'[d] \in {"finalize", "dbsync", "backfilled"} => ckpt'[d].todo = {}
                          /\ pc'[d] \in {"dbsync", "backfilled"} => ckpt'[d].max > ckpt'[d].old
      BY <1>2
    <2>2. /\ pc[d] \in {"finalize", "dbsync", "backfilled"} => ckpt[d].todo = {}
          /\ pc[d] \in {"dbsync", "backfilled"} => ckpt[d].max > ckpt[d].old
      BY <2>1 DEF CkptInv
    <2> QED  BY <1>1, <1>4, <2>1, <2>2
  <1> QED  BY <1>7, <1>8, <1>9, <1>10 DEF CkptInv

LEMMA FrameKept ==
    ASSUME LogTypes, LogTypes', Grows, shared.max <= Len(wal.frames), shared'.max <= Len(wal'.frames),
           NEW f \in 1..shared.max, NEW p
    PROVE  FrameContent(wal', f, p) = FrameContent(wal, f, p)
  <1>1. /\ shared.max \in Nat /\ shared'.max \in Nat /\ shared.max <= shared'.max
        /\ DOMAIN wal.frames = 1..Len(wal.frames) /\ DOMAIN wal'.frames = 1..Len(wal'.frames)
        /\ Len(wal.frames) \in Nat /\ Len(wal'.frames) \in Nat
    BY LogParts, LogPartsNext DEF Grows
  <1>2. f \in DOMAIN wal.frames /\ f \in DOMAIN wal'.frames
    BY <1>1
  <1>3. wal'.frames[f] = wal.frames[f]
    BY DEF Grows
  <1> QED  BY <1>2, <1>3 DEF FrameContent

LEMMA CacheOther ==
    ASSUME LogTypes, LogTypes', ConnTypes, Grows, HistoryStep, shared.epoch <= shared'.epoch,
           shared.max <= Len(wal.frames), shared'.max <= Len(wal'.frames),
           NEW d \in Conns, Kept(d), CacheInv(d), snap[d].tx <= shared.tx,
           pc[d] \in Unpublished => LogStill,
           Restarting # {} => Restarting' # {} \/ shared.epoch < shared'.epoch
    PROVE  CacheInv(d)'
  <1>1. pc'[d] = pc[d] /\ tx'[d] = tx[d] /\ cache'[d] = cache[d] /\ snap'[d] = snap[d]
        /\ view'[d] = view[d]
    BY DEF Kept
  <1>2. /\ shared.max \in Nat /\ shared'.max \in Nat /\ shared.epoch \in Nat /\ shared'.epoch \in Nat
        /\ shared.max <= shared'.max /\ shared.tx \in Nat /\ shared'.tx \in Nat
        /\ view[d] \in 1..Len(history) /\ snap[d].tx \in Nat
    BY LogParts, LogPartsNext DEF Grows, ConnTypes, ConnType, Snapshots
  <1>3. /\ history'[view[d]] = history[view[d]] /\ shared.tx <= shared'.tx
        /\ shared'.tx = shared.tx => history' = history
    BY <1>2, HistoryKept
  <1>4. ASSUME NEW p \in Pages, cache[d][p].used
        PROVE  LET pg == cache[d][p] IN
               /\ d \in Caching /\ pg.epoch <= shared'.epoch
               /\ ~pg.dirty /\ pg.epoch = shared'.epoch /\ pg.frame # 0 =>
                   \/ pg.frame <= shared'.max /\ pg.ver = FrameContent(wal', pg.frame, p)
                   \/ pc[d] \in Unpublished /\ p \in tx[d].spilled
                   \/ Restarting' # {}
               /\ pc[d] \in Unpublished /\ p \in tx[d].spilled => pg.frame > shared'.max
    <2>1. PICK pg : pg = cache[d][p]
      OBVIOUS
    <2>2. pg \in CachedPages
      BY <2>1 DEF ConnTypes
    <2>3. pg.epoch \in Nat /\ pg.frame \in Nat
      BY <2>2 DEF CachedPages
    <2>4. /\ d \in Caching /\ pg.epoch <= shared.epoch
          /\ ~pg.dirty /\ pg.epoch = shared.epoch /\ pg.frame # 0 =>
              \/ pg.frame <= shared.max /\ pg.ver = FrameContent(wal, pg.frame, p)
              \/ pc[d] \in Unpublished /\ p \in tx[d].spilled
              \/ Restarting # {}
          /\ pc[d] \in Unpublished /\ p \in tx[d].spilled => pg.frame > shared.max
      BY <1>4, <2>1 DEF CacheInv, Tags, Content
    <2>5. pg.epoch <= shared'.epoch
      BY <1>2, <2>3, <2>4
    <2>6. pc[d] \in Unpublished /\ p \in tx[d].spilled => pg.frame > shared'.max
      BY <2>4 DEF LogStill
    <2>7. ASSUME ~pg.dirty, pg.epoch = shared'.epoch, pg.frame # 0
          PROVE  \/ pg.frame <= shared'.max /\ pg.ver = FrameContent(wal', pg.frame, p)
                 \/ pc[d] \in Unpublished /\ p \in tx[d].spilled
                 \/ Restarting' # {}
      <3>1. shared'.epoch = shared.epoch /\ pg.epoch = shared.epoch
        BY <1>2, <2>3, <2>4, <2>7
      <3>2. ASSUME pg.frame <= shared.max, pg.ver = FrameContent(wal, pg.frame, p)
            PROVE  pg.frame <= shared'.max /\ pg.ver = FrameContent(wal', pg.frame, p)
        <4>0. PICK f \in Nat : f = pg.frame /\ f # 0 /\ f <= shared.max
          BY <2>3, <2>7, <3>2
        <4>2. PICK a \in Nat, b \in Nat : a = shared.max /\ b = shared'.max /\ a <= b
          BY <1>2
        <4>3. f \in 1..a /\ f <= b
          BY <4>0, <4>2
        <4>1. pg.frame \in 1..shared.max /\ pg.frame <= shared'.max
          BY Zenon, <4>0, <4>2, <4>3
        <4> QED  BY <3>2, <4>1, FrameKept
      <3>3. ~(shared.epoch < shared'.epoch)
        BY <1>2, <3>1
      <3> QED  BY <2>4, <2>7, <3>1, <3>2, <3>3
    <2> QED  BY <2>1, <2>4, <2>5, <2>6, <2>7
  <1>5. ASSUME ~tx[d].vacuum, NEW p \in Pages
        PROVE  LET pg == cache[d][p] IN
               /\ pc[d] \in InTransaction =>
                   /\ p \in tx[d].dirty /\ d \in Caching => pg.used
                   /\ pg.used => pg.ver = IF p \in tx[d].dirty THEN tx[d].id ELSE history'[view[d]][p]
               /\ pc[d] \notin InTransaction /\ snap[d].tx = shared'.tx /\ pg.used =>
                     pg.ver = Last(history')[p]
    <2>1. snap[d].tx = shared'.tx => shared'.tx = shared.tx
      BY <1>2, <1>3
    <2> QED  BY <1>3, <1>5, <2>1 DEF CacheInv, Tags, Content
  <1> QED  BY <1>1, <1>4, <1>5 DEF CacheInv, Tags, Content

ConnsKept(c) == \A d \in Conns \ {c} : Kept(d)

(* A step that does not restart the log leaves the others' invariants true. *)
LEMMA OthersForward ==
    ASSUME OneCheckpointer, LockInv, LogTypes, LogTypes', ConnTypes, ConnTypes',
           NEW base, NEW c \in Conns, WalInvOver(base), LogInv(base)', ConnsKept(c),
           Grows, HistoryStep, shared.nb <= shared'.nb, shared'.seq = shared.seq,
           shared.epoch <= shared'.epoch, MarksKept, ReadersJoin,
           LogStill \/ c \in Writing,
           (shared'.nb = shared.nb /\ db' = db) \/ c \in Checkpointers \union Vacuumers,
           \A d \in Conns \ {c} : pc[d] \in Looking =>
               \A nb, m : nb = snap[d].nb /\ m = ViewMax(d) => db' = db \/ FileServes(base, nb, m)',
           Restarting # {} => Restarting' # {} \/ shared.epoch < shared'.epoch
    PROVE  \A d \in Conns \ {c} : ConnInv(base, d)'
  <1> SUFFICES ASSUME NEW d \in Conns \ {c}  PROVE ConnInv(base, d)'
    OBVIOUS
  <1>1. WriteInv(d) /\ ReadInv(base, d) /\ PickInv(d) /\ CkptInv(base, d) /\ CacheInv(d)
    BY DEF WalInvOver, ConnInv
  <1>2. Kept(d) /\ HeldAt(d) /\ d \in Conns
    BY StepFacts DEF ConnsKept
  <1>3. LogStill \/ (pc[d] \notin WriteSteps /\ ckpt[d].held # "writer")
    <2>1. CASE c \in Writing
      <3>1. d \notin Writing
        BY <2>1 DEF LockInv, LockWords, AtMostOne
      <3> QED  BY <3>1 DEF Writing
    <2> QED  BY <2>1
  <1>4. pc[d] \in Unpublished => LogStill
    BY <1>3 DEF Unpublished, WriteSteps
  <1>5. WriteInv(d)'
    BY <1>1, <1>2, <1>4, WriteKept
  <1>6. guard[d] \in Marks => slot'[guard[d]].mark = slot[guard[d]].mark
    <2>1. SUFFICES ASSUME guard[d] \in Marks  PROVE slot'[guard[d]].mark = slot[guard[d]].mark
      OBVIOUS
    <2>2. guard[d] # NO_LOCK_HELD
      BY <2>1, BoundsAssumption DEF Marks, NO_LOCK_HELD
    <2>3. slot[guard[d]].readers > 0
      BY <2>2, GuardedSlot
    <2> QED  BY <2>1, <2>3 DEF MarksKept
  <1>7. view[d] \in 1..Len(history) /\ snap[d] \in Snapshots
    BY DEF ConnTypes, ConnType
  <1>8. ReadInv(base, d)'
    <2>1. pc[d] \in Unpublished => shared'.max = shared.max
      BY <1>4 DEF LogStill
    <2>2. pc[d] \in Looking => \A nb, m : nb = snap[d].nb /\ m = ViewMax(d) =>
                                    db' = db \/ FileServes(base, nb, m)'
      OBVIOUS
    <2> QED  BY <1>1, <1>2, <1>6, <1>7, <2>1, <2>2, ReadKept
  <1>9. PickInv(d)'
    BY <1>1, <1>2, PickKept DEF Kept
  <1>10. CkptInv(base, d)'
    <2>1. Copying(d) => shared'.nb = shared.nb /\ db' = db
      <3>1. SUFFICES ASSUME Copying(d), c \in Checkpointers \union Vacuumers  PROVE FALSE
        OBVIOUS
      <3>2. d \in Checkpointers \union Vacuumers
        BY <1>1, <3>1 DEF CkptInv, Copying, CheckpointSteps
      <3> QED  BY <3>1, <3>2 DEF OneCheckpointer, AtMostOne
    <2>2. shared'.max = shared.max \/ ckpt[d].held # "writer"
      BY <1>3 DEF LogStill
    <2> QED  BY <1>1, <1>2, <2>1, <2>2, CkptOther
  <1>11. CacheInv(d)'
    <2>1. shared.max <= Len(wal.frames) /\ shared'.max <= Len(wal'.frames)
      BY DEF WalInvOver, LogInv
    <2>2. snap[d].tx <= shared.tx
      BY <1>1 DEF ReadInv
    <2> QED  BY <1>1, <1>2, <1>4, <2>1, <2>2, CacheOther
  <1> QED  BY <1>5, <1>8, <1>9, <1>10, <1>11 DEF ConnInv

-----------------------------------------------------------------------------
(* Steps that leave the log alone.                                          *)

LogSame ==
    /\ UNCHANGED <<frame_cache, wal, db, history>>
    /\ shared'.max = shared.max /\ shared'.nb = shared.nb /\ shared'.seq = shared.seq
    /\ shared'.tx = shared.tx /\ shared'.init = shared.init /\ shared.epoch <= shared'.epoch

LEMMA SameLog ==
    ASSUME LogTypes, LogSame
    PROVE  /\ Grows /\ HistoryStep /\ LogStill /\ shared.nb <= shared'.nb
           /\ \A b : Boundary(b)' <=> Boundary(b)
           /\ \A base : LogInv(base) => LogInv(base)'
           /\ \A base, nb, m, v : Sees(base, nb, m, v) => Sees(base, nb, m, v)'
           /\ \A base, b : ImageAt(base, b)' = ImageAt(base, b)
  <1>1. /\ frame_cache' = frame_cache /\ wal' = wal /\ db' = db /\ history' = history
        /\ shared'.max = shared.max /\ shared'.nb = shared.nb /\ shared'.tx = shared.tx
        /\ shared'.init = shared.init
    BY DEF LogSame
  <1>2. shared.max \in Nat /\ shared.nb \in Nat
    BY LogParts
  <1>3. Grows
    BY <1>1, <1>2 DEF Grows
  <1>4. HistoryStep /\ LogStill /\ shared.nb <= shared'.nb
    BY <1>1, <1>2 DEF HistoryStep, LogStill
  <1>5. ASSUME NEW b  PROVE Boundary(b)' <=> Boundary(b)
    BY <1>1 DEF Boundary
  <1>6. ASSUME NEW base, NEW b  PROVE ImageAt(base, b)' = ImageAt(base, b)
    BY <1>1 DEF ImageAt
  <1>7. ASSUME NEW base, NEW nb, NEW m  PROVE FileServes(base, nb, m)' <=> FileServes(base, nb, m)
    BY <1>1, <1>6 DEF FileServes
  <1>8. ASSUME NEW base, NEW nb, NEW m, NEW v, Sees(base, nb, m, v)  PROVE Sees(base, nb, m, v)'
    BY <1>1, <1>5, <1>6, <1>7, <1>8 DEF Sees
  <1>9. ASSUME NEW base, LogInv(base)  PROVE LogInv(base)'
    <2>1. PICK n, m : n = shared.nb /\ m = shared.max
      OBVIOUS
    <2>2. /\ Boundary(n)' /\ Boundary(m)' /\ ImageAt(base, m)' = Last(history)
          /\ FileServes(base, n, m)'
      BY <1>5, <1>6, <1>7, <1>9, <2>1 DEF LogInv
    <2>3. shared'.nb = n /\ shared'.max = m
      BY <1>1, <2>1
    <2>4. /\ Boundary(shared.nb)' /\ Boundary(shared.max)'
      BY <2>2, <2>3 DEF Boundary
    <2>5. ImageAt(base, shared.max)' = Last(history')
      BY <1>1, <2>2, <2>3 DEF ImageAt
    <2>6. FileServes(base, shared.nb, shared.max)'
      BY <2>2, <2>3 DEF FileServes, ImageAt
    <2> QED  BY <1>1, <1>9, <2>4, <2>5, <2>6 DEF LogInv
  <1> QED  BY <1>3, <1>4, <1>5, <1>6, <1>8, <1>9

SnapStep(c) == snap' = snap \/ \E x \in Snapshots : snap' = [snap EXCEPT ![c] = x]
CacheStep(c) ==
    cache' = cache \/ \E x \in [Pages -> CachedPages] : cache' = [cache EXCEPT ![c] = x]
ViewStep(c) == view' = view \/ \E v \in 1..Len(history) : view' = [view EXCEPT ![c] = v]
LocalTypes(c) ==
    /\ pick[c].snap \in Snapshots /\ pick[c].mark \in Nat
    /\ tx[c].id \in 0..MaxTxn /\ tx[c].dirty \subseteq Pages /\ tx[c].spilled \subseteq tx[c].dirty
    /\ ckpt[c].old \in Nat /\ ckpt[c].max \in Nat /\ ckpt[c].scan \in Nat

LEMMA ConnsFrom ==
    ASSUME LogTypes, LogTypes', HistoryStep, ConnTypes, NEW c \in Conns, Local(c),
           SnapStep(c), CacheStep(c), ViewStep(c), LocalTypes(c)'
    PROVE  ConnTypes' /\ ConnsKept(c)
  <1>1. /\ snap \in [Conns -> Snapshots] /\ cache \in [Conns -> [Pages -> CachedPages]]
        /\ DOMAIN view = Conns /\ \A d \in Conns : view[d] \in 1..Len(history) /\ LocalTypes(d)
    BY DEF ConnTypes, ConnType, LocalTypes
  <1>2. snap' \in [Conns -> Snapshots] /\ \A d \in Conns \ {c} : snap'[d] = snap[d]
    BY <1>1 DEF SnapStep
  <1>3. cache' \in [Conns -> [Pages -> CachedPages]] /\ \A d \in Conns \ {c} : cache'[d] = cache[d]
    BY <1>1 DEF CacheStep
  <1>4. /\ DOMAIN view' = Conns /\ \A d \in Conns \ {c} : view'[d] = view[d]
        /\ \A d \in Conns : view'[d] \in 1..Len(history)
    BY <1>1 DEF ViewStep
  <1>5. \A d \in Conns : view'[d] \in 1..Len(history')
    <2>1. Len(history) \in Nat /\ Len(history') \in Nat /\ Len(history) <= Len(history')
      BY LogParts, LogPartsNext, HistoryKept
    <2> QED  BY <1>4, <2>1
  <1>6. ConnsKept(c)
    BY <1>2, <1>3, <1>4 DEF ConnsKept, Kept, Local
  <1>7. ASSUME NEW d \in Conns  PROVE ConnType(d)'
    <2>1. LocalTypes(d)'
      <3>1. CASE d = c
        BY <3>1
      <3>2. CASE d # c
        <4>1. pick'[d] = pick[d] /\ tx'[d] = tx[d] /\ ckpt'[d] = ckpt[d] /\ LocalTypes(d)
          BY <1>1, <3>2 DEF Local
        <4> QED  BY <4>1 DEF LocalTypes
      <3> QED  BY <3>1, <3>2
    <2> QED  BY <1>5, <2>1 DEF ConnType, LocalTypes
  <1> QED  BY <1>2, <1>3, <1>4, <1>6, <1>7 DEF ConnTypes

(* What has to be shown of the connection that makes such a step.           *)
Stays(c) ==
    /\ pc'[c] = "read" => \/ pc[c] = "read" /\ snap'[c].max = snap[c].max /\ guard'[c] = guard[c]
                          \/ shared.max <= snap'[c].max
    /\ pc[c] \in Unpublished /\ tx[c].spilled # {} =>
         pc'[c] \in Unpublished /\ tx[c].spilled \subseteq tx'[c].spilled
    /\ InRestarting(c) => InRestarting(c)' \/ shared.epoch < shared'.epoch

LEMMA StaysJoins ==
    ASSUME NEW c \in Conns, ConnsKept(c), Stays(c)
    PROVE  ReadersJoin
  <1>1. ASSUME NEW e \in Conns, pc'[e] = "read"
        PROVE  \/ pc[e] = "read" /\ snap'[e].max = snap[e].max /\ guard'[e] = guard[e]
               \/ shared.max <= snap'[e].max
    <2>1. CASE e = c
      BY <1>1, <2>1 DEF Stays
    <2>2. CASE e # c
      BY <1>1, <2>2 DEF ConnsKept, Kept
    <2> QED  BY <2>1, <2>2
  <1> QED  BY <1>1 DEF ReadersJoin

LEMMA StaysRestarting ==
    ASSUME NEW c \in Conns, ConnsKept(c), Stays(c)
    PROVE  Restarting # {} => Restarting' # {} \/ shared.epoch < shared'.epoch
  <1>1. SUFFICES ASSUME NEW e \in Restarting
                 PROVE  Restarting' # {} \/ shared.epoch < shared'.epoch
    OBVIOUS
  <1>2. e \in Conns /\ InRestarting(e)
    BY DEF Restarting, InRestarting
  <1>3. CASE e = c
    <2>1. InRestarting(c)' => c \in Restarting'
      BY DEF Restarting, InRestarting
    <2> QED  BY <1>2, <1>3, <2>1 DEF Stays
  <1>4. CASE e # c
    <2>1. InRestarting(e)'
      BY <1>2, <1>4 DEF ConnsKept, Kept, InRestarting
    <2> QED  BY <1>2, <2>1 DEF Restarting, InRestarting
  <1> QED  BY <1>3, <1>4

LEMMA StaysSpilled ==
    ASSUME NEW c \in Conns, ConnsKept(c), Stays(c), SpillInv,
           frame_cache' = frame_cache, shared'.max = shared.max
    PROVE  SpillInv'
  <1>1. SUFFICES ASSUME NEW p \in Pages, NEW i \in 1..Len(frame_cache[p]),
                        frame_cache[p][i] > shared.max
                 PROVE  \E e \in Conns : pc'[e] \in Unpublished /\ p \in tx'[e].spilled
    BY DEF SpillInv
  <1>2. PICK e \in Conns : pc[e] \in Unpublished /\ p \in tx[e].spilled
    BY <1>1 DEF SpillInv
  <1>3. pc'[e] \in Unpublished /\ p \in tx'[e].spilled
    BY <1>2 DEF Stays, ConnsKept, Kept
  <1> QED  BY <1>3

LEMMA SameStep ==
    ASSUME OneCheckpointer, LockInv, LogTypes, ConnTypes, LogTypes', ConnTypes',
           NEW base, WalInvOver(base), NEW c \in Conns, ConnsKept(c), LogSame, MarksKept,
           Stays(c), ConnInv(base, c)'
    PROVE  WalInvOver(base)'
  <1>1. LogInv(base) /\ SpillInv
    BY DEF WalInvOver
  <1>2. Grows /\ HistoryStep /\ LogStill /\ shared.nb <= shared'.nb /\ LogInv(base)'
    BY <1>1, SameLog
  <1>3. shared'.nb = shared.nb /\ db' = db /\ shared'.seq = shared.seq /\ shared.epoch <= shared'.epoch
        /\ frame_cache' = frame_cache /\ shared'.max = shared.max
    BY DEF LogSame
  <1>4. ReadersJoin /\ SpillInv' /\ (Restarting # {} => Restarting' # {} \/ shared.epoch < shared'.epoch)
    BY <1>1, <1>3, StaysJoins, StaysSpilled, StaysRestarting
  <1>5. \A d \in Conns \ {c} : ConnInv(base, d)'
    BY <1>2, <1>3, <1>4, OthersForward
  <1> QED  BY <1>2, <1>4, <1>5 DEF WalInvOver

-----------------------------------------------------------------------------
(* The parts of a connection's invariant that its place makes void.         *)

LEMMA VoidParts ==
    ASSUME NEW c \in Conns
    PROVE  /\ /\ pc'[c] \notin Unpublished
              /\ pc'[c] \notin WriteSteps \union CheckpointSteps => tx'[c].dirty = {}
              => WriteInv(c)'
           /\ \A base : pc'[c] \notin Looking /\ guard'[c] \notin Marks /\ snap'[c].tx <= shared'.tx
                => ReadInv(base, c)'
           /\ pc'[c] \notin {"choose", "lock"} => PickInv(c)'
           /\ \A base : /\ pc'[c] \notin CheckpointSteps
                        /\ pc'[c] = "vacuum" \/ tx'[c].vacuum => c \in Checkpointers \union Vacuumers
                        /\ pc'[c] \in WriteSteps => c \in Writers \/ tx'[c].vacuum
                => CkptInv(base, c)'
  <1>1. ASSUME pc'[c] \notin Unpublished,
               pc'[c] \notin WriteSteps \union CheckpointSteps => tx'[c].dirty = {}
        PROVE  WriteInv(c)'
    BY <1>1 DEF WriteInv, Unpublished
  <1>2. ASSUME NEW base, pc'[c] \notin Looking, guard'[c] \notin Marks, snap'[c].tx <= shared'.tx
        PROVE  ReadInv(base, c)'
    BY <1>2 DEF ReadInv, Looking
  <1>3. ASSUME pc'[c] \notin {"choose", "lock"}  PROVE PickInv(c)'
    BY <1>3 DEF PickInv
  <1>4. ASSUME NEW base, pc'[c] \notin CheckpointSteps,
               pc'[c] = "vacuum" \/ tx'[c].vacuum => c \in Checkpointers \union Vacuumers,
               pc'[c] \in WriteSteps => c \in Writers \/ tx'[c].vacuum
        PROVE  CkptInv(base, c)'
    BY <1>4 DEF CkptInv, Copying, CheckpointSteps
  <1> QED  BY <1>1, <1>2, <1>3, <1>4

LEMMA EmptiedCache ==
    ASSUME NEW c \in Conns, cache'[c] = EmptyCache,
           ~tx'[c].vacuum /\ pc'[c] \in InTransaction => tx'[c].dirty = {}
    PROVE  CacheInv(c)'
  <1>1. \A p \in Pages : ~cache'[c][p].used
    BY DEF EmptyCache, NoPage
  <1> QED  BY <1>1 DEF CacheInv, Tags, Content

LEMMA SameTags ==
    ASSUME LogTypes, LogTypes', LogSame, ConnTypes, NEW c \in Conns, ConnsKept(c),
           cache'[c] = cache[c], Tags(c),
           Stays(c),
           pc'[c] \in Unpublished =>
               tx'[c].spilled = {} \/ (pc[c] \in Unpublished /\ tx'[c].spilled = tx[c].spilled)
    PROVE  Tags(c)'
  <1>1. wal' = wal /\ shared'.max = shared.max /\ shared.epoch <= shared'.epoch
        /\ shared.epoch \in Nat
    BY LogParts DEF LogSame
  <1>2. Restarting # {} => Restarting' # {} \/ shared.epoch < shared'.epoch
    BY StaysRestarting
  <1>3. ASSUME NEW p \in Pages, cache[c][p].used
        PROVE  LET pg == cache[c][p] IN
               /\ c \in Caching /\ pg.epoch <= shared'.epoch
               /\ ~pg.dirty /\ pg.epoch = shared'.epoch /\ pg.frame # 0 =>
                   \/ pg.frame <= shared'.max /\ pg.ver = FrameContent(wal', pg.frame, p)
                   \/ pc'[c] \in Unpublished /\ p \in tx'[c].spilled
                   \/ Restarting' # {}
               /\ pc'[c] \in Unpublished /\ p \in tx'[c].spilled => pg.frame > shared'.max
    <2>1. PICK pg : pg = cache[c][p]
      OBVIOUS
    <2>2. pg.epoch \in Nat
      BY <2>1 DEF ConnTypes, CachedPages
    <2>3. /\ c \in Caching /\ pg.epoch <= shared.epoch
          /\ ~pg.dirty /\ pg.epoch = shared.epoch /\ pg.frame # 0 =>
              \/ pg.frame <= shared.max /\ pg.ver = FrameContent(wal, pg.frame, p)
              \/ pc[c] \in Unpublished /\ p \in tx[c].spilled
              \/ Restarting # {}
          /\ pc[c] \in Unpublished /\ p \in tx[c].spilled => pg.frame > shared.max
      BY <1>3, <2>1 DEF Tags
    <2>4. pc[c] \in Unpublished /\ p \in tx[c].spilled => pc'[c] \in Unpublished /\ p \in tx'[c].spilled
      BY DEF Stays
    <2>5. pc'[c] \in Unpublished /\ p \in tx'[c].spilled => pg.frame > shared'.max
      BY <1>1, <2>3
    <2>6. shared'.epoch \in Nat
      BY LogPartsNext
    <2>7. PICK e, x, y : e = pg.epoch /\ x = shared.epoch /\ y = shared'.epoch
      OBVIOUS
    <2>8. e \in Nat /\ x \in Nat /\ e <= x /\ x <= y /\ y \in Nat
      BY <1>1, <2>2, <2>3, <2>6, <2>7
    <2>9. e = y => e = x /\ ~(x < y)
      BY <2>8
    <2>10. e <= y
      BY <2>8
    <2> QED  BY <1>1, <1>2, <2>1, <2>3, <2>4, <2>5, <2>7, <2>9, <2>10
  <1> QED  BY <1>3 DEF Tags

-----------------------------------------------------------------------------
(* Steps that leave the log as it is.                                       *)

EpochStep == shared' = shared \/ shared' = [shared EXCEPT !.epoch = @ + 1]
LogUntouched == EpochStep /\ UNCHANGED <<frame_cache, wal, db, history, crashes>>

LEMMA SameLogTypes ==
    ASSUME LogTypes, LogUntouched, txns' \in 0..MaxTxn, \A i \in 0..Slots : slot'[i].mark \in Nat
    PROVE  LogTypes' /\ LogSame
  <1>1. /\ shared' \in [max : Nat, nb : Nat, seq : Nat, tx : Nat, hdr : BOOLEAN,
                        init : BOOLEAN, epoch : Nat]
        /\ shared'.max = shared.max /\ shared'.nb = shared.nb /\ shared'.seq = shared.seq
        /\ shared'.tx = shared.tx /\ shared'.init = shared.init /\ shared.epoch <= shared'.epoch
    <2> DEFINE T == [max : Nat, nb : Nat, seq : Nat, tx : Nat, hdr : BOOLEAN,
                     init : BOOLEAN, epoch : Nat]
    <2>1. shared \in T /\ shared.epoch \in Nat
      BY DEF LogTypes
    <2>2. CASE shared' = shared
      BY <2>1, <2>2
    <2>3. CASE shared' = [shared EXCEPT !.epoch = @ + 1]
      BY <2>1, <2>3
    <2> QED  BY <2>2, <2>3 DEF LogUntouched, EpochStep
  <1>2. LogSame
    BY <1>1 DEF LogSame, LogUntouched
  <1>3. LogTypes'
    BY <1>1 DEF LogTypes, LogUntouched
  <1> QED  BY <1>2, <1>3

NatMarks == \A i \in 0..Slots : slot[i].mark \in Nat

LEMMA MarkSteps ==
    ASSUME LockInv, NatMarks
    PROVE  /\ slot' = slot => NatMarks'
           /\ \A i \in 0..Slots : \A m \in Nat : slot' = [slot EXCEPT ![i].mark = m] => NatMarks'
           /\ \A i \in 0..Slots : \/ slot' = [slot EXCEPT ![i] = Shared(@)]
                                  \/ slot' = [slot EXCEPT ![i] = Exclusive(@)]
                                  \/ slot' = [slot EXCEPT ![i] = Unlock(@)]
                                  => NatMarks' /\ \A j \in Marks : slot'[j].mark = slot[j].mark
           /\ READMARK_NOT_USED \in Nat
           /\ \A i \in 0..Slots : ClearedPrefix[i].mark \in Nat /\ Unlock(ClearedPrefix[i]).mark \in Nat
  <1>1. /\ DOMAIN slot = 0..Slots /\ \A i \in 0..Slots : SlotRecord(slot[i]) /\ slot[i].mark \in Nat
        /\ Marks \subseteq 0..Slots
    BY SlotShape DEF NatMarks
  <1>2. READMARK_NOT_USED \in Nat
    BY BoundsAssumption DEF READMARK_NOT_USED
  <1>3. ASSUME NEW i \in 0..Slots, NEW m \in Nat, slot' = [slot EXCEPT ![i].mark = m]
        PROVE  NatMarks'
    BY <1>1, <1>3 DEF NatMarks, SlotRecord
  <1>4. ASSUME NEW i \in 0..Slots,
               \/ slot' = [slot EXCEPT ![i] = Shared(@)]
               \/ slot' = [slot EXCEPT ![i] = Exclusive(@)]
               \/ slot' = [slot EXCEPT ![i] = Unlock(@)]
        PROVE  NatMarks' /\ \A j \in Marks : slot'[j].mark = slot[j].mark
    <2>1. \A j \in 0..Slots : slot'[j].mark = slot[j].mark
      <3>1. Shared(slot[i]).mark = slot[i].mark /\ Exclusive(slot[i]).mark = slot[i].mark
            /\ Unlock(slot[i]).mark = slot[i].mark
        BY <1>1, LockedMark
      <3> QED  BY <1>1, <1>4, <3>1
    <2> QED  BY <1>1, <2>1 DEF NatMarks
  <1>5. ASSUME NEW i \in 0..Slots
        PROVE  ClearedPrefix[i].mark \in Nat /\ Unlock(ClearedPrefix[i]).mark \in Nat
    <2>1. ClearedPrefix[i].mark \in Nat
      BY <1>1, <1>2 DEF ClearedPrefix, SlotRecord
    <2>2. SlotRecord(ClearedPrefix[i])
      BY ClearedPrefixWords DEF LockInv
    <2> QED  BY <2>1, <2>2, LockedMark
  <1>6. slot' = slot => NatMarks'
    BY DEF NatMarks
  <1> QED  BY <1>2, <1>3, <1>4, <1>5, <1>6

(* The state a step starts from, over an image base the log was started on. *)
Ready(base) ==
    /\ OneCheckpointer /\ LockInv /\ LogTypes /\ ConnTypes /\ WalInvOver(base)
Reached(base) == LogTypes' /\ ConnTypes' /\ WalInvOver(base)'

LEMMA ReadyParts ==
    ASSUME NEW base, Ready(base), NEW c \in Conns
    PROVE  /\ OneCheckpointer /\ LockInv /\ LogTypes /\ ConnTypes /\ WalInvOver(base)
           /\ LogInv(base) /\ SpillInv /\ ConnType(c)
           /\ WriteInv(c) /\ ReadInv(base, c) /\ PickInv(c) /\ CkptInv(base, c) /\ Tags(c) /\ Content(c)
           /\ HeldAt(c) /\ NatMarks
           /\ snap[c] \in Snapshots /\ snap[c].tx <= shared.tx
           /\ cache[c] \in [Pages -> CachedPages]
           /\ pc[c] \in AllPcs
  <1>1. /\ OneCheckpointer /\ LockInv /\ LogTypes /\ ConnTypes /\ WalInvOver(base)
    BY DEF Ready
  <1>2. /\ LogInv(base) /\ SpillInv
        /\ WriteInv(c) /\ ReadInv(base, c) /\ PickInv(c) /\ CkptInv(base, c) /\ Tags(c) /\ Content(c)
    BY <1>1 DEF WalInvOver, ConnInv, CacheInv
  <1>3. ConnType(c) /\ snap[c] \in Snapshots /\ cache[c] \in [Pages -> CachedPages]
    BY <1>1 DEF ConnTypes
  <1>4. HeldAt(c) /\ pc[c] \in AllPcs
    BY <1>1, StepFacts
  <1>5. NatMarks
    BY <1>1 DEF LogTypes, NatMarks
  <1>6. snap[c].tx <= shared.tx
    BY <1>2 DEF ReadInv
  <1> QED  BY <1>1, <1>2, <1>3, <1>4, <1>5, <1>6

LEMMA LocalTypesFrom ==
    ASSUME NEW c \in Conns, ConnType(c),
           \/ pick'[c] = pick[c] \/ pick'[c] = NoPick
           \/ pick'[c].snap \in Snapshots /\ pick'[c].mark \in Nat,
           \/ tx'[c] = tx[c] \/ tx'[c] = NoTx
           \/ /\ tx'[c].id \in 0..MaxTxn /\ tx'[c].dirty \subseteq Pages
              /\ tx'[c].spilled \subseteq tx'[c].dirty,
           \/ ckpt'[c] = ckpt[c] \/ ckpt'[c] = NoCheckpoint
           \/ ckpt'[c].old \in Nat /\ ckpt'[c].max \in Nat /\ ckpt'[c].scan \in Nat
    PROVE  LocalTypes(c)'
  <1>1. pick'[c].snap \in Snapshots /\ pick'[c].mark \in Nat
    <2>1. NoPick.mark = 0 /\ NoPick.snap = NoSnapshot
      BY DEF NoPick
    <2>2. NoSnapshot \in Snapshots
      BY DEF NoSnapshot, Snapshots
    <2> QED  BY <2>1, <2>2 DEF ConnType
  <1>2. /\ tx'[c].id \in 0..MaxTxn /\ tx'[c].dirty \subseteq Pages
        /\ tx'[c].spilled \subseteq tx'[c].dirty
    BY BoundsAssumption DEF ConnType, NoTx
  <1>3. ckpt'[c].old \in Nat /\ ckpt'[c].max \in Nat /\ ckpt'[c].scan \in Nat
    BY DEF ConnType, NoCheckpoint
  <1> QED  BY <1>1, <1>2, <1>3 DEF LocalTypes

OutsidePcs == {"idle", "choose", "lock", "auto", "vacuum"} \union CheckpointSteps

LEMMA OutsideStep ==
    ASSUME NEW base, Ready(base), NEW c \in Conns, ShapeAfter(c), MarksKept, LogTypes', LogSame,
           pc[c] \in OutsidePcs, pc'[c] \in OutsidePcs, snap' = snap, view' = view,
           cache' = cache \/ cache' = [cache EXCEPT ![c] = EmptyCache],
           tx'[c] = tx[c] \/ tx'[c] = NoTx,
           pc[c] \in CheckpointSteps /\ pc'[c] \notin CheckpointSteps => tx'[c] = NoTx,
           pc[c] \notin CheckpointSteps /\ pc'[c] \in CheckpointSteps => ~tx'[c].vacuum,
           InRestarting(c) => InRestarting(c)' \/ shared.epoch < shared'.epoch,
           LocalTypes(c)', PickInv(c)', CkptInv(base, c)'
    PROVE  Reached(base)
  <1> USE DEF OutsidePcs
  <1>1. /\ OneCheckpointer /\ LockInv /\ LogTypes /\ ConnTypes /\ WalInvOver(base)
        /\ WriteInv(c) /\ ReadInv(base, c) /\ CkptInv(base, c) /\ Tags(c) /\ Content(c)
        /\ HeldAt(c) /\ snap[c].tx <= shared.tx /\ cache[c] \in [Pages -> CachedPages]
    BY ReadyParts
  <1>2. HeldAt(c)' /\ Local(c)
    BY DEF ShapeAfter
  <1>3. /\ pc[c] \notin Unpublished /\ pc'[c] \notin Unpublished /\ pc'[c] \notin Looking
        /\ pc[c] \notin WriteSteps /\ pc'[c] \notin WriteSteps /\ pc'[c] # "read"
        /\ pc[c] \notin InTransaction /\ pc'[c] \notin InTransaction
    BY DEF Unpublished, Looking, WriteSteps, CheckpointSteps, InTransaction
  <1>4. guard'[c] = NO_LOCK_HELD /\ guard'[c] \notin Marks
    BY <1>2, <1>3, BoundsAssumption DEF HeldAt, NO_LOCK_HELD, Marks
  <1>5. SnapStep(c) /\ CacheStep(c) /\ ViewStep(c)
    <2>1. EmptyCache \in [Pages -> CachedPages]
      BY DEF EmptyCache, NoPage, CachedPages
    <2> QED  BY <2>1 DEF SnapStep, CacheStep, ViewStep
  <1>6. ConnTypes' /\ ConnsKept(c)
    BY <1>1, <1>2, <1>5, SameLog, ConnsFrom
  <1>7. Stays(c)
    BY <1>3 DEF Stays
  <1>8. tx'[c].vacuum => tx[c].vacuum /\ tx'[c] = tx[c]
    BY DEF NoTx
  <1>9. WriteInv(c)'
    <2>1. pc'[c] \notin WriteSteps \union CheckpointSteps => tx'[c].dirty = {}
      <3>1. NoTx.dirty = {}
        BY DEF NoTx
      <3>2. pc[c] \notin CheckpointSteps => tx[c].dirty = {}
        BY <1>1, <1>3 DEF WriteInv
      <3> QED  BY <3>1, <3>2
    <2> QED  BY <1>3, <2>1, VoidParts
  <1>10. ReadInv(base, c)'
    BY <1>1, <1>3, <1>4, VoidParts DEF LogSame
  <1>11. CacheInv(c)'
    <2>1. CASE cache' = [cache EXCEPT ![c] = EmptyCache]
      <3>1. cache'[c] = EmptyCache
        BY <1>1, <2>1 DEF ConnTypes
      <3> QED  BY <1>3, <3>1, EmptiedCache
    <2>2. CASE cache' = cache
      <3>1. Tags(c)'
        BY <1>1, <1>3, <1>6, <1>7, <2>2, SameTags
      <3>2. Content(c)'
        <4>1. history' = history /\ shared'.tx = shared.tx /\ snap'[c] = snap[c] /\ cache'[c] = cache[c]
          BY <2>2 DEF LogSame
        <4>2. ASSUME NEW p \in Pages, snap[c].tx = shared.tx, cache[c][p].used, ~tx'[c].vacuum
              PROVE  cache[c][p].ver = Last(history)[p]
          <5>1. CASE tx[c].vacuum
            <6>1. pc[c] \in CheckpointSteps
              BY <1>1, <1>3, <5>1 DEF HeldAt
            <6> QED  BY <1>1, <5>1, <6>1, <4>2 DEF Content
          <5>2. CASE ~tx[c].vacuum
            BY <1>1, <1>3, <5>2, <4>2 DEF Content
          <5> QED  BY <5>1, <5>2
        <4>3. ASSUME tx'[c].vacuum, pc'[c] \in CheckpointSteps, NEW p \in Pages
              PROVE  ~cache[c][p].used
          BY <1>1, <1>8, <4>3 DEF Content
        <4> QED  BY <1>3, <4>1, <4>2, <4>3 DEF Content
      <3> QED  BY <3>1, <3>2 DEF CacheInv
    <2> QED  BY <2>1, <2>2
  <1>12. ConnInv(base, c)'
    BY <1>9, <1>10, <1>11 DEF ConnInv
  <1>13. WalInvOver(base)'
    BY <1>1, <1>6, <1>7, <1>12, SameStep
  <1> QED  BY <1>6, <1>13 DEF Reached

LEMMA SnapshotOf ==
    ASSUME LogTypes
    PROVE  /\ Snapshot(shared) \in Snapshots
           /\ Snapshot(shared).max = shared.max /\ Snapshot(shared).nb = shared.nb
           /\ Snapshot(shared).seq = shared.seq /\ Snapshot(shared).tx = shared.tx
  BY LogParts DEF Snapshot, Snapshots

LEMMA NotVacuumOutside ==
    ASSUME NEW base, Ready(base), NEW c \in Conns,
           pc'[c] \in {"idle", "choose", "lock", "auto"}, HeldAt(c)'
    PROVE  CkptInv(base, c)' /\ (pc'[c] \in {"idle", "auto"} => PickInv(c)')
  <1>1. ~tx'[c].vacuum /\ pc'[c] # "vacuum" /\ pc'[c] \notin CheckpointSteps /\ pc'[c] \notin WriteSteps
    BY DEF HeldAt, CheckpointSteps, WriteSteps
  <1>2. CkptInv(base, c)'
    BY <1>1, VoidParts
  <1>3. pc'[c] \in {"idle", "auto"} => PickInv(c)'
    BY VoidParts
  <1> QED  BY <1>2, <1>3

LEMMA BeginReadKeeps ==
    ASSUME NEW base, Ready(base), NEW c \in Conns, BeginRead(c)
    PROVE  Reached(base)
  <1>1. /\ LockInv /\ LogTypes /\ LogInv(base) /\ ConnType(c) /\ NatMarks /\ ConnTypes
    BY ReadyParts
  <1>2. /\ pc[c] = "idle" /\ slot' = slot /\ txns' = txns /\ LogUntouched /\ shared' = shared
        /\ snap' = snap /\ view' = view /\ cache' = cache /\ tx' = tx /\ ckpt' = ckpt
    BY DEF BeginRead, files, ghosts, bounds, LogUntouched, EpochStep
  <1>3. ShapeAfter(c) /\ MarksKept
    BY <1>1, ReadShapes, StepKeepsMarks DEF Transaction
  <1>4. LogTypes' /\ LogSame
    <2>1. txns' \in 0..MaxTxn /\ \A i \in 0..Slots : slot'[i].mark \in Nat
      BY <1>1, <1>2 DEF LogTypes, NatMarks
    <2> QED  BY <1>1, <1>2, <2>1, SameLogTypes
  <1>5. /\ pc'[c] \in {"choose", "lock"} /\ pick'[c].snap = Snapshot(shared)
        /\ pick'[c].slot \in {0, NO_LOCK_HELD} /\ pick'[c].mark = 0
    BY <1>1 DEF BeginRead, LockInv, LockTypes, PcTypes, PickTypes
  <1>6. Snapshot(shared) \in Snapshots /\ Snapshot(shared).seq = shared.seq /\ Snapshot(shared).max = shared.max
        /\ shared.seq \in Nat
    BY <1>1, SnapshotOf, LogParts
  <1>7. PickInv(c)'
    <2>1. pick'[c].slot \notin Marks
      BY <1>5, BoundsAssumption DEF NO_LOCK_HELD, Marks
    <2>2. PICK k : k = shared.max
      OBVIOUS
    <2>3. Boundary(k)'
      BY <1>1, <1>4, <2>2, SameLog DEF LogInv
    <2>4. Boundary(pick[c].snap.max)'
      BY <1>5, <1>6, <2>2, <2>3 DEF Boundary
    <2> QED  BY <1>2, <1>5, <1>6, <2>1, <2>4 DEF PickInv
  <1>8. CkptInv(base, c)'
    BY <1>3, <1>5, NotVacuumOutside DEF ShapeAfter
  <1>9. LocalTypes(c)'
    BY <1>1, <1>2, <1>5, <1>6, LocalTypesFrom
  <1> QED
    BY <1>2, <1>3, <1>4, <1>5, <1>7, <1>8, <1>9, OutsideStep DEF OutsidePcs, CheckpointSteps, InRestarting

LEMMA RetryReadKeeps ==
    ASSUME NEW base, Ready(base), NEW c \in Conns, RetryRead(c)
    PROVE  Reached(base)
  <1>1. /\ LockInv /\ LogTypes /\ ConnType(c) /\ NatMarks
    BY ReadyParts
  <1>2. /\ pc[c] = "lock" /\ slot' = slot /\ txns' = txns /\ LogUntouched
        /\ snap' = snap /\ view' = view /\ cache' = cache /\ tx' = tx /\ ckpt' = ckpt
    BY DEF RetryRead, files, ghosts, bounds, LogUntouched, EpochStep
  <1>3. ShapeAfter(c) /\ MarksKept
    BY <1>1, ReadShapes, StepKeepsMarks DEF Transaction
  <1>4. LogTypes' /\ LogSame
    <2>1. txns' \in 0..MaxTxn /\ \A i \in 0..Slots : slot'[i].mark \in Nat
      BY <1>1, <1>2 DEF LogTypes, NatMarks
    <2> QED  BY <1>1, <1>2, <2>1, SameLogTypes
  <1>5. pc'[c] = "idle" /\ pick'[c] = NoPick
    BY <1>1 DEF RetryRead, LockInv, LockTypes, PcTypes, PickTypes
  <1>6. CkptInv(base, c)' /\ PickInv(c)'
    BY <1>3, <1>5, NotVacuumOutside DEF ShapeAfter
  <1>7. LocalTypes(c)'
    BY <1>1, <1>2, <1>5, LocalTypesFrom
  <1> QED
    BY <1>2, <1>3, <1>4, <1>5, <1>6, <1>7, OutsideStep DEF OutsidePcs, CheckpointSteps, InRestarting

LEMMA SkipAutoKeeps ==
    ASSUME NEW base, Ready(base), NEW c \in Conns, SkipAutoCheckpoint(c)
    PROVE  Reached(base)
  <1>1. /\ LockInv /\ LogTypes /\ ConnType(c) /\ NatMarks
    BY ReadyParts
  <1>2. /\ pc[c] = "auto" /\ slot' = slot /\ txns' = txns /\ LogUntouched
        /\ snap' = snap /\ view' = view /\ cache' = cache /\ tx' = tx /\ ckpt' = ckpt /\ pick' = pick
    BY DEF SkipAutoCheckpoint, files, ghosts, bounds, LogUntouched, EpochStep
  <1>3. ShapeAfter(c) /\ MarksKept
    BY <1>1, CheckpointShapes, StepKeepsMarks DEF CheckpointStep
  <1>4. LogTypes' /\ LogSame
    <2>1. txns' \in 0..MaxTxn /\ \A i \in 0..Slots : slot'[i].mark \in Nat
      BY <1>1, <1>2 DEF LogTypes, NatMarks
    <2> QED  BY <1>1, <1>2, <2>1, SameLogTypes
  <1>5. pc'[c] = "idle"
    BY <1>1 DEF SkipAutoCheckpoint, LockInv, LockTypes, PcTypes
  <1>6. CkptInv(base, c)' /\ PickInv(c)'
    BY <1>3, <1>5, NotVacuumOutside DEF ShapeAfter
  <1>7. LocalTypes(c)'
    BY <1>1, <1>2, LocalTypesFrom
  <1> QED
    BY <1>2, <1>3, <1>4, <1>5, <1>6, <1>7, OutsideStep DEF OutsidePcs, CheckpointSteps, InRestarting

(* A checkpoint that returns, or a VACUUM that gives the checkpoint lock back. *)
LEMMA EndingKeeps ==
    ASSUME NEW base, Ready(base), NEW c \in Conns, EndCheckpoint(c),
           UNCHANGED <<guard, pick, snap, view, txns>>, LogUntouched, NatMarks', MarksKept,
           cache' = cache \/ cache' = [cache EXCEPT ![c] = EmptyCache],
           pc[c] \in CheckpointSteps \union {"vacuum"}, pc[c] # "finalize"
    PROVE  Reached(base)
  <1>1. /\ LockInv /\ LogTypes /\ ConnType(c)
    BY ReadyParts
  <1>2. ShapeAfter(c) /\ pc'[c] = "idle"
    BY <1>1, EndShape
  <1>3. tx'[c] = NoTx /\ ckpt'[c] = NoCheckpoint /\ pick'[c] = pick[c]
    BY <1>1 DEF EndCheckpoint, LockInv, LockTypes, TxTypes, CkptTypes
  <1>4. LogTypes' /\ LogSame
    <2>1. txns' \in 0..MaxTxn
      BY <1>1 DEF LogTypes
    <2>2. \A i \in 0..Slots : slot'[i].mark \in Nat
      BY DEF NatMarks
    <2> QED  BY <1>1, <2>1, <2>2, SameLogTypes
  <1>5. CkptInv(base, c)' /\ PickInv(c)'
    BY <1>2, NotVacuumOutside DEF ShapeAfter
  <1>6. LocalTypes(c)'
    BY <1>1, <1>3, LocalTypesFrom
  <1>7. pc[c] \in OutsidePcs /\ pc'[c] \in OutsidePcs /\ snap' = snap /\ view' = view
        /\ pc'[c] \notin CheckpointSteps /\ ~InRestarting(c)
    BY <1>2 DEF OutsidePcs, CheckpointSteps, InRestarting
  <1> QED  BY <1>2, <1>3, <1>4, <1>5, <1>6, <1>7, OutsideStep

LEMMA ReleasedMarks ==
    ASSUME LockInv, NatMarks, NEW c \in Conns, slot' = ReleasedSlots(c)
    PROVE  NatMarks'
  <1>1. 0 \in 0..Slots
    BY BoundsAssumption
  <1>2. CASE ckpt[c].held \in {"read0", "writer"}
    <2>1. slot' = [slot EXCEPT ![0] = Unlock(@)]
      BY <1>2 DEF ReleasedSlots
    <2> QED  BY <1>1, <2>1, MarkSteps
  <1>3. CASE ckpt[c].held \notin {"read0", "writer"}
    <2>1. slot' = slot
      BY <1>3 DEF ReleasedSlots
    <2> QED  BY <2>1, MarkSteps
  <1> QED  BY <1>2, <1>3

LEMMA EndKeeps ==
    ASSUME NEW base, Ready(base), NEW c \in Conns,
           \/ CheckpointBusy(c) \/ FinishCheckpoint(c) \/ VacuumBusy(c)
           \/ CheckpointFails(c) /\ pc[c] # "truncate"
           \/ DetermineResult(c) /\ EndCheckpoint(c)
    PROVE  Reached(base)
  <1>1. /\ LockInv /\ NatMarks
    BY ReadyParts
  <1>2. MarksKept
    BY <1>1, StepKeepsMarks DEF CheckpointStep, VacuumStep
  <1>3. CASE CheckpointBusy(c) \/ VacuumBusy(c)
    <2>1. /\ EndCheckpoint(c) /\ UNCHANGED <<guard, pick, snap, view, txns>> /\ LogUntouched
          /\ cache' = cache /\ pc[c] \in CheckpointSteps \union {"vacuum"} /\ pc[c] # "finalize"
          /\ slot' = slot
      BY <1>3 DEF CheckpointBusy, VacuumBusy, files, ghosts, bounds, LogUntouched, EpochStep,
                  CheckpointSteps
    <2>2. NatMarks'
      BY <1>1, <2>1, MarkSteps
    <2> QED  BY <1>2, <2>1, <2>2, EndingKeeps
  <1>4. CASE FinishCheckpoint(c)
    <2>1. /\ EndCheckpoint(c) /\ UNCHANGED <<guard, pick, snap, view, txns>> /\ LogUntouched
          /\ cache' = cache \/ cache' = [cache EXCEPT ![c] = EmptyCache]
          /\ pc[c] \in CheckpointSteps \union {"vacuum"} /\ pc[c] # "finalize"
          /\ slot' = ReleasedSlots(c)
      BY <1>4 DEF FinishCheckpoint, files, ghosts, bounds, LogUntouched, EpochStep, CheckpointSteps
    <2>2. NatMarks'
      BY <1>1, <2>1, ReleasedMarks
    <2> QED  BY <1>2, <2>1, <2>2, EndingKeeps
  <1>5. CASE CheckpointFails(c) /\ pc[c] # "truncate"
    <2>1. /\ EndCheckpoint(c) /\ UNCHANGED <<guard, pick, snap, view, txns>> /\ LogUntouched
          /\ cache' = cache
          /\ pc[c] \in CheckpointSteps \union {"vacuum"} /\ pc[c] # "finalize"
          /\ slot' = ReleasedSlots(c)
      BY <1>5 DEF CheckpointFails, files, ghosts, LogUntouched, EpochStep, CheckpointSteps
    <2>2. NatMarks'
      BY <1>1, <2>1, ReleasedMarks
    <2> QED  BY <1>2, <2>1, <2>2, EndingKeeps
  <1>6. CASE DetermineResult(c) /\ EndCheckpoint(c)
    <2>1. /\ EndCheckpoint(c) /\ UNCHANGED <<guard, pick, view, txns>> /\ cache' = cache
          /\ UNCHANGED <<wal, db, history, crashes>> /\ pc[c] = "backfill"
          /\ \/ slot' = ReleasedSlots(c) \/ slot' = [ClearedPrefix EXCEPT ![0] = Unlock(@)]
             \/ pc' = [pc EXCEPT ![c] = "finalize"]
          /\ UNCHANGED <<shared, frame_cache, snap>> \/ pc' = [pc EXCEPT ![c] = "finalize"]
      BY <1>6 DEF DetermineResult, files, ghosts, bounds
    <2>2. pc'[c] = "idle" /\ pc' # [pc EXCEPT ![c] = "finalize"]
      <3>1. DOMAIN pc = Conns
        BY <1>1 DEF LockInv, LockTypes, PcTypes
      <3>2. pc' = [pc EXCEPT ![c] = "idle"]
        BY <1>6 DEF EndCheckpoint
      <3> QED  BY <3>1, <3>2
    <2>3. NatMarks'
      <3>1. CASE slot' = ReleasedSlots(c)
        BY <1>1, <3>1, ReleasedMarks
      <3>2. CASE slot' = [ClearedPrefix EXCEPT ![0] = Unlock(@)]
        <4>1. DOMAIN ClearedPrefix = 0..Slots
          BY DEF ClearedPrefix
        <4>2. \A i \in 0..Slots : slot'[i] = ClearedPrefix[i] \/ slot'[i] = Unlock(ClearedPrefix[i])
          BY <3>2, <4>1
        <4>3. \A i \in 0..Slots : ClearedPrefix[i].mark \in Nat /\ Unlock(ClearedPrefix[i]).mark \in Nat
          BY <1>1, MarkSteps
        <4> QED  BY <4>2, <4>3 DEF NatMarks
      <3> QED  BY <2>1, <2>2, <3>1, <3>2
    <2>4. LogUntouched /\ snap' = snap
      BY <2>1, <2>2 DEF LogUntouched, EpochStep
    <2>5. pc[c] \in CheckpointSteps \union {"vacuum"} /\ pc[c] # "finalize"
      BY <2>1 DEF CheckpointSteps
    <2> QED  BY <1>2, <2>1, <2>3, <2>4, <2>5, EndingKeeps
  <1> QED  BY <1>3, <1>4, <1>5, <1>6

(* A mark that is taken is at a boundary, if the log is not being restarted. *)
LEMMA TakenMark ==
    ASSUME NEW base, Ready(base), NEW i \in Marks, ~Free(slot[i]), shared.max > 0
    PROVE  Boundary(slot[i].mark)
  <1>1. LockInv /\ LogTypes /\ \A d \in Conns : ReadInv(base, d) /\ CkptInv(base, d)
    BY DEF Ready, WalInvOver, ConnInv
  <1>2. ReadMarkWord(i) /\ i # 0 /\ i \in 0..Slots
    BY <1>1 DEF LockInv, ReadMarkWords, Marks
  <1>3. CASE slot[i].writer
    <2>1. PICK d \in Restarting : TRUE
      BY <1>2, <1>3 DEF ReadMarkWord
    <2>2. d \in Conns /\ pc[d] = "finalize" /\ RestartsLog(ckpt[d].mode)
      BY DEF Restarting
    <2>3. shared.max = 0
      BY <1>1, <2>2 DEF CkptInv
    <2> QED  BY <2>3
  <1>4. CASE ~slot[i].writer
    <2>1. slot[i].readers # 0
      BY <1>4 DEF Free
    <2>2. ReadHolders(i) # {}
      <3>1. ReadHolders(i) \subseteq Conns
        BY DEF ReadHolders
      <3> QED  BY <1>2, <2>1, <3>1, EmptyCount DEF ReadMarkWord
    <2>3. PICK d \in Conns : guard[d] = i
      BY <2>2 DEF ReadHolders
    <2> QED  BY <1>1, <2>3 DEF ReadInv
  <1> QED  BY <1>3, <1>4

(* The slot and the mark a reader picks.                                    *)
LEMMA PickedMark ==
    ASSUME NEW base, Ready(base), NEW c \in Conns, ChooseMark(c)
    PROVE  /\ pick'[c].snap = pick[c].snap /\ pick'[c].mark \in Nat
           /\ Boundary(pick[c].snap.max) /\ pick'[c].slot \in Marks =>
                \E k \in Nat : pick'[c].mark = k /\ Boundary(k) /\ k <= pick[c].snap.max
  <1> DEFINE max  == pick[c].snap.max
             fit  == {i \in Marks : slot[i].mark # READMARK_NOT_USED /\ slot[i].mark \in 1..max}
             best == {i \in fit : \A j \in fit : slot[j].mark <= slot[i].mark}
             free == {i \in Marks : Free(slot[i])}
             low  == best = {} \/ slot[Min(best)].mark < max
  <1>1. LockInv /\ LogTypes /\ NatMarks /\ pick[c].snap \in Snapshots /\ max \in Nat
        /\ PickRecord(pick[c]) /\ DOMAIN pick = Conns
    BY ReadyParts DEF ConnType, Snapshots, LockInv, LockTypes, PickTypes
  <1>2. IF low /\ free # {}
        THEN /\ slot' = [slot EXCEPT ![Min(free)].mark = max]
             /\ pick' = [pick EXCEPT ![c].slot = Min(free), ![c].mark = max]
        ELSE /\ pick' = [pick EXCEPT ![c].slot = IF best = {} THEN NO_LOCK_HELD ELSE Min(best),
                                     ![c].mark = IF best = {} THEN 0 ELSE slot[Min(best)].mark]
             /\ UNCHANGED slot
    BY Zenon DEF ChooseMark
  <1>3. best # {} => Min(best) \in best
    <2>1. best \subseteq Marks
      OBVIOUS
    <2> HIDE DEF best
    <2> QED  BY <2>1, MinMark
  <1>4. \A i \in best : i \in Marks /\ slot[i].mark \in 1..max /\ i \in 0..Slots
    BY DEF Marks
  <1>5. free = {} => \A i \in Marks : ~Free(slot[i])
    OBVIOUS
  <1>6. NO_LOCK_HELD \notin Marks
    BY BoundsAssumption DEF NO_LOCK_HELD, Marks
  <1> HIDE DEF best, free, max
  <1>7. \E s, m : /\ pick' = [pick EXCEPT ![c].slot = s, ![c].mark = m]
                  /\ \/ m = max
                     \/ s = NO_LOCK_HELD /\ m = 0
                     \/ s \in best /\ m = slot[s].mark /\ (free = {} \/ ~(m < max))
    <2>1. CASE low /\ free # {}
      BY <1>2, <2>1
    <2>2. CASE ~(low /\ free # {}) /\ best = {}
      BY <1>2, <2>2
    <2>3. CASE ~(low /\ free # {}) /\ best # {}
      BY <1>2, <1>3, <2>3
    <2> QED  BY <2>1, <2>2, <2>3
  <1>8. PICK s, m : /\ pick' = [pick EXCEPT ![c].slot = s, ![c].mark = m]
                    /\ \/ m = max
                       \/ s = NO_LOCK_HELD /\ m = 0
                       \/ s \in best /\ m = slot[s].mark /\ (free = {} \/ ~(m < max))
    BY <1>7
  <1>9. pick'[c].snap = pick[c].snap /\ pick'[c].mark = m /\ pick'[c].slot = s
    BY <1>1, <1>8 DEF PickRecord
  <1>10. m \in Nat
    BY <1>1, <1>4, <1>8
  <1>11. ASSUME Boundary(max), s \in Marks
         PROVE  Boundary(m) /\ m <= max
    <2>1. CASE m = max
      BY <1>1, <1>11, <2>1
    <2>2. CASE s \in best /\ m = slot[s].mark /\ (free = {} \/ ~(m < max))
      <3>1. m \in 1..max
        BY <1>4, <2>2
      <3>2. CASE free = {}
        <4>1. shared.max > 0
          BY <1>1, <1>11, <3>1, LogParts DEF Boundary
        <4> QED  BY <1>1, <1>5, <1>11, <2>2, <3>1, <3>2, <4>1, TakenMark
      <3>3. CASE ~(m < max)
        <4>1. m = max
          BY <1>1, <3>1, <3>3
        <4> QED  BY <1>1, <1>11, <4>1
      <3> QED  BY <2>2, <3>2, <3>3
    <2> QED  BY <1>6, <1>8, <1>11, <2>1, <2>2
  <1> QED  BY <1>9, <1>10, <1>11 DEF max

LEMMA ChooseMarkKeeps ==
    ASSUME NEW base, Ready(base), NEW c \in Conns, ChooseMark(c)
    PROVE  Reached(base)
  <1>1. /\ LockInv /\ LogTypes /\ ConnType(c) /\ NatMarks /\ PickInv(c)
    BY ReadyParts
  <1>2. /\ pc[c] = "choose" /\ txns' = txns /\ LogUntouched /\ shared' = shared
        /\ snap' = snap /\ view' = view /\ cache' = cache /\ tx' = tx /\ ckpt' = ckpt
    BY DEF ChooseMark, files, ghosts, bounds, LogUntouched, EpochStep
  <1>3. ShapeAfter(c) /\ MarksKept
    BY <1>1, ReadShapes, StepKeepsMarks DEF Transaction
  <1>4. /\ pick'[c].snap = pick[c].snap /\ pick'[c].mark \in Nat
        /\ Boundary(pick[c].snap.max) /\ pick'[c].slot \in Marks =>
             \E k \in Nat : pick'[c].mark = k /\ Boundary(k) /\ k <= pick[c].snap.max
    BY PickedMark
  <1>5. NatMarks'
    <2>1. \/ slot' = slot
          \/ \E i \in Marks : slot' = [slot EXCEPT ![i].mark = pick[c].snap.max]
      <3> DEFINE max  == pick[c].snap.max
                 free == {i \in Marks : Free(slot[i])}
      <3>1. slot' = slot \/ (free # {} /\ slot' = [slot EXCEPT ![Min(free)].mark = max])
        BY DEF ChooseMark
      <3>2. free # {} => Min(free) \in Marks
        <4>1. free \subseteq Marks
          OBVIOUS
        <4> HIDE DEF free
        <4> QED  BY <4>1, MinMark
      <3> QED  BY <3>1, <3>2
    <2>2. pick[c].snap.max \in Nat /\ Marks \subseteq 0..Slots
      BY <1>1 DEF ConnType, Snapshots, Marks
    <2> QED  BY <1>1, <2>1, <2>2, MarkSteps
  <1>6. LogTypes' /\ LogSame
    <2>1. txns' \in 0..MaxTxn /\ \A i \in 0..Slots : slot'[i].mark \in Nat
      BY <1>1, <1>2, <1>5 DEF LogTypes, NatMarks
    <2> QED  BY <1>1, <1>2, <2>1, SameLogTypes
  <1>7. pc'[c] = "lock"
    BY <1>1 DEF ChooseMark, LockInv, LockTypes, PcTypes
  <1>8. PickInv(c)'
    <2>1. PICK k : k = pick[c].snap.max
      OBVIOUS
    <2>2. pick[c].snap.seq <= shared'.seq
          /\ (pick[c].snap.seq = shared'.seq => Boundary(k))
      BY <1>1, <1>2, <2>1 DEF PickInv
    <2>3. Boundary(k) => Boundary(pick[c].snap.max)'
      <3>1. Boundary(k) => Boundary(k)'
        BY <1>1, <1>6, SameLog
      <3> QED  BY <1>4, <2>1, <3>1 DEF Boundary
    <2>4. ASSUME Boundary(k), pick'[c].slot \in Marks
          PROVE  Boundary(pick[c].mark)' /\ pick'[c].mark <= k
      <3>1. PICK m \in Nat : pick'[c].mark = m /\ Boundary(m) /\ m <= k
        BY <1>4, <2>1, <2>4
      <3>2. Boundary(m)'
        BY <1>1, <1>6, <3>1, SameLog
      <3> QED  BY <3>1, <3>2 DEF Boundary
    <2> QED  BY <1>4, <2>1, <2>2, <2>3, <2>4 DEF PickInv
  <1>9. CkptInv(base, c)'
    BY <1>3, <1>7, NotVacuumOutside DEF ShapeAfter
  <1>10. LocalTypes(c)'
    <2>1. pick'[c].snap \in Snapshots
      BY <1>1, <1>4 DEF ConnType
    <2> QED  BY <1>1, <1>2, <1>4, <2>1, LocalTypesFrom
  <1> QED
    BY <1>2, <1>3, <1>6, <1>7, <1>8, <1>9, <1>10, OutsideStep DEF OutsidePcs, CheckpointSteps, InRestarting

-----------------------------------------------------------------------------
(* Steps of a checkpoint that leave the log as it is.                       *)

CopyingAt(q, m) ==
    \/ q \in {"guard", "scan", "backfill"}
    \/ q \in {"finalize", "dbsync", "backfilled"} /\ ~RestartsLog(m)

LEMMA CkptFrom ==
    ASSUME NEW base, NEW c \in Conns, NEW q \in CheckpointSteps, NEW mode, NEW old, NEW max,
           pc'[c] = q, ckpt'[c].mode = mode, ckpt'[c].old = old, ckpt'[c].max = max,
           c \in Checkpointers \union Vacuumers,
           CopyingAt(q, mode) =>
             /\ old = shared'.nb /\ (shared'.nb < shared'.max \/ RestartsLog(mode))
             /\ q # "guard" => Boundary(max)'
             /\ q \notin {"guard", "scan"} => Copied(base, c)'
             /\ q \in {"finalize", "dbsync", "backfilled"} => ckpt'[c].todo = {}
             /\ q \in {"dbsync", "backfilled"} => max > old,
           q \in {"scan", "backfill"} => ReadersAhead(c)',
           q \in {"truncate", "truncated"} => mode = "Truncate",
           q = "backfilled" => ~RestartsLog(mode),
           RestartsLog(mode) =>
             /\ tx'[c].vacuum \/ Writers \subseteq {c}
             /\ q \in {"finalize", "dbsync", "truncate", "truncated", "finish"} => shared'.max = 0
    PROVE  CkptInv(base, c)'
  <1>1. q \notin WriteSteps
    BY DEF CheckpointSteps, WriteSteps
  <1>2. Copying(c)' <=> CopyingAt(q, mode)
    BY DEF Copying, CopyingAt
  <1>3. q # "guard" /\ CopyingAt(q, mode) => Boundary(ckpt[c].max)'
    BY DEF Boundary
  <1>4. \A d \in Conns : pc'[d] = "read" /\ (pc'[c] = "backfill" \/ (pc'[c] = "scan" /\ guard'[d] < ckpt'[c].scan))
            => ckpt'[c].max <= snap'[d].max
    BY DEF ReadersAhead
  <1>5. (/\ pc[c] \in CheckpointSteps \/ pc[c] = "vacuum" \/ tx[c].vacuum => c \in Checkpointers \union Vacuumers
         /\ pc[c] \in WriteSteps => c \in Writers \/ tx[c].vacuum)'
    BY <1>1
  <1>6. (Copying(c) =>
            /\ ckpt[c].old = shared.nb
            /\ shared.nb < shared.max \/ RestartsLog(ckpt[c].mode)
            /\ pc[c] # "guard" => Boundary(ckpt[c].max)
            /\ pc[c] \notin {"guard", "scan"} => Copied(base, c)
            /\ pc[c] \in {"finalize", "dbsync", "backfilled"} => ckpt[c].todo = {}
            /\ pc[c] \in {"dbsync", "backfilled"} => ckpt[c].max > ckpt[c].old)'
    BY <1>2, <1>3
  <1>7. (/\ pc[c] \in {"truncate", "truncated"} => ckpt[c].mode = "Truncate"
         /\ pc[c] = "backfilled" => ~RestartsLog(ckpt[c].mode)
         /\ RestartsLog(ckpt[c].mode) =>
             /\ pc[c] \in CheckpointSteps => tx[c].vacuum \/ Writers \subseteq {c}
             /\ pc[c] \in {"finalize", "dbsync", "truncate", "truncated", "finish"} => shared.max = 0)'
    OBVIOUS
  <1> QED  BY <1>4, <1>5, <1>6, <1>7 DEF CkptInv

LEMMA BeginVacuumKeeps ==
    ASSUME NEW base, Ready(base), NEW c \in Conns, BeginVacuum(c)
    PROVE  Reached(base)
  <1>1. /\ LockInv /\ LogTypes /\ ConnType(c) /\ NatMarks /\ HeldAt(c)
    BY ReadyParts
  <1>2. /\ pc[c] = "idle" /\ slot' = slot /\ txns' = txns /\ LogUntouched /\ c \in Vacuumers
        /\ snap' = snap /\ view' = view /\ cache' = cache /\ tx' = tx /\ pick' = pick
    BY DEF BeginVacuum, files, ghosts, bounds, LogUntouched, EpochStep
  <1>3. ShapeAfter(c) /\ MarksKept
    BY <1>1, VacuumShapes, StepKeepsMarks DEF VacuumStep
  <1>4. LogTypes' /\ LogSame
    <2>1. txns' \in 0..MaxTxn /\ \A i \in 0..Slots : slot'[i].mark \in Nat
      BY <1>1, <1>2 DEF LogTypes, NatMarks
    <2> QED  BY <1>1, <1>2, <2>1, SameLogTypes
  <1>5. pc'[c] = "vacuum" /\ ckpt'[c] = [NoCheckpoint EXCEPT !.held = "raw"]
    BY <1>1 DEF BeginVacuum, LockInv, LockTypes, PcTypes, CkptTypes
  <1>6. CkptInv(base, c)' /\ PickInv(c)'
    BY <1>2, <1>5, VoidParts DEF CheckpointSteps, WriteSteps
  <1>7. LocalTypes(c)'
    <2>1. ckpt'[c].old \in Nat /\ ckpt'[c].max \in Nat /\ ckpt'[c].scan \in Nat
      BY <1>5 DEF NoCheckpoint
    <2> QED  BY <1>1, <1>2, <2>1, LocalTypesFrom
  <1> QED
    BY <1>2, <1>3, <1>4, <1>5, <1>6, <1>7, OutsideStep DEF OutsidePcs, CheckpointSteps, InRestarting

LEMMA CheckpointKeeps ==
    ASSUME NEW base, Ready(base), NEW c \in Conns, Checkpoint(c)
    PROVE  Reached(base)
  <1>1. /\ LockInv /\ LogTypes /\ ConnType(c) /\ NatMarks /\ HeldAt(c) /\ OneCheckpointer
    BY ReadyParts
  <1>2. PICK m, auto : /\ StartCheckpoint(c, m, auto) /\ c \in Checkpointers
                       /\ m \in Modes \/ m = "Passive"
                       /\ auto => m = "Passive"
                       /\ auto \in BOOLEAN
    BY DEF Checkpoint
  <1>3. /\ pc[c] \in {"idle", "auto"} /\ slot' = slot /\ txns' = txns /\ LogUntouched
        /\ snap' = snap /\ view' = view /\ cache' = cache /\ tx' = tx /\ pick' = pick
        /\ shared' = shared /\ (shared.nb < shared.max \/ RestartsLog(m))
    <2>1. pc[c] \in {"idle", "auto"} /\ (shared.max > shared.nb \/ RestartsLog(m))
      BY <1>2 DEF StartCheckpoint
    <2>2. shared.max \in Nat /\ shared.nb \in Nat
      BY <1>1, LogParts
    <2> QED  BY <1>2, <2>1, <2>2 DEF StartCheckpoint, files, ghosts, LogUntouched, EpochStep
  <1>4. ShapeAfter(c) /\ MarksKept
    BY <1>1, CheckpointShapes, StepKeepsMarks DEF CheckpointStep
  <1>5. LogTypes' /\ LogSame
    <2>1. txns' \in 0..MaxTxn /\ \A i \in 0..Slots : slot'[i].mark \in Nat
      BY <1>1, <1>3 DEF LogTypes, NatMarks
    <2> QED  BY <1>1, <1>3, <2>1, SameLogTypes
  <1>6. /\ pc'[c] = "guard"
        /\ ckpt'[c] = [NoCheckpoint EXCEPT !.mode = m, !.auto = auto, !.old = shared.nb]
    BY <1>1, <1>2 DEF StartCheckpoint, LockInv, LockTypes, PcTypes, CkptTypes
  <1>7. ckpt'[c].mode = m /\ ckpt'[c].old = shared.nb /\ ckpt'[c].max = 0 /\ ckpt'[c].scan = 1
    BY <1>6 DEF NoCheckpoint
  <1>8. PickInv(c)'
    BY <1>6, VoidParts
  <1>9. CkptInv(base, c)'
    <2>1. RestartsLog(m) => Writers \subseteq {c}
      BY <1>1, <1>2 DEF OneCheckpointer, RestartsLog
    <2>2. "guard" \in CheckpointSteps
      BY DEF CheckpointSteps
    <2> QED  BY <1>2, <1>3, <1>6, <1>7, <2>1, <2>2, CkptFrom
  <1>10. LocalTypes(c)'
    BY <1>1, <1>3, <1>7, LogParts, LocalTypesFrom
  <1>11. pc[c] \in OutsidePcs /\ pc'[c] \in OutsidePcs /\ pc[c] \notin CheckpointSteps
         /\ pc'[c] \in CheckpointSteps /\ ~InRestarting(c)
    BY <1>3, <1>6 DEF OutsidePcs, CheckpointSteps, InRestarting
  <1>12. ~tx'[c].vacuum
    BY <1>1, <1>3 DEF HeldAt
  <1> QED
    BY <1>3, <1>4, <1>5, <1>8, <1>9, <1>10, <1>11, <1>12, OutsideStep

LEMMA InsideStep ==
    ASSUME NEW base, Ready(base), NEW c \in Conns, CheckpointStep(c),
           pc[c] \in CheckpointSteps, pc'[c] \in CheckpointSteps,
           UNCHANGED <<snap, view, cache, tx, pick, txns>>, LogUntouched, NatMarks',
           ckpt'[c].old \in Nat /\ ckpt'[c].max \in Nat /\ ckpt'[c].scan \in Nat,
           InRestarting(c) => InRestarting(c)' \/ shared.epoch < shared'.epoch,
           CkptInv(base, c)'
    PROVE  Reached(base)
  <1>1. /\ LockInv /\ LogTypes /\ ConnType(c)
    BY ReadyParts
  <1>2. ShapeAfter(c) /\ MarksKept
    BY <1>1, CheckpointShapes, StepKeepsMarks
  <1>3. LogTypes' /\ LogSame
    <2>1. txns' \in 0..MaxTxn /\ \A i \in 0..Slots : slot'[i].mark \in Nat
      BY <1>1 DEF LogTypes, NatMarks
    <2> QED  BY <1>1, <2>1, SameLogTypes
  <1>4. PickInv(c)'
    BY VoidParts DEF CheckpointSteps
  <1>5. tx'[c] = tx[c] /\ pick'[c] = pick[c] /\ snap' = snap /\ view' = view /\ cache' = cache
    OBVIOUS
  <1>6. LocalTypes(c)'
    BY <1>1, <1>5, LocalTypesFrom
  <1>7. pc[c] \in OutsidePcs /\ pc'[c] \in OutsidePcs
    BY DEF OutsidePcs
  <1> QED  BY <1>2, <1>3, <1>4, <1>5, <1>6, <1>7, OutsideStep

(* What a checkpoint knows of itself between its guard and its publication. *)
LEMMA CkptParts ==
    ASSUME NEW base, Ready(base), NEW c \in Conns, pc[c] \in CheckpointSteps
    PROVE  /\ LockInv /\ LogTypes /\ NatMarks /\ HeldAt(c) /\ LogInv(base)
           /\ CkptRecord(ckpt[c]) /\ DOMAIN ckpt = Conns /\ DOMAIN pc = Conns
           /\ ckpt[c].old \in Nat /\ ckpt[c].max \in Nat /\ ckpt[c].scan \in Nat
           /\ c \in Checkpointers \union Vacuumers
           /\ CopyingAt(pc[c], ckpt[c].mode) =>
                /\ ckpt[c].old = shared.nb
                /\ shared.nb < shared.max \/ RestartsLog(ckpt[c].mode)
                /\ pc[c] # "guard" => Boundary(ckpt[c].max)
                /\ pc[c] \notin {"guard", "scan"} => Copied(base, c)
                /\ pc[c] \in {"finalize", "dbsync", "backfilled"} => ckpt[c].todo = {}
                /\ pc[c] \in {"dbsync", "backfilled"} => ckpt[c].max > ckpt[c].old
           /\ pc[c] \in {"scan", "backfill"} => ReadersAhead(c)
           /\ pc[c] \in {"truncate", "truncated"} => ckpt[c].mode = "Truncate"
           /\ pc[c] = "backfilled" => ~RestartsLog(ckpt[c].mode)
           /\ RestartsLog(ckpt[c].mode) =>
                /\ tx[c].vacuum \/ Writers \subseteq {c}
                /\ pc[c] \in {"finalize", "dbsync", "truncate", "truncated", "finish"} => shared.max = 0
  <1>1. /\ LockInv /\ LogTypes /\ NatMarks /\ HeldAt(c) /\ CkptInv(base, c) /\ ConnType(c) /\ LogInv(base)
    BY ReadyParts
  <1>2. CkptRecord(ckpt[c]) /\ DOMAIN ckpt = Conns /\ DOMAIN pc = Conns
    BY <1>1 DEF LockInv, LockTypes, CkptTypes, PcTypes
  <1>3. ckpt[c].old \in Nat /\ ckpt[c].max \in Nat /\ ckpt[c].scan \in Nat
    BY <1>1 DEF ConnType
  <1>4. Copying(c) <=> CopyingAt(pc[c], ckpt[c].mode)
    BY DEF Copying, CopyingAt
  <1>5. pc[c] \in {"scan", "backfill"} => ReadersAhead(c)
    BY <1>1 DEF CkptInv, ReadersAhead
  <1> QED  BY <1>1, <1>2, <1>3, <1>4, <1>5 DEF CkptInv

(* What was copied stays copied while the log does not change.              *)
LEMMA CopiedSame ==
    ASSUME NEW base, Ready(base), NEW c \in Conns, LogUntouched, LogTypes', LogSame,
           ckpt'[c].max = ckpt[c].max, ckpt'[c].old = ckpt[c].old, ckpt'[c].todo = ckpt[c].todo,
           NEW k, k = ckpt[c].max, Boundary(k)
    PROVE  Boundary(k)' /\ (Copied(base, c) => Copied(base, c)')
  <1>1. LogTypes /\ Grows /\ db' = db
    BY ReadyParts, SameLog DEF LogUntouched
  <1>2. Boundary(k)'
    BY <1>1, SameLog
  <1>3. Boundary(ckpt[c].max)
    BY DEF Boundary
  <1> QED  BY <1>1, <1>2, <1>3, CopiedKept

LEMMA AcquireGuardKeeps ==
    ASSUME NEW base, Ready(base), NEW c \in Conns, AcquireGuard(c)
    PROVE  Reached(base)
  <1>1. /\ pc[c] = "guard" /\ GuardFree(c) /\ slot' = [slot EXCEPT ![0] = Exclusive(@)]
        /\ UNCHANGED <<snap, view, cache, tx, pick, txns>> /\ LogUntouched /\ shared' = shared
        /\ guard' = guard /\ CheckpointStep(c)
    BY DEF AcquireGuard, files, ghosts, bounds, LogUntouched, EpochStep, CheckpointStep
  <1>2. /\ LockInv /\ LogTypes /\ NatMarks /\ HeldAt(c) /\ LogInv(base)
        /\ CkptRecord(ckpt[c]) /\ DOMAIN ckpt = Conns /\ DOMAIN pc = Conns
        /\ ckpt[c].old \in Nat /\ c \in Checkpointers \union Vacuumers
        /\ ckpt[c].old = shared.nb
        /\ shared.nb < shared.max \/ RestartsLog(ckpt[c].mode)
        /\ RestartsLog(ckpt[c].mode) => tx[c].vacuum \/ Writers \subseteq {c}
    BY <1>1, CkptParts DEF CheckpointSteps, CopyingAt
  <1>3. NatMarks'
    <2>1. 0 \in 0..Slots
      BY BoundsAssumption
    <2> QED  BY <1>1, <1>2, <2>1, MarkSteps
  <1>4. /\ pc' = [pc EXCEPT ![c] = "scan"]
        /\ ckpt' = [ckpt EXCEPT ![c].held = GuardKind(c), ![c].max = shared.max, ![c].scan = 1]
    BY DEF AcquireGuard
  <1>5. /\ pc'[c] = "scan" /\ ckpt'[c].max = shared.max /\ ckpt'[c].scan = 1
        /\ ckpt'[c].old = ckpt[c].old /\ ckpt'[c].mode = ckpt[c].mode
    BY <1>2, <1>4 DEF CkptRecord
  <1>6. LogTypes' /\ LogSame
    <2>1. txns' \in 0..MaxTxn /\ \A i \in 0..Slots : slot'[i].mark \in Nat
      BY <1>1, <1>2, <1>3 DEF LogTypes, NatMarks
    <2> QED  BY <1>1, <1>2, <2>1, SameLogTypes
  <1>7. ReadersAhead(c)'
    <2>1. ReadHolders(0) = {}
      <3>1. slot[0].readers = 0 /\ ReadMarkWord(0)
        BY <1>1, <1>2, BoundsAssumption DEF GuardFree, Free, LockInv, ReadMarkWords
      <3>2. ReadHolders(0) \subseteq Conns
        BY DEF ReadHolders
      <3> QED  BY <3>1, <3>2, EmptyCount DEF ReadMarkWord
    <2>2. \A d \in Conns : guard'[d] # 0 /\ guard'[d] \in Nat
      BY <1>1, <1>2, <2>1, BoundsAssumption DEF ReadHolders, LockInv, LockTypes, PcTypes, NO_LOCK_HELD
    <2> QED  BY <1>5, <2>2 DEF ReadersAhead
  <1>8. CkptInv(base, c)'
    <2>1. PICK k : k = shared.max
      OBVIOUS
    <2>2. Boundary(k)'
      BY <1>2, <1>6, <2>1, SameLog DEF LogInv
    <2>3. "scan" \in CheckpointSteps /\ tx'[c] = tx[c]
      BY <1>1 DEF CheckpointSteps
    <2> QED  BY <1>1, <1>2, <1>5, <1>7, <2>1, <2>2, <2>3, CkptFrom
  <1>9. ckpt'[c].old \in Nat /\ ckpt'[c].max \in Nat /\ ckpt'[c].scan \in Nat
    BY <1>2, <1>5, LogParts
  <1>10. pc[c] \in CheckpointSteps /\ pc'[c] \in CheckpointSteps /\ ~InRestarting(c)
    BY <1>1, <1>5 DEF CheckpointSteps, InRestarting
  <1> QED  BY <1>1, <1>3, <1>8, <1>9, <1>10, InsideStep

(* One slot of determine_max_safe_checkpoint_frame: the new bound, and the   *)
(* readers it is not above.                                                 *)
LEMMA ScannedMark ==
    ASSUME NEW base, Ready(base), NEW c \in Conns, ScanMark(c)
    PROVE  \E m \in Nat : /\ ckpt' = [ckpt EXCEPT ![c].scan = ckpt[c].scan + 1, ![c].max = m]
                          /\ Boundary(m) /\ m <= ckpt[c].max
                          /\ \A d \in Conns : pc[d] = "read" /\ guard[d] < ckpt[c].scan + 1 => m <= snap[d].max
                          /\ NatMarks'
  <1>1. PICK i, m : i = ckpt[c].scan /\ m = ckpt[c].max
    OBVIOUS
  <1> DEFINE Bounds(k) == /\ ckpt' = [ckpt EXCEPT ![c].scan = i + 1, ![c].max = k]
                          /\ Boundary(k) /\ k <= m
                          /\ \A d \in Conns : pc[d] = "read" /\ guard[d] < i + 1 => k <= snap[d].max
                          /\ NatMarks'
  <1> SUFFICES \E k \in Nat : Bounds(k)
    BY <1>1
  <1>2. /\ pc[c] = "scan" /\ i \in Marks
        /\ \/ /\ slot[i].mark < m /\ Free(slot[i])
              /\ \E k : (k = m \/ k = READMARK_NOT_USED) /\ slot' = [slot EXCEPT ![i].mark = k]
              /\ ckpt' = [ckpt EXCEPT ![c].scan = i + 1]
           \/ /\ slot[i].mark < m /\ ~Free(slot[i]) /\ slot' = slot
              /\ ckpt' = [ckpt EXCEPT ![c].scan = i + 1, ![c].max = slot[i].mark]
           \/ /\ ~(slot[i].mark < m) /\ slot' = slot
              /\ ckpt' = [ckpt EXCEPT ![c].scan = i + 1]
    BY <1>1 DEF ScanMark, Movable
  <1>3. /\ LockInv /\ LogTypes /\ NatMarks /\ CkptRecord(ckpt[c]) /\ DOMAIN ckpt = Conns
        /\ m \in Nat /\ Boundary(m) /\ ReadersAhead(c)
    <2>1. /\ LockInv /\ LogTypes /\ NatMarks /\ CkptRecord(ckpt[c]) /\ DOMAIN ckpt = Conns
          /\ m \in Nat /\ Boundary(ckpt[c].max) /\ ReadersAhead(c)
      BY <1>1, <1>2, CkptParts DEF CheckpointSteps, CopyingAt
    <2> QED  BY <1>1, <2>1
  <1>4. i \in 0..Slots /\ i \in Nat /\ slot[i].mark \in Nat
    BY <1>2, <1>3 DEF Marks, NatMarks
  <1>5. \A d \in Conns : guard[d] \in Nat /\ snap[d].max \in Nat
    BY <1>3, BoundsAssumption DEF LockInv, LockTypes, PcTypes, NO_LOCK_HELD, Ready, ConnTypes, Snapshots
  <1>6. \A d \in Conns : pc[d] = "read" /\ guard[d] < i => m <= snap[d].max
    BY <1>1, <1>2, <1>3 DEF ReadersAhead
  <1>7. \A d \in Conns : pc[d] = "read" /\ guard[d] = i => slot[i].mark <= snap[d].max
    <2>1. \A d \in Conns : ReadInv(base, d)
      BY DEF Ready, WalInvOver, ConnInv
    <2> QED  BY <1>2, <2>1 DEF ReadInv, Looking, ViewMax
  <1>8. CASE slot[i].mark < m /\ ~Free(slot[i])
    <2>1. slot' = slot /\ ckpt' = [ckpt EXCEPT ![c].scan = i + 1, ![c].max = slot[i].mark]
      BY <1>2, <1>8
    <2>2. shared.max > 0
      BY <1>3, <1>4, <1>8, LogParts DEF Boundary
    <2>3. Boundary(slot[i].mark)
      BY <1>2, <1>8, <2>2, TakenMark
    <2>4. \A d \in Conns : pc[d] = "read" /\ guard[d] < i + 1 => slot[i].mark <= snap[d].max
      <3> SUFFICES ASSUME NEW d \in Conns, pc[d] = "read", guard[d] < i + 1
                   PROVE  slot[i].mark <= snap[d].max
        OBVIOUS
      <3>1. CASE guard[d] < i
        BY <1>3, <1>4, <1>5, <1>6, <1>8, <3>1
      <3>2. CASE guard[d] = i
        BY <1>7, <3>2
      <3> QED  BY <1>4, <1>5, <3>1, <3>2
    <2>5. NatMarks'
      BY <1>3, <2>1, MarkSteps
    <2>6. slot[i].mark <= m
      BY <1>3, <1>4, <1>8
    <2>7. Bounds(slot[i].mark)
      BY <2>1, <2>3, <2>4, <2>5, <2>6
    <2> HIDE DEF Bounds
    <2> QED  BY <1>4, <2>7
  <1>9. CASE ~(slot[i].mark < m /\ ~Free(slot[i]))
    <2>1. ckpt' = [ckpt EXCEPT ![c].scan = i + 1]
      BY <1>2, <1>9
    <2>2. ckpt' = [ckpt EXCEPT ![c].scan = i + 1, ![c].max = m]
      BY <1>1, <1>3, <2>1 DEF CkptRecord
    <2>3. NatMarks'
      <3>1. CASE slot' = slot
        BY <1>3, <3>1, MarkSteps
      <3>2. CASE \E k : (k = m \/ k = READMARK_NOT_USED) /\ slot' = [slot EXCEPT ![i].mark = k]
        <4>1. READMARK_NOT_USED \in Nat
          BY <1>3, MarkSteps
        <4> QED  BY <1>3, <1>4, <3>2, <4>1, MarkSteps
      <3> QED  BY <1>2, <1>9, <3>1, <3>2
    <2>4. \A d \in Conns : pc[d] = "read" /\ guard[d] < i + 1 => m <= snap[d].max
      <3> SUFFICES ASSUME NEW d \in Conns, pc[d] = "read", guard[d] < i + 1
                   PROVE  m <= snap[d].max
        OBVIOUS
      <3>1. CASE guard[d] < i
        BY <1>6, <3>1
      <3>2. CASE guard[d] = i
        <4>1. ~Free(slot[i])
          <5>1. slot[i].readers > 0
            BY <1>2, <1>3, <3>2, GuardedSlot, BoundsAssumption DEF Marks, NO_LOCK_HELD
          <5>2. slot[i].readers \in Nat
            BY <1>3, <1>4, SlotShape
          <5> QED  BY <5>1, <5>2 DEF Free
        <4> QED  BY <1>3, <1>4, <1>5, <1>7, <1>9, <3>2, <4>1
      <3> QED  BY <1>4, <1>5, <3>1, <3>2
    <2>5. m <= m
      BY <1>3
    <2>6. Bounds(m)
      BY <1>3, <2>2, <2>3, <2>4, <2>5
    <2> HIDE DEF Bounds
    <2> QED  BY <1>3, <2>6
  <1> QED  BY <1>8, <1>9

LEMMA ScanMarkKeeps ==
    ASSUME NEW base, Ready(base), NEW c \in Conns, ScanMark(c)
    PROVE  Reached(base)
  <1>1. /\ pc[c] = "scan" /\ UNCHANGED <<snap, view, cache, tx, pick, txns>> /\ LogUntouched
        /\ shared' = shared /\ guard' = guard /\ pc' = pc /\ CheckpointStep(c)
    BY DEF ScanMark, files, ghosts, bounds, LogUntouched, EpochStep, CheckpointStep
  <1>2. /\ LockInv /\ LogTypes /\ LogInv(base)
        /\ CkptRecord(ckpt[c]) /\ DOMAIN ckpt = Conns
        /\ ckpt[c].old \in Nat /\ ckpt[c].scan \in Nat /\ c \in Checkpointers \union Vacuumers
        /\ ckpt[c].old = shared.nb
        /\ shared.nb < shared.max \/ RestartsLog(ckpt[c].mode)
        /\ RestartsLog(ckpt[c].mode) => tx[c].vacuum \/ Writers \subseteq {c}
    BY <1>1, CkptParts DEF CheckpointSteps, CopyingAt
  <1>3. PICK m \in Nat : /\ ckpt' = [ckpt EXCEPT ![c].scan = ckpt[c].scan + 1, ![c].max = m]
                         /\ Boundary(m) /\ m <= ckpt[c].max
                         /\ \A d \in Conns : pc[d] = "read" /\ guard[d] < ckpt[c].scan + 1 => m <= snap[d].max
                         /\ NatMarks'
    BY ScannedMark
  <1>4. /\ ckpt'[c].max = m /\ ckpt'[c].scan = ckpt[c].scan + 1
        /\ ckpt'[c].old = ckpt[c].old /\ ckpt'[c].mode = ckpt[c].mode
    BY <1>2, <1>3 DEF CkptRecord
  <1>5. LogTypes' /\ LogSame
    <2>1. txns' \in 0..MaxTxn /\ \A i \in 0..Slots : slot'[i].mark \in Nat
      BY <1>1, <1>2, <1>3 DEF LogTypes, NatMarks
    <2> QED  BY <1>1, <1>2, <2>1, SameLogTypes
  <1>6. ReadersAhead(c)'
    BY <1>1, <1>3, <1>4 DEF ReadersAhead
  <1>7. CkptInv(base, c)'
    <2>1. Boundary(m)'
      BY <1>2, <1>3, <1>5, SameLog
    <2>2. "scan" \in CheckpointSteps /\ tx'[c] = tx[c] /\ pc'[c] = "scan"
      BY <1>1 DEF CheckpointSteps
    <2> QED  BY <1>1, <1>2, <1>4, <1>6, <2>1, <2>2, CkptFrom
  <1>8. ckpt'[c].old \in Nat /\ ckpt'[c].max \in Nat /\ ckpt'[c].scan \in Nat
    BY <1>2, <1>4
  <1>9. pc[c] \in CheckpointSteps /\ pc'[c] \in CheckpointSteps /\ ~InRestarting(c)
    BY <1>1 DEF CheckpointSteps, InRestarting
  <1> QED  BY <1>1, <1>3, <1>7, <1>8, <1>9, InsideStep

LEMMA ListFramesKeeps ==
    ASSUME NEW base, Ready(base), NEW c \in Conns, ListFrames(c)
    PROVE  Reached(base)
  <1>1. /\ pc[c] = "scan" /\ UNCHANGED <<snap, view, cache, tx, pick, txns>> /\ LogUntouched
        /\ shared' = shared /\ guard' = guard /\ pc' = [pc EXCEPT ![c] = "backfill"]
        /\ slot' = slot /\ ckpt[c].scan > Slots /\ CheckpointStep(c)
    BY DEF ListFrames, files, ghosts, bounds, LogUntouched, EpochStep, CheckpointStep
  <1>2. /\ LockInv /\ LogTypes /\ LogInv(base) /\ NatMarks
        /\ CkptRecord(ckpt[c]) /\ DOMAIN ckpt = Conns /\ DOMAIN pc = Conns
        /\ ckpt[c].old \in Nat /\ ckpt[c].max \in Nat /\ ckpt[c].scan \in Nat
        /\ c \in Checkpointers \union Vacuumers
        /\ ckpt[c].old = shared.nb /\ Boundary(ckpt[c].max) /\ ReadersAhead(c)
        /\ shared.nb < shared.max \/ RestartsLog(ckpt[c].mode)
        /\ RestartsLog(ckpt[c].mode) => tx[c].vacuum \/ Writers \subseteq {c}
    BY <1>1, CkptParts DEF CheckpointSteps, CopyingAt
  <1>3. PICK old \in Nat, m \in Nat : old = ckpt[c].old /\ m = ckpt[c].max
    BY <1>2
  <1> DEFINE latest == [p \in Pages |-> LatestFrame(frame_cache, p, old + 1, m)]
             todo == {<<p, latest[p]>> : p \in {q \in Pages : latest[q] # 0}}
  <1>4. ckpt' = [ckpt EXCEPT ![c].scan = 1, ![c].todo = todo]
    BY <1>3 DEF ListFrames
  <1>5. \A p \in Pages : latest[p] = IF LatestOf(frame_cache[p], m) > old
                                     THEN LatestOf(frame_cache[p], m) ELSE 0
    <2> SUFFICES ASSUME NEW p \in Pages
                 PROVE  latest[p] = IF LatestOf(frame_cache[p], m) > old
                                    THEN LatestOf(frame_cache[p], m) ELSE 0
      OBVIOUS
    <2>1. PICK s : s = frame_cache[p]
      OBVIOUS
    <2>2. s \in Seq(FrameNumber) /\ InOrderAt(s, old)
      BY <1>2, <1>3, <2>1, LogParts DEF LogInv, Boundary
    <2>3. LatestBetween(s, old, m) = IF LatestOf(s, m) > old THEN LatestOf(s, m) ELSE 0
      BY <2>2, LatestSplit
    <2>4. latest[p] = LatestBetween(s, old, m)
      BY <2>1, LatestFrameBetween
    <2> QED  BY <2>1, <2>3, <2>4
  <1>6. \A t : t \in todo <=> \E p \in Pages : t = <<p, LatestOf(frame_cache[p], m)>>
                                               /\ LatestOf(frame_cache[p], m) > old
    <2>1. \A p \in Pages : latest[p] # 0 <=> LatestOf(frame_cache[p], m) > old
      BY <1>5
    <2>2. \A t : t \in todo <=> \E p \in Pages : latest[p] # 0 /\ t = <<p, latest[p]>>
      OBVIOUS
    <2> HIDE DEF latest, todo
    <2> QED  BY <1>5, <2>1, <2>2
  <1> HIDE DEF latest, todo
  <1>7. /\ ckpt'[c].max = m /\ ckpt'[c].scan = 1 /\ ckpt'[c].old = old /\ ckpt'[c].todo = todo
        /\ ckpt'[c].mode = ckpt[c].mode /\ pc'[c] = "backfill"
    BY <1>1, <1>2, <1>3, <1>4 DEF CkptRecord
  <1>8. NatMarks'
    BY <1>1, <1>2, MarkSteps
  <1>9. LogTypes' /\ LogSame
    <2>1. txns' \in 0..MaxTxn /\ \A i \in 0..Slots : slot'[i].mark \in Nat
      BY <1>1, <1>2, <1>8 DEF LogTypes, NatMarks
    <2> QED  BY <1>1, <1>2, <2>1, SameLogTypes
  <1>10. Copied(base, c)'
    <2>1. frame_cache' = frame_cache
      BY <1>1 DEF LogUntouched
    <2>2. (\A p \in Pages : LET f == LatestOf(frame_cache[p], ckpt[c].max) IN
            f > ckpt[c].old => <<p, f>> \in ckpt[c].todo \/ db[p] = ImageAt(base, ckpt[c].max)[p])'
      BY <1>6, <1>7, <2>1
    <2>3. (\A t \in ckpt[c].todo : \E p \in Pages : LET f == LatestOf(frame_cache[p], ckpt[c].max) IN
            t = <<p, f>> /\ f > ckpt[c].old)'
      BY <1>6, <1>7, <2>1
    <2> QED  BY <2>2, <2>3 DEF Copied
  <1>11. ReadersAhead(c)'
    <2> SUFFICES ASSUME NEW d \in Conns, pc'[d] = "read"
                 PROVE  m <= snap'[d].max
      BY <1>7 DEF ReadersAhead
    <2>1. pc[d] = "read"
      BY <1>1, <1>2, <1>7
    <2>2. guard[d] \in 0..Slots
      <3>1. HeldAt(d)
        BY <1>2 DEF LockInv, HeldByPc
      <3> QED  BY <1>2, <2>1, <3>1, GuardedSlot DEF HeldAt
    <2>3. guard[d] < ckpt[c].scan
      BY <1>1, <1>2, <2>2, BoundsAssumption
    <2> QED  BY <1>1, <1>2, <1>3, <2>1, <2>3 DEF ReadersAhead
  <1>12. CkptInv(base, c)'
    <2>1. Boundary(m)'
      BY <1>2, <1>3, <1>9, SameLog
    <2>2. "backfill" \in CheckpointSteps /\ tx'[c] = tx[c]
      BY <1>1 DEF CheckpointSteps
    <2> QED  BY <1>1, <1>2, <1>3, <1>7, <1>10, <1>11, <2>1, <2>2, CkptFrom
  <1>13. ckpt'[c].old \in Nat /\ ckpt'[c].max \in Nat /\ ckpt'[c].scan \in Nat
    BY <1>7
  <1>14. pc[c] \in CheckpointSteps /\ pc'[c] \in CheckpointSteps /\ ~InRestarting(c)
    BY <1>1, <1>7 DEF CheckpointSteps, InRestarting
  <1> QED  BY <1>1, <1>8, <1>12, <1>13, <1>14, InsideStep

LEMMA ResultKeeps ==
    ASSUME NEW base, Ready(base), NEW c \in Conns, DetermineResult(c), ~EndCheckpoint(c),
           ~RestartsLog(ckpt[c].mode)
    PROVE  Reached(base)
  <1>1. /\ pc[c] = "backfill" /\ UNCHANGED <<snap, view, cache, tx, pick, txns>> /\ LogUntouched
        /\ shared' = shared /\ pc' = [pc EXCEPT ![c] = "finalize"] /\ ckpt[c].todo = {}
        /\ slot' = slot /\ CheckpointStep(c)
        /\ \E a : ckpt' = [ckpt EXCEPT ![c].all = a]
    BY DEF DetermineResult, files, ghosts, bounds, LogUntouched, EpochStep, CheckpointStep
  <1>2. /\ LockInv /\ LogTypes /\ LogInv(base) /\ NatMarks
        /\ CkptRecord(ckpt[c]) /\ DOMAIN ckpt = Conns /\ DOMAIN pc = Conns
        /\ ckpt[c].old \in Nat /\ ckpt[c].max \in Nat /\ ckpt[c].scan \in Nat
        /\ c \in Checkpointers \union Vacuumers
        /\ ckpt[c].old = shared.nb /\ Boundary(ckpt[c].max) /\ Copied(base, c)
        /\ shared.nb < shared.max
    BY <1>1, CkptParts DEF CheckpointSteps, CopyingAt
  <1>3. PICK old \in Nat, m \in Nat : old = ckpt[c].old /\ m = ckpt[c].max
    BY <1>2
  <1>4. /\ ckpt'[c].max = m /\ ckpt'[c].old = old /\ ckpt'[c].todo = ckpt[c].todo
        /\ ckpt'[c].mode = ckpt[c].mode /\ ckpt'[c].scan = ckpt[c].scan /\ pc'[c] = "finalize"
    BY <1>1, <1>2, <1>3 DEF CkptRecord
  <1>5. NatMarks'
    BY <1>1, <1>2, MarkSteps
  <1>6. LogTypes' /\ LogSame
    <2>1. txns' \in 0..MaxTxn /\ \A i \in 0..Slots : slot'[i].mark \in Nat
      BY <1>1, <1>2, <1>5 DEF LogTypes, NatMarks
    <2> QED  BY <1>1, <1>2, <2>1, SameLogTypes
  <1>7. Boundary(m)' /\ Copied(base, c)'
    BY <1>1, <1>2, <1>3, <1>4, <1>6, CopiedSame
  <1>8. CkptInv(base, c)'
    <2>1. "finalize" \in CheckpointSteps
      BY DEF CheckpointSteps
    <2> QED  BY <1>1, <1>2, <1>3, <1>4, <1>7, <2>1, CkptFrom
  <1>9. ckpt'[c].old \in Nat /\ ckpt'[c].max \in Nat /\ ckpt'[c].scan \in Nat
    BY <1>2, <1>4
  <1>10. pc[c] \in CheckpointSteps /\ pc'[c] \in CheckpointSteps /\ ~InRestarting(c)
    BY <1>1, <1>4 DEF CheckpointSteps, InRestarting
  <1> QED  BY <1>1, <1>5, <1>8, <1>9, <1>10, InsideStep

LEMMA FinalizeKeeps ==
    ASSUME NEW base, Ready(base), NEW c \in Conns, FinalizeWal(c)
    PROVE  Reached(base)
  <1>1. /\ pc[c] = "finalize" /\ UNCHANGED <<snap, view, cache, tx, pick, txns>> /\ LogUntouched
        /\ shared' = [shared EXCEPT !.epoch = @ + 1] /\ CheckpointStep(c)
        /\ ckpt' = ckpt \/ ckpt' = [ckpt EXCEPT ![c].held = "none"]
    BY DEF FinalizeWal, files, ghosts, bounds, LogUntouched, EpochStep, CheckpointStep
  <1>2. PICK q : /\ pc' = [pc EXCEPT ![c] = q]
                 /\ \/ ckpt[c].mode = "Truncate" /\ q \in {"truncate", "dbsync"}
                    \/ ckpt[c].mode # "Truncate" /\ q = "finish"
                    \/ ckpt[c].mode # "Truncate" /\ q = "dbsync" /\ ckpt[c].max > ckpt[c].old
    <2> DEFINE mode == ckpt[c].mode
               copied == ckpt[c].max > ckpt[c].old
    <2>1. pc' = [pc EXCEPT ![c] =
            CASE mode = "Truncate" -> IF SyncMode = "Off" /\ ~tx[c].vacuum THEN "truncate" ELSE "dbsync"
              [] mode # "Truncate" /\ (~copied \/ SyncMode = "Off") -> "finish"
              [] OTHER -> "dbsync"]
      BY DEF FinalizeWal
    <2>2. CASE mode = "Truncate"
      <3>1. \/ pc' = [pc EXCEPT ![c] = "truncate"] \/ pc' = [pc EXCEPT ![c] = "dbsync"]
        BY <2>1, <2>2
      <3> QED  BY <2>2, <3>1
    <2>3. CASE mode # "Truncate" /\ (~copied \/ SyncMode = "Off")
      <3>1. pc' = [pc EXCEPT ![c] = "finish"]
        BY <2>1, <2>3
      <3> QED  BY <2>3, <3>1
    <2>4. CASE mode # "Truncate" /\ ~(~copied \/ SyncMode = "Off")
      <3>1. pc' = [pc EXCEPT ![c] = "dbsync"]
        BY <2>1, <2>4
      <3> QED  BY <2>4, <3>1
    <2> QED  BY <2>2, <2>3, <2>4
  <1>3. /\ LockInv /\ LogTypes /\ LogInv(base) /\ NatMarks
        /\ CkptRecord(ckpt[c]) /\ DOMAIN ckpt = Conns /\ DOMAIN pc = Conns
        /\ ckpt[c].old \in Nat /\ ckpt[c].max \in Nat /\ ckpt[c].scan \in Nat
        /\ c \in Checkpointers \union Vacuumers
        /\ ~RestartsLog(ckpt[c].mode) =>
             /\ ckpt[c].old = shared.nb /\ Boundary(ckpt[c].max) /\ Copied(base, c)
             /\ shared.nb < shared.max /\ ckpt[c].todo = {}
        /\ RestartsLog(ckpt[c].mode) => (tx[c].vacuum \/ Writers \subseteq {c}) /\ shared.max = 0
    BY <1>1, CkptParts DEF CheckpointSteps, CopyingAt
  <1>4. PICK old, m, mode : /\ old = ckpt[c].old /\ m = ckpt[c].max /\ mode = ckpt[c].mode
                          /\ old \in Nat /\ m \in Nat
    BY <1>3
  <1>5. /\ ckpt'[c].max = m /\ ckpt'[c].old = old /\ ckpt'[c].todo = ckpt[c].todo
        /\ ckpt'[c].mode = mode /\ ckpt'[c].scan = ckpt[c].scan /\ pc'[c] = q
    BY <1>1, <1>2, <1>3, <1>4 DEF CkptRecord
  <1>6. NatMarks'
    <2>1. /\ DOMAIN slot = 0..Slots /\ \A i \in 0..Slots : SlotRecord(slot[i]) /\ slot[i].mark \in Nat
      BY <1>3, SlotShape DEF NatMarks
    <2>2. \A i \in 0..Slots : slot'[i] = slot[i] \/ slot'[i] = Unlock(slot[i])
      BY DEF FinalizeWal
    <2>3. \A i \in 0..Slots : Unlock(slot[i]).mark = slot[i].mark
      BY <2>1, LockedMark
    <2> QED  BY <2>1, <2>2, <2>3 DEF NatMarks
  <1>7. LogTypes' /\ LogSame
    <2>1. txns' \in 0..MaxTxn /\ \A i \in 0..Slots : slot'[i].mark \in Nat
      BY <1>1, <1>3, <1>6 DEF LogTypes, NatMarks
    <2> QED  BY <1>1, <1>3, <2>1, SameLogTypes
  <1>8. ~RestartsLog(mode) => Boundary(m)' /\ Copied(base, c)'
    BY <1>1, <1>3, <1>4, <1>5, <1>7, CopiedSame
  <1>9. shared'.nb = shared.nb /\ shared'.max = shared.max /\ tx'[c] = tx[c]
    BY <1>1, <1>7 DEF LogSame
  <1>10. q \in CheckpointSteps /\ q \in {"truncate", "dbsync", "finish"}
         /\ (q = "truncate" => mode = "Truncate") /\ (mode = "Truncate" => RestartsLog(mode))
         /\ (q = "dbsync" /\ ~RestartsLog(mode) => m > old)
    BY <1>2, <1>4 DEF CheckpointSteps, RestartsLog
  <1>11. CkptInv(base, c)'
    <2>1. CopyingAt(q, mode) => q = "dbsync" /\ ~RestartsLog(mode)
      BY <1>10 DEF CopyingAt
    <2>2. CopyingAt(q, mode) =>
             /\ old = shared'.nb /\ (shared'.nb < shared'.max \/ RestartsLog(mode))
             /\ q # "guard" => Boundary(m)'
             /\ q \notin {"guard", "scan"} => Copied(base, c)'
             /\ q \in {"finalize", "dbsync", "backfilled"} => ckpt'[c].todo = {}
             /\ q \in {"dbsync", "backfilled"} => m > old
      BY <1>3, <1>4, <1>5, <1>8, <1>9, <1>10, <2>1
    <2> QED  BY <1>3, <1>4, <1>5, <1>9, <1>10, <2>2, CkptFrom
  <1>12. ckpt'[c].old \in Nat /\ ckpt'[c].max \in Nat /\ ckpt'[c].scan \in Nat
    BY <1>3, <1>4, <1>5
  <1>13. shared.epoch < shared'.epoch
    BY <1>1, <1>3 DEF LogTypes
  <1>14. pc[c] \in CheckpointSteps /\ pc'[c] \in CheckpointSteps
    BY <1>1, <1>5, <1>10 DEF CheckpointSteps
  <1> QED  BY <1>1, <1>6, <1>11, <1>12, <1>13, <1>14, InsideStep

LEMMA SyncKeeps ==
    ASSUME NEW base, Ready(base), NEW c \in Conns, SyncDbFile(c) \/ SyncTruncatedWal(c)
    PROVE  Reached(base)
  <1>1. /\ UNCHANGED <<snap, view, cache, tx, pick, txns, ckpt, slot>> /\ LogUntouched
        /\ shared' = shared /\ CheckpointStep(c)
    BY DEF SyncDbFile, SyncTruncatedWal, files, ghosts, bounds, LogUntouched, EpochStep, CheckpointStep
  <1>2. PICK q : /\ pc' = [pc EXCEPT ![c] = q]
                 /\ \/ pc[c] = "dbsync" /\ ckpt[c].mode = "Truncate" /\ q = "truncate"
                    \/ pc[c] = "dbsync" /\ ckpt[c].mode = "Restart" /\ q = "finish"
                    \/ pc[c] = "dbsync" /\ ~RestartsLog(ckpt[c].mode) /\ q = "backfilled"
                    \/ pc[c] = "truncated" /\ q = "finish"
    <2>1. CASE SyncTruncatedWal(c)
      BY <2>1 DEF SyncTruncatedWal
    <2>2. CASE SyncDbFile(c)
      <3>1. pc' = [pc EXCEPT ![c] = CASE ckpt[c].mode = "Truncate" -> "truncate"
                                      [] ckpt[c].mode = "Restart" -> "finish"
                                      [] OTHER -> "backfilled"] /\ pc[c] = "dbsync"
        BY <2>2 DEF SyncDbFile
      <3>2. CASE ckpt[c].mode = "Truncate"
        BY <3>1, <3>2
      <3>3. CASE ckpt[c].mode = "Restart"
        BY <3>1, <3>3
      <3>4. CASE ~RestartsLog(ckpt[c].mode)
        BY <3>1, <3>4 DEF RestartsLog
      <3> QED  BY <3>2, <3>3, <3>4 DEF RestartsLog
    <2> QED  BY <2>1, <2>2
  <1>3. /\ LockInv /\ LogTypes /\ LogInv(base) /\ NatMarks /\ DOMAIN pc = Conns
        /\ ckpt[c].old \in Nat /\ ckpt[c].max \in Nat /\ ckpt[c].scan \in Nat
        /\ c \in Checkpointers \union Vacuumers
        /\ ~RestartsLog(ckpt[c].mode) /\ pc[c] = "dbsync" =>
             /\ ckpt[c].old = shared.nb /\ Boundary(ckpt[c].max) /\ Copied(base, c)
             /\ shared.nb < shared.max /\ ckpt[c].todo = {} /\ ckpt[c].max > ckpt[c].old
        /\ RestartsLog(ckpt[c].mode) => (tx[c].vacuum \/ Writers \subseteq {c}) /\ shared.max = 0
        /\ pc[c] = "truncated" => ckpt[c].mode = "Truncate"
    BY <1>2, CkptParts DEF CheckpointSteps, CopyingAt
  <1>4. PICK old, m, mode : /\ old = ckpt[c].old /\ m = ckpt[c].max /\ mode = ckpt[c].mode
                          /\ old \in Nat /\ m \in Nat
    BY <1>3
  <1>5. /\ ckpt'[c].max = m /\ ckpt'[c].old = old /\ ckpt'[c].todo = ckpt[c].todo
        /\ ckpt'[c].mode = mode /\ ckpt'[c].scan = ckpt[c].scan /\ pc'[c] = q
    BY <1>1, <1>2, <1>3, <1>4
  <1>6. NatMarks'
    BY <1>1, <1>3, MarkSteps
  <1>7. LogTypes' /\ LogSame
    <2>1. txns' \in 0..MaxTxn /\ \A i \in 0..Slots : slot'[i].mark \in Nat
      BY <1>1, <1>3, <1>6 DEF LogTypes, NatMarks
    <2> QED  BY <1>1, <1>3, <2>1, SameLogTypes
  <1>8. ~RestartsLog(mode) /\ pc[c] = "dbsync" => Boundary(m)' /\ Copied(base, c)'
    BY <1>1, <1>3, <1>4, <1>5, <1>7, CopiedSame
  <1>9. q \in CheckpointSteps /\ q \in {"truncate", "backfilled", "finish"}
        /\ (q = "truncate" => mode = "Truncate")
        /\ (q = "backfilled" => ~RestartsLog(mode) /\ pc[c] = "dbsync")
    BY <1>2, <1>4 DEF CheckpointSteps, RestartsLog
  <1>10. CkptInv(base, c)'
    <2>1. CopyingAt(q, mode) => q = "backfilled"
      BY <1>9 DEF CopyingAt
    <2>2. CopyingAt(q, mode) =>
             /\ old = shared'.nb /\ (shared'.nb < shared'.max \/ RestartsLog(mode))
             /\ q # "guard" => Boundary(m)'
             /\ q \notin {"guard", "scan"} => Copied(base, c)'
             /\ q \in {"finalize", "dbsync", "backfilled"} => ckpt'[c].todo = {}
             /\ q \in {"dbsync", "backfilled"} => m > old
      BY <1>1, <1>3, <1>4, <1>5, <1>8, <1>9, <2>1
    <2> QED  BY <1>1, <1>3, <1>4, <1>5, <1>9, <2>2, CkptFrom
  <1>11. ckpt'[c].old \in Nat /\ ckpt'[c].max \in Nat /\ ckpt'[c].scan \in Nat
    BY <1>3, <1>4, <1>5
  <1>12. pc[c] \in CheckpointSteps /\ pc'[c] \in CheckpointSteps /\ ~InRestarting(c)
    BY <1>2, <1>5, <1>9 DEF CheckpointSteps, InRestarting
  <1> QED  BY <1>1, <1>6, <1>10, <1>11, <1>12, InsideStep

-----------------------------------------------------------------------------
(* Steps of a transaction that leave the log as it is.                      *)

Moves(c) == ShapeAfter(c) /\ MarksKept /\ SnapStep(c) /\ CacheStep(c) /\ ViewStep(c) /\ LocalTypes(c)'

LEMMA MovesParts ==
    ASSUME NEW base, Ready(base), NEW c \in Conns, LogTypes', LogSame, Moves(c)
    PROVE  ConnTypes' /\ ConnsKept(c)
  <1>1. LogTypes /\ ConnTypes /\ HistoryStep /\ Local(c)
    BY ReadyParts, SameLog DEF Moves, ShapeAfter
  <1> QED  BY <1>1, ConnsFrom DEF Moves

LEMMA ActorStep ==
    ASSUME NEW base, Ready(base), NEW c \in Conns, LogTypes', LogSame, Moves(c), Stays(c),
           WriteInv(c)', ReadInv(base, c)', PickInv(c)', CkptInv(base, c)', CacheInv(c)'
    PROVE  Reached(base)
  <1>1. ConnTypes' /\ ConnsKept(c) /\ MarksKept
    BY MovesParts DEF Moves
  <1>2. ConnInv(base, c)'
    BY DEF ConnInv
  <1>3. WalInvOver(base)'
    BY <1>1, <1>2, ReadyParts, SameStep
  <1> QED  BY <1>1, <1>3 DEF Reached

LEMMA LogTyped ==
    ASSUME LogTypes, LogUntouched, txns' \in 0..MaxTxn, NatMarks'
    PROVE  LogTypes' /\ LogSame
  BY SameLogTypes DEF NatMarks

LEMMA LogSees ==
    ASSUME NEW base, Ready(base), LogSame, NEW k, NEW n, k = shared.max, n = shared.nb
    PROVE  Sees(base, n, k, Len(history))'
  <1>1. LogTypes /\ LogInv(base)
    BY DEF Ready, WalInvOver
  <1>2. PICK v : v = Len(history)
    OBVIOUS
  <1>3. Sees(base, n, k, v)
    BY <1>1, <1>2, LogParts DEF Sees, LogInv
  <1>4. Sees(base, n, k, v)'
    BY <1>1, <1>3, SameLog
  <1>5. Len(history') = v
    BY <1>2 DEF LogSame
  <1> QED  BY <1>4, <1>5 DEF Sees

LEMMA LockMarkKeeps ==
    ASSUME NEW base, Ready(base), NEW c \in Conns, LockMark(c)
    PROVE  Reached(base)
  <1>1. /\ LockInv /\ LogTypes /\ ConnTypes /\ LogInv(base) /\ ConnType(c) /\ NatMarks /\ HeldAt(c)
        /\ WriteInv(c) /\ PickInv(c) /\ Tags(c) /\ Content(c)
        /\ snap[c] \in Snapshots /\ cache[c] \in [Pages -> CachedPages]
    BY ReadyParts
  <1>2. /\ pc[c] = "lock" /\ Validated(c) /\ txns' = txns /\ LogUntouched /\ shared' = shared
        /\ slot' = [slot EXCEPT ![pick[c].slot] = Shared(@)]
        /\ guard' = [guard EXCEPT ![c] = pick[c].slot]
        /\ snap' = [snap EXCEPT ![c] = pick[c].snap]
        /\ cache' = IF snap[c] # pick[c].snap THEN [cache EXCEPT ![c] = EmptyCache] ELSE cache
        /\ view' = [view EXCEPT ![c] = Len(history)]
        /\ pick' = [pick EXCEPT ![c] = NoPick]
        /\ pc' = [pc EXCEPT ![c] = "read"] /\ UNCHANGED <<tx, ckpt>>
    BY DEF LockMark, files, bounds, LogUntouched, EpochStep
  <1>3. ShapeAfter(c) /\ MarksKept
    BY <1>1, ReadShapes, StepKeepsMarks DEF Transaction
  <1>4. PICK s, m : s = pick[c].slot /\ m = pick[c].mark
    OBVIOUS
  <1>5. s \in 0..Slots /\ Snapshot(shared) = pick[c].snap /\ (s # 0 => slot[s].mark = m)
    <2>1. pick[c].slot \in 0..NO_LOCK_HELD /\ pick[c].slot # NO_LOCK_HELD
      BY <1>1, <1>2 DEF Validated, LockInv, LockTypes, PickTypes
    <2> QED  BY <1>2, <1>4, <2>1, BoundsAssumption DEF Validated, NO_LOCK_HELD
  <1>6. NatMarks' /\ \A j \in Marks : slot'[j].mark = slot[j].mark
    BY <1>1, <1>2, <1>4, <1>5, MarkSteps
  <1>7. LogTypes' /\ LogSame
    <2>1. txns' \in 0..MaxTxn
      BY <1>1, <1>2 DEF LogTypes
    <2> QED  BY <1>1, <1>2, <1>6, <2>1, LogTyped
  <1>8. /\ pc'[c] = "read" /\ guard'[c] = s /\ snap'[c] = Snapshot(shared) /\ view'[c] = Len(history)
        /\ pick'[c] = NoPick /\ tx'[c] = tx[c] /\ ckpt'[c] = ckpt[c]
    <2>1. Conns = DOMAIN pc /\ Conns = DOMAIN guard /\ Conns = DOMAIN snap /\ Conns = DOMAIN view
          /\ Conns = DOMAIN pick
      BY <1>1 DEF LockInv, LockTypes, PcTypes, PickTypes, ConnTypes
    <2> QED  BY <1>2, <1>4, <1>5, <2>1
  <1>9. LocalTypes(c)'
    BY <1>1, <1>8, LocalTypesFrom
  <1>10. Moves(c)
    <2>1. SnapStep(c)
      <3>1. pick[c].snap \in Snapshots
        BY <1>1 DEF ConnType
      <3> QED  BY <1>2, <3>1 DEF SnapStep
    <2>2. CacheStep(c)
      <3>1. EmptyCache \in [Pages -> CachedPages]
        BY DEF EmptyCache, NoPage, CachedPages
      <3> QED  BY <1>2, <3>1 DEF CacheStep
    <2>3. ViewStep(c)
      <3>1. Len(history) \in 1..Len(history)
        BY <1>1, LogParts
      <3> QED  BY <1>2, <3>1 DEF ViewStep
    <2> QED  BY <1>3, <1>9, <2>1, <2>2, <2>3 DEF Moves
  <1>11. ConnsKept(c)
    BY <1>7, <1>10, MovesParts
  <1>12. /\ Snapshot(shared).max = shared.max /\ Snapshot(shared).nb = shared.nb
         /\ Snapshot(shared).seq = shared.seq /\ Snapshot(shared).tx = shared.tx
    BY <1>1, SnapshotOf
  <1>13. Stays(c)
    <2>1. shared.max <= snap'[c].max
      BY <1>1, <1>8, <1>12, LogParts
    <2> QED  BY <1>2, <2>1 DEF Stays, Unpublished, InRestarting
  <1>14. tx[c].dirty = {} /\ ~tx[c].vacuum
    BY <1>1, <1>2 DEF WriteInv, HeldAt, WriteSteps, CheckpointSteps
  <1>15. WriteInv(c)'
    BY <1>8, <1>14, VoidParts DEF Unpublished
  <1>16. PickInv(c)' /\ CkptInv(base, c)'
    BY <1>8, <1>14, VoidParts DEF CheckpointSteps, WriteSteps
  <1>17. ReadInv(base, c)'
    <2>1. PICK n, k, v : n = shared.nb /\ k = shared.max /\ v = Len(history)
      OBVIOUS
    <2>2. Sees(base, n, k, v)'
      <3>1. Sees(base, n, k, Len(history))' /\ Len(history') = v
        BY <1>7, <2>1, LogSees DEF LogSame
      <3> QED  BY <3>1 DEF Sees
    <2>3. s \in Marks => slot'[s].mark = m /\ Boundary(m)' /\ m <= k
      <3> SUFFICES ASSUME s \in Marks
                   PROVE  slot'[s].mark = m /\ Boundary(m)' /\ m <= k
        OBVIOUS
      <3>1. slot'[s].mark = m
        BY <1>5, <1>6 DEF Marks
      <3>2. Boundary(pick[c].mark) /\ pick[c].mark <= pick[c].snap.max
        BY <1>1, <1>2, <1>4, <1>5, <1>12 DEF PickInv
      <3>3. Boundary(m) /\ m <= k
        BY <1>4, <1>5, <1>12, <2>1, <3>2
      <3>4. Boundary(m)'
        BY <1>1, <1>7, <3>3, SameLog
      <3> QED  BY <3>1, <3>3, <3>4
    <2>4. /\ snap'[c].nb = n /\ snap'[c].max = k /\ snap'[c].tx = shared'.tx /\ shared'.nb = n
          /\ n \in Nat /\ shared'.tx \in Nat
      BY <1>1, <1>2, <1>8, <1>12, <2>1, LogParts
    <2>5. history'[v] = Last(history')
      BY <1>1, <1>7, <2>1, LogParts DEF LogSame
    <2>6. n <= shared'.nb /\ snap'[c].tx <= shared'.tx
      BY <2>4
    <2> QED  BY <1>8, <2>1, <2>2, <2>3, <2>4, <2>5, <2>6, ReadInvFrom
  <1>18. CacheInv(c)'
    <2>1. CASE snap[c] # pick[c].snap
      <3>1. cache'[c] = EmptyCache
        BY <1>1, <1>2, <2>1 DEF ConnTypes
      <3> QED  BY <1>8, <1>14, <3>1, EmptiedCache
    <2>2. CASE snap[c] = pick[c].snap
      <3>1. cache'[c] = cache[c] /\ snap[c].tx = shared.tx
        BY <1>2, <1>5, <1>12, <2>2
      <3>2. Tags(c)'
        BY <1>1, <1>7, <1>8, <1>11, <1>13, <3>1, SameTags DEF Unpublished
      <3>3. \A p \in Pages : cache[c][p].used => cache[c][p].ver = Last(history)[p]
        BY <1>1, <1>2, <1>14, <3>1 DEF Content, InTransaction, Unpublished
      <3>4. history'[view'[c]] = Last(history)
        BY <1>1, <1>7, <1>8, LogParts DEF LogSame
      <3>5. Content(c)'
        BY <1>8, <1>14, <3>1, <3>3, <3>4 DEF Content, InTransaction
      <3> QED  BY <3>2, <3>5 DEF CacheInv
    <2> QED  BY <2>1, <2>2
  <1> QED  BY <1>7, <1>10, <1>13, <1>15, <1>16, <1>17, <1>18, ActorStep

LEMMA RetainedSnap ==
    ASSUME LogTypes, NEW c \in Conns, NEW s \in Snapshots, s.tx <= shared.tx
    PROVE  /\ Retained(c, s) \in Snapshots /\ Retained(c, s).tx <= shared.tx
           /\ c \in Caching => Retained(c, s) = s
  <1>1. NoSnapshot \in Snapshots /\ NoSnapshot.tx = 0
    BY DEF NoSnapshot, Snapshots
  <1> QED  BY <1>1, LogParts DEF Retained

LEMMA EndReadKeeps ==
    ASSUME NEW base, Ready(base), NEW c \in Conns, EndRead(c) \/ EndCommit(c)
    PROVE  Reached(base)
  <1>1. /\ LockInv /\ LogTypes /\ ConnTypes /\ ConnType(c) /\ NatMarks /\ HeldAt(c)
        /\ WriteInv(c) /\ ReadInv(base, c) /\ Tags(c) /\ Content(c)
        /\ snap[c] \in Snapshots /\ snap[c].tx <= shared.tx
    BY ReadyParts
  <1>2. /\ pc[c] \in {"read", "committed"} /\ ~tx[c].vacuum /\ txns' = txns /\ LogUntouched
        /\ shared' = shared
        /\ slot' = [slot EXCEPT ![guard[c]] = Unlock(@)]
        /\ snap' = [snap EXCEPT ![c] = Retained(c, @)]
        /\ guard' = [guard EXCEPT ![c] = NO_LOCK_HELD]
        /\ view' = [view EXCEPT ![c] = 1] /\ cache' = cache /\ UNCHANGED <<pick, ckpt>>
        /\ \E q \in {"idle", "auto"} : pc' = [pc EXCEPT ![c] = q]
        /\ \/ tx' = tx /\ pc[c] = "read"
           \/ tx' = [tx EXCEPT ![c] = NoTx]
    BY <1>1 DEF EndRead, EndCommit, files, bounds, LogUntouched, EpochStep, HeldAt
  <1>3. ShapeAfter(c) /\ MarksKept
    BY <1>1, ReadShapes, WriteShapes, StepKeepsMarks DEF Transaction
  <1>4. guard[c] \in 0..Slots
    BY <1>1, <1>2, GuardedSlot DEF HeldAt, WriteSteps
  <1>5. NatMarks'
    BY <1>1, <1>2, <1>4, MarkSteps
  <1>6. LogTypes' /\ LogSame
    <2>1. txns' \in 0..MaxTxn
      BY <1>1, <1>2 DEF LogTypes
    <2> QED  BY <1>1, <1>2, <1>5, <2>1, LogTyped
  <1>7. PICK s : s = Retained(c, snap[c])
    OBVIOUS
  <1>8. s \in Snapshots /\ s.tx <= shared.tx /\ (c \in Caching => s = snap[c])
    BY <1>1, <1>7, RetainedSnap
  <1>9. /\ pc'[c] \in {"idle", "auto"} /\ guard'[c] = NO_LOCK_HELD /\ snap'[c] = s
        /\ pick'[c] = pick[c] /\ ckpt'[c] = ckpt[c]
        /\ \/ tx'[c] = tx[c] /\ pc[c] = "read"
           \/ tx'[c] = NoTx
    <2>1. Conns = DOMAIN pc /\ Conns = DOMAIN guard /\ Conns = DOMAIN snap /\ Conns = DOMAIN tx
      BY <1>1 DEF LockInv, LockTypes, PcTypes, TxTypes, ConnTypes
    <2> QED  BY <1>2, <1>7, <2>1
  <1>10. LocalTypes(c)'
    BY <1>1, <1>9, LocalTypesFrom
  <1>11. Moves(c)
    <2>1. SnapStep(c)
      BY <1>2, <1>7, <1>8 DEF SnapStep
    <2>2. 1 \in 1..Len(history)
      BY <1>1, LogParts
    <2>3. ViewStep(c) /\ CacheStep(c)
      BY <1>2, <2>2 DEF ViewStep, CacheStep
    <2> QED  BY <1>3, <1>10, <2>1, <2>3 DEF Moves
  <1>12. ConnsKept(c)
    BY <1>6, <1>11, MovesParts
  <1>13. Stays(c)
    BY <1>2, <1>9 DEF Stays, Unpublished, InRestarting
  <1>14. tx'[c].dirty = {} /\ ~tx'[c].vacuum
    <2>1. pc[c] = "read" => tx[c].dirty = {}
      BY <1>1 DEF WriteInv, WriteSteps, CheckpointSteps
    <2>2. NoTx.dirty = {} /\ ~NoTx.vacuum
      BY DEF NoTx
    <2> QED  BY <1>2, <1>9, <2>1, <2>2
  <1>15. WriteInv(c)'
    BY <1>9, <1>14, VoidParts DEF Unpublished
  <1>16. ReadInv(base, c)'
    <2>1. guard'[c] \notin Marks
      BY <1>9, BoundsAssumption DEF NO_LOCK_HELD, Marks
    <2>2. pc'[c] \notin Looking /\ snap'[c].tx <= shared'.tx
      BY <1>2, <1>8, <1>9 DEF Looking
    <2> QED  BY <2>1, <2>2, VoidParts
  <1>17. PickInv(c)' /\ CkptInv(base, c)'
    BY <1>3, <1>9, NotVacuumOutside DEF ShapeAfter
  <1>18. CacheInv(c)'
    <2>1. cache'[c] = cache[c]
      BY <1>2
    <2>2. Tags(c)'
      BY <1>1, <1>6, <1>9, <1>12, <1>13, <2>1, SameTags DEF Unpublished
    <2>3. ASSUME NEW p \in Pages, cache[c][p].used, s.tx = shared.tx
          PROVE  cache[c][p].ver = Last(history)[p]
      <3>1. c \in Caching /\ snap[c].tx = shared.tx
        <4>1. c \in Caching
          BY <1>1, <2>3 DEF Tags
        <4> QED  BY <1>8, <2>3, <4>1
      <3>2. CASE pc[c] = "read"
        <4>1. tx[c].dirty = {} /\ history[view[c]] = Last(history)
          BY <1>1, <3>1, <3>2 DEF WriteInv, ReadInv, WriteSteps, CheckpointSteps
        <4> QED  BY <1>1, <1>2, <2>3, <3>2, <4>1 DEF Content, InTransaction
      <3>3. CASE pc[c] = "committed"
        BY <1>1, <1>2, <2>3, <3>1, <3>3 DEF Content, InTransaction, Unpublished
      <3> QED  BY <1>2, <3>2, <3>3
    <2>4. history' = history /\ shared'.tx = shared.tx
      BY <1>6 DEF LogSame
    <2>5. Content(c)'
      BY <1>9, <1>14, <2>1, <2>3, <2>4 DEF Content, InTransaction, Unpublished, CheckpointSteps
    <2> QED  BY <2>2, <2>5 DEF CacheInv
  <1> QED  BY <1>6, <1>11, <1>13, <1>15, <1>16, <1>17, <1>18, ActorStep

(* A transaction goes on looking up pages through the same frames.          *)
LEMMA ReadStay ==
    ASSUME NEW base, Ready(base), NEW c \in Conns, LogTypes', LogSame, MarksKept,
           snap'[c] = snap[c], guard'[c] = guard[c], view'[c] = view[c],
           pc[c] \in Looking \/ pc'[c] \notin Looking,
           pc'[c] = "read" => pc[c] = "read",
           pc[c] = "read" /\ pc'[c] # "read" => snap[c].max = shared.max
    PROVE  ReadInv(base, c)'
  <1>1. LockInv /\ LogTypes /\ ReadInv(base, c) /\ snap[c] \in Snapshots
    BY ReadyParts
  <1>2. PICK q, g, nb, v : q = pc'[c] /\ g = guard[c] /\ nb = snap[c].nb /\ v = view[c]
    OBVIOUS
  <1>3. PICK m : m = IF q = "read" THEN snap[c].max ELSE shared.max
    OBVIOUS
  <1>4. shared'.max = shared.max /\ shared'.nb = shared.nb /\ shared'.tx = shared.tx /\ history' = history
    BY DEF LogSame
  <1>5. PICK k : g \in Marks => k = slot[g].mark
    OBVIOUS
  <1>6. g \in Marks => slot'[g].mark = k /\ Boundary(k)'
    <2> SUFFICES ASSUME g \in Marks
                 PROVE  slot'[g].mark = k /\ Boundary(k)'
      OBVIOUS
    <2>1. slot[g].readers > 0
      BY <1>1, <1>2, GuardedSlot, BoundsAssumption DEF Marks, NO_LOCK_HELD
    <2>2. slot'[g].mark = k
      BY <1>5, <2>1 DEF MarksKept
    <2>3. Boundary(k)
      BY <1>1, <1>2, <1>5 DEF ReadInv
    <2> QED  BY <1>1, <2>2, <2>3, SameLog
  <1>7. q \in Looking => /\ Sees(base, nb, m, v)' /\ nb <= shared'.nb
                         /\ g \in Marks => k <= m
    <2> SUFFICES ASSUME q \in Looking
                 PROVE  /\ Sees(base, nb, m, v)' /\ nb <= shared'.nb
                        /\ g \in Marks => k <= m
      OBVIOUS
    <2>1. pc[c] \in Looking
      BY <1>2
    <2>2. ViewMax(c) = m
      BY <1>2, <1>3, <2>1 DEF ViewMax
    <2>3. Sees(base, nb, m, v) /\ nb <= shared.nb /\ (g \in Marks => k <= m)
      BY <1>1, <1>2, <1>5, <2>1, <2>2 DEF ReadInv
    <2> QED  BY <1>1, <1>4, <2>3, SameLog
  <1>8. q = "read" /\ snap[c].tx = shared.tx => history[v] = Last(history)
    BY <1>1, <1>2 DEF ReadInv
  <1>9. snap[c].tx <= shared.tx
    BY <1>1 DEF ReadInv
  <1> QED  BY <1>2, <1>3, <1>4, <1>6, <1>7, <1>8, <1>9, ReadInvFrom

(* A step of a transaction on its pc (and its tx record) alone.             *)
LEMMA ProceedStep ==
    ASSUME NEW base, Ready(base), NEW c \in Conns, LogTypes', LogSame, ShapeAfter(c), MarksKept,
           snap' = snap, view' = view, cache' = cache, guard' = guard, pick' = pick,
           LocalTypes(c)', Stays(c), WriteInv(c)', CkptInv(base, c)',
           pc[c] \in InTransaction, pc'[c] \in Unpublished,
           pc[c] \in Looking \/ pc'[c] \notin Looking,
           pc[c] = "read" => snap[c].max = shared.max,
           tx'[c].dirty = tx[c].dirty, tx'[c].vacuum = tx[c].vacuum, tx'[c].spilled = tx[c].spilled,
           tx'[c].id = tx[c].id \/ tx[c].dirty = {},
           pc[c] \in Unpublished \/ tx[c].spilled = {}
    PROVE  Reached(base)
  <1>1. LogTypes /\ ConnTypes /\ Tags(c) /\ Content(c)
    BY ReadyParts
  <1>2. Moves(c)
    BY DEF Moves, SnapStep, CacheStep, ViewStep
  <1>3. ConnsKept(c)
    BY <1>2, MovesParts
  <1>4. pc'[c] # "read" /\ pc'[c] \notin {"choose", "lock"} /\ pc'[c] \in InTransaction
        /\ pc'[c] \notin CheckpointSteps
    BY DEF Unpublished, InTransaction, CheckpointSteps
  <1>5. ReadInv(base, c)'
    BY <1>4, ReadStay
  <1>6. PickInv(c)'
    BY <1>4, VoidParts
  <1>7. Tags(c)'
    BY <1>1, <1>3, SameTags
  <1>8. Content(c)'
    <2>1. history' = history /\ cache'[c] = cache[c] /\ view'[c] = view[c]
      BY DEF LogSame
    <2> QED  BY <1>1, <1>4, <2>1 DEF Content
  <1> QED  BY <1>2, <1>5, <1>6, <1>7, <1>8, ActorStep DEF CacheInv

LEMMA BeginWriteKeeps ==
    ASSUME NEW base, Ready(base), NEW c \in Conns, BeginWriteTx(c)
    PROVE  Reached(base)
  <1>1. /\ LockInv /\ LogTypes /\ ConnTypes /\ ConnType(c) /\ NatMarks /\ HeldAt(c)
        /\ WriteInv(c) /\ ReadInv(base, c) /\ LogInv(base)
    BY ReadyParts
  <1>2. /\ pc[c] = "read" /\ c \in Writers /\ txns < MaxTxn /\ Snapshot(shared) = snap[c]
        /\ txns' = txns + 1 /\ LogUntouched /\ shared' = shared /\ slot' = slot
        /\ tx' = [tx EXCEPT ![c] = [NoTx EXCEPT !.id = txns + 1]]
        /\ pc' = [pc EXCEPT ![c] = "restart"]
        /\ snap' = snap /\ view' = view /\ cache' = cache /\ guard' = guard /\ pick' = pick /\ ckpt' = ckpt
    BY DEF BeginWriteTx, files, ghosts, LogUntouched, EpochStep
  <1>3. ShapeAfter(c) /\ MarksKept
    BY <1>1, WriteShapes, StepKeepsMarks DEF Transaction
  <1>4. txns' \in 0..MaxTxn /\ txns + 1 \in 0..MaxTxn
    BY <1>1, <1>2, BoundsAssumption DEF LogTypes
  <1>5. LogTypes' /\ LogSame
    BY <1>1, <1>2, <1>4, MarkSteps, LogTyped
  <1>6. /\ pc'[c] = "restart" /\ tx'[c].id = txns + 1 /\ tx'[c].dirty = {} /\ tx'[c].spilled = {}
        /\ ~tx'[c].vacuum /\ tx'[c].vacuum = FALSE
    <2>1. tx'[c] = [NoTx EXCEPT !.id = txns + 1] /\ pc'[c] = "restart"
      BY <1>1, <1>2 DEF LockInv, LockTypes, PcTypes, TxTypes
    <2> QED  BY <2>1 DEF NoTx
  <1>7. tx[c].dirty = {} /\ tx[c].spilled = {} /\ ~tx[c].vacuum /\ tx[c].vacuum = FALSE
    <2>1. tx[c].dirty = {} /\ ~tx[c].vacuum
      BY <1>1, <1>2 DEF WriteInv, HeldAt, WriteSteps, CheckpointSteps
    <2>2. tx[c].spilled = {} /\ tx[c].vacuum \in BOOLEAN
      BY <1>1, <2>1 DEF ConnType, LockInv, LockTypes, TxTypes
    <2> QED  BY <2>1, <2>2
  <1>8. LocalTypes(c)'
    <2>1. pick'[c] = pick[c] /\ ckpt'[c] = ckpt[c]
      BY <1>2
    <2> QED  BY <1>1, <1>4, <1>6, <2>1, LocalTypesFrom
  <1>9. Stays(c)
    BY <1>2, <1>6 DEF Stays, Unpublished, InRestarting
  <1>10. snap[c].max = shared.max /\ snap[c].tx = shared.tx
    BY <1>1, <1>2, SnapshotOf
  <1>11. WriteInv(c)'
    <2>1. Cardinality({}) = 0
      BY FS_EmptySet
    <2>2. shared.max \in Nat /\ shared.max <= Len(wal.frames) /\ history[view[c]] = Last(history)
      BY <1>1, <1>2, <1>10, LogParts DEF LogInv, ReadInv
    <2>3. snap'[c] = snap[c] /\ shared' = shared /\ wal' = wal /\ history' = history /\ view'[c] = view[c]
      BY <1>2 DEF LogUntouched
    <2>4. snap[c].max = shared.max + Cardinality({})
      BY <1>10, <2>1, <2>2
    <2> QED  BY <1>6, <1>10, <2>2, <2>3, <2>4 DEF WriteInv, WriteSteps
  <1>12. CkptInv(base, c)'
    BY <1>2, <1>6, VoidParts DEF CheckpointSteps
  <1> QED
    BY <1>2, <1>3, <1>5, <1>6, <1>7, <1>8, <1>9, <1>10, <1>11, <1>12, ProceedStep
    DEF InTransaction, Unpublished, Looking

LEMMA ProceedKeeps ==
    ASSUME NEW base, Ready(base), NEW c \in Conns,
           \/ TryRestartLog(c) /\ shared' = shared
           \/ PrepareWal(c) /\ shared.init
           \/ SyncWal(c)
    PROVE  Reached(base)
  <1>1. /\ LockInv /\ LogTypes /\ ConnTypes /\ ConnType(c) /\ NatMarks /\ HeldAt(c)
        /\ WriteInv(c) /\ CkptInv(base, c)
    BY ReadyParts
  <1>2. /\ txns' = txns /\ LogUntouched /\ shared' = shared
        /\ snap' = snap /\ view' = view /\ cache' = cache /\ guard' = guard /\ pick' = pick
        /\ ckpt' = ckpt /\ tx' = tx
    <2>1. CASE TryRestartLog(c) /\ shared' = shared
      <3>1. shared.seq + 1 # shared.seq
        BY <1>1, LogParts
      <3>2. RestartedHeader(shared).seq = shared.seq + 1
            /\ [RestartedHeader(shared) EXCEPT !.epoch = @ + 1].seq = shared.seq + 1
        BY <1>1 DEF RestartedHeader, LogTypes
      <3>3. frame_cache' = frame_cache /\ snap' = snap
        BY <2>1, <3>1, <3>2 DEF TryRestartLog
      <3> QED  BY <2>1, <3>3 DEF TryRestartLog, files, ghosts, bounds, LogUntouched, EpochStep
    <2>2. CASE PrepareWal(c) /\ shared.init
      BY <2>2 DEF PrepareWal, ghosts, bounds, LogUntouched, EpochStep
    <2>3. CASE SyncWal(c)
      BY <2>3 DEF SyncWal, ghosts, bounds, LogUntouched, EpochStep
    <2> QED  BY <2>1, <2>2, <2>3
  <1>3. ShapeAfter(c) /\ MarksKept
    BY <1>1, WriteShapes, StepKeepsMarks DEF Transaction
  <1>4. NatMarks'
    <2>1. slot' = slot => NatMarks'
      BY <1>1, MarkSteps
    <2>2. slot' = ClearedPrefix => NatMarks'
      BY <1>1, MarkSteps DEF NatMarks
    <2>3. CASE TryRestartLog(c) /\ shared' = shared
      <3>1. shared.seq + 1 # shared.seq
        BY <1>1, LogParts
      <3>2. [RestartedHeader(shared) EXCEPT !.epoch = @ + 1].seq = shared.seq + 1
        BY <1>1 DEF RestartedHeader, LogTypes
      <3> QED  BY <2>1, <2>2, <2>3, <3>1, <3>2 DEF TryRestartLog
    <2>4. CASE PrepareWal(c) \/ SyncWal(c)
      BY <2>1, <2>4 DEF PrepareWal, SyncWal
    <2> QED  BY <2>3, <2>4
  <1>5. LogTypes' /\ LogSame
    <2>1. txns' \in 0..MaxTxn
      BY <1>1, <1>2 DEF LogTypes
    <2> QED  BY <1>1, <1>2, <1>4, <2>1, LogTyped
  <1>6. \/ pc[c] = "restart" /\ pc'[c] = "write"
        \/ pc[c] = "write" /\ pc'[c] = "frames" /\ shared.init
        \/ pc[c] = "walsync" /\ pc'[c] = "publish"
    BY <1>1 DEF TryRestartLog, PrepareWal, SyncWal, LockInv, LockTypes, PcTypes
  <1>7. LocalTypes(c)'
    BY <1>1, <1>2, LocalTypesFrom
  <1>8. Stays(c)
    BY <1>2, <1>6 DEF Stays, Unpublished, InRestarting
  <1>9. WriteInv(c)'
    <2>1. /\ snap'[c] = snap[c] /\ shared' = shared /\ wal' = wal /\ history' = history
          /\ view'[c] = view[c] /\ frame_cache' = frame_cache /\ tx'[c] = tx[c]
          /\ CommitFrames(c)' = CommitFrames(c)
      BY <1>2 DEF LogUntouched, CommitFrames, DirtySeq
    <2> QED  BY <1>1, <1>6, <2>1 DEF WriteInv, Unpublished, WriteSteps, OwnFrame
  <1>10. CkptInv(base, c)'
    <2>1. pc[c] \in WriteSteps /\ pc'[c] \in WriteSteps /\ pc'[c] \notin CheckpointSteps /\ tx'[c] = tx[c]
          /\ pc'[c] # "vacuum"
      BY <1>2, <1>6 DEF WriteSteps, CheckpointSteps
    <2>2. /\ tx[c].vacuum => c \in Checkpointers \union Vacuumers
          /\ c \in Writers \/ tx[c].vacuum
      BY <1>1, <2>1 DEF CkptInv
    <2> QED  BY <2>1, <2>2, VoidParts
  <1>11. /\ pc[c] \in InTransaction /\ pc'[c] \in Unpublished /\ pc[c] \in Unpublished /\ pc[c] # "read"
         /\ pc[c] \in Looking \/ pc'[c] \notin Looking
    BY <1>6 DEF InTransaction, Unpublished, Looking
  <1> QED
    BY <1>2, <1>3, <1>5, <1>7, <1>8, <1>9, <1>10, <1>11, ProceedStep

-----------------------------------------------------------------------------
(* What a transaction's lookups find.                                       *)

LEMMA Spilled ==
    ASSUME NEW base, Ready(base), NEW c \in Conns
    PROVE  /\ IsFiniteSet(tx[c].spilled) /\ Cardinality(tx[c].spilled) \in Nat
           /\ IsFiniteSet(tx[c].dirty) /\ Cardinality(tx[c].dirty) \in Nat
  <1>1. tx[c].dirty \subseteq Pages /\ tx[c].spilled \subseteq tx[c].dirty
    BY ReadyParts DEF ConnType
  <1>2. IsFiniteSet(tx[c].dirty)
    BY <1>1, PagesAssumption, FS_Subset
  <1>3. IsFiniteSet(tx[c].spilled)
    BY <1>1, <1>2, FS_Subset
  <1> QED  BY <1>2, <1>3, FS_CardinalityType

(* Frames behind the published ones are the only writer's.                  *)
LEMMA NoOthersFrames ==
    ASSUME NEW base, Ready(base), NEW c \in Conns, c \in Writing, NEW p \in Pages, p \notin tx[c].spilled
    PROVE  \A i \in 1..Len(frame_cache[p]) : frame_cache[p][i] <= shared.max
  <1>1. LockInv /\ LogTypes /\ SpillInv
    BY ReadyParts
  <1>2. PICK s : s = frame_cache[p]
    OBVIOUS
  <1>3. s \in Seq(FrameNumber) /\ shared.max \in Nat
    BY <1>1, <1>2, LogParts
  <1>4. SUFFICES ASSUME NEW i \in 1..Len(s), s[i] > shared.max
                 PROVE  FALSE
    BY <1>2, <1>3 DEF FrameNumber
  <1>5. PICK d \in Conns : pc[d] \in Unpublished /\ p \in tx[d].spilled
    BY <1>1, <1>2, <1>4 DEF SpillInv
  <1>6. d \in Writing /\ AtMostOne(Writing)
    BY <1>1, <1>5 DEF Writing, Unpublished, WriteSteps, LockInv, LockWords
  <1> QED  BY <1>5, <1>6 DEF AtMostOne

LEMMA ReadIs ==
    ASSUME NEW base, Ready(base), NEW c \in Conns, pc[c] \in Looking, NEW p \in Pages,
           p \notin tx[c].spilled
    PROVE  \E f \in Nat : /\ f = FindFrame(c, p) /\ ReadContent(c, p) = history[view[c]][p]
                          /\ f # 0 => f <= shared.max /\ ReadContent(c, p) = FrameContent(wal, f, p)
  <1>1. /\ LockInv /\ LogTypes /\ LogInv(base) /\ ReadInv(base, c) /\ WriteInv(c) /\ snap[c] \in Snapshots
        /\ ConnType(c)
    BY ReadyParts
  <1>2. PICK s, nb, m, x : s = frame_cache[p] /\ nb = snap[c].nb /\ m = ViewMax(c) /\ x = snap[c].max
    OBVIOUS
  <1>3. /\ Sees(base, nb, m, view[c]) /\ nb \in Nat /\ x \in Nat /\ s \in Seq(FrameNumber)
        /\ shared.max \in Nat /\ shared.max <= Len(wal.frames)
    BY <1>1, <1>2, LogParts DEF ReadInv, Snapshots, LogInv
  <1>4. /\ Boundary(nb) /\ Boundary(m) /\ nb <= m /\ FileServes(base, nb, m)
        /\ ImageAt(base, m) = history[view[c]] /\ m \in Nat /\ m <= shared.max /\ InOrderAt(s, nb)
    BY <1>2, <1>3 DEF Sees, Boundary
  <1>5. LatestOf(s, x) = LatestOf(s, m)
    <2>1. CASE pc[c] = "read"
      BY <1>2, <2>1 DEF ViewMax
    <2>2. CASE pc[c] # "read"
      <3>1. m = shared.max /\ c \in Writing
        BY <1>2, <2>2 DEF ViewMax, Looking, Writing, WriteSteps
      <3>2. \A i \in 1..Len(s) : s[i] <= m
        BY <1>2, <3>1, NoOthersFrames
      <3>3. x = m + Cardinality(tx[c].spilled)
        BY <1>1, <1>2, <2>2, <3>1 DEF WriteInv, Looking
      <3>4. m <= x
        BY <1>3, <1>4, <3>3, Spilled
      <3>5. LatestOf(s, x) <= m
        <4>1. LatestOf(s, x) = 0 \/ \E i \in 1..Len(s) : LatestOf(s, x) = s[i]
          BY <1>3, LatestIs
        <4> QED  BY <1>3, <1>4, <3>2, <4>1
      <3> QED  BY <1>3, <1>4, <3>4, <3>5, LatestBelow
    <2> QED  BY <2>1, <2>2
  <1>6. PICK f : f = LatestFrame(frame_cache, p, nb + 1, m)
    OBVIOUS
  <1>7. FindFrame(c, p) = f
    <2>1. FindFrame(c, p) = LatestBetween(s, nb, x)
      BY <1>1, <1>2, FindFrameIs, LatestFrameBetween
    <2>2. f = LatestBetween(s, nb, m)
      BY <1>2, <1>6, LatestFrameBetween
    <2>3. LatestBetween(s, nb, x) = LatestBetween(s, nb, m)
      BY <1>3, <1>4, <1>5, LatestSplit
    <2> QED  BY <2>1, <2>2, <2>3
  <1>8. /\ ImageAt(base, m)[p] = IF f = 0 THEN db[p] ELSE FrameContent(wal, f, p)
        /\ f # 0 => f \in 1..m
    BY <1>1, <1>3, <1>4, <1>6, LookupIsImage
  <1>9. ReadContent(c, p) = IF f = 0 THEN db[p] ELSE FrameContent(wal, f, p)
    BY <1>7 DEF ReadContent
  <1>10. f \in Nat /\ (f # 0 => f <= shared.max)
    BY <1>3, <1>4, <1>8
  <1> QED  BY <1>4, <1>7, <1>8, <1>9, <1>10

LEMMA ReadOwn ==
    ASSUME NEW base, Ready(base), NEW c \in Conns, pc[c] \in {"restart", "write", "header"},
           NEW p \in Pages, p \in tx[c].spilled
    PROVE  ReadContent(c, p) = tx[c].id
  <1>1. /\ LogTypes /\ LogInv(base) /\ ReadInv(base, c) /\ WriteInv(c) /\ snap[c] \in Snapshots
    BY ReadyParts
  <1>2. PICK s, nb, x, n : s = frame_cache[p] /\ nb = snap[c].nb /\ x = snap[c].max /\ n = Len(s)
    OBVIOUS
  <1>3. /\ nb \in Nat /\ x \in Nat /\ s \in Seq(FrameNumber) /\ n \in Nat
        /\ shared.max \in Nat /\ Len(wal.frames) \in Nat /\ DOMAIN wal.frames = 1..Len(wal.frames)
    BY <1>1, <1>2, LogParts DEF Snapshots
  <1>4. Boundary(nb)
    BY <1>1, <1>2 DEF ReadInv, Looking, Sees
  <1>5. nb <= shared.max /\ InOrderAt(s, nb)
    BY <1>2, <1>4 DEF Boundary
  <1>6. /\ s # <<>> /\ s[n] \in shared.max + 1..shared.max + Cardinality(tx[c].spilled)
        /\ x = shared.max + Cardinality(tx[c].spilled) /\ x <= Len(wal.frames)
        /\ wal.frames[s[n]].page = p /\ wal.frames[s[n]].ver = tx[c].id
    BY <1>1, <1>2 DEF WriteInv, OwnFrame, Unpublished
  <1>7. PICK f : f = s[n]
    OBVIOUS
  <1>8. f \in shared.max + 1..x /\ f \in 1..x /\ f > nb /\ f \in 1..Len(wal.frames) /\ n \in 1..Len(s)
    <2>1. n # 0
      BY <1>2, <1>3, <1>6
    <2>2. f \in shared.max + 1..x /\ x <= Len(wal.frames)
      BY <1>6, <1>7
    <2> QED  BY <1>2, <1>3, <1>5, <2>1, <2>2
  <1>9. LatestOf(s, x) = f
    <2>1. \A j \in 1..Len(s) : j > n => s[j] > x
      BY <1>2, <1>3
    <2> QED  BY <1>3, <1>7, <1>8, <2>1, LatestUnique
  <1>10. FindFrame(c, p) = f
    <2>1. FindFrame(c, p) = LatestBetween(s, nb, x)
      BY <1>1, <1>2, FindFrameIs, LatestFrameBetween
    <2>2. LatestBetween(s, nb, x) = f
      BY <1>3, <1>5, <1>8, <1>9, LatestSplit
    <2> QED  BY <2>1, <2>2
  <1>11. f # 0 /\ FrameContent(wal, f, p) = tx[c].id
    BY <1>3, <1>6, <1>7, <1>8 DEF FrameContent
  <1> QED  BY <1>10, <1>11 DEF ReadContent

-----------------------------------------------------------------------------
(* Pages that enter the page cache.                                         *)

LEMMA CacheOne ==
    ASSUME ConnTypes, NEW c \in Conns, NEW p \in Pages, NEW x \in CachedPages,
           cache' = [cache EXCEPT ![c][p] = x]
    PROVE  /\ CacheStep(c) /\ cache'[c][p] = x
           /\ \A q \in Pages \ {p} : cache'[c][q] = cache[c][q]
  <1>1. cache \in [Conns -> [Pages -> CachedPages]] /\ cache[c] \in [Pages -> CachedPages]
    BY DEF ConnTypes
  <1>2. PICK y : y = [cache[c] EXCEPT ![p] = x]
    OBVIOUS
  <1>3. y \in [Pages -> CachedPages] /\ cache' = [cache EXCEPT ![c] = y]
    BY <1>1, <1>2
  <1>4. cache'[c] = y
    BY <1>1, <1>3
  <1> QED  BY <1>1, <1>2, <1>3, <1>4 DEF CacheStep

(* The tag of one page changes, nothing else that tags depend on does.      *)
LEMMA TagsOne ==
    ASSUME NEW c \in Conns, NEW p \in Pages, Tags(c), UNCHANGED <<shared, wal, pc, ckpt>>,
           tx'[c].spilled = tx[c].spilled,
           \A q \in Pages \ {p} : cache'[c][q] = cache[c][q],
           NEW pg, pg = cache'[c][p], c \in Caching, pg.epoch <= shared.epoch,
           ~pg.dirty /\ pg.epoch = shared.epoch /\ pg.frame # 0 =>
               pg.frame <= shared.max /\ pg.ver = FrameContent(wal, pg.frame, p),
           p \notin tx[c].spilled
    PROVE  Tags(c)'
  <1>1. Restarting' = Restarting
    BY DEF Restarting
  <1>2. \A q \in Pages \ {p} : LET qg == cache'[c][q] IN qg.used =>
        /\ c \in Caching /\ qg.epoch <= shared'.epoch
        /\ ~qg.dirty /\ qg.epoch = shared'.epoch /\ qg.frame # 0 =>
            \/ qg.frame <= shared'.max /\ qg.ver = FrameContent(wal', qg.frame, q)
            \/ pc'[c] \in Unpublished /\ q \in tx'[c].spilled
            \/ Restarting' # {}
        /\ pc'[c] \in Unpublished /\ q \in tx'[c].spilled => qg.frame > shared'.max
    BY <1>1 DEF Tags
  <1>3. LET qg == cache'[c][p] IN qg.used =>
        /\ c \in Caching /\ qg.epoch <= shared'.epoch
        /\ ~qg.dirty /\ qg.epoch = shared'.epoch /\ qg.frame # 0 =>
            \/ qg.frame <= shared'.max /\ qg.ver = FrameContent(wal', qg.frame, p)
            \/ pc'[c] \in Unpublished /\ p \in tx'[c].spilled
            \/ Restarting' # {}
        /\ pc'[c] \in Unpublished /\ p \in tx'[c].spilled => qg.frame > shared'.max
    OBVIOUS
  <1> QED  BY <1>2, <1>3 DEF Tags

LEMMA ReadPageKeeps ==
    ASSUME NEW base, Ready(base), NEW c \in Conns, NEW p \in Pages, ReadPage(c, p)
    PROVE  Reached(base)
  <1>1. /\ LockInv /\ LogTypes /\ ConnTypes /\ ConnType(c) /\ NatMarks
        /\ WriteInv(c) /\ CkptInv(base, c) /\ Tags(c) /\ Content(c) /\ cache[c] \in [Pages -> CachedPages]
    BY ReadyParts
  <1>2. /\ pc[c] \in {"read", "write"} /\ c \in Caching /\ ~cache[c][p].used
        /\ LogUntouched /\ shared' = shared /\ slot' = slot
        /\ UNCHANGED <<pc, snap, guard, pick, tx, ckpt, view, txns>>
    BY DEF ReadPage, files, ghosts, bounds, LogUntouched, EpochStep
  <1>3. ShapeAfter(c) /\ MarksKept
    BY <1>1, WriteShapes, StepKeepsMarks DEF Transaction
  <1>4. LogTypes' /\ LogSame
    <2>1. txns' \in 0..MaxTxn /\ NatMarks'
      BY <1>1, <1>2, MarkSteps DEF LogTypes
    <2> QED  BY <1>1, <1>2, <2>1, LogTyped
  <1>5. p \notin tx[c].spilled /\ (~tx[c].vacuum => p \notin tx[c].dirty)
    <2>1. ~tx[c].vacuum => p \notin tx[c].dirty
      BY <1>1, <1>2 DEF Content, InTransaction, Unpublished
    <2>2. tx[c].spilled \subseteq tx[c].dirty
      BY <1>1 DEF ConnType
    <2>3. tx[c].vacuum => tx[c].spilled = {}
      <3>1. CASE pc[c] = "write"
        BY <1>1, <3>1 DEF WriteInv, Unpublished
      <3>2. CASE pc[c] = "read"
        BY <1>1, <2>2, <3>2 DEF WriteInv, WriteSteps, CheckpointSteps
      <3> QED  BY <1>2, <3>1, <3>2
    <2> QED  BY <2>1, <2>2, <2>3
  <1>6. PICK v : v = ReadContent(c, p)
    OBVIOUS
  <1>7. PICK f \in Nat : /\ f = FindFrame(c, p) /\ v = history[view[c]][p]
                         /\ f # 0 => f <= shared.max /\ v = FrameContent(wal, f, p)
    BY <1>2, <1>5, <1>6, ReadIs DEF Looking
  <1>8. PICK x : x = [ver |-> v, frame |-> f, epoch |-> IF f = 0 THEN 0 ELSE shared.epoch,
                      dirty |-> FALSE, used |-> TRUE]
    OBVIOUS
  <1>9. cache' = [cache EXCEPT ![c][p] = x]
    BY <1>6, <1>7, <1>8 DEF ReadPage
  <1>10. x \in CachedPages /\ shared.epoch \in Nat
    <2>1. v \in Nat
      <3>1. history[view[c]] \in [Pages -> 0..MaxTxn]
        BY <1>1, LogParts DEF ConnType, Images
      <3> QED  BY <1>7, <3>1, BoundsAssumption
    <2>2. shared.epoch \in Nat
      BY <1>1, LogParts
    <2> QED  BY <1>8, <2>1, <2>2 DEF CachedPages
  <1>11. /\ CacheStep(c) /\ cache'[c][p] = x
         /\ \A q \in Pages \ {p} : cache'[c][q] = cache[c][q]
    BY <1>1, <1>9, <1>10, CacheOne
  <1>12. LocalTypes(c)'
    BY <1>1, <1>2, LocalTypesFrom
  <1>13. Moves(c)
    BY <1>2, <1>3, <1>11, <1>12 DEF Moves, SnapStep, ViewStep
  <1>14. Stays(c)
    BY <1>2 DEF Stays, Unpublished, InRestarting
  <1>15. WriteInv(c)'
    <2>1. /\ snap' = snap /\ shared' = shared /\ wal' = wal /\ history' = history
          /\ view' = view /\ frame_cache' = frame_cache /\ tx' = tx /\ pc' = pc
          /\ CommitFrames(c)' = CommitFrames(c)
      BY <1>2 DEF LogUntouched, CommitFrames, DirtySeq
    <2> QED  BY <1>1, <2>1 DEF WriteInv, OwnFrame
  <1>16. CkptInv(base, c)'
    <2>1. pc'[c] = pc[c] /\ pc'[c] \notin CheckpointSteps /\ tx'[c] = tx[c] /\ pc'[c] # "vacuum"
      BY <1>2 DEF CheckpointSteps
    <2>2. /\ tx[c].vacuum => c \in Checkpointers \union Vacuumers
          /\ pc[c] \in WriteSteps => c \in Writers \/ tx[c].vacuum
      BY <1>1 DEF CkptInv
    <2> QED  BY <2>1, <2>2, VoidParts
  <1>17. PickInv(c)'
    BY <1>2, VoidParts
  <1>18. ReadInv(base, c)'
    <2>1. pc'[c] = pc[c] /\ snap'[c] = snap[c] /\ guard'[c] = guard[c] /\ view'[c] = view[c]
          /\ pc[c] \in Looking
      BY <1>2 DEF Looking
    <2> QED  BY <1>3, <1>4, <2>1, ReadStay
  <1>19. CacheInv(c)'
    <2>1. Tags(c)'
      <3>1. x.epoch <= shared.epoch /\ x.dirty = FALSE /\ x.frame = f /\ x.ver = v
        BY <1>8, <1>10
      <3>2. wal' = wal /\ tx'[c].spilled = tx[c].spilled
        BY <1>2 DEF LogUntouched
      <3> QED  BY <1>1, <1>2, <1>5, <1>7, <1>11, <3>1, <3>2, TagsOne
    <2>2. Content(c)'
      <3>1. history' = history /\ view' = view /\ tx' = tx /\ pc' = pc /\ pc[c] \in InTransaction
            /\ pc[c] \notin CheckpointSteps /\ x.ver = v /\ x.used
        BY <1>2, <1>8 DEF LogUntouched, InTransaction, Unpublished, CheckpointSteps
      <3> QED  BY <1>1, <1>5, <1>7, <1>11, <3>1 DEF Content
    <2> QED  BY <2>1, <2>2 DEF CacheInv
  <1> QED  BY <1>4, <1>13, <1>14, <1>15, <1>16, <1>17, <1>18, <1>19, ActorStep

LEMMA ModifyKeeps ==
    ASSUME NEW base, Ready(base), ~Respill, NEW c \in Conns, NEW p \in Pages, Modify(c, p)
    PROVE  Reached(base)
  <1>1. /\ LockInv /\ LogTypes /\ ConnTypes /\ ConnType(c) /\ NatMarks
        /\ WriteInv(c) /\ CkptInv(base, c) /\ Tags(c) /\ Content(c) /\ cache[c] \in [Pages -> CachedPages]
    BY ReadyParts
  <1>2. /\ pc[c] = "write" /\ ~tx[c].vacuum /\ p \notin tx[c].dirty
        /\ tx' = [tx EXCEPT ![c].dirty = @ \union {p}, ![c].spilled = @ \ {p}]
        /\ LogUntouched /\ shared' = shared /\ slot' = slot
        /\ UNCHANGED <<pc, snap, guard, pick, ckpt, view, txns>>
    BY DEF Modify, files, ghosts, bounds, LogUntouched, EpochStep
  <1>3. ShapeAfter(c) /\ MarksKept
    BY <1>1, WriteShapes, StepKeepsMarks DEF Transaction
  <1>4. LogTypes' /\ LogSame
    <2>1. txns' \in 0..MaxTxn /\ NatMarks'
      BY <1>1, <1>2, MarkSteps DEF LogTypes
    <2> QED  BY <1>1, <1>2, <2>1, LogTyped
  <1>5. tx[c].spilled \subseteq tx[c].dirty /\ tx[c].dirty \subseteq Pages /\ tx[c].id \in 0..MaxTxn
    BY <1>1 DEF ConnType
  <1>6. /\ tx'[c].dirty = tx[c].dirty \union {p} /\ tx'[c].spilled = tx[c].spilled
        /\ tx'[c].id = tx[c].id /\ tx'[c].vacuum = tx[c].vacuum
    <2>1. TxRecord(tx[c]) /\ DOMAIN tx = Conns
      BY <1>1 DEF LockInv, LockTypes, TxTypes
    <2>2. tx[c].spilled \ {p} = tx[c].spilled
      BY <1>2, <1>5
    <2> QED  BY <1>2, <2>1, <2>2 DEF TxRecord
  <1>7. PICK x : x = [ver |-> tx[c].id, frame |-> TAG_UNSET, epoch |-> 0, dirty |-> TRUE, used |-> TRUE]
    OBVIOUS
  <1>8. cache' = IF c \in Caching THEN [cache EXCEPT ![c][p] = x] ELSE cache
    BY <1>7 DEF Modify
  <1>9. x \in CachedPages
    BY <1>5, <1>7, BoundsAssumption DEF CachedPages, TAG_UNSET
  <1>10. /\ CacheStep(c) /\ \A q \in Pages \ {p} : cache'[c][q] = cache[c][q]
         /\ c \in Caching => cache'[c][p] = x
         /\ c \notin Caching => cache' = cache
    <2>1. CASE c \in Caching
      <3>1. cache' = [cache EXCEPT ![c][p] = x]
        BY <1>8, <2>1
      <3>2. CacheStep(c) /\ cache'[c][p] = x /\ \A q \in Pages \ {p} : cache'[c][q] = cache[c][q]
        BY <1>1, <1>9, <3>1, CacheOne
      <3> QED  BY <2>1, <3>2
    <2>2. CASE c \notin Caching
      BY <1>8, <2>2 DEF CacheStep
    <2> QED  BY <2>1, <2>2
  <1>11. LocalTypes(c)'
    BY <1>1, <1>2, <1>5, <1>6, LocalTypesFrom
  <1>12. Moves(c)
    BY <1>2, <1>3, <1>10, <1>11 DEF Moves, SnapStep, ViewStep
  <1>13. Stays(c)
    BY <1>2, <1>6 DEF Stays, Unpublished, InRestarting
  <1>14. WriteInv(c)'
    <2>1. /\ snap' = snap /\ shared' = shared /\ wal' = wal /\ history' = history
          /\ view' = view /\ frame_cache' = frame_cache /\ pc' = pc
      BY <1>2 DEF LogUntouched
    <2> QED  BY <1>1, <1>2, <1>6, <2>1 DEF WriteInv, OwnFrame, Unpublished, WriteSteps
  <1>15. CkptInv(base, c)'
    <2>1. pc'[c] = pc[c] /\ pc'[c] \notin CheckpointSteps /\ pc'[c] # "vacuum"
      BY <1>2 DEF CheckpointSteps
    <2>2. /\ tx[c].vacuum => c \in Checkpointers \union Vacuumers
          /\ pc[c] \in WriteSteps => c \in Writers \/ tx[c].vacuum
      BY <1>1 DEF CkptInv
    <2> QED  BY <1>6, <2>1, <2>2, VoidParts
  <1>16. PickInv(c)'
    BY <1>2, VoidParts
  <1>17. ReadInv(base, c)'
    <2>1. pc'[c] = pc[c] /\ snap'[c] = snap[c] /\ guard'[c] = guard[c] /\ view'[c] = view[c]
          /\ pc[c] \in Looking
      BY <1>2 DEF Looking
    <2> QED  BY <1>3, <1>4, <2>1, ReadStay
  <1>18. CacheInv(c)'
    <2>1. Tags(c)'
      <3>1. CASE c \in Caching
        <4>1. x.epoch <= shared.epoch /\ x.dirty
          BY <1>1, <1>7, LogParts
        <4>2. wal' = wal /\ p \notin tx[c].spilled
          BY <1>2, <1>5 DEF LogUntouched
        <4> QED  BY <1>1, <1>2, <1>6, <1>10, <3>1, <4>1, <4>2, TagsOne
      <3>2. CASE c \notin Caching
        BY <1>1, <1>10, <3>2 DEF Tags
      <3> QED  BY <3>1, <3>2
    <2>2. Content(c)'
      <3>1. history' = history /\ view' = view /\ pc' = pc /\ pc[c] \in InTransaction
            /\ pc[c] \notin CheckpointSteps /\ x.ver = tx[c].id /\ x.used
        BY <1>2, <1>7 DEF LogUntouched, InTransaction, Unpublished, CheckpointSteps
      <3>2. c \notin Caching => \A q \in Pages : ~cache'[c][q].used
        BY <1>1, <1>10 DEF Tags
      <3>3. \A q \in Pages \ {p} : q \in tx'[c].dirty <=> q \in tx[c].dirty
        BY <1>6
      <3>4. ASSUME NEW q \in Pages
            PROVE  /\ q \in tx'[c].dirty /\ c \in Caching => cache'[c][q].used
                   /\ cache'[c][q].used => cache'[c][q].ver =
                         IF q \in tx'[c].dirty THEN tx'[c].id ELSE history'[view'[c]][q]
        <4>1. CASE q = p
          BY <1>6, <1>10, <3>1, <3>2, <4>1
        <4>2. CASE q # p
          <5>1. PICK g : g = cache[c][q]
            OBVIOUS
          <5>2. /\ q \in tx[c].dirty /\ c \in Caching => g.used
                /\ g.used => g.ver = IF q \in tx[c].dirty THEN tx[c].id ELSE history[view[c]][q]
            BY <1>1, <1>2, <3>1, <5>1 DEF Content
          <5>3. cache'[c][q] = g /\ (q \in tx'[c].dirty <=> q \in tx[c].dirty)
            BY <1>10, <3>3, <4>2, <5>1
          <5> QED  BY <1>6, <3>1, <5>2, <5>3
        <4> QED  BY <4>1, <4>2
      <3> QED  BY <3>1, <3>4 DEF Content
    <2> QED  BY <2>1, <2>2 DEF CacheInv
  <1> QED  BY <1>4, <1>12, <1>13, <1>14, <1>15, <1>16, <1>17, <1>18, ActorStep

LEMMA BeginVacuumTxKeeps ==
    ASSUME NEW base, Ready(base), NEW c \in Conns, BeginVacuumTx(c)
    PROVE  Reached(base)
  <1>1. /\ LockInv /\ LogTypes /\ ConnTypes /\ ConnType(c) /\ NatMarks /\ HeldAt(c)
        /\ CkptInv(base, c) /\ LogInv(base)
    BY ReadyParts
  <1>2. /\ pc[c] = "vacuum" /\ txns < MaxTxn /\ txns' = txns + 1 /\ LogUntouched /\ shared' = shared
        /\ slot' = slot /\ snap' = [snap EXCEPT ![c] = Snapshot(shared)]
        /\ cache' = [cache EXCEPT ![c] = EmptyCache]
        /\ tx' = [tx EXCEPT ![c] = [id |-> txns + 1, dirty |-> Pages, spilled |-> {}, vacuum |-> TRUE]]
        /\ view' = [view EXCEPT ![c] = Len(history)] /\ pc' = [pc EXCEPT ![c] = "write"]
        /\ guard' = guard /\ pick' = pick /\ ckpt' = ckpt
    BY DEF BeginVacuumTx, files, LogUntouched, EpochStep
  <1>3. ShapeAfter(c) /\ MarksKept
    BY <1>1, VacuumShapes, StepKeepsMarks DEF VacuumStep
  <1>4. txns' \in 0..MaxTxn /\ txns + 1 \in 0..MaxTxn
    BY <1>1, <1>2, BoundsAssumption DEF LogTypes
  <1>5. LogTypes' /\ LogSame
    BY <1>1, <1>2, <1>4, MarkSteps, LogTyped
  <1>6. /\ pc'[c] = "write" /\ tx'[c].id = txns + 1 /\ tx'[c].dirty = Pages /\ tx'[c].spilled = {}
        /\ tx'[c].vacuum /\ snap'[c] = Snapshot(shared) /\ view'[c] = Len(history)
        /\ cache'[c] = EmptyCache
    <2>1. Conns = DOMAIN pc /\ Conns = DOMAIN tx /\ Conns = DOMAIN snap /\ Conns = DOMAIN view
          /\ Conns = DOMAIN cache
      BY <1>1 DEF LockInv, LockTypes, PcTypes, TxTypes, ConnTypes
    <2> QED  BY <1>2, <2>1
  <1>7. LocalTypes(c)'
    <2>1. pick'[c] = pick[c] /\ ckpt'[c] = ckpt[c]
      BY <1>2
    <2> QED  BY <1>1, <1>4, <1>6, <2>1, LocalTypesFrom
  <1>8. /\ Snapshot(shared) \in Snapshots
        /\ Snapshot(shared).max = shared.max /\ Snapshot(shared).nb = shared.nb
        /\ Snapshot(shared).tx = shared.tx
    BY <1>1, SnapshotOf
  <1>9. Moves(c)
    <2>1. SnapStep(c)
      BY <1>2, <1>8 DEF SnapStep
    <2>2. CacheStep(c)
      <3>1. EmptyCache \in [Pages -> CachedPages]
        BY DEF EmptyCache, NoPage, CachedPages
      <3> QED  BY <1>2, <3>1 DEF CacheStep
    <2>3. ViewStep(c)
      <3>1. Len(history) \in 1..Len(history)
        BY <1>1, LogParts
      <3> QED  BY <1>2, <3>1 DEF ViewStep
    <2> QED  BY <1>3, <1>7, <2>1, <2>2, <2>3 DEF Moves
  <1>10. Stays(c)
    BY <1>2, <1>6 DEF Stays, Unpublished, InRestarting
  <1>11. WriteInv(c)'
    <2>1. Cardinality({}) = 0
      BY FS_EmptySet
    <2>2. shared.max \in Nat /\ shared.max <= Len(wal.frames) /\ history[Len(history)] = Last(history)
      BY <1>1, LogParts DEF LogInv
    <2>3. shared' = shared /\ wal' = wal /\ history' = history
      BY <1>2 DEF LogUntouched
    <2>4. snap'[c].max = shared.max + Cardinality({}) /\ snap'[c].max <= Len(wal.frames)
          /\ snap'[c].tx = shared.tx
      BY <1>6, <1>8, <2>1, <2>2
    <2> QED  BY <1>6, <2>2, <2>3, <2>4 DEF WriteInv, WriteSteps
  <1>12. CkptInv(base, c)'
    <2>1. c \in Checkpointers \union Vacuumers
      BY <1>1, <1>2 DEF CkptInv
    <2> QED  BY <1>6, <2>1, VoidParts DEF CheckpointSteps
  <1>13. PickInv(c)'
    BY <1>6, VoidParts
  <1>14. CacheInv(c)'
    BY <1>6, EmptiedCache
  <1>15. ReadInv(base, c)'
    <2>1. PICK n, k, v, g : n = shared.nb /\ k = shared.max /\ v = Len(history) /\ g = guard'[c]
      OBVIOUS
    <2>2. Sees(base, n, k, v)'
      <3>1. Sees(base, n, k, Len(history))' /\ Len(history') = v
        BY <1>5, <2>1, LogSees DEF LogSame
      <3> QED  BY <3>1 DEF Sees
    <2>3. g \notin Marks
      <3>1. g = NO_LOCK_HELD
        BY <1>1, <1>2, <2>1 DEF HeldAt, WriteSteps
      <3> QED  BY <3>1, BoundsAssumption DEF NO_LOCK_HELD, Marks
    <2>4. /\ snap'[c].nb = n /\ shared'.max = k /\ snap'[c].tx = shared'.tx /\ shared'.nb = n
          /\ n \in Nat /\ shared'.tx \in Nat
      BY <1>1, <1>2, <1>6, <1>8, <2>1, LogParts
    <2>5. n <= shared'.nb /\ snap'[c].tx <= shared'.tx
      BY <2>4
    <2> QED  BY <1>6, <2>1, <2>2, <2>3, <2>4, <2>5, ReadInvFrom
  <1> QED  BY <1>5, <1>9, <1>10, <1>11, <1>12, <1>13, <1>14, <1>15, ActorStep

LEMMA EndVacuumCommitKeeps ==
    ASSUME NEW base, Ready(base), NEW c \in Conns, EndVacuumCommit(c)
    PROVE  Reached(base)
  <1>1. /\ LockInv /\ LogTypes /\ ConnTypes /\ ConnType(c) /\ NatMarks /\ HeldAt(c)
        /\ CkptInv(base, c) /\ snap[c].tx <= shared.tx
    BY ReadyParts
  <1>2. /\ pc[c] = "committed" /\ tx[c].vacuum /\ txns' = txns /\ LogUntouched /\ shared' = shared
        /\ slot' = slot /\ snap' = snap
        /\ cache' = [cache EXCEPT ![c] = EmptyCache]
        /\ ckpt' = [ckpt EXCEPT ![c] = [NoCheckpoint EXCEPT !.mode = "Truncate", !.held = "raw",
                                                            !.old = shared.nb]]
        /\ view' = [view EXCEPT ![c] = 1] /\ pc' = [pc EXCEPT ![c] = "guard"]
        /\ guard' = guard /\ pick' = pick /\ tx' = tx
    BY DEF EndVacuumCommit, files, bounds, LogUntouched, EpochStep
  <1>3. ShapeAfter(c) /\ MarksKept
    BY <1>1, VacuumShapes, StepKeepsMarks DEF VacuumStep
  <1>4. LogTypes' /\ LogSame
    <2>1. txns' \in 0..MaxTxn /\ NatMarks'
      BY <1>1, <1>2, MarkSteps DEF LogTypes
    <2> QED  BY <1>1, <1>2, <2>1, LogTyped
  <1>5. /\ pc'[c] = "guard" /\ tx'[c] = tx[c] /\ snap'[c] = snap[c] /\ cache'[c] = EmptyCache
        /\ pick'[c] = pick[c] /\ guard'[c] = guard[c]
        /\ ckpt'[c] = [NoCheckpoint EXCEPT !.mode = "Truncate", !.held = "raw", !.old = shared.nb]
    <2>1. Conns = DOMAIN pc /\ Conns = DOMAIN ckpt /\ Conns = DOMAIN cache
      BY <1>1 DEF LockInv, LockTypes, PcTypes, CkptTypes, ConnTypes
    <2> QED  BY <1>2, <2>1
  <1>6. /\ ckpt'[c].mode = "Truncate" /\ ckpt'[c].old = shared.nb /\ ckpt'[c].max = 0 /\ ckpt'[c].scan = 1
    BY <1>5 DEF NoCheckpoint
  <1>7. LocalTypes(c)'
    <2>1. ckpt'[c].old \in Nat /\ ckpt'[c].max \in Nat /\ ckpt'[c].scan \in Nat
      BY <1>1, <1>6, LogParts
    <2> QED  BY <1>1, <1>5, <2>1, LocalTypesFrom
  <1>8. Moves(c)
    <2>1. SnapStep(c)
      BY <1>2 DEF SnapStep
    <2>2. CacheStep(c)
      <3>1. EmptyCache \in [Pages -> CachedPages]
        BY DEF EmptyCache, NoPage, CachedPages
      <3> QED  BY <1>2, <3>1 DEF CacheStep
    <2>3. ViewStep(c)
      <3>1. 1 \in 1..Len(history)
        BY <1>1, LogParts
      <3> QED  BY <1>2, <3>1 DEF ViewStep
    <2> QED  BY <1>3, <1>7, <2>1, <2>2, <2>3 DEF Moves
  <1>9. Stays(c)
    BY <1>2, <1>5 DEF Stays, Unpublished, InRestarting
  <1>10. WriteInv(c)' /\ PickInv(c)'
    BY <1>5, VoidParts DEF Unpublished, CheckpointSteps
  <1>11. ReadInv(base, c)'
    <2>1. guard'[c] \notin Marks
      <3>1. guard[c] = NO_LOCK_HELD
        BY <1>1, <1>2 DEF HeldAt, WriteSteps
      <3> QED  BY <1>5, <3>1, BoundsAssumption DEF NO_LOCK_HELD, Marks
    <2> QED  BY <1>1, <1>2, <1>5, <2>1, VoidParts DEF Looking
  <1>12. CacheInv(c)'
    BY <1>5, EmptiedCache DEF InTransaction, Unpublished
  <1>13. CkptInv(base, c)'
    <2>1. c \in Checkpointers \union Vacuumers
      BY <1>1, <1>2 DEF CkptInv
    <2>2. "guard" \in CheckpointSteps /\ RestartsLog("Truncate")
      BY DEF CheckpointSteps, RestartsLog
    <2> QED  BY <1>2, <1>5, <1>6, <2>1, <2>2, CkptFrom
  <1> QED  BY <1>4, <1>8, <1>9, <1>10, <1>11, <1>12, <1>13, ActorStep

-----------------------------------------------------------------------------
(* Steps that write to the log, behind the published frames.                *)

LEMMA ForwardStep ==
    ASSUME NEW base, Ready(base), NEW c \in Conns, LogTypes', Moves(c), Grows, HistoryStep,
           shared.nb <= shared'.nb, shared'.seq = shared.seq, shared'.epoch = shared.epoch,
           pc'[c] # "read", ~InRestarting(c), LogInv(base)', SpillInv',
           LogStill \/ c \in Writing,
           (shared'.nb = shared.nb /\ db' = db) \/ c \in Checkpointers \union Vacuumers,
           \A d \in Conns \ {c} : pc[d] \in Looking =>
               \A nb, m : nb = snap[d].nb /\ m = ViewMax(d) => db' = db \/ FileServes(base, nb, m)',
           WriteInv(c)', ReadInv(base, c)', PickInv(c)', CkptInv(base, c)', CacheInv(c)'
    PROVE  Reached(base)
  <1>1. /\ OneCheckpointer /\ LockInv /\ LogTypes /\ ConnTypes /\ WalInvOver(base)
        /\ shared.epoch <= shared'.epoch
    BY ReadyParts, LogParts
  <1>2. ConnTypes' /\ ConnsKept(c) /\ MarksKept
    BY <1>1, ConnsFrom DEF Moves, ShapeAfter
  <1>3. ReadersJoin
    <2>1. ASSUME NEW e \in Conns, pc'[e] = "read"
          PROVE  pc[e] = "read" /\ snap'[e].max = snap[e].max /\ guard'[e] = guard[e]
      BY <1>2, <2>1 DEF ConnsKept, Kept
    <2> QED  BY <2>1 DEF ReadersJoin
  <1>4. Restarting # {} => Restarting' # {}
    <2>1. ASSUME NEW e \in Restarting  PROVE e \in Restarting'
      <3>1. e \in Conns /\ InRestarting(e) /\ e # c
        BY DEF Restarting, InRestarting
      <3>2. InRestarting(e)'
        BY <1>2, <3>1 DEF ConnsKept, Kept, InRestarting
      <3> QED  BY <3>1, <3>2 DEF Restarting, InRestarting
    <2> QED  BY <2>1
  <1>5. \A d \in Conns \ {c} : ConnInv(base, d)'
    BY <1>1, <1>2, <1>3, <1>4, OthersForward
  <1>6. ConnInv(base, c)'
    BY DEF ConnInv
  <1>7. WalInvOver(base)'
    BY <1>5, <1>6 DEF WalInvOver
  <1> QED  BY <1>2, <1>7 DEF Reached

(* The published frames, the file and the history stay as they are.         *)
LEMMA LogKept ==
    ASSUME NEW base, Ready(base), LogTypes', Grows, shared'.max = shared.max, shared'.nb = shared.nb,
           db' = db, history' = history, shared'.max <= Len(wal'.frames),
           ~shared'.init => shared'.max = 0
    PROVE  LogInv(base)'
  <1>1. LogTypes /\ LogInv(base)
    BY DEF Ready, WalInvOver
  <1>2. PICK n, m : n = shared.nb /\ m = shared.max
    OBVIOUS
  <1>3. Boundary(n) /\ Boundary(m) /\ FileServes(base, n, m) /\ ImageAt(base, m) = Last(history) /\ n <= m
    BY <1>1, <1>2 DEF LogInv
  <1>4. Boundary(n)' /\ Boundary(m)' /\ ImageAt(base, m)' = Last(history')
    BY <1>1, <1>3, GrowsKeeps
  <1>5. FileServes(base, n, m)'
    BY <1>1, <1>3, ServesKept
  <1>6. shared'.nb = n /\ shared'.max = m
    BY <1>2
  <1>7. /\ Boundary(shared.nb)' /\ Boundary(shared.max)'
    BY <1>4, <1>6 DEF Boundary
  <1>8. ImageAt(base, shared.max)' = Last(history')
    BY <1>4, <1>6 DEF ImageAt
  <1>9. FileServes(base, shared.nb, shared.max)'
    BY <1>5, <1>6 DEF FileServes, ImageAt
  <1> QED  BY <1>3, <1>6, <1>7, <1>8, <1>9 DEF LogInv

(* The writer goes on looking up pages in the published frames.             *)
LEMMA ReadGrows ==
    ASSUME NEW base, Ready(base), NEW c \in Conns, LogTypes', Grows, HistoryStep, MarksKept, db' = db,
           shared.nb <= shared'.nb, guard'[c] = guard[c], view'[c] = view[c], pc'[c] # "read",
           snap'[c].tx <= shared'.tx,
           pc'[c] \in Looking => /\ pc[c] \in Looking /\ pc[c] # "read"
                                 /\ shared'.max = shared.max /\ snap'[c].nb = snap[c].nb
    PROVE  ReadInv(base, c)'
  <1>1. LockInv /\ LogTypes /\ ReadInv(base, c) /\ snap[c] \in Snapshots /\ ConnType(c)
    BY ReadyParts
  <1>2. PICK q, g, nb, v, m : q = pc'[c] /\ g = guard[c] /\ nb = snap'[c].nb /\ v = view[c] /\ m = shared'.max
    OBVIOUS
  <1>3. PICK k : g \in Marks => k = slot[g].mark
    OBVIOUS
  <1>4. g \in Marks => slot'[g].mark = k /\ Boundary(k)'
    <2> SUFFICES ASSUME g \in Marks
                 PROVE  slot'[g].mark = k /\ Boundary(k)'
      OBVIOUS
    <2>1. slot[g].readers > 0
      BY <1>1, <1>2, GuardedSlot, BoundsAssumption DEF Marks, NO_LOCK_HELD
    <2>2. slot'[g].mark = k
      BY <1>3, <2>1 DEF MarksKept
    <2>3. Boundary(k)
      BY <1>1, <1>2, <1>3 DEF ReadInv
    <2> QED  BY <1>1, <2>2, <2>3, GrowsKeeps
  <1>5. q \in Looking => /\ Sees(base, nb, m, v)' /\ nb <= shared'.nb
                         /\ g \in Marks => k <= m
    <2> SUFFICES ASSUME q \in Looking
                 PROVE  /\ Sees(base, nb, m, v)' /\ nb <= shared'.nb
                        /\ g \in Marks => k <= m
      OBVIOUS
    <2>1. pc[c] \in Looking /\ ViewMax(c) = m /\ nb = snap[c].nb
      BY <1>2 DEF ViewMax
    <2>2. Sees(base, nb, m, v) /\ nb <= shared.nb /\ (g \in Marks => k <= m)
      BY <1>1, <1>2, <1>3, <2>1 DEF ReadInv
    <2>3. v \in 1..Len(history)
      BY <1>1, <1>2 DEF ConnType
    <2>4. Sees(base, nb, m, v)'
      BY <1>1, <2>2, <2>3, SeesKept
    <2>5. nb <= shared'.nb
      <3>1. nb \in Nat /\ shared.nb \in Nat /\ shared'.nb \in Nat
        BY <1>1, <2>1, LogParts, LogPartsNext DEF Snapshots
      <3> QED  BY <2>2, <3>1
    <2> QED  BY <2>2, <2>4, <2>5
  <1> QED  BY <1>2, <1>4, <1>5, ReadInvFrom

(* The tag of one page of the page cache.                                   *)
Tagged(c, p) ==
    LET pg == cache[c][p] IN pg.used =>
        /\ c \in Caching /\ pg.epoch <= shared.epoch
        /\ ~pg.dirty /\ pg.epoch = shared.epoch /\ pg.frame # 0 =>
            \/ pg.frame <= shared.max /\ pg.ver = FrameContent(wal, pg.frame, p)
            \/ pc[c] \in Unpublished /\ p \in tx[c].spilled
            \/ Restarting # {}
        /\ pc[c] \in Unpublished /\ p \in tx[c].spilled => pg.frame > shared.max

LEMMA TagsTagged ==
    ASSUME NEW c
    PROVE  /\ Tags(c) <=> \A p \in Pages : Tagged(c, p)
           /\ (\A p \in Pages : Tagged(c, p)') => Tags(c)'
  BY DEF Tags, Tagged

(* A tag stays true when the log grows.                                     *)
LEMMA TagGrows ==
    ASSUME NEW base, Ready(base), NEW c \in Conns, LogTypes', Grows, shared'.max <= Len(wal'.frames),
           shared'.epoch = shared.epoch, Restarting # {} => Restarting' # {},
           NEW p \in Pages, cache'[c][p] = cache[c][p],
           pc[c] \in Unpublished /\ p \in tx[c].spilled => pc'[c] \in Unpublished /\ p \in tx'[c].spilled,
           pc'[c] \in Unpublished /\ p \in tx'[c].spilled =>
               pc[c] \in Unpublished /\ p \in tx[c].spilled /\ shared'.max = shared.max
    PROVE  Tagged(c, p)'
  <1>1. LogTypes /\ Tagged(c, p) /\ cache[c][p] \in CachedPages /\ shared.max <= Len(wal.frames)
    <2>1. LogTypes /\ Tags(c) /\ cache[c] \in [Pages -> CachedPages] /\ LogInv(base)
      BY ReadyParts
    <2> QED  BY <2>1, TagsTagged DEF LogInv
  <1>2. PICK pg : pg = cache[c][p]
    OBVIOUS
  <1>3. pg.frame \in Nat /\ shared.max \in Nat /\ shared'.max \in Nat /\ shared.max <= shared'.max
    BY <1>1, <1>2, LogParts, LogPartsNext DEF CachedPages, Grows
  <1>4. ASSUME pg.frame # 0, pg.frame <= shared.max
        PROVE  pg.frame <= shared'.max /\ FrameContent(wal', pg.frame, p) = FrameContent(wal, pg.frame, p)
    <2>0. PICK f \in Nat : f = pg.frame /\ f # 0 /\ f <= shared.max
      BY <1>3, <1>4
    <2>1. f \in 1..shared.max /\ f <= shared'.max
      BY <1>3, <2>0
    <2> QED  BY <1>1, <2>0, <2>1, FrameKept
  <1>5. pg.used =>
          /\ c \in Caching /\ pg.epoch <= shared.epoch
          /\ ~pg.dirty /\ pg.epoch = shared.epoch /\ pg.frame # 0 =>
              \/ pg.frame <= shared.max /\ pg.ver = FrameContent(wal, pg.frame, p)
              \/ pc[c] \in Unpublished /\ p \in tx[c].spilled
              \/ Restarting # {}
          /\ pc[c] \in Unpublished /\ p \in tx[c].spilled => pg.frame > shared.max
    BY <1>1, <1>2 DEF Tagged
  <1>6. pg.used =>
          /\ c \in Caching /\ pg.epoch <= shared'.epoch
          /\ ~pg.dirty /\ pg.epoch = shared'.epoch /\ pg.frame # 0 =>
              \/ pg.frame <= shared'.max /\ pg.ver = FrameContent(wal', pg.frame, p)
              \/ pc'[c] \in Unpublished /\ p \in tx'[c].spilled
              \/ Restarting' # {}
          /\ pc'[c] \in Unpublished /\ p \in tx'[c].spilled => pg.frame > shared'.max
    BY <1>4, <1>5
  <1>7. cache'[c][p] = pg
    BY <1>2
  <1> QED  BY <1>6, <1>7 DEF Tagged

LEMMA RestartingKept ==
    ASSUME NEW c \in Conns, ~InRestarting(c), Local(c)
    PROVE  Restarting # {} => Restarting' # {}
  <1>1. ASSUME NEW e \in Restarting  PROVE e \in Restarting'
    <2>1. e \in Conns /\ InRestarting(e) /\ e # c
      BY DEF Restarting, InRestarting
    <2>2. InRestarting(e)'
      BY <2>1 DEF Local, InRestarting
    <2> QED  BY <2>1, <2>2 DEF Restarting, InRestarting
  <1> QED  BY <1>1

(* What a step does to the writer's own record.                             *)
LEMMA SnapUpdate ==
    ASSUME ConnTypes, NEW c \in Conns, NEW x \in Snapshots, snap' = [snap EXCEPT ![c] = x]
    PROVE  SnapStep(c) /\ snap'[c] = x
  BY DEF ConnTypes, SnapStep

(* The writer's cached pages when it writes frames but publishes none.      *)
LEMMA CacheGrows ==
    ASSUME NEW base, Ready(base), NEW c \in Conns, LogTypes', Grows, shared'.max <= Len(wal'.frames),
           shared'.max = shared.max, shared'.epoch = shared.epoch, history' = history, Local(c),
           cache'[c] = cache[c], view'[c] = view[c], tx'[c] = tx[c],
           pc[c] \in Unpublished, pc'[c] \in Unpublished
    PROVE  CacheInv(c)'
  <1>1. Content(c)
    BY ReadyParts
  <1>2. ~InRestarting(c) /\ pc[c] \in InTransaction /\ pc'[c] \in InTransaction
        /\ pc'[c] \notin CheckpointSteps
    BY DEF InRestarting, Unpublished, InTransaction, CheckpointSteps
  <1>3. Restarting # {} => Restarting' # {}
    BY <1>2, RestartingKept
  <1>4. ASSUME NEW p \in Pages  PROVE Tagged(c, p)'
    BY <1>3, TagGrows
  <1>5. Content(c)'
    BY <1>1, <1>2 DEF Content
  <1> QED  BY <1>4, <1>5, TagsTagged DEF CacheInv

LEMMA StillWriting ==
    ASSUME NEW base, Ready(base), NEW c \in Conns, pc[c] \in WriteSteps, pc'[c] \in WriteSteps,
           tx'[c].vacuum = tx[c].vacuum
    PROVE  CkptInv(base, c)' /\ PickInv(c)' /\ c \in Writing /\ ~InRestarting(c)
  <1>1. CkptInv(base, c)
    BY ReadyParts
  <1>2. pc'[c] \notin CheckpointSteps /\ pc'[c] \notin {"choose", "lock"} /\ pc'[c] # "vacuum"
        /\ pc[c] # "finalize"
    BY DEF WriteSteps, CheckpointSteps
  <1>3. /\ tx[c].vacuum => c \in Checkpointers \union Vacuumers
        /\ c \in Writers \/ tx[c].vacuum
    BY <1>1 DEF CkptInv
  <1>4. CkptInv(base, c)' /\ PickInv(c)'
    BY <1>2, <1>3, VoidParts
  <1> QED  BY <1>2, <1>4 DEF Writing, InRestarting

(* The header of a new generation.                                          *)
LEMMA HeaderKeeps ==
    ASSUME NEW base, Ready(base), NEW c \in Conns, PrepareWal(c), ~shared.init
    PROVE  Reached(base)
  <1>1. /\ LockInv /\ LogTypes /\ ConnTypes /\ ConnType(c) /\ NatMarks
        /\ WriteInv(c) /\ LogInv(base) /\ snap[c].tx <= shared.tx /\ SpillInv
    BY ReadyParts
  <1>2. /\ pc[c] = "write" /\ tx[c].dirty # {} /\ pc' = [pc EXCEPT ![c] = "header"]
        /\ wal' = HeaderWritten /\ shared' = [shared EXCEPT !.hdr = TRUE]
        /\ snap' = [snap EXCEPT ![c].hdr = TRUE, ![c].max = 0]
        /\ UNCHANGED <<frame_cache, slot, lock, guard, pick, tx, ckpt, cache, db, history, view, txns, crashes>>
    BY DEF PrepareWal, ghosts, bounds
  <1>3. ShapeAfter(c) /\ MarksKept /\ Local(c)
    BY <1>1, WriteShapes, StepKeepsMarks DEF Transaction, ShapeAfter
  <1>4. /\ shared'.max = shared.max /\ shared'.nb = shared.nb /\ shared'.seq = shared.seq
        /\ shared'.tx = shared.tx /\ shared'.init = shared.init /\ shared'.epoch = shared.epoch
        /\ shared' \in [max : Nat, nb : Nat, seq : Nat, tx : Nat, hdr : BOOLEAN,
                        init : BOOLEAN, epoch : Nat]
    BY <1>1, <1>2 DEF LogTypes
  <1>5. shared.max = 0 /\ shared.nb = 0 /\ tx[c].spilled = {}
    <2>1. shared.max = 0 /\ shared.nb <= shared.max
      BY <1>1, <1>2 DEF LogInv
    <2>2. tx[c].spilled = {}
      BY <1>1, <1>2 DEF WriteInv, Unpublished
    <2> QED  BY <1>1, <2>1, <2>2, LogParts
  <1>6. wal'.frames = <<>> /\ wal'.gen = shared.seq /\ Len(wal'.frames) = 0
    BY <1>2 DEF HeaderWritten
  <1>7. LogTypes'
    <2>1. wal' \in [gen : Nat, frames : Seq(Frames)]
      <3>1. shared.seq \in Nat /\ <<>> \in Seq(Frames)
        BY <1>1, LogParts
      <3> QED  BY <1>2, <3>1 DEF HeaderWritten
    <2> QED  BY <1>1, <1>2, <1>4, <2>1 DEF LogTypes
  <1>8. Grows
    <2>1. \A f \in 1..shared.max : FALSE
      BY <1>5
    <2> QED  BY <1>2, <1>4, <1>5, <2>1 DEF Grows
  <1>9. LogInv(base)'
    BY <1>2, <1>4, <1>5, <1>6, <1>7, <1>8, LogKept
  <1>10. pc'[c] = "header" /\ tx' = tx /\ tx'[c].vacuum = tx[c].vacuum /\ "header" \in WriteSteps /\ pc[c] \in WriteSteps
    BY <1>1, <1>2 DEF LockInv, LockTypes, PcTypes, WriteSteps
  <1>11. /\ SnapStep(c) /\ snap'[c].max = 0 /\ snap'[c].nb = snap[c].nb /\ snap'[c].tx = snap[c].tx
    <2>1. PICK x : x = [snap[c] EXCEPT !.max = 0, !.hdr = TRUE]
      OBVIOUS
    <2>2. snap' = [snap EXCEPT ![c] = x]
      BY <1>1, <1>2, <2>1 DEF ConnTypes, Snapshots
    <2>3. x \in Snapshots /\ x.max = 0 /\ x.nb = snap[c].nb /\ x.tx = snap[c].tx
      BY <1>1, <2>1 DEF ConnTypes, Snapshots
    <2>4. SnapStep(c) /\ snap'[c] = x
      BY <1>1, <2>2, <2>3, SnapUpdate
    <2> QED  BY <2>3, <2>4
  <1>12. LocalTypes(c)'
    BY <1>1, <1>2, LocalTypesFrom
  <1>13. Moves(c)
    BY <1>2, <1>3, <1>11, <1>12 DEF Moves, CacheStep, ViewStep
  <1>14. SpillInv'
    <2>1. \A e \in Conns : pc[e] \in Unpublished => pc'[e] \in Unpublished
      BY <1>3, <1>10 DEF Local, Unpublished
    <2> QED  BY <1>1, <1>2, <1>4, <2>1 DEF SpillInv
  <1>15. WriteInv(c)'
    <2>1. Cardinality({}) = 0
      BY FS_EmptySet
    <2>2. snap'[c].max = shared'.max + Cardinality(tx'[c].spilled)
      BY <1>2, <1>4, <1>5, <1>11, <2>1
    <2>3. snap[c].tx = shared.tx /\ history[view[c]] = Last(history)
      BY <1>1, <1>2 DEF WriteInv, Unpublished
    <2>4. tx'[c].spilled = {} /\ history' = history /\ view'[c] = view[c] /\ shared'.max = 0
      BY <1>2, <1>4, <1>5
    <2> QED  BY <1>4, <1>6, <1>10, <1>11, <2>2, <2>3, <2>4 DEF WriteInv
  <1>16. CkptInv(base, c)' /\ PickInv(c)' /\ c \in Writing /\ ~InRestarting(c)
    BY <1>10, StillWriting
  <1>17. HistoryStep /\ shared.nb <= shared'.nb /\ shared'.max <= Len(wal'.frames)
    BY <1>2, <1>4, <1>5, <1>6 DEF HistoryStep
  <1>18. CacheInv(c)'
    BY <1>2, <1>3, <1>4, <1>7, <1>8, <1>10, <1>17, CacheGrows DEF Unpublished
  <1>19. ReadInv(base, c)'
    <2>1. snap'[c].tx <= shared'.tx
      BY <1>1, <1>4, <1>11
    <2>2. pc[c] \in Looking /\ guard'[c] = guard[c] /\ view'[c] = view[c]
      BY <1>2 DEF Looking
    <2> QED  BY <1>2, <1>3, <1>4, <1>7, <1>8, <1>10, <1>11, <1>17, <2>1, <2>2, ReadGrows
  <1> QED
    BY <1>2, <1>4, <1>7, <1>8, <1>9, <1>10, <1>13, <1>14, <1>15, <1>16, <1>17, <1>18, <1>19, ForwardStep

LEMMA HeaderSyncKeeps ==
    ASSUME NEW base, Ready(base), NEW c \in Conns, PrepareWalSync(c)
    PROVE  Reached(base)
  <1>1. /\ LockInv /\ LogTypes /\ ConnTypes /\ ConnType(c) /\ NatMarks
        /\ WriteInv(c) /\ LogInv(base) /\ snap[c].tx <= shared.tx /\ SpillInv
    BY ReadyParts
  <1>2. /\ pc[c] = "header" /\ pc' = [pc EXCEPT ![c] = "frames"]
        /\ shared' = [shared EXCEPT !.init = TRUE]
        /\ UNCHANGED <<snap, wal, frame_cache, slot, lock, guard, pick, tx, ckpt, cache, db, history, view, txns, crashes>>
    BY DEF PrepareWalSync, ghosts, bounds
  <1>3. ShapeAfter(c) /\ MarksKept /\ Local(c)
    BY <1>1, WriteShapes, StepKeepsMarks DEF Transaction, ShapeAfter
  <1>4. /\ shared'.max = shared.max /\ shared'.nb = shared.nb /\ shared'.seq = shared.seq
        /\ shared'.tx = shared.tx /\ shared'.init /\ shared'.epoch = shared.epoch
        /\ shared' \in [max : Nat, nb : Nat, seq : Nat, tx : Nat, hdr : BOOLEAN,
                        init : BOOLEAN, epoch : Nat]
    BY <1>1, <1>2 DEF LogTypes
  <1>5. tx[c].spilled = {}
    BY <1>1, <1>2 DEF WriteInv
  <1>7. LogTypes'
    BY <1>1, <1>2, <1>4 DEF LogTypes
  <1>8. Grows
    BY <1>1, <1>2, <1>4, LogParts DEF Grows
  <1>9. LogInv(base)' /\ shared'.max <= Len(wal'.frames)
    <2>1. shared'.max <= Len(wal'.frames)
      BY <1>1, <1>2, <1>4 DEF LogInv
    <2> QED  BY <1>2, <1>4, <1>7, <1>8, <2>1, LogKept
  <1>10. pc'[c] = "frames" /\ tx' = tx /\ tx'[c].vacuum = tx[c].vacuum /\ "frames" \in WriteSteps /\ pc[c] \in WriteSteps
    BY <1>1, <1>2 DEF LockInv, LockTypes, PcTypes, WriteSteps
  <1>12. LocalTypes(c)'
    BY <1>1, <1>2, LocalTypesFrom
  <1>13. Moves(c)
    BY <1>2, <1>3, <1>12 DEF Moves, SnapStep, CacheStep, ViewStep
  <1>14. SpillInv'
    <2>1. \A e \in Conns : pc[e] \in Unpublished => pc'[e] \in Unpublished
      BY <1>3, <1>10 DEF Local, Unpublished
    <2> QED  BY <1>1, <1>2, <1>4, <2>1 DEF SpillInv
  <1>15. WriteInv(c)'
    <2>3. snap[c].tx = shared.tx /\ history[view[c]] = Last(history)
      BY <1>1, <1>2 DEF WriteInv, Unpublished
    <2>4. tx'[c].spilled = {} /\ history' = history /\ view'[c] = view[c] /\ snap'[c] = snap[c]
      BY <1>2, <1>4, <1>5
    <2> QED  BY <1>4, <1>10, <2>3, <2>4 DEF WriteInv
  <1>16. CkptInv(base, c)' /\ PickInv(c)' /\ c \in Writing /\ ~InRestarting(c)
    BY <1>10, StillWriting
  <1>17. HistoryStep /\ shared.nb <= shared'.nb
    BY <1>1, <1>2, <1>4, LogParts DEF HistoryStep
  <1>18. CacheInv(c)'
    BY <1>2, <1>3, <1>4, <1>7, <1>8, <1>9, <1>10, CacheGrows DEF Unpublished
  <1>19. ReadInv(base, c)'
    <2>1. snap'[c].tx <= shared'.tx
      BY <1>1, <1>2, <1>4
    <2>2. pc'[c] \notin Looking /\ pc'[c] # "read" /\ guard'[c] = guard[c] /\ view'[c] = view[c]
      BY <1>2, <1>10 DEF Looking
    <2> QED  BY <1>2, <1>3, <1>7, <1>8, <1>17, <2>1, <2>2, ReadGrows
  <1> QED
    BY <1>2, <1>4, <1>7, <1>8, <1>9, <1>10, <1>13, <1>14, <1>15, <1>16, <1>17, <1>18, <1>19, ForwardStep

-----------------------------------------------------------------------------
(* The frames of a commit.                                                  *)

WalFiles == [gen : Nat, frames : Seq(Frames)]

LEMMA ConcatIs ==
    ASSUME NEW S, NEW s \in Seq(S), NEW t \in Seq(S), NEW u, u = s \o t
    PROVE  /\ u \in Seq(S) /\ Len(u) = Len(s) + Len(t)
           /\ \A i \in 1..Len(s) : u[i] = s[i]
           /\ \A i \in 1..Len(t) : u[Len(s) + i] = t[i]
  <1>1. u \in Seq(S) /\ Len(u) = Len(s) + Len(t)
    OBVIOUS
  <1> QED  BY <1>1

RankedSet(D) ==
    /\ Cardinality(D) \in Nat
    /\ \A p \in D : Cardinality(D \intersect 1..p) \in 1..Cardinality(D)
    /\ \A p, q \in D : Cardinality(D \intersect 1..p) = Cardinality(D \intersect 1..q) => p = q
    /\ \A i \in 1..Cardinality(D) : \E p \in D : Cardinality(D \intersect 1..p) = i

LEMMA RankedFinite ==
    ASSUME NEW D, D \subseteq Nat \ {0}, IsFiniteSet(D)
    PROVE  RankedSet(D)
  BY FiniteRanks DEF RankedSet

WrittenAt(v, w, n, fs) ==
    /\ v \in WalFiles /\ Len(v.frames) = n + Len(fs)
    /\ \A i \in 1..n : v.frames[i] = w.frames[i]
    /\ \A i \in 1..Len(fs) : v.frames[n + i] = fs[i]
LEMMA WrittenIs ==
    ASSUME NEW w \in WalFiles, NEW n \in Nat, n <= Len(w.frames), NEW fs \in Seq(Frames),
           NEW k, k = n + 1, NEW v, v = Written(w, k, fs)
    PROVE  WrittenAt(v, w, n, fs)
  <1>1. PICK s, u : s = w.frames /\ u = SubSeq(s, 1, n) \o fs
    OBVIOUS
  <1>2. k - 1 = n /\ s \in Seq(Frames) /\ n <= Len(s) /\ Len(s) \in Nat
    BY <1>1 DEF WalFiles
  <1>3. v = [w EXCEPT !.frames = u]
    BY <1>1, <1>2 DEF Written
  <1>4. PICK t : t = SubSeq(s, 1, n)
    OBVIOUS
  <1>5. t \in Seq(Frames) /\ Len(t) = n /\ \A i \in 1..n : t[i] = s[i]
    BY <1>2, <1>4
  <1>6. u = t \o fs
    BY <1>1, <1>4
  <1>7. /\ u \in Seq(Frames) /\ Len(u) = n + Len(fs)
        /\ \A i \in 1..n : u[i] = s[i]
        /\ \A i \in 1..Len(fs) : u[n + i] = fs[i]
    <2>1. /\ u \in Seq(Frames) /\ Len(u) = Len(t) + Len(fs)
          /\ \A i \in 1..Len(t) : u[i] = t[i]
          /\ \A i \in 1..Len(fs) : u[Len(t) + i] = fs[i]
      <3>1. t \in Seq(Frames)
        BY <1>5
      <3> QED  BY <1>6, <3>1, ConcatIs
    <2> QED  BY <1>5, <2>1
  <1>8. v \in WalFiles /\ v.frames = u
    BY <1>3, <1>7 DEF WalFiles
  <1> QED  BY <1>1, <1>7, <1>8 DEF WrittenAt

(* Every dirty page has one frame.                                          *)
FramesOf(c, D, fs) ==
    /\ fs \in Seq(Frames) /\ Len(fs) = Cardinality(D) /\ Cardinality(D) \in Nat
    /\ \A i \in 1..Len(fs) : fs[i].page \in D /\ fs[i].ver = tx[c].id
    /\ \A p \in D : \E i \in 1..Len(fs) :
         fs[i].page = p /\ \A j \in 1..Len(fs) : fs[j].page = p => j = i
LEMMA CommitFramesAre ==
    ASSUME NEW base, Ready(base), NEW c \in Conns, NEW D, D = tx[c].dirty,
           NEW fs, fs = CommitFrames(c)
    PROVE  FramesOf(c, D, fs)
  <1>1. tx[c].dirty \subseteq Pages /\ tx[c].id \in 0..MaxTxn
    BY ReadyParts DEF ConnType
  <1>2. D \subseteq Pages /\ D \subseteq Nat \ {0} /\ IsFiniteSet(D)
    BY <1>1, PagesAssumption, Spilled
  <1>3. PICK n, r : n = Cardinality(D) /\ r = [p \in D |-> Cardinality(D \intersect 1..p)]
    OBVIOUS
  <1>4. /\ n \in Nat /\ \A p \in D : r[p] \in 1..n
        /\ \A p, q \in D : r[p] = r[q] => p = q
        /\ \A i \in 1..n : \E p \in D : r[p] = i
    <2>1. /\ Cardinality(D) \in Nat
          /\ \A p \in D : Cardinality(D \intersect 1..p) \in 1..Cardinality(D)
          /\ \A p, q \in D : Cardinality(D \intersect 1..p) = Cardinality(D \intersect 1..q) => p = q
          /\ \A i \in 1..Cardinality(D) : \E p \in D : Cardinality(D \intersect 1..p) = i
      <3>1. RankedSet(D)
        BY <1>2, RankedFinite
      <3> QED  BY Zenon, <3>1 DEF RankedSet
    <2> QED  BY Zenon, <1>3, <2>1
  <1>5. PICK ds : ds = DirtySeq(c)
    OBVIOUS
  <1>6. ASSUME NEW i \in 1..n  PROVE ds[i] \in D /\ r[ds[i]] = i
    <2>1. ds[i] = CHOOSE p \in D : Cardinality(D \intersect 1..p) = i
      BY Zenon, <1>3, <1>5, <1>6 DEF DirtySeq
    <2>2. \E p \in D : Cardinality(D \intersect 1..p) = i
      BY <1>3, <1>4, <1>6
    <2>3. ds[i] \in D /\ Cardinality(D \intersect 1..ds[i]) = i
      BY Zenon, <2>1, <2>2
    <2> QED  BY <1>3, <2>3
  <1>7. fs = [i \in 1..n |-> Frame(ds[i], tx[c].id, i = n)]
    BY <1>3, <1>5 DEF CommitFrames
  <1>8. \A i \in 1..n : fs[i] \in Frames /\ fs[i].page = ds[i] /\ fs[i].ver = tx[c].id
    BY <1>1, <1>2, <1>6, <1>7 DEF Frame, Frames
  <1>9. fs \in Seq(Frames) /\ Len(fs) = n
    <2>1. fs \in [1..n -> Frames]
      BY <1>7, <1>8
    <2> QED  BY <1>4, <2>1
  <1>10. ASSUME NEW p \in D
         PROVE  \E i \in 1..n : fs[i].page = p /\ \A j \in 1..n : fs[j].page = p => j = i
    <2>1. PICK i \in 1..n : i = r[p]
      BY <1>4
    <2>2. ds[i] = p
      BY <1>4, <1>6, <2>1
    <2>3. \A j \in 1..n : ds[j] = p => j = i
      BY <1>6, <2>1
    <2> QED  BY <1>8, <2>2, <2>3
  <1>11. 1..Len(fs) = 1..n /\ Len(fs) = Cardinality(D) /\ Cardinality(D) \in Nat
    BY <1>3, <1>4, <1>9
  <1>12. \A i \in 1..n : fs[i].page \in D /\ fs[i].ver = tx[c].id
    BY <1>6, <1>8
  <1> QED  BY Zenon, <1>9, <1>10, <1>11, <1>12 DEF FramesOf

LEMMA WriteFramesKeeps ==
    ASSUME NEW base, Ready(base), NEW c \in Conns, WriteFrames(c)
    PROVE  Reached(base)
  <1>1. /\ LockInv /\ LogTypes /\ ConnTypes /\ ConnType(c) /\ NatMarks
        /\ WriteInv(c) /\ LogInv(base) /\ SpillInv
    BY ReadyParts
  <1>2. /\ pc[c] = "frames" /\ pc' = [pc EXCEPT ![c] = IF SyncMode = "Full" THEN "walsync" ELSE "publish"]
        /\ wal' = Written(wal, shared.max + 1, CommitFrames(c))
        /\ snap' = [snap EXCEPT ![c] = Snapshot(shared)]
        /\ UNCHANGED <<shared, frame_cache, slot, lock, guard, pick, tx, ckpt, cache, db, history, view, txns, crashes>>
    BY DEF WriteFrames, bounds
  <1>3. ShapeAfter(c) /\ MarksKept /\ Local(c)
    BY <1>1, WriteShapes, StepKeepsMarks DEF Transaction, ShapeAfter
  <1>4. PICK fs, n : fs = CommitFrames(c) /\ n = shared.max
    OBVIOUS
  <1>5. /\ fs \in Seq(Frames) /\ Len(fs) = Cardinality(tx[c].dirty) /\ Cardinality(tx[c].dirty) \in Nat
    <2>1. FramesOf(c, tx[c].dirty, fs)
      BY <1>4, CommitFramesAre
    <2> QED  BY <2>1 DEF FramesOf
  <1>6. n \in Nat /\ n <= Len(wal.frames) /\ wal \in WalFiles
    BY <1>1, <1>4, LogParts DEF LogInv, LogTypes, WalFiles
  <1>7. /\ wal' \in WalFiles /\ Len(wal'.frames) = n + Len(fs)
        /\ \A i \in 1..n : wal'.frames[i] = wal.frames[i]
        /\ \A i \in 1..Len(fs) : wal'.frames[n + i] = fs[i]
    <2>1. PICK k, v : k = n + 1 /\ v = Written(wal, k, fs)
      OBVIOUS
    <2>2. wal' = v
      BY <1>2, <1>4, <2>1
    <2>3. fs \in Seq(Frames) /\ wal \in WalFiles /\ n \in Nat /\ n <= Len(wal.frames) /\ k = n + 1
          /\ v = Written(wal, k, fs)
      BY <1>5, <1>6, <2>1
    <2>4. WrittenAt(v, wal, n, fs)
      BY <2>3, WrittenIs
    <2>5. WrittenAt(wal', wal, n, fs)
      BY <2>2, <2>4
    <2> QED  BY <2>5 DEF WrittenAt
  <1>8. LogTypes'
    BY <1>1, <1>2, <1>7 DEF LogTypes, WalFiles
  <1>9. Grows
    BY <1>2, <1>4, <1>6, <1>7 DEF Grows
  <1>10. shared'.max <= Len(wal'.frames)
    BY <1>2, <1>4, <1>5, <1>6, <1>7
  <1>11. LogInv(base)'
    <2>1. ~shared'.init => shared'.max = 0
      BY <1>1, <1>2 DEF LogInv
    <2> QED  BY <1>2, <1>8, <1>9, <1>10, <2>1, LogKept
  <1>12. pc'[c] \in {"walsync", "publish"} /\ tx' = tx /\ tx'[c].vacuum = tx[c].vacuum
         /\ pc'[c] \in WriteSteps /\ pc[c] \in WriteSteps
    BY <1>1, <1>2 DEF LockInv, LockTypes, PcTypes, WriteSteps
  <1>13. SnapStep(c) /\ snap'[c] = Snapshot(shared) /\ snap'[c].tx = shared.tx
    <2>1. Snapshot(shared) \in Snapshots /\ Snapshot(shared).tx = shared.tx
      BY <1>1, SnapshotOf
    <2> QED  BY <1>1, <1>2, <2>1, SnapUpdate
  <1>14. LocalTypes(c)'
    BY <1>1, <1>2, LocalTypesFrom
  <1>15. Moves(c)
    BY <1>2, <1>3, <1>13, <1>14 DEF Moves, CacheStep, ViewStep
  <1>16. SpillInv'
    <2>1. \A e \in Conns : pc[e] \in Unpublished => pc'[e] \in Unpublished
      BY <1>3, <1>12 DEF Local, Unpublished
    <2> QED  BY <1>1, <1>2, <2>1 DEF SpillInv
  <1>17. WriteInv(c)'
    <2>1. /\ \A p \in tx[c].spilled : OwnFrame(c, p)
          /\ history[view[c]] = Last(history) /\ shared.init
          /\ tx[c].vacuum => tx[c].spilled = {}
      BY <1>1, <1>2 DEF WriteInv, Unpublished
    <2>2. \A p : OwnFrame(c, p)' <=> OwnFrame(c, p)
      BY <1>2 DEF OwnFrame
    <2>3. CommitFrames(c)' = fs
      BY <1>2, <1>4 DEF CommitFrames, DirtySeq
    <2>4. shared'.max + Cardinality(tx'[c].dirty) <= Len(wal'.frames)
      BY <1>2, <1>4, <1>5, <1>6, <1>7
    <2>5. \A i \in 1..Cardinality(tx'[c].dirty) : wal'.frames[shared'.max + i] = CommitFrames(c)'[i]
      BY <1>2, <1>4, <1>5, <1>7, <2>3
    <2>6. shared' = shared /\ history' = history /\ view' = view /\ tx' = tx
      BY <1>2
    <2> QED  BY <1>12, <1>13, <2>1, <2>2, <2>4, <2>5, <2>6 DEF WriteInv
  <1>18. CkptInv(base, c)' /\ PickInv(c)' /\ c \in Writing /\ ~InRestarting(c)
    BY <1>12, StillWriting
  <1>19. HistoryStep /\ shared.nb <= shared'.nb /\ shared' = shared
    BY <1>1, <1>2, LogParts DEF HistoryStep
  <1>20. CacheInv(c)'
    <2>1. pc[c] \in Unpublished /\ pc'[c] \in Unpublished
      BY <1>2, <1>12 DEF Unpublished
    <2> QED  BY <1>2, <1>3, <1>8, <1>9, <1>10, <2>1, CacheGrows
  <1>21. ReadInv(base, c)'
    <2>1. snap'[c].tx <= shared'.tx
      BY <1>1, <1>2, <1>13, LogParts
    <2>2. pc'[c] \notin Looking /\ pc'[c] # "read" /\ guard'[c] = guard[c] /\ view'[c] = view[c]
      BY <1>2, <1>12 DEF Looking
    <2> QED  BY <1>2, <1>3, <1>8, <1>9, <1>19, <2>1, <2>2, ReadGrows
  <1>22. pc'[c] # "read"
    BY <1>12
  <1> QED
    BY <1>2, <1>8, <1>9, <1>11, <1>15, <1>16, <1>17, <1>18, <1>19, <1>20, <1>21, <1>22, ForwardStep

(* A rollback, with or without frames left in the file.                     *)
LEMMA RollbackKeeps ==
    ASSUME NEW base, Ready(base), NEW c \in Conns, Rollback(c) \/ CommitFails(c)
    PROVE  Reached(base)
  <1>1. /\ LockInv /\ LogTypes /\ ConnTypes /\ ConnType(c) /\ NatMarks /\ HeldAt(c)
        /\ WriteInv(c) /\ LogInv(base) /\ SpillInv /\ snap[c] \in Snapshots /\ snap[c].tx <= shared.tx
    BY ReadyParts
  <1>2. /\ RollbackTx(c) /\ pc[c] \in WriteSteps /\ pc[c] \in {"write", "frames", "walsync"}
        /\ UNCHANGED <<db, history, txns, crashes>>
        /\ \/ wal' = wal
           \/ /\ pc[c] = "frames"
              /\ \E n \in 0..Cardinality(tx[c].dirty) - 1 :
                    wal' = Written(wal, shared.max + 1, SubSeq(CommitFrames(c), 1, n))
    BY DEF Rollback, CommitFails, files, bounds, WriteSteps
  <1>3. /\ frame_cache' = RolledBack(frame_cache, shared.max)
        /\ snap' = [snap EXCEPT ![c] = Retained(c, [@ EXCEPT !.max = shared.max])]
        /\ cache' = [cache EXCEPT ![c] = EmptyCache]
        /\ guard' = [guard EXCEPT ![c] = NO_LOCK_HELD]
        /\ tx' = [tx EXCEPT ![c] = NoTx] /\ ckpt' = [ckpt EXCEPT ![c] = NoCheckpoint]
        /\ pc' = [pc EXCEPT ![c] = "idle"] /\ view' = [view EXCEPT ![c] = 1]
        /\ shared' = shared /\ pick' = pick
    BY <1>2 DEF RollbackTx
  <1>4. ShapeAfter(c) /\ MarksKept /\ Local(c) /\ NatMarks'
    <2>1. ShapeAfter(c) /\ Local(c)
      BY <1>1, <1>2, WriteShapes DEF ShapeAfter
    <2>2. MarksKept
      BY <1>1, StepKeepsMarks DEF Transaction
    <2>3. NatMarks'
      <3>1. CASE slot' = slot
        BY <1>1, <3>1, MarkSteps
      <3>2. CASE slot' # slot
        <4>1. ~tx[c].vacuum /\ slot' = [slot EXCEPT ![guard[c]] = Unlock(@)]
          BY <1>2, <3>2 DEF RollbackTx
        <4>2. guard[c] # NO_LOCK_HELD
          BY <1>1, <1>2, <4>1 DEF HeldAt
        <4>3. guard[c] \in 0..Slots
          BY <1>1, <4>2, GuardedSlot
        <4> QED  BY <1>1, <4>1, <4>3, MarkSteps
      <3> QED  BY <3>1, <3>2
    <2> QED  BY <2>1, <2>2, <2>3
  <1>5. PICK n : n = shared.max
    OBVIOUS
  <1>6. n \in Nat /\ n <= Len(wal.frames) /\ wal \in WalFiles /\ Boundary(n)
        /\ \A p \in Pages : frame_cache[p] \in Seq(FrameNumber)
    BY <1>1, <1>5, LogParts DEF LogInv, LogTypes, WalFiles, Boundary
  <1>7. /\ wal' \in WalFiles /\ n <= Len(wal'.frames)
        /\ \A i \in 1..n : wal'.frames[i] = wal.frames[i]
    <2>1. CASE wal' = wal
      BY <1>6, <2>1
    <2>2. ASSUME NEW j \in 0..Cardinality(tx[c].dirty) - 1,
                 wal' = Written(wal, shared.max + 1, SubSeq(CommitFrames(c), 1, j))
          PROVE  /\ wal' \in WalFiles /\ n <= Len(wal'.frames)
                 /\ \A i \in 1..n : wal'.frames[i] = wal.frames[i]
      <3>1. PICK fs, gs, k, v : fs = CommitFrames(c) /\ gs = SubSeq(fs, 1, j) /\ k = n + 1 /\ v = Written(wal, k, gs)
        OBVIOUS
      <3>2. fs \in Seq(Frames) /\ Len(fs) = Cardinality(tx[c].dirty) /\ Cardinality(tx[c].dirty) \in Nat
        <4>1. FramesOf(c, tx[c].dirty, fs)
          BY <3>1, CommitFramesAre
        <4> QED  BY <4>1 DEF FramesOf
      <3>3. gs \in Seq(Frames) /\ Len(gs) \in Nat
        BY <2>2, <3>1, <3>2
      <3>4. wal' = v
        BY <1>5, <2>2, <3>1
      <3>5. /\ v \in WalFiles /\ Len(v.frames) = n + Len(gs)
            /\ \A i \in 1..n : v.frames[i] = wal.frames[i]
        <4>1. gs \in Seq(Frames) /\ wal \in WalFiles /\ n \in Nat /\ n <= Len(wal.frames) /\ k = n + 1
              /\ v = Written(wal, k, gs)
          BY <1>6, <3>1, <3>3
        <4>2. WrittenAt(v, wal, n, gs)
          BY <4>1, WrittenIs
        <4> QED  BY <4>2 DEF WrittenAt
      <3>6. n <= n + Len(gs)
        BY <1>6, <3>3
      <3> QED  BY <3>4, <3>5, <3>6
    <2> QED  BY <1>2, <2>1, <2>2
  <1>8. ASSUME NEW p \in Pages
        PROVE  /\ frame_cache'[p] \in Seq(FrameNumber)
               /\ \A b \in 0..n : LatestOf(frame_cache'[p], b) = LatestOf(frame_cache[p], b)
               /\ \A b \in Nat : InOrderAt(frame_cache[p], b) => InOrderAt(frame_cache'[p], b)
               /\ \A i \in 1..Len(frame_cache'[p]) : frame_cache'[p][i] <= n
    <2>1. PICK s, u : s = frame_cache[p] /\ u = Popped(s, n)
      OBVIOUS
    <2>2. frame_cache'[p] = u
      <3>1. DOMAIN frame_cache = Pages
        BY <1>1 DEF LogTypes
      <3> QED  BY <1>3, <1>5, <2>1, <3>1, RolledBackOf
    <2>3. s \in Seq(FrameNumber) /\ InOrderAt(s, n)
      BY <1>6, <2>1 DEF Boundary
    <2>4. u \in Seq(FrameNumber) /\ \A hi \in 0..n : LatestOf(u, hi) = LatestOf(s, hi)
      BY <1>6, <2>1, <2>3, PoppedKeeps
    <2>5. /\ \A b \in Nat : InOrderAt(s, b) => InOrderAt(u, b)
          /\ \A i \in 1..Len(u) : u[i] <= n
      BY <1>6, <2>1, <2>3, PoppedPrefix
    <2> QED  BY <2>1, <2>2, <2>4, <2>5
  <1>9. Grows
    <2>1. \A p \in Pages : \A b \in 0..shared.max :
            /\ LatestOf(frame_cache'[p], b) = LatestOf(frame_cache[p], b)
            /\ InOrderAt(frame_cache[p], b) => InOrderAt(frame_cache'[p], b)
      BY <1>5, <1>6, <1>8
    <2> QED  BY <1>3, <1>5, <1>6, <1>7, <2>1 DEF Grows
  <1>10. LogTypes'
    <2>1. frame_cache' \in [Pages -> Seq(FrameNumber)]
      <3>1. DOMAIN frame_cache = Pages /\ DOMAIN frame_cache' = Pages
        BY <1>1, <1>3, RolledBackOf DEF LogTypes
      <3>2. frame_cache' = [p \in Pages |-> frame_cache'[p]]
        BY <1>3, <3>1 DEF RolledBack
      <3> QED  BY <1>8, <3>2
    <2> QED  BY <1>1, <1>2, <1>3, <1>4, <1>7, <2>1 DEF LogTypes, WalFiles, NatMarks
  <1>11. LogInv(base)'
    <2>1. (~shared'.init => shared'.max = 0) /\ shared'.max <= Len(wal'.frames)
      BY <1>1, <1>3, <1>5, <1>7 DEF LogInv
    <2> QED  BY <1>2, <1>3, <1>9, <1>10, <2>1, LogKept
  <1>12. SpillInv'
    <2>1. ASSUME NEW p \in Pages, NEW i \in 1..Len(frame_cache'[p])
          PROVE  ~(frame_cache'[p][i] > shared'.max)
      <3>1. PICK f : f = frame_cache'[p][i]
        OBVIOUS
      <3>2. f <= n /\ f \in Nat
        BY <1>8, <3>1 DEF FrameNumber
      <3> QED  BY <1>3, <1>5, <1>6, <3>1, <3>2
    <2> QED  BY <2>1 DEF SpillInv
  <1>13. /\ pc'[c] = "idle" /\ tx'[c] = NoTx /\ ckpt'[c] = NoCheckpoint /\ pick'[c] = pick[c]
         /\ cache'[c] = EmptyCache /\ guard'[c] = NO_LOCK_HELD
    <2>1. Conns = DOMAIN pc /\ Conns = DOMAIN tx /\ Conns = DOMAIN ckpt /\ Conns = DOMAIN cache /\ Conns = DOMAIN guard
      BY <1>1 DEF LockInv, LockTypes, PcTypes, TxTypes, CkptTypes, ConnTypes
    <2> QED  BY <1>3, <2>1
  <1>14. SnapStep(c) /\ snap'[c].tx <= shared.tx
    <2>1. PICK y, x : y = [snap[c] EXCEPT !.max = shared.max] /\ x = Retained(c, y)
      OBVIOUS
    <2>2. y \in Snapshots /\ y.tx = snap[c].tx
      BY <1>1, <1>5, <1>6, <2>1 DEF Snapshots
    <2>3. x \in Snapshots /\ (x = y \/ x.tx = 0)
      BY <2>1, <2>2 DEF Retained, NoSnapshot, Snapshots
    <2>4. snap' = [snap EXCEPT ![c] = x]
      BY <1>1, <1>3, <2>1 DEF ConnTypes
    <2>5. SnapStep(c) /\ snap'[c] = x
      BY <1>1, <2>3, <2>4, SnapUpdate
    <2>6. 0 <= shared.tx
      BY <1>1, LogParts
    <2> QED  BY <1>1, <2>2, <2>3, <2>5, <2>6
  <1>15. LocalTypes(c)'
    BY <1>1, <1>13, LocalTypesFrom
  <1>16. Moves(c)
    <2>1. CacheStep(c)
      <3>1. EmptyCache \in [Pages -> CachedPages]
        BY DEF EmptyCache, NoPage, CachedPages
      <3> QED  BY <1>3, <3>1 DEF CacheStep
    <2>2. ViewStep(c)
      <3>1. 1 \in 1..Len(history)
        BY <1>1, LogParts
      <3> QED  BY <1>3, <3>1 DEF ViewStep
    <2> QED  BY <1>4, <1>14, <1>15, <2>1, <2>2 DEF Moves
  <1>17. WriteInv(c)' /\ PickInv(c)' /\ CkptInv(base, c)'
    <2>1. pc'[c] \notin Unpublished /\ pc'[c] \notin {"choose", "lock"} /\ pc'[c] \notin CheckpointSteps
          /\ pc'[c] \notin WriteSteps /\ pc'[c] # "vacuum"
      BY <1>13 DEF Unpublished, CheckpointSteps, WriteSteps
    <2>2. tx'[c].dirty = {} /\ ~tx'[c].vacuum
      BY <1>13 DEF NoTx
    <2> QED  BY <2>1, <2>2, VoidParts
  <1>18. ReadInv(base, c)'
    <2>1. pc'[c] \notin Looking /\ guard'[c] \notin Marks
      BY <1>13, BoundsAssumption DEF Looking, NO_LOCK_HELD, Marks
    <2> QED  BY <1>3, <1>14, <2>1, VoidParts
  <1>19. CacheInv(c)'
    BY <1>13, EmptiedCache DEF InTransaction, Unpublished
  <1>20. c \in Writing /\ ~InRestarting(c) /\ pc'[c] # "read"
    BY <1>2, <1>13 DEF Writing, InRestarting
  <1>21. HistoryStep /\ shared.nb <= shared'.nb
    BY <1>1, <1>2, <1>3, LogParts DEF HistoryStep
  <1> QED
    BY <1>2, <1>3, <1>9, <1>10, <1>11, <1>12, <1>16, <1>17, <1>18, <1>19, <1>20, <1>21, ForwardStep

(* A spilled page: a frame behind the writer's last one, before it commits.  *)
LEMMA SpillPageKeeps ==
    ASSUME NEW base, Ready(base), NEW c \in Conns, NEW p \in Pages, SpillPage(c, p)
    PROVE  Reached(base)
  <1>1. /\ LockInv /\ LogTypes /\ ConnTypes /\ ConnType(c) /\ NatMarks
        /\ WriteInv(c) /\ LogInv(base) /\ snap[c].tx <= shared.tx /\ SpillInv
        /\ snap[c] \in Snapshots /\ Tags(c) /\ Content(c) /\ cache[c] \in [Pages -> CachedPages]
    BY ReadyParts
  <1>2. PICK w0, n : /\ w0 = IF shared.init THEN wal ELSE HeaderWritten
                     /\ n = (IF shared.init THEN snap[c].max ELSE 0) + 1
    OBVIOUS
  <1>3. /\ pc[c] = "write" /\ ~tx[c].vacuum /\ p \in tx[c].dirty /\ p \notin tx[c].spilled
        /\ wal' = Written(w0, n, <<Frame(p, tx[c].id, FALSE)>>)
        /\ shared' = [shared EXCEPT !.hdr = TRUE, !.init = TRUE]
        /\ snap' = [snap EXCEPT ![c].max = n, ![c].hdr = TRUE]
        /\ frame_cache' = Cached(frame_cache, p, n)
        /\ cache' = IF cache[c][p].used
                    THEN [cache EXCEPT ![c][p].frame = n, ![c][p].epoch = shared.epoch,
                                       ![c][p].dirty = FALSE]
                    ELSE cache
        /\ tx' = [tx EXCEPT ![c].spilled = @ \union {p}]
        /\ UNCHANGED <<slot, lock, pc, guard, pick, ckpt, db, history, view, txns, crashes>>
    BY <1>2, Zenon DEF SpillPage, bounds
  <1>4. ShapeAfter(c) /\ MarksKept /\ Local(c)
    BY <1>1, WriteShapes, StepKeepsMarks DEF Transaction, ShapeAfter
  <1>5. /\ shared'.max = shared.max /\ shared'.nb = shared.nb /\ shared'.seq = shared.seq
        /\ shared'.tx = shared.tx /\ shared'.init /\ shared'.epoch = shared.epoch
        /\ shared' \in [max : Nat, nb : Nat, seq : Nat, tx : Nat, hdr : BOOLEAN,
                        init : BOOLEAN, epoch : Nat]
    BY <1>1, <1>3 DEF LogTypes
  <1>6. PICK m, k, fr : m = shared.max /\ k = Cardinality(tx[c].spilled) /\ fr = Frame(p, tx[c].id, FALSE)
    OBVIOUS
  <1>7. m \in Nat /\ k \in Nat /\ shared.seq \in Nat /\ Len(wal.frames) \in Nat
    BY <1>1, <1>6, LogParts, Spilled
  <1>8. /\ snap[c].max = m + k /\ m + k <= Len(wal.frames)
        /\ ~shared.init => k = 0 /\ m = 0
    <2>1. snap[c].max = m + k /\ snap[c].max <= Len(wal.frames)
      BY <1>1, <1>3, <1>6 DEF WriteInv
    <2>2. ~shared.init => tx[c].spilled = {} /\ m = 0
      BY <1>1, <1>3, <1>6 DEF WriteInv, Unpublished, LogInv
    <2> QED  BY <1>6, <2>1, <2>2, FS_EmptySet
  <1>9. n = m + k + 1 /\ w0 \in WalFiles /\ m + k <= Len(w0.frames)
        /\ \A i \in 1..m + k : w0.frames[i] = wal.frames[i]
    <2>1. CASE shared.init
      BY <1>1, <1>2, <1>7, <1>8, <2>1 DEF LogTypes, WalFiles
    <2>2. CASE ~shared.init
      <3>1. w0 = HeaderWritten /\ n = 1 /\ m + k = 0
        BY <1>2, <1>7, <1>8, <2>2
      <3>2. <<>> \in Seq(Frames) /\ Len(<<>>) = 0
        OBVIOUS
      <3>3. w0 \in WalFiles /\ Len(w0.frames) = 0
        BY <1>7, <3>1, <3>2 DEF HeaderWritten, WalFiles
      <3>4. m = 0 /\ k = 0
        BY <1>8, <2>2
      <3>5. n = m + k + 1 /\ m + k <= Len(w0.frames)
        BY <3>1, <3>3, <3>4
      <3>6. \A i \in 1..m + k : FALSE
        BY <3>1
      <3> QED  BY <3>3, <3>5, <3>6
    <2> QED  BY <2>1, <2>2
  <1>10. fr \in Frames /\ fr.page = p /\ fr.ver = tx[c].id
    BY <1>1, <1>6 DEF Frame, Frames, ConnType
  <1>11. /\ wal' \in WalFiles /\ Len(wal'.frames) = n
         /\ \A i \in 1..m + k : wal'.frames[i] = wal.frames[i]
         /\ wal'.frames[n] = fr
    <2>1. PICK fs, v, j : fs = <<fr>> /\ v = Written(w0, n, fs) /\ j = m + k
      OBVIOUS
    <2>2. /\ fs \in Seq(Frames) /\ Len(fs) = 1 /\ fs[1] = fr /\ j \in Nat /\ j <= Len(w0.frames)
          /\ n = j + 1 /\ w0 \in WalFiles /\ v = Written(w0, n, fs)
      BY <1>7, <1>9, <1>10, <2>1
    <2>3. WrittenAt(v, w0, j, fs)
      BY <2>2, WrittenIs
    <2>4. wal' = v
      BY <1>3, <1>6, <2>1
    <2>5. WrittenAt(wal', w0, j, fs)
      BY <2>3, <2>4
    <2>6. /\ wal' \in WalFiles /\ Len(wal'.frames) = j + Len(fs)
          /\ \A i \in 1..j : wal'.frames[i] = w0.frames[i]
          /\ \A i \in 1..Len(fs) : wal'.frames[j + i] = fs[i]
      BY <2>5 DEF WrittenAt
    <2>7. wal'.frames[j + 1] = fs[1]
      BY <2>2, <2>6
    <2> QED  BY <1>9, <2>1, <2>2, <2>6, <2>7
  <1>12. n \in FrameNumber /\ n > m /\ m <= Len(wal'.frames)
    BY <1>7, <1>9, <1>11 DEF FrameNumber
  <1>13. PICK s, u : s = frame_cache[p] /\ u = Append(s, n)
    OBVIOUS
  <1>14. /\ frame_cache'[p] = u
         /\ \A q \in Pages \ {p} : frame_cache'[q] = frame_cache[q]
         /\ frame_cache' \in [Pages -> Seq(FrameNumber)] /\ s \in Seq(FrameNumber)
    <2>1. s \in Seq(FrameNumber) /\ frame_cache \in [Pages -> Seq(FrameNumber)]
      BY <1>1, <1>13, LogParts DEF LogTypes
    <2>2. u \in Seq(FrameNumber)
      BY <1>12, <1>13, <2>1, AppendFrame
    <2>3. frame_cache' = [frame_cache EXCEPT ![p] = u]
      BY <1>3, <1>13 DEF Cached
    <2> QED  BY <2>1, <2>2, <2>3
  <1>15. LogTypes'
    <2>1. wal' \in [gen : Nat, frames : Seq(Frames)]
      BY <1>11 DEF WalFiles
    <2> QED  BY <1>1, <1>3, <1>5, <1>14, <2>1 DEF LogTypes
  <1>16. Grows
    <2>4. \A hi \in Nat : LatestOf(u, hi) = IF n <= hi THEN n ELSE LatestOf(s, hi)
      <3>1. s \in Seq(FrameNumber) /\ n \in FrameNumber /\ u = Append(s, n)
        BY <1>12, <1>13, <1>14
      <3> QED  BY <3>1, AppendFrame
    <2>1. ASSUME NEW b \in 0..m
          PROVE  LatestOf(u, b) = LatestOf(s, b) /\ (InOrderAt(s, b) => InOrderAt(u, b))
      <3>1. b \in Nat /\ n > b /\ ~(n <= b)
        BY <1>7, <1>9
      <3>2. LatestOf(u, b) = LatestOf(s, b)
        BY <2>4, <3>1
      <3>3. ASSUME InOrderAt(s, b)  PROVE InOrderAt(u, b)
        <4>1. s \in Seq(FrameNumber) /\ n \in FrameNumber /\ b \in Nat /\ n > b
          BY <1>12, <1>14, <3>1
        <4>2. InOrderAt(Append(s, n), b)
          BY <3>3, <4>1, InOrderAppend
        <4> QED  BY <1>13, <4>2
      <3> QED  BY <3>2, <3>3
    <2>2. \A f \in 1..m : wal'.frames[f] = wal.frames[f]
      <3>1. \A f \in 1..m : f \in 1..m + k
        BY <1>7
      <3> QED  BY <1>11, <3>1
    <2>3. ASSUME NEW q \in Pages, NEW b \in 0..m
          PROVE  /\ LatestOf(frame_cache'[q], b) = LatestOf(frame_cache[q], b)
                 /\ InOrderAt(frame_cache[q], b) => InOrderAt(frame_cache'[q], b)
      BY <1>13, <1>14, <2>1
    <2> QED  BY <1>5, <1>6, <1>7, <2>2, <2>3 DEF Grows
  <1>17. LogInv(base)' /\ shared'.max <= Len(wal'.frames)
    BY <1>3, <1>5, <1>6, <1>12, <1>15, <1>16, LogKept
  <1>18. /\ pc' = pc /\ pc'[c] = "write" /\ "write" \in WriteSteps /\ "write" \in Unpublished /\ "write" \in Looking
         /\ tx'[c].vacuum = tx[c].vacuum /\ tx'[c].id = tx[c].id /\ tx'[c].dirty = tx[c].dirty
         /\ tx'[c].spilled = tx[c].spilled \union {p}
    <2>1. TxRecord(tx[c]) /\ DOMAIN tx = Conns
      BY <1>1 DEF LockInv, LockTypes, TxTypes
    <2> QED  BY <1>3, <2>1 DEF TxRecord, WriteSteps, Unpublished, Looking
  <1>19. IsFiniteSet(tx[c].spilled) /\ Cardinality(tx'[c].spilled) = k + 1
    <2>1. IsFiniteSet(tx[c].spilled)
      BY Spilled
    <2> QED  BY <1>3, <1>6, <1>18, <2>1, FS_AddElement
  <1>20. SnapStep(c) /\ snap'[c].max = n /\ snap'[c].nb = snap[c].nb /\ snap'[c].tx = snap[c].tx
    <2>1. PICK x : x = [snap[c] EXCEPT !.max = n, !.hdr = TRUE]
      OBVIOUS
    <2>2. snap' = [snap EXCEPT ![c] = x]
      BY <1>1, <1>3, <2>1 DEF ConnTypes, Snapshots
    <2>3. x \in Snapshots /\ x.max = n /\ x.nb = snap[c].nb /\ x.tx = snap[c].tx
      BY <1>1, <1>12, <2>1 DEF Snapshots, FrameNumber
    <2>4. SnapStep(c) /\ snap'[c] = x
      BY <1>1, <2>2, <2>3, SnapUpdate
    <2> QED  BY <2>3, <2>4
  <1>21. LocalTypes(c)'
    <2>1. /\ tx'[c].id \in 0..MaxTxn /\ tx'[c].dirty \subseteq Pages /\ tx'[c].spilled \subseteq tx'[c].dirty
      BY <1>1, <1>3, <1>18 DEF ConnType
    <2> QED  BY <1>1, <1>3, <2>1, LocalTypesFrom
  <1>22. PICK pg : pg = cache[c][p]
    OBVIOUS
  <1>23. PICK x : x = [pg EXCEPT !.frame = n, !.epoch = shared.epoch, !.dirty = FALSE]
    OBVIOUS
  <1>24. /\ x \in CachedPages /\ x.frame = n /\ x.epoch = shared.epoch /\ x.used = pg.used
         /\ x.ver = pg.ver /\ pg \in CachedPages
    <2>1. pg \in CachedPages /\ shared.epoch \in Nat /\ n \in Nat
      BY <1>1, <1>12, <1>22, LogParts DEF FrameNumber
    <2> QED  BY <1>23, <2>1 DEF CachedPages
  <1>25. pg.used => cache' = [cache EXCEPT ![c][p] = x]
    <2>1. cache \in [Conns -> [Pages -> CachedPages]]
      BY <1>1 DEF ConnTypes
    <2> QED  BY <1>3, <1>22, <1>23, <2>1 DEF CachedPages
  <1>26. /\ CacheStep(c) /\ \A q \in Pages \ {p} : cache'[c][q] = cache[c][q]
         /\ pg.used => cache'[c][p] = x
         /\ ~pg.used => cache' = cache
    <2>1. CASE pg.used
      <3>1. cache' = [cache EXCEPT ![c][p] = x]
        BY <1>25, <2>1
      <3> QED  BY <1>1, <1>24, <2>1, <3>1, CacheOne
    <2>2. CASE ~pg.used
      BY <1>3, <1>22, <2>2 DEF CacheStep
    <2> QED  BY <2>1, <2>2
  <1>27. Moves(c)
    BY <1>3, <1>4, <1>20, <1>21, <1>26 DEF Moves, ViewStep
  <1>28. CkptInv(base, c)' /\ PickInv(c)' /\ c \in Writing /\ ~InRestarting(c)
    BY <1>3, <1>18, StillWriting
  <1>29. SpillInv'
    <2>1. ASSUME NEW q \in Pages, NEW i \in 1..Len(frame_cache'[q]), frame_cache'[q][i] > shared'.max
          PROVE  \E e \in Conns : pc'[e] \in Unpublished /\ q \in tx'[e].spilled
      <3>1. CASE q = p
        BY <1>18, <3>1
      <3>2. CASE q # p
        <4>1. frame_cache'[q] = frame_cache[q]
          BY <1>14, <3>2
        <4>2. frame_cache[q][i] > shared.max /\ i \in 1..Len(frame_cache[q])
          BY <1>5, <2>1, <4>1
        <4>3. PICK e \in Conns : pc[e] \in Unpublished /\ q \in tx[e].spilled
          BY <1>1, <4>2 DEF SpillInv
        <4>4. q \in tx'[e].spilled
          BY <1>4, <1>18, <4>3 DEF Local
        <4> QED  BY <1>18, <4>3, <4>4
      <3> QED  BY <3>1, <3>2
    <2> QED  BY <2>1 DEF SpillInv
  <1>30. ASSUME NEW q \in tx'[c].spilled
         PROVE  /\ OwnFrame(c, q)'
                /\ \E f : /\ f = frame_cache'[q][Len(frame_cache'[q])]
                         /\ wal'.frames[f].page = q /\ wal'.frames[f].ver = tx[c].id
    <2>1. CASE q = p
      <3>1. Len(u) = Len(s) + 1 /\ u # <<>> /\ u[Len(u)] = n /\ Len(s) \in Nat
            /\ \A i \in 1..Len(s) : u[i] = s[i]
        BY <1>12, <1>13, <1>14
      <3>2. \A i \in 1..Len(s) : s[i] <= m
        BY <1>3, <1>6, <1>13, <1>28, NoOthersFrames
      <3>3. n \in m + 1..m + (k + 1) /\ \A i \in 1..Len(u) - 1 : u[i] <= m
        <4>1. n \in m + 1..m + (k + 1)
          BY <1>7, <1>9
        <4>2. \A i \in 1..Len(u) - 1 : i \in 1..Len(s)
          BY <3>1
        <4> QED  BY <3>1, <3>2, <4>1, <4>2
      <3>4. OwnFrame(c, q)'
        BY <1>5, <1>6, <1>14, <1>19, <2>1, <3>1, <3>3 DEF OwnFrame
      <3> QED  BY <1>10, <1>11, <1>14, <2>1, <3>1, <3>4
    <2>2. CASE q # p
      <3>1. q \in tx[c].spilled /\ q \in Pages
        BY <1>1, <1>18, <2>2 DEF ConnType
      <3>2. frame_cache'[q] = frame_cache[q]
        BY <1>14, <2>2, <3>1
      <3>3. PICK t, f : t = frame_cache[q] /\ f = t[Len(t)]
        OBVIOUS
      <3>4. /\ t # <<>> /\ f \in m + 1..m + k /\ \A i \in 1..Len(t) - 1 : t[i] <= m
            /\ wal.frames[f].page = q /\ wal.frames[f].ver = tx[c].id
        <4>1. OwnFrame(c, q)
          BY <1>1, <1>18, <1>3, <3>1 DEF WriteInv
        <4>2. wal.frames[f].page = q /\ wal.frames[f].ver = tx[c].id
          BY <1>1, <1>3, <3>1, <3>3 DEF WriteInv
        <4> QED  BY <1>6, <3>3, <4>1, <4>2 DEF OwnFrame
      <3>5. f \in m + 1..m + (k + 1) /\ f \in 1..m + k
        BY <1>7, <3>4
      <3>6. OwnFrame(c, q)'
        BY <1>5, <1>6, <1>19, <3>2, <3>3, <3>4, <3>5 DEF OwnFrame
      <3> QED  BY <1>11, <3>2, <3>3, <3>4, <3>5, <3>6
    <2> QED  BY <2>1, <2>2
  <1>31. WriteInv(c)'
    <2>1. snap[c].tx = shared.tx /\ history[view[c]] = Last(history)
      BY <1>1, <1>3, <1>18 DEF WriteInv
    <2>2. snap'[c].max = shared'.max + Cardinality(tx'[c].spilled) /\ snap'[c].max <= Len(wal'.frames)
      <3>1. n = m + (k + 1) /\ n <= n
        BY <1>7, <1>9
      <3> QED  BY <1>5, <1>6, <1>11, <1>19, <1>20, <3>1
    <2>3. \A q \in tx'[c].spilled :
             LET f == frame_cache'[q][Len(frame_cache'[q])]
             IN  wal'.frames[f].page = q /\ wal'.frames[f].ver = tx'[c].id
      BY <1>18, <1>30
    <2>4. history' = history /\ view' = view /\ ~tx'[c].vacuum
      BY <1>3, <1>18
    <2> QED  BY <1>5, <1>18, <1>20, <1>30, <2>1, <2>2, <2>3, <2>4 DEF WriteInv
  <1>32. HistoryStep /\ shared.nb <= shared'.nb
    BY <1>1, <1>3, <1>5, LogParts DEF HistoryStep
  <1>33. CacheInv(c)'
    <2>1. Restarting # {} => Restarting' # {}
      BY <1>4, <1>28, RestartingKept
    <2>2. ASSUME NEW q \in Pages  PROVE Tagged(c, q)'
      <3>1. CASE q = p
        <4>1. CASE pg.used
          <5>1. cache'[c][q] = x
            BY <1>26, <3>1, <4>1
          <5>2. c \in Caching
            BY <1>1, <1>22, <4>1 DEF Tags
          <5>3. x.epoch <= shared'.epoch /\ x.frame > shared'.max
            BY <1>1, <1>5, <1>6, <1>12, <1>24, LogParts
          <5> QED  BY <1>18, <3>1, <5>1, <5>2, <5>3 DEF Tagged
        <4>2. CASE ~pg.used
          BY <1>22, <1>26, <3>1, <4>2 DEF Tagged
        <4> QED  BY <4>1, <4>2
      <3>2. CASE q # p
        <4>1. cache'[c][q] = cache[c][q] /\ (q \in tx'[c].spilled <=> q \in tx[c].spilled)
          BY <1>18, <1>26, <3>2
        <4> QED  BY <1>5, <1>15, <1>16, <1>17, <1>18, <2>1, <4>1, TagGrows
      <3> QED  BY <3>1, <3>2
    <2>3. Content(c)'
      <3>1. \A q \in Pages : cache'[c][q].used = cache[c][q].used /\ cache'[c][q].ver = cache[c][q].ver
        BY <1>22, <1>24, <1>26
      <3>2. pc'[c] \in InTransaction /\ pc[c] \in InTransaction /\ ~tx'[c].vacuum
        BY <1>3, <1>18 DEF InTransaction
      <3>3. \A q \in Pages :
              /\ q \in tx[c].dirty /\ c \in Caching => cache[c][q].used
              /\ cache[c][q].used => cache[c][q].ver = IF q \in tx[c].dirty THEN tx[c].id ELSE history[view[c]][q]
        BY <1>1, <1>3, <3>2 DEF Content
      <3>4. history'[view'[c]] = history[view[c]]
        BY <1>3
      <3> QED  BY <1>18, <3>1, <3>2, <3>3, <3>4 DEF Content
    <2> QED  BY <2>2, <2>3, TagsTagged DEF CacheInv
  <1>34. ReadInv(base, c)'
    <2>1. snap'[c].tx <= shared'.tx
      BY <1>1, <1>5, <1>20
    <2>2. guard'[c] = guard[c] /\ view'[c] = view[c] /\ pc'[c] # "read" /\ pc[c] # "read" /\ pc[c] \in Looking
      BY <1>3, <1>18
    <2> QED  BY <1>3, <1>4, <1>5, <1>15, <1>16, <1>20, <1>32, <2>1, <2>2, ReadGrows
  <1>35. pc'[c] # "read"
    BY <1>18
  <1> QED
    BY <1>3, <1>5, <1>15, <1>16, <1>17, <1>27, <1>28, <1>29, <1>31, <1>32, <1>33, <1>34, <1>35, ForwardStep

-----------------------------------------------------------------------------
(* Steps of a checkpoint that change the files or what is backfilled.       *)

LEMMA OutsideForward ==
    ASSUME NEW base, Ready(base), NEW c \in Conns, ShapeAfter(c), MarksKept, LogTypes', Grows,
           UNCHANGED <<frame_cache, history, snap, view, cache>>,
           shared'.max = shared.max, shared'.tx = shared.tx, shared'.seq = shared.seq,
           shared'.epoch = shared.epoch, shared.nb <= shared'.nb,
           pc[c] \in CheckpointSteps \ {"finalize"}, pc'[c] \in CheckpointSteps \union {"idle"},
           tx'[c] = tx[c] \/ tx'[c] = NoTx, pc'[c] = "idle" => tx'[c] = NoTx,
           LocalTypes(c)', CkptInv(base, c)', LogInv(base)', LogStill \/ c \in Writing,
           \A d \in Conns \ {c} : pc[d] \in Looking =>
               \A nb, m : nb = snap[d].nb /\ m = ViewMax(d) => db' = db \/ FileServes(base, nb, m)'
    PROVE  Reached(base)
  <1>1. /\ LockInv /\ LogTypes /\ ConnTypes
        /\ WriteInv(c) /\ Tags(c) /\ Content(c) /\ SpillInv
        /\ HeldAt(c) /\ snap[c].tx <= shared.tx /\ cache[c] \in [Pages -> CachedPages]
    BY ReadyParts
  <1>2. HeldAt(c)' /\ Local(c)
    BY DEF ShapeAfter
  <1>3. /\ pc[c] \notin Unpublished /\ pc'[c] \notin Unpublished /\ pc'[c] \notin Looking
        /\ pc[c] \notin WriteSteps /\ pc'[c] \notin WriteSteps /\ pc'[c] # "read"
        /\ pc[c] \notin InTransaction /\ pc'[c] \notin InTransaction
        /\ pc'[c] \notin {"choose", "lock"} /\ pc[c] \in CheckpointSteps
    BY DEF Unpublished, Looking, WriteSteps, CheckpointSteps, InTransaction
  <1>4. guard'[c] = NO_LOCK_HELD /\ guard'[c] \notin Marks
    BY <1>2, <1>3, BoundsAssumption DEF HeldAt, NO_LOCK_HELD, Marks
  <1>5. Moves(c)
    BY DEF Moves, SnapStep, CacheStep, ViewStep
  <1>6. tx'[c].vacuum => tx[c].vacuum /\ tx'[c] = tx[c]
    BY DEF NoTx
  <1>7. WriteInv(c)'
    <2>1. pc'[c] \notin WriteSteps \union CheckpointSteps => tx'[c].dirty = {}
      BY DEF NoTx
    <2> QED  BY <1>3, <2>1, VoidParts
  <1>8. ReadInv(base, c)' /\ PickInv(c)'
    BY <1>1, <1>3, <1>4, VoidParts
  <1>9. CacheInv(c)'
    <2>1. Restarting # {} => Restarting' # {}
      BY <1>2, RestartingKept DEF InRestarting
    <2>2. shared'.max <= Len(wal'.frames)
      BY DEF LogInv
    <2>3. ASSUME NEW p \in Pages  PROVE Tagged(c, p)'
      BY <1>3, <2>1, <2>2, TagGrows
    <2>4. Content(c)'
      <3>1. ASSUME NEW p \in Pages, snap[c].tx = shared.tx, cache[c][p].used, ~tx'[c].vacuum
            PROVE  cache[c][p].ver = Last(history)[p]
        <4>1. CASE tx[c].vacuum
          BY <1>1, <1>3, <3>1, <4>1 DEF Content
        <4>2. CASE ~tx[c].vacuum
          BY <1>1, <1>3, <3>1, <4>2 DEF Content
        <4> QED  BY <4>1, <4>2
      <3>2. ASSUME tx'[c].vacuum, NEW p \in Pages
            PROVE  ~cache[c][p].used
        BY <1>1, <1>3, <1>6, <3>2 DEF Content
      <3> QED  BY <1>3, <3>1, <3>2 DEF Content
    <2> QED  BY <2>3, <2>4, TagsTagged DEF CacheInv
  <1>10. SpillInv'
    <2>1. \A e \in Conns : pc[e] \in Unpublished => pc'[e] \in Unpublished /\ tx'[e] = tx[e]
      BY <1>2, <1>3 DEF Local
    <2> QED  BY <1>1, <2>1 DEF SpillInv
  <1>11. c \in Checkpointers \union Vacuumers /\ HistoryStep /\ ~InRestarting(c)
    BY <1>3, CkptParts DEF HistoryStep, InRestarting
  <1> QED  BY <1>3, <1>5, <1>7, <1>8, <1>9, <1>10, <1>11, ForwardStep

(* The log is cut to zero bytes, or that fails: it was restarted before, so  *)
(* it has no frames.                                                        *)
LEMMA TruncateKeeps ==
    ASSUME NEW base, Ready(base), NEW c \in Conns,
           TruncateWal(c) \/ (CheckpointFails(c) /\ pc[c] = "truncate")
    PROVE  Reached(base)
  <1>1. /\ LockInv /\ LogTypes /\ ConnTypes /\ ConnType(c) /\ NatMarks /\ LogInv(base) /\ HeldAt(c)
    BY ReadyParts
  <1>2. /\ pc[c] = "truncate" /\ shared' = [shared EXCEPT !.init = FALSE]
        /\ wal' = wal \/ wal' = [gen |-> NoHeader, frames |-> <<>>]
        /\ UNCHANGED <<frame_cache, snap, guard, pick, cache, db, history, view, txns, crashes>>
    BY DEF TruncateWal, CheckpointFails, files, ghosts, bounds
  <1>3. ShapeAfter(c) /\ MarksKept /\ Local(c)
    <2>1. CheckpointStep(c)
      BY DEF CheckpointStep
    <2> QED  BY <1>1, <2>1, CheckpointShapes, StepKeepsMarks DEF ShapeAfter
  <1>4. /\ shared'.max = shared.max /\ shared'.nb = shared.nb /\ shared'.seq = shared.seq
        /\ shared'.tx = shared.tx /\ ~shared'.init /\ shared'.epoch = shared.epoch
        /\ shared' \in [max : Nat, nb : Nat, seq : Nat, tx : Nat, hdr : BOOLEAN,
                        init : BOOLEAN, epoch : Nat]
    BY <1>1, <1>2 DEF LogTypes
  <1>5. pc[c] \in CheckpointSteps /\ ckpt[c].mode = "Truncate" /\ RestartsLog(ckpt[c].mode)
        /\ shared.max = 0 /\ c \in Writing
    <2>1. pc[c] \in CheckpointSteps
      BY <1>2 DEF CheckpointSteps
    <2>2. ckpt[c].mode = "Truncate"
      BY <1>2, <2>1, CkptParts
    <2>3. RestartsLog(ckpt[c].mode)
      BY <2>2 DEF RestartsLog
    <2>4. shared.max = 0
      BY <1>2, <2>1, <2>3, CkptParts
    <2>5. c \in Writing
      BY <1>1, <1>2, <2>2 DEF HeldAt, Writing, GuardKind
    <2> QED  BY <2>1, <2>2, <2>3, <2>4, <2>5
  <1>6. LogTypes'
    <2>1. wal' \in [gen : Nat, frames : Seq(Frames)]
      <3>1. NoHeader \in Nat /\ <<>> \in Seq(Frames)
        BY BoundsAssumption DEF NoHeader
      <3>2. [gen |-> NoHeader, frames |-> <<>>] \in [gen : Nat, frames : Seq(Frames)]
        BY <3>1
      <3>3. wal \in [gen : Nat, frames : Seq(Frames)]
        BY <1>1 DEF LogTypes
      <3> QED  BY <1>2, <3>2, <3>3
    <2>2. NatMarks'
      <3>1. CASE TruncateWal(c)
        <4>1. slot' = slot
          BY <3>1 DEF TruncateWal
        <4> QED  BY <1>1, <4>1, MarkSteps
      <3>2. CASE CheckpointFails(c)
        <4>1. slot' = ReleasedSlots(c)
          BY <3>2 DEF CheckpointFails
        <4> QED  BY <1>1, <4>1, ReleasedMarks
      <3> QED  BY <3>1, <3>2
    <2> QED  BY <1>1, <1>2, <1>4, <2>1, <2>2 DEF LogTypes, NatMarks
  <1>7. Grows
    <2>1. \A f \in 1..shared.max : FALSE
      BY <1>5
    <2> QED  BY <1>2, <1>4, <1>5, <2>1 DEF Grows
  <1>8. LogInv(base)'
    <2>1. shared'.max <= Len(wal'.frames)
      BY <1>4, <1>5, <1>6, LogPartsNext
    <2> QED  BY <1>2, <1>4, <1>5, <1>6, <1>7, <2>1, LogKept
  <1>9. \/ pc'[c] = "truncated" /\ tx'[c] = tx[c] /\ ckpt'[c] = ckpt[c]
        \/ pc'[c] = "idle" /\ tx'[c] = NoTx /\ ckpt'[c] = NoCheckpoint
    <2>1. Conns = DOMAIN pc /\ Conns = DOMAIN tx /\ Conns = DOMAIN ckpt
      BY <1>1 DEF LockInv, LockTypes, PcTypes, TxTypes, CkptTypes
    <2>2. CASE TruncateWal(c)
      BY <2>1, <2>2 DEF TruncateWal
    <2>3. CASE CheckpointFails(c)
      BY <2>1, <2>3 DEF CheckpointFails, EndCheckpoint
    <2> QED  BY <2>2, <2>3
  <1>10. LocalTypes(c)'
    BY <1>1, <1>2, <1>9, LocalTypesFrom
  <1>11. CkptInv(base, c)'
    <2>1. CASE pc'[c] = "truncated" /\ tx'[c] = tx[c] /\ ckpt'[c] = ckpt[c]
      <3>1. PICK q, mode, old, max : q = "truncated" /\ mode = ckpt[c].mode /\ old = ckpt[c].old /\ max = ckpt[c].max
        OBVIOUS
      <3>2. q \in CheckpointSteps /\ ~CopyingAt(q, mode)
        BY <3>1 DEF CheckpointSteps, CopyingAt
      <3>3. c \in Checkpointers \union Vacuumers /\ (tx[c].vacuum \/ Writers \subseteq {c})
        BY <1>5, CkptParts
      <3> QED  BY <1>4, <1>5, <2>1, <3>1, <3>2, <3>3, CkptFrom
    <2>2. CASE pc'[c] = "idle" /\ tx'[c] = NoTx /\ ckpt'[c] = NoCheckpoint
      <3>1. HeldAt(c)'
        BY <1>3 DEF ShapeAfter
      <3> QED  BY <2>2, <3>1, NotVacuumOutside
    <2> QED  BY <1>9, <2>1, <2>2
  <1>12. /\ pc[c] \in CheckpointSteps \ {"finalize"} /\ pc'[c] \in CheckpointSteps \union {"idle"}
         /\ (tx'[c] = tx[c] \/ tx'[c] = NoTx) /\ (pc'[c] = "idle" => tx'[c] = NoTx)
    BY <1>2, <1>9 DEF CheckpointSteps
  <1>13. shared.nb <= shared'.nb
    BY <1>1, <1>4, LogParts
  <1> QED
    BY <1>2, <1>3, <1>4, <1>5, <1>6, <1>7, <1>8, <1>10, <1>11, <1>12, <1>13, OutsideForward

(* Once every newest frame up to k is copied, the file serves from k on.    *)
LEMMA CopiedServes ==
    ASSUME LogTypes, NEW base, NEW a \in Nat, NEW k \in Nat, NEW m \in Nat, k <= m,
           FileServes(base, a, m),
           \A p \in Pages : LatestOf(frame_cache[p], k) > a => db[p] = ImageAt(base, k)[p]
    PROVE  FileServes(base, k, m)
  <1>1. SUFFICES ASSUME NEW p \in Pages, LatestOf(frame_cache[p], m) <= k
                 PROVE  db[p] = ImageAt(base, m)[p]
    BY DEF FileServes
  <1>2. PICK s, g : s = frame_cache[p] /\ g = LatestOf(s, m)
    OBVIOUS
  <1>3. s \in Seq(FrameNumber) /\ g \in Nat /\ g <= k
    <2>1. s \in Seq(FrameNumber)
      BY <1>2, LogParts
    <2>2. LatestOf(s, m) \in 0..m
      BY <2>1, LatestRange
    <2> QED  BY <1>1, <1>2, <2>1, <2>2
  <1>4. LatestOf(s, k) = g
    BY <1>2, <1>3, LatestBelow
  <1>5. ImageAt(base, m)[p] = ImageAt(base, k)[p]
    BY <1>2, <1>4 DEF ImageAt
  <1>6. CASE g > a
    BY <1>2, <1>4, <1>5, <1>6
  <1>7. CASE g <= a
    BY <1>2, <1>7 DEF FileServes
  <1> QED  BY <1>3, <1>6, <1>7

LEMMA PublishBackfillKeeps ==
    ASSUME NEW base, Ready(base), NEW c \in Conns, PublishBackfill(c)
    PROVE  Reached(base)
  <1>1. /\ LockInv /\ LogTypes /\ ConnTypes /\ ConnType(c) /\ NatMarks /\ LogInv(base) /\ HeldAt(c)
    BY ReadyParts
  <1>2. PICK k, m, n : k = ckpt[c].max /\ m = shared.max /\ n = shared.nb
    OBVIOUS
  <1>3. /\ pc[c] = "backfilled" /\ shared' = [shared EXCEPT !.nb = k]
        /\ pc' = [pc EXCEPT ![c] = "finish"]
        /\ UNCHANGED <<frame_cache, slot, lock, snap, guard, pick, tx, ckpt, cache, wal, db, history, view, txns, crashes>>
    BY <1>2 DEF PublishBackfill, BackfilledTo, files, ghosts, bounds
  <1>4. ShapeAfter(c) /\ MarksKept /\ Local(c)
    <2>1. CheckpointStep(c)
      BY DEF CheckpointStep
    <2> QED  BY <1>1, <2>1, CheckpointShapes, StepKeepsMarks DEF ShapeAfter
  <1>5. /\ k \in Nat /\ m \in Nat /\ n \in Nat /\ ~RestartsLog(ckpt[c].mode)
        /\ c \in Checkpointers \union Vacuumers
        /\ ckpt[c].old = n /\ Boundary(k) /\ Copied(base, c) /\ ckpt[c].todo = {} /\ k > n
    <2>1. pc[c] \in CheckpointSteps
      BY <1>3 DEF CheckpointSteps
    <2>2. ~RestartsLog(ckpt[c].mode)
      BY <1>3, <2>1, CkptParts
    <2>3. CopyingAt(pc[c], ckpt[c].mode)
      BY <1>3, <2>2 DEF CopyingAt
    <2> QED  BY <1>1, <1>2, <1>3, <2>1, <2>2, <2>3, CkptParts, LogParts
  <1>6. k <= m /\ Boundary(m)
    BY <1>1, <1>2, <1>5 DEF Boundary, LogInv
  <1>7. /\ shared'.max = m /\ shared'.nb = k /\ shared'.seq = shared.seq
        /\ shared'.tx = shared.tx /\ shared'.init = shared.init /\ shared'.epoch = shared.epoch
        /\ shared' \in [max : Nat, nb : Nat, seq : Nat, tx : Nat, hdr : BOOLEAN,
                        init : BOOLEAN, epoch : Nat]
    BY <1>1, <1>2, <1>3, <1>5 DEF LogTypes
  <1>8. LogTypes'
    BY <1>1, <1>3, <1>7 DEF LogTypes
  <1>9. Grows
    BY <1>2, <1>3, <1>5, <1>7 DEF Grows
  <1>10. FileServes(base, k, m)
    <2>1. FileServes(base, n, m)
      BY <1>1, <1>2 DEF LogInv
    <2>2. \A p \in Pages : LatestOf(frame_cache[p], k) > n => db[p] = ImageAt(base, k)[p]
      BY <1>2, <1>5 DEF Copied
    <2> QED  BY <1>1, <1>5, <1>6, <2>1, <2>2, CopiedServes
  <1>11. LogInv(base)'
    <2>1. Boundary(k)' /\ Boundary(m)' /\ ImageAt(base, m)' = ImageAt(base, m)
      BY <1>1, <1>5, <1>6, <1>8, <1>9, GrowsKeeps
    <2>2. FileServes(base, k, m)'
      BY <1>1, <1>3, <1>6, <1>8, <1>9, <1>10, ServesKept
    <2>3. /\ m <= Len(wal.frames) /\ (~shared.init => m = 0) /\ ImageAt(base, m) = Last(history)
      BY <1>1, <1>2 DEF LogInv
    <2>4. Boundary(shared.nb)' /\ Boundary(shared.max)'
      BY <1>7, <2>1 DEF Boundary
    <2>5. ImageAt(base, shared.max)' = Last(history)'
      BY <1>3, <1>7, <2>1, <2>3 DEF ImageAt
    <2>6. FileServes(base, shared.nb, shared.max)'
      BY <1>7, <2>2 DEF FileServes, ImageAt
    <2> QED  BY <1>3, <1>6, <1>7, <2>3, <2>4, <2>5, <2>6 DEF LogInv
  <1>12. pc'[c] = "finish" /\ tx'[c] = tx[c] /\ ckpt'[c] = ckpt[c]
    BY <1>1, <1>3 DEF LockInv, LockTypes, PcTypes
  <1>13. LocalTypes(c)'
    BY <1>1, <1>3, <1>12, LocalTypesFrom
  <1>14. CkptInv(base, c)'
    <2>1. PICK q, mode, old, max : q = "finish" /\ mode = ckpt[c].mode /\ old = ckpt[c].old /\ max = ckpt[c].max
      OBVIOUS
    <2>2. q \in CheckpointSteps /\ ~CopyingAt(q, mode)
      BY <2>1 DEF CheckpointSteps, CopyingAt
    <2> QED  BY <1>5, <1>12, <2>1, <2>2, CkptFrom
  <1>15. LogStill
    BY <1>2, <1>3, <1>7 DEF LogStill
  <1>16. pc[c] \in CheckpointSteps \ {"finalize"} /\ pc'[c] \in CheckpointSteps \union {"idle"}
         /\ pc'[c] # "idle" /\ shared.nb <= shared'.nb
    BY <1>2, <1>3, <1>5, <1>7, <1>12 DEF CheckpointSteps
  <1> QED
    BY <1>2, <1>3, <1>4, <1>7, <1>8, <1>9, <1>11, <1>12, <1>13, <1>14, <1>15, <1>16, OutsideForward

(* What a checkpoint copies for a page is the page as of its bound.         *)
LEMMA CopiedContent ==
    ASSUME NEW base, Ready(base), NEW c \in Conns, pc[c] = "backfill", NEW k, k = ckpt[c].max,
           NEW p \in Pages, NEW f, f = LatestOf(frame_cache[p], k), f > shared.nb,
           NEW v, v = IF ValidForCheckpoint(cache[c][p], f)
                      THEN cache[c][p].ver ELSE FrameContent(wal, f, p)
    PROVE  v = ImageAt(base, k)[p] /\ v \in 0..MaxTxn
  <1>1. /\ LockInv /\ LogTypes /\ LogInv(base) /\ HeldAt(c) /\ Tags(c)
    BY ReadyParts
  <1>2. Boundary(k)
    <2>1. pc[c] \in CheckpointSteps /\ CopyingAt(pc[c], ckpt[c].mode)
      BY DEF CheckpointSteps, CopyingAt
    <2> QED  BY <2>1, CkptParts
  <1>3. k \in 0..shared.max /\ frame_cache[p] \in Seq(FrameNumber) /\ shared.max \in Nat /\ shared.nb \in Nat
        /\ shared.max <= Len(wal.frames) /\ Len(wal.frames) \in Nat /\ DOMAIN wal.frames = 1..Len(wal.frames)
    BY <1>1, <1>2, LogParts DEF Boundary, LogInv
  <1>4. f \in 1..k
    <2>1. k \in Nat
      BY <1>3
    <2>2. LatestOf(frame_cache[p], k) \in 0..k
      BY <1>3, <2>1, LatestRange
    <2> QED  BY <1>3, <2>1, <2>2
  <1>5. f \in DOMAIN wal.frames /\ f # 0
    BY <1>3, <1>4
  <1>6. wal.frames[f].page = p
    BY <1>2, <1>5 DEF Boundary
  <1>7. ImageAt(base, k)[p] = wal.frames[f].ver
    BY <1>5 DEF ImageAt
  <1>8. wal.frames[f] \in Frames
    BY <1>1, <1>3, <1>5, LogParts
  <1>9. FrameContent(wal, f, p) = wal.frames[f].ver
    BY <1>5, <1>6 DEF FrameContent
  <1>10. ASSUME ValidForCheckpoint(cache[c][p], f)  PROVE cache[c][p].ver = FrameContent(wal, f, p)
    <2>1. Restarting = {}
      <3>1. ASSUME NEW d \in Restarting  PROVE FALSE
        <4>1. d \in Conns /\ pc[d] = "finalize" /\ HeldAt(d)
          BY <1>1, <3>1 DEF Restarting, LockInv, HeldByPc
        <4>2. d \in Checkpointing /\ c \in Checkpointing
          BY <1>1, <4>1 DEF HeldAt, GuardKind, Checkpointing
        <4>3. d = c
          BY <1>1, <4>2 DEF LockInv, LockWords, AtMostOne
        <4> QED  BY <4>1, <4>3
      <3> QED  BY <3>1
    <2>2. pc[c] \notin Unpublished
      BY DEF Unpublished
    <2> QED  BY <1>1, <1>5, <1>10, <2>1, <2>2 DEF Tags, ValidForCheckpoint
  <1> QED  BY <1>7, <1>8, <1>9, <1>10 DEF Frames

LEMMA BackfillKeeps ==
    ASSUME NEW base, Ready(base), NEW c \in Conns, Backfill(c)
    PROVE  Reached(base)
  <1>1. /\ LockInv /\ LogTypes /\ ConnTypes /\ ConnType(c) /\ NatMarks /\ LogInv(base) /\ HeldAt(c)
    BY ReadyParts
  <1>2. PICK k, m, n : k = ckpt[c].max /\ m = shared.max /\ n = shared.nb
    OBVIOUS
  <1>3. /\ pc[c] = "backfill"
        /\ UNCHANGED <<shared, frame_cache, slot, lock, pc, snap, guard, pick, tx, cache, wal, history, view, txns, crashes>>
    BY DEF Backfill, ghosts, bounds
  <1>4. PICK t \in ckpt[c].todo :
            LET p == t[1]
                v == IF ValidForCheckpoint(cache[c][p], t[2])
                     THEN cache[c][p].ver ELSE FrameContent(wal, t[2], p)
            IN  /\ db' = [db EXCEPT ![p] = v]
                /\ ckpt' = [ckpt EXCEPT ![c].todo = @ \ {t}]
    BY DEF Backfill
  <1>5. ShapeAfter(c) /\ MarksKept /\ Local(c)
    <2>1. CheckpointStep(c)
      BY DEF CheckpointStep
    <2> QED  BY <1>1, <2>1, CheckpointShapes, StepKeepsMarks DEF ShapeAfter
  <1>6. /\ k \in Nat /\ m \in Nat /\ n \in Nat
        /\ c \in Checkpointers \union Vacuumers /\ CkptRecord(ckpt[c]) /\ DOMAIN ckpt = Conns
        /\ n < m \/ RestartsLog(ckpt[c].mode)
        /\ ckpt[c].old = n /\ Boundary(k) /\ Copied(base, c) /\ ReadersAhead(c)
        /\ RestartsLog(ckpt[c].mode) => tx[c].vacuum \/ Writers \subseteq {c}
    <2>1. pc[c] \in CheckpointSteps /\ CopyingAt(pc[c], ckpt[c].mode)
      BY <1>3 DEF CheckpointSteps, CopyingAt
    <2> QED  BY <1>1, <1>2, <1>3, <2>1, CkptParts, LogParts
  <1>7. PICK p, f : p \in Pages /\ t = <<p, f>> /\ f = LatestOf(frame_cache[p], k) /\ f > n
    BY <1>2, <1>6 DEF Copied
  <1>8. PICK v : v = IF ValidForCheckpoint(cache[c][p], f)
                     THEN cache[c][p].ver ELSE FrameContent(wal, f, p)
    OBVIOUS
  <1>9. db' = [db EXCEPT ![p] = v] /\ ckpt' = [ckpt EXCEPT ![c].todo = @ \ {t}]
    <2>1. t[1] = p /\ t[2] = f
      BY <1>7
    <2> QED  BY <1>4, <1>8, <2>1
  <1>10. v = ImageAt(base, k)[p] /\ v \in 0..MaxTxn
    <2>1. k = ckpt[c].max /\ f > shared.nb /\ f = LatestOf(frame_cache[p], k)
      BY <1>2, <1>7
    <2> QED  BY <1>3, <1>7, <1>8, <2>1, CopiedContent
  <1>11. db' \in Images /\ db'[p] = v /\ \A q \in Pages : q # p => db'[q] = db[q]
    BY <1>1, <1>7, <1>9, <1>10 DEF LogTypes, Images
  <1>12. /\ ckpt'[c].mode = ckpt[c].mode /\ ckpt'[c].old = n /\ ckpt'[c].max = k
         /\ ckpt'[c].scan = ckpt[c].scan /\ ckpt'[c].todo = ckpt[c].todo \ {t}
    BY <1>2, <1>6, <1>9 DEF CkptRecord
  <1>13. LogTypes'
    BY <1>1, <1>3, <1>11 DEF LogTypes
  <1>14. Grows
    BY <1>2, <1>3, <1>6 DEF Grows
  <1>15. \A b : ImageAt(base, b)' = ImageAt(base, b) /\ (Boundary(b)' <=> Boundary(b))
    BY <1>3 DEF ImageAt, Boundary
  <1>16. ASSUME NEW a \in Nat, NEW b \in Nat, a <= n, k <= b, FileServes(base, a, b)
         PROVE  FileServes(base, a, b)'
    <2>1. ASSUME NEW q \in Pages, LatestOf(frame_cache[q], b) <= a
          PROVE  db'[q] = ImageAt(base, b)[q]
      <3>1. CASE q # p
        BY <1>11, <1>16, <2>1, <3>1 DEF FileServes
      <3>2. CASE q = p
        <4>1. frame_cache[p] \in Seq(FrameNumber)
          BY <1>1, <1>7, LogParts
        <4>2. LatestOf(frame_cache[p], k) <= LatestOf(frame_cache[p], b)
          BY <1>6, <1>16, <4>1, LatestBelow
        <4>3. LatestOf(frame_cache[p], b) \in 0..b /\ LatestOf(frame_cache[p], k) \in 0..k
          BY <1>6, <1>16, <4>1, LatestRange
        <4>4. PICK g : g = LatestOf(frame_cache[p], b)
          OBVIOUS
        <4>5. g \in Nat /\ f \in Nat /\ f <= g /\ f > n /\ g <= a
          BY <1>7, <2>1, <3>2, <4>2, <4>3, <4>4
        <4> QED  BY <1>6, <1>16, <4>5
      <3> QED  BY <3>1, <3>2
    <2> QED  BY <1>3, <1>15, <2>1 DEF FileServes
  <1>17. k <= m
    BY <1>2, <1>6 DEF Boundary
  <1>18. LogInv(base)'
    <2>1. FileServes(base, n, m)'
      <3>1. FileServes(base, n, m) /\ n <= n
        BY <1>1, <1>2, <1>6 DEF LogInv
      <3> QED  BY <1>6, <1>16, <1>17, <3>1
    <2>2. FileServes(base, shared.nb, shared.max)'
      BY <1>2, <1>3, <2>1 DEF FileServes, ImageAt
    <2> QED  BY <1>1, <1>3, <1>15, <2>2 DEF LogInv
  <1>19. \A d \in Conns \ {c} : pc[d] \in Looking =>
               \A nb, b : nb = snap[d].nb /\ b = ViewMax(d) => db' = db \/ FileServes(base, nb, b)'
    <2>1. SUFFICES ASSUME NEW d \in Conns \ {c}, pc[d] \in Looking, NEW nb, NEW b, nb = snap[d].nb, b = ViewMax(d)
                   PROVE  FileServes(base, nb, b)'
      OBVIOUS
    <2>2. ReadInv(base, d) /\ snap[d] \in Snapshots
      BY ReadyParts
    <2>3. Sees(base, nb, b, view[d]) /\ nb <= n
      BY <1>2, <2>1, <2>2 DEF ReadInv
    <2>4. FileServes(base, nb, b) /\ nb \in Nat
      BY <2>1, <2>2, <2>3 DEF Sees, Snapshots
    <2>5. b \in Nat /\ k <= b
      <3>1. CASE pc[d] = "read"
        <4>1. b = snap[d].max
          BY <2>1, <3>1 DEF ViewMax
        <4>2. k <= snap[d].max
          BY <1>2, <1>3, <1>6, <3>1 DEF ReadersAhead
        <4> QED  BY <2>2, <4>1, <4>2 DEF Snapshots
      <3>2. CASE pc[d] # "read"
        BY <1>2, <1>6, <1>17, <2>1, <3>2 DEF ViewMax
      <3> QED  BY <3>1, <3>2
    <2> QED  BY <1>16, <2>3, <2>4, <2>5
  <1>20. Copied(base, c)'
    <2>1. ASSUME NEW q \in Pages, NEW g, g = LatestOf(frame_cache[q], k), g > n
          PROVE  <<q, g>> \in ckpt'[c].todo \/ db'[q] = ImageAt(base, k)[q]
      <3>1. CASE q = p
        BY <1>10, <1>11, <3>1
      <3>2. CASE q # p
        <4>1. <<q, g>> \in ckpt[c].todo \/ db[q] = ImageAt(base, k)[q]
          BY <1>2, <1>6, <2>1 DEF Copied
        <4>2. <<q, g>> # t
          BY <1>7, <3>2
        <4> QED  BY <1>11, <1>12, <3>2, <4>1, <4>2
      <3> QED  BY <3>1, <3>2
    <2>2. ASSUME NEW y \in ckpt'[c].todo
          PROVE  \E q \in Pages : LET g == LatestOf(frame_cache[q], k) IN y = <<q, g>> /\ g > n
      <3>1. y \in ckpt[c].todo
        BY <1>12
      <3> QED  BY <1>2, <1>6, <3>1 DEF Copied
    <2>3. frame_cache' = frame_cache /\ ImageAt(base, k)' = ImageAt(base, k)
      BY <1>3, <1>15
    <2>4. ImageAt(base, ckpt[c].max)' = ImageAt(base, k)
      BY <1>3, <1>12 DEF ImageAt
    <2> QED  BY <1>12, <2>1, <2>2, <2>3, <2>4 DEF Copied
  <1>21. pc'[c] = "backfill" /\ tx'[c] = tx[c]
    BY <1>3
  <1>22. LocalTypes(c)'
    <2>1. ckpt'[c].old \in Nat /\ ckpt'[c].max \in Nat /\ ckpt'[c].scan \in Nat
      BY <1>1, <1>6, <1>12 DEF ConnType
    <2> QED  BY <1>1, <1>3, <2>1, LocalTypesFrom
  <1>23. CkptInv(base, c)'
    <2>1. PICK q, mode : q = "backfill" /\ mode = ckpt[c].mode
      OBVIOUS
    <2>2. q \in CheckpointSteps
      BY <2>1 DEF CheckpointSteps
    <2>3. ReadersAhead(c)'
      BY <1>2, <1>3, <1>6, <1>12 DEF ReadersAhead
    <2>4. Boundary(k)'
      BY <1>6, <1>15
    <2>5. CopyingAt(q, mode) =>
             /\ n = shared'.nb /\ (shared'.nb < shared'.max \/ RestartsLog(mode))
             /\ q # "guard" => Boundary(k)'
             /\ q \notin {"guard", "scan"} => Copied(base, c)'
             /\ q \in {"finalize", "dbsync", "backfilled"} => ckpt'[c].todo = {}
             /\ q \in {"dbsync", "backfilled"} => k > n
      BY <1>2, <1>3, <1>6, <1>20, <2>1, <2>4
    <2>6. RestartsLog(mode) =>
             /\ tx'[c].vacuum \/ Writers \subseteq {c}
             /\ q \in {"finalize", "dbsync", "truncate", "truncated", "finish"} => shared'.max = 0
      BY <1>6, <1>21, <2>1
    <2> QED  BY <1>6, <1>12, <1>21, <2>1, <2>2, <2>3, <2>5, <2>6, CkptFrom
  <1>24. LogStill /\ shared.nb <= shared'.nb
    BY <1>2, <1>3, <1>6 DEF LogStill
  <1>25. pc[c] \in CheckpointSteps \ {"finalize"} /\ pc'[c] \in CheckpointSteps \union {"idle"}
         /\ pc'[c] # "idle"
    BY <1>3 DEF CheckpointSteps
  <1> QED
    BY <1>3, <1>5, <1>13, <1>14, <1>18, <1>19, <1>21, <1>22, <1>23, <1>24, <1>25, OutsideForward

-----------------------------------------------------------------------------
(* The publication of a commit.                                             *)

(* The frames that are published are the dirty pages', as the writer left    *)
(* them.                                                                    *)
PublishedAt(c, a) ==
    \A p \in tx[c].dirty :
        /\ a[p] \in shared.max + 1..shared.max + Cardinality(tx[c].dirty)
        /\ wal.frames[a[p]].page = p /\ wal.frames[a[p]].ver = tx[c].id
Publishes(c, a) ==
    /\ frame_cache' = [p \in Pages |-> IF p \in tx[c].dirty
                                       THEN Append(frame_cache[p], a[p]) ELSE frame_cache[p]]
    /\ shared' = [shared EXCEPT !.max = shared.max + Len(CommitFrames(c)), !.tx = snap[c].tx + 1]
    /\ snap' = [snap EXCEPT ![c].max = shared.max + Len(CommitFrames(c)), ![c].tx = @ + 1]
    /\ cache' = [cache EXCEPT ![c] = [p \in Pages |->
           IF p \in tx[c].dirty /\ cache[c][p].used /\ ~tx[c].vacuum
           THEN [cache[c][p] EXCEPT !.dirty = FALSE, !.frame = a[p], !.epoch = shared.epoch]
           ELSE cache[c][p]]]

LEMMA CommitPublishes ==
    ASSUME NEW base, Ready(base), NEW c \in Conns, WalCommitDone(c)
    PROVE  \E a : PublishedAt(c, a) /\ Publishes(c, a)
  <1>1. LogTypes /\ WriteInv(c) /\ pc[c] = "publish"
    <2>1. pc[c] = "publish"
      BY Zenon DEF WalCommitDone
    <2> QED  BY <2>1, ReadyParts
  <1>2. PICK D, fs, n : D = tx[c].dirty /\ fs = CommitFrames(c) /\ n = shared.max
    OBVIOUS
  <1>3. /\ fs \in Seq(Frames) /\ Len(fs) = Cardinality(D) /\ Cardinality(D) \in Nat
        /\ \A i \in 1..Len(fs) : fs[i].page \in D /\ fs[i].ver = tx[c].id
        /\ \A p \in D : \E i \in 1..Len(fs) : fs[i].page = p
    <2>1. /\ fs \in Seq(Frames) /\ Len(fs) = Cardinality(D) /\ Cardinality(D) \in Nat
          /\ \A i \in 1..Len(fs) : fs[i].page \in D /\ fs[i].ver = tx[c].id
          /\ \A p \in D : \E i \in 1..Len(fs) :
                fs[i].page = p /\ \A j \in 1..Len(fs) : fs[j].page = p => j = i
      <3>1. FramesOf(c, D, fs)
        BY <1>2, CommitFramesAre
      <3> QED  BY Zenon, <3>1 DEF FramesOf
    <2> QED  BY Zenon, <2>1
  <1> DEFINE a == [p \in tx[c].dirty |-> shared.max + CHOOSE i \in DOMAIN CommitFrames(c) : CommitFrames(c)[i].page = p]
  <1>9. Publishes(c, a)
    BY Zenon DEF WalCommitDone, Publishes
  <1>4. a = [p \in D |-> n + CHOOSE i \in DOMAIN fs : fs[i].page = p]
    BY <1>2
  <1> HIDE DEF a
  <1>5. \A i \in 1..Cardinality(D) : wal.frames[n + i] = fs[i]
    BY <1>1, <1>2 DEF WriteInv
  <1>6. n \in Nat /\ DOMAIN fs = 1..Len(fs)
    BY <1>1, <1>2, <1>3, LogParts
  <1>7. ASSUME NEW p \in D
        PROVE  /\ a[p] \in n + 1..n + Cardinality(D)
               /\ wal.frames[a[p]].page = p /\ wal.frames[a[p]].ver = tx[c].id
    <2>1. PICK i : i = CHOOSE j \in DOMAIN fs : fs[j].page = p
      OBVIOUS
    <2>2. i \in DOMAIN fs /\ fs[i].page = p
      BY <1>3, <1>6, <2>1
    <2>3. a[p] = n + i
      BY <1>4, <2>1
    <2>4. i \in 1..Cardinality(D) /\ fs[i].ver = tx[c].id
      BY <1>3, <1>6, <2>2
    <2>5. n + i \in n + 1..n + Cardinality(D)
      BY <1>3, <1>6, <2>4
    <2> QED  BY <1>5, <2>2, <2>3, <2>4, <2>5
  <1>8. PublishedAt(c, a)
    BY <1>2, <1>7 DEF PublishedAt
  <1> QED  BY <1>8, <1>9

(* What the frame cache gives for a page after the publication.             *)
LEMMA PublishedPage ==
    ASSUME NEW base, Ready(base), NEW c \in Conns, pc[c] = "publish", NEW a, PublishedAt(c, a),
           Publishes(c, a), NEW p \in Pages, NEW n, n = shared.max,
           NEW k, k = Cardinality(tx[c].dirty), NEW s, s = frame_cache[p], NEW u, u = frame_cache'[p]
    PROVE  /\ n \in Nat /\ k \in Nat /\ s \in Seq(FrameNumber) /\ u \in Seq(FrameNumber)
           /\ \A b \in 0..n : LatestOf(u, b) = LatestOf(s, b) /\ (InOrderAt(s, b) => InOrderAt(u, b))
           /\ \A i \in 1..Len(u) : u[i] <= n + k
           /\ p \in tx[c].dirty => LatestOf(u, n + k) = a[p]
           /\ p \notin tx[c].dirty => LatestOf(u, n + k) = LatestOf(s, n)
  <1>1. LogTypes /\ WriteInv(c) /\ ConnType(c)
    BY ReadyParts
  <1>2. n \in Nat /\ k \in Nat /\ s \in Seq(FrameNumber) /\ n + k \in Nat /\ n <= n + k
    <2>1. n \in Nat /\ s \in Seq(FrameNumber)
      BY <1>1, LogParts
    <2>2. k \in Nat
      BY Spilled
    <2> QED  BY <2>1, <2>2
  <1>3. pc[c] \in Unpublished /\ c \in Writing
    BY DEF Unpublished, Writing, WriteSteps
  <1>4. \A i \in 1..Len(s) : s[i] <= n + k
    <2>1. CASE p \in tx[c].spilled
      <3>1. OwnFrame(c, p)
        BY <1>1, <1>3, <2>1 DEF WriteInv
      <3>2. Cardinality(tx[c].spilled) <= k /\ Cardinality(tx[c].spilled) \in Nat
        <4>1. IsFiniteSet(tx[c].dirty) /\ tx[c].spilled \subseteq tx[c].dirty
          BY <1>1, Spilled DEF ConnType
        <4> QED  BY <4>1, FS_Subset, Spilled
      <3>3. PICK j : j = Cardinality(tx[c].spilled)
        OBVIOUS
      <3>4. j \in Nat /\ j <= k /\ s[Len(s)] \in n + 1..n + j /\ \A i \in 1..Len(s) - 1 : s[i] <= n
        BY <3>1, <3>2, <3>3 DEF OwnFrame
      <3>5. ASSUME NEW i \in 1..Len(s)  PROVE s[i] <= n + k
        <4>1. CASE i = Len(s)
          <5>1. PICK x : x = s[Len(s)]
            OBVIOUS
          <5>2. x \in n + 1..n + j
            BY <3>4, <5>1
          <5>3. x <= n + k
            BY <1>2, <3>4, <5>2
          <5> QED  BY <4>1, <5>1, <5>3
        <4>2. CASE i # Len(s)
          <5>1. i \in 1..Len(s) - 1
            BY <1>2, <4>2
          <5>2. s[i] <= n /\ s[i] \in Nat
            BY <1>2, <3>4, <5>1 DEF FrameNumber
          <5> QED  BY <1>2, <5>2
        <4> QED  BY <4>1, <4>2
      <3> QED  BY <3>5
    <2>2. CASE p \notin tx[c].spilled
      <3>1. \A i \in 1..Len(s) : s[i] <= n
        BY <1>3, <2>2, NoOthersFrames
      <3>2. \A i \in 1..Len(s) : s[i] \in Nat
        BY <1>2 DEF FrameNumber
      <3> QED  BY <1>2, <3>1, <3>2
    <2> QED  BY <2>1, <2>2
  <1>7. frame_cache' = [q \in Pages |-> IF q \in tx[c].dirty
                                       THEN Append(frame_cache[q], a[q]) ELSE frame_cache[q]]
    BY Zenon DEF Publishes
  <1>5. CASE p \in tx[c].dirty
    <2>1. PICK f : f = a[p]
      OBVIOUS
    <2>2. f \in n + 1..n + k
      BY <1>5, <2>1 DEF PublishedAt
    <2>3. f \in FrameNumber /\ f > n /\ f <= n + k
      BY <1>2, <2>2 DEF FrameNumber
    <2>4. u = Append(s, f)
      BY <1>5, <1>7, <2>1
    <2>5. u \in Seq(FrameNumber) /\ \A hi \in Nat : LatestOf(u, hi) = IF f <= hi THEN f ELSE LatestOf(s, hi)
      <3>1. s \in Seq(FrameNumber) /\ f \in FrameNumber /\ u = Append(s, f)
        BY <1>2, <2>3, <2>4
      <3> QED  BY <3>1, AppendFrame
    <2>6. ASSUME NEW b \in 0..n
          PROVE  LatestOf(u, b) = LatestOf(s, b) /\ (InOrderAt(s, b) => InOrderAt(u, b))
      <3>1. b \in Nat /\ ~(f <= b) /\ f > b
        BY <1>2, <2>3 DEF FrameNumber
      <3>2. ASSUME InOrderAt(s, b)  PROVE InOrderAt(u, b)
        <4>1. s \in Seq(FrameNumber) /\ f \in FrameNumber
          BY <1>2, <2>3
        <4>2. InOrderAt(Append(s, f), b)
          BY <3>1, <3>2, <4>1, InOrderAppend
        <4> QED  BY <2>4, <4>2
      <3> QED  BY <2>5, <3>1, <3>2
    <2>7. ASSUME NEW i \in 1..Len(u)  PROVE u[i] <= n + k
      <3>1. Len(u) = Len(s) + 1 /\ u[Len(s) + 1] = f /\ \A j \in 1..Len(s) : u[j] = s[j]
        BY <1>2, <2>3, <2>4
      <3>2. i \in 1..Len(s) \/ i = Len(s) + 1
        BY <1>2, <3>1
      <3> QED  BY <1>4, <2>3, <3>1, <3>2
    <2>8. LatestOf(u, n + k) = a[p]
      BY <1>2, <2>1, <2>3, <2>5
    <2> QED  BY <1>2, <1>5, <2>5, <2>6, <2>7, <2>8
  <1>6. CASE p \notin tx[c].dirty
    <2>1. u = s
      BY <1>6, <1>7
    <2>2. p \notin tx[c].spilled
      BY <1>1, <1>6 DEF ConnType
    <2>3. \A i \in 1..Len(s) : s[i] <= n
      BY <1>3, <2>2, NoOthersFrames
    <2>4. LatestOf(s, n + k) <= n
      <3>1. \/ LatestOf(s, n + k) = 0
            \/ \E i \in 1..Len(s) : LatestOf(s, n + k) = s[i]
        BY <1>2, LatestIs
      <3> QED  BY <1>2, <2>3, <3>1
    <2>5. LatestOf(s, n + k) = LatestOf(s, n)
      BY <1>2, <2>4, LatestBelow
    <2> QED  BY <1>2, <1>4, <1>6, <2>1, <2>5
  <1> QED  BY <1>5, <1>6

LEMMA CommitDoneKeeps ==
    ASSUME NEW base, Ready(base), NEW c \in Conns, WalCommitDone(c)
    PROVE  Reached(base)
  <1>1. /\ LockInv /\ LogTypes /\ ConnTypes /\ ConnType(c) /\ NatMarks
        /\ WriteInv(c) /\ LogInv(base) /\ snap[c].tx <= shared.tx /\ SpillInv
        /\ snap[c] \in Snapshots /\ Tags(c) /\ Content(c) /\ cache[c] \in [Pages -> CachedPages]
    BY ReadyParts
  <1>2. /\ pc[c] = "publish" /\ pc' = [pc EXCEPT ![c] = "committed"]
        /\ history' = Append(history, CommittedImage(c))
        /\ UNCHANGED <<slot, lock, guard, pick, tx, ckpt, wal, db, view, txns, crashes>>
    BY Zenon DEF WalCommitDone, files, bounds
  <1>3. PICK a : PublishedAt(c, a) /\ Publishes(c, a)
    BY CommitPublishes
  <1>4. ShapeAfter(c) /\ MarksKept /\ Local(c)
    BY <1>1, WriteShapes, StepKeepsMarks DEF Transaction, ShapeAfter
  <1>5. PICK n, k, N, D, img : /\ n = shared.max /\ k = Cardinality(tx[c].dirty) /\ N = n + k
                               /\ D = tx[c].dirty /\ img = CommittedImage(c)
    OBVIOUS
  <1>6. /\ n \in Nat /\ k \in Nat /\ N \in Nat /\ n <= N /\ shared.tx \in Nat /\ shared.nb \in Nat
        /\ shared.nb <= n /\ Len(CommitFrames(c)) = k
    <2>1. k \in Nat
      BY <1>5, Spilled
    <2>2. n \in Nat /\ shared.tx \in Nat /\ shared.nb \in Nat /\ shared.nb <= n
      BY <1>1, <1>5, LogParts DEF LogInv
    <2>3. FramesOf(c, D, CommitFrames(c))
      BY <1>5, CommitFramesAre
    <2>4. Len(CommitFrames(c)) = k
      BY <1>5, <2>3 DEF FramesOf
    <2> QED  BY <1>5, <2>1, <2>2, <2>4
  <1>7. /\ N <= Len(wal.frames) /\ shared.init /\ snap[c].tx = shared.tx /\ history[view[c]] = Last(history)
        /\ (tx[c].vacuum => tx[c].spilled = {}) /\ tx[c].spilled \subseteq D /\ D \subseteq Pages
        /\ tx[c].id \in 0..MaxTxn
    BY <1>1, <1>2, <1>5 DEF WriteInv, Unpublished, ConnType
  <1>8. /\ shared'.max = N /\ shared'.nb = shared.nb /\ shared'.seq = shared.seq
        /\ shared'.tx = shared.tx + 1 /\ shared'.init /\ shared'.epoch = shared.epoch
        /\ shared' \in [max : Nat, nb : Nat, seq : Nat, tx : Nat, hdr : BOOLEAN,
                        init : BOOLEAN, epoch : Nat]
    <2>1. shared' = [shared EXCEPT !.max = shared.max + Len(CommitFrames(c)), !.tx = snap[c].tx + 1]
      BY Zenon, <1>3 DEF Publishes
    <2>2. PICK tt : tt = shared.tx + 1
      OBVIOUS
    <2>3. shared' = [shared EXCEPT !.max = N, !.tx = tt]
      BY <1>5, <1>6, <1>7, <2>1, <2>2
    <2>4. tt \in Nat
      BY <1>6, <2>2
    <2> QED  BY <1>1, <1>6, <1>7, <2>2, <2>3, <2>4 DEF LogTypes
  <1>9. ASSUME NEW p \in Pages
        PROVE  /\ frame_cache[p] \in Seq(FrameNumber) /\ frame_cache'[p] \in Seq(FrameNumber)
               /\ \A b \in 0..n : /\ LatestOf(frame_cache'[p], b) = LatestOf(frame_cache[p], b)
                                  /\ InOrderAt(frame_cache[p], b) => InOrderAt(frame_cache'[p], b)
               /\ \A i \in 1..Len(frame_cache'[p]) : frame_cache'[p][i] <= N
               /\ p \in D => LatestOf(frame_cache'[p], N) = a[p]
               /\ p \notin D => LatestOf(frame_cache'[p], N) = LatestOf(frame_cache[p], n)
    <2>1. PICK s, u : s = frame_cache[p] /\ u = frame_cache'[p]
      OBVIOUS
    <2>2. /\ n \in Nat /\ k \in Nat /\ s \in Seq(FrameNumber) /\ u \in Seq(FrameNumber)
          /\ \A b \in 0..n : LatestOf(u, b) = LatestOf(s, b) /\ (InOrderAt(s, b) => InOrderAt(u, b))
          /\ \A i \in 1..Len(u) : u[i] <= n + k
          /\ p \in tx[c].dirty => LatestOf(u, n + k) = a[p]
          /\ p \notin tx[c].dirty => LatestOf(u, n + k) = LatestOf(s, n)
      BY <1>2, <1>3, <1>5, <2>1, PublishedPage
    <2> QED  BY <1>5, <2>1, <2>2
  <1>10. ASSUME NEW p \in D
         PROVE  a[p] \in Nat /\ a[p] > n /\ a[p] <= N /\ a[p] # 0
                /\ wal.frames[a[p]].page = p /\ wal.frames[a[p]].ver = tx[c].id
    <2>1. PICK f : f = a[p]
      OBVIOUS
    <2>2. f \in n + 1..n + k /\ wal.frames[f].page = p /\ wal.frames[f].ver = tx[c].id
      BY <1>3, <1>5, <2>1 DEF PublishedAt
    <2>3. f \in Nat /\ f > n /\ f <= N /\ f # 0
      BY <1>5, <1>6, <2>2
    <2> QED  BY <2>1, <2>2, <2>3
  <1>11. /\ img \in Images /\ Last(history) \in Images
         /\ \A p \in Pages : img[p] = IF p \in D THEN tx[c].id ELSE Last(history)[p]
    <2>1. Last(history) \in Images
      BY <1>1, LogParts
    <2> QED  BY <1>5, <1>7, <2>1 DEF CommittedImage, Images
  <1>12. history' \in Seq(Images) /\ history' # <<>> /\ Last(history') = img /\ Last(history)' = img
    <2>1. history \in Seq(Images)
      BY <1>1 DEF LogTypes
    <2> QED  BY <1>2, <1>5, <1>11, <2>1 DEF Last
  <1>13. LogTypes'
    <2>1. frame_cache' \in [Pages -> Seq(FrameNumber)]
      <3>1. frame_cache' = [q \in Pages |-> IF q \in tx[c].dirty
                                           THEN Append(frame_cache[q], a[q]) ELSE frame_cache[q]]
        BY Zenon, <1>3 DEF Publishes
      <3> QED  BY <1>9, <3>1
    <2> QED  BY <1>1, <1>2, <1>8, <1>12, <2>1 DEF LogTypes
  <1>14. Grows
    BY <1>2, <1>5, <1>6, <1>8, <1>9 DEF Grows
  <1>15. Boundary(n) /\ Boundary(shared.nb) /\ ImageAt(base, n) = Last(history) /\ FileServes(base, shared.nb, n)
    BY <1>1, <1>5 DEF LogInv
  <1>16. Boundary(N)'
    <2>1. ASSUME NEW p \in Pages
          PROVE  /\ InOrderAt(frame_cache'[p], N)
                 /\ LatestOf(frame_cache'[p], N) # 0 => wal'.frames[LatestOf(frame_cache'[p], N)].page = p
      <3>1. InOrderAt(frame_cache'[p], N)
        BY <1>6, <1>9, InOrderBelow
      <3>2. CASE p \in D
        BY <1>2, <1>9, <1>10, <3>1, <3>2
      <3>3. CASE p \notin D
        BY <1>2, <1>9, <1>15, <3>1, <3>3 DEF Boundary
      <3> QED  BY <3>2, <3>3
    <2> QED  BY <1>6, <1>8, <2>1 DEF Boundary
  <1>17. ASSUME NEW p \in Pages  PROVE ImageAt(base, N)'[p] = img[p]
    <2>1. ImageAt(base, N)'[p] = IF LatestOf(frame_cache'[p], N) = 0 THEN base[p] ELSE wal'.frames[LatestOf(frame_cache'[p], N)].ver
      BY DEF ImageAt
    <2>2. CASE p \in D
      BY <1>2, <1>9, <1>10, <1>11, <2>1, <2>2
    <2>3. CASE p \notin D
      <3>1. ImageAt(base, n)[p] = IF LatestOf(frame_cache[p], n) = 0 THEN base[p] ELSE wal.frames[LatestOf(frame_cache[p], n)].ver
        BY DEF ImageAt
      <3> QED  BY <1>2, <1>9, <1>11, <1>15, <2>1, <2>3, <3>1
    <2> QED  BY <2>2, <2>3
  <1>18. ImageAt(base, N)' = img
    BY <1>11, <1>17 DEF ImageAt, Images
  <1>19. ASSUME NEW p \in Pages, LatestOf(frame_cache'[p], N) <= shared.nb  PROVE db'[p] = img[p]
    <2>1. p \notin D
      <3>1. SUFFICES ASSUME p \in D  PROVE FALSE
        OBVIOUS
      <3>2. PICK f : f = a[p]
        OBVIOUS
      <3>3. f \in Nat /\ f > n /\ f <= shared.nb
        BY <1>9, <1>10, <1>19, <3>1, <3>2
      <3> QED  BY <1>6, <3>3
    <2>2. LatestOf(frame_cache[p], n) <= shared.nb
      BY <1>9, <1>19, <2>1
    <2>3. db[p] = Last(history)[p]
      BY <1>15, <2>2 DEF FileServes
    <2> QED  BY <1>2, <1>11, <2>1, <2>3
  <1>20. LogInv(base)'
    <2>1. Boundary(shared.max)'
      BY <1>8, <1>16 DEF Boundary
    <2>2. PICK b : b = shared.nb
      OBVIOUS
    <2>3. Boundary(b)'
      BY <1>1, <1>13, <1>14, <1>15, <2>2, GrowsKeeps
    <2>4. Boundary(shared.nb)'
      BY <1>8, <2>2, <2>3 DEF Boundary
    <2>5. ImageAt(base, shared.max)' = img
      BY <1>8, <1>18 DEF ImageAt
    <2>6. FileServes(base, shared.nb, shared.max)'
      BY <1>8, <1>19, <2>5 DEF FileServes
    <2>7. shared'.nb <= shared'.max /\ shared'.max <= Len(wal'.frames)
      BY <1>2, <1>6, <1>7, <1>8
    <2> QED  BY <1>8, <1>12, <2>1, <2>4, <2>5, <2>6, <2>7 DEF LogInv
  <1>21. SpillInv'
    <2>1. ASSUME NEW p \in Pages, NEW i \in 1..Len(frame_cache'[p])
          PROVE  ~(frame_cache'[p][i] > shared'.max)
      <3>1. PICK f : f = frame_cache'[p][i]
        OBVIOUS
      <3>2. f <= N /\ f \in Nat
        BY <1>9, <3>1 DEF FrameNumber
      <3>3. ~(f > N)
        BY <1>6, <3>2
      <3> QED  BY <1>8, <3>1, <3>3
    <2> QED  BY <2>1 DEF SpillInv
  <1>22. pc'[c] = "committed" /\ pc'[c] \in WriteSteps /\ pc[c] \in WriteSteps /\ tx' = tx /\ pc'[c] # "read"
         /\ pc'[c] \notin Unpublished /\ pc'[c] \notin Looking /\ pc'[c] \notin InTransaction
         /\ pc'[c] \notin CheckpointSteps /\ pc[c] \in Unpublished /\ pc[c] \in InTransaction
    <2>1. pc'[c] = "committed"
      BY <1>1, <1>2 DEF LockInv, LockTypes, PcTypes
    <2> QED  BY <1>2, <2>1 DEF WriteSteps, Unpublished, Looking, InTransaction, CheckpointSteps
  <1>23. SnapStep(c) /\ snap'[c].tx = shared'.tx
    <2>1. snap' = [snap EXCEPT ![c].max = shared.max + Len(CommitFrames(c)), ![c].tx = @ + 1]
      BY Zenon, <1>3 DEF Publishes
    <2>2. PICK tt : tt = shared.tx + 1
      OBVIOUS
    <2>3. PICK x : x = [snap[c] EXCEPT !.max = N, !.tx = tt]
      OBVIOUS
    <2>4. snap' = [snap EXCEPT ![c] = x]
      BY <1>1, <1>5, <1>6, <1>7, <2>1, <2>2, <2>3 DEF ConnTypes, Snapshots
    <2>5. x \in Snapshots /\ x.tx = tt
      <3>1. tt \in Nat /\ N \in Nat
        BY <1>6, <2>2
      <3> QED  BY <1>1, <2>3, <3>1 DEF Snapshots
    <2>6. SnapStep(c) /\ snap'[c] = x
      BY <1>1, <2>4, <2>5, SnapUpdate
    <2> QED  BY <1>8, <2>2, <2>5, <2>6
  <1>24. PICK y : y = [p \in Pages |->
           IF p \in tx[c].dirty /\ cache[c][p].used /\ ~tx[c].vacuum
           THEN [cache[c][p] EXCEPT !.dirty = FALSE, !.frame = a[p], !.epoch = shared.epoch]
           ELSE cache[c][p]]
    BY Zenon
  <1>34. \A p \in Pages : y[p] = IF p \in tx[c].dirty /\ cache[c][p].used /\ ~tx[c].vacuum
           THEN [cache[c][p] EXCEPT !.dirty = FALSE, !.frame = a[p], !.epoch = shared.epoch]
           ELSE cache[c][p]
    BY Zenon, <1>24
  <1>25. cache' = [cache EXCEPT ![c] = y] /\ cache'[c] = y
    <2>1. cache' = [cache EXCEPT ![c] = y]
      BY Zenon, <1>3, <1>24 DEF Publishes
    <2> QED  BY <1>1, <2>1 DEF ConnTypes
  <1>26. ASSUME NEW p \in Pages
         PROVE  /\ y[p] \in CachedPages /\ y[p].used = cache[c][p].used /\ y[p].ver = cache[c][p].ver
                /\ p \in D /\ cache[c][p].used /\ ~tx[c].vacuum => y[p].frame = a[p] /\ y[p].epoch = shared.epoch
                /\ ~(p \in D /\ cache[c][p].used /\ ~tx[c].vacuum) => y[p] = cache[c][p]
    <2>1. PICK pg : pg = cache[c][p]
      OBVIOUS
    <2>2. pg \in CachedPages /\ shared.epoch \in Nat
      BY <1>1, <2>1, LogParts
    <2>5. y[p] = IF p \in D /\ pg.used /\ ~tx[c].vacuum
                 THEN [pg EXCEPT !.dirty = FALSE, !.frame = a[p], !.epoch = shared.epoch] ELSE pg
      BY Zenon, <1>5, <1>34, <2>1
    <2>3. CASE p \in D /\ pg.used /\ ~tx[c].vacuum
      <3>1. y[p] = [pg EXCEPT !.dirty = FALSE, !.frame = a[p], !.epoch = shared.epoch]
        BY Zenon, <2>3, <2>5
      <3>2. a[p] \in Nat
        BY <1>10, <2>3
      <3> QED  BY <2>1, <2>2, <2>3, <3>1, <3>2 DEF CachedPages
    <2>4. CASE ~(p \in D /\ pg.used /\ ~tx[c].vacuum)
      <3>1. y[p] = pg
        BY Zenon, <2>4, <2>5
      <3> QED  BY <2>1, <2>2, <2>4, <3>1
    <2> QED  BY <2>3, <2>4
  <1>27. Moves(c)
    <2>1. y \in [Pages -> CachedPages]
      <3>1. y = [p \in Pages |-> y[p]]
        BY Zenon, <1>24
      <3> QED  BY <1>26, <3>1
    <2>2. CacheStep(c)
      BY <1>25, <2>1 DEF CacheStep
    <2>3. LocalTypes(c)'
      BY <1>1, <1>2, LocalTypesFrom
    <2> QED  BY <1>2, <1>4, <1>23, <2>2, <2>3 DEF Moves, ViewStep
  <1>28. CkptInv(base, c)' /\ PickInv(c)' /\ c \in Writing /\ ~InRestarting(c)
    BY <1>2, <1>22, StillWriting
  <1>29. WriteInv(c)'
    BY <1>22, VoidParts
  <1>30. HistoryStep /\ shared.nb <= shared'.nb
    BY <1>2, <1>5, <1>6, <1>8, <1>11 DEF HistoryStep
  <1>31. ReadInv(base, c)'
    <2>1. snap'[c].tx <= shared'.tx
      BY <1>6, <1>8, <1>23
    <2>2. guard'[c] = guard[c] /\ view'[c] = view[c]
      BY <1>2
    <2> QED  BY <1>2, <1>4, <1>13, <1>14, <1>22, <1>30, <2>1, <2>2, ReadGrows
  <1>32. ASSUME NEW p \in Pages, ~tx[c].vacuum, cache[c][p].used  PROVE cache[c][p].ver = img[p]
    <2>1. cache[c][p].ver = IF p \in tx[c].dirty THEN tx[c].id ELSE history[view[c]][p]
      BY <1>1, <1>22, <1>32 DEF Content
    <2> QED  BY <1>5, <1>7, <1>11, <2>1
  <1>33. CacheInv(c)'
    <2>1. Restarting # {} => Restarting' # {}
      BY <1>4, <1>28, RestartingKept
    <2>2. shared'.max <= Len(wal'.frames)
      BY <1>20 DEF LogInv
    <2>3. ASSUME NEW p \in Pages  PROVE Tagged(c, p)'
      <3>1. CASE p \in D /\ cache[c][p].used /\ ~tx[c].vacuum
        <4>1. PICK pg, f : pg = y[p] /\ f = a[p]
          OBVIOUS
        <4>2. pg.frame = f /\ pg.epoch = shared.epoch /\ pg.ver = tx[c].id
          BY <1>5, <1>11, <1>26, <1>32, <3>1, <4>1
        <4>3. c \in Caching
          BY <1>1, <3>1 DEF Tags
        <4>4. f \in 1..N /\ wal.frames[f].page = p /\ wal.frames[f].ver = tx[c].id
          BY <1>6, <1>10, <3>1, <4>1
        <4>5. f \in DOMAIN wal.frames
          <5>1. DOMAIN wal.frames = 1..Len(wal.frames) /\ Len(wal.frames) \in Nat
            BY <1>1, LogParts
          <5> QED  BY <1>6, <1>7, <4>4, <5>1
        <4>6. FrameContent(wal, f, p) = tx[c].id
          BY <4>4, <4>5 DEF FrameContent
        <4>7. pg.frame <= shared'.max /\ pg.ver = FrameContent(wal', pg.frame, p) /\ pg.epoch <= shared'.epoch
          <5>1. shared.epoch \in Nat /\ f <= N
            BY <1>1, <1>6, <4>4, LogParts
          <5> QED  BY <1>2, <1>8, <4>2, <4>6, <5>1
        <4>8. cache'[c][p] = pg
          BY <1>25, <4>1
        <4> QED  BY <1>22, <4>3, <4>7, <4>8 DEF Tagged
      <3>2. CASE ~(p \in D /\ cache[c][p].used /\ ~tx[c].vacuum)
        <4>1. cache'[c][p] = cache[c][p]
          BY <1>25, <1>26, <3>2
        <4>2. CASE p \in tx[c].spilled
          <5>1. ~cache[c][p].used
            BY <1>7, <3>2, <4>2
          <5> QED  BY <4>1, <5>1 DEF Tagged
        <4>3. CASE p \notin tx[c].spilled
          BY <1>8, <1>13, <1>14, <1>22, <2>1, <2>2, <4>1, <4>3, TagGrows
        <4> QED  BY <4>2, <4>3
      <3> QED  BY <3>1, <3>2
    <2>4. Content(c)'
      <3>1. ASSUME NEW p \in Pages, ~tx'[c].vacuum, cache'[c][p].used  PROVE cache'[c][p].ver = img[p]
        BY <1>22, <1>25, <1>26, <1>32, <3>1
      <3> QED  BY <1>12, <1>22, <3>1 DEF Content
    <2> QED  BY <2>3, <2>4, TagsTagged DEF CacheInv
  <1> QED
    BY <1>2, <1>8, <1>13, <1>14, <1>20, <1>21, <1>22, <1>27, <1>28, <1>29, <1>30, <1>31, <1>33, ForwardStep

-----------------------------------------------------------------------------
(* A restart of the log: its frames are gone, the database file has what    *)
(* they held, and nobody looks anything up in them.                         *)

LogRestarted ==
    /\ frame_cache' = [p \in Pages |-> <<>>] /\ shared'.max = 0 /\ shared'.nb = 0
    /\ shared'.seq = shared.seq + 1 /\ shared'.tx = shared.tx /\ ~shared'.init
    /\ shared.epoch <= shared'.epoch
    /\ UNCHANGED <<wal, db, history>>

(* With every frame backfilled the file is the last committed image.        *)
LEMMA FileIsLast ==
    ASSUME LogTypes, NEW base, LogInv(base), NEW k, k = shared.max, FileServes(base, k, k)
    PROVE  db = Last(history)
  <1>1. /\ k \in Nat /\ ImageAt(base, k) = Last(history) /\ db \in Images /\ Last(history) \in Images
        /\ \A p \in Pages : frame_cache[p] \in Seq(FrameNumber)
    BY LogParts DEF LogInv, LogTypes
  <1>2. ASSUME NEW p \in Pages  PROVE db[p] = Last(history)[p]
    <2>1. LatestOf(frame_cache[p], k) \in 0..k
      BY <1>1, LatestRange
    <2>2. LatestOf(frame_cache[p], k) <= k
      BY <1>1, <2>1
    <2> QED  BY <1>1, <2>2 DEF FileServes
  <1>3. DOMAIN db = Pages /\ DOMAIN Last(history) = Pages
    BY <1>1 DEF Images
  <1> QED  BY <1>1, <1>2, <1>3 DEF Images

LEMMA EmptyLookup ==
    ASSUME NEW b
    PROVE  LatestOf(<<>>, b) = 0 /\ InOrderAt(<<>>, b)
  BY DEF LatestOf, InOrderAt

LEMMA RestartedLog ==
    ASSUME LogTypes, LogTypes', LogRestarted, NEW img, img = db, db = Last(history),
           NEW z, z = 0
    PROVE  /\ LogInv(img)' /\ SpillInv' /\ Boundary(z)'
           /\ ImageAt(img, z)' = img /\ FileServes(img, z, z)'
  <1>1. /\ \A p \in Pages : frame_cache'[p] = <<>>
        /\ shared'.max = 0 /\ shared'.nb = 0 /\ ~shared'.init /\ db' = db /\ history' = history
        /\ wal' = wal
    BY DEF LogRestarted
  <1>2. \A p \in Pages : LatestOf(frame_cache'[p], z) = 0 /\ InOrderAt(frame_cache'[p], z)
    BY <1>1, EmptyLookup
  <1>3. Boundary(z)'
    <2>1. z \in 0..shared'.max
      BY <1>1
    <2> QED  BY <1>2, <2>1 DEF Boundary
  <1>4. ImageAt(img, z)' = img
    <2>1. img = [p \in Pages |-> img[p]]
      BY DEF LogTypes, Images
    <2>2. ImageAt(img, z)' = [p \in Pages |-> img[p]]
      BY <1>2 DEF ImageAt
    <2> QED  BY <2>1, <2>2
  <1>5. FileServes(img, z, z)'
    BY <1>1, <1>4 DEF FileServes
  <1>6. SpillInv'
    BY <1>1 DEF SpillInv
  <1>7. LogInv(img)'
    <2>1. Boundary(shared.nb)' /\ Boundary(shared.max)'
      BY <1>1, <1>3 DEF Boundary
    <2>2. ImageAt(img, shared.max)' = Last(history')
      BY <1>1, <1>4 DEF ImageAt
    <2>3. FileServes(img, shared.nb, shared.max)'
      BY <1>1, <1>5 DEF FileServes, ImageAt
    <2>4. shared'.max <= Len(wal'.frames) /\ shared'.nb <= shared'.max
      BY <1>1, LogParts
    <2> QED  BY <1>1, <2>1, <2>2, <2>3, <2>4 DEF LogInv
  <1> QED  BY <1>3, <1>4, <1>5, <1>6, <1>7

(* The tags of the old log name an older epoch, or will once the restart    *)
(* is finished.                                                             *)
LEMMA RestartedTags ==
    ASSUME LogTypes, LogTypes', NEW d \in Conns, Tags(d), cache[d] \in [Pages -> CachedPages],
           cache'[d] = cache[d], shared.epoch <= shared'.epoch,
           Restarting' # {} \/ shared.epoch < shared'.epoch,
           pc'[d] \notin Unpublished \/ tx'[d].spilled = {}
    PROVE  Tags(d)'
  <1>1. ASSUME NEW p \in Pages  PROVE Tagged(d, p)'
    <2>1. PICK pg, e, x, y : pg = cache[d][p] /\ e = pg.epoch /\ x = shared.epoch /\ y = shared'.epoch
      OBVIOUS
    <2>2. e \in Nat /\ x \in Nat /\ y \in Nat /\ x <= y
      BY <2>1, LogParts, LogPartsNext DEF CachedPages
    <2>3. pg.used => d \in Caching /\ e <= x
      BY <2>1 DEF Tags
    <2>4. pg.used => e <= y /\ (x < y => e # y)
      BY <2>2, <2>3
    <2>5. cache'[d][p] = pg
      BY <2>1
    <2> QED  BY <2>1, <2>3, <2>4, <2>5 DEF Tagged
  <1> QED  BY <1>1, TagsTagged

(* Nobody but c reads, writes or is copying frames.                         *)
Alone(c) ==
    \A d \in Conns \ {c} :
        /\ guard[d] = NO_LOCK_HELD /\ pc[d] # "read" /\ pc[d] \notin WriteSteps /\ ~Copying(d)

LEMMA RestartedOther ==
    ASSUME NEW base, Ready(base), NEW c \in Conns, LogTypes', LogRestarted, ConnsKept(c), Alone(c),
           pc'[c] # "read", Restarting' # {} \/ shared.epoch < shared'.epoch,
           NEW img, NEW d \in Conns \ {c}
    PROVE  ConnInv(img, d)'
  <1>1. /\ LogTypes /\ WriteInv(d) /\ PickInv(d) /\ CkptInv(base, d) /\ Tags(d) /\ Content(d)
        /\ snap[d].tx <= shared.tx /\ ConnType(d) /\ cache[d] \in [Pages -> CachedPages]
    BY ReadyParts
  <1>2. /\ pc'[d] = pc[d] /\ guard'[d] = guard[d] /\ pick'[d] = pick[d]
        /\ tx'[d] = tx[d] /\ ckpt'[d] = ckpt[d]
        /\ snap'[d] = snap[d] /\ cache'[d] = cache[d] /\ view'[d] = view[d]
    BY DEF ConnsKept, Kept
  <1>3. /\ guard[d] = NO_LOCK_HELD /\ pc[d] # "read" /\ pc[d] \notin WriteSteps /\ ~Copying(d)
    BY DEF Alone
  <1>4. /\ shared'.max = 0 /\ shared'.seq = shared.seq + 1 /\ shared'.tx = shared.tx
        /\ shared.epoch <= shared'.epoch /\ history' = history
    BY DEF LogRestarted
  <1>5. pc[d] \notin Unpublished /\ pc[d] \notin Looking /\ guard[d] \notin Marks
    BY <1>3, BoundsAssumption DEF Unpublished, Looking, WriteSteps, NO_LOCK_HELD, Marks
  <1>6. WriteInv(d)'
    <2>1. pc'[d] \notin WriteSteps \union CheckpointSteps => tx'[d].dirty = {}
      BY <1>1, <1>2 DEF WriteInv
    <2> QED  BY <1>2, <1>5, <2>1, VoidParts
  <1>7. ReadInv(img, d)'
    BY <1>1, <1>2, <1>4, <1>5, VoidParts
  <1>8. PickInv(d)'
    <2>1. pc[d] \in {"choose", "lock"} => pick[d].snap.seq <= shared.seq
      BY <1>1 DEF PickInv
    <2>2. pick[d].snap.seq \in Nat /\ shared.seq \in Nat
      BY <1>1, LogParts DEF ConnType, Snapshots
    <2>3. pc[d] \in {"choose", "lock"} => /\ pick'[d].snap.seq <= shared'.seq
                                          /\ pick'[d].snap.seq # shared'.seq
      BY <1>2, <1>4, <2>1, <2>2
    <2> QED  BY <1>2, <2>3 DEF PickInv
  <1>9. CkptInv(img, d)'
    <2>1. \A e \in Conns : pc'[e] # "read"
      BY DEF Alone, ConnsKept, Kept
    <2>2. ~Copying(d)'
      BY <1>2, <1>3 DEF Copying
    <2>3. (/\ pc[d] \in CheckpointSteps \/ pc[d] = "vacuum" \/ tx[d].vacuum => d \in Checkpointers \union Vacuumers
           /\ pc[d] \in WriteSteps => d \in Writers \/ tx[d].vacuum
           /\ pc[d] \in {"truncate", "truncated"} => ckpt[d].mode = "Truncate"
           /\ pc[d] = "backfilled" => ~RestartsLog(ckpt[d].mode)
           /\ RestartsLog(ckpt[d].mode) => (pc[d] \in CheckpointSteps => tx[d].vacuum \/ Writers \subseteq {d}))'
      BY <1>1, <1>2 DEF CkptInv
    <2> QED  BY <1>4, <2>1, <2>2, <2>3 DEF CkptInv
  <1>10. Tags(d)'
    BY <1>1, <1>2, <1>4, <1>5, RestartedTags
  <1>11. Content(d)'
    BY <1>1, <1>2, <1>4 DEF Content
  <1> QED  BY <1>6, <1>7, <1>8, <1>9, <1>10, <1>11 DEF ConnInv, CacheInv

LEMMA RestartStep ==
    ASSUME NEW base, Ready(base), NEW c \in Conns, LogTypes', LogRestarted, Local(c),
           SnapStep(c), cache' = cache, view' = view, LocalTypes(c)', Alone(c), pc'[c] # "read",
           Restarting' # {} \/ shared.epoch < shared'.epoch, NEW img, img = db, db = Last(history),
           ConnInv(img, c)'
    PROVE  \E b \in Images : Reached(b)
  <1>1. LogTypes /\ ConnTypes /\ img \in Images
    BY ReadyParts DEF LogTypes
  <1>2. HistoryStep
    BY DEF HistoryStep, LogRestarted
  <1>3. ConnTypes' /\ ConnsKept(c)
    BY <1>1, <1>2, ConnsFrom DEF CacheStep, ViewStep
  <1>4. LogInv(img)' /\ SpillInv'
    BY <1>1, RestartedLog
  <1>5. \A d \in Conns \ {c} : ConnInv(img, d)'
    BY <1>3, RestartedOther
  <1>6. WalInvOver(img)'
    BY <1>4, <1>5 DEF WalInvOver
  <1> QED  BY <1>1, <1>3, <1>6 DEF Reached

LEMMA HeaderFields ==
    ASSUME NEW r, r \in [max : Nat, nb : Nat, seq : Nat, tx : Nat, hdr : BOOLEAN,
                         init : BOOLEAN, epoch : Nat]
    PROVE  /\ RestartedHeader(r) \in [max : Nat, nb : Nat, seq : Nat, tx : Nat, hdr : BOOLEAN,
                                      init : BOOLEAN, epoch : Nat]
           /\ RestartedHeader(r).max = 0 /\ RestartedHeader(r).nb = 0
           /\ RestartedHeader(r).seq = r.seq + 1 /\ RestartedHeader(r).tx = r.tx
           /\ RestartedHeader(r).hdr = FALSE /\ RestartedHeader(r).init = FALSE
           /\ RestartedHeader(r).epoch = r.epoch
  <1> DEFINE T == [max : Nat, nb : Nat, seq : Nat, tx : Nat, hdr : BOOLEAN,
                   init : BOOLEAN, epoch : Nat]
  <1>1. PICK x : x = [r EXCEPT !.max = 0]
    OBVIOUS
  <1>2. x \in T /\ x.max = 0 /\ x.seq = r.seq /\ x.tx = r.tx /\ x.epoch = r.epoch
    BY <1>1
  <1>3. PICK y : y = [x EXCEPT !.nb = 0]
    OBVIOUS
  <1>4. y \in T /\ y.max = 0 /\ y.nb = 0 /\ y.seq = r.seq /\ y.tx = r.tx /\ y.epoch = r.epoch
    BY <1>2, <1>3
  <1>5. PICK n : n = r.seq + 1
    OBVIOUS
  <1>6. n \in Nat
    BY <1>5
  <1>7. PICK z : z = [y EXCEPT !.seq = n]
    OBVIOUS
  <1>8. z \in T /\ z.max = 0 /\ z.nb = 0 /\ z.seq = n /\ z.tx = r.tx /\ z.epoch = r.epoch
    BY <1>4, <1>6, <1>7
  <1>9. PICK u : u = [z EXCEPT !.hdr = FALSE]
    OBVIOUS
  <1>10. /\ u \in T /\ u.max = 0 /\ u.nb = 0 /\ u.seq = n /\ u.tx = r.tx /\ u.hdr = FALSE
         /\ u.epoch = r.epoch
    BY <1>8, <1>9
  <1>11. PICK v : v = [u EXCEPT !.init = FALSE]
    OBVIOUS
  <1>12. /\ v \in T /\ v.max = 0 /\ v.nb = 0 /\ v.seq = n /\ v.tx = r.tx /\ v.hdr = FALSE
         /\ v.init = FALSE /\ v.epoch = r.epoch
    BY <1>10, <1>11
  <1>13. RestartedHeader(r) = v
    <2>1. y.seq = r.seq
      BY <1>4
    <2> QED  BY <1>1, <1>3, <1>5, <1>7, <1>9, <1>11, <2>1 DEF RestartedHeader
  <1> QED  BY <1>5, <1>12, <1>13

LEMMA RestartedTypes ==
    ASSUME LogTypes, NEW s, s = RestartedHeader(shared),
           shared' = s \/ shared' = [s EXCEPT !.epoch = @ + 1],
           frame_cache' = [p \in Pages |-> <<>>], UNCHANGED <<wal, db, history, txns, crashes>>,
           NatMarks'
    PROVE  /\ LogTypes' /\ LogRestarted
           /\ shared'.epoch = IF shared' = s THEN shared.epoch ELSE shared.epoch + 1
           /\ s.max = 0 /\ s.nb = 0 /\ s.seq = shared.seq + 1 /\ s.tx = shared.tx /\ s.hdr = FALSE
  <1> DEFINE T == [max : Nat, nb : Nat, seq : Nat, tx : Nat, hdr : BOOLEAN,
                   init : BOOLEAN, epoch : Nat]
  <1>1. shared \in T /\ shared.epoch \in Nat /\ shared.seq \in Nat
    BY DEF LogTypes
  <1>2. /\ s \in T /\ s.max = 0 /\ s.nb = 0 /\ s.seq = shared.seq + 1 /\ s.tx = shared.tx
        /\ s.hdr = FALSE /\ s.init = FALSE /\ s.epoch = shared.epoch
    BY <1>1, HeaderFields
  <1>3. /\ shared' \in T /\ shared'.max = 0 /\ shared'.nb = 0 /\ shared'.seq = shared.seq + 1
        /\ shared'.tx = shared.tx /\ shared'.init = FALSE
        /\ shared'.epoch = IF shared' = s THEN shared.epoch ELSE shared.epoch + 1
    <2>1. CASE shared' = s
      BY <1>2, <2>1
    <2>2. CASE shared' = [s EXCEPT !.epoch = @ + 1] /\ shared' # s
      BY <1>1, <1>2, <2>2
    <2> QED  BY <2>1, <2>2
  <1>4. shared.epoch <= shared'.epoch
    BY <1>1, <1>3
  <1>5. frame_cache' \in [Pages -> Seq(FrameNumber)]
    <2>1. <<>> \in Seq(FrameNumber)
      OBVIOUS
    <2> QED  BY <2>1
  <1> HIDE DEF T
  <1>6. LogTypes'
    BY <1>3, <1>5 DEF LogTypes, NatMarks, T
  <1> QED  BY <1>2, <1>3, <1>4, <1>6 DEF LogRestarted

LEMMA RestartedNatMarks ==
    ASSUME LockInv, NEW i \in 0..Slots
    PROVE  /\ RestartedMarks(slot)[i].mark \in Nat
           /\ Exclusive(RestartedMarks(slot)[i]).mark \in Nat
  <1>1. SlotRecord(slot[i]) /\ READMARK_NOT_USED \in Nat
    BY SlotShape, BoundsAssumption DEF READMARK_NOT_USED
  <1>2. RestartedMarks(slot)[i].mark \in Nat
    BY <1>1 DEF RestartedMarks, SlotRecord
  <1>3. SlotRecord(RestartedMarks(slot)[i])
    BY RestartedMarksWords DEF LockInv
  <1> QED  BY <1>2, <1>3, LockedMark

LEMMA SnapshotFields ==
    ASSUME NEW s, s.max \in Nat, s.nb \in Nat, s.seq \in Nat, s.tx \in Nat, s.hdr \in BOOLEAN
    PROVE  Snapshot(s) \in Snapshots /\ Snapshot(s).max = s.max /\ Snapshot(s).nb = s.nb
  BY DEF Snapshot, Snapshots

(* A checkpoint that restarts the log keeps its own snapshot of it.         *)
LEMMA RestartedSnap ==
    ASSUME LogTypes, ConnTypes, NEW c \in Conns, NEW s, s = RestartedHeader(shared),
           snap' = [snap EXCEPT ![c] = [Snapshot(s) EXCEPT !.tx = snap[c].tx]]
    PROVE  /\ SnapStep(c) /\ snap'[c].max = 0 /\ snap'[c].nb = 0 /\ snap'[c].tx = snap[c].tx
  <1> DEFINE x == [Snapshot(s) EXCEPT !.tx = snap[c].tx]
  <1>1. s.max = 0 /\ s.nb = 0 /\ s.seq = shared.seq + 1 /\ s.hdr = FALSE /\ s.tx \in Nat
        /\ shared.seq \in Nat /\ snap[c].tx \in Nat
    <2>1. shared \in [max : Nat, nb : Nat, seq : Nat, tx : Nat, hdr : BOOLEAN, init : BOOLEAN, epoch : Nat]
      BY DEF LogTypes
    <2>2. snap[c] \in Snapshots
      BY DEF ConnTypes
    <2> QED  BY <2>1, <2>2, HeaderFields DEF Snapshots
  <1>2. x \in Snapshots /\ x.max = 0 /\ x.nb = 0 /\ x.tx = snap[c].tx
    <2>1. PICK y : y = Snapshot(s)
      OBVIOUS
    <2>2. s.max \in Nat /\ s.nb \in Nat /\ s.seq \in Nat /\ s.tx \in Nat /\ s.hdr \in BOOLEAN
      <3>1. s.hdr \in BOOLEAN
        BY <1>1, Zenon
      <3> QED  BY <1>1, <3>1
    <2>3. y \in Snapshots /\ y.max = 0 /\ y.nb = 0
      BY <1>1, <2>1, <2>2, SnapshotFields, ZenonT(20)
    <2>4. PICK n \in Nat : n = snap[c].tx
      BY <1>1
    <2>5. x = [y EXCEPT !.tx = n]
      BY <2>1, <2>4
    <2> HIDE DEF x
    <2>6. x \in Snapshots /\ x.max = 0 /\ x.nb = 0 /\ x.tx = n
      BY <2>3, <2>5 DEF Snapshots
    <2> QED  BY <2>4, <2>6
  <1> HIDE DEF x
  <1>3. snap' = [snap EXCEPT ![c] = x]
    BY DEF x
  <1> QED  BY <1>2, <1>3, SnapUpdate

(* A writer restarts the log: it reads through slot 0 alone, and no          *)
(* checkpoint is under way.                                                 *)
LEMMA WriterIsAlone ==
    ASSUME NEW base, Ready(base), NEW c \in Conns, pc[c] = "restart", CanRestartLog(c), BusySlots = {}
    PROVE  Alone(c)
  <1>1. LockInv /\ LogTypes /\ CkptInv(base, c) /\ HeldAt(c) /\ pc[c] \in WriteSteps
    BY ReadyParts DEF WriteSteps
  <1>2. guard[c] = 0 /\ shared.max = shared.nb /\ slot[0].readers = 1
    BY DEF CanRestartLog
  <1>3. ReadHolders(0) = {c}
    <2>1. ReadMarkWord(0)
      BY <1>1, BoundsAssumption DEF LockInv, ReadMarkWords
    <2>2. IsFiniteSet(ReadHolders(0)) /\ c \in ReadHolders(0)
      BY <1>2, ConnsAssumption, FS_Subset DEF ReadHolders
    <2>3. Cardinality(ReadHolders(0)) = 1
      BY <1>2, <2>1 DEF ReadMarkWord
    <2>4. PICK x : ReadHolders(0) = {x}
      BY <2>2, <2>3, FS_Singleton
    <2> QED  BY <2>2, <2>4
  <1>4. SUFFICES ASSUME NEW d \in Conns \ {c}
                 PROVE  guard[d] = NO_LOCK_HELD /\ pc[d] # "read" /\ pc[d] \notin WriteSteps /\ ~Copying(d)
    BY DEF Alone
  <1>5. HeldAt(d) /\ CkptInv(base, d)
    BY ReadyParts
  <1>6. guard[d] = NO_LOCK_HELD
    <2>1. SUFFICES ASSUME guard[d] # NO_LOCK_HELD  PROVE FALSE
      OBVIOUS
    <2>2. guard[d] \in 0..Slots /\ slot[guard[d]].readers > 0
      BY <1>1, <2>1, GuardedSlot
    <2>3. guard[d] # 0
      BY <1>3 DEF ReadHolders
    <2>4. guard[d] \in Marks
      BY <2>2, <2>3, BoundsAssumption DEF Marks
    <2>5. slot[guard[d]].readers = 0
      BY <1>1, <2>4, ClearedMarks
    <2> QED  BY <2>2, <2>5
  <1>7. pc[d] # "read"
    BY <1>5, <1>6 DEF HeldAt
  <1>8. pc[d] \notin WriteSteps
    <2>1. c \in Writing /\ AtMostOne(Writing)
      BY <1>1 DEF Writing, LockInv, LockWords
    <2> QED  BY <2>1 DEF Writing, AtMostOne
  <1>9. ~Copying(d)
    <2>1. SUFFICES ASSUME Copying(d)  PROVE FALSE
      OBVIOUS
    <2>2. pc[d] \in CheckpointSteps
      BY <2>1 DEF Copying, CheckpointSteps
    <2>3. ~(shared.nb < shared.max)
      BY <1>1, <1>2, LogParts
    <2>4. RestartsLog(ckpt[d].mode)
      BY <1>5, <2>1, <2>3 DEF CkptInv
    <2>5. tx[d].vacuum \/ Writers \subseteq {d}
      BY <1>5, <2>2, <2>4 DEF CkptInv
    <2>6. ~tx[d].vacuum
      <3>1. NO_LOCK_HELD # 0
        BY BoundsAssumption DEF NO_LOCK_HELD
      <3> QED  BY <1>1, <1>2, <3>1, VacuumAloneFromLockInv DEF VacuumAlone
    <2>7. c \in Writers
      BY <1>1 DEF CkptInv, HeldAt
    <2> QED  BY <2>5, <2>6, <2>7
  <1> QED  BY <1>6, <1>7, <1>8, <1>9

LEMMA TryRestartKeeps ==
    ASSUME NEW base, Ready(base), NEW c \in Conns, TryRestartLog(c), shared' # shared
    PROVE  \E b \in Images : Reached(b)
  <1>1. /\ LockInv /\ LogTypes /\ ConnTypes /\ ConnType(c) /\ NatMarks /\ LogInv(base) /\ HeldAt(c)
        /\ WriteInv(c) /\ ReadInv(base, c) /\ CkptInv(base, c) /\ Tags(c) /\ Content(c)
        /\ cache[c] \in [Pages -> CachedPages] /\ snap[c].tx <= shared.tx
    BY ReadyParts
  <1>2. PICK s : s = RestartedHeader(shared)
    OBVIOUS
  <1>3. /\ pc[c] = "restart" /\ pc' = [pc EXCEPT ![c] = "write"]
        /\ CanRestartLog(c) /\ BusySlots = {}
        /\ shared' = [s EXCEPT !.epoch = @ + 1] /\ frame_cache' = [p \in Pages |-> <<>>]
        /\ slot' = RestartedMarks(slot)
        /\ snap' = [snap EXCEPT ![c] = [Snapshot(s) EXCEPT !.tx = snap[c].tx]]
        /\ UNCHANGED <<lock, guard, pick, tx, ckpt, cache>>
        /\ UNCHANGED <<files, ghosts, bounds>>
    BY <1>2, ZenonT(30) DEF TryRestartLog
  <1>4. UNCHANGED <<wal, db, history, view, txns, crashes>>
    BY <1>3 DEF files, ghosts, bounds
  <1>5. Alone(c)
    BY <1>3, WriterIsAlone
  <1>6. NatMarks'
    BY <1>1, <1>3, RestartedNatMarks DEF NatMarks
  <1>7. /\ LogTypes' /\ LogRestarted
        /\ shared'.epoch = IF shared' = s THEN shared.epoch ELSE shared.epoch + 1
    BY <1>1, <1>2, <1>3, <1>4, <1>6, RestartedTypes
  <1>8. shared.epoch < shared'.epoch
    <2>1. s.epoch = shared.epoch /\ shared.epoch \in Nat
      BY <1>1, <1>2, HeaderFields DEF LogTypes
    <2>2. s \in [max : Nat, nb : Nat, seq : Nat, tx : Nat, hdr : BOOLEAN, init : BOOLEAN, epoch : Nat]
      BY <1>1, <1>2, HeaderFields DEF LogTypes
    <2>3. shared'.epoch = s.epoch + 1
      BY <1>3, <2>2
    <2> QED  BY <2>1, <2>3
  <1>9. /\ SnapStep(c) /\ snap'[c].max = 0 /\ snap'[c].nb = 0 /\ snap'[c].tx = snap[c].tx
    BY <1>1, <1>2, <1>3, RestartedSnap
  <1>10. pc'[c] = "write" /\ Local(c)
    <2>1. ShapeAfter(c)
      BY <1>1, WriteShapes
    <2> QED  BY <1>1, <1>3, <2>1 DEF ShapeAfter, LockInv, LockTypes, PcTypes
  <1>11. PICK k : k = shared.max
    OBVIOUS
  <1>12. db = Last(history)
    <2>1. FileServes(base, shared.nb, shared.max) /\ shared.max = shared.nb
      BY <1>1, <1>3 DEF LogInv, CanRestartLog
    <2>2. FileServes(base, k, k)
      BY <1>11, <2>1 DEF FileServes
    <2> QED  BY <1>1, <1>11, <2>2, FileIsLast
  <1>13. PICK img, z : img = db /\ z = 0
    OBVIOUS
  <1>14. Boundary(z)' /\ ImageAt(img, z)' = img /\ FileServes(img, z, z)'
    BY <1>1, <1>7, <1>12, <1>13, RestartedLog
  <1>15. /\ shared'.max = 0 /\ shared'.nb = 0 /\ shared'.tx = shared.tx /\ history' = history /\ wal' = wal
         /\ ~shared'.init
    BY <1>7 DEF LogRestarted
  <1>16. tx'[c] = tx[c] /\ view'[c] = view[c] /\ guard'[c] = 0 /\ cache'[c] = cache[c]
         /\ tx[c].dirty = {} /\ tx[c].spilled = {} /\ ~tx[c].vacuum
         /\ snap[c].tx = shared.tx /\ history[view[c]] = Last(history)
    BY <1>1, <1>3, <1>4 DEF CanRestartLog, WriteInv, ConnType, HeldAt, Unpublished
  <1>17. WriteInv(c)'
    <2>1. Cardinality(tx'[c].spilled) = 0
      BY <1>16, FS_EmptySet
    <2>2. snap'[c].max = shared'.max + Cardinality(tx'[c].spilled)
      BY <1>9, <1>15, <2>1
    <2>3. snap'[c].max <= Len(wal'.frames)
      BY <1>1, <1>9, <1>15, LogParts
    <2> QED  BY <1>9, <1>10, <1>15, <1>16, <2>2, <2>3 DEF WriteInv, Unpublished, WriteSteps
  <1>18. ReadInv(img, c)'
    <2>1. PICK v : v = view[c]
      OBVIOUS
    <2>2. Sees(img, z, z, v)'
      BY <1>12, <1>13, <1>14, <1>15, <1>16, <2>1 DEF Sees
    <2>3. 0 \notin Marks
      BY DEF Marks
    <2>4. snap'[c].tx <= shared'.tx
      BY <1>1, <1>9, <1>15
    <2> QED  BY <1>9, <1>10, <1>13, <1>15, <1>16, <2>1, <2>2, <2>3, <2>4, ReadInvFrom
  <1>19. PickInv(c)' /\ CkptInv(img, c)'
    <2>1. c \in Writers
      BY <1>1, <1>3, <1>16 DEF CkptInv, WriteSteps
    <2> QED  BY <1>10, <1>16, <2>1, VoidParts DEF CheckpointSteps
  <1>20. CacheInv(c)'
    <2>1. Tags(c)'
      <3>1. shared.epoch <= shared'.epoch
        BY <1>7 DEF LogRestarted
      <3> QED  BY <1>1, <1>7, <1>8, <1>16, <3>1, RestartedTags
    <2>2. Content(c)'
      BY <1>1, <1>3, <1>10, <1>15, <1>16 DEF Content, InTransaction, Unpublished
    <2> QED  BY <2>1, <2>2 DEF CacheInv
  <1>21. LocalTypes(c)'
    BY <1>1, <1>3, LocalTypesFrom
  <1>22. ConnInv(img, c)'
    BY <1>17, <1>18, <1>19, <1>20 DEF ConnInv
  <1>23. cache' = cache /\ view' = view /\ pc'[c] # "read"
    BY <1>3, <1>4, <1>10
  <1> QED
    BY <1>5, <1>7, <1>8, <1>9, <1>10, <1>12, <1>13, <1>21, <1>22, <1>23, RestartStep

(* A checkpoint restarts the log: it holds slot 0 and the write lock, and    *)
(* has copied every frame.                                                  *)
LEMMA RestarterIsAlone ==
    ASSUME NEW base, Ready(base), NEW c \in Conns, pc[c] = "backfill", RestartsLog(ckpt[c].mode),
           BusySlots = {}
    PROVE  Alone(c)
  <1>1. LockInv /\ OneCheckpointer /\ HeldAt(c) /\ c \in Checkpointers \union Vacuumers
    BY ReadyParts, CkptParts DEF CheckpointSteps
  <1>2. ckpt[c].held = "writer"
    BY <1>1 DEF HeldAt, GuardKind, RestartsLog
  <1>3. slot[0].readers = 0
    <2>1. ReadMarkWord(0) /\ c \in Holding0
      BY <1>1, <1>2, BoundsAssumption DEF LockInv, ReadMarkWords, Holding0
    <2> QED  BY <2>1 DEF ReadMarkWord
  <1>4. SUFFICES ASSUME NEW d \in Conns \ {c}
                 PROVE  guard[d] = NO_LOCK_HELD /\ pc[d] # "read" /\ pc[d] \notin WriteSteps /\ ~Copying(d)
    BY DEF Alone
  <1>5. HeldAt(d) /\ CkptInv(base, d)
    BY ReadyParts
  <1>6. guard[d] = NO_LOCK_HELD
    <2>1. SUFFICES ASSUME guard[d] # NO_LOCK_HELD  PROVE FALSE
      OBVIOUS
    <2>2. guard[d] \in 0..Slots /\ slot[guard[d]].readers > 0
      BY <1>1, <2>1, GuardedSlot
    <2>3. guard[d] # 0
      BY <1>3, <2>2
    <2>4. guard[d] \in Marks
      BY <2>2, <2>3, BoundsAssumption DEF Marks
    <2>5. slot[guard[d]].readers = 0
      BY <1>1, <2>4, ClearedMarks
    <2> QED  BY <2>2, <2>5
  <1>7. pc[d] # "read"
    BY <1>5, <1>6 DEF HeldAt
  <1>8. pc[d] \notin WriteSteps
    <2>1. c \in Writing /\ AtMostOne(Writing)
      BY <1>1, <1>2 DEF Writing, LockInv, LockWords
    <2> QED  BY <2>1 DEF Writing, AtMostOne
  <1>9. ~Copying(d)
    <2>1. SUFFICES ASSUME Copying(d)  PROVE FALSE
      OBVIOUS
    <2>2. pc[d] \in CheckpointSteps
      BY <2>1 DEF Copying, CheckpointSteps
    <2>3. d \in Checkpointers \union Vacuumers
      BY <1>5, <2>2 DEF CkptInv
    <2> QED  BY <1>1, <2>3 DEF OneCheckpointer, AtMostOne
  <1> QED  BY <1>6, <1>7, <1>8, <1>9

LEMMA RestartKeeps ==
    ASSUME NEW base, Ready(base), NEW c \in Conns, DetermineResult(c), ~EndCheckpoint(c),
           RestartsLog(ckpt[c].mode)
    PROVE  \E b \in Images : Reached(b)
  <1>1. /\ LockInv /\ LogTypes /\ ConnTypes /\ ConnType(c) /\ NatMarks /\ LogInv(base) /\ HeldAt(c)
        /\ WriteInv(c) /\ Tags(c) /\ Content(c)
        /\ cache[c] \in [Pages -> CachedPages] /\ snap[c].tx <= shared.tx
    BY ReadyParts
  <1>2. PICK s : s = RestartedHeader(shared)
    OBVIOUS
  <1>3. /\ pc[c] = "backfill" /\ pc' = [pc EXCEPT ![c] = "finalize"] /\ ckpt[c].todo = {}
        /\ shared.max = ckpt[c].max /\ BusySlots = {}
        /\ slot' = [i \in 0..Slots |-> IF i = 0 THEN RestartedMarks(slot)[0]
                                                ELSE Exclusive(RestartedMarks(slot)[i])]
        /\ shared' = s /\ frame_cache' = [p \in Pages |-> <<>>]
        /\ snap' = [snap EXCEPT ![c] = [Snapshot(s) EXCEPT !.tx = snap[c].tx]]
        /\ ckpt' = [ckpt EXCEPT ![c].all = TRUE]
        /\ UNCHANGED <<lock, tx>> /\ UNCHANGED <<guard, pick, cache>>
        /\ UNCHANGED <<files, ghosts, bounds>>
    BY <1>2, ZenonT(30) DEF DetermineResult
  <1>4. UNCHANGED <<wal, db, history, view, txns, crashes>>
    BY <1>3 DEF files, ghosts, bounds
  <1>5. Alone(c)
    BY <1>3, RestarterIsAlone
  <1>6. NatMarks'
    <2>1. ASSUME NEW i \in 0..Slots  PROVE slot'[i].mark \in Nat
      <3>1. slot'[i] = RestartedMarks(slot)[i] \/ slot'[i] = Exclusive(RestartedMarks(slot)[i])
        BY <1>3
      <3> QED  BY <1>1, <3>1, RestartedNatMarks
    <2> QED  BY <2>1 DEF NatMarks
  <1>7. LogTypes' /\ LogRestarted
    BY <1>1, <1>2, <1>3, <1>4, <1>6, RestartedTypes
  <1>8. /\ SnapStep(c) /\ snap'[c].tx = snap[c].tx
    BY <1>1, <1>2, <1>3, RestartedSnap
  <1>9. /\ CkptRecord(ckpt[c]) /\ DOMAIN ckpt = Conns /\ DOMAIN pc = Conns
        /\ ckpt[c].old \in Nat /\ ckpt[c].max \in Nat /\ ckpt[c].scan \in Nat
        /\ c \in Checkpointers \union Vacuumers
        /\ ckpt[c].old = shared.nb /\ Copied(base, c)
        /\ tx[c].vacuum \/ Writers \subseteq {c}
    BY <1>3, CkptParts DEF CheckpointSteps, CopyingAt
  <1>10. /\ ckpt'[c].max = ckpt[c].max /\ ckpt'[c].old = ckpt[c].old
         /\ ckpt'[c].mode = ckpt[c].mode /\ ckpt'[c].scan = ckpt[c].scan /\ pc'[c] = "finalize"
    BY <1>3, <1>9 DEF CkptRecord
  <1>11. Local(c) /\ HeldAt(c)'
    <2>1. ShapeAfter(c)
      <3>1. CheckpointStep(c)
        BY DEF CheckpointStep
      <3> QED  BY <1>1, <3>1, CheckpointShapes
    <2> QED  BY <2>1 DEF ShapeAfter
  <1>12. Restarting' # {}
    <2>1. c \in Restarting'
      BY <1>10 DEF Restarting
    <2> QED  BY <2>1
  <1>13. db = Last(history)
    <2>1. PICK a, k : a = shared.nb /\ k = shared.max
      OBVIOUS
    <2>2. a \in Nat /\ k \in Nat /\ FileServes(base, a, k)
      BY <1>1, <2>1, LogParts DEF LogInv
    <2>3. \A p \in Pages : LatestOf(frame_cache[p], k) > a => db[p] = ImageAt(base, k)[p]
      BY <1>3, <1>9, <2>1 DEF Copied
    <2>4. FileServes(base, k, k)
      BY <1>1, <2>2, <2>3, CopiedServes
    <2> QED  BY <1>1, <2>1, <2>4, FileIsLast
  <1>14. PICK img, mode, old, max : img = db /\ mode = ckpt[c].mode /\ old = ckpt[c].old /\ max = ckpt[c].max
    OBVIOUS
  <1>15. /\ shared'.max = 0 /\ shared'.tx = shared.tx /\ history' = history /\ shared.epoch <= shared'.epoch
    BY <1>7 DEF LogRestarted
  <1>16. tx'[c] = tx[c] /\ cache'[c] = cache[c] /\ guard'[c] = NO_LOCK_HELD /\ guard'[c] \notin Marks
    <2>1. guard'[c] = NO_LOCK_HELD
      BY <1>10, <1>11 DEF HeldAt, WriteSteps
    <2> QED  BY <1>3, <2>1, BoundsAssumption DEF Marks, NO_LOCK_HELD
  <1>17. /\ pc'[c] \notin Unpublished /\ pc'[c] \notin Looking /\ pc'[c] \in CheckpointSteps
         /\ pc'[c] \notin {"choose", "lock"} /\ pc'[c] # "read"
         /\ pc[c] \notin InTransaction /\ pc'[c] \notin InTransaction /\ pc[c] \in CheckpointSteps
    BY <1>3, <1>10 DEF Unpublished, Looking, CheckpointSteps, InTransaction
  <1>18. WriteInv(c)' /\ ReadInv(img, c)' /\ PickInv(c)'
    BY <1>1, <1>8, <1>15, <1>16, <1>17, VoidParts
  <1>19. CkptInv(img, c)'
    <2>1. ~CopyingAt("finalize", mode) /\ RestartsLog(mode) /\ "finalize" \in CheckpointSteps
      BY <1>14 DEF CopyingAt, CheckpointSteps
    <2> QED  BY <1>9, <1>10, <1>14, <1>15, <1>16, <2>1, CkptFrom
  <1>20. CacheInv(c)'
    <2>1. Tags(c)'
      BY <1>1, <1>7, <1>12, <1>15, <1>16, <1>17, RestartedTags
    <2>2. Content(c)'
      BY <1>1, <1>8, <1>15, <1>16, <1>17 DEF Content
    <2> QED  BY <2>1, <2>2 DEF CacheInv
  <1>21. LocalTypes(c)'
    <2>1. pick'[c] = pick[c] /\ ckpt'[c].old \in Nat /\ ckpt'[c].max \in Nat /\ ckpt'[c].scan \in Nat
      BY <1>3, <1>9, <1>10
    <2> QED  BY <1>1, <1>16, <2>1, LocalTypesFrom
  <1>22. ConnInv(img, c)'
    BY <1>18, <1>19, <1>20 DEF ConnInv
  <1>23. cache' = cache /\ view' = view
    BY <1>3, <1>4
  <1> QED
    BY <1>5, <1>7, <1>8, <1>11, <1>12, <1>13, <1>14, <1>17, <1>21, <1>22, <1>23, RestartStep

-----------------------------------------------------------------------------
(* The induction.                                                           *)

LEMMA TransactionKeepsWalInv ==
    ASSUME ~Respill, NEW base \in Images, Ready(base), NEW c \in Conns, Transaction(c)
    PROVE  \E b \in Images : Reached(b)
  <1>1. CASE BeginRead(c) \/ ChooseMark(c) \/ LockMark(c) \/ RetryRead(c) \/ EndRead(c) \/ EndCommit(c)
    BY <1>1, BeginReadKeeps, ChooseMarkKeeps, LockMarkKeeps, RetryReadKeeps, EndReadKeeps
  <1>2. CASE \E p \in Pages : ReadPage(c, p) \/ Modify(c, p) \/ SpillPage(c, p)
    BY <1>2, ReadPageKeeps, ModifyKeeps, SpillPageKeeps
  <1>3. CASE BeginWriteTx(c) \/ SyncWal(c) \/ PrepareWalSync(c) \/ WriteFrames(c)
    BY <1>3, BeginWriteKeeps, ProceedKeeps, HeaderSyncKeeps, WriteFramesKeeps
  <1>4. CASE TryRestartLog(c)
    BY <1>4, ProceedKeeps, TryRestartKeeps
  <1>5. CASE PrepareWal(c)
    BY <1>5, ProceedKeeps, HeaderKeeps
  <1>6. CASE WalCommitDone(c) \/ Rollback(c) \/ CommitFails(c)
    BY <1>6, CommitDoneKeeps, RollbackKeeps
  <1> QED  BY <1>1, <1>2, <1>3, <1>4, <1>5, <1>6 DEF Transaction

LEMMA CheckpointKeepsWalInv ==
    ASSUME NEW base \in Images, Ready(base), NEW c \in Conns, CheckpointStep(c)
    PROVE  \E b \in Images : Reached(b)
  <1>1. CASE Checkpoint(c) \/ SkipAutoCheckpoint(c) \/ AcquireGuard(c) \/ ScanMark(c) \/ ListFrames(c)
    BY <1>1, CheckpointKeeps, SkipAutoKeeps, AcquireGuardKeeps, ScanMarkKeeps, ListFramesKeeps
  <1>2. CASE CheckpointBusy(c) \/ FinishCheckpoint(c)
    BY <1>2, EndKeeps
  <1>3. CASE Backfill(c) \/ FinalizeWal(c) \/ SyncDbFile(c) \/ PublishBackfill(c)
    BY <1>3, BackfillKeeps, FinalizeKeeps, SyncKeeps, PublishBackfillKeeps
  <1>4. CASE DetermineResult(c)
    <2>1. CASE EndCheckpoint(c)
      BY <1>4, <2>1, EndKeeps
    <2>2. CASE ~EndCheckpoint(c) /\ RestartsLog(ckpt[c].mode)
      BY <1>4, <2>2, RestartKeeps
    <2>3. CASE ~EndCheckpoint(c) /\ ~RestartsLog(ckpt[c].mode)
      BY <1>4, <2>3, ResultKeeps
    <2> QED  BY <2>1, <2>2, <2>3
  <1>5. CASE TruncateWal(c) \/ SyncTruncatedWal(c)
    BY <1>5, TruncateKeeps, SyncKeeps
  <1>6. CASE CheckpointFails(c)
    BY <1>6, TruncateKeeps, EndKeeps
  <1> QED  BY <1>1, <1>2, <1>3, <1>4, <1>5, <1>6 DEF CheckpointStep

LEMMA VacuumKeepsWalInv ==
    ASSUME NEW base \in Images, Ready(base), NEW c \in Conns, VacuumStep(c)
    PROVE  \E b \in Images : Reached(b)
  BY BeginVacuumKeeps, BeginVacuumTxKeeps, EndVacuumCommitKeeps, EndKeeps DEF VacuumStep

LEMMA StutterKeepsWalInv ==
    ASSUME NEW base \in Images, Ready(base), UNCHANGED vars
    PROVE  Reached(base)
  <1>1. /\ UNCHANGED <<shared, frame_cache, slot, lock, pc, snap, guard, pick, tx, ckpt, cache>>
        /\ UNCHANGED <<wal, db, history, view, txns, crashes>>
    BY DEF vars, mem, files, ghosts, bounds
  <1>2. LogTypes /\ ConnTypes /\ LogInv(base) /\ SpillInv /\ \A c \in Conns : ConnInv(base, c)
    BY DEF Ready, WalInvOver
  <1>3. LogTypes' /\ ConnTypes'
    <2>1. LogTypes'
      BY <1>1, <1>2 DEF LogTypes
    <2>2. ConnTypes'
      BY <1>1, <1>2 DEF ConnTypes, ConnType
    <2> QED  BY <2>1, <2>2
  <1>4. LogSame
    BY <1>1, <1>2, LogParts DEF LogSame
  <1>5. /\ \A b : Boundary(b)' <=> Boundary(b)
        /\ LogInv(base)'
        /\ \A nb, m, v : Sees(base, nb, m, v) => Sees(base, nb, m, v)'
        /\ \A b : ImageAt(base, b)' = ImageAt(base, b)
    BY <1>2, <1>4, SameLog
  <1>6. SpillInv'
    BY <1>1, <1>2 DEF SpillInv
  <1>7. ASSUME NEW c \in Conns  PROVE ConnInv(base, c)'
    <2>1. WriteInv(c) /\ ReadInv(base, c) /\ PickInv(c) /\ CkptInv(base, c) /\ Tags(c) /\ Content(c)
      BY <1>2, <1>7 DEF ConnInv, CacheInv
    <2>2. WriteInv(c)'
      BY <1>1, <2>1, WriteKept DEF Kept, LogStill
    <2>3. ReadInv(base, c)'
      BY <1>1, <2>1 DEF ReadInv, ViewMax, Sees, Boundary, ImageAt, FileServes
    <2>4. PickInv(c)'
      BY <1>1, <2>1 DEF PickInv, Boundary
    <2>5. CkptInv(base, c)'
      BY <1>1, <2>1 DEF CkptInv, Copying, Copied, Boundary, ImageAt
    <2>6. Tags(c)'
      BY <1>1, <2>1 DEF Tags, Restarting
    <2>7. Content(c)'
      BY <1>1, <2>1 DEF Content
    <2> QED  BY <2>2, <2>3, <2>4, <2>5, <2>6, <2>7 DEF ConnInv, CacheInv
  <1>8. WalInvOver(base)'
    BY <1>5, <1>6, <1>7 DEF WalInvOver
  <1> QED  BY <1>3, <1>8 DEF Reached

(* One step, in the configurations the theorems below are about.            *)
LEMMA WalInvNext ==
    ASSUME ~Respill, MaxCrashes = 0, OneCheckpointer
    PROVE  LockInv /\ WalInv /\ [Next]_vars => WalInv'
  <1> SUFFICES ASSUME LockInv, WalInv, [Next]_vars
               PROVE  WalInv'
    OBVIOUS
  <1>1. PICK base \in Images : Ready(base)
    BY DEF WalInv, Ready
  <1>2. ~Crash
    BY DEF WalInv, LogTypes, Crash
  <1>3. \E b \in Images : Reached(b)
    BY <1>1, <1>2, TransactionKeepsWalInv, CheckpointKeepsWalInv, VacuumKeepsWalInv, StutterKeepsWalInv
    DEF Next
  <1> QED  BY <1>3 DEF WalInv, Reached

LEMMA WalInvInit == Init => WalInv
  <1> SUFFICES ASSUME Init  PROVE WalInv
    OBVIOUS
  <1>1. LogTypes
    <2>1. shared \in [max : Nat, nb : Nat, seq : Nat, tx : Nat, hdr : BOOLEAN,
                      init : BOOLEAN, epoch : Nat]
      BY DEF Init
    <2>2. frame_cache \in [Pages -> Seq(FrameNumber)]
      BY DEF Init
    <2>3. wal \in [gen : Nat, frames : Seq(Frames)]
      <3>1. NoHeader \in Nat
        BY BoundsAssumption DEF NoHeader
      <3> QED  BY <3>1 DEF Init
    <2>4. db \in Images
      BY BoundsAssumption DEF Init, Images
    <2>5. history \in Seq(Images) /\ history # <<>>
      BY <2>4 DEF Init
    <2>6. \A i \in 0..Slots : slot[i].mark \in Nat
      BY BoundsAssumption DEF Init, EmptySlots, READMARK_NOT_USED
    <2>7. txns \in 0..MaxTxn /\ crashes = 0
      BY BoundsAssumption DEF Init
    <2> QED  BY <2>1, <2>2, <2>3, <2>4, <2>5, <2>6, <2>7 DEF LogTypes
  <1>2. /\ \A c \in Conns : /\ pc[c] = "idle" /\ snap[c] = NoSnapshot /\ guard[c] = NO_LOCK_HELD
                            /\ pick[c] = NoPick /\ tx[c] = NoTx /\ ckpt[c] = NoCheckpoint
                            /\ cache[c] = EmptyCache /\ view[c] = 1
        /\ snap = [c \in Conns |-> NoSnapshot] /\ cache = [c \in Conns |-> EmptyCache]
        /\ DOMAIN view = Conns
    BY DEF Init
  <1>3. ConnTypes
    <2>1. NoSnapshot \in Snapshots
      BY DEF NoSnapshot, Snapshots
    <2>2. EmptyCache \in [Pages -> CachedPages]
      BY DEF EmptyCache, NoPage, CachedPages
    <2>3. ASSUME NEW c \in Conns  PROVE ConnType(c)
      <3>1. pick[c].snap \in Snapshots /\ pick[c].mark \in Nat
        BY <1>2, <2>1 DEF NoPick
      <3>2. tx[c].id \in 0..MaxTxn /\ tx[c].dirty \subseteq Pages /\ tx[c].spilled \subseteq tx[c].dirty
        BY <1>2, BoundsAssumption DEF NoTx
      <3>3. ckpt[c].old \in Nat /\ ckpt[c].max \in Nat /\ ckpt[c].scan \in Nat
        BY <1>2 DEF NoCheckpoint
      <3>4. view[c] \in 1..Len(history)
        BY <1>1, <1>2, LogParts
      <3> QED  BY <3>1, <3>2, <3>3, <3>4 DEF ConnType
    <2> QED  BY <1>2, <2>1, <2>2, <2>3 DEF ConnTypes
  <1>4. PICK base, z : base = db /\ z = 0
    OBVIOUS
  <1>5. /\ shared.max = 0 /\ shared.nb = 0 /\ shared.tx = 0 /\ Last(history) = db
        /\ \A p \in Pages : frame_cache[p] = <<>>
    BY DEF Init, Last
  <1>6. LogInv(base)
    <2>1. \A p \in Pages : LatestOf(frame_cache[p], z) = 0 /\ InOrderAt(frame_cache[p], z)
      BY <1>5, EmptyLookup
    <2>2. Boundary(z)
      BY <1>4, <1>5, <2>1 DEF Boundary
    <2>3. ImageAt(base, z) = base
      <3>1. base = [p \in Pages |-> base[p]]
        BY <1>1, <1>4 DEF LogTypes, Images
      <3>2. ImageAt(base, z) = [p \in Pages |-> base[p]]
        BY <2>1 DEF ImageAt
      <3> QED  BY <3>1, <3>2
    <2>4. FileServes(base, z, z)
      BY <1>4, <2>3 DEF FileServes
    <2>5. 0 <= Len(wal.frames)
      BY <1>1, LogParts
    <2> QED  BY <1>4, <1>5, <2>2, <2>3, <2>4, <2>5 DEF LogInv
  <1>7. SpillInv
    BY <1>5 DEF SpillInv
  <1>8. ASSUME NEW c \in Conns  PROVE ConnInv(base, c)
    <2>1. /\ pc[c] = "idle" /\ tx[c].dirty = {} /\ tx[c].vacuum = FALSE /\ ckpt[c].mode = "Passive"
          /\ snap[c].tx = 0 /\ guard[c] \notin Marks /\ \A p \in Pages : ~cache[c][p].used
      BY <1>2, BoundsAssumption
      DEF NoTx, NoCheckpoint, NoSnapshot, NO_LOCK_HELD, Marks, EmptyCache, NoPage
    <2>2. WriteInv(c)
      BY <2>1 DEF WriteInv, Unpublished
    <2>3. ReadInv(base, c)
      BY <1>5, <2>1 DEF ReadInv, Looking
    <2>4. PickInv(c)
      BY <2>1 DEF PickInv
    <2>5. CkptInv(base, c)
      BY <2>1 DEF CkptInv, Copying, RestartsLog, CheckpointSteps, WriteSteps
    <2>6. CacheInv(c)
      BY <2>1 DEF CacheInv, Tags, Content, InTransaction, Unpublished
    <2> QED  BY <2>2, <2>3, <2>4, <2>5, <2>6 DEF ConnInv
  <1>9. WalInvOver(base) /\ base \in Images
    BY <1>1, <1>4, <1>6, <1>7, <1>8 DEF WalInvOver, LogTypes
  <1> QED  BY <1>1, <1>3, <1>9 DEF WalInv

-----------------------------------------------------------------------------
(* What the invariant says.                                                 *)

LEMMA LogIsCurrent ==
    ASSUME WalInv
    PROVE  CurrentIsLastCommit /\ FrameCacheTrue /\ BackfillsWithinLog
  <1>1. PICK base \in Images : LogInv(base)
    BY DEF WalInv, WalInvOver
  <1>2. PICK nb, m : nb = shared.nb /\ m = shared.max
    OBVIOUS
  <1>3. /\ LogTypes /\ Boundary(nb) /\ Boundary(m) /\ nb <= m /\ FileServes(base, nb, m)
        /\ shared.max <= Len(wal.frames) /\ ImageAt(base, m) = Last(history)
    BY <1>1, <1>2 DEF WalInv, LogInv
  <1>4. ASSUME NEW p \in Pages
        PROVE  LET f == LatestFrame(frame_cache, p, nb + 1, m)
               IN  /\ ImageAt(base, m)[p] = IF f = 0 THEN db[p] ELSE FrameContent(wal, f, p)
                   /\ f # 0 => f \in 1..m /\ wal.frames[f].page = p
    BY <1>3, LookupIsImage
  <1>5. CurrentIsLastCommit
    <2>1. Last(history) = [p \in Pages |-> Last(history)[p]]
      BY <1>3, LogParts DEF Images
    <2>2. CurrentImage = [p \in Pages |-> Last(history)[p]]
      BY <1>2, <1>3, <1>4 DEF CurrentImage
    <2> QED  BY <2>1, <2>2 DEF CurrentIsLastCommit
  <1>6. FrameCacheTrue
    BY <1>2, <1>4 DEF FrameCacheTrue
  <1>7. BackfillsWithinLog
    BY <1>2, <1>3 DEF BackfillsWithinLog
  <1> QED  BY <1>5, <1>6, <1>7

LEMMA ReadersAreRight ==
    ASSUME OneCheckpointer, LockInv, WalInv
    PROVE  ReadersSeeTheirSnapshot
  <1>1. PICK base \in Images : Ready(base)
    BY DEF WalInv, Ready
  <1>2. SUFFICES ASSUME NEW c \in Conns, pc[c] \in {"read", "restart", "write", "header"}, ~tx[c].vacuum,
                        NEW p \in Pages
                 PROVE  PageSeen(c, p) = IF p \in tx[c].dirty /\ (c \in Caching \/ p \in tx[c].spilled)
                                         THEN tx[c].id ELSE history[view[c]][p]
    BY DEF ReadersSeeTheirSnapshot, SeesItsSnapshot
  <1>3. Tags(c) /\ Content(c) /\ WriteInv(c) /\ ConnType(c) /\ pc[c] \in Looking /\ pc[c] \in InTransaction
    BY <1>1, <1>2, ReadyParts DEF Looking, InTransaction, Unpublished
  <1>4. CASE cache[c][p].used
    <2>1. c \in Caching
      BY <1>3, <1>4 DEF Tags
    <2>2. cache[c][p].ver = IF p \in tx[c].dirty THEN tx[c].id ELSE history[view[c]][p]
      BY <1>2, <1>3, <1>4 DEF Content
    <2> QED  BY <1>4, <2>1, <2>2 DEF PageSeen
  <1>5. CASE ~cache[c][p].used
    <2>1. ~(p \in tx[c].dirty /\ c \in Caching)
      BY <1>2, <1>3, <1>5 DEF Content
    <2>2. PageSeen(c, p) = ReadContent(c, p) /\ tx[c].spilled \subseteq tx[c].dirty
      BY <1>3, <1>5 DEF PageSeen, ConnType
    <2>3. CASE p \in tx[c].spilled
      <3>1. pc[c] # "read"
        BY <1>3, <2>2, <2>3 DEF WriteInv, WriteSteps, CheckpointSteps
      <3>2. ReadContent(c, p) = tx[c].id
        BY <1>1, <1>2, <2>3, <3>1, ReadOwn
      <3> QED  BY <2>2, <2>3, <3>2
    <2>4. CASE p \notin tx[c].spilled
      <3>1. ReadContent(c, p) = history[view[c]][p]
        BY <1>1, <1>3, <2>4, ReadIs
      <3> QED  BY <2>1, <2>2, <2>4, <3>1
    <2> QED  BY <2>3, <2>4
  <1> QED  BY <1>4, <1>5

LEMMA TagsAreTrue ==
    ASSUME WalInv
    PROVE  CachedTagsAreTrue
  <1>1. PICK base \in Images : WalInvOver(base)
    BY DEF WalInv
  <1>2. SUFFICES ASSUME NEW c \in Caching, NEW p \in Pages, NEW pg, pg = cache[c][p],
                        ValidForCheckpoint(pg, pg.frame), pg.frame \in 1..shared.max
                 PROVE  pg.ver = FrameContent(wal, pg.frame, p)
    BY DEF CachedTagsAreTrue
  <1>3. c \in Conns /\ Tags(c) /\ LogTypes
    BY <1>1, ConnsAssumption DEF WalInv, WalInvOver, ConnInv, CacheInv
  <1>4. PICK f, m : f = pg.frame /\ m = shared.max
    OBVIOUS
  <1>5. f \in Nat /\ m \in Nat /\ f # 0 /\ f <= m /\ ~(f > m) /\ m # 0
    BY <1>2, <1>3, <1>4, LogParts
  <1>6. /\ \/ f <= m /\ pg.ver = FrameContent(wal, f, p)
           \/ pc[c] \in Unpublished /\ p \in tx[c].spilled
           \/ Restarting # {}
        /\ pc[c] \in Unpublished /\ p \in tx[c].spilled => f > m
    BY <1>2, <1>3, <1>4, <1>5 DEF Tags, ValidForCheckpoint
  <1>7. Restarting = {}
    <2>1. ASSUME NEW d \in Restarting  PROVE FALSE
      <3>1. d \in Conns /\ pc[d] = "finalize" /\ RestartsLog(ckpt[d].mode)
        BY DEF Restarting
      <3>2. CkptInv(base, d)
        BY <1>1, <3>1 DEF WalInvOver, ConnInv
      <3>3. shared.max = 0
        BY <3>1, <3>2 DEF CkptInv
      <3> QED  BY <1>4, <1>5, <3>3
    <2> QED  BY <2>1
  <1> QED  BY <1>4, <1>5, <1>6, <1>7

LEMMA WalInvHolds ==
    ASSUME ~Respill, MaxCrashes = 0, OneCheckpointer
    PROVE  Spec => [](LockInv /\ WalInv)
  <1>1. Init => LockInv /\ WalInv
    BY LockInvInit, WalInvInit
  <1>2. LockInv /\ WalInv /\ [Next]_vars => (LockInv /\ WalInv)'
    BY LockInvNext, WalInvNext
  <1> QED  BY <1>1, <1>2, PTL DEF Spec

(* Snapshot isolation of the log: a page read in a transaction, from the     *)
(* page cache, the log or the database file, is the page as of the commit    *)
(* the transaction began at, whatever other connections commit, spill, roll  *)
(* back, checkpoint or restart meanwhile and whichever I/O fails; for every  *)
(* number of connections, pages, read marks and frames.                      *)
THEOREM ReadersAreIsolated ==
    ASSUME ~Respill, MaxCrashes = 0, OneCheckpointer
    PROVE  Spec => []ReadersSeeTheirSnapshot
  <1>1. LockInv /\ WalInv => ReadersSeeTheirSnapshot
    BY ReadersAreRight
  <1> QED  BY <1>1, WalInvHolds, PTL

(* No commit is lost or torn by a checkpoint, a restarted or truncated log,  *)
(* a rollback, VACUUM or a failed write: the frames that are not backfilled  *)
(* over the database file are the last committed image.                      *)
THEOREM NoCommitIsLost ==
    ASSUME ~Respill, MaxCrashes = 0, OneCheckpointer
    PROVE  Spec => []CurrentIsLastCommit
  <1>1. LockInv /\ WalInv => CurrentIsLastCommit
    BY LogIsCurrent
  <1> QED  BY <1>1, WalInvHolds, PTL

(* What checkpoint_inner relies on when it copies a page from the page cache *)
(* instead of the log: a clean page whose tag names a published frame of     *)
(* this checkpoint epoch has that frame's content.                           *)
THEOREM TagsNameTheirContent ==
    ASSUME ~Respill, MaxCrashes = 0, OneCheckpointer
    PROVE  Spec => []CachedTagsAreTrue
  <1>1. LockInv /\ WalInv => CachedTagsAreTrue
    BY TagsAreTrue
  <1> QED  BY <1>1, WalInvHolds, PTL

(* The frame a lookup finds holds the page that is looked up, and no more    *)
(* frames are backfilled than there are ("backfills can't be more than       *)
(* max_frame"): without a page spilled twice (WalRespill.cfg) and without a  *)
(* second checkpointer (WalPublishRace.cfg) the comments are right.          *)
THEOREM LookupsFindTheirPage ==
    ASSUME ~Respill, MaxCrashes = 0, OneCheckpointer
    PROVE  Spec => [](FrameCacheTrue /\ BackfillsWithinLog)
  <1>1. LockInv /\ WalInv => FrameCacheTrue /\ BackfillsWithinLog
    BY LogIsCurrent
  <1> QED  BY <1>1, WalInvHolds, PTL

-----------------------------------------------------------------------------
(* The log implements SnapshotStore.                                        *)

(* From the frames of its commit on until it ends, a writer still sees the   *)
(* image it began at in the pages it has not written; what is in doubt is    *)
(* what it is about to publish.                                              *)
Late == {"frames", "walsync", "publish", "committed"}
SeesOthers(c) == \A p \in Pages \ tx[c].dirty : PageSeen(c, p) = history[view[c]][p]
LateInv(c) ==
    pc[c] \in Late =>
        /\ ~tx[c].vacuum =>
             snap[c].nb <= shared.nb /\ shared.max <= snap[c].max /\ SeesOthers(c)
        /\ pc[c] \in {"walsync", "publish"} => doubt = {CommittedImage(c)}
StoreInv == \A c \in Conns : LateInv(c)

(* Under the mapping the store's committed images are the history, and a     *)
(* reader's image is the one of the history it began at.                     *)
BeganAt(c) == IF guard[c] = NO_LOCK_HELD THEN <<>> ELSE history[view[c]]

LEMMA CommittedIs ==
    ASSUME WalInv
    PROVE  Append(Front(history), CurrentImage) = history
  <1>1. /\ Len(history) \in Nat \ {0} /\ CurrentImage = history[Len(history)]
        /\ history \in Seq(Images)
    BY LogIsCurrent, LogParts DEF WalInv, CurrentIsLastCommit, LogTypes
  <1>2. PICK n : n = Len(history)
    OBVIOUS
  <1>3. PICK s : s = SubSeq(history, 1, n - 1)
    OBVIOUS
  <1>4. s \in Seq(Images) /\ Len(s) = n - 1 /\ \A i \in 1..n - 1 : s[i] = history[i]
    BY <1>1, <1>2, <1>3
  <1>5. CurrentImage \in Images
    BY <1>1
  <1>6. PICK t : t = Append(s, CurrentImage)
    OBVIOUS
  <1>7. t \in Seq(Images) /\ Len(t) = n /\ \A i \in 1..n : t[i] = history[i]
    BY <1>1, <1>2, <1>4, <1>5, <1>6
  <1>8. t = history
    BY <1>1, <1>2, <1>7
  <1> QED  BY <1>2, <1>3, <1>6, <1>8 DEF Front

LEMMA ImageSeenIs ==
    ASSUME OneCheckpointer, LockInv, WalInv, StoreInv, NEW c \in Conns
    PROVE  ImageSeen(c) = BeganAt(c)
  <1>1. CASE guard[c] = NO_LOCK_HELD
    BY <1>1 DEF ImageSeen, BeganAt
  <1>2. CASE guard[c] # NO_LOCK_HELD
    <2>1. HeldAt(c) /\ LateInv(c)
      BY DEF LockInv, HeldByPc, StoreInv
    <2>2. /\ pc[c] = "read" \/ pc[c] \in WriteSteps
          /\ ~tx[c].vacuum
      BY <1>2, <2>1 DEF HeldAt
    <2>3. \A p \in Pages \ tx[c].dirty : PageSeen(c, p) = history[view[c]][p]
      <3>1. CASE pc[c] \in {"read", "restart", "write", "header"}
        <4>1. SeesItsSnapshot(c)
          BY <2>2, <3>1, ReadersAreRight DEF ReadersSeeTheirSnapshot
        <4> QED  BY <4>1 DEF SeesItsSnapshot
      <3>2. CASE pc[c] \in Late
        BY <2>1, <2>2, <3>2 DEF LateInv, SeesOthers
      <3> QED  BY <2>2, <3>1, <3>2 DEF WriteSteps, Late
    <2>4. history[view[c]] \in Images
      BY LogParts DEF WalInv, ConnTypes, ConnType
    <2>5. PICK h : h = history[view[c]]
      OBVIOUS
    <2>6. ImageSeen(c) = [p \in Pages |-> IF p \in tx[c].dirty THEN h[p] ELSE PageSeen(c, p)]
      BY <1>2, <2>5 DEF ImageSeen
    <2>7. [p \in Pages |-> IF p \in tx[c].dirty THEN h[p] ELSE PageSeen(c, p)] = [p \in Pages |-> h[p]]
      BY <2>3, <2>5
    <2>8. h = [p \in Pages |-> h[p]]
      BY <2>4, <2>5 DEF Images
    <2> QED  BY <1>2, <2>5, <2>6, <2>7, <2>8 DEF BeganAt
  <1> QED  BY <1>1, <1>2

(* While connection c has the write lock, another one leaves alone what c    *)
(* looks up: of the database file it writes only pages that have a frame     *)
(* that c finds.                                                             *)
Overlaid(p) == \E i \in 1..Len(frame_cache[p]) : frame_cache[p][i] \in shared.nb + 1..shared.max
Undisturbed(c) ==
    /\ frame_cache' = frame_cache /\ wal' = wal /\ history' = history /\ doubt' = doubt
    /\ shared'.max = shared.max /\ shared.nb <= shared'.nb
    /\ pc'[c] = pc[c] /\ tx'[c] = tx[c] /\ guard'[c] = guard[c]
    /\ snap'[c] = snap[c] /\ cache'[c] = cache[c] /\ view'[c] = view[c]
    /\ \A p \in Pages : db'[p] = db[p] \/ Overlaid(p)

LEMMA UndisturbedLookup ==
    ASSUME NEW base, Ready(base), LogTypes', NEW c \in Conns, Undisturbed(c), NEW p \in Pages,
           snap[c].nb <= shared.nb, shared.max <= snap[c].max
    PROVE  PageSeen(c, p)' = PageSeen(c, p)
  <1>1. snap[c] \in Snapshots /\ snap'[c] \in Snapshots /\ LogTypes
        /\ shared.nb \in Nat /\ shared.max \in Nat /\ frame_cache[p] \in Seq(FrameNumber)
    BY ReadyParts, LogParts DEF Undisturbed
  <1>2. PICK lo, hi : lo = snap[c].nb /\ hi = snap[c].max
    OBVIOUS
  <1>3. lo \in Nat /\ hi \in Nat /\ lo <= shared.nb /\ shared.max <= hi
    BY <1>1, <1>2 DEF Snapshots
  <1>4. PICK f : f = LatestFrame(frame_cache, p, lo + 1, hi)
    OBVIOUS
  <1>5. FindFrame(c, p) = f
    BY <1>1, <1>2, <1>4, FindFrameIs
  <1>6. FindFrame(c, p)' = f
    <2>1. snap'[c].nb = lo /\ snap'[c].max = hi /\ frame_cache' = frame_cache
          /\ guard'[c] = guard[c]
      BY <1>2 DEF Undisturbed
    <2>2. FindFrame(c, p) = IF guard[c] = 0 /\ hi < lo + 1 THEN 0 ELSE f
      BY <1>2, <1>4 DEF FindFrame
    <2>3. FindFrame(c, p)' = IF guard'[c] = 0 /\ hi < lo + 1 THEN 0 ELSE f
      BY <1>4, <2>1 DEF FindFrame
    <2> QED  BY <1>5, <2>1, <2>2, <2>3
  <1>7. f = 0 => db'[p] = db[p]
    <2>1. SUFFICES ASSUME Overlaid(p) PROVE f # 0
      BY DEF Undisturbed
    <2>2. PICK i \in 1..Len(frame_cache[p]) : frame_cache[p][i] \in shared.nb + 1..shared.max
      BY <2>1 DEF Overlaid
    <2>3. PICK s : s = frame_cache[p]
      OBVIOUS
    <2> DEFINE hits == {k \in DOMAIN s : s[k] \in lo + 1..hi}
    <2>4. i \in hits
      <3>1. s \in Seq(FrameNumber) /\ i \in 1..Len(s)
        BY <1>1, <2>2, <2>3
      <3>2. i \in DOMAIN s /\ s[i] \in Nat
        BY <3>1 DEF FrameNumber
      <3>3. s[i] \in lo + 1..hi
        <4>1. PICK nb, m : nb = shared.nb /\ m = shared.max
          OBVIOUS
        <4>2. nb \in Nat /\ m \in Nat /\ lo \in Nat /\ hi \in Nat /\ lo <= nb /\ m <= hi
          BY <1>1, <1>3, <4>1
        <4>3. s[i] \in nb + 1..m
          BY <2>2, <2>3, <4>1
        <4> QED  BY <3>2, <4>2, <4>3
      <3> QED  BY <3>2, <3>3
    <2>5. /\ hits \subseteq Nat /\ (\A x \in hits : x <= Len(s)) /\ Len(s) \in Nat /\ hits # {}
          /\ hits \subseteq 1..Len(s)
      BY <1>1, <2>3, <2>4
    <2>6. f = s[Max(hits)]
      BY <1>4, <2>3, <2>4 DEF LatestFrame
    <2> HIDE DEF hits
    <2>7. Max(hits) \in hits
      BY <2>5, MaxOf
    <2> QED  BY <1>1, <2>3, <2>5, <2>6, <2>7 DEF FrameNumber
  <1>8. ReadContent(c, p) = IF f = 0 THEN db[p] ELSE FrameContent(wal, f, p)
    BY <1>5 DEF ReadContent
  <1>9. ReadContent(c, p)' = IF f = 0 THEN db'[p] ELSE FrameContent(wal, f, p)
    BY <1>6 DEF ReadContent, Undisturbed
  <1> QED  BY <1>7, <1>8, <1>9 DEF PageSeen, Undisturbed

LEMMA LateKept ==
    ASSUME NEW base, Ready(base), LogTypes', NEW c \in Conns, Undisturbed(c), LateInv(c),
           shared'.nb \in Nat
    PROVE  LateInv(c)'
  <1>1. SUFFICES ASSUME pc[c] \in Late  PROVE LateInv(c)'
    BY DEF LateInv, Undisturbed
  <1>2. ASSUME ~tx[c].vacuum
        PROVE  /\ snap'[c].nb <= shared'.nb /\ shared'.max <= snap'[c].max
               /\ \A p \in Pages \ tx'[c].dirty : PageSeen(c, p)' = history'[view'[c]][p]
    <2>1. snap[c].nb <= shared.nb /\ shared.max <= snap[c].max /\ SeesOthers(c)
      BY <1>1, <1>2 DEF LateInv
    <2>2. snap[c].nb \in Nat /\ shared.nb \in Nat
      BY ReadyParts, LogParts DEF Snapshots
    <2>3. \A p \in Pages : PageSeen(c, p)' = PageSeen(c, p)
      BY <2>1, UndisturbedLookup
    <2> QED  BY <2>1, <2>2, <2>3 DEF Undisturbed, SeesOthers
  <1>3. pc'[c] \in {"walsync", "publish"} => doubt' = {CommittedImage(c)'}
    <2>1. CommittedImage(c)' = CommittedImage(c)
      BY DEF CommittedImage, Undisturbed
    <2> QED  BY <1>1, <2>1 DEF LateInv, Undisturbed
  <1>4. tx'[c] = tx[c] /\ pc'[c] = pc[c]
    BY DEF Undisturbed
  <1> QED  BY <1>1, <1>2, <1>3, <1>4 DEF LateInv, SeesOthers

LEMMA LocalStep ==
    ASSUME LockInv, NEW d \in Conns, Transaction(d) \/ CheckpointStep(d) \/ VacuumStep(d)
    PROVE  Local(d)
  <1>1. CASE Transaction(d)
    <2>1. CASE BeginRead(d) \/ ChooseMark(d) \/ LockMark(d) \/ RetryRead(d) \/ EndRead(d)
      BY <2>1, ReadShapes DEF ShapeAfter
    <2>2. CASE \/ \E p \in Pages : ReadPage(d, p) \/ Modify(d, p) \/ SpillPage(d, p)
               \/ BeginWriteTx(d) \/ TryRestartLog(d) \/ PrepareWal(d) \/ PrepareWalSync(d)
               \/ WriteFrames(d) \/ SyncWal(d) \/ WalCommitDone(d) \/ EndCommit(d)
      BY <2>2, WriteShapes DEF ShapeAfter
    <2>3. CASE Rollback(d) \/ CommitFails(d)
      <3>1. RollbackTx(d) /\ pc[d] \in WriteSteps
        BY <2>3 DEF Rollback, CommitFails, WriteSteps
      <3> QED  BY <3>1, WriteShapes DEF ShapeAfter
    <2> QED  BY <1>1, <2>1, <2>2, <2>3 DEF Transaction
  <1>2. CASE CheckpointStep(d)
    BY <1>2, CheckpointShapes DEF ShapeAfter
  <1>3. CASE VacuumStep(d)
    BY <1>3, VacuumShapes DEF ShapeAfter
  <1> QED  BY <1>1, <1>2, <1>3

(* What the log gives, and what is in doubt, stays as it is.                 *)
LogQuiet ==
    /\ frame_cache' = frame_cache /\ wal' = wal /\ db' = db /\ history' = history /\ doubt' = doubt
    /\ shared'.max = shared.max /\ shared'.nb = shared.nb
OwnQuiet == snap' = snap /\ cache' = cache /\ view' = view

LEMMA QuietReads ==
    ASSUME NEW d, BeginRead(d) \/ ChooseMark(d) \/ RetryRead(d) \/ BeginWriteTx(d)
    PROVE  LogQuiet /\ OwnQuiet
  <1>1. CASE BeginRead(d)
    BY <1>1 DEF BeginRead, files, ghosts, LogQuiet, OwnQuiet
  <1>2. CASE ChooseMark(d)
    <2>1. UNCHANGED <<shared, frame_cache, lock, snap, guard, tx, ckpt, cache>>
          /\ UNCHANGED <<files, ghosts, bounds>>
      BY <1>2, Zenon DEF ChooseMark
    <2> QED  BY <2>1 DEF files, ghosts, LogQuiet, OwnQuiet
  <1>3. CASE RetryRead(d)
    BY <1>3 DEF RetryRead, files, ghosts, LogQuiet, OwnQuiet
  <1>4. CASE BeginWriteTx(d)
    BY <1>4 DEF BeginWriteTx, files, ghosts, LogQuiet, OwnQuiet
  <1> QED  BY <1>1, <1>2, <1>3, <1>4

LEMMA QuietCheckpoints ==
    ASSUME LogTypes, NEW d,
           \/ Checkpoint(d) \/ SkipAutoCheckpoint(d) \/ AcquireGuard(d) \/ CheckpointBusy(d)
           \/ ScanMark(d) \/ ListFrames(d) \/ FinalizeWal(d) \/ SyncDbFile(d)
           \/ SyncTruncatedWal(d) \/ CheckpointFails(d) \/ BeginVacuum(d) \/ VacuumBusy(d)
    PROVE  LogQuiet /\ OwnQuiet
  <1>0. /\ DOMAIN shared = {"max", "nb", "seq", "tx", "hdr", "init", "epoch"}
        /\ \A s : s = [shared EXCEPT !.epoch = @ + 1] \/ s = [shared EXCEPT !.init = FALSE]
              => s.max = shared.max /\ s.nb = shared.nb
    BY DEF LogTypes
  <1>1. CASE Checkpoint(d)
    <2>1. PICK m, a : StartCheckpoint(d, m, a)
      BY <1>1, Zenon DEF Checkpoint
    <2>2. UNCHANGED <<shared, frame_cache, slot, lock, snap, guard, pick, tx, cache>>
          /\ UNCHANGED <<files, ghosts, txns, failures, crashes>>
      BY <2>1, Zenon DEF StartCheckpoint
    <2> QED  BY <2>2 DEF files, ghosts, LogQuiet, OwnQuiet
  <1>2. CASE SkipAutoCheckpoint(d)
    BY <1>2 DEF SkipAutoCheckpoint, files, ghosts, LogQuiet, OwnQuiet
  <1>3. CASE AcquireGuard(d)
    BY <1>3 DEF AcquireGuard, files, ghosts, LogQuiet, OwnQuiet
  <1>4. CASE CheckpointBusy(d)
    BY <1>4 DEF CheckpointBusy, files, ghosts, LogQuiet, OwnQuiet
  <1>5. CASE ScanMark(d)
    BY <1>5 DEF ScanMark, files, ghosts, LogQuiet, OwnQuiet
  <1>6. CASE ListFrames(d)
    BY <1>6 DEF ListFrames, files, ghosts, LogQuiet, OwnQuiet
  <1>7. CASE FinalizeWal(d)
    BY <1>0, <1>7 DEF FinalizeWal, files, ghosts, LogQuiet, OwnQuiet
  <1>8. CASE SyncDbFile(d)
    BY <1>8 DEF SyncDbFile, files, ghosts, LogQuiet, OwnQuiet
  <1>9. CASE SyncTruncatedWal(d)
    BY <1>9 DEF SyncTruncatedWal, files, ghosts, LogQuiet, OwnQuiet
  <1>10. CASE CheckpointFails(d)
    BY <1>0, <1>10 DEF CheckpointFails, files, ghosts, LogQuiet, OwnQuiet
  <1>11. CASE BeginVacuum(d)
    BY <1>11 DEF BeginVacuum, files, ghosts, LogQuiet, OwnQuiet
  <1>12. CASE VacuumBusy(d)
    BY <1>12 DEF VacuumBusy, files, ghosts, LogQuiet, OwnQuiet
  <1> QED  BY <1>1, <1>2, <1>3, <1>4, <1>5, <1>6, <1>7, <1>8, <1>9, <1>10, <1>11, <1>12

LEMMA LocalQuiet ==
    ASSUME ConnTypes, NEW d \in Conns, NEW c \in Conns \ {d},
           \/ LockMark(d) \/ EndRead(d) \/ BeginVacuumTx(d) \/ FinishCheckpoint(d)
           \/ \E p \in Pages : ReadPage(d, p)
    PROVE  LogQuiet /\ snap'[c] = snap[c] /\ cache'[c] = cache[c] /\ view'[c] = view[c]
  <1>0. DOMAIN snap = Conns /\ DOMAIN cache = Conns /\ DOMAIN view = Conns
    BY DEF ConnTypes
  <1>1. CASE LockMark(d)
    BY <1>0, <1>1 DEF LockMark, files, LogQuiet
  <1>2. CASE EndRead(d)
    BY <1>0, <1>2 DEF EndRead, files, LogQuiet
  <1>3. CASE BeginVacuumTx(d)
    BY <1>0, <1>3 DEF BeginVacuumTx, files, LogQuiet
  <1>4. CASE FinishCheckpoint(d)
    BY <1>0, <1>4 DEF FinishCheckpoint, files, ghosts, LogQuiet
  <1>5. ASSUME NEW p \in Pages, ReadPage(d, p)
        PROVE  LogQuiet /\ snap'[c] = snap[c] /\ cache'[c] = cache[c] /\ view'[c] = view[c]
    BY <1>0, <1>5 DEF ReadPage, files, ghosts, LogQuiet
  <1> QED  BY <1>1, <1>2, <1>3, <1>4, <1>5

LEMMA QuietIsUndisturbed ==
    ASSUME LogTypes, NEW d \in Conns, NEW c \in Conns \ {d}, Local(d), LogQuiet,
           snap'[c] = snap[c], cache'[c] = cache[c], view'[c] = view[c]
    PROVE  Undisturbed(c)
  BY LogParts DEF LogQuiet, Local, Undisturbed

LEMMA BackfillUndisturbed ==
    ASSUME NEW base, Ready(base), NEW d \in Conns, Backfill(d), NEW c \in Conns \ {d}
    PROVE  Undisturbed(c)
  <1>1. /\ pc[d] = "backfill" /\ UNCHANGED <<shared, frame_cache, pc, snap, guard, tx, cache>>
        /\ UNCHANGED <<wal, ghosts>>
    BY Zenon DEF Backfill
  <1>2. PICK t \in ckpt[d].todo : \E v : db' = [db EXCEPT ![t[1]] = v]
    BY Zenon DEF Backfill
  <1>3. LogTypes /\ ckpt[d].old = shared.nb /\ Boundary(ckpt[d].max) /\ Copied(base, d)
    BY <1>1, CkptParts DEF CheckpointSteps, CopyingAt
  <1>4. PICK q \in Pages :
           \E f : f = LatestOf(frame_cache[q], ckpt[d].max) /\ t = <<q, f>> /\ f > ckpt[d].old
    BY <1>2, <1>3 DEF Copied
  <1>5. /\ shared.max \in Nat /\ shared.nb \in Nat /\ frame_cache[q] \in Seq(FrameNumber)
        /\ ckpt[d].max \in 0..shared.max /\ DOMAIN db = Pages
    BY <1>3, <1>4, LogParts DEF Boundary, LogTypes, Images
  <1>6. \A p \in Pages : p # q => db'[p] = db[p]
    BY <1>2, <1>4, <1>5
  <1>7. Overlaid(q)
    <2>1. PICK s, k, f : s = frame_cache[q] /\ k = ckpt[d].max /\ f = LatestOf(s, k)
      OBVIOUS
    <2>2. s \in Seq(FrameNumber) /\ k \in Nat /\ k <= shared.max /\ f = LatestOf(s, k) /\ f > shared.nb
      BY <1>3, <1>4, <1>5, <2>1
    <2>3. PICK i \in 1..Len(s) : f = s[i] /\ s[i] \in 1..k
      BY <1>5, <2>2, LatestIs
    <2>4. PICK nb, m : nb = shared.nb /\ m = shared.max
      OBVIOUS
    <2>5. nb \in Nat /\ m \in Nat /\ k <= m /\ f > nb
      BY <1>5, <2>2, <2>4
    <2>6. s[i] \in nb + 1..m
      BY <2>2, <2>3, <2>5
    <2> QED  BY <2>1, <2>3, <2>4, <2>6 DEF Overlaid
  <1>8. history' = history /\ doubt' = doubt /\ view' = view
    BY <1>1 DEF ghosts
  <1>9. shared.nb <= shared'.nb
    BY <1>1, <1>5
  <1> QED  BY <1>1, <1>6, <1>7, <1>8, <1>9 DEF Undisturbed

LEMMA OthersUndisturbed ==
    ASSUME NEW base, Ready(base), NEW c \in Conns, pc[c] \in WriteSteps, NEW d \in Conns \ {c},
           Transaction(d) \/ CheckpointStep(d) \/ VacuumStep(d)
    PROVE  Undisturbed(c)
  <1>1. LockInv /\ LogTypes /\ ConnTypes /\ HeldAt(d) /\ CkptInv(base, d)
    BY ReadyParts
  <1>2. pc[d] \notin WriteSteps /\ ckpt[d].held # "writer"
    BY <1>1 DEF LockInv, LockWords, AtMostOne, Writing
  <1>3. Local(d)
    BY <1>1, LocalStep
  <1>4. ASSUME LogQuiet, OwnQuiet  PROVE Undisturbed(c)
    BY <1>1, <1>3, <1>4, QuietIsUndisturbed DEF OwnQuiet
  <1>5. CASE \/ LockMark(d) \/ EndRead(d) \/ BeginVacuumTx(d) \/ FinishCheckpoint(d)
             \/ \E p \in Pages : ReadPage(d, p)
    BY <1>1, <1>3, <1>5, LocalQuiet, QuietIsUndisturbed
  <1>6. CASE Transaction(d)
    <2>1. \A p \in Pages : ~Modify(d, p) /\ ~SpillPage(d, p)
      BY <1>2 DEF Modify, SpillPage, WriteSteps
    <2>2. /\ ~TryRestartLog(d) /\ ~PrepareWal(d) /\ ~PrepareWalSync(d) /\ ~WriteFrames(d)
          /\ ~SyncWal(d) /\ ~WalCommitDone(d) /\ ~EndCommit(d) /\ ~Rollback(d) /\ ~CommitFails(d)
      BY <1>2, Zenon DEF TryRestartLog, PrepareWal, PrepareWalSync, WriteFrames, SyncWal, WalCommitDone,
                  EndCommit, Rollback, CommitFails, WriteSteps
    <2>3. CASE BeginRead(d) \/ ChooseMark(d) \/ RetryRead(d) \/ BeginWriteTx(d)
      BY <1>4, <2>3, QuietReads
    <2> QED  BY <1>5, <1>6, <2>1, <2>2, <2>3 DEF Transaction
  <1>7. CASE CheckpointStep(d)
    <2>1. CASE \/ Checkpoint(d) \/ SkipAutoCheckpoint(d) \/ AcquireGuard(d) \/ CheckpointBusy(d)
               \/ ScanMark(d) \/ ListFrames(d) \/ FinalizeWal(d) \/ SyncDbFile(d)
               \/ SyncTruncatedWal(d) \/ CheckpointFails(d)
      BY <1>1, <1>4, <2>1, QuietCheckpoints
    <2>2. CASE Backfill(d)
      BY <2>2, BackfillUndisturbed
    <2>3. CASE DetermineResult(d)
      <3>1. pc[d] = "backfill" /\ ckpt[d].held = GuardKind(d)
        BY <1>1, <2>3 DEF DetermineResult, HeldAt
      <3>2. ckpt[d].mode = "Passive" /\ ~RestartsLog(ckpt[d].mode)
        BY <1>2, <3>1 DEF GuardKind, RestartsLog
      <3>3. UNCHANGED <<shared, frame_cache, snap>> /\ UNCHANGED cache /\ UNCHANGED <<files, ghosts>>
        BY <2>3, <3>2, Zenon DEF DetermineResult
      <3>4. LogQuiet /\ OwnQuiet
        BY <3>3 DEF files, ghosts, LogQuiet, OwnQuiet
      <3> QED  BY <1>4, <3>4
    <2>4. CASE PublishBackfill(d)
      <3>1. /\ pc[d] = "backfilled" /\ shared' = [shared EXCEPT !.nb = ckpt[d].max]
            /\ UNCHANGED <<frame_cache, snap, cache>> /\ UNCHANGED <<files, ghosts>>
        BY <2>4 DEF PublishBackfill, BackfilledTo
      <3>2. ckpt[d].max > shared.nb /\ ckpt[d].max \in Nat
        BY <3>1, CkptParts DEF CheckpointSteps, CopyingAt
      <3>3. DOMAIN shared = {"max", "nb", "seq", "tx", "hdr", "init", "epoch"} /\ shared.nb \in Nat
        BY <1>1 DEF LogTypes
      <3>4. shared'.max = shared.max /\ shared.nb <= shared'.nb
        BY <3>1, <3>2, <3>3
      <3> QED  BY <1>3, <3>1, <3>4 DEF files, ghosts, Local, Undisturbed
    <2>5. ~TruncateWal(d)
      BY <1>1, <1>2 DEF TruncateWal, HeldAt, CkptInv, GuardKind
    <2> QED  BY <1>5, <1>7, <2>1, <2>2, <2>3, <2>4, <2>5 DEF CheckpointStep
  <1>8. CASE VacuumStep(d)
    <2>1. ~EndVacuumCommit(d)
      BY <1>2 DEF EndVacuumCommit, WriteSteps
    <2>2. CASE BeginVacuum(d) \/ VacuumBusy(d)
      BY <1>1, <1>4, <2>2, QuietCheckpoints
    <2> QED  BY <1>5, <1>8, <2>1, <2>2 DEF VacuumStep
  <1> QED  BY <1>6, <1>7, <1>8

LEMMA NoFrameBetween ==
    ASSUME NEW fc, NEW p, NEW lo \in Nat, NEW hi \in Nat, hi < lo + 1
    PROVE  LatestFrame(fc, p, lo + 1, hi) = 0
  <1>1. lo + 1..hi = {}
    OBVIOUS
  <1> QED  BY <1>1 DEF LatestFrame

(* Where c is next; only a commit gets late.                                 *)
LEMMA LateFrom ==
    ASSUME LockInv, NEW c \in Conns, Transaction(c) \/ CheckpointStep(c) \/ VacuumStep(c),
           pc'[c] \in Late
    PROVE  \/ (PrepareWal(c) /\ shared.init) \/ PrepareWalSync(c) \/ WriteFrames(c)
           \/ SyncWal(c) \/ WalCommitDone(c)
  <1>0. DOMAIN pc = Conns
    BY DEF LockInv, LockTypes, PcTypes
  <1> USE DEF Late
  <1>1. CASE Transaction(c)
    <2>1. ~BeginRead(c) /\ ~ChooseMark(c) /\ ~LockMark(c) /\ ~RetryRead(c) /\ ~EndRead(c)
      <3>1. ~BeginRead(c)
        BY <1>0 DEF BeginRead
      <3>2. ~ChooseMark(c)
        <4>1. ChooseMark(c) => pc' = [pc EXCEPT ![c] = "lock"]
          BY Zenon DEF ChooseMark
        <4> QED  BY <1>0, <4>1
      <3>3. ~LockMark(c) /\ ~RetryRead(c) /\ ~EndRead(c)
        BY <1>0 DEF LockMark, RetryRead, EndRead
      <3> QED  BY <3>1, <3>2, <3>3
    <2>2. \A p \in Pages : ~ReadPage(c, p) /\ ~Modify(c, p) /\ ~SpillPage(c, p)
      <3>1. ASSUME NEW p \in Pages, ReadPage(c, p) \/ Modify(c, p) \/ SpillPage(c, p)
            PROVE  FALSE
        <4>1. pc' = pc /\ pc[c] \in {"read", "write"}
          BY <3>1, Zenon DEF ReadPage, Modify, SpillPage
        <4> QED  BY <4>1
      <3> QED  BY <3>1
    <2>3. ~BeginWriteTx(c) /\ ~EndCommit(c) /\ ~Rollback(c) /\ ~CommitFails(c)
      BY <1>0 DEF BeginWriteTx, EndCommit, Rollback, CommitFails, RollbackTx
    <2>4. ~TryRestartLog(c)
      <3>1. TryRestartLog(c) => pc' = [pc EXCEPT ![c] = "write"]
        BY Zenon DEF TryRestartLog
      <3> QED  BY <1>0, <3>1
    <2>5. PrepareWal(c) => shared.init
      BY <1>0 DEF PrepareWal
    <2> QED  BY <1>1, <2>1, <2>2, <2>3, <2>4, <2>5 DEF Transaction
  <1>2. CASE CheckpointStep(c) \/ VacuumStep(c)
    <2>1. ~Checkpoint(c)
      <3>1. Checkpoint(c) => pc' = [pc EXCEPT ![c] = "guard"]
        BY Zenon DEF Checkpoint, StartCheckpoint
      <3> QED  BY <1>0, <3>1
    <2>2. ~SkipAutoCheckpoint(c) /\ ~AcquireGuard(c) /\ ~CheckpointBusy(c) /\ ~VacuumBusy(c)
          /\ ~FinishCheckpoint(c) /\ ~CheckpointFails(c)
      <3>1. CheckpointBusy(c) \/ VacuumBusy(c) \/ FinishCheckpoint(c) \/ CheckpointFails(c)
              => pc' = [pc EXCEPT ![c] = "idle"]
        BY Zenon DEF CheckpointBusy, VacuumBusy, FinishCheckpoint, CheckpointFails, EndCheckpoint
      <3> QED  BY <1>0, <3>1 DEF SkipAutoCheckpoint, AcquireGuard
    <2>3. ~ScanMark(c) /\ ~ListFrames(c) /\ ~Backfill(c)
      <3>1. ScanMark(c) \/ Backfill(c) => pc' = pc /\ pc[c] \in {"scan", "backfill"}
        BY Zenon DEF ScanMark, Backfill
      <3>2. ListFrames(c) => pc' = [pc EXCEPT ![c] = "backfill"]
        BY Zenon DEF ListFrames
      <3> QED  BY <1>0, <3>1, <3>2
    <2>4. ~DetermineResult(c)
      <3>1. DetermineResult(c) => \E q \in {"idle", "finalize"} : pc' = [pc EXCEPT ![c] = q]
        BY Zenon DEF DetermineResult, EndCheckpoint
      <3> QED  BY <1>0, <3>1
    <2>5. ~FinalizeWal(c) /\ ~SyncDbFile(c)
      <3>1. FinalizeWal(c) => \E q \in {"truncate", "dbsync", "finish"} : pc' = [pc EXCEPT ![c] = q]
        BY DEF FinalizeWal
      <3>2. SyncDbFile(c) => \E q \in {"truncate", "finish", "backfilled"} : pc' = [pc EXCEPT ![c] = q]
        BY DEF SyncDbFile
      <3> QED  BY <1>0, <3>1, <3>2
    <2>6. ~PublishBackfill(c) /\ ~TruncateWal(c) /\ ~SyncTruncatedWal(c)
      BY <1>0 DEF PublishBackfill, TruncateWal, SyncTruncatedWal
    <2>7. ~BeginVacuum(c) /\ ~BeginVacuumTx(c) /\ ~EndVacuumCommit(c)
      BY <1>0 DEF BeginVacuum, BeginVacuumTx, EndVacuumCommit
    <2> QED  BY <1>2, <2>1, <2>2, <2>3, <2>4, <2>5, <2>6, <2>7 DEF CheckpointStep, VacuumStep
  <1> QED  BY <1>1, <1>2

(* What c sees as long as nothing it looks at changes.                       *)
LEMMA SeenSame ==
    ASSUME NEW c, SeesOthers(c), UNCHANGED <<frame_cache, cache, wal, db, history>>,
           tx'[c] = tx[c], view'[c] = view[c], guard'[c] = guard[c], snap'[c] = snap[c]
    PROVE  SeesOthers(c)'
  <1>1. \A p \in Pages : PageSeen(c, p)' = PageSeen(c, p)
    BY DEF PageSeen, ReadContent, FindFrame
  <1> QED  BY <1>1 DEF SeesOthers

LEMMA LookingSees ==
    ASSUME NEW base \in Images, Ready(base), NEW c \in Conns, pc[c] \in {"write", "header"}, ~tx[c].vacuum
    PROVE  SeesOthers(c) /\ snap[c].nb <= shared.nb /\ shared.max <= snap[c].max
  <1>1. OneCheckpointer /\ LockInv /\ WalInv
    BY DEF Ready, WalInv
  <1>2. SeesItsSnapshot(c)
    BY <1>1, ReadersAreRight DEF ReadersSeeTheirSnapshot
  <1>3. SeesOthers(c)
    BY <1>2 DEF SeesItsSnapshot, SeesOthers
  <1>4. ReadInv(base, c) /\ WriteInv(c) /\ Cardinality(tx[c].spilled) \in Nat /\ shared.max \in Nat
    BY ReadyParts, Spilled, LogParts
  <1>5. snap[c].nb <= shared.nb
    BY <1>4 DEF ReadInv, Looking
  <1>6. snap[c].max = shared.max + Cardinality(tx[c].spilled)
    BY <1>4 DEF WriteInv, Unpublished
  <1> QED  BY <1>3, <1>4, <1>5, <1>6

LEMMA PreparedIsLate ==
    ASSUME NEW base \in Images, Ready(base), NEW c \in Conns, PrepareWal(c), shared.init
    PROVE  LateInv(c)'
  <1>1. /\ pc[c] = "write" /\ pc' = [pc EXCEPT ![c] = "frames"]
        /\ UNCHANGED <<shared, snap, wal, frame_cache, guard, tx, cache, db>> /\ UNCHANGED ghosts
    BY Zenon DEF PrepareWal
  <1>2. DOMAIN pc = Conns
    BY ReadyParts DEF LockInv, LockTypes, PcTypes
  <1>3. pc'[c] = "frames"
    BY <1>1, <1>2
  <1>4. ASSUME ~tx[c].vacuum  PROVE SeesOthers(c)' /\ snap[c].nb <= shared.nb /\ shared.max <= snap[c].max
    BY <1>1, <1>4, LookingSees, SeenSame DEF ghosts
  <1> QED  BY <1>1, <1>3, <1>4 DEF LateInv

LEMMA HeaderSyncedIsLate ==
    ASSUME NEW base \in Images, Ready(base), NEW c \in Conns, PrepareWalSync(c)
    PROVE  LateInv(c)'
  <1>1. /\ pc[c] = "header" /\ pc' = [pc EXCEPT ![c] = "frames"]
        /\ shared' = [shared EXCEPT !.init = TRUE]
        /\ UNCHANGED <<snap, wal, frame_cache, guard, tx, cache, db>> /\ UNCHANGED ghosts
    BY Zenon DEF PrepareWalSync
  <1>2. DOMAIN pc = Conns /\ DOMAIN shared = {"max", "nb", "seq", "tx", "hdr", "init", "epoch"}
    BY ReadyParts DEF LockInv, LockTypes, PcTypes, LogTypes
  <1>3. pc'[c] = "frames" /\ shared'.nb = shared.nb /\ shared'.max = shared.max
    BY <1>1, <1>2
  <1>4. ASSUME ~tx[c].vacuum  PROVE SeesOthers(c)' /\ snap[c].nb <= shared.nb /\ shared.max <= snap[c].max
    BY <1>1, <1>4, LookingSees, SeenSame DEF ghosts
  <1> QED  BY <1>1, <1>3, <1>4 DEF LateInv

LEMMA SyncedIsLate ==
    ASSUME LockInv, NEW c \in Conns, LateInv(c), SyncWal(c)
    PROVE  LateInv(c)'
  <1>1. /\ pc[c] = "walsync" /\ pc' = [pc EXCEPT ![c] = "publish"]
        /\ UNCHANGED <<shared, snap, wal, frame_cache, guard, tx, cache, db>> /\ UNCHANGED ghosts
    BY Zenon DEF SyncWal
  <1>2. DOMAIN pc = Conns
    BY DEF LockInv, LockTypes, PcTypes
  <1>3. pc'[c] = "publish" /\ UNCHANGED <<history, doubt, view>>
    BY <1>1, <1>2 DEF ghosts
  <1>4. doubt = {CommittedImage(c)} /\ CommittedImage(c)' = CommittedImage(c)
    BY <1>1, <1>3 DEF LateInv, Late, CommittedImage
  <1>5. ASSUME ~tx[c].vacuum  PROVE SeesOthers(c)' /\ snap[c].nb <= shared.nb /\ shared.max <= snap[c].max
    BY <1>1, <1>3, <1>5, SeenSame DEF LateInv, Late
  <1> QED  BY <1>1, <1>3, <1>4, <1>5 DEF LateInv

LEMMA WrittenIsLate ==
    ASSUME NEW base \in Images, Ready(base), CurrentIsLastCommit', NEW c \in Conns, WriteFrames(c)
    PROVE  LateInv(c)'
  <1>1. /\ pc[c] = "frames" /\ snap' = [snap EXCEPT ![c] = Snapshot(shared)]
        /\ doubt' = {CommittedImage(c)}
        /\ pc' = [pc EXCEPT ![c] = IF SyncMode = "Full" THEN "walsync" ELSE "publish"]
        /\ UNCHANGED <<shared, frame_cache, guard, tx, cache, db, history, view>>
    BY Zenon DEF WriteFrames
  <1>2. /\ DOMAIN pc = Conns /\ DOMAIN snap = Conns /\ shared.nb \in Nat /\ shared.max \in Nat
        /\ WriteInv(c) /\ Content(c)
    BY ReadyParts, LogParts DEF LockInv, LockTypes, PcTypes, ConnTypes
  <1>3. pc'[c] \in {"walsync", "publish"} /\ snap'[c] = Snapshot(shared)
    BY <1>1, <1>2
  <1>4. CommittedImage(c)' = CommittedImage(c)
    BY <1>1 DEF CommittedImage
  <1>5. PICK lo, hi : lo = shared.nb /\ hi = shared.max
    OBVIOUS
  <1>6. snap'[c].nb = lo /\ snap'[c].max = hi
    BY <1>3, <1>5 DEF Snapshot
  <1>7. ASSUME ~tx[c].vacuum, NEW p \in Pages \ tx[c].dirty
        PROVE  PageSeen(c, p)' = history'[view'[c]][p]
    <2>1. CASE cache[c][p].used
      <3>1. cache[c][p].ver = history[view[c]][p]
        BY <1>1, <1>2, <1>7, <2>1 DEF Content, InTransaction, Unpublished
      <3> QED  BY <1>1, <2>1, <3>1 DEF PageSeen
    <2>2. CASE ~cache[c][p].used
      <3>1. PICK f : f = LatestFrame(frame_cache, p, lo + 1, hi)
        OBVIOUS
      <3>2. hi < lo + 1 => f = 0
        BY <1>2, <1>5, <3>1, NoFrameBetween
      <3>3. FindFrame(c, p)' = IF guard'[c] = 0 /\ hi < lo + 1 THEN 0 ELSE f
        BY <1>1, <1>6, <3>1 DEF FindFrame
      <3>4. FindFrame(c, p)' = f
        BY <3>2, <3>3
      <3>5. PageSeen(c, p)' = IF f = 0 THEN db'[p] ELSE FrameContent(wal', f, p)
        BY <1>1, <2>2, <3>4 DEF PageSeen, ReadContent
      <3>6. CurrentImage'[p] = IF f = 0 THEN db'[p] ELSE FrameContent(wal', f, p)
        BY <1>1, <1>5, <3>1 DEF CurrentImage
      <3>7. history[view[c]] = Last(history)
        BY <1>1, <1>2 DEF WriteInv, Unpublished
      <3>8. Last(history)' = Last(history)
        BY <1>1 DEF Last
      <3> QED  BY <1>1, <3>5, <3>6, <3>7, <3>8 DEF CurrentIsLastCommit
    <2> QED  BY <2>1, <2>2
  <1>8. snap'[c].nb <= shared'.nb /\ shared'.max <= snap'[c].max
    BY <1>1, <1>2, <1>5, <1>6
  <1> QED  BY <1>1, <1>3, <1>4, <1>7, <1>8 DEF LateInv, SeesOthers

LEMMA PublishedIsLate ==
    ASSUME NEW base, Ready(base), NEW c \in Conns, LateInv(c), WalCommitDone(c)
    PROVE  LateInv(c)'
  <1>1. /\ pc[c] = "publish" /\ pc' = [pc EXCEPT ![c] = "committed"]
        /\ history' = Append(history, CommittedImage(c))
        /\ UNCHANGED <<guard, tx, wal, db, view>>
    BY Zenon DEF WalCommitDone, files
  <1>2. PICK a : PublishedAt(c, a) /\ Publishes(c, a)
    BY CommitPublishes
  <1>3. PICK N, s : N = shared.max + Len(CommitFrames(c)) /\ s = snap[c]
    OBVIOUS
  <1>4. /\ frame_cache' = [p \in Pages |-> IF p \in tx[c].dirty
                                         THEN Append(frame_cache[p], a[p]) ELSE frame_cache[p]]
        /\ shared' = [shared EXCEPT !.max = N, !.tx = snap[c].tx + 1]
        /\ snap' = [snap EXCEPT ![c].max = N, ![c].tx = @ + 1]
    BY <1>2, <1>3, Zenon DEF Publishes
  <1>5. /\ DOMAIN pc = Conns /\ snap \in [Conns -> Snapshots] /\ DOMAIN cache = Conns
        /\ DOMAIN shared = {"max", "nb", "seq", "tx", "hdr", "init", "epoch"}
        /\ shared.nb \in Nat /\ shared.max \in Nat /\ LogTypes
    BY ReadyParts, LogParts DEF LockInv, LockTypes, PcTypes, ConnTypes, LogTypes
  <1>6. N \in Nat /\ shared.max <= N
    <2>1. FramesOf(c, tx[c].dirty, CommitFrames(c)) /\ Cardinality(tx[c].dirty) \in Nat
      BY CommitFramesAre, Spilled
    <2> QED  BY <1>3, <1>5, <2>1 DEF FramesOf
  <1>7. pc'[c] = "committed"
    BY <1>1, <1>5
  <1>8. shared'.max = N /\ shared'.nb = shared.nb
    <2>1. PICK t : t = snap[c].tx + 1
      OBVIOUS
    <2>2. shared' = [shared EXCEPT !.max = N, !.tx = t]
      BY <1>4, <2>1, Zenon
    <2> QED  BY <1>5, <2>2
  <1>9. snap'[c].max = N /\ snap'[c].nb = snap[c].nb /\ snap[c].nb \in Nat /\ snap[c].max \in Nat
    <2>1. s \in Snapshots /\ s.tx \in Nat
      BY <1>3, <1>5 DEF Snapshots
    <2>2. PICK t : t = s.tx + 1
      OBVIOUS
    <2>3. PICK x : x = [s EXCEPT !.max = N, !.tx = t]
      OBVIOUS
    <2>4. snap' = [snap EXCEPT ![c] = x]
      BY <1>3, <1>4, <1>5, <2>2, <2>3 DEF Snapshots
    <2>5. x.max = N /\ x.nb = s.nb /\ s.nb \in Nat /\ s.max \in Nat
      BY <2>1, <2>3 DEF Snapshots
    <2> QED  BY <1>3, <1>5, <2>4, <2>5
  <1>10. SUFFICES ASSUME ~tx[c].vacuum
                  PROVE  /\ snap[c].nb <= shared.nb
                         /\ \A p \in Pages \ tx[c].dirty : PageSeen(c, p)' = history'[view[c]][p]
    <2>1. tx'[c] = tx[c] /\ view'[c] = view[c] /\ shared'.max <= snap'[c].max
      BY <1>1, <1>6, <1>8, <1>9
    <2> QED  BY <1>7, <1>8, <1>9, <2>1 DEF LateInv, SeesOthers
  <1>11. snap[c].nb <= shared.nb /\ shared.max <= snap[c].max /\ SeesOthers(c)
    BY <1>1, <1>10 DEF LateInv, Late
  <1>12. ASSUME NEW p \in Pages \ tx[c].dirty
         PROVE  PageSeen(c, p)' = history'[view[c]][p]
    <2>1. PICK lo, hi, q : lo = snap[c].nb /\ hi = snap[c].max /\ q = frame_cache[p]
      OBVIOUS
    <2>2. c \in Writing /\ tx[c].spilled \subseteq tx[c].dirty
      BY <1>1, ReadyParts DEF Writing, WriteSteps, ConnType
    <2>3. /\ q \in Seq(FrameNumber) /\ \A i \in 1..Len(q) : q[i] <= shared.max
      BY <1>5, <1>12, <2>1, <2>2, NoOthersFrames, LogParts
    <2>4. frame_cache'[p] = q /\ cache'[c][p] = cache[c][p]
      <3>1. frame_cache'[p] = q
        BY <1>4, <1>12, <2>1
      <3>2. PICK y : y = [o \in Pages |->
               IF o \in tx[c].dirty /\ cache[c][o].used /\ ~tx[c].vacuum
               THEN [cache[c][o] EXCEPT !.dirty = FALSE, !.frame = a[o], !.epoch = shared.epoch]
               ELSE cache[c][o]]
        BY Zenon
      <3>3. y[p] = cache[c][p]
        BY <1>12, <3>2, Zenon
      <3>4. cache' = [cache EXCEPT ![c] = y]
        BY <1>2, <3>2, Zenon DEF Publishes
      <3> QED  BY <1>5, <3>1, <3>3, <3>4
    <2>5. PICK f : f = LatestFrame(frame_cache, p, lo + 1, hi)
      OBVIOUS
    <2>6. {i \in DOMAIN q : q[i] \in lo + 1..N} = {i \in DOMAIN q : q[i] \in lo + 1..hi}
      <3>1. \A i \in DOMAIN q : q[i] \in Nat /\ q[i] <= shared.max
        BY <2>3 DEF FrameNumber
      <3>2. PICK m : m = shared.max
        OBVIOUS
      <3>3. m \in Nat /\ lo \in Nat /\ hi \in Nat /\ N \in Nat /\ m <= N /\ m <= hi
        BY <1>5, <1>6, <1>9, <1>11, <2>1, <3>2
      <3>4. \A i \in DOMAIN q : q[i] \in lo + 1..N <=> q[i] \in lo + 1..hi
        BY <3>1, <3>2, <3>3
      <3> QED  BY <3>4
    <2>7. LatestFrame(frame_cache', p, lo + 1, N) = f
      BY <2>1, <2>4, <2>5, <2>6 DEF LatestFrame
    <2>8. FindFrame(c, p) = f
      BY <1>5, <1>12, <2>1, <2>5, FindFrameIs
    <2>9. FindFrame(c, p)' = f
      <3>1. FindFrame(c, p)' = IF guard'[c] = 0 /\ N < lo + 1 THEN 0 ELSE f
        BY <1>9, <2>1, <2>7 DEF FindFrame
      <3>2. N < lo + 1 => f = 0
        BY <1>6, <1>9, <2>1, <2>7, NoFrameBetween
      <3> QED  BY <3>1, <3>2
    <2>10. PageSeen(c, p)' = PageSeen(c, p)
      BY <1>1, <2>4, <2>8, <2>9 DEF PageSeen, ReadContent
    <2>11. history'[view[c]] = history[view[c]]
      <3>1. view[c] \in 1..Len(history) /\ history \in Seq(Images)
        BY <1>5, ReadyParts DEF ConnType, LogTypes
      <3>2. PICK x : x = CommittedImage(c)
        OBVIOUS
      <3> QED  BY <1>1, <3>1, <3>2
    <2> QED  BY <1>11, <1>12, <2>10, <2>11 DEF SeesOthers
  <1> QED  BY <1>11, <1>12

LEMMA StoreInvInit == Init => StoreInv
  BY DEF Init, StoreInv, LateInv, Late

LEMMA StoreInvNext ==
    ASSUME ~Respill, MaxCrashes = 0, OneCheckpointer
    PROVE  LockInv /\ WalInv /\ StoreInv /\ [Next]_vars /\ WalInv' /\ CurrentIsLastCommit' => StoreInv'
  <1> SUFFICES ASSUME LockInv, WalInv, StoreInv, [Next]_vars, WalInv', CurrentIsLastCommit',
                      NEW c \in Conns
               PROVE  LateInv(c)'
    BY DEF StoreInv
  <1>1. PICK base \in Images : Ready(base)
    BY DEF WalInv, Ready
  <1>2. ~Crash
    BY DEF WalInv, LogTypes, Crash
  <1>3. LateInv(c) /\ LogTypes' /\ shared'.nb \in Nat
    BY DEF StoreInv, WalInv, LogTypes
  <1>4. CASE UNCHANGED vars
    <2>1. /\ UNCHANGED <<shared, frame_cache, pc, snap, guard, tx, cache>>
          /\ UNCHANGED <<wal, db, history, doubt, view>>
      BY <1>4 DEF vars, mem, files, ghosts
    <2>2. shared.nb <= shared'.nb /\ \A p \in Pages : db'[p] = db[p]
      BY <1>3, <2>1
    <2>3. Undisturbed(c)
      BY <2>1, <2>2 DEF Undisturbed
    <2> QED  BY <1>1, <1>3, <2>3, LateKept
  <1>5. ASSUME NEW d \in Conns, Transaction(d) \/ CheckpointStep(d) \/ VacuumStep(d)
        PROVE  LateInv(c)'
    <2>1. CASE d = c
      <3>1. CASE pc'[c] \notin Late
        BY <3>1 DEF LateInv
      <3>2. CASE pc'[c] \in Late
        <4>1. \/ (PrepareWal(c) /\ shared.init) \/ PrepareWalSync(c) \/ WriteFrames(c)
              \/ SyncWal(c) \/ WalCommitDone(c)
          BY <1>5, <2>1, <3>2, LateFrom
        <4> QED  BY <1>1, <1>3, <4>1, PreparedIsLate, HeaderSyncedIsLate, WrittenIsLate, SyncedIsLate,
                    PublishedIsLate
      <3> QED  BY <3>1, <3>2
    <2>2. CASE d # c
      <3>1. CASE pc[c] \in WriteSteps
        <4>1. Undisturbed(c)
          BY <1>1, <1>5, <2>2, <3>1, OthersUndisturbed
        <4> QED  BY <1>1, <1>3, <4>1, LateKept
      <3>2. CASE pc[c] \notin WriteSteps
        <4>1. pc'[c] = pc[c]
          BY <1>5, <2>2, LocalStep DEF Local
        <4> QED  BY <3>2, <4>1 DEF LateInv, Late, WriteSteps
      <3> QED  BY <3>1, <3>2
    <2> QED  BY <2>1, <2>2
  <1> QED  BY <1>2, <1>4, <1>5 DEF Next

LEMMA StoreInvHolds ==
    ASSUME ~Respill, MaxCrashes = 0, OneCheckpointer
    PROVE  Spec => []StoreInv
  <1>1. Init => StoreInv
    BY StoreInvInit
  <1>2. LockInv /\ WalInv /\ StoreInv /\ [Next]_vars /\ WalInv' /\ CurrentIsLastCommit' => StoreInv'
    BY StoreInvNext
  <1>3. Spec => [](LockInv /\ WalInv)
    BY WalInvHolds
  <1>4. Spec => []CurrentIsLastCommit
    BY NoCommitIsLost
  <1> QED  BY <1>1, <1>2, <1>3, <1>4, PTL DEF Spec

(* A step of the store, in terms of the history and of the images S, then T, *)
(* that readers see.                                                         *)
KeepsImages == history' = history /\ durable' = durable
StoreStep(S, T) ==
    \/ T = S /\ KeepsImages /\ doubt' = doubt
    \/ KeepsImages /\ doubt' = doubt
       /\ \E c \in Conns : \/ S[c] = <<>> /\ T = [S EXCEPT ![c] = Last(history)]
                           \/ S[c] # <<>> /\ T = [S EXCEPT ![c] = <<>>]
    \/ KeepsImages /\ doubt' = {} /\ \E c \in Conns : T = [S EXCEPT ![c] = <<>>]
    \/ T = S /\ KeepsImages /\ (doubt' = {} \/ \E img \in Images : doubt' = {img})
    \/ /\ T = S /\ doubt' = {} /\ \E img \in doubt : history' = Append(history, img)
       /\ durable' \in {durable, Len(history')}

LEMMA GhostsKept ==
    ASSUME NEW d,
           \/ BeginRead(d) \/ ChooseMark(d) \/ RetryRead(d) \/ BeginWriteTx(d) \/ TryRestartLog(d)
           \/ \E p \in Pages : ReadPage(d, p) \/ Modify(d, p)
           \/ PrepareWal(d) \/ PrepareWalSync(d) \/ SyncWal(d)
           \/ CheckpointStep(d) \/ BeginVacuum(d) \/ VacuumBusy(d)
    PROVE  UNCHANGED <<guard, history, durable, doubt, view>>
  <1>1. CASE \/ BeginRead(d) \/ ChooseMark(d) \/ RetryRead(d) \/ BeginWriteTx(d) \/ TryRestartLog(d)
             \/ \E p \in Pages : ReadPage(d, p) \/ Modify(d, p)
    <2>1. guard' = guard /\ ghosts' = ghosts
      BY <1>1, Zenon DEF BeginRead, ChooseMark, RetryRead, BeginWriteTx, TryRestartLog, ReadPage, Modify
    <2> QED  BY <2>1 DEF ghosts
  <1>2. CASE \/ PrepareWal(d) \/ PrepareWalSync(d) \/ SyncWal(d) \/ BeginVacuum(d) \/ VacuumBusy(d)
    <2>1. guard' = guard /\ ghosts' = ghosts
      BY <1>2, Zenon DEF PrepareWal, PrepareWalSync, SyncWal, BeginVacuum, VacuumBusy
    <2> QED  BY <2>1 DEF ghosts
  <1>3. CASE \/ Checkpoint(d) \/ SkipAutoCheckpoint(d) \/ AcquireGuard(d) \/ CheckpointBusy(d)
             \/ ScanMark(d) \/ ListFrames(d) \/ Backfill(d)
    <2>1. guard' = guard /\ ghosts' = ghosts
      BY <1>3, Zenon DEF Checkpoint, StartCheckpoint, SkipAutoCheckpoint, AcquireGuard, CheckpointBusy,
                         ScanMark, ListFrames, Backfill
    <2> QED  BY <2>1 DEF ghosts
  <1>4. CASE \/ DetermineResult(d) \/ FinalizeWal(d) \/ SyncDbFile(d) \/ PublishBackfill(d)
             \/ TruncateWal(d) \/ SyncTruncatedWal(d) \/ FinishCheckpoint(d) \/ CheckpointFails(d)
    <2>1. guard' = guard /\ ghosts' = ghosts
      BY <1>4, Zenon DEF DetermineResult, FinalizeWal, SyncDbFile, PublishBackfill, TruncateWal,
                         SyncTruncatedWal, FinishCheckpoint, CheckpointFails
    <2> QED  BY <2>1 DEF ghosts
  <1> QED  BY <1>1, <1>2, <1>3, <1>4 DEF CheckpointStep

(* What a step does to the images readers see.                               *)
LEMMA SameImages ==
    ASSUME NEW S, S = [c \in Conns |-> BeganAt(c)], NEW T, T = [c \in Conns |-> BeganAt(c)'],
           \A c \in Conns : guard'[c] = guard[c]
                /\ (guard[c] # NO_LOCK_HELD => history'[view'[c]] = history[view[c]])
    PROVE  T = S
  <1>1. \A c \in Conns : BeganAt(c)' = BeganAt(c)
    BY DEF BeganAt, NO_LOCK_HELD
  <1> QED  BY <1>1

LEMMA ImageEnds ==
    ASSUME LockInv, ConnTypes, NEW d \in Conns,
           NEW S, S = [c \in Conns |-> BeganAt(c)], NEW T, T = [c \in Conns |-> BeganAt(c)'],
           guard' = [guard EXCEPT ![d] = NO_LOCK_HELD], view' = [view EXCEPT ![d] = 1],
           history' = history
    PROVE  T = [S EXCEPT ![d] = <<>>]
  <1>1. DOMAIN guard = Conns /\ DOMAIN view = Conns
    BY DEF LockInv, LockTypes, PcTypes, ConnTypes
  <1>2. BeganAt(d)' = <<>>
    BY <1>1 DEF BeganAt, NO_LOCK_HELD
  <1>3. \A c \in Conns \ {d} : BeganAt(c)' = BeganAt(c)
    BY <1>1 DEF BeganAt, NO_LOCK_HELD
  <1> QED  BY <1>2, <1>3

LEMMA ImageNotEmpty ==
    ASSUME LogTypes, NEW c \in Conns, ConnType(c), guard[c] # NO_LOCK_HELD
    PROVE  BeganAt(c) # <<>>
  <1>1. BeganAt(c) = history[view[c]] /\ history[view[c]] \in Images
    BY LogParts DEF BeganAt, ConnType
  <1>2. BeganAt(c) \in [Pages -> 0..MaxTxn] /\ Pages # {}
    BY <1>1, PagesAssumption DEF Images
  <1>3. DOMAIN BeganAt(c) = Pages
    BY <1>2
  <1>4. DOMAIN <<>> = {}
    OBVIOUS
  <1> QED  BY <1>2, <1>3, <1>4

LEMMA ImageBegins ==
    ASSUME NEW base, Ready(base), NEW d \in Conns, LockMark(d),
           NEW S, S = [c \in Conns |-> BeganAt(c)], NEW T, T = [c \in Conns |-> BeganAt(c)']
    PROVE  StoreStep(S, T)
  <1>1. /\ pc[d] = "lock" /\ Validated(d) /\ guard' = [guard EXCEPT ![d] = pick[d].slot]
        /\ view' = [view EXCEPT ![d] = Len(history)]
        /\ history' = history /\ durable' = durable /\ doubt' = doubt
    BY Zenon DEF LockMark
  <1>2. DOMAIN guard = Conns /\ DOMAIN view = Conns /\ HeldAt(d) /\ LogTypes
    BY ReadyParts DEF LockInv, LockTypes, PcTypes, ConnTypes
  <1>3. guard[d] = NO_LOCK_HELD /\ pick[d].slot # NO_LOCK_HELD
    BY <1>1, <1>2 DEF HeldAt, WriteSteps, Validated
  <1>4. S[d] = <<>>
    BY <1>3 DEF BeganAt
  <1>5. BeganAt(d)' = Last(history)
    <2>1. guard'[d] # NO_LOCK_HELD /\ history'[view'[d]] = history[Len(history)]
      BY <1>1, <1>2, <1>3
    <2>2. history[Len(history)] = Last(history)
      BY <1>2, LogParts
    <2> QED  BY <2>1, <2>2 DEF BeganAt, NO_LOCK_HELD
  <1>6. \A c \in Conns \ {d} : BeganAt(c)' = BeganAt(c)
    BY <1>1, <1>2 DEF BeganAt, NO_LOCK_HELD
  <1>7. PICK x : x = Last(history)
    OBVIOUS
  <1>8. T = [S EXCEPT ![d] = x]
    BY <1>5, <1>6, <1>7
  <1> QED  BY <1>1, <1>4, <1>7, <1>8, Zenon DEF StoreStep, KeepsImages

LEMMA EndMaps ==
    ASSUME NEW base, Ready(base), NEW d \in Conns,
           guard' = [guard EXCEPT ![d] = NO_LOCK_HELD], view' = [view EXCEPT ![d] = 1],
           history' = history, durable' = durable, doubt' \in {doubt, {}},
           NEW S, S = [c \in Conns |-> BeganAt(c)], NEW T, T = [c \in Conns |-> BeganAt(c)']
    PROVE  StoreStep(S, T)
  <1>1. LockInv /\ ConnTypes /\ LogTypes /\ ConnType(d)
    BY ReadyParts
  <1>2. T = [S EXCEPT ![d] = <<>>]
    BY <1>1, ImageEnds
  <1>3. CASE doubt' = {}
    BY <1>2, <1>3, Zenon DEF StoreStep, KeepsImages
  <1>4. CASE doubt' = doubt /\ guard[d] # NO_LOCK_HELD
    <2>1. S[d] # <<>>
      BY <1>1, <1>4, ImageNotEmpty
    <2> QED  BY <1>2, <1>4, <2>1, Zenon DEF StoreStep, KeepsImages
  <1>5. CASE doubt' = doubt /\ guard[d] = NO_LOCK_HELD
    <2>1. S[d] = <<>>
      BY <1>5 DEF BeganAt
    <2>2. T = S
      BY <1>2, <2>1
    <2> QED  BY <1>5, <2>2, Zenon DEF StoreStep, KeepsImages
  <1> QED  BY <1>3, <1>4, <1>5

LEMMA CommitMaps ==
    ASSUME NEW base, Ready(base), NEW d \in Conns, LateInv(d), WalCommitDone(d),
           NEW S, S = [c \in Conns |-> BeganAt(c)], NEW T, T = [c \in Conns |-> BeganAt(c)']
    PROVE  StoreStep(S, T)
  <1>1. /\ pc[d] = "publish" /\ history' = Append(history, CommittedImage(d))
        /\ durable' = IF SyncMode = "Full" THEN Len(history) + 1 ELSE durable
        /\ doubt' = {} /\ guard' = guard /\ view' = view
    BY Zenon DEF WalCommitDone
  <1>2. doubt = {CommittedImage(d)}
    BY <1>1 DEF LateInv, Late
  <1>3. PICK img : img = CommittedImage(d)
    OBVIOUS
  <1>4. history \in Seq(Images) /\ Len(history) \in Nat \ {0} /\ ConnTypes
    BY ReadyParts, LogParts DEF LogTypes
  <1>5. img \in Images
    BY <1>3, <1>4, ReadyParts, LogParts DEF CommittedImage, ConnType, Images
  <1>6. /\ Len(history') = Len(history) + 1
        /\ \A i \in 1..Len(history) : history'[i] = history[i]
    BY <1>1, <1>3, <1>4, <1>5
  <1>7. \A c \in Conns : view[c] \in 1..Len(history)
    BY <1>4 DEF ConnTypes, ConnType
  <1>8. T = S
    BY <1>1, <1>6, <1>7, SameImages
  <1>9. durable' \in {durable, Len(history')}
    BY <1>1, <1>6
  <1> QED  BY <1>1, <1>2, <1>8, <1>9, Zenon DEF StoreStep

LEMMA SameMaps ==
    ASSUME NEW base, Ready(base), NEW d \in Conns,
           guard' = guard, history' = history, durable' = durable,
           \A c \in Conns : guard[c] # NO_LOCK_HELD => view'[c] = view[c],
           doubt' = doubt \/ doubt' = {} \/ \E img \in Images : doubt' = {img},
           NEW S, S = [c \in Conns |-> BeganAt(c)], NEW T, T = [c \in Conns |-> BeganAt(c)']
    PROVE  StoreStep(S, T)
  <1>1. T = S
    <2>1. \A c \in Conns : guard'[c] = guard[c]
             /\ (guard[c] # NO_LOCK_HELD => history'[view'[c]] = history[view[c]])
      OBVIOUS
    <2> QED  BY <2>1, SameImages
  <1> QED  BY <1>1, Zenon DEF StoreStep, KeepsImages

LEMMA StepMaps ==
    ASSUME NEW base, Ready(base), NEW d \in Conns, LateInv(d),
           Transaction(d) \/ CheckpointStep(d) \/ VacuumStep(d),
           NEW S, S = [c \in Conns |-> BeganAt(c)], NEW T, T = [c \in Conns |-> BeganAt(c)']
    PROVE  StoreStep(S, T)
  <1>1. CASE \/ BeginRead(d) \/ ChooseMark(d) \/ RetryRead(d) \/ BeginWriteTx(d) \/ TryRestartLog(d)
             \/ \E p \in Pages : ReadPage(d, p) \/ Modify(d, p)
             \/ PrepareWal(d) \/ PrepareWalSync(d) \/ SyncWal(d)
             \/ CheckpointStep(d) \/ BeginVacuum(d) \/ VacuumBusy(d)
    <2>1. UNCHANGED <<guard, history, durable, doubt, view>>
      BY <1>1, GhostsKept
    <2>2. /\ guard' = guard /\ history' = history /\ durable' = durable /\ doubt' = doubt
          /\ \A c \in Conns : guard[c] # NO_LOCK_HELD => view'[c] = view[c]
      BY <2>1
    <2> QED  BY <2>2, SameMaps
  <1>2. CASE LockMark(d)
    BY <1>2, ImageBegins
  <1>3. CASE EndRead(d) \/ EndCommit(d)
    <2>1. /\ guard' = [guard EXCEPT ![d] = NO_LOCK_HELD] /\ view' = [view EXCEPT ![d] = 1]
          /\ history' = history /\ durable' = durable /\ doubt' = doubt
      BY <1>3, Zenon DEF EndRead, EndCommit
    <2> QED  BY <2>1, EndMaps
  <1>4. CASE Rollback(d)
    <2>1. /\ guard' = [guard EXCEPT ![d] = NO_LOCK_HELD] /\ view' = [view EXCEPT ![d] = 1]
          /\ history' = history /\ durable' = durable /\ doubt' = doubt
      BY <1>4, Zenon DEF Rollback, RollbackTx
    <2> QED  BY <2>1, EndMaps
  <1>5. CASE CommitFails(d)
    <2>1. /\ guard' = [guard EXCEPT ![d] = NO_LOCK_HELD] /\ view' = [view EXCEPT ![d] = 1]
          /\ history' = history /\ durable' = durable /\ (doubt' = {} \/ doubt' = doubt)
      BY <1>5, Zenon DEF CommitFails, RollbackTx
    <2>2. doubt' \in {doubt, {}}
      BY <2>1
    <2> QED  BY <2>1, <2>2, EndMaps
  <1>6. CASE \E p \in Pages : SpillPage(d, p)
    <2>1. /\ guard' = guard /\ history' = history /\ durable' = durable /\ doubt' = {}
          /\ view' = view
      BY <1>6, Zenon DEF SpillPage
    <2>2. \A c \in Conns : guard[c] # NO_LOCK_HELD => view'[c] = view[c]
      BY <2>1
    <2> QED  BY <2>1, <2>2, SameMaps
  <1>7. CASE WriteFrames(d)
    <2>1. /\ guard' = guard /\ history' = history /\ durable' = durable
          /\ doubt' = {CommittedImage(d)} /\ view' = view
      BY <1>7, Zenon DEF WriteFrames
    <2>2. CommittedImage(d) \in Images
      BY ReadyParts, LogParts DEF CommittedImage, ConnType, Images
    <2>3. /\ \A c \in Conns : guard[c] # NO_LOCK_HELD => view'[c] = view[c]
          /\ \E img \in Images : doubt' = {img}
      BY <2>1, <2>2, Zenon
    <2> QED  BY <2>1, <2>3, SameMaps
  <1>8. CASE WalCommitDone(d)
    BY <1>8, CommitMaps
  <1>9. CASE BeginVacuumTx(d) \/ EndVacuumCommit(d)
    <2>1. /\ guard' = guard /\ history' = history /\ durable' = durable /\ doubt' = doubt
          /\ \E v : view' = [view EXCEPT ![d] = v]
          /\ pc[d] = "vacuum" \/ (pc[d] = "committed" /\ tx[d].vacuum)
      BY <1>9, Zenon DEF BeginVacuumTx, EndVacuumCommit
    <2>2. HeldAt(d)
      BY ReadyParts
    <2>3. guard[d] = NO_LOCK_HELD
      BY <2>1, <2>2 DEF HeldAt, WriteSteps
    <2>4. DOMAIN view = Conns
      BY ReadyParts DEF ConnTypes
    <2>5. \A c \in Conns : guard[c] # NO_LOCK_HELD => view'[c] = view[c]
      BY <2>1, <2>3, <2>4
    <2> QED  BY <2>1, <2>5, SameMaps
  <1> QED  BY <1>1, <1>2, <1>3, <1>4, <1>5, <1>6, <1>7, <1>8, <1>9 DEF Transaction, VacuumStep

(* A step of the store's images is a step of SnapshotStore once the mapped   *)
(* variables are known to be those images, before and after.                 *)
Mapped ==
    /\ Append(Front(history), CurrentImage) = history
    /\ \A c \in Conns : ImageSeen(c) = BeganAt(c)

LEMMA StoreSteps ==
    ASSUME Mapped, Mapped',
           NEW S, S = [c \in Conns |-> BeganAt(c)], NEW T, T = [c \in Conns |-> BeganAt(c)'],
           StoreStep(S, T)
    PROVE  [Store!Next]_(Store!vars)
  <1>1. [c \in Conns |-> ImageSeen(c)] = S /\ [c \in Conns |-> ImageSeen(c)]' = T
    BY DEF Mapped
  <1>2. Append(Front(history), CurrentImage) = history /\ Append(Front(history), CurrentImage)' = history'
    BY DEF Mapped
  <1>3. CASE T = S /\ KeepsImages /\ doubt' = doubt
    BY <1>1, <1>2, <1>3, Zenon DEF KeepsImages, Store!vars
  <1>4. CASE /\ KeepsImages /\ doubt' = doubt
             /\ \E c \in Conns : \/ S[c] = <<>> /\ T = [S EXCEPT ![c] = Last(history)]
                                 \/ S[c] # <<>> /\ T = [S EXCEPT ![c] = <<>>]
    <2>1. PICK c \in Conns : \/ S[c] = <<>> /\ T = [S EXCEPT ![c] = Last(history)]
                             \/ S[c] # <<>> /\ T = [S EXCEPT ![c] = <<>>]
      BY <1>4
    <2>2. Store!Begin(c) \/ Store!End(c)
      BY <1>1, <1>2, <1>4, <2>1, Zenon DEF KeepsImages, Store!Begin, Store!End, Store!Last, Last
    <2> QED  BY <2>2, Zenon DEF Store!Next
  <1>5. CASE KeepsImages /\ doubt' = {} /\ \E c \in Conns : T = [S EXCEPT ![c] = <<>>]
    <2>1. \E c \in Conns : Store!Abort(c)
      BY <1>1, <1>2, <1>5, Zenon DEF KeepsImages, Store!Abort
    <2> QED  BY <2>1, Zenon DEF Store!Next
  <1>6. CASE T = S /\ KeepsImages /\ (doubt' = {} \/ \E img \in Images : doubt' = {img})
    <2>1. Store!Forget \/ Store!Write
      BY <1>1, <1>2, <1>6, Zenon DEF KeepsImages, Store!Forget, Store!Write, Store!Images, Images
    <2> QED  BY <2>1, Zenon DEF Store!Next
  <1>7. CASE /\ T = S /\ doubt' = {} /\ \E img \in doubt : history' = Append(history, img)
             /\ durable' \in {durable, Len(history')}
    <2>1. Store!Commit
      BY <1>1, <1>2, <1>7, Zenon DEF Store!Commit
    <2> QED  BY <2>1, Zenon DEF Store!Next
  <1> QED  BY <1>3, <1>4, <1>5, <1>6, <1>7 DEF StoreStep

LEMMA MappedHolds ==
    ASSUME ~Respill, MaxCrashes = 0, OneCheckpointer
    PROVE  Spec => []Mapped
  <1>1. LockInv /\ WalInv /\ StoreInv => Mapped
    BY CommittedIs, ImageSeenIs DEF Mapped
  <1>2. Spec => [](LockInv /\ WalInv)
    BY WalInvHolds
  <1>3. Spec => []StoreInv
    BY StoreInvHolds
  <1> QED  BY <1>1, <1>2, <1>3, PTL

LEMMA StoreInit ==
    ASSUME Init, Mapped
    PROVE  Store!Init
  <1>1. /\ history = <<db>> /\ durable = 1 /\ doubt = {} /\ guard = [c \in Conns |-> NO_LOCK_HELD]
        /\ db = [p \in Pages |-> 0]
    BY DEF Init
  <1>2. db \in Store!Images
    BY <1>1, BoundsAssumption DEF Store!Images
  <1>3. \A c \in Conns : ImageSeen(c) = <<>>
    BY <1>1 DEF ImageSeen
  <1>4. [c \in Conns |-> ImageSeen(c)] = [c \in Conns |-> <<>>]
    BY <1>3
  <1>5. Append(Front(history), CurrentImage) = <<db>>
    BY <1>1 DEF Mapped
  <1> QED  BY <1>1, <1>2, <1>4, <1>5, Zenon DEF Store!Init

LEMMA StoreNext ==
    ASSUME ~Respill, MaxCrashes = 0, OneCheckpointer
    PROVE  LockInv /\ WalInv /\ StoreInv /\ Mapped /\ Mapped' /\ [Next]_vars
               => [Store!Next]_(Store!vars)
  <1> SUFFICES ASSUME LockInv, WalInv, StoreInv, Mapped, Mapped', [Next]_vars
               PROVE  [Store!Next]_(Store!vars)
    OBVIOUS
  <1>1. PICK base \in Images : Ready(base)
    BY DEF WalInv, Ready
  <1>2. ~Crash
    BY DEF WalInv, LogTypes, Crash
  <1>3. PICK S : S = [c \in Conns |-> BeganAt(c)]
    OBVIOUS
  <1>4. PICK T : T = [c \in Conns |-> BeganAt(c)']
    OBVIOUS
  <1>5. CASE UNCHANGED vars
    <2>1. UNCHANGED <<guard, history, durable, doubt, view>>
      BY <1>5 DEF vars, mem, ghosts
    <2>2. \A c \in Conns : guard'[c] = guard[c]
             /\ (guard[c] # NO_LOCK_HELD => history'[view'[c]] = history[view[c]])
      BY <2>1
    <2>3. T = S
      BY <1>3, <1>4, <2>2, SameImages
    <2>4. StoreStep(S, T)
      BY <2>1, <2>3 DEF StoreStep, KeepsImages
    <2> QED  BY <1>3, <1>4, <2>4, StoreSteps
  <1>6. ASSUME NEW d \in Conns, Transaction(d) \/ CheckpointStep(d) \/ VacuumStep(d)
        PROVE  [Store!Next]_(Store!vars)
    <2>1. LateInv(d)
      BY DEF StoreInv
    <2>2. StoreStep(S, T)
      BY <1>1, <1>3, <1>4, <1>6, <2>1, StepMaps
    <2> QED  BY <1>3, <1>4, <2>2, StoreSteps
  <1> QED  BY <1>2, <1>5, <1>6 DEF Next

(* The log with its read marks, checkpoints, restarts, spills, failures and  *)
(* VACUUM implements the store of whole images: commits are atomic and       *)
(* totally ordered, and a reader keeps the image of the commit it began at   *)
(* until it ends (WalFile::find_frame, commit_prepared_frames and            *)
(* checkpoint_inner with Pager::commit_dirty_pages and rollback_tx).         *)
THEOREM TheLogIsASnapshotStore ==
    ASSUME ~Respill, MaxCrashes = 0, OneCheckpointer
    PROVE  Spec => ImplementsSnapshotStore
  <1>1. Init /\ Mapped => Store!Init
    BY StoreInit
  <1>2. LockInv /\ WalInv /\ StoreInv /\ Mapped /\ Mapped' /\ [Next]_vars
            => [Store!Next]_(Store!vars)
    BY StoreNext
  <1>3. Spec => [](LockInv /\ WalInv)
    BY WalInvHolds
  <1>4. Spec => []StoreInv
    BY StoreInvHolds
  <1>5. Spec => []Mapped
    BY MappedHolds
  <1> QED  BY <1>1, <1>2, <1>3, <1>4, <1>5, PTL DEF Spec, ImplementsSnapshotStore, Store!Spec
=============================================================================
