----------------------------- MODULE FrameCache -----------------------------
(****************************************************************************)
(* The frame cache of the write-ahead log (WalRuntimeState::frame_cache in  *)
(* core/storage/wal.rs): for every page the frames that were cached for it, *)
(* in the order they were cached.                                           *)
(****************************************************************************)
EXTENDS Naturals, Sequences, FiniteSetsExt

\* find_frame(), iter_latest_frames(): rfind over the cached frames of a page;
\* 0 when no cached frame is in the range
LatestFrame(fc, p, lo, hi) ==
    LET hits == {i \in DOMAIN fc[p] : fc[p][i] \in lo..hi}
    IN  IF hits = {} THEN 0 ELSE fc[p][Max(hits)]

\* cache_frame(): frame n was written for page p
Cached(fc, p, n) == [fc EXCEPT ![p] = Append(@, n)]

\* rollback_cache(): frames above max are popped off the end of every page's list
RolledBack(fc, max) ==
    [p \in DOMAIN fc |->
        LET keep == {i \in DOMAIN fc[p] : fc[p][i] <= max}
        IN  IF keep = {} THEN <<>> ELSE SubSeq(fc[p], 1, Max(keep))]
=============================================================================
