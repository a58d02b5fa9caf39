--------------------------- MODULE PagerSavepoints ---------------------------
(****************************************************************************)
(* Savepoints of the pager: core/storage/pager.rs (the savepoint stack, the *)
(* subjournal, dirty pages, spilling, commit and rollback of pages),        *)
(* core/storage/subjournal.rs, eviction in core/storage/page_cache.rs, and  *)
(* the statements that drive them: begin_statement, end_statement and abort *)
(* (core/vdbe/mod.rs), op_savepoint and op_auto_commit                      *)
(* (core/vdbe/execute.rs).                                                  *)
(*                                                                          *)
(* One connection runs statements, in autocommit mode or in an explicit     *)
(* transaction, with named savepoints around them and one statement         *)
(* savepoint inside each; its page cache spills and evicts under it.  Other *)
(* connections are the commits they publish.                                *)
(*                                                                          *)
(* Simplifications:                                                         *)
(*  - a page's content is a number; the content of page 1, the header, is   *)
(*    the size of the database;                                             *)
(*  - the log is never checkpointed here and locks are tried in WalFile; a  *)
(*    transaction begins in one step;                                       *)
(*  - an offset in the subjournal is a number of (page number, image)       *)
(*    entries; the subjournal is opened with the first savepoint;           *)
(*  - a statement always needs its statement savepoint                      *)
(*    (needs_stmt_subtransactions), and one statement runs at a time.       *)
(****************************************************************************)
EXTENDS FrameCache, FiniteSets, SequencesExt

CONSTANTS
    MaxPages,      \* the database never grows past this page
    InitSize,      \* its size in the beginning
    Names,         \* names of savepoints
    MaxDepth,      \* bound on named savepoints
    MaxWrites,     \* bound on changes to pages and to the counter
    MaxFrames,     \* bound on frames of the log
    MaxMoves,      \* bound on pages spilled and evicted
    StaleSavepoints, \* whether a savepoint may be older than the last commit
    EvictRestored, \* whether pages put back by a rollback may be evicted
    Fks            \* values of the deferred foreign-key counter

ASSUME SizeAssumption ==
    MaxPages \in Nat /\ InitSize \in 1..MaxPages /\ MaxDepth \in Nat
ASSUME NamesAssumption == "Statement" \notin Names   \* SavepointKind tells them apart
ASSUME LimitAssumption == MaxWrites \in Nat /\ MaxFrames \in Nat /\ MaxMoves \in Nat
ASSUME ChoiceAssumption ==
    {StaleSavepoints, EvictRestored} \subseteq BOOLEAN /\ 0 \in Fks /\ Fks \subseteq Nat

VARIABLES
    frames,       \* the WAL file: a sequence of [page, ver]
    frame_cache,  \* page -> its frames
    shared_max,   \* last published frame
    max_frame,    \* last frame of this connection's snapshot
    cache,        \* the page cache
    dirty_pages,  \* pages to be written by the commit
    savepoints,   \* the savepoint stack
    subjournal,   \* before-images: a sequence of [page, ver]
    in_use,       \* a statement owns the subjournal
    tx_state,     \* TransactionState: "None", "Read" or "Write"
    auto_commit,
    running,      \* a write statement is running
    fk,           \* fk_deferred_violations
    stmt_fk,      \* its value when the statement started
    image,        \* what the transaction must see (observation)
    marks,        \* image at each savepoint (observation)
    committed,    \* pages of the last commit (observation)
    writes, moves   \* counters of the bounds

log == <<frames, frame_cache, shared_max, max_frame>>
pager == <<cache, dirty_pages, savepoints, subjournal, in_use>>
conn == <<tx_state, auto_commit, running, fk, stmt_fk>>
ghosts == <<image, marks, committed>>
vars == <<log, pager, conn, ghosts, writes, moves>>

Pages == 1..MaxPages
PAGE_1 == 1                 \* DatabaseHeader::PAGE_ID: never evicted or spilled
Garbage == MaxWrites + MaxPages + 1
NoPage == [used |-> FALSE, ver |-> 0, dirty |-> FALSE, restored |-> FALSE]
EmptyCache == [p \in Pages |-> NoPage]

\* The database file: the header holds the size
FileContent(p) == IF p = PAGE_1 THEN InitSize ELSE 0

-----------------------------------------------------------------------------
\* read_page_no_cache: the newest frame up to hi, else the database file.  The
\* frame's page number is not looked at: another page's content is garbage.
ContentUpTo(hi, p) ==
    LET f == LatestFrame(frame_cache, p, 1, hi)
    IN  IF f = 0 THEN FileContent(p)
        ELSE IF f \in DOMAIN frames /\ frames[f].page = p THEN frames[f].ver ELSE Garbage

\* read_page: the page cache, else the files
PageSeen(p) == IF cache[p].used THEN cache[p].ver ELSE ContentUpTo(max_frame, p)
DbSize == PageSeen(PAGE_1)

Init ==
    /\ frames = <<>> /\ frame_cache = [p \in Pages |-> <<>>]
    /\ shared_max = 0 /\ max_frame = 0
    /\ cache = EmptyCache /\ dirty_pages = {}
    /\ savepoints = <<>> /\ subjournal = <<>> /\ in_use = FALSE
    /\ tx_state = "None" /\ auto_commit = TRUE /\ running = FALSE
    /\ fk = 0 /\ stmt_fk = 0
    /\ committed = [p \in Pages |-> FileContent(p)]
    /\ image = [pages |-> committed, fk |-> 0] /\ marks = <<>>
    /\ writes = 0 /\ moves = 0

-----------------------------------------------------------------------------
(* The subjournal.                                                          *)

\* write_offset of the newest savepoint
JournalEnd == IF savepoints = <<>> THEN 0 ELSE Last(savepoints).end

\* subjournal_page_if_required: the page existed when the newest savepoint was
\* opened and has no before-image in it yet
Required(p) ==
    /\ savepoints # <<>>
    /\ p <= Last(savepoints).db_size
    /\ p \notin Last(savepoints).bitmap

\* The before-image of page p, if the newest savepoint needs it
BeforeImage(p) == IF Required(p) THEN <<[page |-> p, ver |-> PageSeen(p)]>> ELSE <<>>

\* The subjournal and the newest savepoint with the entries new in them
Journal(new) ==
    /\ subjournal' = SubSeq(subjournal, 1, JournalEnd) \o new
    /\ savepoints' =
          IF new = <<>> THEN savepoints
          ELSE [savepoints EXCEPT ![Len(savepoints)].end = @ + Len(new),
                                  ![Len(savepoints)].bitmap = @ \union {new[i].page : i \in DOMAIN new}]

\* open_savepoint_with_kind: what a rollback will need
Opened(kind, starts, k) ==
    [kind |-> kind, starts |-> starts, start |-> JournalEnd, end |-> JournalEnd,
     bitmap |-> {}, db_size |-> DbSize, wal_max |-> max_frame, fk |-> k]

\* The stack cut back to its first n savepoints, the newest of which ends at off.
\* (Mutant: one entry short.)
CutShort(n, off) ==
    LET below == SubSeq(savepoints, 1, n)
    IN  IF n = 0 THEN <<>> ELSE [below EXCEPT ![n].end = off - 1]
Cut(n, off) ==
    LET below == SubSeq(savepoints, 1, n)
    IN  IF n = 0 THEN <<>> ELSE [below EXCEPT ![n].end = off]

-----------------------------------------------------------------------------
(* Transactions: op_transaction and pager.begin_read_tx, begin_write_tx.    *)

\* The transaction takes its snapshot; the page cache is emptied when the
\* database has changed.
TakeSnapshot ==
    /\ max_frame' = shared_max
    /\ cache' = IF max_frame # shared_max THEN EmptyCache ELSE cache
    /\ image' = [pages |-> committed, fk |-> fk]

\* Savepoints that were opened before the transaction are at its beginning
MarksAtStart == [i \in DOMAIN marks |-> image']

StartStatement == ~running /\ running' = TRUE /\ tx_state' = "Write" /\ stmt_fk' = fk

\* A statement in autocommit mode is its transaction: no savepoint is opened
BeginAutoCommit ==
    /\ StartStatement
    /\ auto_commit /\ tx_state = "None"
    /\ TakeSnapshot
    /\ marks' = MarksAtStart
    /\ UNCHANGED <<frames, frame_cache, shared_max, dirty_pages, savepoints, subjournal, in_use>>
    /\ UNCHANGED <<auto_commit, fk, committed, writes, moves>>

\* begin_statement inside an explicit transaction: the statement owns the
\* subjournal and a statement savepoint.  A read transaction becomes a write
\* transaction only while its snapshot is the last (BusySnapshot).
BeginStatement ==
    /\ StartStatement
    /\ ~auto_commit /\ ~in_use /\ in_use' = TRUE
    /\ \/ /\ tx_state = "None"
          /\ TakeSnapshot
          /\ LET size == IF max_frame = shared_max THEN DbSize ELSE ContentUpTo(shared_max, PAGE_1)
             IN  savepoints' = Append(savepoints, [Opened("Statement", FALSE, 0) EXCEPT
                                                      !.db_size = size, !.wal_max = shared_max])
          /\ marks' = Append(MarksAtStart, image')
       \/ /\ tx_state = "Write" \/ (tx_state = "Read" /\ max_frame = shared_max)
          /\ savepoints' = Append(savepoints, Opened("Statement", FALSE, 0))
          /\ marks' = Append(marks, image)
          /\ UNCHANGED <<max_frame, cache, image>>
    /\ UNCHANGED <<frames, frame_cache, shared_max, dirty_pages, subjournal>>
    /\ UNCHANGED <<auto_commit, fk, committed, writes, moves>>

\* A read statement of an explicit transaction takes the snapshot only
BeginRead ==
    /\ ~running /\ ~auto_commit /\ tx_state = "None"
    /\ tx_state' = "Read"
    /\ TakeSnapshot
    /\ marks' = MarksAtStart
    /\ UNCHANGED <<frames, frame_cache, shared_max, dirty_pages, savepoints, subjournal, in_use>>
    /\ UNCHANGED <<auto_commit, running, fk, stmt_fk, committed, writes, moves>>

\* op_auto_commit, BEGIN
Begin ==
    /\ ~running /\ auto_commit
    /\ auto_commit' = FALSE
    /\ UNCHANGED <<log, pager, tx_state, running, fk, stmt_fk, ghosts, writes, moves>>

-----------------------------------------------------------------------------
(* Inside a statement.                                                      *)

\* The page is brought into the cache
ReadPage(p) ==
    /\ running /\ p <= DbSize /\ ~cache[p].used
    /\ cache' = [cache EXCEPT ![p] = [NoPage EXCEPT !.used = TRUE, !.ver = PageSeen(p)]]
    /\ UNCHANGED <<log, dirty_pages, savepoints, subjournal, in_use, conn, ghosts, writes, moves>>

\* add_dirty, then the change: the before-image goes to the subjournal first
Dirtied(v) == [NoPage EXCEPT !.used = TRUE, !.ver = v, !.dirty = TRUE]

WritePage(p) ==
    /\ running /\ writes < MaxWrites
    /\ p # PAGE_1 /\ p <= DbSize
    /\ writes' = writes + 1
    /\ Journal(BeforeImage(p))
    /\ dirty_pages' = dirty_pages \union {p}
    /\ cache' = [cache EXCEPT ![p] = Dirtied(MaxPages + writes')]
    /\ image' = [image EXCEPT !.pages[p] = MaxPages + writes']
    /\ UNCHANGED <<log, in_use, conn, marks, committed, moves>>

\* allocate_page without a free page: the header is dirtied and the database
\* grows by a page
AllocatePage ==
    LET new == DbSize + 1 IN
    /\ running /\ new <= MaxPages
    /\ Journal(BeforeImage(PAGE_1) \o BeforeImage(new))
    /\ dirty_pages' = dirty_pages \union {PAGE_1, new}
    /\ cache' = [cache EXCEPT ![PAGE_1] = Dirtied(new), ![new] = Dirtied(0)]
    /\ image' = [image EXCEPT !.pages[PAGE_1] = new, !.pages[new] = 0]
    /\ UNCHANGED <<log, in_use, conn, marks, committed, writes, moves>>

\* try_spill_dirty_pages, append_frames_vectored: the page goes to the log behind
\* this connection's last frame; it is clean for the cache, to be written again
\* for the commit.  (Mutant: the before-image is not kept.)
SpillUnjournaled(p) == UNCHANGED <<savepoints, subjournal>>
SpillJournal(p) == Journal(BeforeImage(p))

SpillPage(p) ==
    /\ running /\ p # PAGE_1 /\ max_frame < MaxFrames /\ moves < MaxMoves
    /\ cache[p].used /\ cache[p].dirty
    /\ moves' = moves + 1
    /\ SpillJournal(p)
    /\ frames' = SubSeq(frames, 1, max_frame) \o <<[page |-> p, ver |-> cache[p].ver]>>
    /\ frame_cache' = Cached(frame_cache, p, max_frame + 1)
    /\ max_frame' = max_frame + 1
    /\ cache' = [cache EXCEPT ![p].dirty = FALSE]
    /\ UNCHANGED <<shared_max, dirty_pages, in_use, conn, ghosts, writes>>

\* evict_one: a page that is clean or spilled
EvictPage(p) ==
    /\ running /\ p # PAGE_1 /\ moves < MaxMoves
    /\ cache[p].used /\ ~cache[p].dirty
    /\ cache[p].restored => EvictRestored
    /\ moves' = moves + 1
    /\ cache' = [cache EXCEPT ![p] = NoPage]
    /\ UNCHANGED <<log, dirty_pages, savepoints, subjournal, in_use, conn, ghosts, writes>>

\* The statement adds or removes deferred foreign-key violations
CountViolations(k) ==
    /\ running /\ k # fk /\ writes < MaxWrites
    /\ writes' = writes + 1
    /\ fk' = k
    /\ image' = [image EXCEPT !.fk = k]
    /\ UNCHANGED <<log, pager, tx_state, auto_commit, running, stmt_fk, marks, committed, moves>>

-----------------------------------------------------------------------------
(* Taking back.                                                             *)

\* rollback_to_snapshot: the first image of every page that existed at sp goes
\* back into the cache as a clean page; newer pages leave the cache and the dirty
\* pages; spilled frames leave the log.  (Mutant: the dirty pages stay.)
RestoredPages(sp) ==
    {subjournal[i].page : i \in sp.start + 1..JournalEnd} \intersect 1..sp.db_size
RestoredImage(sp, p) ==
    subjournal[Min({i \in sp.start + 1..JournalEnd : subjournal[i].page = p})].ver

AllDirty(sp) == dirty_pages
StillDirty(sp) == dirty_pages \intersect 1..sp.db_size

RollbackToSnapshot(sp) ==
    /\ cache' = [p \in Pages |->
                    CASE p > sp.db_size -> NoPage
                      [] p \in RestoredPages(sp) ->
                            [NoPage EXCEPT !.used = TRUE, !.restored = TRUE,
                                           !.ver = RestoredImage(sp, p)]
                      [] OTHER -> cache[p]]
    /\ dirty_pages' = StillDirty(sp)
    /\ subjournal' = SubSeq(subjournal, 1, sp.start)
    /\ frame_cache' = RolledBack(frame_cache, sp.wal_max)
    /\ max_frame' = sp.wal_max
    /\ UNCHANGED <<frames, shared_max>>

\* rollback_tx of a write transaction.  (Mutant: its spilled frames stay in the
\* frame cache.)
RollbackPagesOnly ==
    /\ cache' = EmptyCache /\ dirty_pages' = {}
    /\ max_frame' = shared_max
    /\ UNCHANGED <<frames, frame_cache, shared_max>>
RollbackWrites ==
    /\ cache' = EmptyCache /\ dirty_pages' = {}
    /\ frame_cache' = RolledBack(frame_cache, shared_max)
    /\ max_frame' = shared_max
    /\ UNCHANGED <<frames, shared_max>>

ClearSavepoints ==
    savepoints' = <<>> /\ subjournal' = <<>> /\ marks' = <<>>

EndTransaction == tx_state' = "None" /\ auto_commit' = TRUE

-----------------------------------------------------------------------------
(* Publishing: commit_dirty_pages, prepare_frames and the clearing of the   *)
(* savepoints after it.                                                     *)

\* The dirty pages in page order, numbered from the last published frame: spilled
\* frames are written over
CommitDirtyPages ==
    LET rank(p) == Cardinality(dirty_pages \intersect 1..p)
        new == [i \in 1..Cardinality(dirty_pages) |->
                   LET p == CHOOSE p \in dirty_pages : rank(p) = i
                   IN  [page |-> p, ver |-> PageSeen(p)]]
    IN  /\ shared_max + Len(new) <= MaxFrames
        /\ frames' = SubSeq(frames, 1, shared_max) \o new
        /\ frame_cache' = [p \in Pages |-> IF p \in dirty_pages
                                           THEN Append(frame_cache[p], shared_max + rank(p)) ELSE frame_cache[p]]
        /\ shared_max' = shared_max + Len(new)
        /\ max_frame' = shared_max'
        /\ cache' = [p \in Pages |-> [cache[p] EXCEPT !.dirty = FALSE, !.restored = FALSE]]
        /\ dirty_pages' = {}
        /\ committed' = image.pages

-----------------------------------------------------------------------------
(* The end of a statement.                                                  *)

\* release_savepoint, release_named_savepoint: the stack keeps its first n
\* savepoints; the images above them now belong to the newest of these.
\* (Mutant: the parent's end stays where it was.)
ReleaseOnly(n) ==
    /\ savepoints' = SubSeq(savepoints, 1, n)
    /\ subjournal' = IF n = 0 THEN <<>> ELSE subjournal
    /\ marks' = SubSeq(marks, 1, n)
Release(n) ==
    /\ savepoints' = Cut(n, JournalEnd)
    /\ subjournal' = IF n = 0 THEN <<>> ELSE subjournal
    /\ marks' = SubSeq(marks, 1, n)

EndStatement == running /\ running' = FALSE /\ in_use' = FALSE /\ stmt_fk' = 0

\* end_statement(ReleaseSavepoint) inside an explicit transaction: the statement
\* was successful, or failed with ON CONFLICT FAIL
ReleaseStatement ==
    /\ EndStatement /\ ~auto_commit
    /\ Release(Len(savepoints) - 1)
    /\ UNCHANGED <<log, cache, dirty_pages, tx_state, auto_commit, fk, image, committed, writes, moves>>

\* halt in autocommit mode: no deferred violation may be left, except that a
\* statement which failed with ON CONFLICT FAIL is committed without the test
AutoCommit ==
    /\ EndStatement /\ auto_commit
    /\ CommitDirtyPages /\ ClearSavepoints /\ EndTransaction
    /\ image' = [pages |-> committed', fk |-> 0]
    /\ UNCHANGED <<fk, writes, moves>>

\* abort, end_statement(RollbackSavepoint): the statement is taken back
AbortStatement ==
    LET sp == Last(savepoints) IN
    /\ EndStatement /\ ~auto_commit
    /\ RollbackToSnapshot(sp)
    /\ savepoints' = Cut(Len(savepoints) - 1, sp.start)
    /\ fk' = stmt_fk
    /\ image' = Last(marks) /\ marks' = Front(marks)
    /\ UNCHANGED <<tx_state, auto_commit, committed, writes, moves>>

\* abort with ON CONFLICT ROLLBACK, with any other error (the counter is only
\* taken back to the start of the statement), in autocommit mode, and halt of a
\* statement that leaves violations in autocommit mode: the whole transaction
AbortTransaction(k) ==
    /\ EndStatement /\ k \in {0, stmt_fk}
    /\ RollbackWrites /\ ClearSavepoints /\ EndTransaction
    /\ fk' = k
    /\ image' = [pages |-> committed, fk |-> 0]
    /\ UNCHANGED <<committed, writes, moves>>

\* abort of a read statement in an explicit transaction: the transaction ends.
\* Only a write transaction clears the savepoints.
FailRead ==
    /\ ~running /\ ~auto_commit /\ tx_state # "None"
    /\ EndTransaction
    /\ IF tx_state = "Write" THEN RollbackWrites /\ ClearSavepoints
       ELSE UNCHANGED <<log, cache, dirty_pages, savepoints, subjournal, marks>>
    /\ image' = [pages |-> committed, fk |-> 0]
    /\ UNCHANGED <<in_use, running, fk, stmt_fk, committed, writes, moves>>

-----------------------------------------------------------------------------
(* COMMIT, ROLLBACK and the named savepoints.                               *)

\* op_auto_commit(commit): refused while deferred violations are counted
CommitTransaction ==
    /\ ~auto_commit /\ fk = 0
    /\ IF tx_state = "Write" THEN CommitDirtyPages
       ELSE UNCHANGED <<log, cache, dirty_pages, committed>>
    /\ ClearSavepoints /\ EndTransaction
    /\ image' = [pages |-> committed', fk |-> 0]
    /\ UNCHANGED <<in_use, running, fk, stmt_fk, writes, moves>>

Commit == ~running /\ CommitTransaction

\* op_auto_commit(rollback)
Rollback ==
    /\ ~running /\ ~auto_commit
    /\ IF tx_state = "Write" THEN RollbackWrites ELSE UNCHANGED <<log, cache, dirty_pages>>
    /\ ClearSavepoints /\ EndTransaction
    /\ fk' = 0
    /\ image' = [pages |-> committed, fk |-> 0]
    /\ UNCHANGED <<in_use, running, stmt_fk, committed, writes, moves>>

\* op_savepoint(Begin).  No transaction is begun: size and last frame are those
\* of the connection's last snapshot.
Savepoint(n) ==
    /\ ~running /\ Len(savepoints) < MaxDepth
    /\ max_frame < shared_max => StaleSavepoints
    /\ savepoints' = Append(savepoints, Opened(n, auto_commit, fk))
    /\ auto_commit' = FALSE
    /\ marks' = Append(marks, [image EXCEPT !.fk = fk])
    /\ UNCHANGED <<log, cache, dirty_pages, subjournal, in_use, tx_state, running, fk, stmt_fk>>
    /\ UNCHANGED <<image, committed, writes, moves>>

\* rposition: the newest savepoint of the name; 0 when there is none
Newest(n) == Max({0} \union {i \in DOMAIN savepoints : savepoints[i].kind = n})

\* op_savepoint(Release): the savepoint that began the transaction commits it
ReleaseNamed(n) ==
    LET i == Newest(n) IN
    /\ ~running /\ i # 0
    /\ IF i = 1 /\ savepoints[1].starts
       THEN CommitTransaction
       ELSE /\ Release(i - 1)
            /\ UNCHANGED <<log, cache, dirty_pages, in_use, conn, image, committed, writes, moves>>

\* op_savepoint(RollbackTo): the savepoint stays, as it was when it was opened
RollbackToNamed(n) ==
    LET i == Newest(n)
        sp == savepoints[i]
    IN
    /\ ~running /\ i # 0
    /\ RollbackToSnapshot(sp)
    /\ savepoints' = Append(Cut(i - 1, sp.start), [sp EXCEPT !.end = sp.start, !.bitmap = {}])
    /\ fk' = sp.fk
    /\ image' = marks[i] /\ marks' = SubSeq(marks, 1, i)
    /\ UNCHANGED <<in_use, tx_state, auto_commit, running, stmt_fk, committed, writes, moves>>

-----------------------------------------------------------------------------
\* Another connection commits a page, or a new page and the header
OtherCommit(p) ==
    LET size == committed[PAGE_1]
        new == IF p <= size THEN <<[page |-> p, ver |-> MaxPages + writes + 1]>>
               ELSE <<[page |-> PAGE_1, ver |-> p], [page |-> p, ver |-> MaxPages + writes + 1]>>
        last == shared_max + Len(new)
    IN
    /\ tx_state # "Write" /\ p # PAGE_1 /\ p <= size + 1
    /\ savepoints # <<>> => StaleSavepoints
    /\ writes < MaxWrites /\ last <= MaxFrames
    /\ writes' = writes + 1
    /\ frames' = SubSeq(frames, 1, shared_max) \o new
    /\ frame_cache' = IF p <= size THEN Cached(frame_cache, p, last)
                      ELSE Cached(Cached(frame_cache, PAGE_1, last - 1), p, last)
    /\ shared_max' = last
    /\ committed' = [committed EXCEPT ![p] = MaxPages + writes', ![PAGE_1] = Max({size, p})]
    /\ UNCHANGED <<max_frame, pager, conn, image, marks, moves>>

Next ==
    \/ BeginAutoCommit \/ BeginStatement \/ BeginRead \/ Begin
    \/ \E p \in Pages : ReadPage(p) \/ WritePage(p) \/ SpillPage(p) \/ EvictPage(p)
    \/ AllocatePage
    \/ \E k \in Fks : CountViolations(k) \/ AbortTransaction(k)
    \/ ReleaseStatement \/ AutoCommit \/ AbortStatement \/ FailRead
    \/ Commit \/ Rollback
    \/ \E n \in Names : Savepoint(n) \/ ReleaseNamed(n) \/ RollbackToNamed(n)
    \/ \E p \in Pages : OtherCommit(p)

Spec == Init /\ [][Next]_vars

-----------------------------------------------------------------------------
(* Properties.                                                              *)

Content == 0..MaxPages + MaxWrites
Image == [pages : [Pages -> Content], fk : Fks]

\* The types of the state: every offset of a savepoint is a place of the
\* subjournal, every page image one that was written (Savepoint, Subjournal).
TypeOK ==
    /\ frames \in Seq([page : Pages, ver : Content])
    /\ frame_cache \in [Pages -> Seq(1..MaxFrames)]
    /\ shared_max \in 0..MaxFrames /\ max_frame \in 0..MaxFrames
    /\ cache \in [Pages -> [used : BOOLEAN, ver : Content, dirty : BOOLEAN, restored : BOOLEAN]]
    /\ dirty_pages \subseteq Pages
    /\ savepoints \in Seq([kind : Names \union {"Statement"}, starts : BOOLEAN, start : Nat,
                          end : Nat, bitmap : SUBSET Pages, db_size : Pages,
                          wal_max : 0..MaxFrames, fk : Fks])
    /\ subjournal \in Seq([page : Pages, ver : Content])
    /\ {in_use, auto_commit, running} \subseteq BOOLEAN
    /\ tx_state \in {"None", "Read", "Write"}
    /\ {fk, stmt_fk} \subseteq Fks
    /\ image \in Image /\ marks \in Seq(Image) /\ committed \in [Pages -> Content]

\* A transaction reads, from the cache, its spilled frames or the files, exactly
\* what its statements wrote and did not take back: after any nesting of
\* statements, SAVEPOINT, RELEASE and ROLLBACK TO, with pages spilled and
\* evicted in between (rollback_to_snapshot, subjournal_page_if_required,
\* try_spill_dirty_pages); the violation counter goes with the pages.
SeesItsImage ==
    tx_state # "None" =>
        /\ \A p \in 1..image.pages[PAGE_1] : PageSeen(p) = image.pages[p]
        /\ fk = image.fk

\* Every other connection finds in the log and the database exactly the pages of
\* the last commit, whatever this one spills, takes back or writes over
\* (prepare_frames, rollback_cache).
CommittedIsShared ==
    \A p \in 1..committed[PAGE_1] : ContentUpTo(shared_max, p) = committed[p]

\* The savepoints partition the subjournal: each starts where its parent ended
\* when it was opened and none reaches past the end of the file; a statement
\* savepoint is the newest, and there is one exactly while a statement owns the
\* subjournal (release_savepoint, rollback_to_newest_savepoint, try_use_subjournal).
SavepointsNest ==
    /\ JournalEnd = Len(subjournal)
    /\ \A i \in DOMAIN savepoints :
        /\ savepoints[i].start <= savepoints[i].end
        /\ i > 1 => savepoints[i].start >= savepoints[i - 1].end
        /\ savepoints[i].kind = "Statement" => i = Len(savepoints)
    /\ in_use <=> \E i \in DOMAIN savepoints : savepoints[i].kind = "Statement"

\* A commit never writes a page that a rollback dropped: the dirty pages are
\* pages of the database as the transaction sees it ("phantom dirty entries",
\* rollback_to_snapshot).
DirtyPagesExist == dirty_pages \subseteq 1..DbSize

\* The frame cache has the newest published frame of every page: taking back
\* frames never removes those of a commit (rollback_tx, rollback_cache).
FrameCacheComplete ==
    \A f \in 1..shared_max :
        (\A g \in f + 1..shared_max : frames[g].page # frames[f].page)
            => f \in ToSet(frame_cache[frames[f].page])
=============================================================================
