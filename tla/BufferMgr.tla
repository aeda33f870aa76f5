----------------------------- MODULE BufferMgr -----------------------------
(***************************************************************************)
(* The buffer manager (buffer_mgr.c) with its replacement strategies       *)
(* (caching_mechanism.c): a pool of frames in front of one page file.      *)
(*                                                                         *)
(* The program is sequential.  Its clients are the users of a pool that    *)
(* hold a BM_PageHandle each (the record manager's table page, a scan, the *)
(* caller of an insert); their calls interleave, one call at a time.  A    *)
(* call that loops over frames with writes in between, or that may loop    *)
(* for ever, is a sequence of steps with `call' as its program counter,    *)
(* and the process may die between the steps.                              *)
(*                                                                         *)
(* Every access to the page file opens it, does one readBlock, writeBlock  *)
(* or ensureCapacity, and closes it: the count in the handle is always the *)
(* size of the file.                                                       *)
(***************************************************************************)
EXTENDS PageFile, Integers, FiniteSets

CONSTANTS
  Clients,     \* the users of the pool, one BM_PageHandle each
  Pages,       \* numbers of the pages they ask for
  Data,        \* what they write into a page
  NumPages,    \* frames of the pool: bm->numPages
  Strategies,  \* strategies a pool may be initialised with
  LargePage,   \* LARGE_PAGE of buffer_mgr.h
  InitPages,   \* pages the file has at the start
  Dense,       \* TRUE: the clients add pages at the end of the file only, as
               \* the record manager does; FALSE: they pin any page
  Spare,       \* TRUE: the clients leave a frame of an LRU pool free of pins,
               \* as testLRU does; FALSE: each pins a page when it likes
  NoClient

NoPage == -1    \* NO_PAGE of buffer_mgr.h
NoFrame == -1   \* memory that belongs to no frame any more
MaxRank == 100  \* INT_MAX of buffer_mgr.h

\* RS_CLOCK stands for the three strategies pinPage has no case for.
ASSUME StrategiesAssumption == Strategies \subseteq {"RS_FIFO", "RS_LRU", "RS_CLOCK"}
ASSUME ClientsAssumption == IsFiniteSet(Clients)
ASSUME PagesAssumption == Pages \subseteq Nat
ASSUME SizesAssumption ==
  /\ NumPages \in Nat \ {0}
  /\ InitPages \in Nat \ {0}
  /\ LargePage \in Nat \ {0, 1}
ASSUME DenseAssumption == Dense \in BOOLEAN
ASSUME SpareAssumption == Spare \in BOOLEAN
ASSUME NoClientAssumption == NoClient \notin Clients

Frames == 0..(NumPages - 1)
Content == Data \cup {Zero, Junk}

VARIABLES
  disk,        \* the page file
  mgmtData,    \* TRUE: the pool has frames (bm->mgmtData is not NULL)
  strategy,    \* bm->strategy
  pagedata, pagenum, dirtybit, fixedcount, ranking,  \* the fields of Frame
  stat,        \* Stats
  handle,      \* client -> its BM_PageHandle and where it is in its use
  call,        \* the call in progress that has more steps to do
  last         \* the call that returned last, and its return code

frames == <<pagedata, pagenum, dirtybit, fixedcount, ranking>>
vars == <<disk, mgmtData, strategy, frames, stat, handle, call, last>>

(***************************************************************************)
(* data is a pointer: a frame whose current memory it is, or NoFrame when  *)
(* the frame has been given other memory since.  pinned and unmarked say   *)
(* where the client is: between pinPage and unpinPage, and between writing *)
(* to the page and markDirty.                                              *)
(***************************************************************************)
PageHandle == [pageNum: Pages \cup {NoPage}, data: Frames \cup {NoFrame},
               pinned: BOOLEAN, unmarked: BOOLEAN]
Idle == [pageNum |-> NoPage, data |-> NoFrame, pinned |-> FALSE,
         unmarked |-> FALSE]

Calls == {"none", "fifo", "flush", "shutdown"}
Call == [op: Calls, index: 0..NumPages, client: Clients \cup {NoClient},
         page: Pages \cup {NoPage}, data: Content]
NoCall == [op |-> "none", index |-> 0, client |-> NoClient, page |-> NoPage,
           data |-> Zero]

Stats == [hitcount: Nat, readcount: Nat, writecount: Nat, lastposition: Nat]

Ops == {"none", "initBufferPool", "pinPage", "markDirty", "unpinPage",
        "forcePage", "forceFlushPool", "shutdownBufferPool"}
RCs == {"RC_OK", "RC_FILE_NOT_FOUND", "RC_PIN_PAGE_ERROR", "RC_MARK_DIRTY_ERROR",
        "RC_UNPIN_PAGE_ERROR", "RC_PAGE_ERROR", "RC_FORCE_POOL_ERROR",
        "RC_PAGE_IN_BUFFER_ERROR", "RC_BUFFER_NOTINITIALIZED"}

TypeOK ==
  /\ disk \in Seq(Content)
  /\ mgmtData \in BOOLEAN
  /\ strategy \in Strategies
  /\ pagedata \in [Frames -> Content]
  /\ pagenum \in [Frames -> Pages \cup {NoPage}]
  /\ dirtybit \in [Frames -> BOOLEAN]
  /\ fixedcount \in [Frames -> Int]
  /\ ranking \in [Frames -> Int]
  /\ stat \in Stats
  /\ handle \in [Clients -> PageHandle]
  /\ call \in Call
  /\ last \in [op: Ops, rc: RCs]

-----------------------------------------------------------------------------
Return(op, rc) == last' = [op |-> op, rc |-> rc]

\* No call is in progress: the clients may make one.
Quiet == call.op = "none"
Ready == Quiet /\ mgmtData

\* Frames that hold nothing, and the statistics at zero.
EmptyPool ==
  /\ pagedata' = [i \in Frames |-> Junk]
  /\ pagenum' = [i \in Frames |-> NoPage]
  /\ dirtybit' = [i \in Frames |-> FALSE]
  /\ fixedcount' = [i \in Frames |-> 0]
  /\ ranking' = [i \in Frames |-> MaxRank]

Init ==
  /\ disk = [i \in 1..InitPages |-> Zero]
  /\ mgmtData = FALSE
  /\ strategy \in Strategies
  /\ pagedata = [i \in Frames |-> Junk]
  /\ pagenum = [i \in Frames |-> NoPage]
  /\ dirtybit = [i \in Frames |-> FALSE]
  /\ fixedcount = [i \in Frames |-> 0]
  /\ ranking = [i \in Frames |-> MaxRank]
  /\ stat = [hitcount |-> 0, readcount |-> 0, writecount |-> 0,
             lastposition |-> 0]
  /\ handle = [c \in Clients |-> Idle]
  /\ call = NoCall
  /\ last = [op |-> "none", rc |-> "RC_OK"]

initBufferPool(n, s) ==
  /\ Quiet
  /\ ~mgmtData
  /\ \/ /\ n <= 0
        /\ Return("initBufferPool", "RC_FILE_NOT_FOUND")
        /\ UNCHANGED <<mgmtData, strategy, frames, stat>>
     \/ /\ n = NumPages
        /\ mgmtData' = TRUE
        /\ strategy' = s
        /\ EmptyPool
        /\ stat' = [hitcount |-> 0, readcount |-> 0, writecount |-> 0,
                    lastposition |-> 0]
        /\ Return("initBufferPool", "RC_OK")
  /\ UNCHANGED <<disk, handle, call>>

-----------------------------------------------------------------------------
(***************************************************************************)
(* Page input and output.  The return codes of the storage manager are not *)
(* looked at: a page that cannot be read is the fresh memory, a page that  *)
(* cannot be written is dropped.                                           *)
(***************************************************************************)
ReadPage(p) == ReadBlock(disk, Len(disk), p, Junk)

\* Mutation: the page is written through a handle opened before the last append.
Written_OldHandle(i) == WriteBlock(disk, Len(disk) - 2, pagenum[i], pagedata[i])

\* The file after writeBlockToPage for frame i.
Written(i) == WriteBlock(disk, Len(disk), pagenum[i], pagedata[i])

WithCapacity(p) == EnsureCapacity(disk, Len(disk), p)

checkForLastPageNum(p) == p % (LargePage - 1) = 0

\* Mutation: only the frame that is used is ranked again.
decreaseRankingForPages_One(i) == ranking' = [ranking EXCEPT ![i] = MaxRank]

\* Every frame loses one, frame i goes to the top.
decreaseRankingForPages(i) ==
  ranking' = [j \in Frames |-> IF j = i THEN MaxRank ELSE ranking[j] - 1]

\* Mutation: lastposition moves on a hit, too.
Count_HitIsLoad(hits, reads, writes, loads) ==
  stat' = [hitcount |-> stat.hitcount + hits,
           readcount |-> stat.readcount + reads,
           writecount |-> stat.writecount + writes,
           lastposition |-> stat.lastposition + loads + hits]

\* What a step adds to the statistics.
Count(hits, reads, writes, loads) ==
  stat' = [hitcount |-> stat.hitcount + hits,
           readcount |-> stat.readcount + reads,
           writecount |-> stat.writecount + writes,
           lastposition |-> stat.lastposition + loads]

\* The writes it takes to give up or to reuse frame i.
Writes(i) == IF dirtybit[i] THEN 1 ELSE 0

\* Frame i is given new memory: handles that point to the old one are left
\* with memory the pool no longer knows.
Orphan(i) ==
  [c \in Clients |->
     IF handle[c].data = i THEN [handle[c] EXCEPT !.data = NoFrame] ELSE handle[c]]

\* Mutation: pages are numbered from one in the handles.
Pinned_FromOne(p, i) ==
  [pageNum |-> p + 1, data |-> i, pinned |-> TRUE, unmarked |-> FALSE]

Pinned(p, i) ==
  [pageNum |-> p, data |-> i, pinned |-> TRUE, unmarked |-> FALSE]

\* One more pin in an LRU pool leaves a frame without.
LeavesSpare ==
  strategy = "RS_LRU" => Cardinality({c \in Clients : handle[c].pinned}) + 1 < NumPages

(***************************************************************************)
(* The clients: one page at a time per handle, and a write is marked dirty *)
(* before the page is unpinned.                                            *)
(***************************************************************************)
MayPin(c, p) ==
  /\ Ready
  /\ ~handle[c].pinned
  /\ Dense => p <= Len(disk)
  /\ Spare => LeavesSpare

\* Mutation: the search does not end at the first frame.
FoundAt_Any(p, i) == pagenum[i] \in {NoPage, p}

\* The first frame that is empty or holds p ends pinPage's search.
FoundAt(p, i) ==
  /\ pagenum[i] \in {NoPage, p}
  /\ \A j \in Frames : j < i => pagenum[j] \notin {NoPage, p}

PinEmpty(c, p) ==
  /\ MayPin(c, p)
  /\ \E i \in Frames :
       /\ FoundAt(p, i)
       /\ pagenum[i] = NoPage
       /\ disk' = IF i = 0 THEN WithCapacity(p) ELSE disk
       /\ pagedata' = [pagedata EXCEPT ![i] = ReadPage(p)]
       /\ pagenum' = [pagenum EXCEPT ![i] = p]
       /\ fixedcount' = [fixedcount EXCEPT ![i] = 1]
       /\ decreaseRankingForPages(i)
       /\ handle' = [Orphan(i) EXCEPT ![c] = Pinned(p, i)]
  /\ Count(0, 1, 0, 1)
  /\ Return("pinPage", "RC_OK")
  /\ UNCHANGED <<mgmtData, strategy, dirtybit, call>>

\* Mutation: a hit sets the fix count to one, as loading the page does.
PinHit_SetsOne(c, p) ==
  /\ MayPin(c, p)
  /\ \E i \in Frames :
       /\ FoundAt(p, i)
       /\ pagenum[i] = p
       /\ fixedcount' = [fixedcount EXCEPT ![i] = 1]
       /\ handle' = [handle EXCEPT ![c] = Pinned(p, i)]
  /\ UNCHANGED <<disk, mgmtData, strategy, pagedata, pagenum, dirtybit, ranking,
                 stat, call, last>>

PinHit(c, p) ==
  /\ MayPin(c, p)
  /\ \E i \in Frames :
       /\ FoundAt(p, i)
       /\ pagenum[i] = p
       /\ disk' = IF dirtybit[i] THEN Written(i) ELSE disk
       /\ dirtybit' = [dirtybit EXCEPT ![i] = FALSE]
       /\ Count(1, 0, Writes(i), 0)
       /\ fixedcount' = [fixedcount EXCEPT ![i] = @ + 1]
       /\ decreaseRankingForPages(i)
       /\ handle' = [handle EXCEPT ![c] = Pinned(p, i)]
  /\ Return("pinPage", "RC_OK")
  /\ UNCHANGED <<mgmtData, strategy, pagedata, pagenum, call>>

-----------------------------------------------------------------------------
(***************************************************************************)
(* A miss in a full pool reads the page into a new frame first, which the  *)
(* strategy then copies over the frame it evicts.                          *)
(***************************************************************************)
Miss(c, p) ==
  /\ MayPin(c, p)
  /\ \A i \in Frames : pagenum[i] \notin {NoPage, p}

MissDisk(p) == IF checkForLastPageNum(p) THEN WithCapacity(p) ELSE disk
MissData(p) == ReadBlock(MissDisk(p), Len(MissDisk(p)), p, Junk)

\* Mutation: the page in frame i is not written before it is replaced.
Replace_Drops(file, i, c, p, data) ==
  /\ disk' = file
  /\ pagedata' = [pagedata EXCEPT ![i] = data]
  /\ pagenum' = [pagenum EXCEPT ![i] = p]
  /\ dirtybit' = [dirtybit EXCEPT ![i] = FALSE]
  /\ fixedcount' = [fixedcount EXCEPT ![i] = 1]
  /\ decreaseRankingForPages(i)
  /\ handle' = [Orphan(i) EXCEPT ![c] = Pinned(p, i)]

\* The page in frame i is written if it is dirty, and replaced.
Replace(file, i, c, p, data) ==
  /\ disk' = IF dirtybit[i]
             THEN WriteBlock(file, Len(file), pagenum[i], pagedata[i]) ELSE file
  /\ pagedata' = [pagedata EXCEPT ![i] = data]
  /\ pagenum' = [pagenum EXCEPT ![i] = p]
  /\ dirtybit' = [dirtybit EXCEPT ![i] = FALSE]
  /\ fixedcount' = [fixedcount EXCEPT ![i] = 1]
  /\ decreaseRankingForPages(i)
  /\ handle' = [Orphan(i) EXCEPT ![c] = Pinned(p, i)]

\* fifo starts its scan at lastposition, which counts the pages loaded.
PinMissFifo(c, p) ==
  /\ Miss(c, p)
  /\ strategy = "RS_FIFO"
  /\ disk' = MissDisk(p)
  /\ call' = [op |-> "fifo", index |-> stat.lastposition % NumPages,
              client |-> c, page |-> p, data |-> MissData(p)]
  /\ Count(0, 1, 0, 1)
  /\ UNCHANGED <<mgmtData, strategy, frames, handle, last>>

\* Mutation: fifo does not look at the fix count.
FifoEvict_Pinned ==
  /\ call.op = "fifo"
  /\ Replace(disk, call.index, call.client, call.page, call.data)
  /\ Count(0, 0, Writes(call.index), 0)
  /\ call' = NoCall
  /\ Return("pinPage", "RC_OK")
  /\ UNCHANGED <<mgmtData, strategy>>

\* Mutation: a pinned frame is not stepped over.
FifoSkip_Stays ==
  /\ call.op = "fifo"
  /\ fixedcount[call.index] # 0
  /\ UNCHANGED vars

\* One turn of fifo's loop.  It ends at the first frame nobody has pinned.
FifoEvict ==
  /\ call.op = "fifo"
  /\ fixedcount[call.index] = 0
  /\ Replace(disk, call.index, call.client, call.page, call.data)
  /\ Count(0, 0, Writes(call.index), 0)
  /\ call' = NoCall
  /\ Return("pinPage", "RC_OK")
  /\ UNCHANGED <<mgmtData, strategy>>

FifoSkip ==
  /\ call.op = "fifo"
  /\ fixedcount[call.index] # 0
  /\ call' = [call EXCEPT !.index = (@ + 1) % NumPages]
  /\ UNCHANGED <<disk, mgmtData, strategy, frames, stat, handle, last>>

\* Mutation: lru does not look at the fix counts.
LruCandidates_Pinned == {i \in Frames : ranking[i] < MaxRank}

(***************************************************************************)
(* lru looks for the smallest rank below MaxRank, the rank of the frame    *)
(* used last, among the frames nobody has pinned.  When there is none it   *)
(* takes frame 0, whoever has it pinned.                                   *)
(***************************************************************************)
LruCandidates == {i \in Frames : ranking[i] < MaxRank /\ fixedcount[i] = 0}

LruVictim(i) ==
  IF LruCandidates = {} THEN i = 0
  ELSE /\ i \in LruCandidates
       /\ \A j \in LruCandidates :
            ranking[i] < ranking[j] \/ (ranking[i] = ranking[j] /\ i <= j)

PinMissLru(c, p) ==
  /\ Miss(c, p)
  /\ strategy = "RS_LRU"
  /\ \E i \in Frames :
       /\ LruVictim(i)
       /\ Replace(MissDisk(p), i, c, p, MissData(p))
       /\ Count(0, 1, Writes(i), 0)
  /\ Return("pinPage", "RC_OK")
  /\ UNCHANGED <<mgmtData, strategy, call>>

\* No other strategy is implemented; the handle has been changed by then.
PinMissOther(c, p) ==
  /\ Miss(c, p)
  /\ strategy \notin {"RS_FIFO", "RS_LRU"}
  /\ disk' = MissDisk(p)
  /\ Count(0, 1, 0, 0)
  /\ handle' = [handle EXCEPT ![c].pageNum = p, ![c].data = NoFrame]
  /\ Return("pinPage", "RC_PIN_PAGE_ERROR")
  /\ UNCHANGED <<mgmtData, strategy, frames, call>>

-----------------------------------------------------------------------------
\* A client writes to the memory its handle points to.
WritePage(c, data) ==
  /\ Ready
  /\ handle[c].pinned
  /\ pagedata' = IF handle[c].data = NoFrame THEN pagedata
                 ELSE [pagedata EXCEPT ![handle[c].data] = data]
  /\ handle' = [handle EXCEPT ![c].unmarked = TRUE]
  /\ UNCHANGED <<disk, mgmtData, strategy, pagenum, dirtybit, fixedcount,
                 ranking, stat, call, last>>

\* The first frame that holds the page of c's handle.
HeldAt(c, i) ==
  /\ pagenum[i] = handle[c].pageNum
  /\ \A j \in Frames : j < i => pagenum[j] # handle[c].pageNum
NotHeld(c) == \A i \in Frames : pagenum[i] # handle[c].pageNum

markDirty(c) ==
  /\ Ready
  /\ handle[c].pinned
  /\ \/ /\ \E i \in Frames :
             HeldAt(c, i) /\ dirtybit' = [dirtybit EXCEPT ![i] = TRUE]
        /\ Return("markDirty", "RC_OK")
     \/ /\ NotHeld(c)
        /\ Return("markDirty", "RC_MARK_DIRTY_ERROR")
        /\ UNCHANGED dirtybit
  /\ handle' = [handle EXCEPT ![c].unmarked = FALSE]
  /\ UNCHANGED <<disk, mgmtData, strategy, pagedata, pagenum, fixedcount,
                 ranking, stat, call>>

unpinPage(c) ==
  /\ Ready
  /\ handle[c].pinned
  /\ ~handle[c].unmarked
  /\ \/ /\ \E i \in Frames :
             HeldAt(c, i) /\ fixedcount' = [fixedcount EXCEPT ![i] = @ - 1]
        /\ Return("unpinPage", "RC_OK")
     \/ /\ NotHeld(c)
        /\ Return("unpinPage", "RC_UNPIN_PAGE_ERROR")
        /\ UNCHANGED fixedcount
  /\ handle' = [handle EXCEPT ![c].pinned = FALSE]
  /\ UNCHANGED <<disk, mgmtData, strategy, pagedata, pagenum, dirtybit,
                 ranking, stat, call>>

(***************************************************************************)
(* forcePage is called with the page pinned or after it was unpinned.  For *)
(* a page that is in no frame its result is an uninitialised variable.     *)
(***************************************************************************)
forcePage(c) ==
  /\ Ready
  /\ \/ /\ handle[c].pageNum = NoPage
        /\ Return("forcePage", "RC_PAGE_ERROR")
        /\ UNCHANGED <<disk, dirtybit, stat>>
     \/ /\ handle[c].pageNum # NoPage
        /\ \E i \in Frames :
             /\ HeldAt(c, i)
             /\ disk' = Written(i)
             /\ dirtybit' = [dirtybit EXCEPT ![i] = FALSE]
        /\ Count(0, 0, 1, 0)
        /\ Return("forcePage", "RC_OK")
     \/ /\ handle[c].pageNum # NoPage
        /\ NotHeld(c)
        /\ \E rc \in {"RC_OK", "RC_FORCE_POOL_ERROR"} : Return("forcePage", rc)
        /\ UNCHANGED <<disk, dirtybit, stat>>
  /\ UNCHANGED <<mgmtData, strategy, pagedata, pagenum, fixedcount, ranking,
                 handle, call>>

-----------------------------------------------------------------------------
(***************************************************************************)
(* forceFlushPool and shutdownBufferPool, which begins with it, go through *)
(* the frames in order.                                                    *)
(***************************************************************************)
StartLoop(op) ==
  /\ Ready
  /\ call' = [NoCall EXCEPT !.op = op]
  /\ UNCHANGED <<disk, mgmtData, strategy, frames, stat, handle, last>>

forceFlushPool == StartLoop("flush")
\* Mutation: shutdown frees the frames without flushing them.
shutdownBufferPool_NoFlush ==
  /\ Ready
  /\ call' = [NoCall EXCEPT !.op = "shutdown", !.index = NumPages]
  /\ UNCHANGED <<disk, mgmtData, strategy, frames, stat, handle, last>>

shutdownBufferPool == StartLoop("shutdown")

Flushing == call.op \in {"flush", "shutdown"}

Flushable(i) == dirtybit[i] /\ fixedcount[i] = 0

FlushFrame ==
  /\ Flushing
  /\ call.index < NumPages
  /\ IF Flushable(call.index)
     THEN /\ disk' = Written(call.index)
          /\ dirtybit' = [dirtybit EXCEPT ![call.index] = FALSE]
          /\ Count(0, 0, 1, 0)
     ELSE UNCHANGED <<disk, dirtybit, stat>>
  /\ call' = [call EXCEPT !.index = @ + 1]
  /\ UNCHANGED <<mgmtData, strategy, pagedata, pagenum, fixedcount, ranking,
                 handle, last>>

FlushDone ==
  /\ call.op = "flush"
  /\ call.index = NumPages
  /\ call' = NoCall
  /\ Return("forceFlushPool", "RC_OK")
  /\ UNCHANGED <<disk, mgmtData, strategy, frames, stat, handle>>

\* The frames are freed whether or not somebody has a page pinned.
ShutdownDone ==
  /\ call.op = "shutdown"
  /\ call.index = NumPages
  /\ Return("shutdownBufferPool",
            IF \E i \in Frames : fixedcount[i] # 0
            THEN "RC_PAGE_IN_BUFFER_ERROR" ELSE "RC_OK")
  /\ mgmtData' = FALSE
  /\ EmptyPool
  /\ handle' = [c \in Clients |-> Idle]
  /\ call' = NoCall
  /\ UNCHANGED <<disk, strategy, stat>>

\* The calls that look at mgmtData first.
NotInitialized(op) ==
  /\ Quiet
  /\ ~mgmtData
  /\ Return(op, "RC_BUFFER_NOTINITIALIZED")
  /\ UNCHANGED <<disk, mgmtData, strategy, frames, stat, handle, call>>

\* The process ends, in the middle of a call or between calls.
Crash ==
  /\ mgmtData
  /\ mgmtData' = FALSE
  /\ EmptyPool
  /\ handle' = [c \in Clients |-> Idle]
  /\ call' = NoCall
  /\ UNCHANGED <<disk, strategy, stat, last>>

-----------------------------------------------------------------------------
Continue == FifoEvict \/ FifoSkip \/ FlushFrame \/ FlushDone \/ ShutdownDone

Next ==
  \/ \E n \in {0, NumPages}, s \in Strategies : initBufferPool(n, s)
  \/ \E c \in Clients, p \in Pages :
       \/ PinEmpty(c, p) \/ PinHit(c, p)
       \/ PinMissFifo(c, p) \/ PinMissLru(c, p) \/ PinMissOther(c, p)
  \/ \E c \in Clients, data \in Data : WritePage(c, data)
  \/ \E c \in Clients : markDirty(c) \/ unpinPage(c) \/ forcePage(c)
  \/ forceFlushPool \/ shutdownBufferPool
  \/ \E op \in {"markDirty", "forcePage", "forceFlushPool"} : NotInitialized(op)
  \/ Crash
  \/ Continue

Spec == Init /\ [][Next]_vars

\* A call that was made runs on: the process does nothing else meanwhile.
FairSpec == Spec /\ WF_vars(Continue)

-----------------------------------------------------------------------------
(***************************************************************************)
(* Properties.                                                             *)
(***************************************************************************)

\* What reading page p from the file gives.
OnDisk(p) == IF p < Len(disk) THEN disk[p + 1] ELSE Junk

\* Page p is in the file with this content, in the state a step leads to.
StoredNext(p, data) == p < Len(disk') /\ disk'[p + 1] = data

UsersOf(i) == {c \in Clients : handle[c].pinned /\ handle[c].data = i}

\* No page is in two frames, and the empty frames are the last ones:
\* pinPage's one search, which stops at the first empty frame, and the loops
\* of markDirty and unpinPage, which stop at the first match, miss nothing.
OneFramePerPage ==
  \A i, j \in Frames : i < j =>
    /\ pagenum[i] = pagenum[j] => pagenum[i] = NoPage
    /\ pagenum[i] = NoPage => pagenum[j] = NoPage

\* As long as a client has a page pinned, a frame holds that page and the
\* client's pointer leads to it, through the evictions of the other clients'
\* calls.  fifo guarantees it; lru only while the clients are fewer than the
\* frames, because its default victim is frame 0.
PinnedPageResident ==
  \A c \in Clients : handle[c].pinned =>
    /\ handle[c].data \in Frames
    /\ pagenum[handle[c].data] = handle[c].pageNum

\* The fix count of a frame is the number of clients that have it pinned:
\* it is what fifo, lru, flush and shutdown know of the clients.
FixCountsPins ==
  \A i \in Frames : fixedcount[i] = Cardinality(UsersOf(i))

\* Once the writers of a page have marked it, a frame without the dirty bit
\* may be dropped: the file has the same content.
CleanMatchesDisk ==
  \A i \in Frames :
    /\ pagenum[i] # NoPage
    /\ ~dirtybit[i]
    /\ \A c \in UsersOf(i) : ~handle[c].unmarked
    => pagedata[i] = OnDisk(pagenum[i])

\* "force writing every page which has a dirty bit in it" (buffer_mgr.c:78),
\* for the pages nobody has pinned: flush and shutdown leave their content
\* in the file.  It holds when the clients extend the file page by page.  For
\* a page further behind the end writeBlock fails, and the dirty bit is
\* cleared all the same.
FlushStoresDirtyPages ==
  [][FlushFrame /\ Flushable(call.index) =>
       StoredNext(pagenum[call.index], pagedata[call.index])]_vars

\* A shutdown that returns RC_OK has lost no write, although it frees frames
\* without looking at them.
ShutdownKeepsWrites ==
  [][ShutdownDone /\ last'.rc = "RC_OK" =>
       \A i \in Frames :
         pagenum[i] # NoPage => pagedata[i] = OnDisk(pagenum[i])]_vars

\* Every call returns.  fifo's loop has no exit but a frame that nobody has
\* pinned: there is one because the caller's own handle is not pinned and
\* the clients are no more than the frames.
Returns == call.op # "none" ~> call.op = "none"

-----------------------------------------------------------------------------
(***************************************************************************)
(* The pool with its file is a store with one copy of each page that the   *)
(* clients see and one that survives them.                                 *)
(***************************************************************************)
SeenIn(p) == {i \in Frames : pagenum[i] = p}

volatile ==
  [p \in Pages |-> IF SeenIn(p) = {} THEN OnDisk(p)
                   ELSE pagedata[CHOOSE i \in Frames : pagenum[i] = p]]

durable == [p \in Pages |-> OnDisk(p)]

Abstract == INSTANCE WriteBackStore WITH open <- mgmtData

\* A client always reads what was last written to a page, wherever evictions
\* and flushes have moved it, and only the end of the process loses writes.
ImplementsStore == Abstract!Spec
=============================================================================
