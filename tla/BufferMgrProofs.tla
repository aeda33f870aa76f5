-------------------------- MODULE BufferMgrProofs --------------------------
(***************************************************************************)
(* Proofs about BufferMgr, for any clients, pages, data and pool size.     *)
(***************************************************************************)
EXTENDS BufferMgr, FiniteSetTheorems, TLAPS

(***************************************************************************)
(* The inductive invariant.  The three properties of BufferMgr hold one    *)
(* another up: the page of a pinned handle stays resident because eviction *)
(* needs a fix count of zero, the fix count is the number of pins because  *)
(* unpinPage finds the right frame by its page number, and it does because *)
(* no page is in two frames.  What else is needed is that a closed pool    *)
(* has no user, and that the page a fifo scan is about to place, for a     *)
(* client that has nothing pinned, is in no frame yet.  For lru, which     *)
(* sees by the ranks which frame was used last: one frame at most.         *)
(***************************************************************************)
HandleShape ==
  \A c \in Clients : handle[c].pinned => mgmtData /\ handle[c].pageNum \in Pages

CallShape ==
  /\ call.op # "none" => mgmtData
  /\ call.op = "fifo" =>
       /\ call.index \in Frames
       /\ call.client \in Clients
       /\ ~handle[call.client].pinned
       /\ call.page \in Pages
       /\ \A i \in Frames : pagenum[i] \notin {NoPage, call.page}

LastUsedIsOne ==
  \A i \in Frames :
    /\ ranking[i] <= MaxRank
    /\ \A j \in Frames \ {i} :
         pagenum[i] # NoPage /\ pagenum[j] # NoPage /\ ranking[i] = MaxRank =>
           ranking[j] < MaxRank

IInv ==
  /\ TypeOK
  /\ HandleShape
  /\ CallShape
  /\ OneFramePerPage
  /\ PinnedPageResident
  /\ FixCountsPins
  /\ LastUsedIsOne

\* Under lru the clients are fewer than the frames: with as many as there are
\* frames its default victim, frame 0, may be pinned.
Roomy == "RS_LRU" \in Strategies => Cardinality(Clients) < NumPages

-----------------------------------------------------------------------------
LEMMA Constants ==
  /\ NumPages \in Nat \ {0}
  /\ Frames \subseteq Int
  /\ \A i \in Frames : i \in 0..NumPages
  /\ NoPage \notin Pages
  /\ NoFrame \notin Frames
  /\ \A p \in Pages : p \in Nat
BY SizesAssumption, PagesAssumption DEF Frames, NoPage, NoFrame

LEMMA Remainder ==
  ASSUME NEW x \in Nat, NEW n \in Nat \ {0}, NEW q \in Int, NEW r \in 0..(n - 1), x = n * q + r
  PROVE  x % n = r
OBVIOUS

LEMMA Quotients ==
  ASSUME NEW x \in Nat, NEW n \in Nat \ {0}
  PROVE  x \div n \in Int
OBVIOUS

LEMMA Quotient ==
  ASSUME NEW x \in Nat, NEW n \in Nat \ {0}
  PROVE  x = n * (x \div n) + (x % n)
BY SMTT(60)

\* The position of fifo after one page more was loaded.
LEMMA NextPosition ==
  ASSUME NEW x \in Nat, NEW n \in Nat \ {0}
  PROVE  (x + 1) % n = ((x % n) + 1) % n /\ x % n \in 0..(n - 1)
<1>1. x % n \in 0..(n - 1)
  OBVIOUS
<1> DEFINE r == x % n
           q == x \div n
<1>2. x = n * q + r /\ q \in Int
  BY Quotient, Quotients
<1>3. r \in 0..(n - 1) /\ x = n * q + r /\ q \in Int /\ 0 \in Int /\ 1 \in Int
  BY <1>1, <1>2
<1> HIDE DEF r, q
<1>4. CASE r + 1 < n
  <2>1. x + 1 = n * q + (r + 1) /\ r + 1 \in 0..(n - 1) /\ x + 1 \in Nat
    BY <1>3, <1>4
  <2>2. (x + 1) % n = r + 1
    BY <1>3, <2>1, Remainder, Zenon
  <2>3. r + 1 = n * 0 + (r + 1)
    BY <1>3
  <2>4. (r + 1) % n = r + 1
    BY <1>3, <2>1, <2>3, Remainder
  <2> QED
    BY <1>1, <2>2, <2>4 DEF r
<1>5. CASE r + 1 = n
  <2>1. x + 1 = n * (q + 1) + 0 /\ r + 1 = n * 1 + 0 /\ 0 \in 0..(n - 1)
    BY <1>3, <1>5
  <2>2. (x + 1) % n = 0 /\ (r + 1) % n = 0
    BY <1>3, <2>1, Remainder
  <2> QED
    BY <1>1, <2>2 DEF r
<1> QED
  BY <1>3, <1>4, <1>5

LEMMA InTurn ==
  ASSUME NEW n \in Nat \ {0}, NEW q \in 0..(n - 1)
  PROVE  /\ 0 % n = 0 /\ q % n = q
         /\ (q + 1) % n = IF q + 1 = n THEN 0 ELSE q + 1
<1>1. 0 = n * 0 + 0 /\ q = n * 0 + q /\ q + 1 = n * 0 + (q + 1) /\ n = n * 1 + 0
  OBVIOUS
<1>2. 0 \in 0..(n - 1) /\ 0 \in Nat /\ q \in Nat /\ q + 1 \in Nat /\ n \in Nat
  OBVIOUS
<1>3. 0 % n = 0 /\ q % n = q /\ n % n = 0
  BY <1>1, <1>2, Remainder
<1>4. CASE q + 1 = n
  BY <1>3, <1>4
<1>5. CASE q + 1 # n
  <2>1. q + 1 \in 0..(n - 1)
    BY <1>5
  <2>2. (q + 1) % n = q + 1
    BY <1>1, <1>2, <2>1, Remainder
  <2> QED
    BY <1>3, <1>5, <2>2
<1> QED
  BY <1>4, <1>5

LEMMA FileTypes ==
  ASSUME NEW file \in Seq(Content), NEW p \in Int, p >= -1,
         NEW data \in Content
  PROVE  /\ p \in Nat => ReadBlock(file, Len(file), p, Junk) \in Content
         /\ WriteBlock(file, Len(file), p, data) \in Seq(Content)
         /\ EnsureCapacity(file, Len(file), p) \in Seq(Content)
<1>1. Len(file) \in Nat /\ Zero \in Content /\ Junk \in Content
  BY DEF Content
<1>2. p \in Nat => ReadBlock(file, Len(file), p, Junk) \in Content
  BY <1>1 DEF ReadBlock, ReadRC
<1>3. ASSUME NEW f \in Seq(Content), NEW n \in Nat
      PROVE  Resize(f, n) \in Seq(Content)
  BY <1>1, <1>3 DEF Resize
<1>4. WriteBlock(file, Len(file), p, data) \in Seq(Content)
  BY <1>1 DEF WriteBlock, WriteRC, Store
<1>5. EnsureCapacity(file, Len(file), p) \in Seq(Content)
  <2>1. CASE Len(file) >= p
    BY <2>1 DEF EnsureCapacity
  <2>2. CASE ~(Len(file) >= p)
    <3>1. Len(file) + 1 \in Nat /\ p + 1 \in Nat
      BY <1>1, <2>2
    <3> QED
      BY <1>3, <2>2, <3>1 DEF EnsureCapacity
  <2> QED
    BY <2>1, <2>2
<1> QED
  BY <1>2, <1>4, <1>5

LEMMA PoolTypes ==
  ASSUME TypeOK
  PROVE  /\ \A p \in Pages : /\ ReadPage(p) \in Content
                            /\ WithCapacity(p) \in Seq(Content)
                            /\ MissDisk(p) \in Seq(Content)
                            /\ MissData(p) \in Content
         /\ \A i \in Frames : Written(i) \in Seq(Content)
         /\ \A i \in Frames : Orphan(i) \in [Clients -> PageHandle]
         /\ \A p \in Pages, i \in Frames : Pinned(p, i) \in PageHandle
         /\ \A h, r, w, l \in Nat : Count(h, r, w, l) => stat' \in Stats
         /\ \A i \in Frames : Writes(i) \in Nat
         /\ stat.lastposition % NumPages \in Frames
<1> USE Constants
<1>1. Junk \in Content
  BY DEF Content
<1>2. ASSUME NEW p \in Pages
      PROVE  /\ ReadPage(p) \in Content
             /\ WithCapacity(p) \in Seq(Content)
             /\ MissDisk(p) \in Seq(Content)
             /\ MissData(p) \in Content
  <2>1. p \in Nat
    BY PagesAssumption
  <2>2. ReadPage(p) \in Content /\ WithCapacity(p) \in Seq(Content)
    BY <1>1, <2>1, FileTypes DEF ReadPage, WithCapacity, TypeOK
  <2>3. MissDisk(p) \in Seq(Content)
    BY <2>2 DEF MissDisk, TypeOK
  <2>4. MissData(p) \in Content
    BY <1>1, <2>1, <2>3, FileTypes DEF MissData
  <2> QED
    BY <2>2, <2>3, <2>4
<1>3. ASSUME NEW i \in Frames PROVE Written(i) \in Seq(Content)
  <2>1. pagenum[i] \in Pages \cup {-1} /\ pagedata[i] \in Content
    BY DEF TypeOK, NoPage
  <2>2. pagenum[i] \in Int /\ pagenum[i] >= -1
    BY <2>1
  <2> QED
    BY <2>1, <2>2, FileTypes DEF Written, TypeOK
<1>4. \A i \in Frames : Orphan(i) \in [Clients -> PageHandle]
  BY DEF Orphan, TypeOK, PageHandle
<1>5. \A p \in Pages, i \in Frames : Pinned(p, i) \in PageHandle
  BY DEF Pinned, PageHandle
<1>6. /\ \A h, r, w, l \in Nat : Count(h, r, w, l) => stat' \in Stats
      /\ \A i \in Frames : Writes(i) \in Nat
  BY DEF Count, Writes, TypeOK, Stats
<1>7. stat.lastposition % NumPages \in Frames
  BY DEF TypeOK, Stats, Frames
<1> QED
  BY <1>2, <1>3, <1>4, <1>5, <1>6, <1>7

-----------------------------------------------------------------------------
(***************************************************************************)
(* Type correctness needs the shape of a call in progress: only then is    *)
(* the place where fifo puts the new page a frame.                         *)
(***************************************************************************)
LEMMA ReplaceTypes ==
  ASSUME TypeOK, NEW file \in Seq(Content), NEW i \in Frames,
         NEW c \in Clients, NEW p \in Pages, NEW data \in Content,
         Replace(file, i, c, p, data)
  PROVE  /\ disk' \in Seq(Content)
         /\ pagedata' \in [Frames -> Content]
         /\ pagenum' \in [Frames -> Pages \cup {NoPage}]
         /\ dirtybit' \in [Frames -> BOOLEAN]
         /\ fixedcount' \in [Frames -> Int]
         /\ ranking' \in [Frames -> Int]
         /\ handle' \in [Clients -> PageHandle]
<1>1. pagenum[i] \in Int /\ pagenum[i] >= -1 /\ pagedata[i] \in Content
  <2>1. pagenum[i] \in Pages \cup {-1} /\ pagedata[i] \in Content
    BY DEF TypeOK, NoPage
  <2> QED
    BY <2>1, Constants
<1>2. disk' \in Seq(Content)
  BY <1>1, FileTypes DEF Replace
<1>3. handle' \in [Clients -> PageHandle]
  BY PoolTypes DEF Replace
<1>4. ranking' \in [Frames -> Int]
  BY DEF Replace, decreaseRankingForPages, TypeOK, MaxRank
<1>5. /\ pagedata' \in [Frames -> Content]
      /\ pagenum' \in [Frames -> Pages \cup {NoPage}]
      /\ dirtybit' \in [Frames -> BOOLEAN]
      /\ fixedcount' \in [Frames -> Int]
  BY DEF Replace, TypeOK
<1> QED
  BY <1>2, <1>3, <1>4, <1>5

LEMMA EmptyPoolTypes ==
  ASSUME EmptyPool
  PROVE  /\ pagedata' \in [Frames -> Content]
         /\ pagenum' \in [Frames -> Pages \cup {NoPage}]
         /\ dirtybit' \in [Frames -> BOOLEAN]
         /\ fixedcount' \in [Frames -> Int]
         /\ ranking' \in [Frames -> Int]
BY DEF EmptyPool, Content, MaxRank

LEMMA TypeStep ==
  ASSUME TypeOK, CallShape, [Next]_vars
  PROVE  TypeOK'
<1>1. ASSUME NEW n \in {0, NumPages}, NEW s \in Strategies, initBufferPool(n, s)
      PROVE  TypeOK'
  <2>1. CASE n <= 0 /\ UNCHANGED <<mgmtData, strategy, frames, stat>>
    BY <1>1, <2>1 DEF initBufferPool, Return, Ops, RCs, TypeOK, frames
  <2>2. CASE mgmtData' = TRUE /\ strategy' = s /\ EmptyPool
             /\ stat' = [hitcount |-> 0, readcount |-> 0, writecount |-> 0,
                         lastposition |-> 0]
    <3>1. stat' \in Stats
      BY <2>2 DEF Stats
    <3>2. last' \in [op: Ops, rc: RCs] /\ UNCHANGED <<disk, handle, call>>
      BY <1>1 DEF initBufferPool, Return, Ops, RCs
    <3> QED
      BY <2>2, <3>1, <3>2, EmptyPoolTypes DEF TypeOK
  <2> QED
    BY <1>1, <2>1, <2>2 DEF initBufferPool
<1>2. ASSUME NEW c \in Clients, NEW p \in Pages, PinEmpty(c, p) PROVE TypeOK'
  <2>1. PICK i \in Frames :
          /\ disk' = IF i = 0 THEN WithCapacity(p) ELSE disk
          /\ pagedata' = [pagedata EXCEPT ![i] = ReadPage(p)]
          /\ pagenum' = [pagenum EXCEPT ![i] = p]
          /\ fixedcount' = [fixedcount EXCEPT ![i] = 1]
          /\ decreaseRankingForPages(i)
          /\ handle' = [Orphan(i) EXCEPT ![c] = Pinned(p, i)]
    BY <1>2 DEF PinEmpty
  <2>2. handle' \in [Clients -> PageHandle] /\ ranking' \in [Frames -> Int]
    BY <2>1, PoolTypes DEF decreaseRankingForPages, TypeOK, MaxRank
  <2>3. /\ stat' \in Stats
        /\ last' \in [op: Ops, rc: RCs]
        /\ UNCHANGED <<mgmtData, strategy, dirtybit, call>>
    BY <1>2, PoolTypes DEF PinEmpty, Return, Ops, RCs
  <2>4. /\ disk' \in Seq(Content)
        /\ pagedata' \in [Frames -> Content]
        /\ pagenum' \in [Frames -> Pages \cup {NoPage}]
        /\ fixedcount' \in [Frames -> Int]
    BY <2>1, PoolTypes DEF TypeOK
  <2> QED
    BY <2>2, <2>3, <2>4 DEF TypeOK
<1>3. ASSUME NEW c \in Clients, NEW p \in Pages, PinHit(c, p) PROVE TypeOK'
  <2>1. PICK i \in Frames :
          /\ disk' = IF dirtybit[i] THEN Written(i) ELSE disk
          /\ dirtybit' = [dirtybit EXCEPT ![i] = FALSE]
          /\ Count(1, 0, Writes(i), 0)
          /\ fixedcount' = [fixedcount EXCEPT ![i] = @ + 1]
          /\ decreaseRankingForPages(i)
          /\ handle' = [handle EXCEPT ![c] = Pinned(p, i)]
    BY <1>3 DEF PinHit
  <2>2. handle' \in [Clients -> PageHandle] /\ ranking' \in [Frames -> Int]
    BY <2>1, PoolTypes DEF decreaseRankingForPages, TypeOK, MaxRank
  <2>3. stat' \in Stats
    BY <2>1, PoolTypes
  <2>4. /\ last' \in [op: Ops, rc: RCs]
        /\ UNCHANGED <<mgmtData, strategy, pagedata, pagenum, call>>
    BY <1>3 DEF PinHit, Return, Ops, RCs
  <2>5. /\ disk' \in Seq(Content)
        /\ dirtybit' \in [Frames -> BOOLEAN]
        /\ fixedcount' \in [Frames -> Int]
    BY <2>1, PoolTypes DEF TypeOK
  <2> QED
    BY <2>2, <2>3, <2>4, <2>5 DEF TypeOK
<1>4. ASSUME NEW c \in Clients, NEW p \in Pages, PinMissFifo(c, p) PROVE TypeOK'
  <2>1. call' \in Call
    <3>1. stat.lastposition % NumPages \in 0..NumPages
      BY PoolTypes, Constants
    <3> QED
      BY <1>4, <3>1, PoolTypes DEF PinMissFifo, Call, Calls
  <2>2. stat' \in Stats
    BY <1>4, PoolTypes DEF PinMissFifo
  <2> QED
    BY <1>4, <2>1, <2>2, PoolTypes DEF PinMissFifo, TypeOK, frames
<1>5. CASE FifoEvict
  <2>1. call.index \in Frames /\ call.client \in Clients /\ call.page \in Pages
        /\ call.data \in Content
    BY <1>5 DEF FifoEvict, CallShape, TypeOK, Call
  <2>2. disk \in Seq(Content)
    BY DEF TypeOK
  <2>3. Replace(disk, call.index, call.client, call.page, call.data)
    BY <1>5 DEF FifoEvict
  <2>4. stat' \in Stats
    BY <1>5, <2>1, PoolTypes DEF FifoEvict
  <2>5. NoCall \in Call
    BY Constants DEF NoCall, Call, Calls, Content
  <2>6. /\ call' \in Call
        /\ last' \in [op: Ops, rc: RCs]
        /\ UNCHANGED <<mgmtData, strategy>>
    BY <1>5, <2>5 DEF FifoEvict, Return, Ops, RCs
  <2> QED
    BY <2>1, <2>2, <2>3, <2>4, <2>6, ReplaceTypes DEF TypeOK
<1>6. CASE FifoSkip
  <2>1. (call.index + 1) % NumPages \in 0..NumPages
    BY Constants DEF TypeOK, Call
  <2>2. call' \in Call
    BY <1>6, <2>1 DEF FifoSkip, TypeOK, Call
  <2> QED
    BY <1>6, <2>2 DEF FifoSkip, TypeOK, frames
<1>7. ASSUME NEW c \in Clients, NEW p \in Pages, PinMissLru(c, p) PROVE TypeOK'
  <2>1. PICK i \in Frames :
          /\ Replace(MissDisk(p), i, c, p, MissData(p))
          /\ Count(0, 1, Writes(i), 0)
    BY <1>7 DEF PinMissLru
  <2>2. stat' \in Stats
    BY <2>1, PoolTypes
  <2>3. /\ last' \in [op: Ops, rc: RCs]
        /\ UNCHANGED <<mgmtData, strategy, call>>
    BY <1>7 DEF PinMissLru, Return, Ops, RCs
  <2> QED
    BY <2>1, <2>2, <2>3, ReplaceTypes, PoolTypes DEF TypeOK
<1>8. ASSUME NEW c \in Clients, NEW p \in Pages, PinMissOther(c, p) PROVE TypeOK'
  <2>1. handle' \in [Clients -> PageHandle]
    BY <1>8, Constants DEF PinMissOther, TypeOK, PageHandle
  <2> QED
    BY <1>8, <2>1, PoolTypes DEF PinMissOther, TypeOK, Return, Ops, RCs, frames
<1>9. ASSUME NEW c \in Clients, NEW data \in Data, WritePage(c, data) PROVE TypeOK'
  <2>1. handle' \in [Clients -> PageHandle]
    BY <1>9 DEF WritePage, TypeOK, PageHandle
  <2>2. pagedata' \in [Frames -> Content]
    BY <1>9 DEF WritePage, TypeOK, Content
  <2> QED
    BY <1>9, <2>1, <2>2 DEF WritePage, TypeOK
<1>10. ASSUME NEW c \in Clients, markDirty(c) PROVE TypeOK'
  <2>1. handle' \in [Clients -> PageHandle]
    BY <1>10 DEF markDirty, TypeOK, PageHandle
  <2>2. dirtybit' \in [Frames -> BOOLEAN]
    BY <1>10 DEF markDirty, TypeOK
  <2> QED
    BY <1>10, <2>1, <2>2 DEF markDirty, TypeOK, Return, Ops, RCs
<1>11. ASSUME NEW c \in Clients, unpinPage(c) PROVE TypeOK'
  <2>1. handle' \in [Clients -> PageHandle]
    BY <1>11 DEF unpinPage, TypeOK, PageHandle
  <2>2. fixedcount' \in [Frames -> Int]
    BY <1>11 DEF unpinPage, TypeOK
  <2> QED
    BY <1>11, <2>1, <2>2 DEF unpinPage, TypeOK, Return, Ops, RCs
<1>12. ASSUME NEW c \in Clients, forcePage(c) PROVE TypeOK'
  <2>1. last' \in [op: Ops, rc: RCs]
    BY <1>12 DEF forcePage, Return, Ops, RCs
  <2>2. stat' \in Stats
    BY <1>12, PoolTypes DEF forcePage, TypeOK
  <2>3. disk' \in Seq(Content) /\ dirtybit' \in [Frames -> BOOLEAN]
    BY <1>12, PoolTypes DEF forcePage, TypeOK
  <2> QED
    BY <1>12, <2>1, <2>2, <2>3 DEF forcePage, TypeOK
<1>13. ASSUME NEW op \in {"flush", "shutdown"}, StartLoop(op) PROVE TypeOK'
  <2>1. call' \in Call
    BY <1>13, Constants DEF StartLoop, NoCall, Call, Calls, Content
  <2> QED
    BY <1>13, <2>1 DEF StartLoop, TypeOK, frames
<1>14. CASE FlushFrame
  <2>0. call.index \in 0..NumPages /\ call.index < NumPages
    BY <1>14 DEF FlushFrame, TypeOK, Call
  <2>1. call' \in Call /\ call.index \in Frames
    <3>1. call.index \in Frames /\ call.index + 1 \in 0..NumPages
      BY <2>0, Constants DEF Frames
    <3> QED
      BY <1>14, <3>1 DEF FlushFrame, TypeOK, Call
  <2>2. /\ disk' \in Seq(Content)
        /\ dirtybit' \in [Frames -> BOOLEAN]
        /\ stat' \in Stats
    BY <1>14, <2>1, PoolTypes DEF FlushFrame, TypeOK
  <2> QED
    BY <1>14, <2>1, <2>2 DEF FlushFrame, TypeOK
<1>15. NoCall \in Call /\ [c \in Clients |-> Idle] \in [Clients -> PageHandle]
  BY Constants DEF NoCall, Call, Calls, Content, Idle, PageHandle
<1>16. CASE FlushDone
  BY <1>15, <1>16 DEF FlushDone, TypeOK, Return, Ops, RCs, frames
<1>17. CASE ShutdownDone
  BY <1>15, <1>17, EmptyPoolTypes DEF ShutdownDone, TypeOK, Return, Ops, RCs
<1>18. ASSUME NEW op \in {"markDirty", "forcePage", "forceFlushPool"}, NotInitialized(op)
       PROVE  TypeOK'
  BY <1>18 DEF NotInitialized, TypeOK, Return, Ops, RCs, frames
<1>19. CASE Crash
  BY <1>15, <1>19, EmptyPoolTypes DEF Crash, TypeOK
<1>20. CASE UNCHANGED vars
  BY <1>20 DEF vars, frames, TypeOK
<1> QED
  BY <1>1, <1>2, <1>3, <1>4, <1>5, <1>6, <1>7, <1>8, <1>9, <1>10, <1>11, <1>12,
     <1>13, <1>14, <1>16, <1>17, <1>18, <1>19, <1>20
     DEF Next, Continue, forceFlushPool, shutdownBufferPool

-----------------------------------------------------------------------------
(***************************************************************************)
(* The steps, sorted by what they do to the frames' pages, to their fix    *)
(* counts and to the handles: a page is placed in a frame that has no      *)
(* user, a page in a frame is pinned once more, it is unpinned, or nothing *)
(* of this changes.                                                        *)
(***************************************************************************)
PoolInv == OneFramePerPage /\ PinnedPageResident /\ FixCountsPins /\ HandleShape

Place(i, c, p) ==
  /\ pagenum' = [pagenum EXCEPT ![i] = p]
  /\ fixedcount' = [fixedcount EXCEPT ![i] = 1]
  /\ handle' = [Orphan(i) EXCEPT ![c] = Pinned(p, i)]

SamePins ==
  /\ UNCHANGED <<mgmtData, pagenum, fixedcount>>
  /\ \A c \in Clients :
       /\ handle'[c].pinned = handle[c].pinned
       /\ handle[c].pinned => /\ handle'[c].data = handle[c].data
                              /\ handle'[c].pageNum = handle[c].pageNum

LEMMA UsersFinite == \A i : UsersOf(i) \in SUBSET Clients /\ IsFiniteSet(UsersOf(i))
BY ClientsAssumption, FS_Subset DEF UsersOf

LEMMA PlaceStep ==
  ASSUME TypeOK, PoolInv, mgmtData, mgmtData',
         NEW i \in Frames, NEW c \in Clients, NEW p \in Pages,
         ~handle[c].pinned, UsersOf(i) = {},
         \A j \in Frames : pagenum[j] # p,
         \A j \in Frames : j < i => pagenum[j] # NoPage,
         \A j \in Frames : j > i /\ pagenum[i] # NoPage => pagenum[j] # NoPage,
         Place(i, c, p)
  PROVE  PoolInv'
<1>1. handle'[c] = Pinned(p, i)
  BY DEF Place, Orphan
<1>2. \A d \in Clients \ {c} :
        /\ handle'[d].pinned = handle[d].pinned
        /\ handle'[d].pageNum = handle[d].pageNum
        /\ handle[d].data # i => handle'[d].data = handle[d].data
  BY DEF Place, Orphan, TypeOK, PageHandle
<1>3. \A d \in Clients \ {c} : handle[d].pinned => handle[d].data # i
  BY DEF UsersOf
<1>4. pagenum'[i] = p /\ \A j \in Frames \ {i} : pagenum'[j] = pagenum[j]
  BY DEF Place, TypeOK
<1>5. OneFramePerPage'
  BY <1>4, Constants DEF PoolInv, OneFramePerPage
<1>6. PinnedPageResident'
  <2> SUFFICES ASSUME NEW d \in Clients, handle'[d].pinned
               PROVE  /\ handle'[d].data \in Frames
                      /\ pagenum'[handle'[d].data] = handle'[d].pageNum
    BY DEF PinnedPageResident
  <2>1. CASE d = c
    BY <1>1, <1>4, <2>1 DEF Pinned
  <2>2. CASE d # c
    BY <1>2, <1>3, <1>4, <2>2 DEF PoolInv, PinnedPageResident
  <2> QED
    BY <2>1, <2>2
<1>7. FixCountsPins'
  <2>1. UsersOf(i)' = {c}
    BY <1>1, <1>2, <1>3 DEF UsersOf, Pinned, Place, Orphan, TypeOK, PageHandle, NoFrame
  <2>2. ASSUME NEW j \in Frames \ {i} PROVE UsersOf(j)' = UsersOf(j)
    BY <1>1, <1>2, <1>3, <2>2 DEF UsersOf, Pinned
  <2>3. Cardinality({c}) = 1
    BY FS_Singleton
  <2> QED
    BY <2>1, <2>2, <2>3 DEF PoolInv, FixCountsPins, Place, TypeOK
<1>8. HandleShape'
  BY <1>1, <1>2 DEF PoolInv, HandleShape, Pinned
<1> QED
  BY <1>5, <1>6, <1>7, <1>8 DEF PoolInv

LEMMA PinStep ==
  ASSUME TypeOK, PoolInv, mgmtData, mgmtData',
         NEW i \in Frames, NEW c \in Clients, NEW p \in Pages,
         ~handle[c].pinned, pagenum[i] = p, pagenum' = pagenum,
         fixedcount' = [fixedcount EXCEPT ![i] = @ + 1],
         handle' = [handle EXCEPT ![c] = Pinned(p, i)]
  PROVE  PoolInv'
<1>1. handle'[c] = Pinned(p, i) /\ \A d \in Clients \ {c} : handle'[d] = handle[d]
  BY DEF TypeOK
<1>2. OneFramePerPage'
  BY DEF PoolInv, OneFramePerPage
<1>3. PinnedPageResident'
  BY <1>1 DEF PoolInv, PinnedPageResident, Pinned
<1>4. FixCountsPins'
  <2>1. UsersOf(i)' = UsersOf(i) \cup {c} /\ c \notin UsersOf(i)
    BY <1>1 DEF UsersOf, Pinned
  <2>2. ASSUME NEW j \in Frames \ {i} PROVE UsersOf(j)' = UsersOf(j)
    BY <1>1, <2>2 DEF UsersOf, Pinned
  <2>3. Cardinality(UsersOf(i)') = Cardinality(UsersOf(i)) + 1
    BY <2>1, UsersFinite, FS_AddElement
  <2> QED
    BY <2>2, <2>3 DEF PoolInv, FixCountsPins, TypeOK
<1>5. HandleShape'
  BY <1>1 DEF PoolInv, HandleShape, Pinned
<1> QED
  BY <1>2, <1>3, <1>4, <1>5 DEF PoolInv

LEMMA UnpinStep ==
  ASSUME TypeOK, PoolInv, mgmtData,
         NEW i \in Frames, NEW c \in Clients,
         handle[c].pinned, pagenum[i] = handle[c].pageNum,
         UNCHANGED <<mgmtData, pagenum>>,
         fixedcount' = [fixedcount EXCEPT ![i] = @ - 1],
         handle' = [handle EXCEPT ![c].pinned = FALSE]
  PROVE  PoolInv'
<1>1. /\ ~handle'[c].pinned
      /\ \A d \in Clients \ {c} : handle'[d] = handle[d]
  BY DEF TypeOK, PageHandle
<1>2. handle[c].data = i
  <2>1. /\ handle[c].data \in Frames
        /\ pagenum[handle[c].data] = pagenum[i]
        /\ pagenum[i] # NoPage
    BY Constants DEF PoolInv, PinnedPageResident, HandleShape
  <2> QED
    BY <2>1, Constants DEF PoolInv, OneFramePerPage
<1>3. OneFramePerPage'
  BY DEF PoolInv, OneFramePerPage
<1>4. PinnedPageResident' /\ HandleShape'
  BY <1>1 DEF PoolInv, PinnedPageResident, HandleShape
<1>5. FixCountsPins'
  <2>1. UsersOf(i)' = UsersOf(i) \ {c} /\ c \in UsersOf(i)
    BY <1>1, <1>2 DEF UsersOf
  <2>2. ASSUME NEW j \in Frames \ {i} PROVE UsersOf(j)' = UsersOf(j)
    BY <1>1, <1>2, <2>2 DEF UsersOf
  <2>3. Cardinality(UsersOf(i)') = Cardinality(UsersOf(i)) - 1
    BY <2>1, UsersFinite, FS_RemoveElement
  <2> QED
    BY <2>2, <2>3 DEF PoolInv, FixCountsPins, TypeOK
<1> QED
  BY <1>3, <1>4, <1>5 DEF PoolInv

LEMMA SamePinsStep ==
  ASSUME PoolInv, SamePins
  PROVE  PoolInv'
<1>1. \A i \in Frames : UsersOf(i)' = UsersOf(i)
  BY DEF UsersOf, SamePins
<1>2. FixCountsPins'
  BY <1>1 DEF PoolInv, FixCountsPins, SamePins
<1>3. OneFramePerPage' /\ PinnedPageResident' /\ HandleShape'
  BY DEF PoolInv, SamePins, OneFramePerPage, PinnedPageResident, HandleShape
<1> QED
  BY <1>2, <1>3 DEF PoolInv

\* A pool that nobody uses, at the start and after it was closed.
LEMMA UnusedPool ==
  ASSUME \A i \in Frames : pagenum[i] = NoPage /\ fixedcount[i] = 0,
         \A c \in Clients : ~handle[c].pinned
  PROVE  PoolInv
<1>1. \A i \in Frames : UsersOf(i) = {}
  BY DEF UsersOf
<1>2. FixCountsPins
  BY <1>1, FS_EmptySet DEF FixCountsPins
<1> QED
  BY <1>2 DEF PoolInv, OneFramePerPage, PinnedPageResident, HandleShape

LEMMA UnusedPoolStep ==
  ASSUME EmptyPool, \A c \in Clients : ~handle'[c].pinned
  PROVE  PoolInv'
<1>1. \A i \in Frames : pagenum'[i] = NoPage /\ fixedcount'[i] = 0
  BY DEF EmptyPool
<1>2. \A i \in Frames : UsersOf(i)' = {}
  BY DEF UsersOf
<1>3. FixCountsPins'
  BY <1>1, <1>2, FS_EmptySet DEF FixCountsPins
<1> QED
  BY <1>1, <1>3 DEF PoolInv, OneFramePerPage, PinnedPageResident, HandleShape

-----------------------------------------------------------------------------
LEMMA InitInv == Init => IInv
<1> SUFFICES ASSUME Init PROVE IInv
  OBVIOUS
<1>1. TypeOK
  <2>1. disk \in Seq(Content)
    BY SizesAssumption DEF Init, Content
  <2>2. stat \in Stats /\ last \in [op: Ops, rc: RCs]
    BY DEF Init, Stats, Ops, RCs
  <2>3. call \in Call /\ handle \in [Clients -> PageHandle]
    BY Constants DEF Init, NoCall, Call, Calls, Content, Idle, PageHandle
  <2>4. /\ pagedata \in [Frames -> Content]
        /\ pagenum \in [Frames -> Pages \cup {NoPage}]
        /\ dirtybit \in [Frames -> BOOLEAN]
        /\ fixedcount \in [Frames -> Int]
        /\ ranking \in [Frames -> Int]
    BY DEF Init, Content, MaxRank
  <2> QED
    BY <2>1, <2>2, <2>3, <2>4 DEF Init, TypeOK
<1>2. PoolInv
  BY UnusedPool DEF Init, Idle
<1>3. CallShape
  BY DEF Init, CallShape, NoCall
<1>4. LastUsedIsOne
  BY DEF Init, LastUsedIsOne, MaxRank
<1> QED
  BY <1>1, <1>2, <1>3, <1>4 DEF IInv, PoolInv

LEMMA CallStep ==
  ASSUME TypeOK, CallShape, [Next]_vars
  PROVE  CallShape'
<1>1. CASE call' = NoCall
  BY <1>1 DEF CallShape, NoCall
<1>2. CASE UNCHANGED call /\ call.op = "none"
  BY <1>2 DEF CallShape
<1>3. ASSUME NEW c \in Clients, NEW p \in Pages, PinMissFifo(c, p) PROVE CallShape'
  <2>1. stat.lastposition % NumPages \in Frames
    BY PoolTypes
  <2> QED
    BY <1>3, <2>1 DEF PinMissFifo, Miss, MayPin, Ready, CallShape, frames
<1>4. CASE FifoSkip
  <2>1. (call.index + 1) % NumPages \in Frames
    BY Constants DEF TypeOK, Call, Frames
  <2> QED
    BY <1>4, <2>1 DEF FifoSkip, TypeOK, Call, CallShape, frames
<1>5. CASE FlushFrame
  BY <1>5 DEF FlushFrame, Flushing, TypeOK, Call, CallShape
<1>6. ASSUME NEW op \in {"flush", "shutdown"}, StartLoop(op) PROVE CallShape'
  BY <1>6 DEF StartLoop, Ready, NoCall, CallShape
<1>7. CASE UNCHANGED vars
  BY <1>7 DEF vars, frames, CallShape
<1> QED
  BY <1>1, <1>2, <1>3, <1>4, <1>5, <1>6, <1>7
     DEF Next, Continue, initBufferPool, PinEmpty, PinHit, PinMissLru,
         PinMissOther, WritePage, markDirty, unpinPage, forcePage,
         forceFlushPool, shutdownBufferPool, FifoEvict, FlushDone,
         ShutdownDone, NotInitialized, Crash, Quiet, Ready, Miss, MayPin

(***************************************************************************)
(* The ranks: a pin puts its frame at the top and takes one from the rest. *)
(***************************************************************************)
LEMMA RankStep ==
  ASSUME IInv, [Next]_vars
  PROVE  LastUsedIsOne'
<1>1. ASSUME NEW i \in Frames, decreaseRankingForPages(i)
      PROVE  LastUsedIsOne'
  <2>1. /\ ranking'[i] = MaxRank
        /\ \A j \in Frames \ {i} : ranking'[j] \in Int /\ ranking'[j] < MaxRank
    BY <1>1 DEF decreaseRankingForPages, IInv, TypeOK, LastUsedIsOne, MaxRank
  <2> QED
    BY <2>1 DEF LastUsedIsOne, MaxRank
<1>2. CASE EmptyPool
  BY <1>2 DEF EmptyPool, LastUsedIsOne, MaxRank
<1>3. CASE UNCHANGED <<pagenum, ranking>>
  BY <1>3 DEF IInv, LastUsedIsOne
<1>4. ASSUME NEW c \in Clients, NEW p \in Pages,
             PinEmpty(c, p) \/ PinHit(c, p) \/ PinMissLru(c, p)
      PROVE  LastUsedIsOne'
  BY <1>1, <1>4 DEF PinEmpty, PinHit, PinMissLru, Replace
<1>5. CASE FifoEvict
  BY <1>1, <1>5 DEF FifoEvict, Replace, IInv, CallShape
<1> QED
  BY <1>2, <1>3, <1>4, <1>5
     DEF Next, Continue, initBufferPool, PinMissFifo, PinMissOther, WritePage,
         markDirty, unpinPage, forcePage, forceFlushPool, shutdownBufferPool,
         StartLoop, FifoSkip, FlushFrame, FlushDone, ShutdownDone,
         NotInitialized, Crash, vars, frames

(***************************************************************************)
(* Among as many frames as there are clients one is free while a client    *)
(* has nothing pinned: otherwise two frames would be pinned by one client, *)
(* whose handle has a single data pointer.                                 *)
(***************************************************************************)
LEMMA FreeFrame ==
  ASSUME IInv, NEW c \in Clients, ~handle[c].pinned,
         NEW S \in SUBSET Frames, Cardinality(S) >= Cardinality(Clients)
  PROVE  \E i \in S : fixedcount[i] = 0
<1> SUFFICES ASSUME \A i \in S : fixedcount[i] # 0 PROVE FALSE
  OBVIOUS
<1> DEFINE Others == Clients \ {c}
<1>1. \A i \in S : \E d \in Others : handle[d].data = i
  <2> SUFFICES ASSUME NEW i \in S PROVE \E d \in Others : handle[d].data = i
    OBVIOUS
  <2>1. UsersOf(i) # {}
    BY FS_EmptySet DEF IInv, FixCountsPins
  <2> QED
    BY <2>1 DEF UsersOf
<1>2. IsFiniteSet(S) /\ Cardinality(S) \in Nat
  <2>1. IsFiniteSet(Frames)
    BY Constants, FS_Interval DEF Frames
  <2> QED
    BY <2>1, FS_Subset, FS_CardinalityType
<1>3. IsFiniteSet(Others) /\ Cardinality(Others) < Cardinality(S)
  <2>1. /\ IsFiniteSet(Others)
        /\ Cardinality(Others) = Cardinality(Clients) - 1
        /\ Cardinality(Clients) \in Nat
    BY ClientsAssumption, FS_RemoveElement, FS_CardinalityType
  <2> QED
    BY <1>2, <2>1
<1> DEFINE user == [i \in S |-> CHOOSE d \in Others : handle[d].data = i]
<1>4. user \in [S -> Others] /\ \A i \in S : handle[user[i]].data = i
  BY <1>1
<1>5. \E i, j \in S : i # j /\ user[i] = user[j]
  <2> HIDE DEF user, Others
  <2> QED
    BY <1>2, <1>3, <1>4, FS_PigeonHole
<1> QED
  BY <1>4, <1>5

(***************************************************************************)
(* While the clients are fewer than the frames, lru finds a victim that    *)
(* nobody has pinned: the pool is full, so every frame but one is below    *)
(* the top rank.                                                           *)
(***************************************************************************)
LEMMA LruFindsFree ==
  ASSUME IInv, Roomy, NEW c \in Clients, NEW p \in Pages, Miss(c, p),
         strategy = "RS_LRU"
  PROVE  LruCandidates # {}
<1> DEFINE Below == {i \in Frames : ranking[i] < MaxRank}
<1>1. ~handle[c].pinned /\ \A i \in Frames : pagenum[i] # NoPage
  BY DEF Miss, MayPin
<1>2. IsFiniteSet(Frames) /\ Cardinality(Frames) = NumPages
  BY Constants, FS_Interval DEF Frames
<1>3. Cardinality(Below) \in Int /\ Cardinality(Below) >= NumPages - 1
  <2>1. CASE \E t \in Frames : ranking[t] = MaxRank
    <3>1. PICK t \in Frames : ranking[t] = MaxRank
      BY <2>1
    <3>2. Below = Frames \ {t}
      BY <1>1, <3>1 DEF IInv, LastUsedIsOne, MaxRank
    <3>3. Cardinality(Frames \ {t}) = NumPages - 1
      BY <1>2, <3>1, FS_RemoveElement
    <3> HIDE DEF Below
    <3> QED
      BY <3>2, <3>3, Constants
  <2>2. CASE ~ \E t \in Frames : ranking[t] = MaxRank
    <3>1. Below = Frames
      BY <2>2 DEF IInv, TypeOK, LastUsedIsOne, MaxRank
    <3> QED
      BY <1>2, <3>1, Constants
  <2> QED
    BY <2>1, <2>2
<1>4. Cardinality(Below) >= Cardinality(Clients)
  <2>1. Cardinality(Clients) < NumPages /\ Cardinality(Clients) \in Nat
    BY ClientsAssumption, FS_CardinalityType DEF IInv, TypeOK, Roomy
  <2> HIDE DEF Below
  <2> QED
    BY <1>3, <2>1, Constants
<1>5. \E i \in Below : fixedcount[i] = 0
  BY <1>1, <1>4, FreeFrame
<1> QED
  BY <1>5 DEF LruCandidates

(***************************************************************************)
(* With lru, the clients must be fewer than the frames.                    *)
(***************************************************************************)
LEMMA PoolInvStep ==
  ASSUME IInv, [Next]_vars, Roomy
  PROVE  PoolInv'
<1> USE DEF IInv
<1>0. PoolInv
  BY DEF PoolInv
<1>1. ASSUME NEW n \in {0, NumPages}, NEW s \in Strategies, initBufferPool(n, s)
      PROVE  PoolInv'
  <2>1. CASE EmptyPool
    BY <1>1, <2>1, UnusedPoolStep DEF initBufferPool, HandleShape
  <2>2. CASE UNCHANGED <<mgmtData, frames, handle>>
    BY <1>0, <2>2, SamePinsStep DEF SamePins, frames
  <2> QED
    BY <1>1, <2>1, <2>2 DEF initBufferPool
<1>2. ASSUME NEW c \in Clients, NEW p \in Pages, PinEmpty(c, p) PROVE PoolInv'
  <2>1. PICK i \in Frames : FoundAt(p, i) /\ pagenum[i] = NoPage /\ Place(i, c, p)
    BY <1>2 DEF PinEmpty, Place
  <2>2. mgmtData /\ mgmtData' /\ ~handle[c].pinned
    BY <1>2 DEF PinEmpty, MayPin, Ready
  <2>3. UsersOf(i) = {}
    BY <2>1, Constants DEF UsersOf, PinnedPageResident, HandleShape
  <2>4. \A j \in Frames : j < i => pagenum[j] # NoPage
    BY <2>1 DEF FoundAt
  <2>5. \A j \in Frames : pagenum[j] # p
    BY <2>1, Constants DEF FoundAt, OneFramePerPage
  <2> QED
    BY <1>0, <2>1, <2>2, <2>3, <2>4, <2>5, PlaceStep
<1>3. ASSUME NEW c \in Clients, NEW p \in Pages, PinHit(c, p) PROVE PoolInv'
  <2>1. PICK i \in Frames : /\ pagenum[i] = p
                            /\ fixedcount' = [fixedcount EXCEPT ![i] = @ + 1]
                            /\ handle' = [handle EXCEPT ![c] = Pinned(p, i)]
    BY <1>3 DEF PinHit
  <2>2. mgmtData /\ mgmtData' /\ ~handle[c].pinned /\ pagenum' = pagenum
    BY <1>3 DEF PinHit, MayPin, Ready
  <2> QED
    BY <1>0, <2>1, <2>2, PinStep
<1>4. CASE FifoEvict
  <2>1. /\ call.index \in Frames /\ call.client \in Clients /\ call.page \in Pages
        /\ ~handle[call.client].pinned
        /\ \A j \in Frames : pagenum[j] \notin {NoPage, call.page}
        /\ mgmtData
    BY <1>4 DEF FifoEvict, CallShape
  <2>2. /\ Place(call.index, call.client, call.page)
        /\ fixedcount[call.index] = 0
        /\ mgmtData'
    BY <1>4, <2>1 DEF FifoEvict, Replace, Place
  <2>3. UsersOf(call.index) = {}
    BY <2>1, <2>2, UsersFinite, FS_EmptySet DEF FixCountsPins
  <2> QED
    BY <1>0, <2>1, <2>2, <2>3, PlaceStep
<1>5. ASSUME NEW c \in Clients, unpinPage(c) PROVE PoolInv'
  <2>1. /\ mgmtData /\ handle[c].pinned
        /\ UNCHANGED <<mgmtData, pagenum>>
        /\ handle' = [handle EXCEPT ![c].pinned = FALSE]
    BY <1>5 DEF unpinPage, Ready
  <2>2. PICK i \in Frames : /\ HeldAt(c, i)
                            /\ fixedcount' = [fixedcount EXCEPT ![i] = @ - 1]
    <3>1. ~NotHeld(c)
      BY <2>1 DEF NotHeld, PinnedPageResident
    <3> QED
      BY <1>5, <3>1 DEF unpinPage
  <2> QED
    BY <1>0, <2>1, <2>2, UnpinStep DEF HeldAt
<1>6. ASSUME NEW c \in Clients, NEW data \in Data, WritePage(c, data) PROVE PoolInv'
  <2>1. SamePins
    BY <1>6 DEF WritePage, SamePins, TypeOK, PageHandle
  <2> QED
    BY <1>0, <2>1, SamePinsStep
<1>7. ASSUME NEW c \in Clients, markDirty(c) PROVE PoolInv'
  <2>1. SamePins
    BY <1>7 DEF markDirty, SamePins, TypeOK, PageHandle
  <2> QED
    BY <1>0, <2>1, SamePinsStep
<1>8. ASSUME NEW c \in Clients, NEW p \in Pages, PinMissOther(c, p) PROVE PoolInv'
  <2>1. SamePins
    BY <1>8 DEF PinMissOther, Miss, MayPin, SamePins, TypeOK, PageHandle, frames
  <2> QED
    BY <1>0, <2>1, SamePinsStep
<1>9. ASSUME UNCHANGED <<mgmtData, pagenum, fixedcount, handle>> PROVE PoolInv'
  BY <1>0, <1>9, SamePinsStep DEF SamePins
<1>10. CASE ShutdownDone \/ Crash
  BY <1>10, UnusedPoolStep DEF ShutdownDone, Crash, Idle
<1>11. ASSUME NEW c \in Clients, NEW p \in Pages, PinMissLru(c, p) PROVE PoolInv'
  <2>1. PICK i \in Frames : LruVictim(i) /\ Replace(MissDisk(p), i, c, p, MissData(p))
    BY <1>11 DEF PinMissLru
  <2>2. /\ ~handle[c].pinned
        /\ \A j \in Frames : pagenum[j] \notin {NoPage, p}
        /\ mgmtData /\ mgmtData'
    BY <1>11 DEF PinMissLru, Miss, MayPin, Ready
  <2>3. Place(i, c, p)
    BY <2>1 DEF Replace, Place
  <2>4. fixedcount[i] = 0
    BY <1>11, <2>1, LruFindsFree DEF LruVictim, LruCandidates, PinMissLru
  <2>5. UsersOf(i) = {}
    BY <2>4, UsersFinite, FS_EmptySet DEF FixCountsPins
  <2> QED
    BY <1>0, <2>2, <2>3, <2>5, PlaceStep
<1> QED
  BY <1>1, <1>2, <1>3, <1>4, <1>5, <1>6, <1>7, <1>8, <1>9, <1>10, <1>11
     DEF Next, Continue, vars, frames, PinMissFifo, FifoSkip, forcePage, StartLoop,
         forceFlushPool, shutdownBufferPool, FlushFrame, FlushDone, NotInitialized

-----------------------------------------------------------------------------
LEMMA InvStep ==
  ASSUME IInv, [Next]_vars, Roomy
  PROVE  IInv'
<1>1. TypeOK' /\ CallShape'
  BY TypeStep, CallStep DEF IInv
<1> QED
  BY <1>1, PoolInvStep, RankStep DEF IInv, PoolInv

(***************************************************************************)
(* Every variable has its type in every state, whatever the strategies; in *)
(* particular the place where fifo puts a page is a frame of the pool.     *)
(***************************************************************************)
THEOREM TypeCorrect == Spec => []TypeOK
<1> DEFINE Typed == TypeOK /\ CallShape
<1>1. Init => Typed
  BY InitInv DEF IInv
<1>2. Typed /\ [Next]_vars => Typed'
  BY TypeStep, CallStep
<1>3. Typed => TypeOK
  OBVIOUS
<1> QED
  BY <1>1, <1>2, <1>3, PTL DEF Spec

LEMMA Invariance ==
  ASSUME Roomy
  PROVE  Spec => []IInv
<1>1. Init => IInv
  BY InitInv
<1>2. IInv /\ [Next]_vars => IInv'
  BY InvStep
<1> QED
  BY <1>1, <1>2, PTL DEF Spec

(***************************************************************************)
(* For a pool of any size with any number of clients: the searches of the  *)
(* buffer manager find a page wherever it is, once (OneFramePerPage).      *)
(***************************************************************************)
THEOREM SearchFinds ==
  ASSUME Roomy
  PROVE  Spec => []OneFramePerPage
<1>1. IInv => OneFramePerPage
  BY DEF IInv
<1> QED
  BY <1>1, Invariance, PTL

(***************************************************************************)
(* No page is evicted from under a client that has it pinned, by fifo with *)
(* any clients and by lru with fewer clients than frames.                  *)
(***************************************************************************)
THEOREM PinnedStays ==
  ASSUME Roomy
  PROVE  Spec => []PinnedPageResident
<1>1. IInv => PinnedPageResident
  BY DEF IInv
<1> QED
  BY <1>1, Invariance, PTL

(***************************************************************************)
(* The fix counts are the numbers of pins, so the frames that fifo, flush  *)
(* and shutdown see as free are free.                                      *)
(***************************************************************************)
THEOREM FixCountsExact ==
  ASSUME Roomy
  PROVE  Spec => []FixCountsPins
<1>1. IInv => FixCountsPins
  BY DEF IInv
<1> QED
  BY <1>1, Invariance, PTL

(***************************************************************************)
(* What the loop of fifo needs to end: while it runs some frame is free,   *)
(* as long as the clients are no more than the frames.  The clients do not *)
(* move meanwhile, so the loop, which steps through all the frames in      *)
(* turn, comes to it.                                                      *)
(***************************************************************************)
THEOREM FifoCanEnd ==
  ASSUME Roomy, Cardinality(Clients) <= NumPages
  PROVE  Spec => [](call.op = "fifo" => \E i \in Frames : fixedcount[i] = 0)
<1>1. IInv => (call.op = "fifo" => \E i \in Frames : fixedcount[i] = 0)
  <2> SUFFICES ASSUME IInv, call.op = "fifo"
               PROVE  \E i \in Frames : fixedcount[i] = 0
    OBVIOUS
  <2>1. call.client \in Clients /\ ~handle[call.client].pinned
    BY DEF IInv, CallShape
  <2>2. Cardinality(Frames) = NumPages /\ Cardinality(Clients) \in Nat
    BY Constants, FS_Interval, ClientsAssumption, FS_CardinalityType DEF Frames
  <2>3. Cardinality(Frames) >= Cardinality(Clients)
    BY <2>2, Constants
  <2> QED
    BY <2>1, <2>3, FreeFrame
<1> QED
  BY <1>1, Invariance, PTL
=============================================================================
