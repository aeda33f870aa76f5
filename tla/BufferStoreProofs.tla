-------------------------- MODULE BufferStoreProofs --------------------------
(***************************************************************************)
(* Proofs about what BufferMgr does with the content of the pages: nothing *)
(* that was written is lost by an eviction, a flush or a shutdown, and the *)
(* pool with its file implements WriteBackStore.  They hold for clients    *)
(* that extend the file page by page (Dense), as the record manager does,  *)
(* and for pools in which the strategy evicts nothing that is pinned       *)
(* (Roomy).                                                                *)
(***************************************************************************)
EXTENDS BufferMgrProofs

(***************************************************************************)
(* The inductive invariant adds to IInv of BufferMgrProofs: no frame holds *)
(* a page further behind the end of the file than the one a write adds; a  *)
(* frame without the dirty bit that no writer is about to mark has what    *)
(* the file has; a fifo scan carries what the file holds of its page; and  *)
(* the frames a flush has passed are written, unless they are pinned.      *)
(***************************************************************************)
FramesNearFile ==
  \A i \in Frames :
    /\ pagenum[i] <= Len(disk)
    /\ pagenum[i] = NoPage => ~dirtybit[i]

ClosedIsEmpty == ~mgmtData => \A i \in Frames : pagenum[i] = NoPage

WritersPinned == \A c \in Clients : handle[c].unmarked => handle[c].pinned

CallContent ==
  /\ call.op = "fifo" => call.page <= Len(disk) /\ call.data = OnDisk(call.page)
  /\ Flushing => \A i \in Frames :
                   i < call.index /\ fixedcount[i] = 0 => ~dirtybit[i]

ContentInv ==
  /\ FramesNearFile
  /\ ClosedIsEmpty
  /\ WritersPinned
  /\ CallContent
  /\ CleanMatchesDisk

StoreInv == IInv /\ ContentInv

-----------------------------------------------------------------------------
\* What the state a step leads to has of page p in the file.
OnDiskNext(p) == IF p < Len(disk') THEN disk'[p + 1] ELSE Junk

(***************************************************************************)
(* Writing a page that is in the file, or the one behind its end, changes  *)
(* what is read from that page and from no other.                          *)
(***************************************************************************)
LEMMA WriteChangesOne ==
  ASSUME disk \in Seq(Content), NEW q \in Nat, q <= Len(disk), NEW data \in Content,
         disk' = WriteBlock(disk, Len(disk), q, data)
  PROVE  /\ Len(disk') \in Nat /\ Len(disk') >= Len(disk)
         /\ StoredNext(q, data) /\ OnDiskNext(q) = data
         /\ \A p \in Nat \ {q} : OnDiskNext(p) = OnDisk(p)
<1> DEFINE size == IF q < Len(disk) THEN Len(disk) ELSE q + 1
<1>1. size \in Nat /\ size >= Len(disk) /\ size <= Len(disk) + 1 /\ q < size
  OBVIOUS
<1>2. disk' = [i \in 1..size |-> IF i = q + 1 THEN data
                                 ELSE IF i <= Len(disk) THEN disk[i] ELSE Zero]
  BY DEF WriteBlock, WriteRC, Store
<1>3. disk' \in Seq(Content)
  BY FileTypes
<1>4. Len(disk') = size
  <2> HIDE DEF size
  <2> QED
    BY <1>1, <1>2, <1>3
<1>5. StoredNext(q, data) /\ OnDiskNext(q) = data
  <2> HIDE DEF size
  <2> QED
    BY <1>1, <1>2, <1>4 DEF StoredNext, OnDiskNext
<1>6. ASSUME NEW p \in Nat \ {q} PROVE OnDiskNext(p) = OnDisk(p)
  BY <1>1, <1>2, <1>4, <1>6 DEF OnDisk, OnDiskNext
<1> QED
  BY <1>1, <1>4, <1>5, <1>6

\* A client that extends the file page by page causes no ensureCapacity that
\* does anything, and reads what the file holds.
LEMMA DensePin ==
  ASSUME TypeOK, Dense, NEW c \in Clients, NEW p \in Pages, MayPin(c, p)
  PROVE  /\ p \in Nat /\ p <= Len(disk)
         /\ WithCapacity(p) = disk /\ MissDisk(p) = disk
         /\ ReadPage(p) = OnDisk(p) /\ MissData(p) = OnDisk(p)
<1>1. p \in Nat /\ p <= Len(disk) /\ Len(disk) \in Nat
  BY Constants DEF MayPin, TypeOK
<1>2. WithCapacity(p) = disk /\ MissDisk(p) = disk
  BY <1>1 DEF WithCapacity, EnsureCapacity, MissDisk
<1>3. ReadPage(p) = OnDisk(p) /\ MissData(p) = OnDisk(p)
  BY <1>1, <1>2 DEF ReadPage, MissData, ReadBlock, ReadRC, OnDisk
<1> QED
  BY <1>1, <1>2, <1>3

-----------------------------------------------------------------------------
(***************************************************************************)
(* What the steps do to the content comes in four shapes: a frame is       *)
(* written to the file, a frame is given another page, a client writes to  *)
(* the memory of a frame, or the content stays where it is.                *)
(***************************************************************************)
\* A client that has written and not marked is still at it, or has marked.
WritersStay ==
  \A c \in Clients : handle[c].pinned /\ handle[c].unmarked =>
    \/ /\ handle'[c].pinned /\ handle'[c].unmarked
       /\ handle'[c].data = handle[c].data
    \/ dirtybit'[handle[c].data]

Save(i) ==
  /\ pagenum[i] # NoPage
  /\ disk' = Written(i) \/ (disk' = disk /\ ~dirtybit[i])
  /\ dirtybit' = [dirtybit EXCEPT ![i] = FALSE]
  /\ UNCHANGED <<mgmtData, pagedata, pagenum>>

Load(i, p) ==
  /\ disk' = IF dirtybit[i] THEN Written(i) ELSE disk
  /\ pagedata' = [pagedata EXCEPT ![i] = OnDisk(p)]
  /\ pagenum' = [pagenum EXCEPT ![i] = p]
  /\ dirtybit' = [dirtybit EXCEPT ![i] = FALSE]
  /\ UNCHANGED mgmtData

\* The pool is open, page p is in no frame, and nobody uses frame i.
MayLoad(i, p) ==
  /\ mgmtData
  /\ p <= Len(disk)
  /\ \A j \in Frames : pagenum[j] # p
  /\ UsersOf(i) = {}

Fill(c, data) ==
  /\ pagedata' = [pagedata EXCEPT ![handle[c].data] = data]
  /\ handle'[c] = [handle[c] EXCEPT !.unmarked = TRUE]
  /\ UNCHANGED <<disk, mgmtData, pagenum, dirtybit>>

Stay ==
  /\ \A i \in Frames : dirtybit[i] => dirtybit'[i]
  /\ UNCHANGED <<disk, mgmtData, pagedata, pagenum>>

LEMMA FrameTypes ==
  ASSUME TypeOK, FramesNearFile, NEW i \in Frames
  PROVE  /\ disk \in Seq(Content) /\ Len(disk) \in Nat
         /\ pagedata[i] \in Content
         /\ pagenum[i] \in Pages \cup {NoPage}
         /\ pagenum[i] # NoPage => /\ pagenum[i] \in Nat
                                   /\ pagenum[i] \in Pages
                                   /\ pagenum[i] <= Len(disk)
BY Constants DEF TypeOK, FramesNearFile

LEMMA OneFrame ==
  ASSUME OneFramePerPage, NEW i \in Frames, NEW j \in Frames,
         pagenum[i] = pagenum[j], pagenum[i] # NoPage
  PROVE  i = j
BY Constants DEF OneFramePerPage

\* Writers who stay are users of their frames.
LEMMA WriterSeen ==
  ASSUME WritersStay, NEW i \in Frames, ~dirtybit'[i],
         \A c \in UsersOf(i)' : ~handle'[c].unmarked
  PROVE  \A c \in UsersOf(i) : ~handle[c].unmarked
BY DEF WritersStay, UsersOf

LEMMA SaveContent ==
  ASSUME TypeOK, OneFramePerPage, FramesNearFile, CleanMatchesDisk, WritersStay,
         NEW i \in Frames, Save(i)
  PROVE  /\ Len(disk') \in Nat /\ Len(disk') >= Len(disk)
         /\ FramesNearFile' /\ CleanMatchesDisk'
         /\ OnDiskNext(pagenum[i]) \in {pagedata[i], OnDisk(pagenum[i])}
         /\ \A p \in Nat \ {pagenum[i]} : OnDiskNext(p) = OnDisk(p)
<1>1. /\ pagenum[i] \in Nat /\ pagenum[i] <= Len(disk) /\ pagedata[i] \in Content
      /\ disk \in Seq(Content) /\ Len(disk) \in Nat
  BY FrameTypes DEF Save
<1>2. CASE disk' = Written(i)
  <2>1. /\ Len(disk') \in Nat /\ Len(disk') >= Len(disk)
        /\ OnDiskNext(pagenum[i]) = pagedata[i]
        /\ \A p \in Nat \ {pagenum[i]} : OnDiskNext(p) = OnDisk(p)
    BY <1>1, <1>2, WriteChangesOne DEF Written
  <2>2. FramesNearFile'
    <3> SUFFICES ASSUME NEW j \in Frames
                 PROVE  /\ pagenum'[j] <= Len(disk')
                        /\ pagenum'[j] = NoPage => ~dirtybit'[j]
      BY DEF FramesNearFile
    <3>1. pagenum[j] \in Int /\ pagenum[j] <= Len(disk)
      BY FrameTypes, Constants DEF FramesNearFile, NoPage
    <3> QED
      BY <1>1, <2>1, <3>1 DEF FramesNearFile, Save, TypeOK
  <2>3. CleanMatchesDisk'
    <3> SUFFICES ASSUME NEW j \in Frames, pagenum'[j] # NoPage, ~dirtybit'[j],
                        \A c \in UsersOf(j)' : ~handle'[c].unmarked
                 PROVE  pagedata'[j] = OnDiskNext(pagenum'[j])
      BY DEF CleanMatchesDisk, OnDisk, OnDiskNext
    <3>1. CASE j = i
      BY <2>1, <3>1 DEF Save
    <3>2. CASE j # i
      <4>1. pagenum[j] # NoPage /\ ~dirtybit[j] /\ pagenum[j] \in Nat
        BY <3>2, FrameTypes DEF Save, TypeOK
      <4>2. pagedata[j] = OnDisk(pagenum[j])
        BY <4>1, WriterSeen DEF CleanMatchesDisk
      <4>3. pagenum[j] # pagenum[i]
        BY <3>2, <4>1, Constants DEF OneFramePerPage
      <4> QED
        BY <2>1, <4>1, <4>2, <4>3 DEF Save
    <3> QED
      BY <3>1, <3>2
  <2> QED
    BY <2>1, <2>2, <2>3
<1>3. CASE disk' = disk /\ ~dirtybit[i]
  <2>1. \A p : OnDiskNext(p) = OnDisk(p)
    BY <1>3 DEF OnDisk, OnDiskNext
  <2>2. FramesNearFile'
    BY <1>3 DEF FramesNearFile, Save, TypeOK
  <2>3. CleanMatchesDisk'
    <3> SUFFICES ASSUME NEW j \in Frames, pagenum'[j] # NoPage, ~dirtybit'[j],
                        \A c \in UsersOf(j)' : ~handle'[c].unmarked
                 PROVE  pagedata'[j] = OnDiskNext(pagenum'[j])
      BY DEF CleanMatchesDisk, OnDisk, OnDiskNext
    <3>1. ~dirtybit[j]
      BY <1>3 DEF Save, TypeOK
    <3> QED
      BY <2>1, <3>1, WriterSeen DEF CleanMatchesDisk, Save
  <2> QED
    BY <1>1, <1>3, <2>1, <2>2, <2>3
<1> QED
  BY <1>2, <1>3 DEF Save

LEMMA LoadContent ==
  ASSUME TypeOK, OneFramePerPage, FramesNearFile, CleanMatchesDisk, WritersStay,
         NEW i \in Frames, NEW p \in Pages, MayLoad(i, p), Load(i, p)
  PROVE  /\ Len(disk') \in Nat /\ Len(disk') >= Len(disk)
         /\ FramesNearFile' /\ CleanMatchesDisk'
         /\ pagenum[i] # NoPage => OnDiskNext(pagenum[i]) = pagedata[i]
         /\ \A q \in Nat \ {pagenum[i]} : OnDiskNext(q) = OnDisk(q)
<1>1. /\ pagedata[i] \in Content /\ disk \in Seq(Content) /\ Len(disk) \in Nat
      /\ p \in Nat /\ p # pagenum[i]
  BY FrameTypes, Constants DEF MayLoad
<1>2. /\ Len(disk') \in Nat /\ Len(disk') >= Len(disk)
      /\ pagenum[i] # NoPage => OnDiskNext(pagenum[i]) = pagedata[i]
      /\ \A q \in Nat \ {pagenum[i]} : OnDiskNext(q) = OnDisk(q)
  <2>1. CASE dirtybit[i]
    <3>1. disk' = Written(i) /\ pagenum[i] \in Nat /\ pagenum[i] <= Len(disk)
      BY <2>1, FrameTypes DEF FramesNearFile, Load
    <3> QED
      BY <1>1, <3>1, WriteChangesOne DEF Written
  <2>2. CASE ~dirtybit[i]
    <3>1. disk' = disk /\ \A q : OnDiskNext(q) = OnDisk(q)
      BY <2>2 DEF Load, OnDisk, OnDiskNext
    <3>2. pagenum[i] # NoPage => pagedata[i] = OnDisk(pagenum[i])
      BY <2>2 DEF CleanMatchesDisk, MayLoad
    <3> QED
      BY <1>1, <3>1, <3>2
  <2> QED
    BY <2>1, <2>2
<1>3. FramesNearFile'
  <2> SUFFICES ASSUME NEW j \in Frames
               PROVE  /\ pagenum'[j] <= Len(disk')
                      /\ pagenum'[j] = NoPage => ~dirtybit'[j]
    BY DEF FramesNearFile
  <2>1. CASE j = i
    BY <1>1, <1>2, <2>1, Constants DEF Load, MayLoad, TypeOK
  <2>2. CASE j # i
    <3>1. pagenum[j] \in Int /\ pagenum[j] <= Len(disk)
      BY FrameTypes, Constants DEF FramesNearFile, NoPage
    <3> QED
      BY <1>1, <1>2, <2>2, <3>1 DEF FramesNearFile, Load, TypeOK
  <2> QED
    BY <2>1, <2>2
<1>4. CleanMatchesDisk'
  <2> SUFFICES ASSUME NEW j \in Frames, pagenum'[j] # NoPage, ~dirtybit'[j],
                      \A c \in UsersOf(j)' : ~handle'[c].unmarked
               PROVE  pagedata'[j] = OnDiskNext(pagenum'[j])
    BY DEF CleanMatchesDisk, OnDisk, OnDiskNext
  <2>1. CASE j = i
    BY <1>1, <1>2, <2>1 DEF Load, TypeOK
  <2>2. CASE j # i
    <3>1. /\ pagenum[j] # NoPage /\ ~dirtybit[j] /\ pagenum[j] \in Nat
          /\ pagenum'[j] = pagenum[j] /\ pagedata'[j] = pagedata[j]
      BY <2>2, FrameTypes DEF Load, TypeOK
    <3>2. pagedata[j] = OnDisk(pagenum[j])
      BY <3>1, WriterSeen DEF CleanMatchesDisk
    <3>3. pagenum[j] # pagenum[i]
      BY <2>2, <3>1, Constants DEF OneFramePerPage
    <3> QED
      BY <1>2, <3>1, <3>2, <3>3
  <2> QED
    BY <2>1, <2>2
<1> QED
  BY <1>2, <1>3, <1>4

LEMMA FillContent ==
  ASSUME TypeOK, PoolInv, FramesNearFile, CleanMatchesDisk,
         NEW c \in Clients, handle[c].pinned, NEW data \in Data,
         \A d \in Clients \ {c} : handle'[d] = handle[d],
         Fill(c, data)
  PROVE  FramesNearFile' /\ CleanMatchesDisk'
<1>1. \A p : OnDiskNext(p) = OnDisk(p)
  BY DEF Fill, OnDisk, OnDiskNext
<1>2. FramesNearFile'
  BY DEF FramesNearFile, Fill
<1>3. CleanMatchesDisk'
  <2> SUFFICES ASSUME NEW j \in Frames, pagenum'[j] # NoPage, ~dirtybit'[j],
                      \A d \in UsersOf(j)' : ~handle'[d].unmarked
               PROVE  pagedata'[j] = OnDiskNext(pagenum'[j])
    BY DEF CleanMatchesDisk, OnDisk, OnDiskNext
  <2>1. /\ handle'[c].pinned /\ handle'[c].unmarked
        /\ handle'[c].data = handle[c].data
    BY DEF Fill, TypeOK, PageHandle
  <2>2. j # handle[c].data /\ \A d \in UsersOf(j) : ~handle[d].unmarked
    BY <2>1 DEF UsersOf
  <2>3. pagedata'[j] = pagedata[j] /\ pagenum'[j] = pagenum[j] /\ ~dirtybit[j]
    BY <2>2 DEF Fill, TypeOK
  <2> QED
    BY <1>1, <2>2, <2>3 DEF CleanMatchesDisk
<1> QED
  BY <1>2, <1>3

LEMMA StayContent ==
  ASSUME TypeOK, FramesNearFile, CleanMatchesDisk, WritersStay, Stay,
         \A i \in Frames : pagenum[i] = NoPage => dirtybit'[i] = dirtybit[i]
  PROVE  FramesNearFile' /\ CleanMatchesDisk'
<1>1. \A p : OnDiskNext(p) = OnDisk(p)
  BY DEF Stay, OnDisk, OnDiskNext
<1>2. FramesNearFile'
  BY DEF FramesNearFile, Stay
<1>3. CleanMatchesDisk'
  <2> SUFFICES ASSUME NEW j \in Frames, pagenum'[j] # NoPage, ~dirtybit'[j],
                      \A d \in UsersOf(j)' : ~handle'[d].unmarked
               PROVE  pagedata'[j] = OnDiskNext(pagenum'[j])
    BY DEF CleanMatchesDisk, OnDisk, OnDiskNext
  <2> QED
    BY <1>1, WriterSeen DEF CleanMatchesDisk, Stay
<1> QED
  BY <1>2, <1>3

\* A pool without pages, at the start, and after it was opened or closed.
LEMMA EmptyContent ==
  ASSUME Len(disk') \in Nat, EmptyPool
  PROVE  FramesNearFile' /\ CleanMatchesDisk' /\ ClosedIsEmpty'
BY DEF EmptyPool, FramesNearFile, CleanMatchesDisk, ClosedIsEmpty, NoPage

-----------------------------------------------------------------------------
(***************************************************************************)
(* Every step has one of the shapes, or opens or closes the pool.          *)
(***************************************************************************)
SaveStep == WritersStay /\ \E i \in Frames : Save(i)

LoadStep ==
  WritersStay /\ \E i \in Frames, p \in Pages : MayLoad(i, p) /\ Load(i, p)

FillStep ==
  \E c \in Clients, data \in Data :
    /\ handle[c].pinned
    /\ \A d \in Clients \ {c} : handle'[d] = handle[d]
    /\ Fill(c, data)

StayStep ==
  /\ WritersStay
  /\ Stay
  /\ \A i \in Frames : pagenum[i] = NoPage => dirtybit'[i] = dirtybit[i]

OpenStep == ~mgmtData /\ mgmtData' = TRUE /\ EmptyPool /\ UNCHANGED disk

CloseStep == mgmtData /\ mgmtData' = FALSE /\ EmptyPool /\ UNCHANGED disk

ContentStep ==
  SaveStep \/ LoadStep \/ FillStep \/ StayStep \/ OpenStep \/ CloseStep

LEMMA SameHandles ==
  ASSUME UNCHANGED handle
  PROVE  WritersStay
BY DEF WritersStay

\* A pin changes the handle of a client that had nothing pinned, and the
\* handles that point to a frame nobody has pinned.
LEMMA PinKeepsWriters ==
  ASSUME TypeOK, NEW c \in Clients, ~handle[c].pinned, NEW h,
         \/ handle' = [handle EXCEPT ![c] = h]
         \/ \E i \in Frames : UsersOf(i) = {} /\ handle' = [Orphan(i) EXCEPT ![c] = h]
  PROVE  WritersStay
<1> SUFFICES ASSUME NEW d \in Clients, handle[d].pinned, handle[d].unmarked
             PROVE  /\ handle'[d].pinned /\ handle'[d].unmarked
                    /\ handle'[d].data = handle[d].data
  BY DEF WritersStay
<1>1. d # c
  OBVIOUS
<1>2. CASE handle' = [handle EXCEPT ![c] = h]
  BY <1>1, <1>2 DEF TypeOK
<1>3. ASSUME NEW i \in Frames, UsersOf(i) = {}, handle' = [Orphan(i) EXCEPT ![c] = h]
      PROVE  handle'[d] = handle[d]
  BY <1>1, <1>3 DEF Orphan, UsersOf
<1> QED
  BY <1>2, <1>3

LEMMA PinShape ==
  ASSUME StoreInv, Dense, NEW c \in Clients, NEW p \in Pages,
         PinEmpty(c, p) \/ PinHit(c, p) \/ PinMissFifo(c, p) \/ PinMissOther(c, p)
  PROVE  ContentStep
<1> USE DEF StoreInv, IInv
<1>0. MayPin(c, p) /\ ~handle[c].pinned
  BY DEF PinEmpty, PinHit, PinMissFifo, PinMissOther, Miss, MayPin
<1>1. CASE PinEmpty(c, p)
  <2>1. PICK i \in Frames :
          /\ FoundAt(p, i)
          /\ pagenum[i] = NoPage
          /\ disk' = IF i = 0 THEN WithCapacity(p) ELSE disk
          /\ pagedata' = [pagedata EXCEPT ![i] = ReadPage(p)]
          /\ pagenum' = [pagenum EXCEPT ![i] = p]
          /\ handle' = [Orphan(i) EXCEPT ![c] = Pinned(p, i)]
    BY <1>1 DEF PinEmpty
  <2>2. UNCHANGED <<mgmtData, dirtybit>>
    BY <1>1 DEF PinEmpty
  <2>3. UsersOf(i) = {}
    BY <2>1, Constants DEF UsersOf, PinnedPageResident, HandleShape
  <2>4. MayLoad(i, p)
    BY <1>0, <2>1, <2>3, DensePin, Constants
       DEF MayLoad, FoundAt, OneFramePerPage, MayPin, Ready
  <2>5. ~dirtybit[i]
    BY <2>1 DEF ContentInv, FramesNearFile
  <2>6. dirtybit' = [dirtybit EXCEPT ![i] = FALSE]
    BY <2>2, <2>5 DEF TypeOK
  <2>7. Load(i, p)
    BY <1>0, <2>1, <2>2, <2>5, <2>6, DensePin DEF Load
  <2>8. WritersStay
    BY <1>0, <2>1, <2>3, PinKeepsWriters
  <2> QED
    BY <2>4, <2>7, <2>8 DEF ContentStep, LoadStep
<1>2. CASE PinHit(c, p)
  <2>1. PICK i \in Frames :
          /\ pagenum[i] = p
          /\ disk' = IF dirtybit[i] THEN Written(i) ELSE disk
          /\ dirtybit' = [dirtybit EXCEPT ![i] = FALSE]
          /\ handle' = [handle EXCEPT ![c] = Pinned(p, i)]
    BY <1>2 DEF PinHit
  <2>2. Save(i)
    BY <1>2, <2>1, Constants DEF PinHit, Save
  <2>3. WritersStay
    BY <1>0, <2>1, PinKeepsWriters
  <2> QED
    BY <2>2, <2>3 DEF ContentStep, SaveStep
<1>3. CASE PinMissFifo(c, p)
  <2>1. WritersStay
    BY <1>3, SameHandles DEF PinMissFifo
  <2> QED
    BY <1>0, <1>3, <2>1, DensePin DEF ContentStep, StayStep, Stay, PinMissFifo, frames
<1>4. CASE PinMissOther(c, p)
  <2>1. handle' = [handle EXCEPT ![c] = [handle[c] EXCEPT !.pageNum = p, !.data = NoFrame]]
    BY <1>4 DEF PinMissOther, TypeOK
  <2>2. WritersStay
    BY <1>0, <2>1, PinKeepsWriters
  <2> QED
    BY <1>0, <1>4, <2>2, DensePin DEF ContentStep, StayStep, Stay, PinMissOther, frames
<1> QED
  BY <1>1, <1>2, <1>3, <1>4

LEMMA EvictShape ==
  ASSUME StoreInv, Dense, Roomy,
         FifoEvict \/ \E c \in Clients, p \in Pages : PinMissLru(c, p)
  PROVE  ContentStep
<1> USE DEF StoreInv, IInv
<1>1. ASSUME NEW i \in Frames, NEW c \in Clients, NEW p \in Pages,
             Replace(disk, i, c, p, OnDisk(p)), p <= Len(disk),
             ~handle[c].pinned, fixedcount[i] = 0,
             \A j \in Frames : pagenum[j] # p,
             mgmtData, UNCHANGED mgmtData
      PROVE  ContentStep
  <2>1. UsersOf(i) = {}
    BY <1>1, UsersFinite, FS_EmptySet DEF FixCountsPins
  <2>2. MayLoad(i, p)
    BY <1>1, <2>1 DEF MayLoad
  <2>3. Load(i, p)
    BY <1>1 DEF Load, Replace, Written
  <2>4. WritersStay
    BY <1>1, <2>1, PinKeepsWriters DEF Replace
  <2> QED
    BY <2>2, <2>3, <2>4 DEF ContentStep, LoadStep
<1>2. CASE FifoEvict
  <2>1. /\ call.index \in Frames /\ call.client \in Clients /\ call.page \in Pages
        /\ ~handle[call.client].pinned
        /\ \A j \in Frames : pagenum[j] # call.page
        /\ call.page <= Len(disk) /\ call.data = OnDisk(call.page)
    BY <1>2 DEF FifoEvict, CallShape, ContentInv, CallContent
  <2>2. /\ Replace(disk, call.index, call.client, call.page, OnDisk(call.page))
        /\ fixedcount[call.index] = 0
        /\ mgmtData /\ UNCHANGED mgmtData
    BY <1>2, <2>1 DEF FifoEvict, CallShape
  <2> QED
    BY <1>1, <2>1, <2>2
<1>3. ASSUME NEW c \in Clients, NEW p \in Pages, PinMissLru(c, p) PROVE ContentStep
  <2>1. PICK i \in Frames : LruVictim(i) /\ Replace(MissDisk(p), i, c, p, MissData(p))
    BY <1>3 DEF PinMissLru
  <2>2. MayPin(c, p) /\ ~handle[c].pinned /\ \A j \in Frames : pagenum[j] # p
    BY <1>3 DEF PinMissLru, Miss, MayPin
  <2>3. fixedcount[i] = 0
    BY <1>3, <2>1, LruFindsFree DEF LruVictim, LruCandidates, PinMissLru
  <2>4. Replace(disk, i, c, p, OnDisk(p)) /\ p <= Len(disk)
    BY <2>1, <2>2, DensePin
  <2>5. mgmtData /\ UNCHANGED mgmtData
    BY <1>3, <2>2 DEF PinMissLru, MayPin, Ready
  <2> QED
    BY <1>1, <2>2, <2>3, <2>4, <2>5
<1> QED
  BY <1>2, <1>3

LEMMA UseShape ==
  ASSUME StoreInv, NEW c \in Clients,
         \/ \E data \in Data : WritePage(c, data)
         \/ markDirty(c) \/ unpinPage(c) \/ forcePage(c)
  PROVE  ContentStep
<1> USE DEF StoreInv, IInv
<1>1. ASSUME NEW data \in Data, WritePage(c, data) PROVE ContentStep
  <2>1. handle[c].pinned /\ handle[c].data # NoFrame
    BY <1>1, Constants DEF WritePage, PinnedPageResident
  <2>2. Fill(c, data) /\ \A d \in Clients \ {c} : handle'[d] = handle[d]
    BY <1>1, <2>1 DEF WritePage, Fill, TypeOK
  <2> QED
    BY <2>1, <2>2 DEF ContentStep, FillStep
<1>2. CASE markDirty(c)
  <2>1. handle[c].pinned /\ ~NotHeld(c)
    BY <1>2 DEF markDirty, NotHeld, PinnedPageResident
  <2>2. PICK i \in Frames : HeldAt(c, i) /\ dirtybit' = [dirtybit EXCEPT ![i] = TRUE]
    BY <1>2, <2>1 DEF markDirty
  <2>3. /\ handle[c].data \in Frames
        /\ pagenum[handle[c].data] = pagenum[i]
        /\ pagenum[i] # NoPage
    BY <2>1, <2>2, Constants DEF HeldAt, PinnedPageResident, HandleShape
  <2>4. handle[c].data = i
    BY <2>3, OneFrame
  <2>5. dirtybit'[i] /\ \A j \in Frames \ {i} : dirtybit'[j] = dirtybit[j]
    BY <2>2 DEF TypeOK
  <2>6. \A d \in Clients \ {c} : handle'[d] = handle[d]
    BY <1>2 DEF markDirty, TypeOK
  <2>7. WritersStay
    BY <2>4, <2>5, <2>6 DEF WritersStay
  <2> QED
    BY <1>2, <2>3, <2>5, <2>7 DEF ContentStep, StayStep, Stay, markDirty
<1>3. CASE unpinPage(c)
  <2>1. ~handle[c].unmarked /\ \A d \in Clients \ {c} : handle'[d] = handle[d]
    BY <1>3 DEF unpinPage, TypeOK
  <2>2. WritersStay
    BY <2>1 DEF WritersStay
  <2> QED
    BY <1>3, <2>2 DEF ContentStep, StayStep, Stay, unpinPage
<1>4. CASE forcePage(c)
  <2>1. WritersStay
    BY <1>4, SameHandles DEF forcePage
  <2>2. CASE UNCHANGED <<disk, dirtybit>>
    BY <1>4, <2>1, <2>2 DEF ContentStep, StayStep, Stay, forcePage
  <2>3. ASSUME NEW i \in Frames, HeldAt(c, i), handle[c].pageNum # NoPage,
               disk' = Written(i), dirtybit' = [dirtybit EXCEPT ![i] = FALSE]
        PROVE  ContentStep
    <3>1. Save(i)
      BY <1>4, <2>3 DEF Save, forcePage, HeldAt
    <3> QED
      BY <2>1, <3>1 DEF ContentStep, SaveStep
  <2> QED
    BY <1>4, <2>2, <2>3 DEF forcePage
<1> QED
  BY <1>1, <1>2, <1>3, <1>4

LEMMA FlushShape ==
  ASSUME StoreInv, FlushFrame
  PROVE  ContentStep
<1> USE DEF StoreInv, IInv
<1>1. WritersStay
  BY SameHandles DEF FlushFrame
<1>2. CASE Flushable(call.index)
  <2>1. call.index \in Frames
    BY Constants DEF FlushFrame, TypeOK, Call, Frames
  <2>2. pagenum[call.index] # NoPage
    BY <1>2, <2>1 DEF Flushable, ContentInv, FramesNearFile
  <2>3. /\ disk' = Written(call.index)
        /\ dirtybit' = [dirtybit EXCEPT ![call.index] = FALSE]
        /\ UNCHANGED <<mgmtData, pagedata, pagenum>>
    BY <1>2 DEF FlushFrame
  <2>4. Save(call.index)
    BY <2>2, <2>3 DEF Save
  <2> QED
    BY <1>1, <2>1, <2>4 DEF ContentStep, SaveStep
<1>3. CASE ~Flushable(call.index)
  BY <1>1, <1>3 DEF FlushFrame, ContentStep, StayStep, Stay
<1> QED
  BY <1>2, <1>3

LEMMA StepShape ==
  ASSUME StoreInv, Dense, Roomy, [Next]_vars
  PROVE  ContentStep
<1>1. ASSUME NEW n \in {0, NumPages}, NEW s \in Strategies, initBufferPool(n, s)
      PROVE  ContentStep
  <2>1. CASE UNCHANGED <<mgmtData, frames>>
    BY <1>1, <2>1, SameHandles
       DEF initBufferPool, ContentStep, StayStep, Stay, frames
  <2>2. CASE mgmtData' = TRUE /\ EmptyPool
    BY <1>1, <2>2 DEF initBufferPool, ContentStep, OpenStep
  <2> QED
    BY <1>1, <2>1, <2>2 DEF initBufferPool
<1>2. CASE UNCHANGED <<disk, mgmtData, frames, handle>>
  BY <1>2, SameHandles DEF ContentStep, StayStep, Stay, frames
<1>3. CASE ShutdownDone \/ Crash
  BY <1>3 DEF ShutdownDone, Crash, ContentStep, CloseStep, StoreInv, IInv, CallShape
<1> QED
  BY <1>1, <1>2, <1>3, PinShape, EvictShape, UseShape, FlushShape
     DEF Next, Continue, forceFlushPool, shutdownBufferPool, StartLoop, FifoSkip,
         FlushDone, NotInitialized, vars

-----------------------------------------------------------------------------
LEMMA ContentShapes ==
  ASSUME StoreInv, ContentStep
  PROVE  /\ FramesNearFile' /\ CleanMatchesDisk' /\ ClosedIsEmpty'
         /\ Len(disk') \in Nat /\ Len(disk') >= Len(disk)
<1> USE DEF StoreInv, IInv, ContentInv
<1>0. Len(disk) \in Nat
  BY DEF TypeOK
<1>1. CASE SaveStep
  <2>1. PICK i \in Frames : Save(i)
    BY <1>1 DEF SaveStep
  <2>2. WritersStay
    BY <1>1 DEF SaveStep
  <2>3. ClosedIsEmpty'
    BY <2>1 DEF Save, ClosedIsEmpty
  <2> QED
    BY <2>1, <2>2, <2>3, SaveContent
<1>2. CASE LoadStep
  <2>1. PICK i \in Frames, p \in Pages : MayLoad(i, p) /\ Load(i, p)
    BY <1>2 DEF LoadStep
  <2>2. WritersStay
    BY <1>2 DEF LoadStep
  <2>3. ClosedIsEmpty'
    BY <2>1 DEF MayLoad, Load, ClosedIsEmpty
  <2> QED
    BY <2>1, <2>2, <2>3, LoadContent
<1>3. CASE FillStep
  <2>1. PICK c \in Clients, data \in Data :
          /\ handle[c].pinned
          /\ \A d \in Clients \ {c} : handle'[d] = handle[d]
          /\ Fill(c, data)
    BY <1>3 DEF FillStep
  <2>2. UNCHANGED <<disk, mgmtData, pagenum>>
    BY <2>1 DEF Fill
  <2>3. ClosedIsEmpty'
    BY <2>2 DEF ClosedIsEmpty
  <2>4. FramesNearFile' /\ CleanMatchesDisk'
    BY <2>1, FillContent DEF PoolInv
  <2> QED
    BY <1>0, <2>2, <2>3, <2>4
<1>4. CASE StayStep
  BY <1>0, <1>4, StayContent DEF StayStep, Stay, ClosedIsEmpty
<1>5. CASE OpenStep \/ CloseStep
  BY <1>0, <1>5, EmptyContent DEF OpenStep, CloseStep
<1> QED
  BY <1>1, <1>2, <1>3, <1>4, <1>5 DEF ContentStep

LEMMA WritersStep ==
  ASSUME StoreInv, [Next]_vars
  PROVE  WritersPinned'
<1> USE DEF StoreInv, IInv, ContentInv, TypeOK
<1>0. handle \in [Clients -> PageHandle] /\ WritersPinned
  OBVIOUS
<1>1. CASE \A d \in Clients : handle'[d] = handle[d]
  BY <1>1 DEF WritersPinned
<1>2. ASSUME NEW c \in Clients, NEW p \in Pages, NEW i,
             \/ handle' = [Orphan(i) EXCEPT ![c] = Pinned(p, i)]
             \/ handle' = [handle EXCEPT ![c] = Pinned(p, i)]
      PROVE  WritersPinned'
  <2> SUFFICES ASSUME NEW d \in Clients, handle'[d].unmarked
               PROVE  handle'[d].pinned
    BY DEF WritersPinned
  <2>1. CASE d = c
    BY <1>2, <2>1 DEF Orphan, Pinned
  <2>2. CASE d # c
    <3>1. handle'[d] \in {handle[d], [handle[d] EXCEPT !.data = NoFrame]}
      BY <1>2, <2>2 DEF Orphan
    <3>2. handle[d] \in PageHandle
      BY <1>0
    <3> QED
      BY <1>0, <3>1, <3>2 DEF WritersPinned, PageHandle
  <2> QED
    BY <2>1, <2>2
<1>3. ASSUME NEW c \in Clients, NEW p \in Pages,
             PinEmpty(c, p) \/ PinHit(c, p) \/ PinMissLru(c, p)
      PROVE  WritersPinned'
  BY <1>2, <1>3 DEF PinEmpty, PinHit, PinMissLru, Replace
<1>4. CASE FifoEvict
  BY <1>2, <1>4 DEF FifoEvict, Replace, CallShape
<1>5. ASSUME NEW c \in Clients, NEW p \in Pages, PinMissOther(c, p)
      PROVE  WritersPinned'
  BY <1>5 DEF PinMissOther, WritersPinned, PageHandle
<1>6. ASSUME NEW c \in Clients,
             \/ \E data \in Data : WritePage(c, data)
             \/ markDirty(c) \/ unpinPage(c)
      PROVE  WritersPinned'
  BY <1>6 DEF WritePage, markDirty, unpinPage, WritersPinned, PageHandle
<1>7. CASE ShutdownDone \/ Crash
  BY <1>7 DEF ShutdownDone, Crash, WritersPinned, Idle
<1> QED
  BY <1>1, <1>3, <1>4, <1>5, <1>6, <1>7
     DEF Next, Continue, initBufferPool, PinMissFifo, forcePage, forceFlushPool,
         shutdownBufferPool, StartLoop, FifoSkip, FlushFrame, FlushDone,
         NotInitialized, vars

LEMMA CallContentStep ==
  ASSUME StoreInv, Dense, [Next]_vars
  PROVE  CallContent'
<1> USE DEF StoreInv, IInv, ContentInv
<1>1. CASE call' = NoCall
  BY <1>1 DEF CallContent, Flushing, NoCall
<1>2. CASE UNCHANGED call /\ Quiet
  BY <1>2 DEF CallContent, Flushing, Quiet
<1>3. ASSUME NEW c \in Clients, NEW p \in Pages, PinMissFifo(c, p)
      PROVE  CallContent'
  <2>1. disk' = disk /\ p <= Len(disk) /\ MissData(p) = OnDisk(p)
    BY <1>3, DensePin DEF PinMissFifo, Miss
  <2> QED
    BY <1>3, <2>1 DEF PinMissFifo, CallContent, Flushing, OnDisk
<1>4. CASE FifoSkip
  BY <1>4 DEF FifoSkip, CallContent, Flushing, OnDisk, TypeOK, Call
<1>5. CASE UNCHANGED vars
  BY <1>5 DEF vars, frames, CallContent, Flushing, OnDisk
<1>6. ASSUME NEW op \in {"flush", "shutdown"}, StartLoop(op)
      PROVE  CallContent'
  BY <1>6, Constants DEF StartLoop, NoCall, CallContent, Flushing, Frames
<1>7. CASE FlushFrame
  <2>1. /\ call.op \in {"flush", "shutdown"} /\ call.index \in Frames
        /\ call' = [call EXCEPT !.index = @ + 1]
        /\ UNCHANGED fixedcount
    BY <1>7, Constants DEF FlushFrame, Flushing, TypeOK, Call, Frames
  <2>2. call'.op = call.op /\ call'.index = call.index + 1
    BY <2>1 DEF TypeOK, Call
  <2> SUFFICES ASSUME NEW i \in Frames, i < call.index + 1, fixedcount[i] = 0
               PROVE  ~dirtybit'[i]
    BY <2>1, <2>2 DEF CallContent
  <2>3. CASE Flushable(call.index)
    <3>1. dirtybit' = [dirtybit EXCEPT ![call.index] = FALSE]
      BY <1>7, <2>3 DEF FlushFrame
    <3>2. CASE i = call.index
      BY <2>1, <3>1, <3>2 DEF TypeOK
    <3>3. CASE i # call.index
      <4>1. i < call.index
        BY <2>1, <3>3, Constants
      <4> QED
        BY <1>7, <2>1, <3>1, <3>3, <4>1 DEF FlushFrame, CallContent, TypeOK
    <3> QED
      BY <3>2, <3>3
  <2>4. CASE ~Flushable(call.index)
    <3>1. dirtybit' = dirtybit
      BY <1>7, <2>4 DEF FlushFrame
    <3>2. CASE i = call.index
      BY <2>4, <3>1, <3>2 DEF Flushable
    <3>3. CASE i # call.index
      <4>1. i < call.index
        BY <2>1, <3>3, Constants
      <4> QED
        BY <1>7, <3>1, <4>1 DEF FlushFrame, CallContent
    <3> QED
      BY <3>2, <3>3
  <2> QED
    BY <2>3, <2>4
<1> QED
  BY <1>1, <1>2, <1>3, <1>4, <1>5, <1>6, <1>7
     DEF Next, Continue, initBufferPool, PinEmpty, PinHit, PinMissLru,
         PinMissOther, WritePage, markDirty, unpinPage, forcePage,
         forceFlushPool, shutdownBufferPool, FifoEvict, FlushDone,
         ShutdownDone, NotInitialized, Crash, Ready, Miss, MayPin

LEMMA StoreInvariance ==
  ASSUME Dense, Roomy
  PROVE  Spec => []StoreInv
<1>1. Init => StoreInv
  <2> SUFFICES ASSUME Init PROVE StoreInv
    OBVIOUS
  <2>1. IInv
    BY InitInv
  <2>2. Len(disk) \in Nat
    BY <2>1 DEF IInv, TypeOK
  <2>3. FramesNearFile /\ ClosedIsEmpty /\ CleanMatchesDisk
    <3>1. \A i \in Frames : pagenum[i] = NoPage /\ ~dirtybit[i]
      BY DEF Init
    <3> QED
      BY <2>2, <3>1 DEF FramesNearFile, ClosedIsEmpty, CleanMatchesDisk, NoPage
  <2>4. WritersPinned /\ CallContent
    BY DEF Init, WritersPinned, Idle, CallContent, Flushing, NoCall
  <2> QED
    BY <2>1, <2>3, <2>4 DEF StoreInv, ContentInv
<1>2. StoreInv /\ [Next]_vars => StoreInv'
  <2> SUFFICES ASSUME StoreInv, [Next]_vars PROVE StoreInv'
    OBVIOUS
  <2>1. IInv'
    BY InvStep DEF StoreInv
  <2>2. FramesNearFile' /\ CleanMatchesDisk' /\ ClosedIsEmpty'
    BY StepShape, ContentShapes
  <2> QED
    BY <2>1, <2>2, WritersStep, CallContentStep DEF StoreInv, ContentInv
<1> QED
  BY <1>1, <1>2, PTL DEF Spec

-----------------------------------------------------------------------------
(***************************************************************************)
(* Writing is bracketed by the dirty bit: a frame without it may be        *)
(* dropped, which is what every strategy does with such a victim.          *)
(***************************************************************************)
THEOREM CleanIsStored ==
  ASSUME Dense, Roomy
  PROVE  Spec => []CleanMatchesDisk
<1>1. StoreInv => CleanMatchesDisk
  BY DEF StoreInv, ContentInv
<1> QED
  BY <1>1, StoreInvariance, PTL

(***************************************************************************)
(* A flush brings every dirty page that nobody has pinned into the file:   *)
(* no page of a frame is so far behind the end that writeBlock refuses it. *)
(***************************************************************************)
THEOREM FlushStores ==
  ASSUME Dense, Roomy
  PROVE  Spec => FlushStoresDirtyPages
<1>1. StoreInv =>
        (FlushFrame /\ Flushable(call.index) =>
           StoredNext(pagenum[call.index], pagedata[call.index]))
  <2> SUFFICES ASSUME StoreInv, FlushFrame, Flushable(call.index)
               PROVE  StoredNext(pagenum[call.index], pagedata[call.index])
    OBVIOUS
  <2>1. TypeOK /\ FramesNearFile
    BY DEF StoreInv, IInv, ContentInv
  <2>2. call.index \in Frames
    BY <2>1, Constants DEF FlushFrame, TypeOK, Call, Frames
  <2>3. pagenum[call.index] # NoPage
    BY <2>1, <2>2 DEF Flushable, FramesNearFile
  <2>4. disk' = Written(call.index)
    BY DEF FlushFrame
  <2> QED
    BY <2>1, <2>2, <2>3, <2>4, FrameTypes, WriteChangesOne DEF Written
<1> QED
  BY <1>1, StoreInvariance, PTL DEF FlushStoresDirtyPages

(***************************************************************************)
(* A shutdown that reports no error has lost no write: by then the flush   *)
(* has passed every frame, no frame is pinned, and what is not dirty is in *)
(* the file.                                                               *)
(***************************************************************************)
THEOREM ShutdownStores ==
  ASSUME Dense, Roomy
  PROVE  Spec => ShutdownKeepsWrites
<1>1. StoreInv =>
        (ShutdownDone /\ last'.rc = "RC_OK" =>
           \A i \in Frames :
             pagenum[i] # NoPage => pagedata[i] = OnDisk(pagenum[i]))
  <2> SUFFICES ASSUME StoreInv, ShutdownDone, last'.rc = "RC_OK",
                      NEW i \in Frames, pagenum[i] # NoPage
               PROVE  pagedata[i] = OnDisk(pagenum[i])
    OBVIOUS
  <2>1. fixedcount[i] = 0
    BY DEF ShutdownDone, Return
  <2>2. ~dirtybit[i]
    BY <2>1, Constants
       DEF ShutdownDone, StoreInv, ContentInv, CallContent, Flushing, Frames
  <2>3. UsersOf(i) = {}
    BY <2>1, UsersFinite, FS_EmptySet DEF StoreInv, IInv, FixCountsPins
  <2> QED
    BY <2>2, <2>3 DEF StoreInv, ContentInv, CleanMatchesDisk
<1> QED
  BY <1>1, StoreInvariance, PTL DEF ShutdownKeepsWrites

-----------------------------------------------------------------------------
(***************************************************************************)
(* The refinement.  What a client sees of a page is the one frame that     *)
(* holds it, or the file when there is none.                               *)
(***************************************************************************)
LEMMA SeenPages ==
  ASSUME OneFramePerPage, NEW p \in Pages
  PROVE  /\ \A i \in Frames : pagenum[i] = p => volatile[p] = pagedata[i]
         /\ (\A i \in Frames : pagenum[i] # p) => volatile[p] = OnDisk(p)
<1>1. ASSUME NEW i \in Frames, pagenum[i] = p PROVE volatile[p] = pagedata[i]
  <2>1. (CHOOSE j \in Frames : pagenum[j] = p) = i
    BY <1>1, OneFrame, Constants
  <2>2. SeenIn(p) # {}
    BY <1>1 DEF SeenIn
  <2> QED
    BY <2>1, <2>2 DEF volatile
<1> QED
  BY <1>1 DEF volatile, SeenIn

LEMMA SeenPagesNext ==
  ASSUME OneFramePerPage', NEW p \in Pages
  PROVE  /\ \A i \in Frames : pagenum'[i] = p => volatile'[p] = pagedata'[i]
         /\ (\A i \in Frames : pagenum'[i] # p) => volatile'[p] = OnDiskNext(p)
<1>1. ASSUME NEW i \in Frames, pagenum'[i] = p PROVE volatile'[p] = pagedata'[i]
  <2>1. (CHOOSE j \in Frames : pagenum'[j] = p) = i
    BY <1>1, Constants DEF OneFramePerPage
  <2>2. SeenIn(p)' # {}
    BY <1>1 DEF SeenIn
  <2> QED
    BY <2>1, <2>2 DEF volatile
<1> QED
  BY <1>1 DEF volatile, SeenIn, OnDisk, OnDiskNext

\* Both views are functions on the pages, so they are compared page by page.
LEMMA Views ==
  /\ volatile = [p \in Pages |-> volatile[p]]
  /\ volatile' = [p \in Pages |-> volatile'[p]]
  /\ durable = [p \in Pages |-> OnDisk(p)]
  /\ durable' = [p \in Pages |-> OnDiskNext(p)]
BY DEF volatile, durable, OnDisk, OnDiskNext

LEMMA SaveRefines ==
  ASSUME StoreInv, OneFramePerPage', SaveStep
  PROVE  [Abstract!Next]_(Abstract!storeVars)
<1> USE DEF StoreInv, IInv, ContentInv
<1>1. PICK i \in Frames : Save(i)
  BY DEF SaveStep
<1>2. /\ pagenum[i] \in Pages /\ mgmtData /\ mgmtData' = mgmtData
      /\ UNCHANGED <<pagedata, pagenum>>
  BY <1>1, FrameTypes DEF Save, ClosedIsEmpty
<1>3. \A p \in Nat \ {pagenum[i]} : OnDiskNext(p) = OnDisk(p)
  BY <1>1, SaveContent DEF SaveStep
<1>4. volatile[pagenum[i]] = pagedata[i]
  BY <1>2, SeenPages
<1>5. volatile' = volatile
  <2>1. ASSUME NEW p \in Pages PROVE volatile'[p] = volatile[p]
    <3>1. CASE \E j \in Frames : pagenum[j] = p
      <4>1. PICK j \in Frames : pagenum[j] = p
        BY <3>1
      <4> QED
        BY <1>2, <4>1, SeenPages, SeenPagesNext
    <3>2. CASE \A j \in Frames : pagenum[j] # p
      <4>1. OnDiskNext(p) = OnDisk(p)
        BY <1>3, <3>2, Constants
      <4> QED
        BY <1>2, <3>2, <4>1, SeenPages, SeenPagesNext
    <3> QED
      BY <3>1, <3>2
  <2> QED
    BY <2>1, Views
<1>6. CASE OnDiskNext(pagenum[i]) = pagedata[i]
  <2>1. durable' = [durable EXCEPT ![pagenum[i]] = volatile[pagenum[i]]]
    BY <1>2, <1>3, <1>4, <1>6, Views, Constants
  <2> QED
    BY <1>2, <1>5, <2>1 DEF Abstract!Next, Abstract!WriteBack
<1>7. CASE OnDiskNext(pagenum[i]) = OnDisk(pagenum[i])
  <2>1. durable' = durable
    BY <1>3, <1>7, Views, Constants
  <2> QED
    BY <1>2, <1>5, <2>1 DEF Abstract!storeVars
<1> QED
  BY <1>1, <1>6, <1>7, SaveContent DEF SaveStep

LEMMA LoadRefines ==
  ASSUME StoreInv, OneFramePerPage', LoadStep
  PROVE  [Abstract!Next]_(Abstract!storeVars)
<1> USE DEF StoreInv, IInv, ContentInv
<1>1. PICK i \in Frames, n \in Pages : MayLoad(i, n) /\ Load(i, n)
  BY DEF LoadStep
<1>2. /\ mgmtData /\ mgmtData' = mgmtData
      /\ pagenum'[i] = n /\ pagedata'[i] = OnDisk(n)
      /\ \A j \in Frames : pagenum[j] # n
      /\ \A j \in Frames \ {i} : pagenum'[j] = pagenum[j] /\ pagedata'[j] = pagedata[j]
  BY <1>1 DEF MayLoad, Load, TypeOK
<1>3. /\ pagenum[i] # NoPage => OnDiskNext(pagenum[i]) = pagedata[i]
      /\ \A p \in Nat \ {pagenum[i]} : OnDiskNext(p) = OnDisk(p)
  BY <1>1, LoadContent DEF LoadStep
<1>4. volatile' = volatile
  <2>1. ASSUME NEW p \in Pages PROVE volatile'[p] = volatile[p]
    <3>1. CASE p = n
      <4>1. volatile[p] = OnDisk(n)
        BY <1>2, <3>1, SeenPages
      <4> QED
        BY <1>2, <3>1, <4>1, SeenPagesNext
    <3>2. CASE p = pagenum[i]
      <4>1. \A j \in Frames : pagenum'[j] # p
        BY <1>2, <3>2, OneFrame, Constants
      <4>2. volatile[p] = pagedata[i]
        BY <3>2, SeenPages
      <4>3. OnDiskNext(p) = pagedata[i]
        BY <1>3, <3>2, Constants
      <4> QED
        BY <4>1, <4>2, <4>3, SeenPagesNext
    <3>3. CASE p # n /\ \E j \in Frames \ {i} : pagenum[j] = p
      <4>1. PICK j \in Frames \ {i} : pagenum[j] = p
        BY <3>3
      <4> QED
        BY <1>2, <4>1, SeenPages, SeenPagesNext
    <3>4. CASE p # n /\ \A j \in Frames : pagenum[j] # p
      <4>1. OnDiskNext(p) = OnDisk(p)
        BY <1>3, <3>4, Constants
      <4>2. \A j \in Frames : pagenum'[j] # p
        BY <1>2, <3>4
      <4> QED
        BY <3>4, <4>1, <4>2, SeenPages, SeenPagesNext
    <3> QED
      BY <3>1, <3>2, <3>3, <3>4
  <2> QED
    BY <2>1, Views
<1>5. CASE pagenum[i] # NoPage
  <2>1. pagenum[i] \in Pages
    BY <1>5 DEF TypeOK
  <2>2. volatile[pagenum[i]] = pagedata[i]
    BY <2>1, SeenPages
  <2>3. durable' = [durable EXCEPT ![pagenum[i]] = volatile[pagenum[i]]]
    BY <1>3, <1>5, <2>1, <2>2, Views, Constants
  <2> QED
    BY <1>2, <1>4, <2>1, <2>3 DEF Abstract!Next, Abstract!WriteBack
<1>6. CASE pagenum[i] = NoPage
  <2>1. durable' = durable
    BY <1>3, <1>6, Views, Constants
  <2> QED
    BY <1>2, <1>4, <2>1 DEF Abstract!storeVars
<1> QED
  BY <1>5, <1>6

LEMMA FillRefines ==
  ASSUME StoreInv, OneFramePerPage', FillStep
  PROVE  Abstract!Next
<1> USE DEF StoreInv, IInv, ContentInv
<1>1. PICK c \in Clients, data \in Data :
        handle[c].pinned /\ Fill(c, data)
  BY DEF FillStep
<1> DEFINE i == handle[c].data
           p == handle[c].pageNum
<1>2. i \in Frames /\ pagenum[i] = p /\ p \in Pages /\ mgmtData
  BY <1>1 DEF PinnedPageResident, HandleShape
<1>3. /\ pagedata' = [pagedata EXCEPT ![i] = data]
      /\ UNCHANGED <<disk, mgmtData, pagenum>>
  BY <1>1 DEF Fill
<1> HIDE DEF i, p
<1>4. \A q \in Pages : OnDiskNext(q) = OnDisk(q)
  BY <1>3 DEF OnDisk, OnDiskNext
<1>5. pagedata'[i] = data /\ \A j \in Frames \ {i} : pagedata'[j] = pagedata[j]
  BY <1>2, <1>3 DEF TypeOK
<1>6. volatile' = [volatile EXCEPT ![p] = data]
  <2>1. volatile'[p] = data
    BY <1>2, <1>3, <1>5, SeenPagesNext
  <2>2. ASSUME NEW q \in Pages \ {p} PROVE volatile'[q] = volatile[q]
    <3>1. CASE \E j \in Frames : pagenum[j] = q
      <4>1. PICK j \in Frames : pagenum[j] = q
        BY <3>1
      <4>2. j # i
        BY <1>2, <4>1
      <4> QED
        BY <1>3, <1>5, <4>1, <4>2, SeenPages, SeenPagesNext
    <3>2. CASE \A j \in Frames : pagenum[j] # q
      BY <1>3, <1>4, <3>2, SeenPages, SeenPagesNext
    <3> QED
      BY <3>1, <3>2
  <2> QED
    BY <1>2, <2>1, <2>2, Views
<1>7. durable' = durable
  BY <1>4, Views
<1> QED
  BY <1>2, <1>3, <1>6, <1>7 DEF Abstract!Next, Abstract!Write

LEMMA StepRefines ==
  ASSUME StoreInv, OneFramePerPage', ContentStep
  PROVE  [Abstract!Next]_(Abstract!storeVars)
<1>1. ASSUME EmptyPool, UNCHANGED disk PROVE volatile' = durable /\ durable' = durable
  <2>1. \A p \in Pages : OnDiskNext(p) = OnDisk(p)
    BY <1>1 DEF OnDisk, OnDiskNext
  <2>2. \A p \in Pages, i \in Frames : pagenum'[i] # p
    BY <1>1, Constants DEF EmptyPool
  <2> QED
    BY <2>1, <2>2, SeenPagesNext, Views
<1>2. CASE StayStep
  <2>1. UNCHANGED <<disk, mgmtData, pagedata, pagenum>>
    BY <1>2 DEF StayStep, Stay
  <2> QED
    BY <2>1 DEF Abstract!storeVars, volatile, durable, SeenIn, OnDisk
<1>3. CASE OpenStep
  <2>1. ~mgmtData /\ mgmtData' = TRUE /\ volatile' = durable /\ durable' = durable
    BY <1>1, <1>3 DEF OpenStep
  <2>2. \A i \in Frames : pagenum[i] = NoPage
    BY <2>1 DEF StoreInv, ContentInv, ClosedIsEmpty
  <2>3. \A p \in Pages, i \in Frames : pagenum[i] # p
    BY <2>2, Constants
  <2>4. volatile = durable
    BY <2>3, SeenPages, Views DEF StoreInv, IInv
  <2> QED
    BY <2>1, <2>4 DEF Abstract!Next, Abstract!Open
<1>4. CASE CloseStep
  BY <1>1, <1>4 DEF CloseStep, Abstract!Next, Abstract!Lose
<1> QED
  BY <1>2, <1>3, <1>4, SaveRefines, LoadRefines, FillRefines DEF ContentStep

(***************************************************************************)
(* The pool implements the store: whatever the strategy evicts and the     *)
(* loops of flush and shutdown write, a client that pins a page finds what *)
(* was last written to it, and only the end of the pool loses writes.      *)
(***************************************************************************)
THEOREM PoolIsStore ==
  ASSUME Dense, Roomy
  PROVE  Spec => ImplementsStore
<1>1. Init => Abstract!Init
  <2> SUFFICES ASSUME Init PROVE Abstract!Init
    OBVIOUS
  <2>1. OneFramePerPage /\ ~mgmtData
    BY InitInv DEF IInv, Init
  <2>2. \A p \in Pages, i \in Frames : pagenum[i] # p
    BY Constants DEF Init
  <2>3. volatile = durable
    BY <2>1, <2>2, SeenPages, Views
  <2> QED
    BY <2>1, <2>3 DEF Abstract!Init
<1>2. StoreInv /\ StoreInv' /\ [Next]_vars => [Abstract!Next]_(Abstract!storeVars)
  BY StepShape, StepRefines DEF StoreInv, IInv
<1> QED
  BY <1>1, <1>2, StoreInvariance, PTL DEF Spec, ImplementsStore, Abstract!Spec
=============================================================================
