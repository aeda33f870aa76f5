-------------------------- MODULE StorageMgrProofs --------------------------
(***************************************************************************)
(* Proofs about PageFile and StorageMgr, for any handles, names, inodes    *)
(* and bounds.                                                             *)
(***************************************************************************)
EXTENDS StorageMgr, FiniteSetTheorems, TLAPS

\* How long the file is after each of the operators of PageFile.
LEMMA Lengths ==
  ASSUME NEW S, Zero \in S, NEW file \in Seq(S), NEW total \in Nat
  PROVE  /\ \A n \in Nat : /\ Resize(file, n) \in Seq(S)
                           /\ Len(Resize(file, n)) = n
         /\ AppendEmptyBlock(file, total) \in Seq(S)
         /\ Len(AppendEmptyBlock(file, total)) = total + 2
         /\ \A n \in Nat : n > total =>
              /\ EnsureCapacity(file, total, n) \in Seq(S)
              /\ Len(EnsureCapacity(file, total, n)) = n + 1
<1>1. ASSUME NEW f \in Seq(S), NEW n \in Nat
      PROVE  Resize(f, n) \in Seq(S) /\ Len(Resize(f, n)) = n
  BY <1>1 DEF Resize
<1>2. total + 1 \in Nat
  OBVIOUS
<1>3. /\ AppendEmptyBlock(file, total) \in Seq(S)
      /\ Len(AppendEmptyBlock(file, total)) = total + 2
  BY <1>1, <1>2 DEF AppendEmptyBlock
<1>4. ASSUME NEW n \in Nat, n > total
      PROVE  /\ EnsureCapacity(file, total, n) \in Seq(S)
             /\ Len(EnsureCapacity(file, total, n)) = n + 1
  <2>1. Resize(file, total + 1) \in Seq(S) /\ n + 1 \in Nat
    BY <1>1, <1>2
  <2>2. EnsureCapacity(file, total, n) = Resize(Resize(file, total + 1), n + 1)
    BY <1>4 DEF EnsureCapacity
  <2> QED
    BY <1>1, <2>1, <2>2
<1> QED
  BY <1>1, <1>3, <1>4

(***************************************************************************)
(* EnsureCapacity is the loop of ensureCapacity: nothing happens when the  *)
(* handle counts n pages already, and otherwise it is one appendEmptyBlock *)
(* followed by the loop from the count that leaves.                        *)
(***************************************************************************)
THEOREM EnsureCapacityIsLoop ==
  ASSUME NEW S, Zero \in S, NEW file \in Seq(S), NEW total \in Nat, NEW n \in Nat
  PROVE  /\ total >= n => EnsureCapacity(file, total, n) = file
         /\ total < n =>
              EnsureCapacity(file, total, n) =
                EnsureCapacity(AppendEmptyBlock(file, total), total + 1, n)
<1>1. ASSUME total >= n PROVE EnsureCapacity(file, total, n) = file
  BY <1>1 DEF EnsureCapacity
<1>2. ASSUME total < n
      PROVE  EnsureCapacity(file, total, n) =
               EnsureCapacity(AppendEmptyBlock(file, total), total + 1, n)
  <2> DEFINE cut == Resize(file, total + 1)
             longer == Append(cut, Zero)
  <2>1. cut \in Seq(S) /\ Len(cut) = total + 1
    BY DEF Resize
  <2>2. longer \in Seq(S) /\ Len(longer) = total + 2
    BY <2>1
  <2>3. \A i \in 1..(total + 2) :
          longer[i] = IF i <= total + 1 THEN cut[i] ELSE Zero
    BY <2>1
  <2> HIDE DEF cut, longer
  <2>4. CASE n = total + 1
    <3>1. Resize(cut, n + 1) = longer
      BY <2>1, <2>2, <2>3, <2>4 DEF Resize
    <3>2. EnsureCapacity(longer, total + 1, n) = longer
      BY <2>4 DEF EnsureCapacity
    <3>3. EnsureCapacity(file, total, n) = Resize(cut, n + 1)
      BY <1>2 DEF EnsureCapacity, cut
    <3> QED
      BY <3>1, <3>2, <3>3 DEF AppendEmptyBlock, cut, longer
  <2>5. CASE n > total + 1
    <3>1. Resize(longer, total + 2) = longer
      BY <2>2 DEF Resize
    <3>2. Resize(cut, n + 1) = Resize(longer, n + 1)
      BY <2>1, <2>2, <2>3, <2>5 DEF Resize
    <3>3. EnsureCapacity(longer, total + 1, n) = Resize(Resize(longer, total + 2), n + 1)
      BY <2>5 DEF EnsureCapacity
    <3>4. EnsureCapacity(file, total, n) = Resize(cut, n + 1)
      BY <1>2 DEF EnsureCapacity, cut
    <3> QED
      BY <3>1, <3>2, <3>3, <3>4 DEF AppendEmptyBlock, cut, longer
  <2> QED
    BY <1>2, <2>4, <2>5
<1> QED
  BY <1>1, <1>2

-----------------------------------------------------------------------------
(***************************************************************************)
(* One handle at a time on a file.  The count of an open handle tracks the *)
(* file because nobody else changes the file (OneHandlePerFile, and no two *)
(* names for one inode), because appendEmptyBlock, which goes by name,     *)
(* changes the file the handle has open (NameReachesStream), and because   *)
(* the current position is never behind the count or outside of the file   *)
(* (writeCurrentBlock compares it with neither).                           *)
(***************************************************************************)
Types ==
  /\ dir \in [FileNames -> Inodes \cup {NULL}]
  /\ disk \in [Inodes -> Seq(Content)]
  /\ handle \in [Handles -> Handle]

OneHandlePerFile ==
  \A g, h \in Handles :
    Open(g) /\ Open(h) /\ handle[g].fileName = handle[h].fileName => g = h

OneNamePerInode ==
  \A f, g \in FileNames : dir[f] # NULL /\ dir[f] = dir[g] => f = g

HandleInv(h) ==
  /\ handle[h].fileName \in FileNames
  /\ handle[h].mgmtInfo \in Inodes
  /\ dir[handle[h].fileName] = handle[h].mgmtInfo
  /\ handle[h].totalNumPages <= Len(File(h))
  /\ Len(File(h)) <= handle[h].totalNumPages + 1
  /\ handle[h].curPagePos <= handle[h].totalNumPages
  /\ File(h) # <<>> => handle[h].curPagePos < Len(File(h))

FileInv ==
  /\ Types
  /\ OneHandlePerFile
  /\ OneNamePerInode
  /\ \A h \in Handles : Open(h) => HandleInv(h)

\* A step that leaves the files alone and at most moves a handle or closes it.
Moves ==
  /\ UNCHANGED <<dir, disk>>
  /\ handle' \in [Handles -> Handle]
  /\ \A h \in Handles : handle'[h].live =>
       /\ handle[h].live
       /\ handle'[h].fileName = handle[h].fileName
       /\ handle'[h].mgmtInfo = handle[h].mgmtInfo
       /\ handle'[h].totalNumPages = handle[h].totalNumPages
       /\ \/ handle'[h].curPagePos = handle[h].curPagePos
          \/ /\ handle'[h].curPagePos <= handle[h].totalNumPages
             /\ handle'[h].curPagePos < Len(File(h))

LEMMA MovesStep ==
  ASSUME FileInv, Moves
  PROVE  FileInv'
<1>1. Types'
  BY DEF FileInv, Types, Moves
<1>2. OneHandlePerFile' /\ OneNamePerInode'
  BY DEF FileInv, Moves, OneHandlePerFile, OneNamePerInode, Open
<1>3. ASSUME NEW h \in Handles, handle'[h].live PROVE HandleInv(h)'
  <2>1. HandleInv(h) /\ File(h)' = File(h)
    BY <1>3 DEF FileInv, Moves, Open, File
  <2> QED
    BY <1>3, <2>1 DEF Moves, HandleInv
<1> QED
  BY <1>1, <1>2, <1>3 DEF FileInv, Open

\* A step that changes the file an open handle has, through that handle.
Changes(h, file) ==
  /\ UNCHANGED dir
  /\ disk' = [disk EXCEPT ![handle[h].mgmtInfo] = file]
  /\ handle' \in [Handles -> Handle]
  /\ \A g \in Handles \ {h} : handle'[g] = handle[g]
  /\ handle'[h].live
  /\ handle'[h].fileName = handle[h].fileName
  /\ handle'[h].mgmtInfo = handle[h].mgmtInfo
  /\ handle'[h].totalNumPages <= Len(file)
  /\ Len(file) <= handle'[h].totalNumPages + 1
  /\ handle'[h].curPagePos <= handle'[h].totalNumPages
  /\ handle'[h].curPagePos < Len(file)

LEMMA ChangesStep ==
  ASSUME FileInv, NEW h \in Handles, Open(h), NEW file \in Seq(Content),
         Changes(h, file)
  PROVE  FileInv'
<1>0. HandleInv(h)
  BY DEF FileInv
<1>1. Types'
  BY <1>0 DEF FileInv, Types, Changes, HandleInv
<1>2. OneHandlePerFile' /\ OneNamePerInode'
  BY DEF FileInv, Changes, OneHandlePerFile, OneNamePerInode, Open
<1>3. HandleInv(h)'
  <2>1. File(h)' = file
    BY <1>0 DEF FileInv, Types, Changes, File, HandleInv
  <2> QED
    BY <1>0, <2>1 DEF Changes, HandleInv
<1>4. ASSUME NEW g \in Handles \ {h}, handle'[g].live PROVE HandleInv(g)'
  <2>1. HandleInv(g) /\ handle'[g] = handle[g] /\ Open(g)
    BY <1>4 DEF FileInv, Changes, Open
  <2>2. handle[g].mgmtInfo # handle[h].mgmtInfo
    <3>1. handle[g].fileName # handle[h].fileName
      BY <2>1 DEF FileInv, OneHandlePerFile
    <3> QED
      BY <1>0, <2>1, <3>1, NullAssumption DEF FileInv, OneNamePerInode, HandleInv
  <2>3. File(g)' = File(g)
    BY <2>1, <2>2 DEF FileInv, Types, Changes, File, HandleInv
  <2> QED
    BY <2>1, <2>3 DEF Changes, HandleInv
<1> QED
  BY <1>1, <1>2, <1>3, <1>4 DEF FileInv, Open

LEMMA StoreLength ==
  ASSUME NEW S, Zero \in S, NEW file \in Seq(S), NEW p \in Nat, NEW data \in S
  PROVE  /\ Store(file, p, data) \in Seq(S)
         /\ Len(Store(file, p, data)) = IF p < Len(file) THEN Len(file) ELSE p + 1
BY DEF Store

LEMMA CreateStep ==
  ASSUME FileInv, ~Shared, NEW f \in FileNames, createPageFile(f)
  PROVE  FileInv'
<1>1. Users(f) = {} /\ handle' = handle
  BY DEF createPageFile
<1>2. PICK i \in IF dir[f] = NULL THEN Unused ELSE {dir[f]} :
        /\ dir' = [dir EXCEPT ![f] = i]
        /\ disk' = [disk EXCEPT ![i] = <<Zero>>] \/ disk' = [disk EXCEPT ![i] = <<>>]
  BY DEF createPageFile
<1>3. i \in Inodes /\ \A g \in FileNames : g # f => dir[g] # i
  BY <1>2 DEF FileInv, Types, OneNamePerInode, Unused
<1>4. Types'
  <2>1. <<>> \in Seq(Content) /\ <<Zero>> \in Seq(Content)
    BY DEF Content
  <2>2. dir' \in [FileNames -> Inodes \cup {NULL}]
    BY <1>2, <1>3 DEF FileInv, Types
  <2>3. disk' \in [Inodes -> Seq(Content)]
    BY <1>2, <1>3, <2>1 DEF FileInv, Types
  <2> QED
    BY <1>1, <2>2, <2>3 DEF FileInv, Types
<1>5. OneHandlePerFile' /\ OneNamePerInode'
  BY <1>1, <1>2, <1>3 DEF FileInv, Types, OneHandlePerFile, OneNamePerInode, Open
<1>6. ASSUME NEW h \in Handles, Open(h) PROVE HandleInv(h)'
  <2>1. HandleInv(h) /\ handle[h].fileName # f
    BY <1>1, <1>6 DEF FileInv, Users
  <2>2. handle[h].mgmtInfo # i /\ dir'[handle[h].fileName] = handle[h].mgmtInfo
    BY <1>2, <1>3, <2>1 DEF HandleInv, FileInv, Types
  <2>3. File(h)' = File(h)
    BY <1>1, <1>2, <2>1, <2>2 DEF File, FileInv, Types, HandleInv
  <2> QED
    BY <1>1, <2>1, <2>2, <2>3 DEF HandleInv
<1> QED
  BY <1>1, <1>4, <1>5, <1>6 DEF FileInv, Open

LEMMA OpenStep ==
  ASSUME FileInv, ~Shared, NEW f \in FileNames, NEW h \in Handles, openPageFile(f, h)
  PROVE  FileInv'
<1>1. CASE UNCHANGED <<dir, disk, handle>>
  <2>1. Moves
    BY <1>1 DEF Moves, FileInv, Types
  <2> QED
    BY <2>1, MovesStep
<1>2. CASE /\ dir[f] # NULL
           /\ handle' = [handle EXCEPT ![h] =
                [fileName |-> f, totalNumPages |-> Len(disk[dir[f]]),
                 curPagePos |-> 0, mgmtInfo |-> dir[f], live |-> TRUE]]
           /\ UNCHANGED <<dir, disk>>
  <2>1. Users(f) = {} /\ ~Open(h)
    BY DEF openPageFile
  <2>2. dir[f] \in Inodes /\ Len(disk[dir[f]]) \in Nat
    BY <1>2 DEF FileInv, Types
  <2>3. /\ handle'[h] = [fileName |-> f, totalNumPages |-> Len(disk[dir[f]]),
                         curPagePos |-> 0, mgmtInfo |-> dir[f], live |-> TRUE]
        /\ \A g \in Handles \ {h} : handle'[g] = handle[g]
    BY <1>2 DEF FileInv, Types
  <2>4. Types'
    BY <1>2, <2>2 DEF FileInv, Types, Handle
  <2>5. OneNamePerInode'
    BY <1>2 DEF FileInv, OneNamePerInode
  <2>6. OneHandlePerFile'
    BY <2>1, <2>3 DEF FileInv, OneHandlePerFile, Users, Open
  <2>7. HandleInv(h)'
    BY <1>2, <2>2, <2>3 DEF HandleInv, File
  <2>8. ASSUME NEW g \in Handles \ {h}, Open(g) PROVE HandleInv(g)'
    BY <1>2, <2>3, <2>8 DEF FileInv, HandleInv, File
  <2> QED
    BY <2>3, <2>4, <2>5, <2>6, <2>7, <2>8 DEF FileInv, Open
<1> QED
  BY <1>1, <1>2 DEF openPageFile

LEMMA DestroyStep ==
  ASSUME FileInv, ~Shared, NEW f \in FileNames, destroyPageFile(f)
  PROVE  FileInv'
<1>1. /\ Users(f) = {}
      /\ dir' = [dir EXCEPT ![f] = NULL]
      /\ UNCHANGED <<disk, handle>>
  BY DEF destroyPageFile
<1>2. Types' /\ OneHandlePerFile' /\ OneNamePerInode'
  BY <1>1 DEF FileInv, Types, OneHandlePerFile, OneNamePerInode, Open
<1>3. ASSUME NEW h \in Handles, Open(h) PROVE HandleInv(h)'
  BY <1>1, <1>3 DEF FileInv, Types, HandleInv, Users, File
<1> QED
  BY <1>1, <1>2, <1>3 DEF FileInv, Open

LEMMA ReadStep ==
  ASSUME FileInv, NEW h \in Handles,
         \/ \E p \in PageNums : readBlock(p, h)
         \/ readFirstBlock(h) \/ readPreviousBlock(h) \/ readCurrentBlock(h)
         \/ readNextBlock(h) \/ readLastBlock(h) \/ closePageFile(h)
  PROVE  FileInv' /\ UNCHANGED <<dir, disk>>
<1>1. CASE UNCHANGED <<dir, disk, handle>>
  <2>1. Moves
    BY <1>1 DEF Moves, FileInv, Types
  <2> QED
    BY <1>1, <2>1, MovesStep
<1>2. ASSUME NEW p \in PageNums, Open(h), handle' = [handle EXCEPT ![h].curPagePos = p],
             UNCHANGED <<dir, disk>>, ReadRC(File(h), handle[h].totalNumPages, p) = "RC_OK"
      PROVE  FileInv'
  <2>1. p \in Nat /\ handle[h].totalNumPages \in Nat
    BY <1>2, BoundsAssumption DEF PageNums, FileInv, Types, Handle
  <2>2. p <= handle[h].totalNumPages /\ p < Len(File(h))
    BY <1>2, <2>1 DEF ReadRC
  <2>3. Moves
    BY <1>2, <2>1, <2>2 DEF Moves, FileInv, Types, Handle, Open
  <2> QED
    BY <2>3, MovesStep
<1>3. CASE handle' = [handle EXCEPT ![h].live = FALSE] /\ UNCHANGED <<dir, disk>>
  <2>1. Moves
    BY <1>3 DEF Moves, FileInv, Types, Handle
  <2> QED
    BY <1>3, <2>1, MovesStep
<1>4. CASE \E p \in PageNums : readBlock(p, h)
  BY <1>1, <1>2, <1>4 DEF readBlock, NotFound
<1>5. CASE closePageFile(h)
  BY <1>1, <1>3, <1>5 DEF closePageFile
<1>6. CASE \/ readFirstBlock(h) \/ readPreviousBlock(h) \/ readCurrentBlock(h)
           \/ readNextBlock(h) \/ readLastBlock(h)
  <2>1. UNCHANGED <<dir, disk, handle>>
    BY <1>6 DEF readFirstBlock, readPreviousBlock, readCurrentBlock, readNextBlock,
                readLastBlock, ReadWithoutMoving, NotFound
  <2> QED
    BY <1>1, <2>1
<1> QED
  BY <1>4, <1>5, <1>6

\* A call that changes no file and no handle.
LEMMA IdleStep ==
  ASSUME FileInv, UNCHANGED <<dir, disk, handle>>
  PROVE  FileInv'
<1>1. Moves
  BY DEF Moves, FileInv, Types
<1> QED
  BY <1>1, MovesStep

LEMMA WriteBlockStep ==
  ASSUME FileInv, NEW h \in Handles, NEW p \in PageNums, NEW data \in Data,
         writeBlock(p, h, data)
  PROVE  FileInv'
<1>1. CASE UNCHANGED <<dir, disk, handle>>
  BY <1>1, IdleStep
<1>2. CASE /\ Open(h)
           /\ WriteRC(handle[h].totalNumPages, p) = "RC_OK"
           /\ disk' = [disk EXCEPT ![handle[h].mgmtInfo] =
                         WriteBlock(@, handle[h].totalNumPages, p, data)]
           /\ handle' = [handle EXCEPT ![h].curPagePos = p]
           /\ UNCHANGED dir
  <2> DEFINE file == Store(File(h), p, data)
  <2>1. HandleInv(h) /\ p \in Nat /\ data \in Content
    BY <1>2, BoundsAssumption DEF FileInv, PageNums, Content
  <2>2. /\ File(h) \in Seq(Content)
        /\ handle[h].totalNumPages \in Nat
        /\ p <= handle[h].totalNumPages
    BY <1>2, <2>1 DEF FileInv, Types, Handle, HandleInv, File, WriteRC
  <2>3. /\ file \in Seq(Content)
        /\ Len(file) = IF p < Len(File(h)) THEN Len(File(h)) ELSE p + 1
    BY <2>1, <2>2, StoreLength DEF Content
  <2>4. disk' = [disk EXCEPT ![handle[h].mgmtInfo] = file]
    BY <1>2, <2>1 DEF WriteBlock, File, FileInv, Types, HandleInv
  <2>5. /\ handle' \in [Handles -> Handle]
        /\ \A g \in Handles \ {h} : handle'[g] = handle[g]
        /\ handle'[h].live
        /\ handle'[h].fileName = handle[h].fileName
        /\ handle'[h].mgmtInfo = handle[h].mgmtInfo
        /\ handle'[h].totalNumPages = handle[h].totalNumPages
        /\ handle'[h].curPagePos = p
    BY <1>2, <2>1 DEF FileInv, Types, Handle, Open
  <2>6. Len(File(h)) \in Nat
    BY <2>2
  <2>7. /\ handle'[h].totalNumPages <= Len(file)
        /\ Len(file) <= handle'[h].totalNumPages + 1
        /\ handle'[h].curPagePos < Len(file)
    BY <2>1, <2>2, <2>3, <2>5, <2>6 DEF HandleInv
  <2>8. Changes(h, file)
    BY <1>2, <2>2, <2>4, <2>5, <2>7 DEF Changes
  <2> QED
    BY <1>2, <2>3, <2>8, ChangesStep
<1> QED
  BY <1>1, <1>2 DEF writeBlock, NotFound, WriteFailed

LEMMA WriteCurrentStep ==
  ASSUME FileInv, NEW h \in Handles, NEW data \in Data, writeCurrentBlock(h, data)
  PROVE  FileInv'
<1>1. CASE UNCHANGED <<dir, disk, handle>>
  BY <1>1, IdleStep
<1>2. CASE /\ Open(h)
           /\ disk' = [disk EXCEPT ![handle[h].mgmtInfo] =
                         Store(@, handle[h].curPagePos, data)]
           /\ UNCHANGED <<dir, handle>>
  <2> DEFINE p == handle[h].curPagePos
             file == Store(File(h), p, data)
  <2>1. HandleInv(h) /\ p \in Nat /\ data \in Content
    BY <1>2 DEF FileInv, Types, Handle, Content
  <2>2. File(h) \in Seq(Content) /\ handle[h].totalNumPages \in Nat
    BY <2>1 DEF FileInv, Types, Handle, HandleInv, File
  <2>3. /\ file \in Seq(Content)
        /\ Len(file) = IF p < Len(File(h)) THEN Len(File(h)) ELSE p + 1
    BY <2>1, <2>2, StoreLength DEF Content
  <2>4. disk' = [disk EXCEPT ![handle[h].mgmtInfo] = file]
    BY <1>2, <2>1 DEF File, FileInv, Types, HandleInv
  <2>5. Len(File(h)) \in Nat
    BY <2>2
  <2>6. /\ handle'[h].totalNumPages <= Len(file)
        /\ Len(file) <= handle'[h].totalNumPages + 1
        /\ handle'[h].curPagePos < Len(file)
    BY <1>2, <2>1, <2>2, <2>3, <2>5 DEF HandleInv
  <2>7. Changes(h, file)
    BY <1>2, <2>1, <2>4, <2>6 DEF Changes, FileInv, Types, HandleInv, Open
  <2> QED
    BY <1>2, <2>3, <2>7, ChangesStep
<1> QED
  BY <1>1, <1>2 DEF writeCurrentBlock, NotFound, WriteFailed

(***************************************************************************)
(* Reopening by name changes the file the handle has open, and leaves the  *)
(* handle with the count n of a file of n or n + 1 pages.                  *)
(***************************************************************************)
LEMMA ReopenStep ==
  ASSUME FileInv, ~Shared, NEW h \in Handles, CanReopen(h), NEW n \in Nat,
         handle[h].totalNumPages < n, NEW file \in Seq(Content),
         n <= Len(file), Len(file) <= n + 1, NEW opens, Reopen(h, n, file, opens)
  PROVE  FileInv'
<1>1. Open(h) /\ HandleInv(h)
  BY DEF CanReopen, FileInv
<1>2. /\ dir' = dir
      /\ disk' = [disk EXCEPT ![handle[h].mgmtInfo] = file]
      /\ handle' = [handle EXCEPT ![h].totalNumPages = n,
                                  ![h].mgmtInfo = handle[h].mgmtInfo,
                                  ![h].live = TRUE]
  BY <1>1 DEF Reopen, HandleInv
<1>3. /\ handle' \in [Handles -> Handle]
      /\ \A g \in Handles \ {h} : handle'[g] = handle[g]
      /\ handle'[h].live
      /\ handle'[h].fileName = handle[h].fileName
      /\ handle'[h].mgmtInfo = handle[h].mgmtInfo
      /\ handle'[h].totalNumPages = n
      /\ handle'[h].curPagePos = handle[h].curPagePos
  BY <1>1, <1>2 DEF FileInv, Types, Handle, HandleInv
<1>4. handle'[h].curPagePos <= handle'[h].totalNumPages /\ handle'[h].curPagePos < Len(file)
  BY <1>1, <1>3 DEF FileInv, Types, Handle, HandleInv
<1>5. Changes(h, file)
  BY <1>2, <1>3, <1>4 DEF Changes
<1> QED
  BY <1>1, <1>5, ChangesStep

\* A full disk may cost the last new page, and no more than that one.
LEMMA ShortWritesLength ==
  ASSUME NEW n \in Nat, NEW file \in Seq(Content), Len(file) = n + 1,
         NEW cut \in ShortWrites(file)
  PROVE  cut \in Seq(Content) /\ n <= Len(cut) /\ Len(cut) <= n + 1
<1>1. Resize(file, Len(file) - 1) \in Seq(Content) /\ Len(Resize(file, Len(file) - 1)) = n
  <2>1. Len(file) - 1 = n /\ Zero \in Content
    BY DEF Content
  <2> HIDE DEF Content
  <2> QED
    BY <2>1, Lengths
<1> QED
  BY <1>1 DEF ShortWrites

LEMMA AppendStep ==
  ASSUME FileInv, ~Shared, NEW h \in Handles, appendEmptyBlock(h)
  PROVE  FileInv'
<1> DEFINE total == handle[h].totalNumPages
           longer == AppendEmptyBlock(NamedFile(h), total)
<1>1. CASE UNCHANGED <<dir, disk, handle>>
  BY <1>1, IdleStep
<1>2. CASE CanReopen(h) /\ \E file \in ShortWrites(longer) : Reopen(h, total + 1, file, 1)
  <2>1. Open(h) /\ HandleInv(h) /\ total \in Nat
    BY <1>2 DEF CanReopen, FileInv, Types, Handle
  <2>2. NamedFile(h) \in Seq(Content) /\ Zero \in Content
    BY <2>1 DEF FileInv, Types, HandleInv, NamedFile, Content
  <2> HIDE DEF total
  <2>3. longer \in Seq(Content) /\ Len(longer) = (total + 1) + 1 /\ total + 1 \in Nat
    <3>1. longer \in Seq(Content) /\ Len(longer) = total + 2
      BY <2>1, <2>2, Lengths
    <3> QED
      BY <2>1, <3>1
  <2>4. PICK file \in ShortWrites(longer) : Reopen(h, total + 1, file, 1)
    BY <1>2
  <2> HIDE DEF longer
  <2>5. file \in Seq(Content) /\ total + 1 <= Len(file) /\ Len(file) <= (total + 1) + 1
    BY <2>3, <2>4, ShortWritesLength
  <2>6. handle[h].totalNumPages < total + 1
    BY <2>1 DEF total
  <2> QED
    BY <1>2, <2>3, <2>4, <2>5, <2>6, ReopenStep
<1> QED
  BY <1>1, <1>2 DEF appendEmptyBlock

LEMMA EnsureStep ==
  ASSUME FileInv, ~Shared, NEW h \in Handles, NEW n \in PageNums, ensureCapacity(n, h)
  PROVE  FileInv'
<1> DEFINE total == handle[h].totalNumPages
           longer == EnsureCapacity(NamedFile(h), total, n)
<1>0. n \in Nat
  BY BoundsAssumption DEF PageNums
<1>1. CASE UNCHANGED <<dir, disk, handle>>
  BY <1>1, IdleStep
<1>2. CASE /\ CanReopen(h)
           /\ total < n
           /\ \E failed \in IF DiskErrors THEN 0..MaxStreams ELSE {0},
                 file \in ShortWrites(longer) :
                Reopen(h, n, file, n - total + failed)
  <2>1. Open(h) /\ HandleInv(h) /\ total \in Nat
    BY <1>2 DEF CanReopen, FileInv, Types, Handle
  <2>2. NamedFile(h) \in Seq(Content) /\ Zero \in Content
    BY <2>1 DEF FileInv, Types, HandleInv, NamedFile, Content
  <2>3. PICK failed \in IF DiskErrors THEN 0..MaxStreams ELSE {0},
             file \in ShortWrites(longer) : Reopen(h, n, file, n - total + failed)
    BY <1>2
  <2>4. total < n /\ n > total
    BY <1>0, <1>2, <2>1
  <2> HIDE DEF total
  <2>5. longer \in Seq(Content) /\ Len(longer) = n + 1
    BY <1>0, <2>1, <2>2, <2>4, Lengths
  <2> HIDE DEF longer
  <2>6. file \in Seq(Content) /\ n <= Len(file) /\ Len(file) <= n + 1
    BY <1>0, <2>3, <2>5, ShortWritesLength
  <2>7. handle[h].totalNumPages < n
    BY <2>4 DEF total
  <2> QED
    BY <1>0, <1>2, <2>3, <2>6, <2>7, ReopenStep
<1> QED
  BY <1>1, <1>2 DEF ensureCapacity

LEMMA FileInvStep ==
  ASSUME FileInv, ~Shared, [Next]_vars
  PROVE  FileInv'
<1>1. ASSUME NEW f \in FileNames, createPageFile(f) PROVE FileInv'
  BY <1>1, CreateStep
<1>2. ASSUME NEW f \in FileNames, destroyPageFile(f) PROVE FileInv'
  BY <1>2, DestroyStep
<1>3. ASSUME NEW f \in FileNames, NEW h \in Handles, openPageFile(f, h) PROVE FileInv'
  BY <1>3, OpenStep
<1>4. ASSUME NEW h \in Handles,
             \/ closePageFile(h)
             \/ \E p \in PageNums : readBlock(p, h)
             \/ readFirstBlock(h) \/ readPreviousBlock(h) \/ readCurrentBlock(h)
             \/ readNextBlock(h) \/ readLastBlock(h)
      PROVE  FileInv'
  BY <1>4, ReadStep
<1>5. ASSUME NEW h \in Handles, NEW p \in PageNums, NEW data \in Data,
             writeBlock(p, h, data)
      PROVE  FileInv'
  BY <1>5, WriteBlockStep
<1>6. ASSUME NEW h \in Handles, NEW data \in Data, writeCurrentBlock(h, data) PROVE FileInv'
  BY <1>6, WriteCurrentStep
<1>7. ASSUME NEW h \in Handles, appendEmptyBlock(h) PROVE FileInv'
  BY <1>7, AppendStep
<1>8. ASSUME NEW h \in Handles, NEW n \in PageNums, ensureCapacity(n, h) PROVE FileInv'
  BY <1>8, EnsureStep
<1>9. ASSUME UNCHANGED vars PROVE FileInv'
  BY <1>9, IdleStep DEF vars
<1> QED
  BY <1>1, <1>2, <1>3, <1>4, <1>5, <1>6, <1>7, <1>8, <1>9 DEF Next

LEMMA FileInvInit ==
  Init => FileInv
<1> SUFFICES ASSUME Init PROVE FileInv
  OBVIOUS
<1>1. Types
  BY DEF Init, Types, Handle
<1>2. \A h \in Handles : ~Open(h)
  BY DEF Init, Open
<1>3. OneNamePerInode
  BY DEF Init, OneNamePerInode
<1> QED
  BY <1>1, <1>2, <1>3 DEF FileInv, OneHandlePerFile

LEMMA FileInvariance ==
  ASSUME ~Shared
  PROVE  Spec => []FileInv
BY FileInvInit, FileInvStep, PTL DEF Spec

(***************************************************************************)
(* Used through one handle at a time, a file has as many pages as that     *)
(* handle counts or one more: every size check of storage_mgr.c, which     *)
(* looks at the count, is off by at most one page.                         *)
(***************************************************************************)
THEOREM CountTracksFile ==
  ASSUME ~Shared
  PROVE  Spec => []TotalTracksFile
<1>1. FileInv => TotalTracksFile
  BY DEF FileInv, HandleInv, TotalTracksFile
<1> QED
  BY <1>1, FileInvariance, PTL

(***************************************************************************)
(* Used through one handle at a time, the name in an open handle leads to  *)
(* the file its stream is on: appendEmptyBlock, which reopens by name,     *)
(* extends the file that readBlock and writeBlock work on.                 *)
(***************************************************************************)
THEOREM ReopenFindsFile ==
  ASSUME ~Shared
  PROVE  Spec => []NameReachesStream
<1>1. FileInv => NameReachesStream
  BY NullAssumption DEF FileInv, HandleInv, NameReachesStream
<1> QED
  BY <1>1, FileInvariance, PTL

(***************************************************************************)
(* Used through one handle at a time, the current position is on a block:  *)
(* readCurrentBlock and writeCurrentBlock do not look, and need not.       *)
(***************************************************************************)
THEOREM PositionInFile ==
  ASSUME ~Shared
  PROVE  Spec => []CurrentBlockExists
<1>1. FileInv => CurrentBlockExists
  BY DEF FileInv, HandleInv, CurrentBlockExists
<1> QED
  BY <1>1, FileInvariance, PTL

-----------------------------------------------------------------------------
(***************************************************************************)
(* Streams and handles.  An open handle's stream is counted; with one      *)
(* handle on a file, one stream is all that its inode needs.               *)
(***************************************************************************)
StreamInv ==
  /\ streams \in [Inodes -> Nat]
  /\ \A h \in Handles : Open(h) => streams[handle[h].mgmtInfo] >= 1

\* k streams more are open on i, and a handle that is open and was not, or has
\* another stream than before, has one of them.
LEMMA OpenMore ==
  ASSUME FileInv, StreamInv, NEW i \in Inodes, NEW k \in Nat,
         streams' = [streams EXCEPT ![i] = @ + k],
         \A h \in Handles : Open(h)' =>
           \/ Open(h) /\ handle'[h].mgmtInfo = handle[h].mgmtInfo
           \/ handle'[h].mgmtInfo = i /\ k >= 1
  PROVE  StreamInv'
<1>1. streams' \in [Inodes -> Nat] /\ \A j \in Inodes : streams'[j] >= streams[j]
  BY DEF StreamInv
<1>2. streams'[i] >= k
  BY DEF StreamInv
<1>3. ASSUME NEW h \in Handles, Open(h)' PROVE streams'[handle'[h].mgmtInfo] >= 1
  <2>1. CASE Open(h) /\ handle'[h].mgmtInfo = handle[h].mgmtInfo
    <3>1. handle[h].mgmtInfo \in Inodes /\ streams[handle[h].mgmtInfo] >= 1
      BY <2>1 DEF FileInv, HandleInv, StreamInv
    <3> QED
      BY <1>1, <2>1, <3>1 DEF StreamInv
  <2>2. CASE handle'[h].mgmtInfo = i /\ k >= 1
    BY <1>1, <1>2, <2>2
  <2> QED
    BY <1>3, <2>1, <2>2
<1> QED
  BY <1>1, <1>3 DEF StreamInv, Open

LEMMA SameStreams ==
  ASSUME FileInv, StreamInv, UNCHANGED streams,
         \A h \in Handles : Open(h)' =>
           Open(h) /\ handle'[h].mgmtInfo = handle[h].mgmtInfo
  PROVE  StreamInv'
BY DEF StreamInv, Open

LEMMA CloseStreams ==
  ASSUME FileInv, StreamInv, NEW h \in Handles, closePageFile(h)
  PROVE  StreamInv'
<1>1. CASE UNCHANGED <<streams, handle>>
  BY <1>1, SameStreams DEF Open
<1>2. CASE /\ Open(h)
           /\ streams' = [streams EXCEPT ![handle[h].mgmtInfo] = @ - 1]
           /\ handle' = [handle EXCEPT ![h].live = FALSE]
  <2>1. handle[h].mgmtInfo \in Inodes /\ streams[handle[h].mgmtInfo] >= 1
    BY <1>2 DEF FileInv, HandleInv, StreamInv
  <2>2. streams' \in [Inodes -> Nat]
    BY <1>2, <2>1 DEF StreamInv
  <2>3. ASSUME NEW g \in Handles, Open(g)' PROVE streams'[handle'[g].mgmtInfo] >= 1
    <3>1. g # h /\ handle'[g] = handle[g] /\ Open(g)
      BY <1>2, <2>3 DEF Open, FileInv, Types, Handle
    <3>2. HandleInv(g) /\ HandleInv(h)
      BY <1>2, <3>1 DEF FileInv
    <3>3. handle[g].mgmtInfo # handle[h].mgmtInfo
      BY <1>2, <3>1, <3>2, NullAssumption
         DEF FileInv, OneHandlePerFile, OneNamePerInode, HandleInv
    <3> QED
      BY <1>2, <3>1, <3>2, <3>3 DEF StreamInv, HandleInv
  <2> QED
    BY <2>2, <2>3 DEF StreamInv, Open
<1> QED
  BY <1>1, <1>2 DEF closePageFile

LEMMA ReopenStreams ==
  ASSUME FileInv, StreamInv, ~Shared, NEW h \in Handles, CanReopen(h),
         NEW n, NEW file, NEW opens \in Nat, Reopen(h, n, file, opens)
  PROVE  StreamInv'
<1>1. Open(h) /\ HandleInv(h)
  BY DEF CanReopen, FileInv
<1>2. /\ streams' = [streams EXCEPT ![handle[h].mgmtInfo] = @ + opens]
      /\ handle' = [handle EXCEPT ![h].totalNumPages = n,
                                  ![h].mgmtInfo = handle[h].mgmtInfo,
                                  ![h].live = TRUE]
  BY <1>1 DEF Reopen, HandleInv
<1>3. \A g \in Handles : Open(g)' =>
        Open(g) /\ handle'[g].mgmtInfo = handle[g].mgmtInfo
  BY <1>1, <1>2 DEF FileInv, Types, Handle, Open
<1> QED
  BY <1>1, <1>2, <1>3, OpenMore DEF HandleInv

LEMMA StreamStep ==
  ASSUME FileInv, StreamInv, ~Shared, [Next]_vars
  PROVE  StreamInv'
<1>1. ASSUME NEW f \in FileNames, createPageFile(f) PROVE StreamInv'
  <2>1. handle' = handle
    BY <1>1 DEF createPageFile
  <2>2. PICK i \in Inodes : \/ UNCHANGED streams
                            \/ streams' = [streams EXCEPT ![i] = @ + 1]
    BY <1>1 DEF createPageFile, Unused, FileInv, Types
  <2> QED
    BY <2>1, <2>2, SameStreams, OpenMore DEF Open
<1>2. ASSUME NEW f \in FileNames, NEW h \in Handles, openPageFile(f, h) PROVE StreamInv'
  <2>1. CASE UNCHANGED <<streams, handle>>
    BY <2>1, SameStreams DEF Open
  <2>2. CASE /\ dir[f] # NULL
             /\ streams' = [streams EXCEPT ![dir[f]] = @ + 1]
             /\ handle' = [handle EXCEPT ![h] =
                  [fileName |-> f, totalNumPages |-> Len(disk[dir[f]]),
                   curPagePos |-> 0, mgmtInfo |-> dir[f], live |-> TRUE]]
    <3>1. dir[f] \in Inodes
      BY <2>2 DEF FileInv, Types
    <3>2. \A g \in Handles : Open(g)' =>
            \/ Open(g) /\ handle'[g].mgmtInfo = handle[g].mgmtInfo
            \/ handle'[g].mgmtInfo = dir[f] /\ 1 >= 1
      BY <2>2 DEF FileInv, Types, Open
    <3> QED
      BY <2>2, <3>1, <3>2, OpenMore
  <2> QED
    BY <1>2, <2>1, <2>2 DEF openPageFile
<1>3. ASSUME NEW h \in Handles, appendEmptyBlock(h) PROVE StreamInv'
  <2>1. CanReopen(h) /\ Open(h) /\ HandleInv(h)
    BY <1>3 DEF appendEmptyBlock, CanReopen, FileInv
  <2>2. CASE \E file : Reopen(h, handle[h].totalNumPages + 1, file, 1)
    BY <2>1, <2>2, ReopenStreams
  <2>3. CASE /\ streams' = [streams EXCEPT ![dir[handle[h].fileName]] = @ + 1]
             /\ UNCHANGED handle
    BY <2>1, <2>3, OpenMore DEF Open, HandleInv
  <2> QED
    BY <1>3, <2>2, <2>3 DEF appendEmptyBlock
<1>4. ASSUME NEW h \in Handles, NEW n \in PageNums, ensureCapacity(n, h) PROVE StreamInv'
  <2>1. CASE UNCHANGED <<streams, handle>>
    BY <2>1, SameStreams DEF Open
  <2>2. CASE /\ CanReopen(h)
             /\ handle[h].totalNumPages < n
             /\ \E failed \in IF DiskErrors THEN 0..MaxStreams ELSE {0},
                   file \in ShortWrites(EnsureCapacity(NamedFile(h), handle[h].totalNumPages, n)) :
                  Reopen(h, n, file, n - handle[h].totalNumPages + failed)
    <3>1. PICK failed \in Nat : \E file :
            Reopen(h, n, file, n - handle[h].totalNumPages + failed)
      BY <2>2, BoundsAssumption
    <3>2. n - handle[h].totalNumPages + failed \in Nat
      BY <2>2, BoundsAssumption DEF PageNums, FileInv, Types, Handle
    <3> QED
      BY <2>2, <3>1, <3>2, ReopenStreams
  <2> QED
    BY <1>4, <2>1, <2>2 DEF ensureCapacity
<1>5. ASSUME NEW h \in Handles,
             \/ \E p \in PageNums : readBlock(p, h)
             \/ readFirstBlock(h) \/ readPreviousBlock(h) \/ readCurrentBlock(h)
             \/ readNextBlock(h) \/ readLastBlock(h)
             \/ \E p \in PageNums, data \in Data : writeBlock(p, h, data)
             \/ \E data \in Data : writeCurrentBlock(h, data)
      PROVE  StreamInv'
  <2>1. UNCHANGED streams
    BY <1>5 DEF readBlock, readFirstBlock, readPreviousBlock, readCurrentBlock,
                readNextBlock, readLastBlock, ReadWithoutMoving, NotFound,
                writeBlock, writeCurrentBlock, WriteFailed
  <2>2. UNCHANGED handle \/ \E p \in PageNums : handle' = [handle EXCEPT ![h].curPagePos = p]
    BY <1>5 DEF readBlock, readFirstBlock, readPreviousBlock, readCurrentBlock,
                readNextBlock, readLastBlock, ReadWithoutMoving, NotFound,
                writeBlock, writeCurrentBlock, WriteFailed
  <2>3. \A g \in Handles : Open(g)' =>
          Open(g) /\ handle'[g].mgmtInfo = handle[g].mgmtInfo
    <3>1. CASE UNCHANGED handle
      BY <3>1 DEF Open
    <3>2. ASSUME NEW p \in PageNums, handle' = [handle EXCEPT ![h].curPagePos = p],
                 NEW g \in Handles
          PROVE  handle'[g].live = handle[g].live /\ handle'[g].mgmtInfo = handle[g].mgmtInfo
      BY <3>2 DEF FileInv, Types, Handle
    <3> QED
      BY <2>2, <3>1, <3>2 DEF Open
  <2> QED
    BY <2>1, <2>3, SameStreams
<1>6. ASSUME NEW f \in FileNames, destroyPageFile(f) PROVE StreamInv'
  BY <1>6, SameStreams DEF destroyPageFile, Open
<1>7. ASSUME UNCHANGED vars PROVE StreamInv'
  BY <1>7, SameStreams DEF vars, Open
<1> QED
  BY <1>1, <1>2, <1>3, <1>4, <1>5, <1>6, <1>7, CloseStreams DEF Next

(***************************************************************************)
(* Used through one handle at a time, a file has a stream open for the     *)
(* handle that is open on it, however often appendEmptyBlock and           *)
(* ensureCapacity have replaced the handle's stream.                       *)
(***************************************************************************)
THEOREM StreamsSuffice ==
  ASSUME ~Shared
  PROVE  Spec => []StreamsCoverHandles
<1>1. Init => StreamInv
  BY DEF Init, StreamInv, Open
<1>2. FileInv /\ StreamInv => StreamsCoverHandles
  <2> SUFFICES ASSUME FileInv, StreamInv, NEW i \in Inodes
               PROVE  Cardinality({h \in Handles : Open(h) /\ handle[h].mgmtInfo = i})
                        <= streams[i]
    BY DEF StreamsCoverHandles
  <2> DEFINE holders == {h \in Handles : Open(h) /\ handle[h].mgmtInfo = i}
  <2>1. streams[i] \in Nat
    BY DEF StreamInv
  <2>2. CASE holders = {}
    <3>1. Cardinality(holders) = 0
      BY <2>2, FS_EmptySet
    <3> QED
      BY <2>1, <3>1
  <2>3. CASE holders # {}
    <3>1. PICK h \in Handles : Open(h) /\ handle[h].mgmtInfo = i
      BY <2>3
    <3>2. ASSUME NEW g \in holders PROVE g = h
      <4>1. HandleInv(g) /\ HandleInv(h) /\ Open(g) /\ handle[g].mgmtInfo = i
        BY <3>1, <3>2 DEF FileInv
      <4> QED
        BY <3>1, <4>1, NullAssumption
           DEF FileInv, OneHandlePerFile, OneNamePerInode, HandleInv
    <3>3. holders = {h}
      BY <3>1, <3>2
    <3>4. Cardinality(holders) = 1
      BY <3>3, FS_Singleton
    <3>5. streams[i] >= 1
      BY <3>1 DEF StreamInv
    <3> QED
      BY <2>1, <3>4, <3>5
  <2> QED
    BY <2>2, <2>3
<1> QED
  BY <1>1, <1>2, StreamStep, FileInvariance, PTL DEF Spec

-----------------------------------------------------------------------------
(***************************************************************************)
(* Type correctness, whether files are shared or not.                      *)
(***************************************************************************)
LEMMA Returned ==
  ASSUME NEW op \in Ops, NEW h \in Handles \cup {NULL}, NEW rc \in RCs,
         Return(op, h, rc)
  PROVE  last' \in [op: Ops, handle: Handles \cup {NULL}, rc: RCs]
BY DEF Return

\* The return codes that are computed.
LEMMA Codes ==
  /\ \A file, total, p : ReadRC(file, total, p) \in RCs
  /\ \A total, p : WriteRC(total, p) \in RCs
  /\ \A h, p : FreadRC(h, p) \in RCs
BY DEF ReadRC, WriteRC, FreadRC, RCs

LEMMA CutType ==
  ASSUME NEW file \in Seq(Content), Len(file) >= 1, NEW cut \in ShortWrites(file)
  PROVE  cut \in Seq(Content)
<1>1. Len(file) - 1 \in Nat /\ Zero \in Content
  BY DEF Content
<1> HIDE DEF Content
<1>2. Resize(file, Len(file) - 1) \in Seq(Content)
  BY <1>1, Lengths
<1> QED
  BY <1>2 DEF ShortWrites

LEMMA ReopenTypes ==
  ASSUME TypeOK, NEW h \in Handles, CanReopen(h), NEW n \in Nat,
         NEW file \in Seq(Content), NEW opens \in Nat, Reopen(h, n, file, opens)
  PROVE  /\ dir' \in [FileNames -> Inodes \cup {NULL}]
         /\ disk' \in [Inodes -> Seq(Content)]
         /\ streams' \in [Inodes -> Int]
         /\ handle' \in [Handles -> Handle]
<1> DEFINE i == dir[handle[h].fileName]
<1>1. i \in Inodes
  BY DEF TypeOK, Handle, CanReopen
<1>2. /\ streams' = [streams EXCEPT ![i] = @ + opens]
      /\ disk' = [disk EXCEPT ![i] = file]
      /\ handle' = [handle EXCEPT ![h].totalNumPages = n, ![h].mgmtInfo = i,
                                  ![h].live = TRUE]
      /\ dir' = dir
  BY DEF Reopen
<1> HIDE DEF i
<1>3. disk' \in [Inodes -> Seq(Content)] /\ streams' \in [Inodes -> Int]
  BY <1>1, <1>2 DEF TypeOK
<1>4. handle' \in [Handles -> Handle]
  BY <1>1, <1>2 DEF TypeOK, Handle
<1> QED
  BY <1>2, <1>3, <1>4 DEF TypeOK

LEMMA FileCallTypes ==
  ASSUME TypeOK, NEW f \in FileNames,
         \/ createPageFile(f) \/ destroyPageFile(f)
         \/ \E h \in Handles : openPageFile(f, h)
  PROVE  TypeOK'
<1>1. CASE createPageFile(f)
  <2>1. PICK i \in Inodes :
          /\ dir' = [dir EXCEPT ![f] = i]
          /\ disk' = [disk EXCEPT ![i] = <<Zero>>] \/ disk' = [disk EXCEPT ![i] = <<>>]
          /\ streams' = streams \/ streams' = [streams EXCEPT ![i] = @ + 1]
    BY <1>1 DEF createPageFile, Unused, TypeOK
  <2>2. <<>> \in Seq(Content) /\ <<Zero>> \in Seq(Content)
    BY DEF Content
  <2>3. disk' \in [Inodes -> Seq(Content)]
    BY <2>1, <2>2 DEF TypeOK
  <2>4. dir' \in [FileNames -> Inodes \cup {NULL}] /\ streams' \in [Inodes -> Int]
    BY <2>1 DEF TypeOK
  <2>5. last' \in [op: Ops, handle: Handles \cup {NULL}, rc: RCs]
    BY <1>1, Returned DEF createPageFile, Ops, RCs
  <2> QED
    BY <1>1, <2>3, <2>4, <2>5 DEF createPageFile, TypeOK
<1>2. CASE destroyPageFile(f)
  <2>1. last' \in [op: Ops, handle: Handles \cup {NULL}, rc: RCs]
    BY <1>2, Returned DEF destroyPageFile, Ops, RCs
  <2> QED
    BY <1>2, <2>1 DEF destroyPageFile, TypeOK
<1>3. ASSUME NEW h \in Handles, openPageFile(f, h) PROVE TypeOK'
  <2>1. last' \in [op: Ops, handle: Handles \cup {NULL}, rc: RCs]
    BY <1>3, Returned DEF openPageFile, Ops, RCs
  <2>2. CASE UNCHANGED <<streams, handle>>
    BY <1>3, <2>1, <2>2 DEF openPageFile, TypeOK
  <2>3. CASE /\ dir[f] # NULL
             /\ streams' = [streams EXCEPT ![dir[f]] = @ + 1]
             /\ handle' = [handle EXCEPT ![h] =
                  [fileName |-> f, totalNumPages |-> Len(disk[dir[f]]),
                   curPagePos |-> 0, mgmtInfo |-> dir[f], live |-> TRUE]]
    <3>1. dir[f] \in Inodes /\ Len(disk[dir[f]]) \in Nat
      BY <2>3 DEF TypeOK
    <3>2. handle' \in [Handles -> Handle] /\ streams' \in [Inodes -> Int]
      BY <2>3, <3>1 DEF TypeOK, Handle
    <3> QED
      BY <1>3, <2>1, <3>2 DEF openPageFile, TypeOK
  <2> QED
    BY <1>3, <2>2, <2>3 DEF openPageFile
<1> QED
  BY <1>1, <1>2, <1>3

LEMMA HandleCallTypes ==
  ASSUME TypeOK, NEW h \in Handles,
         \/ closePageFile(h)
         \/ \E p \in PageNums : readBlock(p, h)
         \/ readFirstBlock(h) \/ readPreviousBlock(h) \/ readCurrentBlock(h)
         \/ readNextBlock(h) \/ readLastBlock(h)
  PROVE  TypeOK'
<1>1. ASSUME NEW op \in Ops, ReadWithoutMoving(op, h, "RC_OK")
             \/ ReadWithoutMoving(op, h, "RC_BLOCK_READ_ERROR")
             \/ ReadWithoutMoving(op, h, "RC_PREV_BLOCK_NOT_EXIST")
             \/ ReadWithoutMoving(op, h, "RC_NEXT_BLOCK_NOT_EXIST")
             \/ NotFound(op, h)
      PROVE  TypeOK'
  <2>1. last' \in [op: Ops, handle: Handles \cup {NULL}, rc: RCs]
    BY <1>1, Returned DEF ReadWithoutMoving, NotFound, RCs
  <2> QED
    BY <1>1, <2>1 DEF ReadWithoutMoving, NotFound, TypeOK
<1>2. CASE \/ readFirstBlock(h) \/ readPreviousBlock(h) \/ readCurrentBlock(h)
           \/ readNextBlock(h) \/ readLastBlock(h)
  BY <1>1, <1>2 DEF readFirstBlock, readPreviousBlock, readCurrentBlock,
                    readNextBlock, readLastBlock, FreadRC, Ops
<1>3. ASSUME NEW p \in PageNums, readBlock(p, h) PROVE TypeOK'
  <2>1. CASE NotFound("readBlock", h)
    BY <1>1, <2>1 DEF Ops
  <2>2. CASE ~NotFound("readBlock", h)
    <3>1. last' \in [op: Ops, handle: Handles \cup {NULL}, rc: RCs]
      BY <1>3, <2>2, Codes, Returned DEF readBlock, Ops
    <3>2. p \in Nat
      BY BoundsAssumption DEF PageNums
    <3>3. \/ UNCHANGED handle
          \/ handle' = [handle EXCEPT ![h].curPagePos = p]
      BY <1>3, <2>2 DEF readBlock
    <3>4. handle' \in [Handles -> Handle]
      BY <3>2, <3>3 DEF TypeOK, Handle
    <3> QED
      BY <1>3, <2>2, <3>1, <3>4 DEF readBlock, TypeOK
  <2> QED
    BY <2>1, <2>2
<1>4. CASE closePageFile(h)
  <2>1. last' \in [op: Ops, handle: Handles \cup {NULL}, rc: RCs]
    BY <1>4, Returned DEF closePageFile, Ops, RCs
  <2>2. CASE UNCHANGED <<streams, handle>>
    BY <1>4, <2>1, <2>2 DEF closePageFile, TypeOK
  <2>3. CASE /\ streams' = [streams EXCEPT ![handle[h].mgmtInfo] = @ - 1]
             /\ handle' = [handle EXCEPT ![h].live = FALSE]
    <3>1. handle' \in [Handles -> Handle]
      BY <2>3 DEF TypeOK, Handle
    <3>2. streams' \in [Inodes -> Int]
      <4>1. CASE handle[h].mgmtInfo \in Inodes
        <5>1. streams[handle[h].mgmtInfo] - 1 \in Int
          BY <4>1 DEF TypeOK
        <5> QED
          BY <2>3, <5>1 DEF TypeOK
      <4>2. CASE handle[h].mgmtInfo \notin Inodes
        <5>1. streams' = streams
          BY <2>3, <4>2 DEF TypeOK
        <5> QED
          BY <5>1 DEF TypeOK
      <4> QED
        BY <4>1, <4>2
    <3> QED
      BY <1>4, <2>1, <3>1, <3>2 DEF closePageFile, TypeOK
  <2> QED
    BY <1>4, <2>2, <2>3 DEF closePageFile
<1> QED
  BY <1>2, <1>3, <1>4

LEMMA WriteTypes ==
  ASSUME TypeOK, NEW h \in Handles, NEW data \in Data,
         \/ \E p \in PageNums : writeBlock(p, h, data)
         \/ writeCurrentBlock(h, data)
  PROVE  TypeOK'
<1>0. Zero \in Content /\ data \in Content /\ \A p \in PageNums : p \in Nat
  BY BoundsAssumption DEF Content, PageNums
<1>1. last' \in [op: Ops, handle: Handles \cup {NULL}, rc: RCs]
  <2>1. CASE writeCurrentBlock(h, data)
    BY <2>1, Returned DEF writeCurrentBlock, NotFound, WriteFailed, Ops, RCs
  <2>2. ASSUME NEW p \in PageNums, writeBlock(p, h, data)
        PROVE  last' \in [op: Ops, handle: Handles \cup {NULL}, rc: RCs]
    <3>1. "RC_OK" \in RCs /\ "RC_FILE_NOT_FOUND" \in RCs /\ "RC_WRITE_FAILED" \in RCs
          /\ "writeBlock" \in Ops
      BY DEF RCs, Ops
    <3> QED
      BY <2>2, <3>1, Codes, Returned DEF writeBlock, NotFound, WriteFailed
  <2> QED
    BY <2>1, <2>2
<1>2. ASSUME NEW p \in Nat,
             disk' = [disk EXCEPT ![handle[h].mgmtInfo] = Store(@, p, data)]
      PROVE  disk' \in [Inodes -> Seq(Content)]
  <2>1. ASSUME NEW i \in Inodes PROVE Store(disk[i], p, data) \in Seq(Content)
    BY <1>0, <2>1, StoreLength DEF TypeOK
  <2> QED
    BY <1>2, <2>1 DEF TypeOK
<1>3. CASE writeCurrentBlock(h, data)
  <2>1. handle[h].curPagePos \in Nat
    BY DEF TypeOK, Handle
  <2>2. disk' \in [Inodes -> Seq(Content)]
    BY <1>2, <1>3, <2>1 DEF writeCurrentBlock, NotFound, WriteFailed, TypeOK
  <2> QED
    BY <1>1, <1>3, <2>2 DEF writeCurrentBlock, NotFound, WriteFailed, TypeOK
<1>4. ASSUME NEW p \in PageNums, writeBlock(p, h, data) PROVE TypeOK'
  <2>1. CASE UNCHANGED <<dir, disk, streams, handle>>
    BY <1>1, <2>1 DEF TypeOK
  <2>2. CASE /\ WriteRC(handle[h].totalNumPages, p) = "RC_OK"
             /\ disk' = [disk EXCEPT ![handle[h].mgmtInfo] =
                           WriteBlock(@, handle[h].totalNumPages, p, data)]
             /\ handle' = [handle EXCEPT ![h].curPagePos = p]
             /\ UNCHANGED <<dir, streams>>
    <3>1. disk' \in [Inodes -> Seq(Content)]
      BY <1>0, <1>2, <2>2 DEF WriteBlock
    <3>2. handle' \in [Handles -> Handle]
      BY <1>0, <2>2 DEF TypeOK, Handle
    <3> QED
      BY <1>1, <2>2, <3>1, <3>2 DEF TypeOK
  <2> QED
    BY <1>4, <2>1, <2>2 DEF writeBlock, NotFound, WriteFailed
<1> QED
  BY <1>3, <1>4

LEMMA GrowTypes ==
  ASSUME TypeOK, NEW h \in Handles,
         appendEmptyBlock(h) \/ \E n \in PageNums : ensureCapacity(n, h)
  PROVE  TypeOK'
<1> DEFINE total == handle[h].totalNumPages
<1>1. last' \in [op: Ops, handle: Handles \cup {NULL}, rc: RCs]
  BY Returned DEF appendEmptyBlock, ensureCapacity, Ops, RCs
<1>2. total \in Nat /\ Zero \in Content
  BY DEF TypeOK, Handle, Content
<1>3. ASSUME CanReopen(h)
      PROVE  NamedFile(h) \in Seq(Content) /\ dir[handle[h].fileName] \in Inodes
  BY <1>3 DEF TypeOK, Handle, CanReopen, NamedFile
<1>4. ASSUME NEW n \in Nat, NEW file \in Seq(Content), Len(file) >= 1,
             NEW cut \in ShortWrites(file), NEW opens \in Nat,
             CanReopen(h), Reopen(h, n, cut, opens)
      PROVE  TypeOK'
  <2>1. cut \in Seq(Content)
    BY <1>4, CutType
  <2> QED
    BY <1>1, <1>4, <2>1, ReopenTypes DEF TypeOK
<1> HIDE DEF total
<1>5. CASE appendEmptyBlock(h)
  <2> DEFINE longer == AppendEmptyBlock(NamedFile(h), total)
  <2>1. CASE CanReopen(h) /\ \E file \in ShortWrites(longer) : Reopen(h, total + 1, file, 1)
    <3>1. longer \in Seq(Content) /\ Len(longer) = total + 2
      BY <1>2, <1>3, <2>1, Lengths
    <3>2. total + 1 \in Nat /\ total + 2 >= 1
      BY <1>2
    <3> HIDE DEF longer
    <3> QED
      BY <1>4, <2>1, <3>1, <3>2
  <2>2. CASE /\ CanReopen(h)
             /\ streams' = [streams EXCEPT ![dir[handle[h].fileName]] = @ + 1]
             /\ UNCHANGED <<dir, disk, handle>>
    BY <1>1, <1>3, <2>2 DEF TypeOK
  <2> QED
    BY <1>5, <2>1, <2>2 DEF appendEmptyBlock, total
<1>6. ASSUME NEW n \in PageNums, ensureCapacity(n, h) PROVE TypeOK'
  <2> DEFINE longer == EnsureCapacity(NamedFile(h), total, n)
  <2>0. n \in Nat
    BY BoundsAssumption DEF PageNums
  <2>1. CASE UNCHANGED <<dir, disk, streams, handle>>
    BY <1>1, <2>1 DEF TypeOK
  <2>2. CASE /\ CanReopen(h)
             /\ total < n
             /\ \E failed \in IF DiskErrors THEN 0..MaxStreams ELSE {0},
                   file \in ShortWrites(longer) :
                  Reopen(h, n, file, n - total + failed)
    <3>1. longer \in Seq(Content) /\ Len(longer) = n + 1
      BY <1>2, <1>3, <2>0, <2>2, Lengths
    <3>2. n + 1 >= 1 /\ \A failed \in Nat : n - total + failed \in Nat
      BY <1>2, <2>0, <2>2
    <3>3. \A failed \in IF DiskErrors THEN 0..MaxStreams ELSE {0} : failed \in Nat
      BY BoundsAssumption
    <3> HIDE DEF longer
    <3> QED
      BY <1>4, <2>0, <2>2, <3>1, <3>2, <3>3
  <2> QED
    BY <1>6, <2>1, <2>2 DEF ensureCapacity, total
<1> QED
  BY <1>5, <1>6

(***************************************************************************)
(* The state keeps its shape through every call, with files shared or not  *)
(* and with writes that fail.                                              *)
(***************************************************************************)
THEOREM TypeCorrect == Spec => []TypeOK
<1>1. Init => TypeOK
  <2> SUFFICES ASSUME Init PROVE TypeOK
    OBVIOUS
  <2>1. <<>> \in Seq(Content)
    OBVIOUS
  <2> QED
    BY <2>1 DEF Init, TypeOK, Handle, Ops, RCs
<1>2. ASSUME TypeOK, [Next]_vars PROVE TypeOK'
  <2>1. CASE UNCHANGED vars
    BY <1>2, <2>1 DEF vars, TypeOK
  <2> QED
    BY <1>2, <2>1, FileCallTypes, HandleCallTypes, WriteTypes, GrowTypes DEF Next
<1> QED
  BY <1>1, <1>2, PTL DEF Spec

-----------------------------------------------------------------------------
\* b has the blocks of a, and maybe more behind them.
Keeps(a, b) ==
  Len(a) <= Len(b) /\ \A k \in 1..Len(a) : b[k] = a[k]

\* The new size is the count plus one or more, and so never below the size
\* of a file that has at most one page more than is counted.
LEMMA ExtendKeeps ==
  ASSUME NEW file \in Seq(Content), NEW total \in Nat, Len(file) <= total + 1
  PROVE  /\ \A cut \in ShortWrites(AppendEmptyBlock(file, total)) : Keeps(file, cut)
         /\ \A n \in Nat : n > total =>
              \A cut \in ShortWrites(EnsureCapacity(file, total, n)) : Keeps(file, cut)
<1>1. ASSUME NEW f \in Seq(Content), NEW n \in Nat, Len(file) <= n, Keeps(file, f)
      PROVE  Keeps(file, Resize(f, n))
  <2>1. Len(Resize(f, n)) = n
    BY DEF Resize
  <2>2. ASSUME NEW k \in 1..Len(file) PROVE Resize(f, n)[k] = file[k]
    <3>1. k \in 1..n /\ k <= Len(f) /\ f[k] = file[k]
      BY <1>1 DEF Keeps
    <3> QED
      BY <3>1 DEF Resize
  <2> QED
    BY <1>1, <2>1, <2>2 DEF Keeps
<1>2. ASSUME NEW f \in Seq(Content), Keeps(file, f), Len(f) > total + 1,
             NEW cut \in ShortWrites(f)
      PROVE  Keeps(file, cut)
  <2>1. Len(f) - 1 \in Nat /\ Len(file) <= Len(f) - 1
    BY <1>2
  <2>2. Keeps(file, Resize(f, Len(f) - 1))
    BY <1>1, <1>2, <2>1
  <2> QED
    BY <1>2, <2>2 DEF ShortWrites
<1>3. Zero \in Content /\ total + 1 \in Nat /\ Keeps(file, file)
  BY DEF Content, Keeps
<1>4. /\ Resize(file, total + 1) \in Seq(Content)
      /\ Len(Resize(file, total + 1)) = total + 1
      /\ Keeps(file, Resize(file, total + 1))
  BY <1>1, <1>3, Lengths
<1>5. ASSUME NEW cut \in ShortWrites(AppendEmptyBlock(file, total))
      PROVE  Keeps(file, cut)
  <2>1. AppendEmptyBlock(file, total) \in Seq(Content)
    BY <1>3, Lengths
  <2>2. Len(AppendEmptyBlock(file, total)) = total + 2
    BY <1>3, Lengths
  <2>3. Keeps(file, AppendEmptyBlock(file, total))
    BY <1>3, <1>4 DEF AppendEmptyBlock, Keeps
  <2>4. Len(AppendEmptyBlock(file, total)) > total + 1
    BY <2>2
  <2> QED
    BY <1>2, <1>5, <2>1, <2>3, <2>4
<1>6. ASSUME NEW n \in Nat, n > total,
             NEW cut \in ShortWrites(EnsureCapacity(file, total, n))
      PROVE  Keeps(file, cut)
  <2> DEFINE longer == EnsureCapacity(file, total, n)
  <2>1. longer \in Seq(Content) /\ Len(longer) = n + 1
    BY <1>3, <1>6, Lengths
  <2>2. longer = Resize(Resize(file, total + 1), n + 1)
    BY <1>6 DEF EnsureCapacity
  <2>3. n + 1 \in Nat /\ Len(file) <= n + 1
    BY <1>6
  <2>4. Keeps(file, longer)
    BY <1>1, <1>4, <2>2, <2>3
  <2> HIDE DEF longer
  <2>5. Len(longer) > total + 1
    BY <1>6, <2>1
  <2> QED
    BY <1>2, <1>6, <2>1, <2>4, <2>5 DEF longer
<1> QED
  BY <1>5, <1>6

LEMMA ReopenKeeps ==
  ASSUME FileInv, ~Shared, NEW h \in Handles, CanReopen(h), NEW n, NEW file, NEW opens,
         Reopen(h, n, file, opens), Keeps(NamedFile(h), file), NEW i \in Inodes
  PROVE  Keeps(disk[i], disk'[i])
<1>1. Open(h) /\ HandleInv(h)
  BY DEF CanReopen, FileInv
<1>2. disk' = [disk EXCEPT ![dir[handle[h].fileName]] = file]
  BY DEF Reopen
<1>3. CASE i = dir[handle[h].fileName]
  BY <1>1, <1>2, <1>3 DEF FileInv, Types, NamedFile
<1>4. CASE i # dir[handle[h].fileName]
  <2>1. disk'[i] = disk[i] /\ disk[i] \in Seq(Content)
    BY <1>2, <1>4 DEF FileInv, Types
  <2> QED
    BY <2>1 DEF Keeps
<1> QED
  BY <1>3, <1>4

(***************************************************************************)
(* Used through one handle at a time, no appendEmptyBlock and no           *)
(* ensureCapacity ever cuts a block off the file, although both set the    *)
(* size of the file from a count that may be out of date.                  *)
(***************************************************************************)
THEOREM AppendsOnlyExtend ==
  ASSUME ~Shared
  PROVE  Spec => AppendKeepsBlocks
<1> DEFINE Extends == last'.op \in {"appendEmptyBlock", "ensureCapacity"} =>
             \A i \in Inodes : Keeps(disk[i], disk'[i])
<1>1. ASSUME FileInv, UNCHANGED disk PROVE Extends
  BY <1>1 DEF FileInv, Types, Keeps
<1>2. ASSUME FileInv, NEW h \in Handles, Open(h) \/ CanReopen(h)
      PROVE  /\ HandleInv(h)
             /\ NamedFile(h) \in Seq(Content)
             /\ handle[h].totalNumPages \in Nat
             /\ Len(NamedFile(h)) <= handle[h].totalNumPages + 1
  <2>1. HandleInv(h)
    BY <1>2 DEF CanReopen, FileInv
  <2> QED
    BY <1>2, <2>1 DEF FileInv, Types, Handle, HandleInv, NamedFile, File
<1>3. ASSUME FileInv, NEW h \in Handles, appendEmptyBlock(h) PROVE Extends
  <2>1. CASE UNCHANGED disk
    BY <1>1, <1>3, <2>1
  <2>2. CASE /\ CanReopen(h)
             /\ \E file \in ShortWrites(AppendEmptyBlock(NamedFile(h), handle[h].totalNumPages)) :
                  Reopen(h, handle[h].totalNumPages + 1, file, 1)
    <3>1. PICK file \in ShortWrites(AppendEmptyBlock(NamedFile(h), handle[h].totalNumPages)) :
                  Reopen(h, handle[h].totalNumPages + 1, file, 1)
      BY <2>2
    <3>2. Keeps(NamedFile(h), file)
      BY <1>2, <1>3, <2>2, ExtendKeeps
    <3> QED
      BY <1>3, <2>2, <3>1, <3>2, ReopenKeeps
  <2> QED
    BY <1>3, <2>1, <2>2 DEF appendEmptyBlock
<1>4. ASSUME FileInv, NEW h \in Handles, NEW n \in PageNums, ensureCapacity(n, h) PROVE Extends
  <2>1. CASE UNCHANGED disk
    BY <1>1, <1>4, <2>1
  <2>2. CASE /\ CanReopen(h)
             /\ handle[h].totalNumPages < n
             /\ \E failed \in IF DiskErrors THEN 0..MaxStreams ELSE {0},
                   file \in ShortWrites(EnsureCapacity(NamedFile(h), handle[h].totalNumPages, n)) :
                  Reopen(h, n, file, n - handle[h].totalNumPages + failed)
    <3>1. PICK failed \in IF DiskErrors THEN 0..MaxStreams ELSE {0},
               file \in ShortWrites(EnsureCapacity(NamedFile(h), handle[h].totalNumPages, n)) :
                  Reopen(h, n, file, n - handle[h].totalNumPages + failed)
      BY <2>2
    <3>2. n \in Nat /\ n > handle[h].totalNumPages
      BY <1>2, <1>4, <2>2, BoundsAssumption DEF PageNums
    <3>3. Keeps(NamedFile(h), file)
      BY <1>2, <1>4, <2>2, <3>2, ExtendKeeps
    <3> QED
      BY <1>4, <2>2, <3>1, <3>3, ReopenKeeps
  <2> QED
    BY <1>4, <2>1, <2>2 DEF ensureCapacity
<1>5. ASSUME NEW f \in FileNames, createPageFile(f) \/ destroyPageFile(f)
      PROVE  Extends
  BY <1>5 DEF createPageFile, destroyPageFile, Return
<1>6. ASSUME NEW h \in Handles,
             \/ \E f \in FileNames : openPageFile(f, h)
             \/ closePageFile(h)
             \/ \E p \in PageNums : readBlock(p, h)
             \/ readFirstBlock(h) \/ readPreviousBlock(h) \/ readCurrentBlock(h)
             \/ readNextBlock(h) \/ readLastBlock(h)
             \/ \E p \in PageNums, data \in Data : writeBlock(p, h, data)
             \/ \E data \in Data : writeCurrentBlock(h, data)
      PROVE  Extends
  BY <1>6 DEF openPageFile, closePageFile, readBlock, readFirstBlock,
     readPreviousBlock, readCurrentBlock, readNextBlock, readLastBlock, writeBlock,
     writeCurrentBlock, Return, NotFound, ReadWithoutMoving, WriteFailed
<1>7. ASSUME FileInv, [Next]_vars PROVE Extends
  <2>1. CASE UNCHANGED vars
    BY <1>1, <1>7, <2>1 DEF vars
  <2>2. CASE Next
    <3> HIDE DEF Extends
    <3> QED
      BY <1>3, <1>4, <1>5, <1>6, <1>7, <2>2 DEF Next
  <2> QED
    BY <1>7, <2>1, <2>2
<1>8. Extends <=> (last'.op \in {"appendEmptyBlock", "ensureCapacity"} =>
       \A i \in Inodes :
         /\ Len(disk[i]) <= Len(disk'[i])
         /\ \A k \in 1..Len(disk[i]) : disk'[i][k] = disk[i][k])
  BY DEF Keeps
<1> QED
  BY <1>7, <1>8, FileInvariance, PTL DEF Spec, AppendKeepsBlocks
=============================================================================
