----------------------------- MODULE StorageMgr -----------------------------
(***************************************************************************)
(* The storage manager (storage_mgr.c): page files opened through          *)
(* SM_FileHandles.                                                         *)
(*                                                                         *)
(* A handle is a struct in the caller's memory: the name it was opened     *)
(* with, a page count taken when the file was opened, the current page     *)
(* position, and the FILE stream.  Nothing ties it to the other handles on *)
(* the same file, and appendEmptyBlock replaces its stream by a new one,   *)
(* opened by name, without closing the old one.  The model therefore keeps *)
(* the directory (which name leads to which inode), the inodes, and how    *)
(* many streams are open on each, apart from the handles.                  *)
(*                                                                         *)
(* fwrite and fread move whole PAGE_SIZE blocks, which the C library       *)
(* passes to the kernel at once, so a stream holds no data of its own.     *)
(***************************************************************************)
EXTENDS PageFile, Integers, FiniteSets

CONSTANTS
  Handles,     \* the SM_FileHandle structs of the callers
  FileNames,   \* names of page files
  Inodes,      \* the files behind the names
  Data,        \* page contents the callers write
  NULL,        \* no stream, no name, no inode
  Shared,      \* TRUE: a file may be opened by several handles, and created
               \* or removed while it is open, and a handle be used for an
               \* append after it was closed; FALSE: one handle at a time
  DiskErrors,  \* TRUE: write and ftruncate may fail
  MaxPages,    \* bound: pages a file may have before a call extends it
  MaxStreams   \* bound: streams open on one inode before a call opens one

ASSUME SwitchAssumption == Shared \in BOOLEAN /\ DiskErrors \in BOOLEAN
ASSUME BoundsAssumption == MaxPages \in Nat /\ MaxStreams \in Nat
ASSUME NullAssumption == NULL \notin FileNames \cup Inodes

VARIABLES
  dir,      \* name -> inode, NULL when no such file exists
  disk,     \* inode -> sequence of pages
  streams,  \* inode -> number of FILE streams open on it
  handle,   \* handle -> SM_FileHandle
  last      \* the call that returned last: its name, handle and return code

vars == <<dir, disk, streams, handle, last>>

Content == Data \cup {Zero, Junk}

(***************************************************************************)
(* mgmtInfo is the stream, here the inode it is open on; `live' is FALSE   *)
(* once fclose has been called on it (closePageFile leaves the pointer).   *)
(***************************************************************************)
Handle == [fileName: FileNames \cup {NULL}, totalNumPages: Nat,
           curPagePos: Nat, mgmtInfo: Inodes \cup {NULL}, live: BOOLEAN]

Ops == {"none", "createPageFile", "openPageFile", "closePageFile",
        "destroyPageFile", "readBlock", "readFirstBlock", "readPreviousBlock",
        "readCurrentBlock", "readNextBlock", "readLastBlock", "writeBlock",
        "writeCurrentBlock", "appendEmptyBlock", "ensureCapacity"}
RCs == {"RC_OK", "RC_FILE_NOT_PAGE_SIZE", "RC_FILE_NOT_FOUND",
        "RC_FILE_HANDLE_NOT_INIT", "RC_FILE_NOT_DELETED",
        "RC_READ_NON_EXISTING_PAGE", "RC_BLOCK_READ_ERROR",
        "RC_PREV_BLOCK_NOT_EXIST", "RC_NEXT_BLOCK_NOT_EXIST",
        "RC_WRITE_NON_EXISTING_PAGE", "RC_WRITE_FAILED",
        "RC_BLOCK_APPEND_ERROR"}

TypeOK ==
  /\ dir \in [FileNames -> Inodes \cup {NULL}]
  /\ disk \in [Inodes -> Seq(Content)]
  /\ streams \in [Inodes -> Int]
  /\ handle \in [Handles -> Handle]
  /\ last \in [op: Ops, handle: Handles \cup {NULL}, rc: RCs]

Init ==
  /\ dir = [f \in FileNames |-> NULL]
  /\ disk = [i \in Inodes |-> <<>>]
  /\ streams = [i \in Inodes |-> 0]
  /\ handle = [h \in Handles |->
       [fileName |-> NULL, totalNumPages |-> 0, curPagePos |-> 0,
        mgmtInfo |-> NULL, live |-> FALSE]]
  /\ last = [op |-> "none", handle |-> NULL, rc |-> "RC_OK"]

-----------------------------------------------------------------------------
Return(op, h, rc) == last' = [op |-> op, handle |-> h, rc |-> rc]

\* A call fails before it does anything when the handle has no stream.
NoStream(h) == handle[h].mgmtInfo = NULL
\* The handle's stream is open: the calls that use it are defined.
Open(h) == handle[h].live

File(h) == disk[handle[h].mgmtInfo]

\* Handles whose stream is open on a file of this name.
Users(f) == {h \in Handles : Open(h) /\ handle[h].fileName = f}

Unused == {i \in Inodes : streams[i] = 0 /\ \A f \in FileNames : dir[f] # i}

(***************************************************************************)
(* createPageFile: fopen "w+" empties a file that exists, under the        *)
(* streams open on it, and one page of zeroes is written.  When the write  *)
(* fails the stream is not closed.                                         *)
(***************************************************************************)
createPageFile(f) ==
  /\ Shared \/ Users(f) = {}
  /\ \E i \in IF dir[f] = NULL THEN Unused ELSE {dir[f]} :
       /\ dir' = [dir EXCEPT ![f] = i]
       /\ \/ /\ disk' = [disk EXCEPT ![i] = <<Zero>>]
             /\ Return("createPageFile", NULL, "RC_OK")
             /\ UNCHANGED streams
          \/ /\ DiskErrors
             /\ streams[i] < MaxStreams
             /\ disk' = [disk EXCEPT ![i] = <<>>]
             /\ streams' = [streams EXCEPT ![i] = @ + 1]
             /\ Return("createPageFile", NULL, "RC_FILE_NOT_PAGE_SIZE")
  /\ UNCHANGED handle

\* Mutations of openPageFile: the handle keeps the position or the name it had
\* before, or is given a stream that was closed after the size was taken.
OpenedWith(f, h, opens, name, position) ==
  /\ ~Open(h)
  /\ Shared \/ Users(f) = {}
  /\ dir[f] # NULL
  /\ streams[dir[f]] < MaxStreams
  /\ streams' = [streams EXCEPT ![dir[f]] = @ + opens]
  /\ handle' = [handle EXCEPT ![h] =
       [fileName |-> name, totalNumPages |-> Len(disk[dir[f]]),
        curPagePos |-> position, mgmtInfo |-> dir[f], live |-> TRUE]]
  /\ Return("openPageFile", h, "RC_OK")
  /\ UNCHANGED <<dir, disk>>
openPageFile_KeepsPosition(f, h) == OpenedWith(f, h, 1, f, handle[h].curPagePos)
openPageFile_KeepsName(f, h) == OpenedWith(f, h, 1, handle[h].fileName, 0)
openPageFile_Closed(f, h) == OpenedWith(f, h, 0, f, 0)

(***************************************************************************)
(* openPageFile overwrites the handle, whatever it was.                    *)
(***************************************************************************)
openPageFile(f, h) ==
  /\ ~Open(h)
  /\ Shared \/ Users(f) = {}
  /\ \/ /\ dir[f] = NULL
        /\ Return("openPageFile", h, "RC_FILE_NOT_FOUND")
        /\ UNCHANGED <<streams, handle>>
     \/ /\ dir[f] # NULL
        /\ streams[dir[f]] < MaxStreams
        /\ streams' = [streams EXCEPT ![dir[f]] = @ + 1]
        /\ handle' = [handle EXCEPT ![h] =
             [fileName |-> f, totalNumPages |-> Len(disk[dir[f]]),
              curPagePos |-> 0, mgmtInfo |-> dir[f], live |-> TRUE]]
        /\ Return("openPageFile", h, "RC_OK")
  /\ UNCHANGED <<dir, disk>>

closePageFile(h) ==
  /\ \/ /\ NoStream(h)
        /\ Return("closePageFile", h, "RC_FILE_HANDLE_NOT_INIT")
        /\ UNCHANGED <<streams, handle>>
     \/ /\ Open(h)
        /\ streams' = [streams EXCEPT ![handle[h].mgmtInfo] = @ - 1]
        /\ handle' = [handle EXCEPT ![h].live = FALSE]
        /\ Return("closePageFile", h, "RC_OK")
  /\ UNCHANGED <<dir, disk>>

(***************************************************************************)
(* destroyPageFile removes the name; the inode lives on under the streams  *)
(* that are open on it.                                                    *)
(***************************************************************************)
destroyPageFile(f) ==
  /\ Shared \/ Users(f) = {}
  /\ IF dir[f] = NULL THEN Return("destroyPageFile", NULL, "RC_FILE_NOT_DELETED")
                      ELSE Return("destroyPageFile", NULL, "RC_OK")
  /\ dir' = [dir EXCEPT ![f] = NULL]
  /\ UNCHANGED <<disk, streams, handle>>

-----------------------------------------------------------------------------
\* A call on a handle that has no stream.
NotFound(op, h) ==
  /\ NoStream(h)
  /\ Return(op, h, "RC_FILE_NOT_FOUND")
  /\ UNCHANGED <<dir, disk, streams, handle>>

readBlock(p, h) ==
  \/ NotFound("readBlock", h)
  \/ LET rc == ReadRC(File(h), handle[h].totalNumPages, p) IN
     /\ Open(h)
     /\ handle' = IF rc = "RC_OK" THEN [handle EXCEPT ![h].curPagePos = p]
                                  ELSE handle
     /\ Return("readBlock", h, rc)
     /\ UNCHANGED <<dir, disk, streams>>

(***************************************************************************)
(* The reads relative to the current position do not move it.  fread at or *)
(* behind the end of the file is RC_BLOCK_READ_ERROR.                      *)
(***************************************************************************)
FreadRC(h, p) == IF p < Len(File(h)) THEN "RC_OK" ELSE "RC_BLOCK_READ_ERROR"

ReadWithoutMoving(op, h, rc) ==
  /\ Open(h)
  /\ Return(op, h, rc)
  /\ UNCHANGED <<dir, disk, streams, handle>>

readFirstBlock(h) ==
  \/ NotFound("readFirstBlock", h)
  \/ ReadWithoutMoving("readFirstBlock", h, FreadRC(h, 0))

\* Mutation: the position moves back without a look at where it is.
readPreviousBlock_Unchecked(h) ==
  /\ Open(h)
  /\ handle' = [handle EXCEPT ![h].curPagePos = @ - 1]
  /\ Return("readPreviousBlock", h, "RC_OK")
  /\ UNCHANGED <<dir, disk, streams>>

readPreviousBlock(h) ==
  \/ NotFound("readPreviousBlock", h)
  \/ /\ handle[h].curPagePos = 0
     /\ ReadWithoutMoving("readPreviousBlock", h, "RC_PREV_BLOCK_NOT_EXIST")
  \/ /\ handle[h].curPagePos # 0
     /\ ReadWithoutMoving("readPreviousBlock", h,
                          FreadRC(h, handle[h].curPagePos - 1))

readCurrentBlock(h) ==
  \/ NotFound("readCurrentBlock", h)
  \/ ReadWithoutMoving("readCurrentBlock", h, FreadRC(h, handle[h].curPagePos))

NextPageExists(h) == handle[h].curPagePos + 1 <= handle[h].totalNumPages

readNextBlock(h) ==
  \/ NotFound("readNextBlock", h)
  \/ /\ ~NextPageExists(h)
     /\ ReadWithoutMoving("readNextBlock", h, "RC_NEXT_BLOCK_NOT_EXIST")
  \/ /\ NextPageExists(h)
     /\ ReadWithoutMoving("readNextBlock", h,
                          FreadRC(h, handle[h].curPagePos + 1))

\* The last block is found from the end of the file, not from the count.
readLastBlock(h) ==
  \/ NotFound("readLastBlock", h)
  \/ ReadWithoutMoving("readLastBlock", h, FreadRC(h, 0))

-----------------------------------------------------------------------------
\* fwrite failed: nothing reached the file.
WriteFailed(op, h) ==
  /\ DiskErrors
  /\ Open(h)
  /\ Return(op, h, "RC_WRITE_FAILED")
  /\ UNCHANGED <<dir, disk, streams, handle>>

writeBlock(p, h, data) ==
  \/ NotFound("writeBlock", h)
  \/ /\ Open(h)
     /\ WriteRC(handle[h].totalNumPages, p) # "RC_OK"
     /\ Return("writeBlock", h, WriteRC(handle[h].totalNumPages, p))
     /\ UNCHANGED <<dir, disk, streams, handle>>
  \/ /\ Open(h)
     /\ WriteRC(handle[h].totalNumPages, p) = "RC_OK"
     /\ p < MaxPages
     /\ disk' = [disk EXCEPT ![handle[h].mgmtInfo] =
                   WriteBlock(@, handle[h].totalNumPages, p, data)]
     /\ handle' = [handle EXCEPT ![h].curPagePos = p]
     /\ Return("writeBlock", h, "RC_OK")
     /\ UNCHANGED <<dir, streams>>
  \/ /\ WriteRC(handle[h].totalNumPages, p) = "RC_OK"
     /\ WriteFailed("writeBlock", h)

writeCurrentBlock(h, data) ==
  \/ NotFound("writeCurrentBlock", h)
  \/ /\ Open(h)
     /\ disk' = [disk EXCEPT ![handle[h].mgmtInfo] =
                   Store(@, handle[h].curPagePos, data)]
     /\ Return("writeCurrentBlock", h, "RC_OK")
     /\ UNCHANGED <<dir, streams, handle>>
  \/ WriteFailed("writeCurrentBlock", h)

(***************************************************************************)
(* appendEmptyBlock opens the file again, by name, changes it through the  *)
(* new stream and leaves that stream in the handle.  The old stream, if    *)
(* there is one, stays open and nobody has it any more.  The name must     *)
(* still lead to a file: fopen's result is used unchecked.                 *)
(***************************************************************************)
CanReopen(h) ==
  /\ handle[h].fileName # NULL
  /\ dir[handle[h].fileName] # NULL
  /\ Shared \/ Open(h)

\* h is left with n pages counted, the file with content file, after `opens'
\* calls of fopen.
Reopen(h, n, file, opens) ==
  LET i == dir[handle[h].fileName] IN
  /\ streams[i] + opens <= MaxStreams
  /\ streams' = [streams EXCEPT ![i] = @ + opens]
  /\ disk' = [disk EXCEPT ![i] = file]
  /\ handle' = [handle EXCEPT ![h].totalNumPages = n, ![h].mgmtInfo = i,
                              ![h].live = TRUE]
  /\ UNCHANGED dir

\* The bytes behind the ftruncate are written without looking at fwrite's
\* result, so a full disk may leave out the last new page.
ShortWrites(file) ==
  {file} \cup IF DiskErrors THEN {Resize(file, Len(file) - 1)} ELSE {}

NamedFile(h) == disk[dir[handle[h].fileName]]

appendEmptyBlock(h) ==
  LET total == handle[h].totalNumPages IN
  /\ CanReopen(h)
  /\ \/ /\ total + 1 < MaxPages
        /\ \E file \in ShortWrites(AppendEmptyBlock(NamedFile(h), total)) :
             Reopen(h, total + 1, file, 1)
        /\ Return("appendEmptyBlock", h, "RC_OK")
     \/ /\ DiskErrors
        /\ streams[dir[handle[h].fileName]] < MaxStreams
        /\ streams' = [streams EXCEPT ![dir[handle[h].fileName]] = @ + 1]
        /\ Return("appendEmptyBlock", h, "RC_BLOCK_APPEND_ERROR")
        /\ UNCHANGED <<dir, disk, handle>>

(***************************************************************************)
(* ensureCapacity ignores the result of appendEmptyBlock and calls it      *)
(* again: `failed' of the calls did not succeed before the last one did.   *)
(***************************************************************************)
ensureCapacity(n, h) ==
  LET total == handle[h].totalNumPages IN
  /\ \/ /\ CanReopen(h)
        /\ total < n
        /\ n < MaxPages
        /\ \E failed \in IF DiskErrors THEN 0..MaxStreams ELSE {0},
              file \in ShortWrites(EnsureCapacity(NamedFile(h), total, n)) :
             Reopen(h, n, file, n - total + failed)
     \/ /\ n <= total
        /\ UNCHANGED <<dir, disk, streams, handle>>
  /\ Return("ensureCapacity", h, "RC_OK")

-----------------------------------------------------------------------------
PageNums == 0..MaxPages

Next ==
  \/ \E f \in FileNames : createPageFile(f) \/ destroyPageFile(f)
  \/ \E h \in Handles :
       \/ \E f \in FileNames : openPageFile(f, h)
       \/ closePageFile(h)
       \/ \E p \in PageNums : readBlock(p, h)
       \/ readFirstBlock(h) \/ readPreviousBlock(h) \/ readCurrentBlock(h)
       \/ readNextBlock(h) \/ readLastBlock(h)
       \/ \E p \in PageNums, data \in Data : writeBlock(p, h, data)
       \/ \E data \in Data : writeCurrentBlock(h, data)
       \/ appendEmptyBlock(h)
       \/ \E n \in PageNums : ensureCapacity(n, h)

Spec == Init /\ [][Next]_vars

-----------------------------------------------------------------------------
(***************************************************************************)
(* Properties.                                                             *)
(***************************************************************************)

\* The count a handle took when it was opened stays within one page of the
\* size of the file through every append, ensureCapacity and write behind
\* the end, as long as one handle at a time is used.  It is what lets
\* readBlock and ensureCapacity decide from the count alone; it breaks as
\* soon as two handles share the file.
TotalTracksFile ==
  \A h \in Handles : Open(h) =>
    /\ handle[h].totalNumPages <= Len(File(h))
    /\ Len(File(h)) <= handle[h].totalNumPages + 1

\* The current position of an open handle is always on a block of the file,
\* so that readCurrentBlock and writeCurrentBlock, which do not check it,
\* stay inside the file.  Only a file whose creation failed has no block.
CurrentBlockExists ==
  \A h \in Handles :
    Open(h) /\ File(h) # <<>> => handle[h].curPagePos < Len(File(h))

\* The name of an open handle leads to the file its stream is open on:
\* appendEmptyBlock reopens by name and so extends the file that is read.
NameReachesStream ==
  \A h \in Handles : Open(h) =>
    /\ handle[h].fileName # NULL
    /\ dir[handle[h].fileName] = handle[h].mgmtInfo

\* A handle never holds a stream that is not counted as open: however often
\* appendEmptyBlock replaces streams, close and reopen stay balanced.
StreamsCoverHandles ==
  \A i \in Inodes :
    Cardinality({h \in Handles : Open(h) /\ handle[h].mgmtInfo = i})
      <= streams[i]

\* Making a file longer keeps every block it had (appendEmptyBlock and
\* ensureCapacity set the size with ftruncate, from the handle's count).
AppendKeepsBlocks ==
  [][last'.op \in {"appendEmptyBlock", "ensureCapacity"} =>
       \A i \in Inodes :
         /\ Len(disk[i]) <= Len(disk'[i])
         /\ \A k \in 1..Len(disk[i]) : disk'[i][k] = disk[i][k]]_vars

=============================================================================
