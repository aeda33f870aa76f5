------------------------------ MODULE PageFile ------------------------------
(***************************************************************************)
(* The page file every layer of the system works on, and what the block    *)
(* operations of storage_mgr.c do to it.                                   *)
(*                                                                         *)
(* A file is the sequence of its pages: page p of the code is element      *)
(* p + 1.  `total' is the totalNumPages of the handle a call goes through, *)
(* which is not the size of the file: openPageFile computes it once, and   *)
(* later calls through this or another handle change the size without it.  *)
(* Every operator is the effect of one call; none needs recursion, so that *)
(* the modules that use them can be proved about.                          *)
(***************************************************************************)
EXTENDS Naturals, Sequences

CONSTANTS
  Zero,   \* a page of '\0' bytes, what createPageFile and ftruncate produce
  Junk    \* a page whose bytes nobody wrote: memory fresh from malloc

(***************************************************************************)
(* POSIX ftruncate: cut the file, or extend it with zero bytes.            *)
(***************************************************************************)
Resize(file, n) ==
  [i \in 1..n |-> IF i <= Len(file) THEN file[i] ELSE Zero]

(***************************************************************************)
(* POSIX write of a whole page at page offset p.  Past the end of the file *)
(* the gap reads as zero bytes.                                            *)
(***************************************************************************)
Store(file, p, data) ==
  [i \in 1..(IF p < Len(file) THEN Len(file) ELSE p + 1) |->
     IF i = p + 1 THEN data ELSE IF i <= Len(file) THEN file[i] ELSE Zero]

(***************************************************************************)
(* readBlock: the size check compares with the handle's count and lets     *)
(* pageNum = totalNumPages through; what fread then returns depends on the *)
(* file itself.                                                            *)
(***************************************************************************)
ReadRC(file, total, p) ==
  IF total < p THEN "RC_READ_NON_EXISTING_PAGE"
  ELSE IF p < Len(file) THEN "RC_OK" ELSE "RC_BLOCK_READ_ERROR"

\* memPage after readBlock: the callers in the buffer manager ignore the
\* return code, so a failed read leaves what was in memory, `mem'.
ReadBlock(file, total, p, mem) ==
  IF ReadRC(file, total, p) = "RC_OK" THEN file[p + 1] ELSE mem

\* Mutation: the page behind the last one counted may not be written.
WriteRC_BelowCount(total, p) ==
  IF total <= p THEN "RC_WRITE_NON_EXISTING_PAGE" ELSE "RC_OK"

(***************************************************************************)
(* writeBlock: page totalNumPages may be written and extends the file; the *)
(* handle's count is not updated.                                          *)
(***************************************************************************)
WriteRC(total, p) ==
  IF total < p THEN "RC_WRITE_NON_EXISTING_PAGE" ELSE "RC_OK"

WriteBlock(file, total, p, data) ==
  IF WriteRC(total, p) = "RC_OK" THEN Store(file, p, data) ELSE file

\* Mutation: the file is first set to the count, not to one page more.
AppendEmptyBlock_ToCount(file, total) == Append(Resize(file, total), Zero)

(***************************************************************************)
(* appendEmptyBlock: ftruncate to totalNumPages + 1 pages, and then        *)
(* PAGE_SIZE more zero bytes behind the end.  The ftruncate cuts the file  *)
(* when the handle's count is out of date.                                 *)
(***************************************************************************)
AppendEmptyBlock(file, total) == Append(Resize(file, total + 1), Zero)

\* Mutation: the loop runs once too often.
EnsureCapacity_OnceMore(file, total, n) ==
  IF total >= n THEN file ELSE Resize(Resize(file, total + 1), n + 2)

(***************************************************************************)
(* ensureCapacity appends until the handle counts n pages.  Only the first *)
(* append can cut the file; each of them leaves one page more than the     *)
(* handle counts, so the loop ends with n + 1 pages in the file.  That     *)
(* this is the loop of appends is theorem EnsureCapacityIsLoop of          *)
(* StorageMgrProofs.                                                       *)
(***************************************************************************)
EnsureCapacity(file, total, n) ==
  IF total >= n THEN file ELSE Resize(Resize(file, total + 1), n + 1)
=============================================================================
