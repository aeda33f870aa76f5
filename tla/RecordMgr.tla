----------------------------- MODULE RecordMgr -----------------------------
(***************************************************************************)
(* The record manager (record_mgr.c): tables, records and scans on top of  *)
(* a buffer pool and a page file for each open table.                      *)
(*                                                                         *)
(* Page 0 of a table's file holds its schema, and every other page one     *)
(* record, so that the page number is the record's identifier.  How many   *)
(* records there are is kept in one global variable, total_pages, for all  *)
(* tables and only in memory.                                              *)
(*                                                                         *)
(* The process is sequential, and each operation unpins what it has pinned *)
(* and forces what it has written before it returns.  Between operations   *)
(* no frame is dirty and only page 0 is pinned, so an operation is one     *)
(* step; a crash inside one leaves the file as before it or as after it,   *)
(* except in createTable, which has an action for that.  The pool is the   *)
(* one of BufferMgr, reduced to what is left of it between operations: the *)
(* pages and contents of its frames and the position of fifo.              *)
(***************************************************************************)
EXTENDS PageFile, Integers, FiniteSets

CONSTANTS
  Names,       \* names of tables
  Rels,        \* the caller's RM_TableData
  Scans,       \* the caller's RM_ScanHandle
  Values,      \* contents of a record, as the serializer writes them
  Conditions,  \* what a scan may ask for: sets of values, or NULL
  Schema,      \* a page with a serialized schema
  PoolSize,    \* frames of a table's pool; 6 in openTable
  MaxRecords,  \* bound: records are inserted up to this number
  NULL,
  Gone         \* a row of the abstract table that is deleted

ASSUME NullAssumption == NULL \notin Names
ASSUME PoolAssumption == PoolSize \in Nat /\ PoolSize >= 2
ASSUME MaxAssumption == MaxRecords \in Nat
ASSUME ConditionsAssumption == Conditions \subseteq (SUBSET Values) \cup {NULL}
ASSUME ContentAssumption ==
  /\ {Zero, Junk, Schema, NULL, Gone} \cap Values = {}
  /\ Schema \notin {Zero, Junk, NULL, Gone}
  /\ Zero # Junk /\ NULL # Gone

VARIABLES
  file,         \* name -> pages of the table's file, <<>> when there is none
  total_pages,  \* the number of records the process knows of
  name,         \* relation -> the table it has open, or NULL
  pool,         \* relation -> the pool in front of that table's file
  scan,         \* scan handle -> the scan behind it, or NULL
  last          \* the call that returned last, its return code and result

vars == <<file, total_pages, name, pool, scan, last>>

\* The page of a deleted record.  The mark stands before the text of the
\* record, in front of the bracket from which the parser reads.
Tomb(v) == <<"TOMBESTONED", v>>

\* A record begins with its bracket, a marked page with the mark.
ASSUME TombAssumption == \A v \in Values : Tomb(v) \notin Values

Contents == {Zero, Junk, Schema} \cup Values \cup {Tomb(v) : v \in Values}

\* Identifiers a caller may pass: those of records, that of the schema page
\* and one out of range on each side.
RIDs == -1..(MaxRecords + 1)

Return(op, rc, out) == last' = [op |-> op, rc |-> rc, out |-> out]

\* A Record of the caller: the identifier it was asked for with, or that the
\* call has set, and its data.
Record(p, v) == [id |-> p, data |-> v]

\* A pool that does not exist.
NoPool == [frames |-> <<>>, position |-> 0]

Init ==
  /\ file = [n \in Names |-> <<>>]
  /\ total_pages = 0
  /\ name = [r \in Rels |-> NULL]
  /\ pool = [r \in Rels |-> NoPool]
  /\ scan = [s \in Scans |-> NULL]
  /\ last = [op |-> "initRecordManager", rc |-> "RC_OK", out |-> NULL]

Exists(n) == file[n] # <<>>

\* The environment: nobody creates or deletes a table while it is open.
NotOpen(n) == \A r \in Rels : name[r] # n

IsOpen(r) == name[r] # NULL

-----------------------------------------------------------------------------
(***************************************************************************)
(* The pool of an open table.  Frames are filled in order; the frame of    *)
(* page 0 is the first and stays pinned while the table is open, so that   *)
(* fifo steps over it.                                                     *)
(***************************************************************************)
Holds(b, p) == \E i \in DOMAIN b.frames : b.frames[i].page = p

Victim(b) == IF b.position = 0 THEN 2 ELSE b.position + 1

Slot(b, p) ==
  IF Holds(b, p)
  THEN CHOOSE i \in DOMAIN b.frames : b.frames[i].page = p
  ELSE IF Len(b.frames) < PoolSize THEN Len(b.frames) + 1
  ELSE Victim(b)

\* What the caller of pinPage sees of page p of table n.
Shown(n, b, p) ==
  IF Holds(b, p) THEN b.frames[Slot(b, p)].data
  ELSE ReadBlock(file[n], Len(file[n]), p, Junk)

\* The pool after page p has been pinned, filled with data if it is written,
\* and unpinned.
Using(b, p, data) ==
  LET frame == [page |-> p, data |-> data] IN
  [frames |-> IF Slot(b, p) > Len(b.frames) THEN Append(b.frames, frame)
              ELSE [b.frames EXCEPT ![Slot(b, p)] = frame],
   position |-> IF Holds(b, p) THEN b.position
                ELSE (b.position + 1) % PoolSize]

\* The pool after the pages from `first' to `end' were read in this order.
ReadingAll(n, b, first, end) ==
  LET after[p \in (first - 1)..end] ==
        IF p < first THEN b
        ELSE Using(after[p - 1], p, Shown(n, after[p - 1], p))
  IN IF end < first THEN b ELSE after[end]

\* A call on relation r reads the pages from `first' to `end'.
Read(r, first, end) ==
  pool' = [pool EXCEPT ![r] = ReadingAll(name[r], @, first, end)]

\* The scans after page p was written: those that have passed it, or are not
\* on their way, do not see what it holds now.
Disturbed(p) ==
  [s \in Scans |-> IF scan[s] = NULL THEN NULL
                   ELSE IF scan[s].page = 1 \/ p < scan[s].page
                   THEN [scan[s] EXCEPT !.unseen = @ \cup {p}]
                   ELSE scan[s]]

\* Mutation: the page is marked and unpinned, and not forced.
Write_NotForced(r, p, data) ==
  /\ pool' = [pool EXCEPT ![r] = Using(@, p, data)]
  /\ scan' = Disturbed(p)
  /\ UNCHANGED file

\* pinPage, the new content, markDirty, unpinPage and forcePage.  A page more
\* than one behind the end of the file stays in the pool only.
Write(r, p, data) ==
  /\ pool' = [pool EXCEPT ![r] = Using(@, p, data)]
  /\ file' = [file EXCEPT ![name[r]] = WriteBlock(@, Len(@), p, data)]
  /\ scan' = Disturbed(p)

-----------------------------------------------------------------------------
\* Tables.

\* Mutation: the records of a table that was deleted are still counted.
createTable_KeepsCount(n) ==
  /\ NotOpen(n)
  /\ file' = [file EXCEPT ![n] = IF Exists(n) THEN <<Zero>> ELSE <<Schema>>]
  /\ Return("createTable", IF Exists(n) THEN "RC_TABLE_EXISTS" ELSE "RC_OK", NULL)
  /\ UNCHANGED <<total_pages, name, pool, scan>>

\* createPageFile is called whether or not the file is there, and empties it.
createTable(n) ==
  /\ NotOpen(n)
  /\ \/ /\ Exists(n)
        /\ file' = [file EXCEPT ![n] = <<Zero>>]
        /\ UNCHANGED total_pages
        /\ Return("createTable", "RC_TABLE_EXISTS", NULL)
     \/ /\ ~Exists(n)
        /\ file' = [file EXCEPT ![n] = <<Schema>>]
        /\ total_pages' = 0
        /\ Return("createTable", "RC_OK", NULL)
  /\ UNCHANGED <<name, pool, scan>>

\* Page 0 goes into frame 0 and stays pinned.  On any other content the
\* schema parser takes the process down, which is a Crash.
openTable(r, n) ==
  /\ ~IsOpen(r)
  /\ Exists(n)
  /\ file[n][1] = Schema
  /\ name' = [name EXCEPT ![r] = n]
  /\ pool' = [pool EXCEPT ![r] = Using(NoPool, 0, Schema)]
  /\ Return("openTable", "RC_OK", NULL)
  /\ UNCHANGED <<file, total_pages, scan>>

\* The environment closes the scans of a table before the table.
closeTable(r) ==
  /\ IsOpen(r)
  /\ \A s \in Scans : scan[s] # NULL => scan[s].rel # r
  /\ name' = [name EXCEPT ![r] = NULL]
  /\ pool' = [pool EXCEPT ![r] = NoPool]
  /\ Return("closeTable", "RC_OK", NULL)
  /\ UNCHANGED <<file, total_pages, scan>>

deleteTable(n) ==
  /\ NotOpen(n)
  /\ file' = [file EXCEPT ![n] = <<>>]
  /\ Return("deleteTable", IF Exists(n) THEN "RC_OK" ELSE "RC_FILE_NOT_DELETED", NULL)
  /\ UNCHANGED <<total_pages, name, pool, scan>>

\* Reads the pages below total_pages, and counts each read that succeeds;
\* every one does.
getNumTuples(r) ==
  /\ IsOpen(r)
  /\ Read(r, 1, total_pages - 1)
  /\ Return("getNumTuples", "RC_OK", Cardinality(1..(total_pages - 1)))
  /\ UNCHANGED <<file, total_pages, name, scan>>

-----------------------------------------------------------------------------
\* Records.

\* What stringToRecordParser makes of a page.  It skips a deletion mark with
\* everything else in front of the bracket.  On a page without a record it
\* returns anything, or takes the process down, which is a Crash.
Parses(content) ==
  IF \E v \in Values : content \in {v, Tomb(v)}
  THEN {v \in Values : content \in {v, Tomb(v)}}
  ELSE Values

FreePage == total_pages + 1

insertRecord(r, v) ==
  /\ IsOpen(r)
  /\ total_pages < MaxRecords
  /\ Write(r, FreePage, v)
  /\ total_pages' = total_pages + 1
  /\ Return("insertRecord", "RC_OK", Record(FreePage, v))
  /\ UNCHANGED name

\* Mutation: the bound is that of updateRecord.
InTable_Schema(p) == p >= 0 /\ p <= total_pages

\* Mutation: the page behind the last record is let through.
InTable_OneMore(p) == p > 0 /\ p <= total_pages + 1

InTable(p) == p > 0 /\ p <= total_pages

\* The mark is appended to memory nobody has set to '\0': what stands there
\* comes first, and may hold a bracket of its own.
Marked(content) ==
  {Junk} \cup {Tomb(v) : v \in {w \in Values : content \in {w, Tomb(w)}}}

deleteRecord(r, p) ==
  /\ IsOpen(r)
  /\ \/ /\ InTable(p)
        /\ \E content \in Marked(Shown(name[r], pool[r], p)) : Write(r, p, content)
        /\ Return("deleteRecord", "RC_OK", Record(p, NULL))
     \/ /\ ~InTable(p)
        /\ Return("deleteRecord", "RC_RM_NO_MORE_TUPLES", Record(p, NULL))
        /\ UNCHANGED <<file, pool, scan>>
  /\ UNCHANGED <<total_pages, name>>

\* The bounds differ from those of deleteRecord and getRecord: page 0, which
\* holds the schema, is let through.
updateRecord(r, p, v) ==
  /\ IsOpen(r)
  /\ \/ /\ 0 <= p /\ p <= total_pages
        /\ Write(r, p, v)
        /\ Return("updateRecord", "RC_OK", Record(p, v))
     \/ /\ p > total_pages \/ p < 0
        /\ Return("updateRecord", "RC_RM_NO_MORE_TUPLES", Record(p, v))
        /\ UNCHANGED <<file, pool, scan>>
  /\ UNCHANGED <<total_pages, name>>

\* Mutation: records are counted from the first page of the file.
getRecord_Schema(r, p) ==
  /\ IsOpen(r)
  /\ \/ /\ InTable(p)
        /\ Read(r, p - 1, p - 1)
        /\ \E v \in Parses(Shown(name[r], pool[r], p - 1)) :
             Return("getRecord", "RC_OK", Record(p, v))
     \/ /\ ~InTable(p)
        /\ Return("getRecord", "RC_RM_NO_MORE_TUPLES", Record(p, NULL))
        /\ UNCHANGED pool
  /\ UNCHANGED <<file, total_pages, name, scan>>

getRecord(r, p) ==
  /\ IsOpen(r)
  /\ \/ /\ InTable(p)
        /\ Read(r, p, p)
        /\ \E v \in Parses(Shown(name[r], pool[r], p)) :
             Return("getRecord", "RC_OK", Record(p, v))
     \/ /\ ~InTable(p)
        /\ Return("getRecord", "RC_RM_NO_MORE_TUPLES", Record(p, NULL))
        /\ UNCHANGED pool
  /\ UNCHANGED <<file, total_pages, name, scan>>

-----------------------------------------------------------------------------
(***************************************************************************)
(* Scans.  A scan is the page it reads next.  `returned', the pages a pass *)
(* has returned, and `unseen', the pages whose content the pass has not    *)
(* read, are history; a scan that has ended begins again at page 1.        *)
(***************************************************************************)
startScan(r, s, cond) ==
  /\ IsOpen(r)
  /\ scan[s] = NULL
  /\ scan' = [scan EXCEPT ![s] = [rel |-> r, cond |-> cond, page |-> 1,
                                  returned |-> {}, unseen |-> 1..MaxRecords]]
  /\ Return("startScan", "RC_OK", NULL)
  /\ UNCHANGED <<file, total_pages, name, pool>>

Found(s) == IF scan[s].page = 1 THEN {} ELSE scan[s].returned
Unseen(s) == IF scan[s].page = 1 THEN {} ELSE scan[s].unseen

\* Mutation: a scan with a condition ends early, too.
LastScanned_Short(cond) == total_pages - 1

\* The loop without a condition runs while page < total_pages, the loop with
\* one while page <= total_pages.
LastScanned(cond) == IF cond = NULL THEN total_pages - 1 ELSE total_pages

Unread(s) == scan[s].page..LastScanned(scan[s].cond)

Matches(s, v) == scan[s].cond # NULL => v \in scan[s].cond

\* What the scan finds on page p, after it has read the pages before it.
ShownTo(s, p) ==
  LET r == scan[s].rel
  IN  Shown(name[r], ReadingAll(name[r], pool[r], scan[s].page, p - 1), p)

\* The pages the loop of next goes through, each with the record it is read as.
Records(s) ==
  {got \in [Unread(s) -> Values] :
     \A p \in Unread(s) : got[p] \in Parses(ShownTo(s, p))}

\* The call returns the first record that satisfies the condition ...
nextFound(s) ==
  /\ scan[s] # NULL
  /\ \E got \in Records(s), p \in Unread(s) :
       /\ Matches(s, got[p])
       /\ \A q \in Unread(s) : q < p => ~Matches(s, got[q])
       /\ Read(scan[s].rel, scan[s].page, p)
       /\ scan' = [scan EXCEPT ![s].page = p + 1,
                               ![s].returned = Found(s) \cup {p},
                               ![s].unseen = Unseen(s)]
       /\ Return("next", "RC_OK", Record(p, got[p]))
  /\ UNCHANGED <<file, total_pages, name>>

\* ... or goes to the end and sets the scan back to the first page.
nextNone(s) ==
  /\ scan[s] # NULL
  /\ \E got \in Records(s) : \A p \in Unread(s) : ~Matches(s, got[p])
  /\ Read(scan[s].rel, scan[s].page, LastScanned(scan[s].cond))
  /\ scan' = [scan EXCEPT ![s].page = 1,
                          ![s].returned = Found(s),
                          ![s].unseen = Unseen(s)]
  /\ Return("next", "RC_RM_NO_MORE_TUPLES", NULL)
  /\ UNCHANGED <<file, total_pages, name>>

\* A scan without a condition, from its start to its end: serializeTableContent
\* writes a line for each record it returns.  serializeTableInfo reads the
\* table with getNumTuples and does nothing else to it.
serializeTableContent(r) ==
  /\ IsOpen(r)
  /\ \E got \in [1..(total_pages - 1) -> Values] :
       /\ \A p \in DOMAIN got :
            got[p] \in Parses(Shown(name[r], ReadingAll(name[r], pool[r], 1, p - 1), p))
       /\ Return("serializeTableContent", "RC_OK", got)
  /\ Read(r, 1, total_pages - 1)
  /\ UNCHANGED <<file, total_pages, name, scan>>

closeScan(s) ==
  /\ scan[s] # NULL
  /\ scan' = [scan EXCEPT ![s] = NULL]
  /\ Return("closeScan", "RC_OK", NULL)
  /\ UNCHANGED <<file, total_pages, name, pool>>

-----------------------------------------------------------------------------
\* The end of the process, and a new one.
Restarted ==
  /\ total_pages' = 0
  /\ name' = [r \in Rels |-> NULL]
  /\ pool' = [r \in Rels |-> NoPool]
  /\ scan' = [s \in Scans |-> NULL]
  /\ Return("initRecordManager", "RC_OK", NULL)

Crash == Restarted /\ UNCHANGED file

\* The process ends between createPageFile and writeBlock of createTable.
CrashInCreate(n) ==
  /\ NotOpen(n)
  /\ file' = [file EXCEPT ![n] = <<Zero>>]
  /\ Restarted

Next ==
  \/ \E n \in Names : createTable(n) \/ deleteTable(n) \/ CrashInCreate(n)
  \/ \E r \in Rels :
       \/ \E n \in Names : openTable(r, n)
       \/ closeTable(r)
       \/ getNumTuples(r) \/ serializeTableContent(r)
       \/ \E v \in Values : insertRecord(r, v)
       \/ \E p \in RIDs :
            \/ deleteRecord(r, p)
            \/ getRecord(r, p)
            \/ \E v \in Values : updateRecord(r, p, v)
       \/ \E s \in Scans, cond \in Conditions : startScan(r, s, cond)
  \/ \E s \in Scans : nextFound(s) \/ nextNone(s) \/ closeScan(s)
  \/ Crash

Spec == Init /\ [][Next]_vars

-----------------------------------------------------------------------------
\* Properties.

Frame == [page : 0..MaxRecords, data : Contents]

\* The types of the variables.  In particular no frame holds a page that is
\* neither the schema's nor a record's, whatever identifier a caller passes.
TypeOK ==
  /\ \A n \in Names : file[n] \in Seq(Contents) /\ Len(file[n]) <= MaxRecords + 1
  /\ total_pages \in 0..MaxRecords
  /\ \A r \in Rels : IsOpen(r) =>
       /\ name[r] \in Names
       /\ pool[r].frames \in Seq(Frame)
       /\ Len(pool[r].frames) \in 1..PoolSize
       /\ pool[r].position \in 0..(PoolSize - 1)
  /\ \A s \in Scans : scan[s] # NULL =>
       /\ IsOpen(scan[s].rel)
       /\ scan[s].page \in 1..(MaxRecords + 1)
       /\ scan[s].returned \subseteq 1..MaxRecords
       /\ scan[s].unseen \subseteq 0..MaxRecords

\* The global count never says more than the file of an open table holds:
\* otherwise an insert would go behind the end of the file, where the pool
\* drops it without a word.
RecordsInFile ==
  \A r \in Rels : IsOpen(r) => total_pages < Len(file[name[r]])

\* The frames of an open table show what is in its file, over every eviction
\* by the reads of getRecord, getNumTuples and the scans: after an insert, an
\* update or a deletion has returned, its effect is in the file.
PoolMatchesFile ==
  \A r \in Rels : IsOpen(r) =>
    \A i \in DOMAIN pool[r].frames :
      LET f == pool[r].frames[i] IN
      f.page < Len(file[name[r]]) /\ file[name[r]][f.page + 1] = f.data

\* A scan with a condition that has come to its end has returned the records
\* that satisfy the condition, each one that was not written behind it, and
\* none that does not, whatever was inserted, updated and deleted between two
\* calls of next.  Of deleted records it says nothing; see DeletedNotScanned.
ScanComplete ==
  \A s \in Scans :
    /\ scan[s] # NULL
    /\ scan[s].cond # NULL
    /\ scan[s].page = 1
    => \A p \in (1..total_pages) \ scan[s].unseen :
         LET content == file[name[scan[s].rel]][p + 1] IN
         content \in Values =>
           (p \in scan[s].returned <=> content \in scan[s].cond)

\* The mark of deleteRecord can still be read on page p of table n.
Deleted(n, p) == \E v \in Values : file[n][p + 1] = Tomb(v)

\* next returns no record that has been deleted ("Deleting the record from the
\* table.", record_mgr.c:229).
DeletedNotScanned ==
  [][\A s \in Scans :
       nextFound(s) => ~Deleted(name[scan[s].rel], last'.out.id)]_vars

\* insertRecord puts the record on a page that holds none ("Traversing to the
\* last page available to insert the record", record_mgr.c:173): it never
\* overwrites a record that was inserted before and not deleted.
InsertKeepsRecords ==
  [][\A r \in Rels, v \in Values : 
       insertRecord(r, v) /\ FreePage < Len(file[name[r]]) =>
         file[name[r]][FreePage + 1] \notin Values]_vars

\* A table keeps its schema until it is created again or deleted: no insert,
\* no eviction and no record of another page goes over page 0.  Only
\* updateRecord lets the caller write a record there.
SchemaSurvives ==
  [][\A n \in Names : Exists(n) /\ file[n][1] = Schema =>
       \/ Exists(n)' /\ file'[n][1] = Schema
       \/ createTable(n) \/ deleteTable(n) \/ CrashInCreate(n)
       \/ \E r \in Rels, v \in Values : name[r] = n /\ updateRecord(r, 0, v)]_vars

-----------------------------------------------------------------------------
(***************************************************************************)
(* The refinement of RecordTable, for one table and one relation: row p is *)
(* the record on page p.                                                   *)
(***************************************************************************)
Row(n, p) ==
  IF p < Len(file[n]) /\ file[n][p + 1] \in Values THEN file[n][p + 1] ELSE Gone

TheTable == CHOOSE n \in Names : TRUE

rows == [p \in 1..total_pages |-> Row(TheTable, p)]

\* What RecordTable knows of the call that returned last.
RowCalls == {"insertRecord", "updateRecord", "deleteRecord", "getRecord",
             "createTable", "deleteTable", "initRecordManager"}

reply ==
  IF last.op \in RowCalls \/ (last.op = "next" /\ last.rc = "RC_OK")
  THEN last ELSE NULL

Table == INSTANCE RecordTable WITH Numbers <- RIDs

\* Whatever pages the pool has evicted and read again: a record keeps its
\* number, an insert takes the next one, an update and a deletion change the
\* row they name and no other, and getRecord and next return what was stored
\* last under the number they answer for.
ImplementsTable == Table!Spec
=============================================================================
