---------------------------- MODULE TableOnPool ----------------------------
(***************************************************************************)
(* The record manager on top of the buffer manager: each call on one table *)
(* as the sequence of pool calls it makes (record_mgr.c), with the pool of *)
(* BufferMgr below it, its fix counts, dirty bits and the loop of fifo.    *)
(* The process may end between any two steps.                              *)
(*                                                                         *)
(* RecordMgr has every call as one step and of the pool only the pages,    *)
(* contents and position that are left between calls.  That this is what   *)
(* the calls do is checked here: this module implements RecordMgr.  Calls  *)
(* with identifiers out of range return before they touch the pool, and    *)
(* scans read like getRecord; both are in RecordMgr only.                  *)
(***************************************************************************)
EXTENDS BufferMgr

CONSTANTS
  Schema,      \* a page with a serialized schema
  Values,      \* contents of a record
  MaxRecords,  \* bound: records are inserted up to this number
  NULL,
  Gone,
  TablePage,   \* the handle openTable pins page 0 with
  RecordPage,  \* the handle of the other calls
  TableName, Relation

ASSUME UsersAssumption ==
  Clients = {TablePage, RecordPage} /\ TablePage # RecordPage
ASSUME TablePagesAssumption == MaxRecords \in Nat /\ 0..MaxRecords \subseteq Pages
ASSUME TableStrategyAssumption == Strategies = {"RS_FIFO"}

VARIABLES
  total_pages,  \* the number of records the process knows of
  op,           \* the call in progress: its name, its handle and its record
  todo,         \* the steps it has still to do, each with its page
  before,       \* auxiliary: what the table was before the call in progress,
                \* until the call has taken effect; otherwise NULL
  returned      \* auxiliary: the call that took effect last and its result

tableVars == <<total_pages, op, todo, before, returned>>

NoOp == [name |-> "none", client |-> RecordPage, data |-> NULL]

TableInit ==
  /\ disk = <<>> /\ strategy = "RS_FIFO" /\ mgmtData = FALSE
  /\ pagedata = [i \in Frames |-> Junk]
  /\ pagenum = [i \in Frames |-> NoPage]
  /\ dirtybit = [i \in Frames |-> FALSE]
  /\ fixedcount = [i \in Frames |-> 0]
  /\ ranking = [i \in Frames |-> MaxRank]
  /\ stat = [hitcount |-> 0, readcount |-> 0, writecount |-> 0, lastposition |-> 0]
  /\ handle = [c \in Clients |-> Idle]
  /\ call = NoCall
  /\ last = [op |-> "none", rc |-> "RC_OK"]
  /\ total_pages = 0 /\ op = NoOp /\ todo = <<>> /\ before = NULL
  /\ returned = [op |-> "initRecordManager", rc |-> "RC_OK", out |-> NULL]

-----------------------------------------------------------------------------
\* The pool and the file as the record manager of RecordMgr knows them.
Loaded == Cardinality({i \in Frames : pagenum[i] # NoPage})

Now ==
  [file |-> disk,
   open |-> mgmtData,
   pool |-> [frames |-> [i \in 1..Loaded |-> [page |-> pagenum[i - 1],
                                              data |-> pagedata[i - 1]]],
             position |-> IF mgmtData THEN stat.lastposition % NumPages ELSE 0]]

Seen == IF before = NULL THEN Now ELSE before

Table == INSTANCE RecordMgr WITH
  Names <- {TableName}, Rels <- {Relation}, Scans <- {}, Conditions <- {NULL},
  PoolSize <- NumPages,
  file <- [n \in {TableName} |-> Seen.file],
  total_pages <- IF Len(todo) = 1 /\ Head(todo).step = "count"
                 THEN total_pages + 1 ELSE total_pages,
  name <- [r \in {Relation} |-> IF Seen.open THEN TableName ELSE NULL],
  pool <- [r \in {Relation} |-> Seen.pool],
  scan <- <<>>,
  last <- returned

\* What the record manager writes into a page.
ASSUME TableDataAssumption ==
  Values \cup {Schema, Junk} \cup {Table!Tomb(v) : v \in Values} \subseteq Data

\* A serialized schema is no page of zero bytes.  NULL is neither the table
\* nor what it was before a call.
ASSUME TableSchemaAssumption == Schema # Zero
ASSUME TableNullAssumption ==
  /\ NULL # TableName
  /\ NULL \notin [file: Seq(Content), open: BOOLEAN,
                  pool: [frames: Seq([page: Pages, data: Content]), position: Nat]]

-----------------------------------------------------------------------------
\* The calls, as the steps they make.
Steps(steps, p) == [k \in DOMAIN steps |-> [step |-> steps[k], page |-> p]]

\* Mutation: the page is not unpinned.
Writing_NotUnpinned(p) == Steps(<<"pin", "fill", "mark", "force">>, p)

\* Mutation: the page is left in the pool as a dirty one.
Writing_NotForced(p) == Steps(<<"pin", "fill", "mark", "unpin">>, p)

Writing(p) == Steps(<<"pin", "fill", "mark", "unpin", "force">>, p)

Reading(p) == Steps(<<"pin", "parse", "unpin">>, p)

\* The pages from 1 to n, one after the other.
ReadingTo(n) == [k \in 1..(3 * n) |-> Reading((k + 2) \div 3)[((k + 2) % 3) + 1]]

Begin(name, client, data, steps) ==
  /\ todo = <<>>
  /\ op' = [name |-> name, client |-> client, data |-> data]
  /\ todo' = steps
  /\ before' = Now
  /\ UNCHANGED <<vars, total_pages, returned>>

openTable ==
  /\ ~mgmtData /\ disk # <<>>
  /\ Begin("openTable", TablePage, NULL, Steps(<<"init", "pin", "schema">>, 0))

closeTable ==
  /\ mgmtData
  /\ Begin("closeTable", TablePage, NULL, Steps(<<"unpin", "shutdown">>, 0))

insertRecord(v) ==
  /\ mgmtData
  /\ total_pages < MaxRecords
  /\ Begin("insertRecord", RecordPage, v,
           Append(Writing(total_pages + 1), [step |-> "count", page |-> 0]))

updateRecord(p, v) ==
  /\ mgmtData
  /\ p \in 0..total_pages
  /\ Begin("updateRecord", RecordPage, v, Writing(p))

deleteRecord(p) ==
  /\ mgmtData
  /\ p \in 1..total_pages
  /\ Begin("deleteRecord", RecordPage, NULL, Writing(p))

getRecord(p) ==
  /\ mgmtData
  /\ p \in 1..total_pages
  /\ Begin("getRecord", RecordPage, NULL, Reading(p))

\* getRecord for every page below total_pages.
getNumTuples ==
  /\ mgmtData
  /\ total_pages > 1
  /\ Begin("getNumTuples", RecordPage, NULL, ReadingTo(total_pages - 1))

-----------------------------------------------------------------------------
\* What the call returns when it takes effect: the calls on one record its
\* identifier, which is the page of their steps, and its data.
Result ==
  [op |-> op.name,
   rc |-> last'.rc,
   out |-> CASE op.name \in {"insertRecord", "updateRecord", "deleteRecord", "getRecord"} ->
                  Table!Record(Head(todo).page, op.data)
             [] op.name = "getNumTuples" -> total_pages - 1
             [] OTHER -> NULL]

\* The next step is over unless the pool's call goes on.  A call takes effect
\* with the write of forcePage, and one that writes nothing with its end.
Advance ==
  /\ todo' = IF call'.op = "none" THEN Tail(todo) ELSE todo
  /\ IF /\ before # NULL
        /\ call'.op = "none"
        /\ Len(todo) = 1 \/ Head(todo).step = "force"
     THEN before' = NULL /\ returned' = Result
     ELSE UNCHANGED <<before, returned>>

Doing(step) == Quiet /\ todo # <<>> /\ Head(todo).step = step

\* The memory the handle of the call leads to.
Page == pagedata[handle[op.client].data]

\* A step that is one call of the buffer manager.
PoolStep ==
  /\ LET c == op.client
         p == Head(todo).page
     IN \/ Doing("init") /\ initBufferPool(NumPages, "RS_FIFO")
        \/ Doing("pin") /\ (PinEmpty(c, p) \/ PinHit(c, p) \/ PinMissFifo(c, p))
        \/ Doing("mark") /\ markDirty(c)
        \/ Doing("unpin") /\ unpinPage(c)
        \/ Doing("force") /\ forcePage(c)
        \/ Doing("shutdown") /\ shutdownBufferPool
        \/ Continue
  /\ Advance
  /\ UNCHANGED <<total_pages, op>>

\* deleteRecord puts its mark in front of what it finds.
Fill ==
  /\ Doing("fill")
  /\ \E data \in IF op.name = "deleteRecord" THEN Table!Marked(Page) ELSE {op.data} :
       WritePage(op.client, data)
  /\ Advance
  /\ UNCHANGED <<total_pages, op>>

\* The record is parsed while its page is pinned.
Parse ==
  /\ Doing("parse")
  /\ \E v \in Table!Parses(Page) : op' = [op EXCEPT !.data = v]
  /\ UNCHANGED <<vars, total_pages>>
  /\ Advance

\* The schema parser, which does not survive any other page.
ParseSchema ==
  /\ Doing("schema")
  /\ Page = Schema
  /\ UNCHANGED <<vars, total_pages, op>>
  /\ Advance

CountRecord ==
  /\ Doing("count")
  /\ total_pages' = total_pages + 1
  /\ UNCHANGED <<vars, op>>
  /\ Advance

-----------------------------------------------------------------------------
\* createPageFile, and writeBlock unless the file was there.
createTable ==
  /\ todo = <<>> /\ ~mgmtData
  /\ \/ disk # <<>> /\ disk' = <<Zero>> /\ UNCHANGED total_pages
     \/ disk = <<>> /\ disk' = <<Schema>> /\ total_pages' = 0
  /\ returned' = [op |-> "createTable",
                  rc |-> IF disk # <<>> THEN "RC_TABLE_EXISTS" ELSE "RC_OK",
                  out |-> NULL]
  /\ UNCHANGED <<mgmtData, strategy, frames, stat, handle, call, last, op, todo, before>>

deleteTable ==
  /\ todo = <<>> /\ ~mgmtData
  /\ disk' = <<>>
  /\ returned' = [op |-> "deleteTable",
                  rc |-> IF disk # <<>> THEN "RC_OK" ELSE "RC_FILE_NOT_DELETED",
                  out |-> NULL]
  /\ UNCHANGED <<mgmtData, strategy, frames, stat, handle, call, last,
                 total_pages, op, todo, before>>

\* The end of the process between any two steps, and a new process.
EndOfProcess ==
  /\ Crash \/ (~mgmtData /\ UNCHANGED vars)
  /\ total_pages' = 0
  /\ op' = NoOp /\ todo' = <<>> /\ before' = NULL
  /\ returned' = [op |-> "initRecordManager", rc |-> "RC_OK", out |-> NULL]

TableNext ==
  \/ createTable \/ deleteTable \/ openTable \/ closeTable
  \/ \E v \in Values : insertRecord(v)
  \/ \E p \in 0..MaxRecords :
       \/ getRecord(p) \/ deleteRecord(p)
       \/ \E v \in Values : updateRecord(p, v)
  \/ getNumTuples
  \/ PoolStep \/ Fill \/ Parse \/ ParseSchema \/ CountRecord
  \/ EndOfProcess

TableSpec == TableInit /\ [][TableNext]_<<vars, tableVars>>

-----------------------------------------------------------------------------
\* Properties.

\* Between calls only page 0 is pinned, once, and no frame is dirty: nothing
\* is lost when the process ends between calls or the table is closed.
RestsClean ==
  todo = <<>> => \A i \in Frames :
    ~dirtybit[i] /\ fixedcount[i] = IF pagenum[i] = 0 THEN 1 ELSE 0

\* The pool calls of the record manager never fail: insertRecord and
\* deleteRecord never return in the middle, and closeTable not with an error.
CallsSucceed == last.rc = "RC_OK"

\* The calls, step by step and with the process ending between any two steps,
\* do what RecordMgr has them do in one: a crash leaves the file as before the
\* call or as after it.
ImplementsRecordMgr == Table!Spec
=============================================================================
