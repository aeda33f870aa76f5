# A verification of the database of `src/assign1`

`src/assign1` is a small relational storage engine in C (CS 525, group 25), in
three layers: page files (`storage_mgr.c`), a buffer pool (`buffer_mgr.c`,
`caching_mechanism.c`) and tables of records with scans (`record_mgr.c`). This
directory holds TLA+ models of the three layers, of the text formats between
them (`rm_serializer.c`, `object_parser.c`) and of the conditions of scans
(`expr.c`), the TLC runs that check them on small instances, and TLAPS proofs of
what matters most for instances of every size.

## 1. The system

| component | state | operations | uses |
|---|---|---|---|
| storage manager, `storage_mgr.c` | files on disk; in each `SM_FileHandle` the name, a page count taken when the file was opened, a position and a `FILE` stream | create, open, close, destroy; read at a page number or relative to the position; write; append; `ensureCapacity` | the C library and POSIX files |
| buffer manager, `buffer_mgr.c` | frames (page number, content, dirty bit, fix count, rank) and statistics | init, shutdown, flush; pin, unpin, mark dirty, force | opens the page file again for every access; asks a strategy for a victim |
| replacement strategies, `caching_mechanism.c` | the load counter in the statistics (`fifo`), the ranks in the frames (`lru`) | `fifo`, `lru`, `decreaseRankingForPages` | the frames, `writeBlockToPage` |
| record manager, `record_mgr.c` | the global `total_pages`; one pool for each open table; a position for each scan | create, open, close, delete a table; insert, delete, update, get a record; start, next, close of a scan; `getNumTuples` | a FIFO pool of six frames, the serializer and the parser, the evaluator |
| serializer and parser, `rm_serializer.c`, `object_parser.c` | none | schema and record to text and back | |
| expression evaluator, `expr.c` | none | comparison and Boolean operators on attribute values | |
| `dberror.c`, `buffer_mgr_stat.c`, `test_*.c` | none | messages, printing, tests | |

The program is one sequential process. What makes it hard is not threads:

* **Cached sizes.** A handle's page count is taken once and is not updated by
  writes. Each append leaves one page more than is counted. Two handles on one
  file disagree.
* **Interleaved users of one pool.** The table itself, inserts and scans pin
  pages of the same pool. Between one user's pin and unpin, others' misses evict
  frames, and a hit writes back a page its holder has not finished with.
* **Order.** `fifo` and `lru` keep counters and ranks that must stand for the
  order of loads and uses.
* **Return codes nobody reads.** The buffer manager ignores what `readBlock`,
  `writeBlock` and `ensureCapacity` say, and clears the dirty bit all the same.
* **Crashes and restarts.** What is in memory only (dirty frames, and the number
  of records) is gone.
* **Text as storage.** Schemas and records are written with delimiters and read
  with `strtok`; nothing escapes a delimiter in a string, blocks are not cleared,
  and pieces of text are not terminated. What the parser does not expect ends the
  process.
* **Long sequences** of inserts, deletions, evictions and scans, which a test
  with ten records and six frames hardly varies.

`PROJECT.json` lists these hazards with the line where each one bites and the
property that would catch it going wrong.

What makes each component correct:

* storage manager: the cached count, the position, the name and the stream of an
  open handle agree with the file; no call that makes a file longer loses a block;
* buffer manager: a page is in one frame; a pinned page stays where its user's
  pointer leads; the fix count is the number of users; a clean frame may be
  dropped; flush and shutdown lose nothing; every call returns;
* strategies: the victim is the oldest, or the least recently used, unpinned frame;
* record manager: a record keeps its identifier and its content until it is
  changed; inserts overwrite nothing; a scan returns what satisfies its condition;
* serializer and parser: what is read is what was written, and the parser keeps
  its place, on a record with a deletion mark, too;
* evaluator: the operators mean what their names say, a scan returns no record
  that does not satisfy its condition, and a well-typed condition does not end
  the process.

## 2. Modules

| module | models | checked by | proofs |
|---|---|---|---|
| `PageFile` | what one block operation does to a page file, as operators | the runs of its users | in `StorageMgrProofs` |
| `StorageMgr` (EXTENDS `PageFile`) | all of `storage_mgr.c` | `MCStorageMgr` | `StorageMgrProofs` |
| `BufferMgr` (EXTENDS `PageFile`) | `buffer_mgr.c` with `caching_mechanism.c` | `MCBufferMgr` | `BufferMgrProofs`, `BufferStoreProofs` |
| `WriteBackStore` | abstract: a content that clients see and one that is in the file | `BufferMgr!ImplementsStore` | in `BufferStoreProofs` |
| `BufferOrder` (EXTENDS `BufferMgr`) | the same with the orders of loads and uses as history, each a set of pairs of frames | `MCBufferOrder` | `BufferOrderProofs` |
| `RecordMgr` (EXTENDS `PageFile`) | tables, records and scans of `record_mgr.c` | `MCRecordMgr` | `RecordMgrProofs` |
| `RecordTable` | abstract: a numbered list of rows | `RecordMgr!ImplementsTable` | in `RecordMgrProofs` |
| `TableOnPool` (EXTENDS `BufferMgr`) | the calls of `record_mgr.c` as the pool calls they make; implements `RecordMgr` | `MCTableOnPool` | `TableOnPoolProofs`, `TableRefinesProofs` |
| `CText` | strings, `strtok`, `strstr`, `atoi` | the runs of its users | in `QueryProofs` |
| `Records` (EXTENDS `CText`) | values, `setAttr`, `getAttr`, their texts in a page and in a condition | `MCQuery` | in `QueryProofs` |
| `SchemaText` (EXTENDS `CText`) | `serializeSchema`, `split`, `stringToSchemaParser` | `MCQuery` | |
| `Expr` (EXTENDS `Records`) | `expr.c`, and what a condition means | `MCQuery` | in `QueryProofs` |
| `Query` (EXTENDS `SchemaText`, `Expr`) | one record from `setAttr` over its page to the answer of a scan | `MCQuery` | `QueryProofs` |

Operators with a suffix (`EnsureCapacity_OnceMore`, `FifoEvict_Pinned`, ...)
under a comment "Mutation:" are wrong variants of the definition that follows.
No specification uses them. Each says how a slip in the code would look, and one
of the properties fails when it replaces the right one.

### PageFile and StorageMgr

A file is the sequence of its pages, page `p` of the code being element `p + 1`.
`ReadRC`, `ReadBlock`, `WriteRC`, `WriteBlock`, `AppendEmptyBlock` and
`EnsureCapacity` take the file and the count of the handle, which need not be its
length. Both size checks let page `total` through. `AppendEmptyBlock` cuts or
extends to `total + 1` pages and adds a page. `EnsureCapacity` is the closed form
of the loop; that it is that loop is a theorem.

`StorageMgr` keeps the directory, the inodes, the number of streams open on each
inode, and the handles. Every function of `storage_mgr.c` is an action with the
same name. `last` is the call that returned last, with its return code. With
`DiskErrors`, `ftruncate` and the writes may fail, and the bytes behind an append
may come short. `Shared = FALSE` is how the layers above use a file: one handle at
a time, and no create or destroy while one is open. `Shared = TRUE` lifts that.

### BufferMgr

The state is that of the C structs: `pagedata`, `pagenum`, `dirtybit`,
`fixedcount`, `ranking` by frame, and the statistics. A client is one
`BM_PageHandle`; clients write into their page, mark, unpin and force, in any
order the code's own callers can produce, and their calls interleave.

| action | code |
|---|---|
| `initBufferPool`, `NotInitialized` | `initBufferPool` and the early returns |
| `PinEmpty`, `PinHit`, `PinMissFifo`, `PinMissLru`, `PinMissOther` | the branches of `pinPage`; a hit on a dirty page writes it first |
| `FifoEvict`, `FifoSkip` | one turn of the loop in `fifo`, which has no bound |
| `WritePage` | the caller fills the page it has pinned |
| `markDirty`, `unpinPage`, `forcePage` | the functions, with their not-found cases |
| `forceFlushPool`, `shutdownBufferPool`, `FlushFrame`, `FlushDone`, `ShutdownDone` | start, one frame, end of the loops |
| `Crash` | the process ends; only `disk` stays |

`call` is the program counter of a call that takes several steps. No other call
begins meanwhile, but a crash can come in between. With `Dense`, clients pin only
pages up to the one behind the end of the file, as `insertRecord` does; without
it, any page. With `Spare`, the clients of an LRU pool leave a frame free of pins;
without it, each pins a page when it likes (run `buffer_lru_pinned` shows what comes
of that when the clients are as many as the frames).

### RecordMgr

An operation is one step: each forces its one page before it returns, so that
between operations no frame is dirty, and a crash inside one leaves the file as
before it or as after it. That this is what the calls do is not taken for granted;
`TableOnPool` shows it. `createTable`, which changes the file twice, has the action
`CrashInCreate` for the state in between. The pool is the one of `BufferMgr`
reduced to what is left between operations: pages and contents of the frames,
and the position of `fifo`, which steps over the pinned frame of page 0. Reads
change the pool, as in the code: `getRecord` pins one page, `getNumTuples` and
`next` as many as their loops go through.

The content of a page is a schema, a record, a record with the deletion mark
(`Tomb`), zero bytes, or `Junk`. `deleteRecord` appends its mark to memory that
holds no string, so its result may be `Junk`. `Parses` is what the record parser
makes of each: it skips the mark, and on a page without a record it returns
anything, or the process ends (`Crash`). `TombAssumption` says that a marked record is no record: the text of a record
begins with its bracket, that of a deleted one with the mark. A condition is the
set of records that satisfy it. `last` is the call that returned last, with its
return code and result; a `Record` in it has the identifier and the data the
caller finds in his record afterwards. It is history, as are, in a scan,
`returned`, the pages the pass has returned, and `unseen`, the pages it has not
read as they are now: those it has not come to, and those written behind it.

`RecordTable` is what the record manager promises of one table: a list of rows,
the number of a row being its page. An insert answers with the next number; an
update and a deletion change the row they name and no other; `getRecord` and
`next` answer with a number and what was stored last in the row of that number. A
call that names no row is refused and changes nothing. Two things that the
code does and nobody would ask for have actions of their own: `UpdateNone`, an
update of page 0, and `RefusedCreate`, a `createTable` that is refused and has
emptied the table. What a read of a deleted row answers is left open, since the
refinement knows such a row only as `Gone`; `DeletedNotScanned` is about that.

### TableOnPool

The composition of the record manager and the buffer manager, for one table. A
call (`openTable`, `insertRecord`, ...) puts the steps it will make into `todo`,
and `PoolStep`, `Fill`, `Parse`, `ParseSchema` and `CountRecord` take them one by
one. `PoolStep` is a step of `BufferMgr`: `pinPage` with its loop of `fifo`,
`markDirty`, `unpinPage`, `forcePage`, the loops of shutdown. `EndOfProcess` may
come between any two. The handle of page 0 and the handle of the call are the two
clients of the pool.

The refinement of `RecordMgr` maps a call to the one step where it takes effect:
the write of `forcePage`, or its last step when it writes nothing. Until then
the abstract state is the one `before` it. A crash before that point is a crash
before the call. Identifiers out of range (which return before the pool is
touched), scans (which read like `getRecord`) and the two halves of `createTable`
are in `RecordMgr` only.

### CText, Records, SchemaText, Expr and Query

A text is a sequence of symbols. A bracket, a comma, a colon, a blank, a name, a
keyword and a number are one symbol each, because no function cuts inside a name
or a number; a string value is a sequence of symbols, so that it can hold
delimiters, fill its type or be cut by it. `Symbols` are the symbols there are.
`strtok` keeps the position it goes on from, as the C function does, and
delimiters in front of a token are skipped.

`SchemaText` has the text of page 0 and what `openTable` makes of it. `garbage` is
what stands in memory behind the four pieces that `split` and `malloc` leave
without a '\0'. `Expr` evaluates a condition to a set of outcomes: more than one
where the code reads memory it has not set, and `Exit` where `CHECK` ends the
process. `Exprs` are the trees there are, closed under arguments, and `Height` is
the height of each, so that the evaluation comes to an end. `Meaning`, `TypeOf`
and `Uses` are the reference the evaluator is compared with; they translate no
code.

`Query` follows one record. `createTable` and `openTable` write and parse the
schema; `createRecord` and `setNextAttr` are the caller's; `insertRecord` or
`updateRecord` start `serializeRecord`, whose loop is `serializeNext`, and
`recordWritten` puts the text on the page; `deleteRecord` puts its mark, and what
an uncleared block holds, in front; `getRecord`, `parseNext` and `recordParsed`
are the record parser with its one saved position; `next` evaluates a condition.
Pages, frames and other records are `RecordMgr`'s. There a page gives back the
value that was written, and `Parses` and `Marked` say what a page with a mark or
without a record gives. For numbers and for strings without a delimiter that rests
on `RecordReadBack`; a Boolean (run `query_boolean`) or a string with a delimiter
comes back as another value, always the same one.

## 3. Runs

All bounds are in the `.cfg` files. Deadlock is not checked where a bound stops
the clients (`CHECK_DEADLOCK FALSE` in the storage and buffer runs).

| run | instance | shows |
|---|---|---|
| `storage_exclusive` | 2 handles, 1 name, 2 inodes, at most 3 pages before a call extends, 3 streams, failing writes | type correctness; `TotalTracksFile`, `CurrentBlockExists`, `NameReachesStream`, `StreamsCoverHandles`, `AppendKeepsBlocks` |
| `storage_append_shared` | the same, shared, no failures | **violation** of `AppendKeepsBlocks` |
| `buffer_store` | 2 clients, 2 frames, 3 pages added one by one, 2 contents, one of them zeros, FIFO, LRU with a frame to spare and a strategy without code, `LARGE_PAGE` 3 | type correctness; `CleanMatchesDisk`, `FlushStoresDirtyPages`, `ShutdownKeepsWrites`, `ImplementsStore`; `Returns` under fairness |
| `buffer_order` | 2 clients, 3 frames, any of 4 pages, no contents, FIFO and LRU | `OneFramePerPage`, `PinnedPageResident`, `FixCountsPins`, `FifoEvictsOldest`, `LruEvictsLeastRecent` |
| `buffer_lru_pinned` | 2 clients, 2 frames, LRU | **violation** of `PinnedPageResident` |
| `record_table` | 1 table, 3 records, 2 contents, 3 frames, 1 scan over all or those with one content | type correctness; `RecordsInFile`, `PoolMatchesFile`, `ScanComplete`, `SchemaSurvives`, `ImplementsTable` |
| `record_overwrite` | 2 tables | **violation** of `InsertKeepsRecords` |
| `record_deleted` | 1 table, 2 records | **violation** of `DeletedNotScanned` |
| `table_on_pool` | 1 table, 3 records, 2 contents, 3 frames | `RestsClean`, `CallsSucceed`, `ImplementsRecordMgr` |
| `query` | 4 schemas of 2 or 3 attributes, all types, 0 to 2 keys; 14 strings of up to 3 symbols; 1 deletion mark; 3 uncleared blocks, 21 heaps; conditions of up to 3 nested operators | type correctness; `RecordReadBack`, `EndsOnlyOnBlank`, `ValueReadBack`, `DecidesComparisons`, `ReturnedSatisfies`, `SchemaReadBack`, `OpensIfTerminated` |
| `query_boolean` | strings as in `query` | **violation** of `BooleansReadBack` |
| `query_condition` | plain strings, conditions of AND and OR | **violation** of `ConditionSelects` |

Why the bounds are enough for the interesting cases. A handle's count and the
size of its file can differ in both directions within three pages, and an append
adds at most two. Two inodes let a name be destroyed and created anew. A pool
of two frames with three pages evicts at almost every pin; LRU needs three frames
to have an order among those it may choose, as in `buffer_order`. Three clients' pages cannot be
pinned at once in two frames, which is why clients are never more than frames:
with more, `fifo` loops for ever by design (`buffer_mgr.c` has no return code for
it). `LARGE_PAGE` is 3 in `buffer_store`, so that its branch is taken at page 2.
With three records and three frames of which one holds the schema, the record
pool evicts, and a pass of a scan replaces pages another call has read; in
`table_on_pool` the same three frames make `fifo` step over the pinned one.
In `query`, a string of three symbols can hold the end of a value and that of a
name, begin or end with a delimiter, consist of delimiters, and be shorter than,
fill or exceed a type of length 2. Two attributes are enough for a value to
stray into the next; three have one in the middle. The FLOAT literals lie on
both sides of what `%f` rounds. Numbers are not negative.

Views leave out what no guard reads (`last`, and counters beyond their residue)
and the part of a scan's history that `ScanComplete` does not read; TLC compares
every step with the abstract table, also one to a state it has seen;
symmetry is used for handles, inodes, clients (in `buffer_order`) and, in `table_on_pool`, contents of
records, and never with liveness.

**Fairness.** Only `FairSpec` of `BufferMgr` has any: weak fairness of `Continue`,
the next turn of a loop that a call is in. The process is sequential and does
nothing else before the call returns. That clients make calls is assumed
nowhere.

**Environment.** What the models assume of the callers, and the code does not
check: a pool is not used after it is shut down except through the calls that
look (`NotInitialized`); a client does not unpin what it has not pinned; a table
is not created anew or deleted while it is open, is not opened when there is no
file, and is closed after its scans. Two relations open on the same table are
left out: each would have a pool of its own, and the second would read stale frames.
In `Query`, names are not empty and hold no delimiter; values have
the type of their attribute, and their numbers can be written; a condition refers to attributes there are; and a
table that garbage has opened with other attributes than it was created with
is left alone (`SameAttrs`), since its records would be bytes of other types.

### What the violations say

1. `storage_append_shared`: `appendEmptyBlock` cuts the file to the handle's own
   count plus one, and the pages another handle has added are lost.
2. `buffer_lru_pinned`: `lru` falls back to frame 0 when its search finds nothing,
   also when frame 0 is pinned. The frame used last has rank `INT_MAX` and is
   never found.
3. `record_overwrite`: `total_pages` belongs to no table. Creating a second one
   (or restarting the process) makes inserts overwrite records.
4. `record_deleted`: `deleteRecord` puts a mark in front of the record, and nothing
   looks for it. `next`, like `getRecord` and `getNumTuples`, takes the deleted record
   for any other.
5. `query_boolean`: a page says "TRUE", and the parser looks for a small t. Every
   Boolean reads as FALSE, against the "1 to 1 mapping" of the comment on `getRecord`.
6. `query_condition`: AND and OR leave the type of their result at `DT_INT`, and
   `next` wants `DT_BOOL`: a scan whose condition ends in one of them returns
   nothing. The test of `expr.c` passes because its comparison fails and leaves a
   nonzero value where it looks.

Seen in the models and in no run of its own:

* an append makes the file two pages longer, or none (`AppendEmptyBlock`);
* without `Dense`, a page more than one behind the end is not written, and its
  dirty bit is cleared (`FlushFrame`);
* `updateRecord` lets page 0 through and replaces the schema, after which
  `openTable` takes the process down (the exception in `SchemaSurvives`);
* `createTable` of an existing table empties it before it answers
  `RC_TABLE_EXISTS` (`RefusedCreate`);
* `getNumTuples` and a scan without a condition stop one page before the last
  record, a scan with a condition does not (`LastScanned`);
* when `fifo` has passed over a pinned frame, its count of loads is not moved, and
  what it evicts from then on need not be the oldest page (the exception in
  `FifoEvictsOldest`);
* a table without keys is opened with one key, whose number is whatever memory
  held (the exception in `SchemaReadBack`);
* a string with a delimiter in it is cut there when it is read (`Cut`);
* an empty string, or one of delimiters alone, ends the process in `getRecord`
  (`Blank`), and one with a comma and a colon shifts the values behind it
  (`Strays`);
* a comma, or a bracket, in the memory behind the text of the schema can make
  `openTable` end the process or find an attribute more.

## 4. Proofs

TLAPS checks the theorems for every value of the constants that satisfies the
named assumptions in the modules.

`BufferMgrProofs`. The invariant `IInv` is `TypeOK`, the shape of handles and of
the call in progress, and the three properties together, because none of them is
inductive alone: a pinned page stays resident because eviction needs a fix count
of zero; the fix count is the number of pins because `unpinPage` finds the frame
by its page number; it finds the right one because no page is in two frames; and
that survives a `fifo` loop because the page it is about to place is in no frame
(`CallShape`). From it: `SearchFinds` (`OneFramePerPage`), `PinnedStays`
(`PinnedPageResident`) and `FixCountsExact` (`FixCountsPins`). `TypeCorrect` and
the invariant's parts on the shape of calls hold for all strategies; the three
need, where LRU is used, `Roomy`: fewer clients than frames. Run
`buffer_lru_pinned` shows that they fail with as many clients as frames. The
argument for LRU is `LruFindsFree`: its search passes over frames of the top rank
`INT_MAX`, but at most one frame has it (`LastUsedIsOne`); the others are as many as
the clients, one of which is asking and has nothing pinned, so one of them is
free (`FreeFrame`). The search finds a victim, and the fallback to frame 0 is
never taken. The steps are grouped by what they do to the page
table: `PlaceStep`, `PinStep`, `UnpinStep`, `SamePinsStep`, `UnusedPoolStep`.
`FifoCanEnd` is the safety part of `Returns`: while the loop of `fifo`
runs, some frame is free, if the clients are no more than the frames.

`BufferStoreProofs`. What the pool does with contents, for clients that extend the
file page by page (`Dense`), as `insertRecord` does, and for `Roomy` pools. Without
`Dense` the properties are false: a page more than one behind the end is refused by
`writeBlock`, and its dirty bit is cleared all the same. `ContentInv` adds to
`IInv` that no frame holds a page further behind the end than the one a write
adds (`FramesNearFile`); that a frame without the dirty bit that no writer is
about to mark has what the file has (`CleanMatchesDisk`); that the `fifo` loop
still carries what the file holds of its page, although the eviction may have
written another page and made the file longer; and that the frames a flush has
passed are clean or pinned (`CallContent`). The steps of the code are sorted into
five kinds (`ContentStep`): a frame is written, a page is loaded, a
client fills its page, nothing is moved, or the pool is opened or closed; each
kind is proved to keep the invariant once. From it come `CleanIsStored`
(`CleanMatchesDisk`), `FlushStores` (`FlushStoresDirtyPages`), `ShutdownStores`
(`ShutdownKeepsWrites`) and `PoolIsStore`, the refinement `ImplementsStore`: a
write to the file and a load are steps no client can see, a fill is the write
of the store, and the end of the pool is the loss.

`StorageMgrProofs`. `EnsureCapacityIsLoop` justifies the closed form used in every
module. For files used through one handle at a time (`~Shared`), `FileInv` says
that different names lead to different inodes, an open handle's name leads to the
inode of its stream, no two open handles share a file, the count is the size
of the file or one less, and the current position is neither behind the count nor,
when the file has pages, outside of the file. From it come `CountTracksFile`
(`TotalTracksFile`), `ReopenFindsFile` (`NameReachesStream`), `AppendsOnlyExtend`
(`AppendKeepsBlocks`): an `ftruncate` to count + 1 cannot cut when the file has
at most count + 1 pages; and `PositionInFile` (`CurrentBlockExists`). With
`StreamInv`, that an open handle's stream is counted, comes `StreamsSuffice`
(`StreamsCoverHandles`): a close takes one stream away, and no other handle is
open on that inode. `TypeCorrect` (`TypeOK`) holds for shared files, too.

`BufferOrderProofs`. What the two strategies evict, for any clients, pages, data and
pool size, from the typing facts of `BufferMgrProofs` (`Roomy`). `FifoIsOldest`
(`FifoEvictsOldest`): `fifo` keeps no order, only a count of loads, and evicts the
frame at the count modulo the number of frames. `LoadInv` says why this is the
oldest one as long as none was passed over: at first frames are filled from the
first to the last (`FillingUp`), and from then on the frame the count points at is
the oldest, the one after it the next, and so on around the ring (`InTurns`). A
load renews the frame at the count and moves the count by one, which turns the
ring (`InTurn`). `LruIsLeastRecent` (`LruEvictsLeastRecent`): `UseInv` says that the
ranks `lru` decrements on every pin are the order of the last uses, so that the
smallest rank among the frames nobody pins belongs to the one used longest ago.

`RecordMgrProofs`. `CountFitsFile` is `RecordsInFile` for one table (`OneTable`),
with any number of records, relations, scans and frames. `CountInv` strengthens
it from open tables to files with a schema: `openTable` compares the count with
nothing, so that it fits must have been true before. It is, because a schema comes
only from a `createTable` that has set the count to zero, and an insert makes
the file longer before the count rises; a file cut short by a refused or
interrupted `createTable` has no schema. The assumption is needed: two tables
share the count, and run `record_overwrite` shows what comes of that.

`SchemaStays` is `SchemaSurvives` for any number of tables, also those that share
the count. It needs no more of an invariant than `FileTypes`, that a file is a
sequence of pages: inserts and deletes write to page 1 or behind it, and a write
there keeps the first page, whether the file must grow for it or not
(`WrittenSeq`). What reaches page 0, the property excepts: a `createTable`, also an
interrupted one, `deleteTable`, and an `updateRecord` with identifier 0, whose
guard lets it through. There is one lemma for each way to treat the first page
(`WriteKeeps` to `ChangeKeeps`).

Its second part: `TypeCorrect` (`TypeOK`), with any tables, relations, scans and
conditions, and `PoolIsFile` (`PoolMatchesFile`) for one table that one relation
opens (`OneTable`, `OneRel`). A second relation on the same table would have a
pool of its own and is left out of the model; two tables are checked by run
`record_overwrite`. `PoolInv` says what the frames show (`Fits`): the page of the
file, of a page there is, and each page in one frame only, since a write
reaches one. It needs `CountInv`, because reads go up to the count and
must not leave the file. The pool after the loop of `getNumTuples` or `next` is a
recursive function of the pages read. The library's induction takes
an operator as its parameter; `SetInduction` does the same with a set, the numbers
for which the claim holds, from the least element of its complement
(`LeastNat`). With it `ReadingAllIs` proves that the recursive function has
its defining equation, and `ReadingStays` that a set of pools that every read
of a page keeps is kept by the loop. `TypeInv` and `PoolInv` are two such sets.

Its third part: `ScansAreComplete` (`ScanComplete`) and `TableIsTable`, the
refinement `ImplementsTable`, for a table of any length behind a pool of any
size. `ScanInv` says that every record a running scan has passed, and that was not
written since, is decided (`Decided`): returned if it satisfies the condition, not
returned if not; that is the property itself taken to the middle of the scan,
page by page. A write ahead of the scan touches no page that is decided; one
behind it makes its page `unseen` (`WriteScans`), and the loop of `next` decides
the pages it goes through (`ReadDecides`). For the refinement, each action is one
step of `RecordTable`: `GetRefines` ties the number in the answer to the page that
was read and by `PoolInv` to its row, `PutRows` says that a write to a page
changes its row and no other, `RefuseRefines` that a refused identifier names no
row; and `InsertRefines`, `UpdateRefines`, `DeleteRefines`, `MakeRefines` and
`QuietRefines` put the answers of the calls beside those of `RecordTable`.

`TableOnPoolProofs`. What the record manager asks of the pool, for FIFO, pools of
any size and tables of any length. `TableInv` is `IInv` and four facts about the
call in progress: the steps it has left are the end of the order its function
makes them in (`CallInProgress`); the pages pinned are page 0, from the pin in
`openTable` to the unpin in `closeTable`, and the page of the call, from its pin
to its unpin (`PinsSoFar`); the only dirty frame is that of the call,
between mark and force (`DirtySoFar`); and a loop of the pool belongs to the step
the call has reached (`LoopSoFar`). With nothing left to do they are `RestsClean`
(`LeavesPoolClean`). `PoolCallsSucceed` (`CallsSucceed`) follows because a
page that is pinned is found, whatever the pool has evicted, and because
`closeTable` has unpinned page 0 before `shutdownBufferPool` looks.

`TableRefinesProofs`. `CallsAreAtomic`, the refinement `ImplementsRecordMgr`: what
`RecordMgr` does in one step is what the calls do in many, with evictions in
between and the process ending anywhere, for pools and tables of any size.
`RefinesInv` says, beyond `TableInv`, how far each call has got:

* `FileSoFar`: the count of records is below the length of a file that holds a
  table, and one more below it between the write of an insert and its count;
* `FramesSoFar`: the frames that hold a page are the first ones, and page 0 is in
  frame 0 once it is loaded;
* `BeforeSoFar`: until a call takes effect, the file is as before it; the step in
  which it does is the one that forgets `before`;
* `Paged`: the pages of the steps that are left, one after the other in
  `getNumTuples`, and up to the last record;
* `OpenSoFar`: what `openTable` finds in its new pool is what is in the file;
* `RecordSoFar`: the pool differs from the one before the call, and from the
  pages the loop of `getNumTuples` has gone through, by the page of the current
  step alone: it has been given a place there, where `RecordMgr` would put it,
  and holds what is in the file or what `Fill` has put into it.

The frames of the C structs are related to the pool of `RecordMgr` by `View`.
`ViewHit`, `ViewEmpty` and `ViewEvict` show that each branch of `pinPage` does to
`View` what `Using` does: the loop of `fifo`, started at the saved position and
passing over the one frame that is pinned, ends at the frame `Using` replaces.
For `getNumTuples`, `AllPassesAre` shows that the recursive function of `RecordMgr`
is what the loop computes page by page; it is proved by induction over a set
of numbers (`SetInduction`), not over an operator. Then every step of a call
either leaves what `RecordMgr` sees as it was, or is the operation of
`RecordMgr`, and the end of the process is its `Crash`.

The proof needs two assumptions about data. `TableSchemaAssumption`: a schema as
`createTable` serializes it is no page of zero bytes, its text begins with the
table's name. `TableNullAssumption`: the value that stands for "no call has
begun" is neither a table's name nor the state before a call.

`QueryProofs`. One record of a table with any schema, strings with delimiters
anywhere, any garbage in front of it, and conditions nested to any depth. It has
two parts.

The evaluator. `evalExpr`, `TypeOf`, `Meaning` and `Parts` are functions that are
recursive in the arguments of an operator, which are lower trees. `ExprRecursion`
shows, for any such function, that it satisfies its equation, and `ExprInduction`
that what every tree has whose arguments have it is had by all; both take a set or
a function, and no operator, and rest on `SetInduction`. With them, `Evaluates` says
what a well-typed expression gives on a record whose strings are shorter than
their types: what it means, or, if AND or OR is in it, also that Boolean in
`Untyped` form or the end of the process (`Loosely`). `Untyped` never selects a
record, so what `next` returns satisfies its condition (`ReturnedIsSatisfied`), and
without AND and OR the answer is the right one (`ComparisonsDecided`). `IInv` has
the part that ties an answer to the values it was given on (`Answered`).

The text. `Phase`, `Contents` and `Place` say that the values fit their attributes
and can be written, and where the loops are; `RecordTyped` is what follows of
`TypeOK`. `LaidOut` and `Separated` say where in a text each attribute begins: its
name, a colon, its value, and what separates it from the next. `serializeNext` adds
one more at the end, `recordWritten` the bracket, and `deleteRecord` moves them all
(`Shifted`). `Following` is about the parser, which knows delimiters and not
attributes: if no value is blank, it never runs past the beginning of the
attribute it is to read next, because every value leaves it a token that ends at
the separator at the latest (`NotPast`). Hence the process ends there on a blank
value only (`EndsOnBlankOnly`). It may stop short of that, since a value that holds
a delimiter is cut; it is in step again at the next colon, unless the rest of the
value or the front of the page holds one that is taken for it. In a legible record none does, and each token is
the one `strtok` finds in the value alone (`ReadsValue`, by `StrtokInside`):
`Gathered`, at the end of the loop. That token is the whole value when no symbol of it
is a delimiter (`StrtokWhole`), and from the text of a number comes the number
(`AsReadIsStored`): `RecordIsReadBack` says so of every number and every such string of
a record without a deletion mark, whatever the strings beside it are cut to.
`ValueIsReadBack` is the same for one value by itself.

The assumptions, which TLC evaluates on the instance: the delimiters are symbols;
numerals are symbols of their own, and there is one for every number up to the
greatest that is written; names hold no delimiter and are not empty; arguments
are lower than their operator; the end of the process is no value; and the value
for "none" is neither a text nor an answer.

Only model-checked:

* `Returns`, which needs fairness and ENABLED; `FifoCanEnd` is as far as
  safety goes;
* what `Query` says of the text of the schema: `SchemaReadBack`, `OpensIfTerminated`
  and, in `TypeOK`, `SchemaOK`. That text is put together with `FlattenSeq` and
  taken apart with `SetToSortSeq` and `SelectSeq`; what these give for a sequence
  of any length is an induction over it, and the library's theorem for that takes
  the claim as an operator, which the provers cannot instantiate. An induction
  written out for each of the three, over sets of indices, has not been carried
  out: the claims stay with the run, on the schemas of `MCQuery`.

## 5. Not modelled

* Heap blocks that are too small for what is copied into them
  (`object_parser.c:196-197`, `record_mgr.c:352`, `expr.h:57`): what they overwrite
  depends on the allocator. `Query` has what is read from memory nobody set, and
  not what is written outside of a block.
* Sizes and offsets of attributes (`getRecordSizeOffset`, `attrOffset`): a record is
  one value for each attribute. `createSchema`, `freeRecord`, `freeExpr` and
  `freeVal` move pointers.
* Negative numbers, numbers too long for their type, and text longer than a page;
  negative page numbers passed to the storage and buffer managers, which neither
  checks and the layers above do not pass (`RecordMgr` has an identifier below zero,
  which it refuses).
* Full disks in `BufferMgr` and `RecordMgr` (`StorageMgr` has them), page numbers
  beyond 32 bits, leaked streams running out, concurrent processes.
* A crash inside `fopen(..., "w+")` of `createPageFile`, before the first page is
  in the file; in `RecordMgr`, the multiples of `LARGE_PAGE - 1`.
* Getters, printing, error messages.

## 6. Plan

Done, in this order: `PageFile`, `StorageMgr`, `BufferMgr` with `WriteBackStore`,
`BufferOrder`, the proofs of the storage and buffer managers, `RecordMgr` with
`RecordTable`, the proof of `RecordsInFile`; then `CText`, `Records`, `SchemaText`,
`Expr` and `Query`, `SchemaSurvives` with its proof, the composition
`TableOnPool`, and the proofs of all state invariants of `StorageMgr`; then those
of `BufferMgr`, with LRU and the refinement of `WriteBackStore`, those of
`RecordMgr` with the refinement of `RecordTable`, and the invariants of
`TableOnPool` with its refinement of `RecordMgr`, and what the strategies of
`BufferOrder` evict.

At last, the proofs about `Query`.

Left: the retry loop of `ensureCapacity` when `ftruncate` fails, with liveness; and
a text of the schema without sequences of sequences, of which `SchemaReadBack` could
be proved.
