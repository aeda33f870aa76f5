-------------------------- MODULE RecordMgrProofs --------------------------
(***************************************************************************)
(* Proofs about RecordMgr, for one table with any number of records, any   *)
(* relations, scans and conditions, and pools of any size.                 *)
(*                                                                         *)
(* The count of records is compared with nothing when a table is opened or *)
(* a record inserted.  That it fits the file all the same rests on the     *)
(* order of the calls: a file has a schema only from a createTable that    *)
(* has set the count to zero, and while it has one, every step that raises *)
(* the count has made the file longer.  A file without a schema, which an  *)
(* interrupted or refused createTable or an update of page 0 leaves, may   *)
(* be shorter, but cannot be opened.                                       *)
(***************************************************************************)
EXTENDS RecordMgr, WellFoundedInduction, TLAPS

OneTable == \A m, n \in Names : m = n

HasSchema(n) == Exists(n) /\ file[n][1] = Schema

CountInv ==
  /\ file \in [Names -> Seq(Contents)]
  /\ total_pages \in Nat
  /\ name \in [Rels -> Names \cup {NULL}]
  /\ \A n \in Names : HasSchema(n) => total_pages < Len(file[n])
  /\ RecordsInFile

-----------------------------------------------------------------------------
\* The contents the operations write.
LEMMA WrittenContents ==
  /\ Zero \in Contents /\ Schema \in Contents /\ Values \subseteq Contents
  /\ \A content : Marked(content) \subseteq Contents
BY DEF Contents, Marked

LEMMA Schemas == Zero # Schema
BY ContentAssumption

LEMMA InitInv == Init => CountInv
BY DEF Init, CountInv, RecordsInFile, IsOpen, HasSchema, Exists

\* Reads, scans and calls that are refused.
LEMMA SameStep ==
  ASSUME CountInv, UNCHANGED <<file, total_pages, name>>
  PROVE  CountInv'
BY DEF CountInv, RecordsInFile, IsOpen, HasSchema, Exists

\* A file written at a page not behind its end is long enough for that page.
LEMMA WriteLength ==
  ASSUME NEW f \in Seq(Contents), NEW p \in Nat, p <= Len(f),
         NEW data \in Contents
  PROVE  /\ WriteBlock(f, Len(f), p, data) \in Seq(Contents)
         /\ Len(f) <= Len(WriteBlock(f, Len(f), p, data))
         /\ p < Len(WriteBlock(f, Len(f), p, data))
<1>1. Len(f) \in Nat /\ Zero \in Contents
  BY WrittenContents
<1>2. WriteBlock(f, Len(f), p, data) = Store(f, p, data)
  BY <1>1 DEF WriteBlock, WriteRC
<1>3. PICK n \in Nat :
        n = (IF p < Len(f) THEN Len(f) ELSE p + 1)
  BY <1>1
<1>4. Store(f, p, data) =
        [i \in 1..n |-> IF i = p + 1 THEN data
                        ELSE IF i <= Len(f) THEN f[i] ELSE Zero]
  BY <1>3 DEF Store
<1>5. Store(f, p, data) \in Seq(Contents) /\ Len(Store(f, p, data)) = n
  BY <1>1, <1>4
<1> QED
  BY <1>1, <1>2, <1>3, <1>5

\* An insert, a deletion or an update: the count may only rise to the page
\* that is written.
LEMMA WriteStep ==
  ASSUME CountInv, OneTable, NEW r \in Rels, IsOpen(r),
         NEW p \in Nat, p <= total_pages + 1, NEW data \in Contents,
         Write(r, p, data), name' = name,
         total_pages' \in Nat,
         total_pages' <= total_pages \/ total_pages' = p
  PROVE  CountInv'
<1> DEFINE n == name[r]
           longer == WriteBlock(file[n], Len(file[n]), p, data)
<1>1. n \in Names /\ total_pages < Len(file[n])
  BY DEF CountInv, RecordsInFile, IsOpen
<1>2. file[n] \in Seq(Contents) /\ Len(file[n]) \in Nat /\ total_pages \in Nat
  BY <1>1 DEF CountInv
<1>3. p <= Len(file[n])
  BY <1>1, <1>2
<1>4. /\ longer \in Seq(Contents)
      /\ Len(file[n]) <= Len(longer)
      /\ p < Len(longer)
  BY <1>2, <1>3, WriteLength
<1>5. file' = [file EXCEPT ![n] = longer]
  BY DEF Write
<1>6. file' \in [Names -> Seq(Contents)] /\ file'[n] = longer
  BY <1>1, <1>4, <1>5 DEF CountInv
<1>7. total_pages' < Len(file'[n])
  <2>1. Len(longer) \in Nat
    BY <1>4
  <2> HIDE DEF longer, n
  <2> QED
    BY <1>1, <1>2, <1>4, <1>6, <2>1
<1>8. \A m \in Names : total_pages' < Len(file'[m])
  BY <1>1, <1>7 DEF OneTable
<1>9. RecordsInFile'
  BY <1>8 DEF RecordsInFile, IsOpen, CountInv
<1> QED
  BY <1>6, <1>8, <1>9 DEF CountInv, HasSchema

\* The environment leaves files alone that are open: with one table, no
\* relation is open when a file is made or removed.
LEMMA AllClosed ==
  ASSUME CountInv, OneTable, NEW n \in Names, NotOpen(n)
  PROVE  \A r \in Rels : name[r] = NULL
BY DEF CountInv, OneTable, NotOpen

\* A step that ends with all relations closed and one new content of a file.
LEMMA NewFileStep ==
  ASSUME CountInv, OneTable, NEW n \in Names, NEW f \in Seq(Contents),
         file' = [file EXCEPT ![n] = f],
         total_pages' \in Nat,
         name' \in [Rels -> {NULL}],
         f # <<>> /\ f[1] = Schema => total_pages' < Len(f)
  PROVE  CountInv'
<1>1. file' \in [Names -> Seq(Contents)] /\ file'[n] = f
  BY DEF CountInv
<1>2. \A m \in Names : file'[m] = f
  BY <1>1 DEF OneTable
<1>3. \A m \in Names : HasSchema(m)' => total_pages' < Len(file'[m])
  BY <1>2 DEF HasSchema, Exists
<1>4. RecordsInFile'
  BY DEF RecordsInFile, IsOpen
<1> QED
  BY <1>1, <1>3, <1>4 DEF CountInv

LEMMA CreateStep ==
  ASSUME CountInv, OneTable, NEW n \in Names, createTable(n)
  PROVE  CountInv'
<1>1. name' = name /\ name \in [Rels -> {NULL}]
  BY AllClosed DEF createTable, CountInv
<1>2. CASE file' = [file EXCEPT ![n] = <<Zero>>] /\ total_pages' = total_pages
  <2>1. <<Zero>> \in Seq(Contents) /\ <<Zero>>[1] = Zero
    BY WrittenContents
  <2> QED
    BY <1>1, <1>2, <2>1, Schemas, NewFileStep DEF CountInv
<1>3. CASE file' = [file EXCEPT ![n] = <<Schema>>] /\ total_pages' = 0
  <2>1. <<Schema>> \in Seq(Contents) /\ Len(<<Schema>>) = 1
    BY WrittenContents
  <2>2. total_pages' \in Nat /\ total_pages' < Len(<<Schema>>)
    BY <1>3, <2>1
  <2>3. name' \in [Rels -> {NULL}]
    BY <1>1
  <2> QED
    BY <1>3, <2>1, <2>2, <2>3, NewFileStep
<1> QED
  BY <1>2, <1>3 DEF createTable

LEMMA DeleteStep ==
  ASSUME CountInv, OneTable, NEW n \in Names, deleteTable(n)
  PROVE  CountInv'
<1>1. name' = name /\ name \in [Rels -> {NULL}]
  BY AllClosed DEF deleteTable, CountInv
<1>2. /\ file' = [file EXCEPT ![n] = <<>>]
      /\ total_pages' \in Nat
      /\ <<>> \in Seq(Contents)
  BY DEF deleteTable, CountInv
<1> QED
  BY <1>1, <1>2, NewFileStep

LEMMA CrashStep ==
  ASSUME CountInv, OneTable, Crash \/ \E n \in Names : CrashInCreate(n)
  PROVE  CountInv'
<1>1. total_pages' = 0 /\ name' \in [Rels -> {NULL}]
  BY DEF Crash, CrashInCreate, Restarted
<1>2. CASE Crash
  <2>1. file' = file
    BY <1>2 DEF Crash
  <2>2. \A n \in Names : HasSchema(n)' => total_pages' < Len(file'[n])
    BY <1>1, <2>1 DEF HasSchema, Exists, CountInv
  <2>3. RecordsInFile'
    BY <1>1 DEF RecordsInFile, IsOpen
  <2> QED
    BY <1>1, <2>1, <2>2, <2>3 DEF CountInv
<1>3. ASSUME NEW n \in Names, CrashInCreate(n) PROVE CountInv'
  <2>1. file' = [file EXCEPT ![n] = <<Zero>>]
    BY <1>3 DEF CrashInCreate
  <2>2. <<Zero>> \in Seq(Contents) /\ <<Zero>>[1] = Zero
    BY WrittenContents
  <2> QED
    BY <1>1, <2>1, <2>2, Schemas, NewFileStep
<1> QED
  BY <1>2, <1>3

LEMMA OpenCloseStep ==
  ASSUME CountInv, NEW r \in Rels,
         closeTable(r) \/ \E n \in Names : openTable(r, n)
  PROVE  CountInv'
<1>1. file' = file /\ total_pages' = total_pages
  BY DEF closeTable, openTable
<1>2. CASE closeTable(r)
  <2>1. name' = [name EXCEPT ![r] = NULL]
    BY <1>2 DEF closeTable
  <2> QED
    BY <1>1, <2>1 DEF CountInv, RecordsInFile, IsOpen, HasSchema, Exists
<1>3. ASSUME NEW n \in Names, openTable(r, n) PROVE CountInv'
  <2>1. name' = [name EXCEPT ![r] = n] /\ HasSchema(n)
    BY <1>3 DEF openTable, HasSchema
  <2> QED
    BY <1>1, <2>1 DEF CountInv, RecordsInFile, IsOpen, HasSchema, Exists
<1> QED
  BY <1>2, <1>3

LEMMA InsertStep ==
  ASSUME CountInv, OneTable, NEW r \in Rels, NEW v \in Values, insertRecord(r, v)
  PROVE  CountInv'
<1>1. /\ IsOpen(r)
      /\ Write(r, total_pages + 1, v)
      /\ total_pages' = total_pages + 1
      /\ name' = name
      /\ total_pages \in Nat
  BY DEF insertRecord, FreePage, CountInv
<1>2. total_pages + 1 \in Nat /\ v \in Contents
  BY <1>1, WrittenContents
<1> QED
  BY <1>1, <1>2, WriteStep

LEMMA ChangeStep ==
  ASSUME CountInv, OneTable, NEW r \in Rels, NEW p \in RIDs,
         deleteRecord(r, p) \/ \E v \in Values : updateRecord(r, p, v)
  PROVE  CountInv'
<1>1. total_pages' = total_pages /\ name' = name /\ IsOpen(r)
  BY DEF deleteRecord, updateRecord
<1>2. total_pages \in Nat /\ p \in Int
  BY MaxAssumption DEF CountInv, RIDs
<1>3. CASE file' = file
  BY <1>1, <1>3, SameStep
<1>4. ASSUME NEW data \in Contents, Write(r, p, data), 0 <= p, p <= total_pages
      PROVE  CountInv'
  <2>1. p \in Nat /\ p <= total_pages + 1 /\ total_pages' <= total_pages
    BY <1>1, <1>2, <1>4
  <2> QED
    BY <1>1, <1>2, <1>4, <2>1, WriteStep
<1>5. CASE deleteRecord(r, p)
  <2>1. \/ file' = file
        \/ InTable(p) /\ \E data \in Contents : Write(r, p, data)
    BY <1>5, WrittenContents DEF deleteRecord
  <2>2. InTable(p) => 0 <= p /\ p <= total_pages
    BY <1>2 DEF InTable
  <2> QED
    BY <1>3, <1>4, <2>1, <2>2
<1>6. ASSUME NEW v \in Values, updateRecord(r, p, v) PROVE CountInv'
  <2>1. \/ file' = file
        \/ 0 <= p /\ p <= total_pages /\ Write(r, p, v)
    BY <1>6 DEF updateRecord
  <2>2. v \in Contents
    BY WrittenContents
  <2> QED
    BY <1>3, <1>4, <2>1, <2>2
<1> QED
  BY <1>5, <1>6

LEMMA InvStep ==
  ASSUME CountInv, OneTable, [Next]_vars
  PROVE  CountInv'
<1>1. ASSUME NEW r \in Rels,
             \/ getNumTuples(r) \/ serializeTableContent(r)
             \/ \E p \in RIDs : getRecord(r, p)
             \/ \E s \in Scans, cond \in Conditions : startScan(r, s, cond)
      PROVE  CountInv'
  BY <1>1, SameStep DEF getNumTuples, serializeTableContent, getRecord, startScan
<1>2. ASSUME NEW s \in Scans, nextFound(s) \/ nextNone(s) \/ closeScan(s)
      PROVE  CountInv'
  BY <1>2, SameStep DEF nextFound, nextNone, closeScan
<1>3. CASE UNCHANGED vars
  BY <1>3, SameStep DEF vars
<1> QED
  BY <1>1, <1>2, <1>3, CreateStep, DeleteStep, CrashStep, OpenCloseStep,
     InsertStep, ChangeStep DEF Next

(***************************************************************************)
(* While a table is open, the count of records is below the number of      *)
(* pages in its file: every record is in the file, and the page of the     *)
(* next insert is at most the one behind the end, which writeBlock         *)
(* accepts.                                                                *)
(***************************************************************************)
THEOREM CountFitsFile ==
  ASSUME OneTable
  PROVE  Spec => []RecordsInFile
<1>1. Init => CountInv
  BY InitInv
<1>2. CountInv /\ [Next]_vars => CountInv'
  BY InvStep
<1>3. CountInv => RecordsInFile
  BY DEF CountInv
<1> QED
  BY <1>1, <1>2, <1>3, PTL DEF Spec

-----------------------------------------------------------------------------
(***************************************************************************)
(* The schema of a table, for any number of tables.  It is on the one page *)
(* that no insert or deletion reaches; what has to be known of a state is  *)
(* only that the count is no negative number.                              *)
(***************************************************************************)
FileTypes ==
  /\ file \in [Names -> Seq(Contents)]
  /\ total_pages \in Nat
  /\ name \in [Rels -> Names \cup {NULL}]

LEMMA WrittenSeq ==
  ASSUME NEW f \in Seq(Contents), NEW p \in Nat, NEW data \in Contents
  PROVE  /\ WriteBlock(f, Len(f), p, data) \in Seq(Contents)
         /\ f # <<>> /\ p # 0 =>
              /\ WriteBlock(f, Len(f), p, data) # <<>>
              /\ WriteBlock(f, Len(f), p, data)[1] = f[1]
<1>1. Len(f) \in Nat /\ Zero \in Contents
  BY WrittenContents
<1>2. CASE WriteBlock(f, Len(f), p, data) = f
  BY <1>2
<1>3. CASE WriteBlock(f, Len(f), p, data) = Store(f, p, data)
  <2>1. PICK n \in Nat \ {0} :
          n = (IF p < Len(f) THEN Len(f) ELSE p + 1)
    BY <1>1
  <2>2. Store(f, p, data) =
          [i \in 1..n |-> IF i = p + 1 THEN data
                          ELSE IF i <= Len(f) THEN f[i] ELSE Zero]
    BY <2>1 DEF Store
  <2>3. Store(f, p, data) \in Seq(Contents) /\ Len(Store(f, p, data)) = n
    BY <1>1, <2>1, <2>2
  <2>4. f # <<>> /\ p # 0 => Store(f, p, data)[1] = f[1]
    BY <1>1, <2>1, <2>2
  <2> QED
    BY <1>3, <2>1, <2>3, <2>4
<1> QED
  BY <1>2, <1>3 DEF WriteBlock

\* A write through an open relation, and what it does to the page of a schema.
LEMMA WriteKeeps ==
  ASSUME FileTypes, NEW r \in Rels, IsOpen(r),
         NEW p \in Nat, NEW data \in Contents, Write(r, p, data)
  PROVE  /\ file' \in [Names -> Seq(Contents)]
         /\ \A n \in Names : HasSchema(n) =>
              HasSchema(n)' \/ (name[r] = n /\ p = 0)
<1>1. name[r] \in Names
  BY DEF FileTypes, IsOpen
<1>2. file[name[r]] \in Seq(Contents)
  BY <1>1 DEF FileTypes
<1>3. file' = [file EXCEPT ![name[r]] =
                 WriteBlock(file[name[r]], Len(file[name[r]]), p, data)]
  BY DEF Write
<1>4. file' \in [Names -> Seq(Contents)]
  BY <1>1, <1>2, <1>3, WrittenSeq DEF FileTypes
<1>5. ASSUME NEW n \in Names, HasSchema(n), ~(name[r] = n /\ p = 0)
      PROVE  HasSchema(n)'
  <2>1. CASE name[r] # n
    BY <1>1, <1>3, <1>5, <2>1 DEF FileTypes, HasSchema, Exists
  <2>2. CASE name[r] = n
    <3>1. p # 0 /\ file[n] # <<>> /\ file[n][1] = Schema
      BY <1>5, <2>2 DEF HasSchema, Exists
    <3>2. file'[n] = WriteBlock(file[n], Len(file[n]), p, data)
      BY <1>1, <1>3, <2>2 DEF FileTypes
    <3> DEFINE f == file[n]
    <3>3. f \in Seq(Contents) /\ f # <<>> /\ f[1] = Schema
      BY <1>2, <2>2, <3>1
    <3>4. file'[n] = WriteBlock(f, Len(f), p, data)
      BY <3>2
    <3> HIDE DEF f
    <3>5. file'[n] # <<>> /\ file'[n][1] = Schema
      BY <3>1, <3>3, <3>4, WrittenSeq
    <3> QED
      BY <3>5 DEF HasSchema, Exists
  <2> QED
    BY <2>1, <2>2
<1> QED
  BY <1>4, <1>5

\* One content of one file is replaced, by the calls that make or remove it.
LEMMA ReplaceKeeps ==
  ASSUME FileTypes, NEW n \in Names,
         createTable(n) \/ deleteTable(n) \/ CrashInCreate(n)
  PROVE  FileTypes' /\ \A m \in Names : m # n /\ HasSchema(m) => HasSchema(m)'
<1>1. total_pages' \in Nat /\ name' \in [Rels -> Names \cup {NULL}]
  BY DEF createTable, deleteTable, CrashInCreate, Restarted, FileTypes
<1>2. ASSUME NEW f \in Seq(Contents), file' = [file EXCEPT ![n] = f]
      PROVE  FileTypes' /\ \A m \in Names : m # n /\ HasSchema(m) => HasSchema(m)'
  BY <1>1, <1>2 DEF FileTypes, HasSchema, Exists
<1>3. /\ <<>> \in Seq(Contents)
      /\ <<Zero>> \in Seq(Contents)
      /\ <<Schema>> \in Seq(Contents)
  BY WrittenContents
<1>4. \/ file' = [file EXCEPT ![n] = <<>>]
      \/ file' = [file EXCEPT ![n] = <<Zero>>]
      \/ file' = [file EXCEPT ![n] = <<Schema>>]
  BY DEF createTable, deleteTable, CrashInCreate
<1> QED
  BY <1>2, <1>3, <1>4

\* Every other step leaves the files alone.
LEMMA OtherKeeps ==
  ASSUME FileTypes, file' = file, total_pages' \in Nat,
         name' \in [Rels -> Names \cup {NULL}]
  PROVE  FileTypes' /\ \A n \in Names : HasSchema(n) => HasSchema(n)'
BY DEF FileTypes, HasSchema, Exists

LEMMA ReadOnlyKeeps ==
  ASSUME FileTypes, NEW r \in Rels,
         \/ closeTable(r) \/ getNumTuples(r) \/ serializeTableContent(r)
         \/ \E n \in Names : openTable(r, n)
         \/ \E p \in RIDs : getRecord(r, p)
         \/ \E s \in Scans, cond \in Conditions : startScan(r, s, cond)
  PROVE  FileTypes' /\ \A n \in Names : HasSchema(n) => HasSchema(n)'
<1>1. file' = file /\ total_pages' \in Nat
  BY DEF closeTable, getNumTuples, serializeTableContent, openTable, getRecord,
         startScan, FileTypes
<1>2. name' \in [Rels -> Names \cup {NULL}]
  BY DEF closeTable, getNumTuples, serializeTableContent, openTable, getRecord,
         startScan, FileTypes
<1> QED
  BY <1>1, <1>2, OtherKeeps

LEMMA ScanKeeps ==
  ASSUME FileTypes,
         \/ \E s \in Scans : nextFound(s) \/ nextNone(s) \/ closeScan(s)
         \/ Crash \/ UNCHANGED vars
  PROVE  FileTypes' /\ \A n \in Names : HasSchema(n) => HasSchema(n)'
<1>1. CASE Crash
  BY <1>1, OtherKeeps DEF Crash, Restarted
<1>2. CASE UNCHANGED <<file, total_pages, name>>
  BY <1>2, OtherKeeps DEF FileTypes
<1>3. UNCHANGED <<file, total_pages, name>> \/ Crash
  BY DEF nextFound, nextNone, closeScan, vars
<1> QED
  BY <1>1, <1>2, <1>3

LEMMA InsertKeeps ==
  ASSUME FileTypes, NEW r \in Rels, NEW v \in Values, insertRecord(r, v)
  PROVE  FileTypes' /\ \A n \in Names : HasSchema(n) => HasSchema(n)'
<1>1. /\ IsOpen(r) /\ Write(r, total_pages + 1, v)
      /\ total_pages' = total_pages + 1 /\ name' = name
  BY DEF insertRecord, FreePage
<1>2. /\ total_pages + 1 \in Nat /\ total_pages + 1 # 0
      /\ v \in Contents
  BY WrittenContents DEF FileTypes
<1> QED
  BY <1>1, <1>2, WriteKeeps DEF FileTypes

LEMMA ChangeKeeps ==
  ASSUME FileTypes, NEW r \in Rels, NEW p \in RIDs,
         deleteRecord(r, p) \/ \E v \in Values : updateRecord(r, p, v)
  PROVE  /\ FileTypes'
         /\ \A n \in Names : HasSchema(n) =>
              \/ HasSchema(n)'
              \/ name[r] = n /\ \E v \in Values : updateRecord(r, 0, v)
<1>1. total_pages' = total_pages /\ name' = name /\ IsOpen(r)
  BY DEF deleteRecord, updateRecord
<1>2. total_pages \in Nat /\ p \in Int
  BY MaxAssumption DEF FileTypes, RIDs
<1>3. CASE file' = file
  BY <1>1, <1>2, <1>3, OtherKeeps DEF FileTypes
<1>4. CASE deleteRecord(r, p) /\ file' # file
  <2>1. PICK data \in Contents : Write(r, p, data)
    BY <1>4, WrittenContents DEF deleteRecord
  <2>2. p \in Nat /\ p # 0
    BY <1>2, <1>4 DEF deleteRecord, InTable
  <2> QED
    BY <1>1, <2>1, <2>2, WriteKeeps DEF FileTypes
<1>5. ASSUME NEW v \in Values, updateRecord(r, p, v), file' # file
      PROVE  /\ FileTypes'
             /\ \A n \in Names : HasSchema(n) =>
                  \/ HasSchema(n)'
                  \/ name[r] = n /\ updateRecord(r, 0, v)
  <2>1. p \in Nat /\ Write(r, p, v) /\ v \in Contents
    BY <1>2, <1>5, WrittenContents DEF updateRecord
  <2>2. p = 0 => updateRecord(r, 0, v)
    BY <1>5
  <2> QED
    BY <1>1, <2>1, <2>2, WriteKeeps DEF FileTypes
<1> QED
  BY <1>3, <1>4, <1>5

(***************************************************************************)
(* With any number of tables, records and relations, the schema of a table *)
(* stays on page 0 until the table is created again or deleted, unless the *)
(* caller updates a record with identifier 0.                              *)
(***************************************************************************)
THEOREM SchemaStays == Spec => SchemaSurvives
<1> DEFINE Replaced(n) == createTable(n) \/ deleteTable(n) \/ CrashInCreate(n)
           Updated(n) ==
             \E r \in Rels, v \in Values : name[r] = n /\ updateRecord(r, 0, v)
<1>1. Init => FileTypes
  BY DEF Init, FileTypes
<1>2. ASSUME FileTypes, [Next]_vars
      PROVE  /\ FileTypes'
             /\ \A n \in Names : HasSchema(n) =>
                  HasSchema(n)' \/ Replaced(n) \/ Updated(n)
  <2>1. CASE \E n \in Names : Replaced(n)
    BY <1>2, <2>1, ReplaceKeeps
  <2>2. CASE \E r \in Rels : \E v \in Values : insertRecord(r, v)
    BY <1>2, <2>2, InsertKeeps
  <2>3. CASE \E r \in Rels, p \in RIDs :
               deleteRecord(r, p) \/ \E v \in Values : updateRecord(r, p, v)
    BY <1>2, <2>3, ChangeKeeps
  <2>4. CASE \E r \in Rels :
               \/ closeTable(r) \/ getNumTuples(r) \/ serializeTableContent(r)
               \/ \E n \in Names : openTable(r, n)
               \/ \E p \in RIDs : getRecord(r, p)
               \/ \E s \in Scans, cond \in Conditions : startScan(r, s, cond)
    BY <1>2, <2>4, ReadOnlyKeeps
  <2>5. CASE \/ \E s \in Scans : nextFound(s) \/ nextNone(s) \/ closeScan(s)
             \/ Crash \/ UNCHANGED vars
    BY <1>2, <2>5, ScanKeeps
  <2> QED
    BY <1>2, <2>1, <2>2, <2>3, <2>4, <2>5 DEF Next
<1>3. FileTypes /\ [Next]_vars =>
        [\A n \in Names : Exists(n) /\ file[n][1] = Schema =>
           \/ Exists(n)' /\ file'[n][1] = Schema
           \/ createTable(n) \/ deleteTable(n) \/ CrashInCreate(n)
           \/ \E r \in Rels, v \in Values : name[r] = n /\ updateRecord(r, 0, v)]_vars
  BY <1>2 DEF HasSchema, Exists
<1> QED
  BY <1>1, <1>2, <1>3, PTL DEF Spec, SchemaSurvives

-----------------------------------------------------------------------------
(***************************************************************************)
(* The pools, files and scans: the types of the variables, for any tables, *)
(* relations and scans, and, for one table that one relation opens, that   *)
(* the pool shows what is in the file.                                     *)
(***************************************************************************)

(***************************************************************************)
(* Induction over the natural numbers with a set in the place of the       *)
(* predicate, from the fact that < is well-founded.                        *)
(***************************************************************************)
LEMMA LeastNat ==
  ASSUME NEW T \in SUBSET Nat, T # {}
  PROVE  \E x \in T : \A y \in T : x <= y
<1> DEFINE less == OpToRel(<, Nat)
<1>1. \A x, y \in Nat : x < y => <<x, y>> \in less
  BY DEF OpToRel
<1>2. IsWellFoundedOn(less, Nat)
  BY NatLessThanWellFounded
<1> HIDE DEF less
<1>3. PICK x \in T : \A y \in T : <<y, x>> \notin less
  BY <1>2, WFMin
<1>4. \A y \in T : ~(y < x)
  BY <1>1, <1>3
<1>5. \A y \in T : x <= y
  BY <1>4, SMT
<1> QED
  BY <1>5

LEMMA SetInduction ==
  ASSUME NEW S, 0 \in S, \A k \in Nat : k \in S => k + 1 \in S
  PROVE  \A k \in Nat : k \in S
<1> DEFINE T == Nat \ S
<1> SUFFICES ASSUME T # {} PROVE FALSE
  OBVIOUS
<1>1. PICK x \in T : \A y \in T : x <= y
  BY LeastNat
<1>2. x # 0 /\ x - 1 \in Nat /\ x - 1 \notin T
  BY <1>1
<1>3. (x - 1) + 1 \in S
  BY <1>2
<1> QED
  BY <1>1, <1>3

-----------------------------------------------------------------------------
(***************************************************************************)
(* ReadingAll is a recursive function of the last page.  It has a value:   *)
(* there is a function that satisfies its equation, for a range of pages   *)
(* of any length.                                                          *)
(***************************************************************************)
IsReading(g, n, b, first, end) ==
  g = [p \in (first - 1)..end |->
         IF p < first THEN b ELSE Using(g[p - 1], p, Shown(n, g[p - 1], p))]

LEMMA ReadingExists ==
  ASSUME NEW n, NEW b, NEW first \in Int
  PROVE  \A k \in Nat : \E g : IsReading(g, n, b, first, first - 1 + k)
<1> DEFINE S == {k \in Nat : \E g : IsReading(g, n, b, first, first - 1 + k)}
<1>1. 0 \in S
  <2> DEFINE g == [p \in (first - 1)..(first - 1) |-> b]
  <2>1. IsReading(g, n, b, first, first - 1 + 0)
    BY DEF IsReading
  <2> QED
    BY <2>1
<1>2. ASSUME NEW k \in Nat, k \in S PROVE k + 1 \in S
  <2>1. PICK g : IsReading(g, n, b, first, first - 1 + k)
    BY <1>2
  <2> DEFINE h == [p \in (first - 1)..(first - 1 + (k + 1)) |->
                     IF p < first THEN b
                     ELSE Using(g[p - 1], p, Shown(n, g[p - 1], p))]
  <2>2. \A p \in (first - 1)..(first - 1 + k) :
          /\ h[p] = IF p < first THEN b ELSE Using(g[p - 1], p, Shown(n, g[p - 1], p))
          /\ g[p] = IF p < first THEN b ELSE Using(g[p - 1], p, Shown(n, g[p - 1], p))
    BY <2>1 DEF IsReading
  <2>3. ASSUME NEW p \in (first - 1)..(first - 1 + (k + 1)), ~(p < first)
        PROVE  h[p - 1] = g[p - 1]
    <3>1. p - 1 \in (first - 1)..(first - 1 + k)
      BY <2>3
    <3> HIDE DEF h
    <3> QED
      BY <2>2, <3>1
  <2>4. IsReading(h, n, b, first, first - 1 + (k + 1))
    <3>1. h = [p \in (first - 1)..(first - 1 + (k + 1)) |->
                 IF p < first THEN b ELSE Using(h[p - 1], p, Shown(n, h[p - 1], p))]
      BY <2>3
    <3> QED
      BY <3>1 DEF IsReading
  <2> QED
    BY <2>4
<1> HIDE DEF S
<1>3. \A k \in Nat : k \in S
  BY <1>1, <1>2, SetInduction
<1> QED
  BY <1>3 DEF S

LEMMA ReadingAllIs ==
  ASSUME NEW n, NEW b, NEW first \in Int, NEW end \in Int, first <= end
  PROVE  \E g : /\ IsReading(g, n, b, first, end)
                /\ ReadingAll(n, b, first, end) = g[end]
<1> DEFINE g == CHOOSE h : IsReading(h, n, b, first, end)
<1>1. ReadingAll(n, b, first, end) = g[end]
  BY DEF ReadingAll, IsReading
<1>2. end - (first - 1) \in Nat /\ end = first - 1 + (end - (first - 1))
  OBVIOUS
<1>3. \E h : IsReading(h, n, b, first, end)
  BY <1>2, ReadingExists
<1>4. IsReading(g, n, b, first, end)
  BY <1>3
<1> QED
  BY <1>1, <1>4

(***************************************************************************)
(* What one read keeps, a pass over the pages keeps.                       *)
(***************************************************************************)
LEMMA ReadingStays ==
  ASSUME NEW n, NEW G, NEW b \in G, NEW first \in Int, NEW end \in Int,
         \A x \in G, p \in first..end : Using(x, p, Shown(n, x, p)) \in G
  PROVE  ReadingAll(n, b, first, end) \in G
<1>1. CASE end < first
  BY <1>1 DEF ReadingAll
<1>2. CASE first <= end
  <2>1. PICK g : /\ IsReading(g, n, b, first, end)
                 /\ ReadingAll(n, b, first, end) = g[end]
    BY <1>2, ReadingAllIs
  <2> DEFINE S == {k \in Nat : first - 1 + k <= end => g[first - 1 + k] \in G}
  <2>2. \A p \in (first - 1)..end :
          g[p] = IF p < first THEN b ELSE Using(g[p - 1], p, Shown(n, g[p - 1], p))
    BY <2>1 DEF IsReading
  <2>3. 0 \in S
    BY <1>2, <2>2
  <2>4. ASSUME NEW k \in Nat, k \in S PROVE k + 1 \in S
    <3> SUFFICES ASSUME first - 1 + (k + 1) <= end
                 PROVE  g[first - 1 + (k + 1)] \in G
      OBVIOUS
    <3> DEFINE p == first - 1 + (k + 1)
    <3>1. p \in first..end /\ p - 1 = first - 1 + k /\ p \in (first - 1)..end
      OBVIOUS
    <3>2. g[p - 1] \in G
      BY <2>4, <3>1
    <3> HIDE DEF p
    <3>3. g[p] = Using(g[p - 1], p, Shown(n, g[p - 1], p))
      BY <2>2, <3>1
    <3> QED
      BY <3>1, <3>2, <3>3 DEF p
  <2> HIDE DEF S
  <2>5. \A k \in Nat : k \in S
    BY <2>3, <2>4, SetInduction
  <2>6. PICK k \in Nat : first - 1 + k = end
    <3>1. end - (first - 1) \in Nat /\ first - 1 + (end - (first - 1)) = end
      BY <1>2
    <3> QED
      BY <3>1
  <2>7. first - 1 + k <= end => g[first - 1 + k] \in G
    BY <2>5 DEF S
  <2>8. g[end] \in G
    BY <2>6, <2>7
  <2> QED
    BY <2>1, <2>8
<1> QED
  BY <1>1, <1>2

-----------------------------------------------------------------------------
(***************************************************************************)
(* One use of a page.                                                      *)
(***************************************************************************)
Pools == [frames : Seq(Frame), position : 0..(PoolSize - 1)]

OpenPools == {b \in Pools : Len(b.frames) \in 1..PoolSize}

LEMMA SlotIs ==
  ASSUME NEW b \in Pools, Len(b.frames) <= PoolSize, NEW p
  PROVE  /\ Slot(b, p) \in 1..PoolSize
         /\ Slot(b, p) <= Len(b.frames) + 1
         /\ Holds(b, p) => /\ Slot(b, p) \in DOMAIN b.frames
                           /\ b.frames[Slot(b, p)].page = p
<1>1. /\ b.frames \in Seq(Frame) /\ b.position \in 0..(PoolSize - 1)
      /\ Len(b.frames) \in Nat /\ DOMAIN b.frames = 1..Len(b.frames)
      /\ PoolSize \in Nat /\ PoolSize >= 2
  BY PoolAssumption DEF Pools
<1>2. CASE Holds(b, p)
  <2>1. Slot(b, p) = CHOOSE i \in DOMAIN b.frames : b.frames[i].page = p
    BY <1>2 DEF Slot
  <2>2. Slot(b, p) \in DOMAIN b.frames /\ b.frames[Slot(b, p)].page = p
    BY <1>2, <2>1 DEF Holds
  <2> QED
    BY <1>1, <2>2
<1>3. CASE ~Holds(b, p)
  BY <1>1, <1>3 DEF Slot, Victim
<1> QED
  BY <1>2, <1>3

LEMMA UsingIs ==
  ASSUME NEW b \in Pools, Len(b.frames) <= PoolSize,
         NEW p \in 0..MaxRecords, NEW data \in Contents
  PROVE  LET u == Using(b, p, data)
             i == Slot(b, p)
         IN  /\ u \in OpenPools
             /\ Len(u.frames) = IF i > Len(b.frames) THEN i ELSE Len(b.frames)
             /\ i \in 1..Len(u.frames)
             /\ u.frames[i] = [page |-> p, data |-> data]
             /\ \A j \in 1..Len(u.frames) : j # i =>
                  j \in 1..Len(b.frames) /\ u.frames[j] = b.frames[j]
<1> DEFINE u == Using(b, p, data)
           i == Slot(b, p)
           frame == [page |-> p, data |-> data]
<1>1. /\ b.frames \in Seq(Frame) /\ b.position \in 0..(PoolSize - 1)
      /\ Len(b.frames) \in Nat
      /\ PoolSize \in Nat /\ PoolSize >= 2
  BY PoolAssumption DEF Pools
<1>2. i \in 1..PoolSize /\ i <= Len(b.frames) + 1
  BY SlotIs
<1>3. frame \in Frame
  BY DEF Frame
<1>4. u.position \in 0..(PoolSize - 1)
  <2>1. (b.position + 1) % PoolSize \in 0..(PoolSize - 1)
    BY <1>1
  <2> QED
    BY <1>1, <2>1 DEF Using
<1>5. /\ u.frames = IF i > Len(b.frames) THEN Append(b.frames, frame)
                    ELSE [b.frames EXCEPT ![i] = frame]
      /\ u = [frames |-> u.frames, position |-> u.position]
  BY DEF Using
<1> HIDE DEF u, i, frame
<1>6. CASE i > Len(b.frames)
  <2>1. i = Len(b.frames) + 1 /\ u.frames = Append(b.frames, frame)
    BY <1>1, <1>2, <1>5, <1>6
  <2>2. /\ u.frames \in Seq(Frame) /\ Len(u.frames) = i
        /\ u.frames[i] = frame
        /\ \A j \in 1..Len(b.frames) : u.frames[j] = b.frames[j]
    BY <1>1, <1>3, <2>1
  <2>3. u \in OpenPools
    BY <1>1, <1>2, <1>4, <1>5, <2>2 DEF OpenPools, Pools
  <2> QED
    BY <1>1, <1>2, <1>6, <2>1, <2>2, <2>3 DEF u, i, frame
<1>7. CASE ~(i > Len(b.frames))
  <2>1. i \in 1..Len(b.frames) /\ u.frames = [b.frames EXCEPT ![i] = frame]
    BY <1>1, <1>2, <1>5, <1>7
  <2>2. /\ u.frames \in Seq(Frame) /\ Len(u.frames) = Len(b.frames)
        /\ u.frames[i] = frame
        /\ \A j \in 1..Len(b.frames) : j # i => u.frames[j] = b.frames[j]
    BY <1>1, <1>3, <2>1
  <2>3. u \in OpenPools
    BY <1>1, <1>2, <1>4, <1>5, <2>1, <2>2 DEF OpenPools, Pools
  <2> QED
    BY <1>1, <1>2, <1>7, <2>1, <2>2, <2>3 DEF u, i, frame
<1> QED
  BY <1>6, <1>7

-----------------------------------------------------------------------------
(***************************************************************************)
(* The types of the variables.  A relation's pool is typed whether or not  *)
(* the relation is open, a file whether or not anybody has it open.        *)
(***************************************************************************)
Files == {f \in Seq(Contents) : Len(f) <= MaxRecords + 1}

ScanRecs ==
  [rel : Rels, cond : Conditions, page : 1..(MaxRecords + 1),
   returned : SUBSET (1..MaxRecords), unseen : SUBSET (0..MaxRecords)]

TypeInv ==
  /\ file \in [Names -> Files]
  /\ total_pages \in 0..MaxRecords
  /\ name \in [Rels -> Names \cup {NULL}]
  /\ pool \in [Rels -> Pools]
  /\ \A r \in Rels : IsOpen(r) => pool[r] \in OpenPools
  /\ scan \in [Scans -> ScanRecs \cup {NULL}]
  /\ \A s \in Scans : scan[s] # NULL => IsOpen(scan[s].rel)

LEMMA TypeIsTypeOK == TypeInv => TypeOK
<1> SUFFICES ASSUME TypeInv PROVE TypeOK
  OBVIOUS
<1>1. \A n \in Names : file[n] \in Seq(Contents) /\ Len(file[n]) <= MaxRecords + 1
  BY DEF TypeInv, Files
<1>2. \A r \in Rels : IsOpen(r) =>
        /\ name[r] \in Names
        /\ pool[r].frames \in Seq(Frame)
        /\ Len(pool[r].frames) \in 1..PoolSize
        /\ pool[r].position \in 0..(PoolSize - 1)
  BY DEF TypeInv, OpenPools, Pools, IsOpen
<1>3. \A s \in Scans : scan[s] # NULL =>
        /\ scan[s] \in ScanRecs
        /\ IsOpen(scan[s].rel)
  BY DEF TypeInv
<1>4. \A s \in Scans : scan[s] # NULL =>
        /\ IsOpen(scan[s].rel)
        /\ scan[s].page \in 1..(MaxRecords + 1)
        /\ scan[s].returned \subseteq 1..MaxRecords
        /\ scan[s].unseen \subseteq 0..MaxRecords
  BY <1>3 DEF ScanRecs
<1> QED
  BY <1>1, <1>2, <1>4 DEF TypeOK, TypeInv

LEMMA NoPoolIs == NoPool \in Pools /\ Len(NoPool.frames) = 0
BY PoolAssumption DEF NoPool, Pools

LEMMA InitTypes == Init => TypeInv
<1> SUFFICES ASSUME Init PROVE TypeInv
  OBVIOUS
<1>1. file \in [Names -> Files]
  BY MaxAssumption DEF Init, Files
<1>2. total_pages \in 0..MaxRecords
  BY MaxAssumption DEF Init
<1>3. pool \in [Rels -> Pools]
  BY NoPoolIs DEF Init
<1> QED
  BY <1>1, <1>2, <1>3 DEF Init, TypeInv, IsOpen

\* What a caller is shown of a page, and what a read leaves of the pool.
LEMMA ShownIs ==
  ASSUME file \in [Names -> Files], NEW n \in Names, NEW b \in OpenPools,
         NEW p \in Nat
  PROVE  Shown(n, b, p) \in Contents
<1>1. CASE Holds(b, p)
  <2>1. Slot(b, p) \in DOMAIN b.frames
    BY <1>1, SlotIs DEF OpenPools
  <2>2. b.frames[Slot(b, p)] \in Frame
    BY <2>1 DEF OpenPools, Pools
  <2> QED
    BY <1>1, <2>2 DEF Shown, Frame
<1>2. CASE ~Holds(b, p)
  <2>1. file[n] \in Seq(Contents) /\ Len(file[n]) \in Nat
    BY DEF Files
  <2>2. Junk \in Contents
    BY DEF Contents
  <2>3. ReadBlock(file[n], Len(file[n]), p, Junk) \in Contents
    BY <2>1, <2>2 DEF ReadBlock, ReadRC
  <2> QED
    BY <1>2, <2>3 DEF Shown
<1> QED
  BY <1>1, <1>2

LEMMA ReadingTyped ==
  ASSUME file \in [Names -> Files], NEW n \in Names, NEW b \in OpenPools,
         NEW first \in Nat, NEW end \in Int, end <= MaxRecords
  PROVE  ReadingAll(n, b, first, end) \in OpenPools
<1>1. ASSUME NEW x \in OpenPools, NEW p \in first..end
      PROVE  Using(x, p, Shown(n, x, p)) \in OpenPools
  <2>1. p \in Nat /\ p \in 0..MaxRecords
    BY <1>1, MaxAssumption
  <2>2. Shown(n, x, p) \in Contents
    BY <1>1, <2>1, ShownIs
  <2>3. x \in Pools /\ Len(x.frames) <= PoolSize
    BY <1>1, PoolAssumption DEF OpenPools
  <2> QED
    BY <2>1, <2>2, <2>3, UsingIs
<1> QED
  BY <1>1, ReadingStays

(***************************************************************************)
(* The shapes of a step.                                                   *)
(***************************************************************************)
LEMMA ReadTypes ==
  ASSUME TypeInv, NEW r \in Rels, IsOpen(r),
         NEW first \in Nat, NEW end \in Int, end <= MaxRecords,
         Read(r, first, end)
  PROVE  /\ pool' \in [Rels -> Pools]
         /\ \A q \in Rels : IsOpen(q) => pool'[q] \in OpenPools
<1>1. name[r] \in Names /\ pool[r] \in OpenPools
  BY DEF TypeInv, IsOpen
<1>2. ReadingAll(name[r], pool[r], first, end) \in OpenPools
  BY <1>1, ReadingTyped DEF TypeInv
<1>3. pool' = [pool EXCEPT ![r] = ReadingAll(name[r], pool[r], first, end)]
  BY DEF Read
<1> QED
  BY <1>2, <1>3 DEF TypeInv, OpenPools

LEMMA DisturbedIs ==
  ASSUME TypeInv, NEW p \in 0..MaxRecords
  PROVE  /\ Disturbed(p) \in [Scans -> ScanRecs \cup {NULL}]
         /\ \A s \in Scans : Disturbed(p)[s] # NULL =>
              /\ scan[s] # NULL
              /\ Disturbed(p)[s].rel = scan[s].rel
              /\ Disturbed(p)[s].cond = scan[s].cond
              /\ Disturbed(p)[s].page = scan[s].page
              /\ Disturbed(p)[s].returned = scan[s].returned
              /\ Disturbed(p)[s].unseen =
                   IF scan[s].page = 1 \/ p < scan[s].page
                   THEN scan[s].unseen \cup {p} ELSE scan[s].unseen
<1> DEFINE D == Disturbed(p)
<1>1. ASSUME NEW s \in Scans, scan[s] # NULL
      PROVE  /\ D[s] \in ScanRecs
             /\ D[s].rel = scan[s].rel /\ D[s].cond = scan[s].cond
             /\ D[s].page = scan[s].page /\ D[s].returned = scan[s].returned
             /\ D[s].unseen = IF scan[s].page = 1 \/ p < scan[s].page
                              THEN scan[s].unseen \cup {p} ELSE scan[s].unseen
  <2>1. scan[s] \in ScanRecs
    BY <1>1 DEF TypeInv
  <2>2. CASE scan[s].page = 1 \/ p < scan[s].page
    <3>1. D[s] = [scan[s] EXCEPT !.unseen = scan[s].unseen \cup {p}]
      BY <1>1, <2>2 DEF Disturbed
    <3> HIDE DEF D
    <3> QED
      BY <2>1, <2>2, <3>1 DEF ScanRecs
  <2>3. CASE ~(scan[s].page = 1 \/ p < scan[s].page)
    <3>1. D[s] = scan[s]
      BY <1>1, <2>3 DEF Disturbed
    <3> HIDE DEF D
    <3> QED
      BY <2>1, <2>3, <3>1
  <2> QED
    BY <2>2, <2>3
<1>2. \A s \in Scans : scan[s] = NULL => D[s] = NULL
  BY DEF Disturbed
<1>3. DOMAIN D = Scans /\ D = [s \in Scans |-> D[s]]
  BY DEF Disturbed
<1> HIDE DEF D
<1>4. D \in [Scans -> ScanRecs \cup {NULL}]
  BY <1>1, <1>2, <1>3
<1>5. \A s \in Scans : D[s] # NULL => scan[s] # NULL
  BY <1>2
<1> QED
  BY <1>1, <1>4, <1>5 DEF D

\* A page that is written is at most the one behind the last record.
LEMMA WriteTypes ==
  ASSUME TypeInv, NEW r \in Rels, IsOpen(r), NEW p \in 0..MaxRecords,
         NEW data \in Contents, Write(r, p, data),
         total_pages' \in 0..MaxRecords, name' = name
  PROVE  TypeInv'
<1>1. /\ name[r] \in Names /\ pool[r] \in Pools
      /\ Len(pool[r].frames) <= PoolSize
  BY PoolAssumption DEF TypeInv, IsOpen, OpenPools
<1>2. Using(pool[r], p, data) \in OpenPools
  BY <1>1, UsingIs
<1>3. pool' = [pool EXCEPT ![r] = Using(pool[r], p, data)]
  BY DEF Write
<1>4. /\ pool' \in [Rels -> Pools]
      /\ \A q \in Rels : IsOpen(q) => pool'[q] \in OpenPools
  BY <1>2, <1>3 DEF TypeInv, OpenPools
<1> DEFINE f == file[name[r]]
           g == WriteBlock(f, Len(f), p, data)
<1>5. f \in Seq(Contents) /\ Len(f) \in Nat /\ Len(f) <= MaxRecords + 1
  BY <1>1 DEF TypeInv, Files
<1>6. file' = [file EXCEPT ![name[r]] = g]
  BY DEF Write
<1>7. g \in Files
  <2>1. p \in Nat /\ p + 1 <= MaxRecords + 1
    BY MaxAssumption
  <2> HIDE DEF f
  <2>2. g \in Seq(Contents)
    BY <1>5, <2>1, WrittenSeq
  <2>3. CASE g = f
    BY <1>5, <2>3 DEF Files
  <2>4. CASE g = Store(f, p, data)
    <3>1. Len(g) = IF p < Len(f) THEN Len(f) ELSE p + 1
      BY <1>5, <2>1, <2>4 DEF Store
    <3>2. Len(g) <= MaxRecords + 1
      BY <1>5, <2>1, <3>1
    <3> QED
      BY <2>2, <3>2 DEF Files
  <2> QED
    BY <2>3, <2>4 DEF WriteBlock
<1>8. file' \in [Names -> Files]
  BY <1>1, <1>6, <1>7 DEF TypeInv
<1>9. scan' = Disturbed(p)
  BY DEF Write
<1>10. /\ scan' \in [Scans -> ScanRecs \cup {NULL}]
       /\ \A s \in Scans : scan'[s] # NULL => IsOpen(scan'[s].rel)
  BY <1>9, DisturbedIs DEF TypeInv
<1> QED
  BY <1>4, <1>8, <1>10 DEF TypeInv, IsOpen

\* A step that reads, or does nothing to files and pools.
LEMMA SameTypes ==
  ASSUME TypeInv, UNCHANGED <<file, total_pages, name>>,
         \/ pool' = pool
         \/ \E r \in Rels, first \in Nat, end \in Int :
              IsOpen(r) /\ end <= MaxRecords /\ Read(r, first, end),
         scan' \in [Scans -> ScanRecs \cup {NULL}],
         \A s \in Scans : scan'[s] # NULL => IsOpen(scan'[s].rel)
  PROVE  TypeInv'
<1>1. /\ pool' \in [Rels -> Pools]
      /\ \A q \in Rels : IsOpen(q) => pool'[q] \in OpenPools
  BY ReadTypes DEF TypeInv
<1> QED
  BY <1>1 DEF TypeInv, IsOpen

(***************************************************************************)
(* One lemma for the calls of each kind.                                   *)
(***************************************************************************)
LEMMA ScanIs ==
  ASSUME TypeInv, NEW s \in Scans, scan[s] # NULL
  PROVE  /\ scan[s].rel \in Rels /\ IsOpen(scan[s].rel)
         /\ name[scan[s].rel] \in Names
         /\ scan[s].page \in 1..(MaxRecords + 1) /\ scan[s].page \in Nat
         /\ scan[s].returned \in SUBSET (1..MaxRecords)
         /\ scan[s].unseen \in SUBSET (0..MaxRecords)
         /\ scan[s].cond \in Conditions
         /\ LastScanned(scan[s].cond) \in Int
         /\ LastScanned(scan[s].cond) <= total_pages
         /\ LastScanned(scan[s].cond) <= MaxRecords
<1>1. scan[s] \in ScanRecs /\ IsOpen(scan[s].rel)
  BY DEF TypeInv
<1>2. /\ scan[s].rel \in Rels /\ name[scan[s].rel] \in Names
      /\ scan[s].page \in 1..(MaxRecords + 1) /\ scan[s].page \in Nat
      /\ scan[s].returned \in SUBSET (1..MaxRecords)
      /\ scan[s].unseen \in SUBSET (0..MaxRecords)
      /\ scan[s].cond \in Conditions
  BY <1>1, MaxAssumption DEF ScanRecs, TypeInv, IsOpen
<1>3. total_pages \in Nat /\ MaxRecords \in Nat /\ total_pages <= MaxRecords
  BY MaxAssumption DEF TypeInv
<1>4. /\ LastScanned(scan[s].cond) \in Int
      /\ LastScanned(scan[s].cond) <= total_pages
      /\ LastScanned(scan[s].cond) <= MaxRecords
  BY <1>3 DEF LastScanned
<1> QED
  BY <1>1, <1>2, <1>4

\* A call that reads does so below the last record.
LEMMA ReadsBelow ==
  ASSUME TypeInv,
         \/ \E r \in Rels :
              \/ getNumTuples(r) \/ serializeTableContent(r)
              \/ \E p \in RIDs : getRecord(r, p)
              \/ \E s \in Scans, cond \in Conditions : startScan(r, s, cond)
         \/ \E s \in Scans : nextFound(s) \/ nextNone(s) \/ closeScan(s)
         \/ UNCHANGED vars
  PROVE  /\ UNCHANGED <<file, total_pages, name>>
         /\ \/ pool' = pool
            \/ \E r \in Rels, first \in Nat, end \in Int :
                 IsOpen(r) /\ end <= total_pages /\ Read(r, first, end)
<1>1. UNCHANGED <<file, total_pages, name>>
  BY DEF getNumTuples, serializeTableContent, getRecord, startScan, nextFound,
         nextNone, closeScan, vars
<1>2. total_pages \in Nat /\ RIDs \subseteq Int
  BY MaxAssumption DEF TypeInv, RIDs
<1>3. ASSUME NEW r \in Rels, getNumTuples(r) \/ serializeTableContent(r)
      PROVE  /\ IsOpen(r) /\ Read(r, 1, total_pages - 1)
             /\ 1 \in Nat /\ total_pages - 1 \in Int
             /\ total_pages - 1 <= total_pages
  BY <1>2, <1>3 DEF getNumTuples, serializeTableContent
<1>4. ASSUME NEW r \in Rels, NEW p \in RIDs, getRecord(r, p), pool' # pool
      PROVE  /\ IsOpen(r) /\ Read(r, p, p)
             /\ p \in Nat /\ p \in Int /\ p <= total_pages
  BY <1>2, <1>4 DEF getRecord, InTable
<1>5. ASSUME NEW s \in Scans, nextFound(s) \/ nextNone(s)
      PROVE  \E r \in Rels, first \in Nat, end \in Int :
               IsOpen(r) /\ end <= total_pages /\ Read(r, first, end)
  <2>1. scan[s] # NULL
    BY <1>5 DEF nextFound, nextNone
  <2>2. /\ scan[s].rel \in Rels /\ IsOpen(scan[s].rel) /\ scan[s].page \in Nat
        /\ LastScanned(scan[s].cond) \in Int
        /\ LastScanned(scan[s].cond) <= total_pages
    BY <2>1, ScanIs
  <2>3. \A p \in Unread(s) : p \in Int /\ p <= total_pages
    BY <1>2, <2>2 DEF Unread
  <2>4. \/ \E p \in Unread(s) : Read(scan[s].rel, scan[s].page, p)
        \/ Read(scan[s].rel, scan[s].page, LastScanned(scan[s].cond))
    BY <1>5 DEF nextFound, nextNone
  <2> QED
    BY <2>2, <2>3, <2>4
<1>6. pool' = pool
        \/ (\E r \in Rels : getNumTuples(r) \/ serializeTableContent(r))
        \/ (\E r \in Rels, p \in RIDs : getRecord(r, p))
        \/ (\E s \in Scans : nextFound(s) \/ nextNone(s))
  BY DEF startScan, closeScan, vars
<1> QED
  BY <1>1, <1>3, <1>4, <1>5, <1>6

\* What the calls write is content of a page.
LEMMA PagesWritten ==
  /\ Values \subseteq Contents
  /\ \A content : Marked(content) \subseteq Contents
BY DEF Contents, Marked

\* A record that is counted now is the one on page p.
Counts(p) ==
  total_pages' = total_pages \/ (total_pages' = total_pages + 1 /\ p = total_pages + 1)

\* A call that writes, if it is not refused, writes one page, at most the one
\* behind the last record.
LEMMA WritesTo ==
  ASSUME TypeInv, NEW r \in Rels,
         \/ \E v \in Values : insertRecord(r, v)
         \/ \E p \in RIDs : deleteRecord(r, p) \/ \E v \in Values : updateRecord(r, p, v)
  PROVE  /\ IsOpen(r) /\ name' = name /\ total_pages' \in 0..MaxRecords
         /\ \/ UNCHANGED <<file, total_pages, pool, scan>>
            \/ \E p \in 0..MaxRecords, data \in Contents :
                 p <= total_pages + 1 /\ Counts(p) /\ Write(r, p, data)
<1>1. IsOpen(r) /\ name' = name
  BY DEF insertRecord, deleteRecord, updateRecord
<1>2. /\ total_pages \in Nat /\ MaxRecords \in Nat /\ total_pages <= MaxRecords
      /\ RIDs \subseteq Int
  BY MaxAssumption DEF TypeInv, RIDs
<1>3. ASSUME NEW v \in Values, insertRecord(r, v)
      PROVE  /\ total_pages + 1 \in 0..MaxRecords /\ v \in Contents
             /\ total_pages + 1 <= total_pages + 1
             /\ Write(r, total_pages + 1, v)
             /\ Counts(total_pages + 1)
             /\ total_pages' \in 0..MaxRecords
  BY <1>2, <1>3, PagesWritten DEF insertRecord, FreePage, Counts
<1>4. ASSUME NEW p \in RIDs,
             deleteRecord(r, p) \/ \E v \in Values : updateRecord(r, p, v)
      PROVE  /\ total_pages' \in 0..MaxRecords
             /\ \/ UNCHANGED <<file, total_pages, pool, scan>>
                \/ /\ p \in 0..MaxRecords /\ p <= total_pages + 1 /\ Counts(p)
                   /\ \E data \in Contents : Write(r, p, data)
  <2>1. total_pages' = total_pages
    BY <1>4 DEF deleteRecord, updateRecord
  <2>2. InTable(p) => 0 <= p /\ p <= total_pages
    BY <1>2 DEF InTable
  <2>3. \/ UNCHANGED <<file, pool, scan>>
        \/ 0 <= p /\ p <= total_pages /\ \E data \in Contents : Write(r, p, data)
    BY <1>4, <2>2, PagesWritten DEF deleteRecord, updateRecord
  <2>4. 0 <= p /\ p <= total_pages => p \in 0..MaxRecords /\ p <= total_pages + 1
    BY <1>2
  <2>5. total_pages' \in 0..MaxRecords /\ Counts(p)
    BY <1>2, <2>1 DEF Counts
  <2> QED
    BY <2>1, <2>3, <2>4, <2>5
<1> QED
  BY <1>1, <1>3, <1>4

LEMMA NextTypes ==
  ASSUME TypeInv, NEW s \in Scans, nextFound(s) \/ nextNone(s)
  PROVE  TypeInv'
<1> DEFINE r == scan[s].rel
           end == LastScanned(scan[s].cond)
<1>1. scan[s] # NULL /\ UNCHANGED <<file, total_pages, name>>
  BY DEF nextFound, nextNone
<1>2. /\ r \in Rels /\ IsOpen(r)
      /\ scan[s].page \in 1..(MaxRecords + 1) /\ scan[s].page \in Nat
      /\ scan[s].returned \in SUBSET (1..MaxRecords)
      /\ scan[s].unseen \in SUBSET (0..MaxRecords)
      /\ end \in Int /\ end <= MaxRecords
  BY <1>1, ScanIs
<1>3. scan[s] \in ScanRecs /\ MaxRecords \in Nat
  BY <1>1, MaxAssumption DEF TypeInv
<1>4. Found(s) \in SUBSET (1..MaxRecords) /\ Unseen(s) \in SUBSET (0..MaxRecords)
  BY <1>2 DEF Found, Unseen
<1> DEFINE next(page, returned) ==
             [scan EXCEPT ![s].page = page, ![s].returned = returned,
                          ![s].unseen = Unseen(s)]
<1>5. ASSUME NEW page \in 1..(MaxRecords + 1),
             NEW returned \in SUBSET (1..MaxRecords),
             scan' = next(page, returned)
      PROVE  /\ scan' \in [Scans -> ScanRecs \cup {NULL}]
             /\ \A q \in Scans : scan'[q] # NULL => IsOpen(scan'[q].rel)
  <2>1. scan' = [scan EXCEPT ![s] =
                   [@ EXCEPT !.page = page, !.returned = returned,
                             !.unseen = Unseen(s)]]
    BY <1>5
  <2> DEFINE d == [scan[s] EXCEPT !.page = page, !.returned = returned,
                                  !.unseen = Unseen(s)]
  <2>2. d \in ScanRecs /\ d.rel = r
    BY <1>3, <1>4, <1>5 DEF ScanRecs
  <2>3. scan' = [scan EXCEPT ![s] = d]
    BY <2>1
  <2> HIDE DEF d, r
  <2> QED
    BY <1>2, <2>2, <2>3 DEF TypeInv
<1>6. CASE nextFound(s)
  <2>1. PICK p \in Unread(s) :
          /\ Read(r, scan[s].page, p)
          /\ scan' = next(p + 1, Found(s) \cup {p})
    BY <1>6 DEF nextFound
  <2>2. p \in 1..MaxRecords /\ p \in Int
    BY <1>2, <1>3, <2>1 DEF Unread
  <2>3. p + 1 \in 1..(MaxRecords + 1)
    BY <1>3, <2>2
  <2>4. Found(s) \cup {p} \in SUBSET (1..MaxRecords)
    BY <1>4, <2>2
  <2>5. /\ scan' \in [Scans -> ScanRecs \cup {NULL}]
        /\ \A q \in Scans : scan'[q] # NULL => IsOpen(scan'[q].rel)
    BY <1>5, <2>1, <2>3, <2>4
  <2>6. p <= MaxRecords
    BY <1>3, <2>2
  <2> QED
    BY <1>1, <1>2, <2>1, <2>2, <2>5, <2>6, SameTypes
<1>7. CASE nextNone(s)
  <2>1. Read(r, scan[s].page, end) /\ scan' = next(1, Found(s))
    BY <1>7 DEF nextNone
  <2>2. 1 \in 1..(MaxRecords + 1)
    BY <1>3
  <2>3. /\ scan' \in [Scans -> ScanRecs \cup {NULL}]
        /\ \A q \in Scans : scan'[q] # NULL => IsOpen(scan'[q].rel)
    BY <1>4, <1>5, <2>1, <2>2
  <2> QED
    BY <1>1, <1>2, <2>1, <2>3, SameTypes
<1> QED
  BY <1>6, <1>7

\* Starting and closing a scan.
LEMMA ScanTypes ==
  ASSUME TypeInv, NEW s \in Scans,
         closeScan(s) \/ \E r \in Rels, cond \in Conditions : startScan(r, s, cond)
  PROVE  TypeInv'
<1>1. UNCHANGED <<file, total_pages, name, pool>>
  BY DEF closeScan, startScan
<1>2. CASE closeScan(s)
  <2>1. scan' = [scan EXCEPT ![s] = NULL]
    BY <1>2 DEF closeScan
  <2> QED
    BY <1>1, <2>1, SameTypes DEF TypeInv
<1>3. ASSUME NEW r \in Rels, NEW cond \in Conditions, startScan(r, s, cond)
      PROVE  TypeInv'
  <2> DEFINE new == [rel |-> r, cond |-> cond, page |-> 1,
                     returned |-> {}, unseen |-> 1..MaxRecords]
  <2>1. IsOpen(r) /\ scan' = [scan EXCEPT ![s] = new]
    BY <1>3 DEF startScan
  <2>2. new \in ScanRecs /\ new.rel = r
    <3>1. 1..MaxRecords \in SUBSET (0..MaxRecords) /\ 1 \in 1..(MaxRecords + 1)
      BY MaxAssumption
    <3> QED
      BY <3>1 DEF ScanRecs
  <2> HIDE DEF new
  <2>3. /\ scan' \in [Scans -> ScanRecs \cup {NULL}]
        /\ \A q \in Scans : scan'[q] # NULL => IsOpen(scan'[q].rel)
    BY <2>1, <2>2 DEF TypeInv
  <2> QED
    BY <1>1, <2>3, SameTypes
<1> QED
  BY <1>2, <1>3

LEMMA ReadCallTypes ==
  ASSUME TypeInv, NEW r \in Rels,
         \/ getNumTuples(r) \/ serializeTableContent(r)
         \/ \E p \in RIDs : getRecord(r, p)
  PROVE  TypeInv'
<1>1. scan' = scan
  BY DEF getNumTuples, serializeTableContent, getRecord
<1>2. /\ UNCHANGED <<file, total_pages, name>>
      /\ \/ pool' = pool
         \/ \E q \in Rels, first \in Nat, end \in Int :
              IsOpen(q) /\ end <= total_pages /\ Read(q, first, end)
  BY ReadsBelow
<1>3. \A end \in Int : end <= total_pages => end <= MaxRecords
  BY MaxAssumption DEF TypeInv
<1> QED
  BY <1>1, <1>2, <1>3, SameTypes DEF TypeInv

LEMMA WriteCallTypes ==
  ASSUME TypeInv, NEW r \in Rels,
         \/ \E v \in Values : insertRecord(r, v)
         \/ \E p \in RIDs : deleteRecord(r, p) \/ \E v \in Values : updateRecord(r, p, v)
  PROVE  TypeInv'
<1>1. /\ IsOpen(r) /\ name' = name /\ total_pages' \in 0..MaxRecords
      /\ \/ UNCHANGED <<file, total_pages, pool, scan>>
         \/ \E p \in 0..MaxRecords, data \in Contents : Write(r, p, data)
  BY WritesTo
<1>2. CASE UNCHANGED <<file, total_pages, pool, scan>>
  BY <1>1, <1>2, SameTypes DEF TypeInv
<1> QED
  BY <1>1, <1>2, WriteTypes

\* Tables that are made, removed, opened and closed, and the end of a process.
LEMMA TableTypes ==
  ASSUME TypeInv, NEW n \in Names, createTable(n) \/ deleteTable(n)
  PROVE  TypeInv'
<1>1. UNCHANGED <<name, pool>> /\ total_pages' \in 0..MaxRecords
  BY MaxAssumption DEF createTable, deleteTable, TypeInv
<1>2. /\ <<>> \in Files /\ <<Zero>> \in Files /\ <<Schema>> \in Files
  BY WrittenContents, MaxAssumption DEF Files
<1>3. \E f \in Files : file' = [file EXCEPT ![n] = f]
  BY <1>2 DEF createTable, deleteTable
<1>4. file' \in [Names -> Files]
  BY <1>3 DEF TypeInv
<1>5. /\ scan' \in [Scans -> ScanRecs \cup {NULL}]
      /\ \A s \in Scans : scan'[s] # NULL => IsOpen(scan'[s].rel)
  BY DEF createTable, deleteTable, TypeInv
<1> QED
  BY <1>1, <1>4, <1>5 DEF TypeInv, IsOpen

LEMMA CrashTypes ==
  ASSUME TypeInv, Crash \/ \E n \in Names : CrashInCreate(n)
  PROVE  TypeInv'
<1>1. Restarted
  BY DEF Crash, CrashInCreate
<1>2. <<Zero>> \in Files
  BY WrittenContents, MaxAssumption DEF Files
<1>3. file' \in [Names -> Files]
  BY <1>2 DEF Crash, CrashInCreate, TypeInv
<1>4. /\ total_pages' \in 0..MaxRecords
      /\ name' \in [Rels -> Names \cup {NULL}]
      /\ pool' \in [Rels -> Pools]
      /\ \A r \in Rels : ~IsOpen(r)'
      /\ scan' \in [Scans -> ScanRecs \cup {NULL}]
      /\ \A s \in Scans : scan'[s] = NULL
  BY <1>1, NoPoolIs, MaxAssumption DEF Restarted, IsOpen
<1> QED
  BY <1>3, <1>4 DEF TypeInv

LEMMA OpenTypes ==
  ASSUME TypeInv, NEW r \in Rels, NEW n \in Names, openTable(r, n)
  PROVE  TypeInv'
<1>1. /\ name' = [name EXCEPT ![r] = n]
      /\ pool' = [pool EXCEPT ![r] = Using(NoPool, 0, Schema)]
      /\ UNCHANGED <<file, total_pages, scan>>
  BY DEF openTable
<1>2. Using(NoPool, 0, Schema) \in OpenPools
  <2>1. Len(NoPool.frames) <= PoolSize /\ 0 \in 0..MaxRecords
    BY NoPoolIs, PoolAssumption, MaxAssumption
  <2> QED
    BY <2>1, NoPoolIs, WrittenContents, UsingIs
<1>3. /\ pool' \in [Rels -> Pools]
      /\ \A q \in Rels : IsOpen(q)' => pool'[q] \in OpenPools
  BY <1>1, <1>2 DEF TypeInv, IsOpen, OpenPools
<1>4. \A q \in Rels : IsOpen(q) => IsOpen(q)'
  BY <1>1, NullAssumption DEF TypeInv, IsOpen
<1>5. \A s \in Scans : scan[s] # NULL => scan[s].rel \in Rels
  BY ScanIs
<1> QED
  BY <1>1, <1>3, <1>4, <1>5 DEF TypeInv

LEMMA CloseTypes ==
  ASSUME TypeInv, NEW r \in Rels, closeTable(r)
  PROVE  TypeInv'
<1>1. /\ name' = [name EXCEPT ![r] = NULL]
      /\ pool' = [pool EXCEPT ![r] = NoPool]
      /\ UNCHANGED <<file, total_pages, scan>>
      /\ \A s \in Scans : scan[s] # NULL => scan[s].rel # r
  BY DEF closeTable
<1>2. /\ pool' \in [Rels -> Pools]
      /\ \A q \in Rels : IsOpen(q)' => pool'[q] \in OpenPools
  BY <1>1, NoPoolIs DEF TypeInv, IsOpen
<1>3. \A s \in Scans : scan[s] # NULL => scan[s].rel \in Rels
  BY ScanIs
<1>4. \A s \in Scans : scan[s] # NULL => IsOpen(scan[s].rel)'
  BY <1>1, <1>3 DEF TypeInv, IsOpen
<1> QED
  BY <1>1, <1>2, <1>4 DEF TypeInv

LEMMA TypeStep == TypeInv /\ [Next]_vars => TypeInv'
<1> SUFFICES ASSUME TypeInv, [Next]_vars PROVE TypeInv'
  OBVIOUS
<1>1. CASE UNCHANGED vars
  BY <1>1 DEF vars, TypeInv, IsOpen
<1> QED
  BY <1>1, NextTypes, ScanTypes, ReadCallTypes, WriteCallTypes, TableTypes,
     CrashTypes, OpenTypes, CloseTypes DEF Next

(***************************************************************************)
(* With any tables, relations, scans and conditions: a file holds only     *)
(* what a call wrote, every frame a page that is the schema's or a         *)
(* record's, whatever identifiers the callers pass; no scan outlives its   *)
(* table.                                                                  *)
(***************************************************************************)
THEOREM TypeCorrect == Spec => []TypeOK
<1>1. TypeInv => TypeOK
  BY TypeIsTypeOK
<1> QED
  BY <1>1, InitTypes, TypeStep, PTL DEF Spec

-----------------------------------------------------------------------------
(***************************************************************************)
(* For one table that one relation opens, the frames of the pool show what *)
(* is in the file.  A frame is found by the number of its page: no two     *)
(* frames may hold the same page, or a write would reach only one of them. *)
(***************************************************************************)
OneRel == \A q, r \in Rels : q = r

Fits(b, f) ==
  /\ \A i \in 1..Len(b.frames) :
       /\ b.frames[i].page < Len(f)
       /\ f[b.frames[i].page + 1] = b.frames[i].data
  /\ \A i, j \in 1..Len(b.frames) :
       b.frames[i].page = b.frames[j].page => i = j

GoodPools(f) == {b \in OpenPools : Fits(b, f)}

PoolInv ==
  /\ TypeInv
  /\ CountInv
  /\ \A r \in Rels : IsOpen(r) => Fits(pool[r], file[name[r]])

LEMMA PoolMatches == PoolInv => PoolMatchesFile
<1> SUFFICES ASSUME PoolInv, NEW r \in Rels, IsOpen(r)
             PROVE  \A i \in DOMAIN pool[r].frames :
                      /\ pool[r].frames[i].page < Len(file[name[r]])
                      /\ file[name[r]][pool[r].frames[i].page + 1]
                           = pool[r].frames[i].data
  BY DEF PoolMatchesFile
<1>1. pool[r].frames \in Seq(Frame) /\ Fits(pool[r], file[name[r]])
  BY DEF PoolInv, TypeInv, OpenPools, Pools
<1>2. DOMAIN pool[r].frames = 1..Len(pool[r].frames)
  BY <1>1
<1> QED
  BY <1>1, <1>2 DEF Fits

\* A page is put to use: the file afterwards, g, has the page as the frame has
\* it and every other page as the file before, f.
LEMMA UsingFits ==
  ASSUME NEW b \in Pools, Len(b.frames) <= PoolSize,
         NEW p \in 0..MaxRecords, NEW data \in Contents,
         NEW f \in Seq(Contents), NEW g \in Seq(Contents), Fits(b, f),
         Len(f) <= Len(g), p < Len(g), g[p + 1] = data,
         \A i \in 1..Len(f) : i # p + 1 => g[i] = f[i]
  PROVE  Using(b, p, data) \in GoodPools(g)
<1> DEFINE u == Using(b, p, data)
           i == Slot(b, p)
<1>1. /\ u \in OpenPools
      /\ i \in 1..Len(u.frames)
      /\ u.frames[i] = [page |-> p, data |-> data]
      /\ \A j \in 1..Len(u.frames) : j # i =>
           j \in 1..Len(b.frames) /\ u.frames[j] = b.frames[j]
  BY UsingIs
<1>2. Holds(b, p) => i \in DOMAIN b.frames /\ b.frames[i].page = p
  BY SlotIs
<1>3. /\ b.frames \in Seq(Frame) /\ Len(b.frames) \in Nat
      /\ DOMAIN b.frames = 1..Len(b.frames)
  BY DEF Pools
<1>4. Len(f) \in Nat /\ Len(g) \in Nat /\ p \in Nat
  BY MaxAssumption
<1> HIDE DEF u, i
<1>5. ASSUME NEW j \in 1..Len(u.frames), j # i
      PROVE  /\ u.frames[j].page # p
             /\ u.frames[j].page < Len(g)
             /\ g[u.frames[j].page + 1] = u.frames[j].data
  <2>1. j \in 1..Len(b.frames) /\ u.frames[j] = b.frames[j]
    BY <1>1, <1>5
  <2> DEFINE q == b.frames[j].page
  <2>2. b.frames[j] \in Frame
    BY <1>3, <2>1
  <2>3. q \in Nat
    BY <2>2, MaxAssumption DEF Frame
  <2>4. q < Len(f) /\ f[q + 1] = b.frames[j].data
    BY <2>1 DEF Fits
  <2>5. q # p
    <3> SUFFICES ASSUME q = p PROVE FALSE
      OBVIOUS
    <3>1. Holds(b, p)
      BY <1>3, <2>1 DEF Holds
    <3>2. i \in 1..Len(b.frames) /\ b.frames[i].page = b.frames[j].page
      BY <1>2, <1>3, <3>1
    <3>3. i = j
      BY <2>1, <3>2 DEF Fits
    <3> QED
      BY <1>5, <3>3
  <2> HIDE DEF q
  <2>6. q + 1 \in 1..Len(f) /\ q + 1 # p + 1 /\ q < Len(g)
    BY <1>4, <2>3, <2>4, <2>5
  <2>7. g[q + 1] = f[q + 1]
    BY <2>6
  <2> QED
    BY <2>1, <2>4, <2>5, <2>6, <2>7 DEF q
<1>6. u.frames[i].page = p /\ u.frames[i].data = data
  BY <1>1
<1>7. \A j, k \in 1..Len(u.frames) :
        u.frames[j].page = u.frames[k].page => j = k
  <2>1. ASSUME NEW j \in 1..Len(u.frames), NEW k \in 1..Len(u.frames),
               u.frames[j].page = u.frames[k].page, j # i, k # i
        PROVE  j = k
    <3>1. /\ j \in 1..Len(b.frames) /\ u.frames[j] = b.frames[j]
          /\ k \in 1..Len(b.frames) /\ u.frames[k] = b.frames[k]
      BY <1>1, <2>1
    <3> QED
      BY <2>1, <3>1 DEF Fits
  <2> QED
    BY <1>5, <1>6, <2>1
<1>8. \A j \in 1..Len(u.frames) :
        /\ u.frames[j].page < Len(g)
        /\ g[u.frames[j].page + 1] = u.frames[j].data
  BY <1>5, <1>6
<1>9. u \in GoodPools(g)
  BY <1>1, <1>7, <1>8 DEF GoodPools, Fits
<1> QED
  BY <1>9 DEF u

\* Whether the page is in a frame or has to be read: the caller sees the file.
LEMMA ShownFits ==
  ASSUME file \in [Names -> Files], NEW n \in Names,
         NEW b \in GoodPools(file[n]), NEW p \in Nat, p < Len(file[n])
  PROVE  Shown(n, b, p) = file[n][p + 1]
<1>1. CASE Holds(b, p)
  <2>1. /\ b.frames \in Seq(Frame) /\ b \in Pools /\ Len(b.frames) <= PoolSize
    BY PoolAssumption DEF GoodPools, OpenPools, Pools
  <2>2. Slot(b, p) \in 1..Len(b.frames) /\ b.frames[Slot(b, p)].page = p
    BY <1>1, <2>1, SlotIs
  <2>3. file[n][p + 1] = b.frames[Slot(b, p)].data
    BY <2>2 DEF GoodPools, Fits
  <2> QED
    BY <1>1, <2>3 DEF Shown
<1>2. CASE ~Holds(b, p)
  <2>1. file[n] \in Seq(Contents) /\ Len(file[n]) \in Nat
    BY DEF Files
  <2>2. ReadBlock(file[n], Len(file[n]), p, Junk) = file[n][p + 1]
    BY <2>1 DEF ReadBlock, ReadRC
  <2> QED
    BY <1>2, <2>2 DEF Shown
<1> QED
  BY <1>1, <1>2

LEMMA ReadingFits ==
  ASSUME file \in [Names -> Files], NEW n \in Names,
         NEW b \in GoodPools(file[n]), NEW first \in Nat, NEW end \in Int,
         end <= MaxRecords, end < Len(file[n])
  PROVE  ReadingAll(n, b, first, end) \in GoodPools(file[n])
<1>1. file[n] \in Seq(Contents) /\ Len(file[n]) \in Nat
  BY DEF Files
<1>2. ASSUME NEW x \in GoodPools(file[n]), NEW p \in first..end
      PROVE  Using(x, p, Shown(n, x, p)) \in GoodPools(file[n])
  <2>1. p \in Nat /\ p \in 0..MaxRecords /\ p < Len(file[n])
    BY <1>1, <1>2, MaxAssumption
  <2>2. Shown(n, x, p) = file[n][p + 1]
    BY <1>2, <2>1, ShownFits
  <2>3. file[n][p + 1] \in Contents
    BY <1>1, <2>1
  <2>4. x \in Pools /\ Len(x.frames) <= PoolSize /\ Fits(x, file[n])
    BY PoolAssumption DEF GoodPools, OpenPools
  <2>5. Len(file[n]) <= Len(file[n])
    BY <1>1
  <2> HIDE DEF Fits
  <2>6. Using(x, p, file[n][p + 1]) \in GoodPools(file[n])
    BY <1>1, <2>1, <2>3, <2>4, <2>5, UsingFits
  <2> QED
    BY <2>2, <2>6
<1> QED
  BY <1>2, ReadingStays

\* A page of the file, or the one behind its end, is written.
LEMMA WriteIs ==
  ASSUME NEW f \in Seq(Contents), NEW p \in Nat, p <= Len(f),
         NEW data \in Contents
  PROVE  LET g == WriteBlock(f, Len(f), p, data)
         IN  /\ g \in Seq(Contents)
             /\ Len(g) = IF p < Len(f) THEN Len(f) ELSE p + 1
             /\ Len(f) <= Len(g) /\ p < Len(g)
             /\ g[p + 1] = data
             /\ \A i \in 1..Len(f) : i # p + 1 => g[i] = f[i]
<1>1. Len(f) \in Nat /\ Zero \in Contents
  BY WrittenContents
<1>2. PICK g : g = WriteBlock(f, Len(f), p, data)
  OBVIOUS
<1>3. g = Store(f, p, data)
  BY <1>1, <1>2 DEF WriteBlock, WriteRC
<1>4. PICK n \in Nat :
        n = (IF p < Len(f) THEN Len(f) ELSE p + 1)
  BY <1>1
<1>5. g = [i \in 1..n |-> IF i = p + 1 THEN data
                          ELSE IF i <= Len(f) THEN f[i] ELSE Zero]
  BY <1>3, <1>4 DEF Store
<1>6. g \in Seq(Contents) /\ Len(g) = n
  BY <1>1, <1>4, <1>5
<1>7. n >= Len(f) /\ n > p /\ p + 1 \in 1..n
  BY <1>1, <1>4
<1>8. g[p + 1] = data
  BY <1>5, <1>7
<1>9. \A i \in 1..Len(f) : i # p + 1 => g[i] = f[i]
  BY <1>1, <1>5, <1>7
<1> QED
  BY <1>1, <1>2, <1>4, <1>6, <1>7, <1>8, <1>9

\* The file of the open relation, and what is known of it.
LEMMA OpenIs ==
  ASSUME PoolInv, NEW r \in Rels, IsOpen(r)
  PROVE  /\ name[r] \in Names
         /\ file[name[r]] \in Seq(Contents)
         /\ total_pages < Len(file[name[r]])
         /\ pool[r] \in GoodPools(file[name[r]])
BY DEF PoolInv, TypeInv, CountInv, RecordsInFile, GoodPools, Files, IsOpen

LEMMA InitPools == Init => PoolInv
BY InitTypes, InitInv DEF Init, PoolInv, IsOpen

LEMMA ReadPools ==
  ASSUME PoolInv, OneTable, [Next]_vars, UNCHANGED <<file, total_pages, name>>,
         \/ pool' = pool
         \/ \E r \in Rels, first \in Nat, end \in Int :
              IsOpen(r) /\ end <= total_pages /\ Read(r, first, end)
  PROVE  PoolInv'
<1>1. TypeInv' /\ CountInv'
  BY TypeStep, InvStep DEF PoolInv
<1>2. ASSUME NEW r \in Rels, NEW first \in Nat, NEW end \in Int,
             IsOpen(r), end <= total_pages, Read(r, first, end),
             NEW q \in Rels, IsOpen(q)
      PROVE  Fits(pool'[q], file[name[q]])
  <2>1. /\ name[r] \in Names /\ file[name[r]] \in Seq(Contents)
        /\ total_pages < Len(file[name[r]])
        /\ pool[r] \in GoodPools(file[name[r]])
    BY <1>2, OpenIs
  <2>2. file \in [Names -> Files] /\ total_pages \in Nat /\ MaxRecords \in Nat
        /\ total_pages <= MaxRecords
    BY MaxAssumption DEF PoolInv, TypeInv
  <2>3. end <= MaxRecords /\ end < Len(file[name[r]])
    BY <1>2, <2>1, <2>2
  <2>4. ReadingAll(name[r], pool[r], first, end) \in GoodPools(file[name[r]])
    BY <2>1, <2>2, <2>3, ReadingFits
  <2>5. pool' = [pool EXCEPT ![r] = ReadingAll(name[r], pool[r], first, end)]
    BY <1>2 DEF Read
  <2>6. CASE q = r
    BY <2>4, <2>5, <2>6 DEF PoolInv, TypeInv, GoodPools
  <2>7. CASE q # r
    <3>1. pool'[q] = pool[q]
      BY <2>5, <2>7 DEF PoolInv, TypeInv
    <3> QED
      BY <1>2, <3>1 DEF PoolInv
  <2> QED
    BY <2>6, <2>7
<1>3. \A q \in Rels : IsOpen(q) => Fits(pool'[q], file[name[q]])
  BY <1>2 DEF PoolInv
<1> QED
  BY <1>1, <1>3 DEF PoolInv, IsOpen

LEMMA WritePools ==
  ASSUME PoolInv, OneTable, OneRel, [Next]_vars, name' = name,
         NEW r \in Rels, IsOpen(r), NEW p \in 0..MaxRecords,
         NEW data \in Contents, p <= total_pages + 1, Write(r, p, data)
  PROVE  PoolInv'
<1>1. TypeInv' /\ CountInv'
  BY TypeStep, InvStep DEF PoolInv
<1>2. /\ name[r] \in Names /\ file[name[r]] \in Seq(Contents)
      /\ total_pages < Len(file[name[r]])
      /\ pool[r] \in GoodPools(file[name[r]])
  BY OpenIs
<1> DEFINE f == file[name[r]]
           g == WriteBlock(f, Len(f), p, data)
<1>3. p \in Nat /\ p <= Len(f)
  BY <1>2, MaxAssumption DEF PoolInv, TypeInv
<1>4. /\ g \in Seq(Contents)
      /\ Len(f) <= Len(g) /\ p < Len(g)
      /\ g[p + 1] = data
      /\ \A i \in 1..Len(f) : i # p + 1 => g[i] = f[i]
  BY <1>2, <1>3, WriteIs
<1>5. pool[r] \in Pools /\ Len(pool[r].frames) <= PoolSize /\ Fits(pool[r], f)
  BY <1>2, PoolAssumption DEF GoodPools, OpenPools
<1>6. /\ file' = [file EXCEPT ![name[r]] = g]
      /\ pool' = [pool EXCEPT ![r] = Using(pool[r], p, data)]
  BY DEF Write
<1>7. file'[name[r]] = g /\ pool'[r] = Using(pool[r], p, data)
  BY <1>2, <1>6 DEF PoolInv, TypeInv
<1> HIDE DEF f, g, Fits
<1>8. Using(pool[r], p, data) \in GoodPools(g)
  BY <1>2, <1>4, <1>5, UsingFits DEF f
<1>9. Fits(pool'[r], file'[name[r]])
  BY <1>7, <1>8 DEF GoodPools
<1>10. \A q \in Rels : Fits(pool'[q], file'[name[q]])
  BY <1>9 DEF OneRel
<1> QED
  BY <1>1, <1>10 DEF PoolInv

\* Nothing is open after the step: a table is made or removed, which the
\* environment does to no open one, or the process ends.
LEMMA ClosedPools ==
  ASSUME PoolInv, OneTable, [Next]_vars, \A r \in Rels : name'[r] = NULL
  PROVE  PoolInv'
BY TypeStep, InvStep DEF PoolInv, IsOpen

LEMMA OpenClosePools ==
  ASSUME PoolInv, OneTable, OneRel, NEW r \in Rels, [Next]_vars,
         closeTable(r) \/ \E n \in Names : openTable(r, n)
  PROVE  PoolInv'
<1>1. CASE closeTable(r)
  <2>1. name'[r] = NULL
    BY <1>1 DEF closeTable, PoolInv, TypeInv
  <2> QED
    BY <2>1, ClosedPools DEF OneRel
<1>2. ASSUME NEW n \in Names, openTable(r, n) PROVE PoolInv'
  <2>1. /\ Exists(n) /\ file[n][1] = Schema
        /\ name' = [name EXCEPT ![r] = n]
        /\ pool' = [pool EXCEPT ![r] = Using(NoPool, 0, Schema)]
        /\ file' = file
    BY <1>2 DEF openTable
  <2>2. name'[r] = n /\ pool'[r] = Using(NoPool, 0, Schema)
    BY <2>1 DEF PoolInv, TypeInv
  <2>3. file[n] \in Seq(Contents) /\ Len(file[n]) \in Nat /\ 0 < Len(file[n])
    BY <2>1 DEF PoolInv, CountInv, Exists
  <2>4. /\ NoPool \in Pools /\ Len(NoPool.frames) = 0
        /\ Len(NoPool.frames) <= PoolSize /\ 0 \in 0..MaxRecords
    BY NoPoolIs, PoolAssumption, MaxAssumption
  <2>5. Fits(NoPool, file[n])
    BY <2>4 DEF Fits
  <2>6. /\ file[n][0 + 1] = Schema /\ Schema \in Contents
        /\ Len(file[n]) <= Len(file[n])
    BY <2>1, <2>3, WrittenContents
  <2> HIDE DEF Fits
  <2>7. Using(NoPool, 0, Schema) \in GoodPools(file[n])
    BY <2>3, <2>4, <2>5, <2>6, UsingFits
  <2>8. Fits(pool'[r], file'[name'[r]])
    BY <2>1, <2>2, <2>7 DEF GoodPools
  <2>9. \A q \in Rels : Fits(pool'[q], file'[name'[q]])
    BY <2>8 DEF OneRel
  <2> QED
    BY <2>9, TypeStep, InvStep DEF PoolInv
<1> QED
  BY <1>1, <1>2

LEMMA PoolStep ==
  ASSUME PoolInv, OneTable, OneRel, [Next]_vars
  PROVE  PoolInv'
<1>1. ASSUME \/ \E r \in Rels :
                  \/ getNumTuples(r) \/ serializeTableContent(r)
                  \/ \E p \in RIDs : getRecord(r, p)
                  \/ \E s \in Scans, cond \in Conditions : startScan(r, s, cond)
             \/ \E s \in Scans : nextFound(s) \/ nextNone(s) \/ closeScan(s)
             \/ UNCHANGED vars
      PROVE  PoolInv'
  <2>1. TypeInv
    BY DEF PoolInv
  <2> QED
    BY <1>1, <2>1, ReadsBelow, ReadPools
<1>2. ASSUME NEW r \in Rels,
             \/ \E v \in Values : insertRecord(r, v)
             \/ \E p \in RIDs : deleteRecord(r, p)
                                  \/ \E v \in Values : updateRecord(r, p, v)
      PROVE  PoolInv'
  <2>1. /\ IsOpen(r) /\ name' = name
        /\ \/ UNCHANGED <<file, total_pages, pool, scan>>
           \/ \E p \in 0..MaxRecords, data \in Contents :
                p <= total_pages + 1 /\ Write(r, p, data)
    BY <1>2, WritesTo DEF PoolInv
  <2> QED
    BY <2>1, ReadPools, WritePools
<1>3. ASSUME NEW n \in Names, createTable(n) \/ deleteTable(n) PROVE PoolInv'
  <2>1. name' = name /\ \A r \in Rels : name[r] = NULL
    BY <1>3, AllClosed DEF createTable, deleteTable, PoolInv
  <2> QED
    BY <2>1, ClosedPools
<1>4. ASSUME Crash \/ \E n \in Names : CrashInCreate(n) PROVE PoolInv'
  BY <1>4, ClosedPools DEF Crash, CrashInCreate, Restarted
<1> QED
  BY <1>1, <1>2, <1>3, <1>4, OpenClosePools DEF Next

(***************************************************************************)
(* For a table of any length behind a pool of any size: whatever the reads *)
(* have evicted and loaded again, the frames show what is in the file, and *)
(* a record that was inserted, updated or marked is in the file when the   *)
(* call has returned.                                                      *)
(***************************************************************************)
THEOREM PoolIsFile ==
  ASSUME OneTable, OneRel
  PROVE  Spec => []PoolMatchesFile
<1>1. Init => PoolInv
  BY InitPools
<1>2. PoolInv /\ [Next]_vars => PoolInv'
  BY PoolStep
<1>3. PoolInv => PoolMatchesFile
  BY PoolMatches
<1> QED
  BY <1>1, <1>2, <1>3, PTL DEF Spec

-----------------------------------------------------------------------------
(***************************************************************************)
(* What the callers see, for one table of any length that one relation     *)
(* opens, with any scans and conditions: a scan returns what its condition *)
(* asks for, and the table is the abstract one of RecordTable.  Both rest  *)
(* on PoolInv, that the pool shows the file.                               *)
(***************************************************************************)

\* A page that is not spoilt is read as the one record it was written with.
LEMMA ParsesIs ==
  /\ \A v \in Values : Parses(v) = {v} /\ Parses(Tomb(v)) = {v}
  /\ \A content : Parses(content) \subseteq Values
<1>1. ASSUME NEW v \in Values, NEW w \in Values
      PROVE  v # Tomb(w) /\ (Tomb(v) = Tomb(w) => v = w)
  BY TombAssumption DEF Tomb
<1>2. ASSUME NEW v \in Values PROVE Parses(v) = {v} /\ Parses(Tomb(v)) = {v}
  BY <1>1 DEF Parses
<1> QED
  BY <1>2 DEF Parses

-----------------------------------------------------------------------------
(***************************************************************************)
(* The scans.  A pass has decided the pages it has gone over, but for      *)
(* those that were written behind it: the records it has returned are      *)
(* those that satisfy the condition.  A scan on page 1 has come to its     *)
(* end, and has gone over all pages, or has not begun and seen none.       *)
(***************************************************************************)
Content(s, p) == file[name[scan[s].rel]][p + 1]

Decided(s, p) ==
  Content(s, p) \in Values =>
    (p \in scan[s].returned <=> Content(s, p) \in scan[s].cond)

Passed(s) ==
  {p \in 1..total_pages : scan[s].page = 1 \/ p < scan[s].page}

ScanOK(s) ==
  /\ scan[s].page # 1 => \A p \in scan[s].returned : p < scan[s].page
  /\ scan[s].cond # NULL => \A p \in Passed(s) \ scan[s].unseen : Decided(s, p)

ScanInv ==
  /\ PoolInv
  /\ \A s \in Scans : scan[s] # NULL => ScanOK(s)

LEMMA ScansComplete == ScanInv => ScanComplete
<1> SUFFICES ASSUME ScanInv, NEW s \in Scans, scan[s] # NULL,
                    scan[s].cond # NULL, scan[s].page = 1,
                    NEW p \in (1..total_pages) \ scan[s].unseen
             PROVE  Decided(s, p)
  BY DEF ScanComplete, Decided, Content
<1> QED
  BY DEF ScanInv, ScanOK, Passed

\* The pages a scan reads are records of the table, and it sees what the file
\* holds, whatever the pages it has read before have evicted.
LEMMA ShownToIs ==
  ASSUME PoolInv, NEW s \in Scans, scan[s] # NULL, NEW p \in Unread(s)
  PROVE  /\ p \in 1..total_pages /\ scan[s].page <= p
         /\ p < Len(file[name[scan[s].rel]])
         /\ ShownTo(s, p) = Content(s, p)
<1> DEFINE r == scan[s].rel
           n == name[r]
<1>1. /\ r \in Rels /\ IsOpen(r) /\ n \in Names
      /\ scan[s].page \in 1..(MaxRecords + 1) /\ scan[s].page \in Nat
      /\ LastScanned(scan[s].cond) \in Int
      /\ LastScanned(scan[s].cond) <= total_pages
  BY ScanIs DEF PoolInv
<1>2. /\ file[n] \in Seq(Contents) /\ total_pages < Len(file[n])
      /\ pool[r] \in GoodPools(file[n]) /\ Len(file[n]) \in Nat
  BY <1>1, OpenIs
<1>3. /\ total_pages \in Nat /\ MaxRecords \in Nat /\ total_pages <= MaxRecords
      /\ file \in [Names -> Files]
  BY MaxAssumption DEF PoolInv, TypeInv
<1> HIDE DEF r, n
<1>4. /\ p \in 1..total_pages /\ scan[s].page <= p /\ p \in Nat
      /\ p < Len(file[n])
  BY <1>1, <1>2, <1>3 DEF Unread
<1>5. p - 1 \in Int /\ p - 1 <= MaxRecords /\ p - 1 < Len(file[n])
  BY <1>2, <1>3, <1>4
<1>6. ReadingAll(n, pool[r], scan[s].page, p - 1) \in GoodPools(file[n])
  BY <1>1, <1>2, <1>3, <1>5, ReadingFits
<1>7. Shown(n, ReadingAll(n, pool[r], scan[s].page, p - 1), p) = file[n][p + 1]
  BY <1>1, <1>3, <1>4, <1>6, ShownFits
<1> QED
  BY <1>4, <1>7 DEF ShownTo, Content, r, n

\* A page the call has read with the outcome got[p].
LEMMA ReadDecides ==
  ASSUME PoolInv, NEW s \in Scans, scan[s] # NULL, scan[s].cond # NULL,
         NEW p \in Unread(s), NEW got \in Records(s), Content(s, p) \in Values
  PROVE  Content(s, p) \in scan[s].cond <=> Matches(s, got[p])
<1>1. got[p] \in Parses(Content(s, p))
  BY ShownToIs DEF Records
<1>2. got[p] = Content(s, p)
  BY <1>1, ParsesIs
<1> QED
  BY <1>2 DEF Matches

(***************************************************************************)
(* A scan goes on.                                                         *)
(***************************************************************************)
\* What is known of a page the new pass has gone over before this call.
LEMMA FoundIs ==
  ASSUME ScanInv, NEW s \in Scans, scan[s] # NULL
  PROVE  /\ \A p \in Found(s) : p < scan[s].page
         /\ scan[s].cond # NULL =>
              \A p \in (1..total_pages) \ Unseen(s) :
                p < scan[s].page /\ Content(s, p) \in Values =>
                  (p \in Found(s) <=> Content(s, p) \in scan[s].cond)
<1>1. ScanOK(s) /\ scan[s].page \in Nat
  BY ScanIs DEF ScanInv, PoolInv
<1>2. CASE scan[s].page = 1
  <2>1. \A p \in 1..total_pages : ~(p < 1)
    OBVIOUS
  <2> QED
    BY <1>2, <2>1 DEF Found
<1>3. CASE scan[s].page # 1
  <2>1. Found(s) = scan[s].returned /\ Unseen(s) = scan[s].unseen
    BY <1>3 DEF Found, Unseen
  <2> QED
    BY <1>1, <1>3, <2>1 DEF ScanOK, Passed, Decided
<1> QED
  BY <1>2, <1>3

\* The scan after the call, and its fields.
GoesTo(s, page, returned) ==
  scan' = [scan EXCEPT ![s].page = page, ![s].returned = returned,
                       ![s].unseen = Unseen(s)]

LEMMA NextScan ==
  ASSUME TypeInv, NEW s \in Scans, scan[s] # NULL, NEW page, NEW returned,
         GoesTo(s, page, returned)
  PROVE  /\ scan'[s].rel = scan[s].rel /\ scan'[s].cond = scan[s].cond
         /\ scan'[s].page = page /\ scan'[s].returned = returned
         /\ scan'[s].unseen = Unseen(s)
         /\ \A q \in Scans : q # s => scan'[q] = scan[q]
<1> DEFINE d == [scan[s] EXCEPT !.page = page, !.returned = returned,
                                !.unseen = Unseen(s)]
<1>1. scan[s] \in ScanRecs
  BY DEF TypeInv
<1>2. scan' = [scan EXCEPT ![s] = d]
  BY DEF GoesTo
<1>3. /\ d.rel = scan[s].rel /\ d.cond = scan[s].cond
      /\ d.page = page /\ d.returned = returned /\ d.unseen = Unseen(s)
  BY <1>1 DEF ScanRecs
<1> HIDE DEF d
<1>4. scan'[s] = d /\ \A q \in Scans : q # s => scan'[q] = scan[q]
  BY <1>2 DEF TypeInv
<1> QED
  BY <1>3, <1>4

\* A scan that is left alone, in a step that leaves its table alone.
LEMMA SameScan ==
  ASSUME NEW s \in Scans, ScanOK(s), scan'[s] = scan[s],
         UNCHANGED <<file, total_pages>>,
         name'[scan[s].rel] = name[scan[s].rel]
  PROVE  ScanOK(s)'
BY DEF ScanOK, Passed, Decided, Content

LEMMA NextFoundScan ==
  ASSUME ScanInv, NEW s \in Scans, nextFound(s)
  PROVE  ScanOK(s)'
<1>1. scan[s] # NULL /\ UNCHANGED <<file, total_pages, name>>
  BY DEF nextFound
<1>2. PICK got \in Records(s), p \in Unread(s) :
        /\ Matches(s, got[p])
        /\ \A q \in Unread(s) : q < p => ~Matches(s, got[q])
        /\ GoesTo(s, p + 1, Found(s) \cup {p})
  BY DEF nextFound, GoesTo
<1>3. /\ scan'[s].rel = scan[s].rel /\ scan'[s].cond = scan[s].cond
      /\ scan'[s].page = p + 1 /\ scan'[s].returned = Found(s) \cup {p}
      /\ scan'[s].unseen = Unseen(s)
  <2>1. TypeInv
    BY DEF ScanInv, PoolInv
  <2> QED
    BY <1>1, <1>2, <2>1, NextScan
<1>4. p \in 1..total_pages /\ scan[s].page <= p /\ scan[s].page \in Nat
      /\ LastScanned(scan[s].cond) \in Int
  BY <1>1, ShownToIs, ScanIs DEF ScanInv, PoolInv
<1>5. \A q \in Found(s) : q < scan[s].page
  BY <1>1, FoundIs
<1>6. \A q \in Found(s) : q < p + 1
  <2>1. Found(s) \subseteq Nat
    BY <1>1, ScanIs DEF Found, ScanInv, PoolInv
  <2> QED
    BY <1>4, <1>5, <2>1
<1>7. ASSUME scan[s].cond # NULL, NEW q \in (1..total_pages) \ Unseen(s),
             q < p + 1, Content(s, q) \in Values
      PROVE  q \in Found(s) \cup {p} <=> Content(s, q) \in scan[s].cond
  <2>1. CASE q < scan[s].page
    <3>1. q # p
      BY <1>4, <2>1
    <3> QED
      BY <1>1, <1>7, <2>1, <3>1, FoundIs
  <2>2. CASE ~(q < scan[s].page)
    <3>1. q \in Unread(s) /\ (q < p \/ q = p)
      BY <1>2, <1>4, <1>7, <2>2 DEF Unread
    <3>2. q \notin Found(s)
      BY <1>5, <2>2
    <3>3. Content(s, q) \in scan[s].cond <=> Matches(s, got[q])
      BY <1>1, <1>7, <3>1, ReadDecides DEF ScanInv
    <3> QED
      BY <1>2, <1>4, <3>1, <3>2, <3>3
  <2> QED
    BY <2>1, <2>2
<1>8. \A q : Content(s, q)' = Content(s, q)
  BY <1>1, <1>3 DEF Content
<1>9. p + 1 # 1
  BY <1>4
<1>10. \A q \in scan'[s].returned : q < scan'[s].page
  BY <1>3, <1>6, <1>4
<1>11. Passed(s)' = {q \in 1..total_pages : q < p + 1}
  BY <1>1, <1>3, <1>9 DEF Passed
<1>12. scan'[s].cond # NULL => \A q \in Passed(s)' \ scan'[s].unseen : Decided(s, q)'
  BY <1>3, <1>7, <1>8, <1>11 DEF Decided
<1> QED
  BY <1>10, <1>12 DEF ScanOK

LEMMA NextNoneScan ==
  ASSUME ScanInv, NEW s \in Scans, nextNone(s)
  PROVE  ScanOK(s)'
<1>1. scan[s] # NULL /\ UNCHANGED <<file, total_pages, name>>
  BY DEF nextNone
<1>2. PICK got \in Records(s) : \A q \in Unread(s) : ~Matches(s, got[q])
  BY DEF nextNone
<1>3. GoesTo(s, 1, Found(s))
  BY DEF nextNone, GoesTo
<1>4. /\ scan'[s].rel = scan[s].rel /\ scan'[s].cond = scan[s].cond
      /\ scan'[s].page = 1 /\ scan'[s].returned = Found(s)
      /\ scan'[s].unseen = Unseen(s)
  <2>1. TypeInv
    BY DEF ScanInv, PoolInv
  <2> QED
    BY <1>1, <1>3, <2>1, NextScan
<1>5. scan[s].page \in Nat /\ \A q \in Found(s) : q < scan[s].page
  BY <1>1, ScanIs, FoundIs DEF ScanInv, PoolInv
<1>6. ASSUME scan[s].cond # NULL, NEW q \in (1..total_pages) \ Unseen(s),
             Content(s, q) \in Values
      PROVE  q \in Found(s) <=> Content(s, q) \in scan[s].cond
  <2>1. CASE q < scan[s].page
    BY <1>1, <1>6, <2>1, FoundIs
  <2>2. CASE ~(q < scan[s].page)
    <3>1. q \in Unread(s)
      BY <1>5, <1>6, <2>2 DEF Unread, LastScanned, ScanInv, PoolInv, TypeInv
    <3>2. q \notin Found(s)
      BY <1>5, <2>2
    <3>3. Content(s, q) \in scan[s].cond <=> Matches(s, got[q])
      BY <1>1, <1>6, <3>1, ReadDecides DEF ScanInv
    <3> QED
      BY <1>2, <3>1, <3>2, <3>3
  <2> QED
    BY <2>1, <2>2
<1>7. \A q : Content(s, q)' = Content(s, q)
  BY <1>1, <1>4 DEF Content
<1>8. Passed(s)' = 1..total_pages
  BY <1>1, <1>4 DEF Passed
<1>9. scan'[s].cond # NULL => \A q \in Passed(s)' \ scan'[s].unseen : Decided(s, q)'
  BY <1>4, <1>6, <1>7, <1>8 DEF Decided
<1> QED
  BY <1>4, <1>9 DEF ScanOK

(***************************************************************************)
(* Every step keeps what is known of the scans.                            *)
(***************************************************************************)
LEMMA InitScans == Init => ScanInv
BY InitPools DEF Init, ScanInv

LEMMA NextScans ==
  ASSUME ScanInv, PoolInv', NEW s \in Scans, nextFound(s) \/ nextNone(s)
  PROVE  ScanInv'
<1>1. /\ scan[s] # NULL /\ UNCHANGED <<file, total_pages, name>>
      /\ \E page, returned : GoesTo(s, page, returned)
  BY DEF nextFound, nextNone, GoesTo
<1>2. TypeInv
  BY DEF ScanInv, PoolInv
<1>3. \A q \in Scans : q # s => scan'[q] = scan[q]
  BY <1>1, <1>2, NextScan
<1>4. ASSUME NEW q \in Scans, scan'[q] # NULL PROVE ScanOK(q)'
  <2>1. CASE q = s
    BY <2>1, NextFoundScan, NextNoneScan
  <2>2. CASE q # s
    <3>1. scan'[q] = scan[q] /\ ScanOK(q)
      BY <1>3, <1>4, <2>2 DEF ScanInv
    <3> QED
      BY <1>1, <3>1, SameScan
  <2> QED
    BY <2>1, <2>2
<1> QED
  BY <1>4 DEF ScanInv

\* A scan that has seen nothing.
Fresh(sc) == sc.page = 1 /\ sc.unseen = 1..MaxRecords

\* The table is left alone, and a scan is at most opened or closed.
LEMMA QuietScans ==
  ASSUME ScanInv, PoolInv', UNCHANGED <<file, total_pages>>,
         \A s \in Scans : scan'[s] # NULL =>
           \/ /\ scan'[s] = scan[s]
              /\ name'[scan[s].rel] = name[scan[s].rel]
           \/ Fresh(scan'[s])
  PROVE  ScanInv'
<1>1. ASSUME NEW s \in Scans, scan'[s] # NULL PROVE ScanOK(s)'
  <2>1. CASE scan'[s] = scan[s] /\ name'[scan[s].rel] = name[scan[s].rel]
    BY <1>1, <2>1, SameScan DEF ScanInv
  <2>2. CASE Fresh(scan'[s])
    <3>1. 1..total_pages' \subseteq 1..MaxRecords
      BY MaxAssumption DEF PoolInv, TypeInv
    <3>2. Passed(s)' \ scan'[s].unseen = {}
      BY <2>2, <3>1 DEF Passed, Fresh
    <3> QED
      BY <2>2, <3>2 DEF ScanOK, Fresh
  <2> QED
    BY <1>1, <2>1, <2>2
<1> QED
  BY <1>1 DEF ScanInv

\* A write leaves the pages a scan has decided as they were, but for the one it
\* is on, which the scan has not seen then.
LEMMA WriteScans ==
  ASSUME ScanInv, PoolInv', OneTable, NEW r \in Rels, IsOpen(r), name' = name,
         NEW p \in 0..MaxRecords, NEW data \in Contents, p <= total_pages + 1,
         Counts(p), Write(r, p, data)
  PROVE  ScanInv'
<1>1. scan' = Disturbed(p) /\ TypeInv
  BY DEF Write, ScanInv, PoolInv
<1>2. ASSUME NEW s \in Scans, scan'[s] # NULL PROVE ScanOK(s)'
  <2>1. /\ scan[s] # NULL
        /\ scan'[s].rel = scan[s].rel /\ scan'[s].cond = scan[s].cond
        /\ scan'[s].page = scan[s].page /\ scan'[s].returned = scan[s].returned
        /\ scan'[s].unseen = IF scan[s].page = 1 \/ p < scan[s].page
                             THEN scan[s].unseen \cup {p} ELSE scan[s].unseen
    BY <1>1, <1>2, DisturbedIs
  <2>2. ScanOK(s) /\ scan[s].page \in Nat
    BY <1>1, <2>1, ScanIs DEF ScanInv
  <2>3. ASSUME NEW q \in Passed(s)' \ scan'[s].unseen
        PROVE  q \in Passed(s) \ scan[s].unseen /\ q # p
    <3>1. /\ q \in 1..total_pages' /\ (scan[s].page = 1 \/ q < scan[s].page)
          /\ q \notin scan[s].unseen
          /\ scan[s].page = 1 \/ p < scan[s].page => q # p
      BY <2>1, <2>3 DEF Passed
    <3>2. q # p
      BY <3>1
    <3>3. q \in 1..total_pages
      BY <1>1, <3>1, <3>2 DEF Counts, TypeInv
    <3> QED
      BY <3>1, <3>2, <3>3 DEF Passed
  <2>4. ASSUME NEW q \in 1..total_pages, q # p
        PROVE  Content(s, q)' = Content(s, q)
    <3> DEFINE f == file[name[r]]
    <3>1. name[scan[s].rel] = name[r] /\ name[r] \in Names
      BY <1>1, <2>1, ScanIs DEF OneTable, TypeInv, IsOpen
    <3>2. f \in Seq(Contents) /\ Len(f) \in Nat /\ total_pages < Len(f)
      BY <3>1, OpenIs DEF ScanInv
    <3>3. q + 1 \in 1..Len(f) /\ q + 1 # p + 1
      BY <1>1, <2>4, <3>2, MaxAssumption DEF TypeInv
    <3>4. file'[name[r]] = WriteBlock(f, Len(f), p, data)
      BY <1>1, <3>1 DEF Write, TypeInv
    <3>5. file'[name[r]][q + 1] = f[q + 1]
      <4>1. p \in Nat /\ p <= Len(f) /\ data \in Contents
        BY <1>1, <3>2, MaxAssumption, PagesWritten DEF TypeInv
      <4> DEFINE g == WriteBlock(f, Len(f), p, data)
      <4> HIDE DEF f
      <4>2. \A i \in 1..Len(f) : i # p + 1 => g[i] = f[i]
        BY <3>2, <4>1, WriteIs
      <4> HIDE DEF g
      <4>3. g[q + 1] = f[q + 1]
        BY <3>3, <4>2
      <4> QED
        BY <3>4, <4>3 DEF g, f
    <3> QED
      BY <2>1, <3>1, <3>5 DEF Content
  <2>5. ASSUME scan'[s].cond # NULL, NEW q \in Passed(s)' \ scan'[s].unseen
        PROVE  Decided(s, q)'
    <3>1. q \in Passed(s) \ scan[s].unseen /\ q # p /\ q \in 1..total_pages
      BY <2>3, <2>5 DEF Passed
    <3>2. Decided(s, q)
      BY <2>1, <2>2, <2>5, <3>1 DEF ScanOK
    <3>3. Content(s, q)' = Content(s, q)
      BY <2>4, <3>1
    <3> QED
      BY <2>1, <3>2, <3>3 DEF Decided
  <2> QED
    BY <2>1, <2>2, <2>5 DEF ScanOK
<1> QED
  BY <1>2 DEF ScanInv

\* Where nothing is open there is no scan.
LEMMA ClosedScans ==
  ASSUME PoolInv', \A r \in Rels : name'[r] = NULL
  PROVE  ScanInv'
<1>1. /\ \A s \in Scans : scan'[s] \in ScanRecs \cup {NULL}
      /\ \A s \in Scans : scan'[s] # NULL => name'[scan'[s].rel] # NULL
  BY DEF PoolInv, TypeInv, IsOpen
<1>2. ASSUME NEW s \in Scans PROVE scan'[s] = NULL
  <2>1. scan'[s] \in ScanRecs => scan'[s].rel \in Rels
    BY DEF ScanRecs
  <2> QED
    BY <1>1, <2>1
<1> QED
  BY <1>2 DEF ScanInv

LEMMA ScanStep ==
  ASSUME ScanInv, OneTable, OneRel, [Next]_vars
  PROVE  ScanInv'
<1>1. PoolInv' /\ PoolInv /\ TypeInv /\ CountInv
  BY PoolStep DEF ScanInv, PoolInv
<1>2. ASSUME NEW s \in Scans, nextFound(s) \/ nextNone(s) PROVE ScanInv'
  BY <1>1, <1>2, NextScans
<1>3. ASSUME \/ \E r \in Rels :
                  \/ getNumTuples(r) \/ serializeTableContent(r)
                  \/ \E p \in RIDs : getRecord(r, p)
             \/ UNCHANGED vars
      PROVE  ScanInv'
  <2>1. UNCHANGED <<file, total_pages, name, scan>>
    BY <1>3 DEF getNumTuples, serializeTableContent, getRecord, vars
  <2> QED
    BY <1>1, <2>1, QuietScans
<1>4. ASSUME NEW s \in Scans,
             \/ closeScan(s)
             \/ \E r \in Rels, cond \in Conditions : startScan(r, s, cond)
      PROVE  ScanInv'
  <2>1. UNCHANGED <<file, total_pages, name>>
    BY <1>4 DEF closeScan, startScan
  <2>2. /\ \A q \in Scans : q # s => scan'[q] = scan[q]
        /\ scan'[s] # NULL => Fresh(scan'[s])
    BY <1>1, <1>4 DEF closeScan, startScan, TypeInv, Fresh
  <2> QED
    BY <1>1, <2>1, <2>2, QuietScans
<1>5. ASSUME NEW r \in Rels,
             \/ \E v \in Values : insertRecord(r, v)
             \/ \E p \in RIDs : deleteRecord(r, p)
                                  \/ \E v \in Values : updateRecord(r, p, v)
      PROVE  ScanInv'
  <2>1. /\ IsOpen(r) /\ name' = name
        /\ \/ UNCHANGED <<file, total_pages, pool, scan>>
           \/ \E p \in 0..MaxRecords, data \in Contents :
                p <= total_pages + 1 /\ Counts(p) /\ Write(r, p, data)
    BY <1>1, <1>5, WritesTo
  <2> QED
    BY <1>1, <2>1, QuietScans, WriteScans
<1>6. ASSUME NEW n \in Names, createTable(n) \/ deleteTable(n) PROVE ScanInv'
  <2>1. name' = name /\ \A r \in Rels : name[r] = NULL
    BY <1>1, <1>6, AllClosed DEF createTable, deleteTable
  <2> QED
    BY <1>1, <2>1, ClosedScans
<1>7. ASSUME Crash \/ \E n \in Names : CrashInCreate(n) PROVE ScanInv'
  <2>1. \A r \in Rels : name'[r] = NULL
    BY <1>7 DEF Crash, CrashInCreate, Restarted
  <2> QED
    BY <1>1, <2>1, ClosedScans
<1>8. ASSUME NEW r \in Rels, closeTable(r) \/ \E n \in Names : openTable(r, n)
      PROVE  ScanInv'
  <2>1. UNCHANGED <<file, total_pages, scan>>
    BY <1>8 DEF closeTable, openTable
  <2>2. \A q \in Rels : q # r => name'[q] = name[q]
    BY <1>1, <1>8 DEF closeTable, openTable, TypeInv
  <2>3. \A s \in Scans : scan[s] # NULL => scan[s].rel \in Rels /\ IsOpen(scan[s].rel)
    BY <1>1, ScanIs
  <2>4. \A s \in Scans : scan[s] # NULL => scan[s].rel # r
    BY <1>8, <2>3 DEF closeTable, openTable
  <2> QED
    BY <1>1, <2>1, <2>2, <2>3, <2>4, QuietScans
<1> QED
  BY <1>2, <1>3, <1>4, <1>5, <1>6, <1>7, <1>8 DEF Next

(***************************************************************************)
(* However long the table, however small its pool and whatever other scans *)
(* and calls go on: a scan with a condition that ends has returned, of the *)
(* records not written behind it, those that satisfy the condition and no  *)
(* other.                                                                  *)
(***************************************************************************)
THEOREM ScansAreComplete ==
  ASSUME OneTable, OneRel
  PROVE  Spec => []ScanComplete
<1>1. Init => ScanInv
  BY InitScans
<1>2. ScanInv /\ [Next]_vars => ScanInv'
  BY ScanStep
<1>3. ScanInv => ScanComplete
  BY ScansComplete
<1> QED
  BY <1>1, <1>2, <1>3, PTL DEF Spec

-----------------------------------------------------------------------------
(***************************************************************************)
(* The refinement of RecordTable.  First, what the mapping makes of a      *)
(* state and of a step.                                                    *)
(***************************************************************************)
LEMMA RowsAre ==
  ASSUME PoolInv
  PROVE  /\ total_pages \in Nat /\ total_pages <= MaxRecords
         /\ DOMAIN rows = 1..total_pages
         /\ rows \in Seq(Values \cup {Gone}) /\ Len(rows) = total_pages
         /\ \A p \in 1..total_pages : rows[p] = Row(TheTable, p)
<1>1. total_pages \in Nat /\ total_pages <= MaxRecords
  BY MaxAssumption DEF PoolInv, TypeInv
<1>2. \A p \in 1..total_pages : Row(TheTable, p) \in Values \cup {Gone}
  BY DEF Row
<1>3. rows = [p \in 1..total_pages |-> Row(TheTable, p)]
  BY DEF rows
<1>4. rows \in Seq(Values \cup {Gone}) /\ Len(rows) = total_pages
  BY <1>1, <1>2, <1>3
<1> QED
  BY <1>1, <1>3, <1>4

\* An open relation has the one table open, and every record is in its file.
LEMMA OpenRow ==
  ASSUME PoolInv, OneTable, NEW r \in Rels, IsOpen(r)
  PROVE  /\ TheTable = name[r] /\ TheTable \in Names
         /\ \A p \in 1..total_pages :
              /\ p < Len(file[TheTable])
              /\ Row(TheTable, p) = IF file[TheTable][p + 1] \in Values
                                    THEN file[TheTable][p + 1] ELSE Gone
<1>1. name[r] \in Names /\ total_pages < Len(file[name[r]])
      /\ file[name[r]] \in Seq(Contents)
  BY OpenIs
<1>2. TheTable \in Names
  BY <1>1 DEF TheTable
<1>3. TheTable = name[r]
  BY <1>1, <1>2 DEF OneTable
<1>4. total_pages \in Nat /\ Len(file[TheTable]) \in Nat
  BY <1>1, <1>3, RowsAre
<1>5. \A p \in 1..total_pages : p < Len(file[TheTable])
  BY <1>1, <1>3, <1>4
<1> QED
  BY <1>2, <1>3, <1>5 DEF Row

LEMMA AnswerIs ==
  ASSUME NEW op, NEW rc, NEW out, Return(op, rc, out),
         op \in RowCalls \/ (op = "next" /\ rc = "RC_OK")
  PROVE  reply' = [op |-> op, rc |-> rc, out |-> out]
BY DEF Return, reply

LEMMA NoAnswer ==
  ASSUME NEW op, NEW rc, NEW out, Return(op, rc, out),
         op \notin RowCalls, op # "next" \/ rc # "RC_OK"
  PROVE  reply' = NULL
BY DEF Return, reply

\* A call that leaves the files and the count alone and is on no row.
LEMMA OtherRefines ==
  ASSUME UNCHANGED <<file, total_pages>>, reply' = NULL
  PROVE  Table!Next
<1>1. rows' = rows
  BY DEF rows, Row
<1> QED
  BY <1>1 DEF Table!Next, Table!Other

\* A record is read: the page it is read from shows the row it is asked for
\* by, and the answer bears its number.
LEMMA GetRefines ==
  ASSUME PoolInv, OneTable, NEW r \in Rels, IsOpen(r),
         UNCHANGED <<file, total_pages>>, NEW p \in 1..total_pages,
         NEW op \in {"getRecord", "next"},
         NEW v \in Parses(file[TheTable][p + 1]),
         Return(op, "RC_OK", Record(p, v))
  PROVE  Table!Next
<1>1. rows' = rows
  BY DEF rows, Row
<1>2. rows[p] = IF file[TheTable][p + 1] \in Values
                THEN file[TheTable][p + 1] ELSE Gone
  BY OpenRow, RowsAre
<1>3. v \in Values
  BY ParsesIs
<1>4. rows[p] # Gone => v = rows[p]
  BY <1>2, ParsesIs
<1>5. reply' = [op |-> op, rc |-> "RC_OK", out |-> Record(p, v)]
  BY AnswerIs DEF RowCalls
<1>6. Table!Get(op, p, v)
  BY <1>1, <1>4, <1>5 DEF Table!Get, Table!Answer, Table!Record, Record
<1>7. p \in DOMAIN rows
  BY RowsAre
<1> QED
  BY <1>3, <1>6, <1>7 DEF Table!Next

\* A call for a row that is not there is refused.
LEMMA RefuseRefines ==
  ASSUME PoolInv, UNCHANGED <<file, total_pages>>,
         NEW p \in RIDs, p \notin 1..total_pages, NEW op, NEW data,
         \/ op \in {"getRecord", "deleteRecord"} /\ data = NULL
         \/ op = "updateRecord" /\ data \in Values,
         Return(op, "RC_RM_NO_MORE_TUPLES", Record(p, data))
  PROVE  Table!Next
<1>1. rows' = rows
  BY DEF rows, Row
<1>2. p \notin DOMAIN rows
  BY RowsAre
<1>3. reply' = [op |-> op, rc |-> "RC_RM_NO_MORE_TUPLES", out |-> Record(p, data)]
  BY AnswerIs DEF RowCalls
<1>4. Table!Refuse(op, p, data)
  BY <1>1, <1>2, <1>3 DEF Table!Refuse, Table!Answer, Table!Record, Record
<1> QED
  BY <1>4 DEF Table!Next

\* The file afterwards, f, has no records: its rows are gone.
LEMMA EraseRows ==
  ASSUME PoolInv, OneTable, NEW n \in Names, NEW f \in Seq(Contents),
         Len(f) <= 1, file' = [file EXCEPT ![n] = f],
         total_pages' = total_pages
  PROVE  rows' = [i \in DOMAIN rows |-> Gone]
<1>1. TheTable = n
  BY DEF TheTable, OneTable
<1>2. file'[TheTable] = f
  BY <1>1 DEF PoolInv, TypeInv
<1>3. \A p \in 1..total_pages : ~(p < Len(f))
  BY RowsAre
<1>4. \A p \in 1..total_pages : Row(TheTable, p)' = Gone
  BY <1>2, <1>3 DEF Row, TheTable
<1>5. rows' = [p \in 1..total_pages |-> Gone]
  BY <1>4 DEF rows
<1> QED
  BY <1>5, RowsAre

\* The count is set back to zero.
LEMMA ForgetRefines ==
  ASSUME total_pages' = 0, NEW op \in {"createTable", "initRecordManager"},
         Return(op, "RC_OK", NULL)
  PROVE  Table!Next
<1>1. rows' = <<>>
  BY DEF rows
<1>2. reply' = [op |-> op, rc |-> "RC_OK", out |-> NULL]
  BY AnswerIs DEF RowCalls
<1>3. Table!Forget(op)
  BY <1>1, <1>2 DEF Table!Forget, Table!Answer
<1> QED
  BY <1>3 DEF Table!Next

\* A page is written: its row becomes the record, or is gone, and no other
\* row changes.
LEMMA WriteRows ==
  ASSUME PoolInv, OneTable, NEW r \in Rels, IsOpen(r), NEW p \in 0..MaxRecords,
         p <= total_pages + 1, NEW data \in Contents, Write(r, p, data)
  PROVE  /\ Row(TheTable, p)' = IF data \in Values THEN data ELSE Gone
         /\ \A q \in 1..total_pages : q # p =>
              Row(TheTable, q)' = Row(TheTable, q)
<1> DEFINE f == file[TheTable]
           g == WriteBlock(f, Len(f), p, data)
<1>1. TheTable = name[r] /\ TheTable \in Names
      /\ \A q \in 1..total_pages : q < Len(f)
  BY OpenRow
<1>2. f \in Seq(Contents) /\ total_pages < Len(f)
  BY <1>1, OpenIs
<1>3. total_pages \in Nat /\ p \in Nat /\ Len(f) \in Nat /\ p <= Len(f)
  BY <1>2, RowsAre, MaxAssumption
<1>4. file' = [file EXCEPT ![TheTable] = g]
  BY <1>1 DEF Write
<1>5. file'[TheTable] = g
  BY <1>1, <1>4 DEF PoolInv, TypeInv
<1> HIDE DEF f
<1>6. /\ Len(f) <= Len(g) /\ p < Len(g) /\ g \in Seq(Contents)
      /\ g[p + 1] = data
      /\ \A i \in 1..Len(f) : i # p + 1 => g[i] = f[i]
  BY <1>2, <1>3, WriteIs
<1> HIDE DEF g
<1>7. Row(TheTable, p)' = IF data \in Values THEN data ELSE Gone
  BY <1>5, <1>6 DEF Row, TheTable
<1>8. ASSUME NEW q \in 1..total_pages, q # p
      PROVE  Row(TheTable, q)' = Row(TheTable, q)
  <2>1. q < Len(f) /\ q + 1 \in 1..Len(f) /\ q + 1 # p + 1 /\ q < Len(g)
    BY <1>1, <1>3, <1>6, <1>8
  <2>2. g[q + 1] = f[q + 1]
    BY <1>6, <2>1
  <2>3. Row(TheTable, q) = IF f[q + 1] \in Values THEN f[q + 1] ELSE Gone
    BY <2>1 DEF Row, f
  <2>4. Row(TheTable, q)' = IF g[q + 1] \in Values THEN g[q + 1] ELSE Gone
    BY <1>5, <2>1 DEF Row, TheTable
  <2> QED
    BY <2>2, <2>3, <2>4
<1> QED
  BY <1>7, <1>8

\* Page 0 is no row, and the page of a row is that row.
LEMMA PutRows ==
  ASSUME PoolInv, OneTable, NEW r \in Rels, IsOpen(r), NEW p \in 0..MaxRecords,
         p <= total_pages, NEW data \in Contents, Write(r, p, data),
         total_pages' = total_pages
  PROVE  /\ p = 0 => rows' = rows
         /\ p # 0 => /\ p \in DOMAIN rows
                     /\ rows' = [rows EXCEPT ![p] =
                                   IF data \in Values THEN data ELSE Gone]
<1> DEFINE v == IF data \in Values THEN data ELSE Gone
<1>1. total_pages \in Nat /\ p \in Nat /\ p <= total_pages + 1
  BY RowsAre, MaxAssumption
<1>2. /\ Row(TheTable, p)' = v
      /\ \A q \in 1..total_pages : q # p => Row(TheTable, q)' = Row(TheTable, q)
  BY <1>1, WriteRows
<1>3. rows' = [q \in 1..total_pages |-> Row(TheTable, q)']
  BY DEF rows
<1>4. rows = [q \in 1..total_pages |-> Row(TheTable, q)]
  BY DEF rows
<1>5. ASSUME p = 0 PROVE rows' = rows
  <2>1. \A q \in 1..total_pages : q # p
    BY <1>5
  <2> QED
    BY <1>2, <1>3, <1>4, <2>1
<1>6. ASSUME p # 0
      PROVE  p \in DOMAIN rows /\ rows' = [rows EXCEPT ![p] = v]
  <2>1. p \in 1..total_pages /\ p \in DOMAIN rows
    BY <1>1, <1>6, RowsAre
  <2> HIDE DEF v
  <2> QED
    BY <1>2, <1>3, <1>4, <2>1
<1> QED
  BY <1>5, <1>6

LEMMA InsertRefines ==
  ASSUME PoolInv, OneTable, NEW r \in Rels, NEW v \in Values, insertRecord(r, v)
  PROVE  Table!Next
<1>1. /\ IsOpen(r) /\ total_pages < MaxRecords
      /\ Write(r, total_pages + 1, v)
      /\ total_pages' = total_pages + 1
      /\ Return("insertRecord", "RC_OK", Record(total_pages + 1, v))
  BY DEF insertRecord, FreePage
<1>2. total_pages \in Nat /\ MaxRecords \in Nat
  BY RowsAre, MaxAssumption
<1>3. PICK p \in Nat : p = total_pages + 1
  BY <1>2
<1>4. /\ Row(TheTable, p)' = v
      /\ \A q \in 1..total_pages : Row(TheTable, q)' = Row(TheTable, q)
  <2>1. v \in Contents /\ Write(r, p, v)
    BY <1>1, <1>3, WrittenContents
  <2>2. /\ \A q \in 1..total_pages : q # p
        /\ p \in 0..MaxRecords /\ p <= total_pages + 1
    BY <1>1, <1>2, <1>3
  <2> QED
    BY <1>1, <2>1, <2>2, WriteRows
<1>5. rows' = [q \in 1..p |-> Row(TheTable, q)']
  BY <1>1, <1>3 DEF rows
<1>6. /\ \A q \in 1..total_pages : rows[q] = Row(TheTable, q)
      /\ rows \in Seq(Values \cup {Gone}) /\ Len(rows) = total_pages
  BY RowsAre
<1>7. Append(rows, v) = [q \in 1..p |-> IF q = p THEN v ELSE rows[q]]
  <2>1. /\ rows \in Seq(Values \cup {Gone}) /\ Len(rows) = total_pages
        /\ rows = [q \in 1..total_pages |-> Row(TheTable, q)]
    BY <1>6 DEF rows
  <2>2. Append(rows, v) =
          [q \in 1..(total_pages + 1) |-> IF q = total_pages + 1 THEN v ELSE rows[q]]
    BY <1>2, <2>1
  <2> QED
    BY <1>3, <2>2
<1>8. \A q \in 1..p : Row(TheTable, q)' = IF q = p THEN v ELSE rows[q]
  <2>1. \A q \in 1..p : q = p \/ q \in 1..total_pages
    BY <1>2, <1>3
  <2> QED
    BY <1>4, <1>6, <2>1
<1>9. rows' = Append(rows, v)
  BY <1>5, <1>7, <1>8
<1>10. reply' = [op |-> "insertRecord", rc |-> "RC_OK",
                 out |-> Record(total_pages + 1, v)]
  BY <1>1, AnswerIs DEF RowCalls
<1>11. Table!Insert(v)
  BY <1>6, <1>9, <1>10 DEF Table!Insert, Table!Answer, Table!Record, Record
<1> QED
  BY <1>11 DEF Table!Next

(***************************************************************************)
(* The calls, one by one.                                                  *)
(***************************************************************************)
\* What a deletion leaves is no record.
LEMMA MarkedIsGone ==
  \A content : \A data \in Marked(content) : data \notin Values
<1>1. Junk \notin Values
  BY ContentAssumption
<1> QED
  BY <1>1, TombAssumption DEF Marked

LEMMA UpdateRefines ==
  ASSUME PoolInv, OneTable, NEW r \in Rels, NEW p \in RIDs, NEW v \in Values,
         updateRecord(r, p, v)
  PROVE  Table!Next
<1>1. IsOpen(r) /\ total_pages' = total_pages
  BY DEF updateRecord
<1>2. total_pages \in Nat /\ total_pages <= MaxRecords /\ p \in Int
      /\ MaxRecords \in Nat
  BY RowsAre, MaxAssumption DEF RIDs
<1>3. CASE p > total_pages \/ p < 0
  <2>1. /\ UNCHANGED <<file, total_pages>>
        /\ Return("updateRecord", "RC_RM_NO_MORE_TUPLES", Record(p, v))
    BY <1>2, <1>3 DEF updateRecord
  <2>2. p \notin 1..total_pages
    BY <1>2, <1>3
  <2> QED
    BY <2>1, <2>2, RefuseRefines
<1>4. CASE 0 <= p /\ p <= total_pages
  <2>1. Write(r, p, v) /\ Return("updateRecord", "RC_OK", Record(p, v))
    BY <1>2, <1>4 DEF updateRecord
  <2>2. p \in 0..MaxRecords /\ v \in Contents
    BY <1>2, <1>4, WrittenContents
  <2>3. /\ p = 0 => rows' = rows
        /\ p # 0 => p \in DOMAIN rows /\ rows' = [rows EXCEPT ![p] = v]
    BY <1>1, <1>4, <2>1, <2>2, PutRows
  <2>4. reply' = [op |-> "updateRecord", rc |-> "RC_OK", out |-> Record(p, v)]
    BY <2>1, AnswerIs DEF RowCalls
  <2>5. /\ p = 0 => Table!UpdateNone(v)
        /\ p # 0 => p \in DOMAIN rows /\ Table!Update(p, v)
    BY <2>3, <2>4
       DEF Table!UpdateNone, Table!Update, Table!Answer, Table!Record, Record
  <2> QED
    BY <2>5 DEF Table!Next
<1> QED
  BY <1>2, <1>3, <1>4

LEMMA DeleteRefines ==
  ASSUME PoolInv, OneTable, NEW r \in Rels, NEW p \in RIDs, deleteRecord(r, p)
  PROVE  Table!Next
<1>1. IsOpen(r) /\ total_pages' = total_pages
  BY DEF deleteRecord
<1>2. total_pages \in Nat /\ total_pages <= MaxRecords /\ p \in Int
      /\ MaxRecords \in Nat
  BY RowsAre, MaxAssumption DEF RIDs
<1>3. CASE ~InTable(p)
  <2>1. /\ UNCHANGED <<file, total_pages>>
        /\ Return("deleteRecord", "RC_RM_NO_MORE_TUPLES", Record(p, NULL))
    BY <1>3 DEF deleteRecord
  <2>2. p \notin 1..total_pages
    BY <1>2, <1>3 DEF InTable
  <2> QED
    BY <2>1, <2>2, RefuseRefines
<1>4. CASE InTable(p)
  <2>1. /\ Return("deleteRecord", "RC_OK", Record(p, NULL))
        /\ \E data \in Marked(Shown(name[r], pool[r], p)) : Write(r, p, data)
    BY <1>4 DEF deleteRecord
  <2>2. PICK data \in Marked(Shown(name[r], pool[r], p)) : Write(r, p, data)
    BY <2>1
  <2>3. data \in Contents /\ data \notin Values
    BY WrittenContents, MarkedIsGone
  <2>4. p \in 0..MaxRecords /\ p <= total_pages /\ p # 0
    BY <1>2, <1>4 DEF InTable
  <2>5. p \in DOMAIN rows /\ rows' = [rows EXCEPT ![p] = Gone]
    BY <1>1, <2>2, <2>3, <2>4, PutRows
  <2>6. reply' = [op |-> "deleteRecord", rc |-> "RC_OK", out |-> Record(p, NULL)]
    BY <2>1, AnswerIs DEF RowCalls
  <2>7. Table!Delete(p)
    BY <2>5, <2>6 DEF Table!Delete, Table!Answer, Table!Record, Record
  <2> QED
    BY <2>5, <2>7 DEF Table!Next
<1> QED
  BY <1>3, <1>4

LEMMA GetRecordRefines ==
  ASSUME PoolInv, OneTable, NEW r \in Rels, NEW p \in RIDs, getRecord(r, p)
  PROVE  Table!Next
<1>1. IsOpen(r) /\ UNCHANGED <<file, total_pages>>
  BY DEF getRecord
<1>2. CASE ~InTable(p)
  <2>1. Return("getRecord", "RC_RM_NO_MORE_TUPLES", Record(p, NULL))
    BY <1>2 DEF getRecord
  <2>2. p \notin 1..total_pages
    BY <1>2, RowsAre DEF InTable
  <2> QED
    BY <1>1, <2>1, <2>2, RefuseRefines
<1>3. CASE InTable(p)
  <2>1. PICK v \in Parses(Shown(name[r], pool[r], p)) :
          Return("getRecord", "RC_OK", Record(p, v))
    BY <1>3 DEF getRecord
  <2>3. p \in 1..total_pages /\ p \in Nat
    BY <1>3, RowsAre, MaxAssumption DEF InTable, RIDs
  <2>4. /\ TheTable = name[r] /\ TheTable \in Names
        /\ p < Len(file[TheTable]) /\ pool[r] \in GoodPools(file[TheTable])
    BY <1>1, <2>3, OpenRow, OpenIs
  <2>5. Shown(name[r], pool[r], p) = file[TheTable][p + 1]
    BY <2>3, <2>4, ShownFits DEF PoolInv, TypeInv
  <2> QED
    BY <1>1, <2>1, <2>3, <2>5, GetRefines
<1> QED
  BY <1>2, <1>3

LEMMA NextRefines ==
  ASSUME PoolInv, OneTable, NEW s \in Scans, nextFound(s) \/ nextNone(s)
  PROVE  Table!Next
<1>1. scan[s] # NULL /\ UNCHANGED <<file, total_pages>>
  BY DEF nextFound, nextNone
<1>2. CASE nextNone(s)
  <2>1. Return("next", "RC_RM_NO_MORE_TUPLES", NULL)
    BY <1>2 DEF nextNone
  <2>2. reply' = NULL
    BY <2>1, NoAnswer DEF RowCalls
  <2> QED
    BY <1>1, <2>2, OtherRefines
<1>3. CASE nextFound(s)
  <2>1. PICK got \in Records(s), p \in Unread(s) :
          Return("next", "RC_OK", Record(p, got[p]))
    BY <1>3 DEF nextFound
  <2>3. p \in 1..total_pages /\ ShownTo(s, p) = Content(s, p)
    BY <1>1, ShownToIs
  <2>4. scan[s].rel \in Rels /\ IsOpen(scan[s].rel)
    BY <1>1, ScanIs DEF PoolInv
  <2>5. TheTable = name[scan[s].rel]
    BY <2>4, OpenRow
  <2>6. got[p] \in Parses(file[TheTable][p + 1])
    BY <2>3, <2>5 DEF Records, Content
  <2> QED
    BY <1>1, <2>1, <2>3, <2>4, <2>6, GetRefines
<1> QED
  BY <1>2, <1>3

LEMMA MakeRefines ==
  ASSUME PoolInv, OneTable, NEW n \in Names, createTable(n) \/ deleteTable(n)
  PROVE  Table!Next
<1>1. \A f \in {<<>>, <<Zero>>} : f \in Seq(Contents) /\ Len(f) <= 1
  <2>1. /\ <<>> \in Seq(Contents) /\ Len(<<>>) <= 1
        /\ <<Zero>> \in Seq(Contents) /\ Len(<<Zero>>) <= 1
    BY WrittenContents
  <2> QED
    BY <2>1
<1>2. CASE createTable(n) /\ Exists(n)
  <2>1. /\ file' = [file EXCEPT ![n] = <<Zero>>] /\ total_pages' = total_pages
        /\ Return("createTable", "RC_TABLE_EXISTS", NULL)
    BY <1>2 DEF createTable
  <2>2. rows' = [i \in DOMAIN rows |-> Gone]
    BY <1>1, <2>1, EraseRows
  <2>3. reply' = [op |-> "createTable", rc |-> "RC_TABLE_EXISTS", out |-> NULL]
    BY <2>1, AnswerIs DEF RowCalls
  <2> QED
    BY <2>2, <2>3 DEF Table!Next, Table!RefusedCreate, Table!Answer
<1>3. CASE createTable(n) /\ ~Exists(n)
  <2>1. total_pages' = 0 /\ Return("createTable", "RC_OK", NULL)
    BY <1>3 DEF createTable
  <2> QED
    BY <2>1, ForgetRefines
<1>4. CASE deleteTable(n)
  <2>1. /\ file' = [file EXCEPT ![n] = <<>>] /\ total_pages' = total_pages
        /\ \E rc \in {"RC_OK", "RC_FILE_NOT_DELETED"} :
             Return("deleteTable", rc, NULL)
    BY <1>4 DEF deleteTable
  <2>2. PICK rc \in {"RC_OK", "RC_FILE_NOT_DELETED"} :
          Return("deleteTable", rc, NULL)
    BY <2>1
  <2>3. rows' = [i \in DOMAIN rows |-> Gone]
    BY <1>1, <2>1, EraseRows
  <2>4. reply' = [op |-> "deleteTable", rc |-> rc, out |-> NULL]
    BY <2>2, AnswerIs DEF RowCalls
  <2>5. Table!Drop(rc)
    BY <2>3, <2>4 DEF Table!Drop, Table!Answer
  <2> QED
    BY <2>5 DEF Table!Next
<1> QED
  BY <1>2, <1>3, <1>4

\* Calls that are on no row.
LEMMA QuietRefines ==
  ASSUME PoolInv,
         \/ \E r \in Rels :
              \/ closeTable(r) \/ getNumTuples(r) \/ serializeTableContent(r)
              \/ \E n \in Names : openTable(r, n)
              \/ \E s \in Scans, cond \in Conditions : startScan(r, s, cond)
         \/ \E s \in Scans : closeScan(s)
  PROVE  Table!Next
<1>1. UNCHANGED <<file, total_pages>>
  BY DEF closeTable, getNumTuples, serializeTableContent, openTable, startScan,
         closeScan
<1>2. \E rc, out :
      \E op \in {"closeTable", "getNumTuples", "serializeTableContent",
                "openTable", "startScan", "closeScan"} : Return(op, rc, out)
  BY DEF closeTable, getNumTuples, serializeTableContent, openTable, startScan,
         closeScan
<1>3. reply' = NULL
  BY <1>2, NoAnswer DEF RowCalls
<1> QED
  BY <1>1, <1>3, OtherRefines

LEMMA TableStep ==
  ASSUME PoolInv, OneTable, [Next]_vars
  PROVE  [Table!Next]_<<rows, reply>>
<1>1. CASE UNCHANGED vars
  <2>1. rows' = rows /\ reply' = reply
    BY <1>1 DEF vars, rows, reply, Row
  <2> QED
    BY <2>1
<1>2. ASSUME Crash \/ \E n \in Names : CrashInCreate(n) PROVE Table!Next
  <2>1. total_pages' = 0 /\ Return("initRecordManager", "RC_OK", NULL)
    BY <1>2 DEF Crash, CrashInCreate, Restarted
  <2> QED
    BY <2>1, ForgetRefines
<1> QED
  BY <1>1, <1>2, MakeRefines, QuietRefines, InsertRefines, UpdateRefines,
     DeleteRefines, GetRecordRefines, NextRefines DEF Next

(***************************************************************************)
(* A table of any length, behind a pool of any size, is the numbered list  *)
(* of RecordTable: a record keeps its number, an insert takes the next     *)
(* one, an update and a deletion change the record they name and no other, *)
(* getRecord and next return what was stored last under the number they    *)
(* answer for, and nothing else but the loss of the table or the end of    *)
(* the process takes a record away.                                        *)
(***************************************************************************)
THEOREM TableIsTable ==
  ASSUME OneTable, OneRel
  PROVE  Spec => ImplementsTable
<1>1. Init => PoolInv
  BY InitPools
<1>2. PoolInv /\ [Next]_vars => PoolInv'
  BY PoolStep
<1>3. Init => Table!Init
  <2> SUFFICES ASSUME Init PROVE Table!Init
    OBVIOUS
  <2>1. /\ total_pages = 0
        /\ last = [op |-> "initRecordManager", rc |-> "RC_OK", out |-> NULL]
    BY DEF Init
  <2>2. rows = <<>> /\ reply = last
    BY <2>1 DEF rows, reply, RowCalls
  <2> QED
    BY <2>1, <2>2 DEF Table!Init
<1>4. PoolInv /\ [Next]_vars => [Table!Next]_<<rows, reply>>
  BY TableStep
<1>5. [][Table!Next]_<<rows, reply>> /\ Table!Init => Table!Spec
  BY PTL DEF Table!Spec, Table!tableVars
<1> QED
  BY <1>1, <1>2, <1>3, <1>4, <1>5, PTL DEF Spec, ImplementsTable
=============================================================================
