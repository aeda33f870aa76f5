------------------------- MODULE TableOnPoolProofs -------------------------
(***************************************************************************)
(* Proofs about TableOnPool: what the record manager leaves behind in the  *)
(* pool between two calls, for any number of frames, records and contents. *)
(***************************************************************************)
EXTENDS TableOnPool, BufferMgrProofs

(***************************************************************************)
(* The inductive invariant.  A call is at the first step it has still to   *)
(* do, or at its end.  Which step may follow which is known from the name  *)
(* of the call, and where the call is says what it has pinned, which page  *)
(* may be dirty and which loop of the pool may be running.                 *)
(***************************************************************************)
Begins == {"openTable", "closeTable"}
Writers == {"insertRecord", "updateRecord", "deleteRecord"}
Readers == {"getRecord", "getNumTuples"}

\* The steps that follow one another in the calls.
Order(n) ==
  CASE n = "openTable" ->
         {<<"init", "pin">>, <<"pin", "schema">>, <<"schema", "end">>}
    [] n = "closeTable" -> {<<"unpin", "shutdown">>, <<"shutdown", "end">>}
    [] n \in Writers ->
         {<<"pin", "fill">>, <<"fill", "mark">>, <<"mark", "unpin">>,
          <<"unpin", "force">>, <<"force", "end">>, <<"force", "count">>,
          <<"count", "end">>}
    [] OTHER -> {<<"pin", "parse">>, <<"parse", "unpin">>, <<"unpin", "pin">>,
                 <<"unpin", "end">>}

StepAt(steps, k) == IF k <= Len(steps) THEN steps[k].step ELSE "end"

At == StepAt(todo, 1)

StepNames == {"init", "pin", "schema", "shutdown", "fill", "mark", "unpin",
              "force", "count", "parse"}

CallSteps == [step: StepNames, page: 0..MaxRecords]

\* The steps from here on are those of a call named n.
Ordered(steps, n) ==
  /\ steps \in Seq(CallSteps)
  /\ \A k \in 1..Len(steps) :
       <<StepAt(steps, k), StepAt(steps, k + 1)>> \in Order(n)
  /\ n = "openTable" => \A k \in 1..Len(steps) : steps[k].page = 0
  /\ \A k \in 1..Len(steps) : steps[k].step = "count" => total_pages < MaxRecords

CallInProgress ==
  /\ total_pages \in 0..MaxRecords
  /\ op = [name |-> op.name, client |-> op.client, data |-> op.data]
  /\ Ordered(todo, op.name)
  /\ todo # <<>> =>
       /\ op.name \in Begins \cup Writers \cup Readers
       /\ op.client = IF op.name \in Begins THEN TablePage ELSE RecordPage
       /\ op.name \in {"insertRecord", "updateRecord"} => op.data \in Values
       /\ op.name = "deleteRecord" => op.data = NULL

\* The table's page is pinned while the table is open, a record's page from
\* the step after "pin" to "unpin".
PinsSoFar ==
  /\ todo # <<>> => (mgmtData <=> At # "init")
  /\ handle[TablePage].pinned <=>
       /\ mgmtData
       /\ <<op.name, At>> \notin {<<"openTable", "pin">>, <<"closeTable", "shutdown">>}
  /\ handle[TablePage].pinned => handle[TablePage].pageNum = 0
  /\ handle[RecordPage].pinned <=>
       At \in {"fill", "mark", "parse", "unpin"} /\ op.name # "closeTable"

\* Only a page that is about to be forced is dirty, and it is in the pool.
DirtySoFar ==
  /\ \A i \in Frames : dirtybit[i] =>
       /\ op.name \in Writers
       /\ At \in {"unpin", "force"}
       /\ pagenum[i] = handle[RecordPage].pageNum
  /\ At = "force" =>
       /\ handle[RecordPage].pageNum # NoPage
       /\ \E i \in Frames : pagenum[i] = handle[RecordPage].pageNum
  /\ ~mgmtData => \A i \in Frames : pagenum[i] = NoPage

LoopSoFar ==
  /\ call.op \in {"none", "fifo", "shutdown"}
  /\ call.op = "fifo" => /\ At = "pin"
                         /\ call.client = op.client
                         /\ call.page = Head(todo).page
  /\ call.op = "shutdown" => At = "shutdown"

TableInv ==
  /\ IInv
  /\ CallInProgress
  /\ PinsSoFar
  /\ DirtySoFar
  /\ LoopSoFar
  /\ CallsSucceed

-----------------------------------------------------------------------------
LEMMA TableConstants ==
  /\ Clients = {TablePage, RecordPage} /\ TablePage # RecordPage
  /\ MaxRecords \in Nat
  /\ \A p \in 0..MaxRecords : p \in Pages
  /\ Strategies = {"RS_FIFO"} /\ Roomy
  /\ 0 # NoPage
BY UsersAssumption, TablePagesAssumption, TableStrategyAssumption DEF Roomy, NoPage

(***************************************************************************)
(* A call goes through its steps one after the other.                      *)
(***************************************************************************)
LEMMA TailOrdered ==
  ASSUME NEW steps, NEW n, Ordered(steps, n), steps # <<>>
  PROVE  /\ Ordered(Tail(steps), n)
         /\ <<StepAt(steps, 1), StepAt(Tail(steps), 1)>> \in Order(n)
<1>1. steps \in Seq(CallSteps)
  BY DEF Ordered
<1>2. /\ Len(steps) \in Nat \ {0}
      /\ Tail(steps) \in Seq(CallSteps)
      /\ Len(Tail(steps)) = Len(steps) - 1
      /\ \A k \in 1..Len(Tail(steps)) : Tail(steps)[k] = steps[k + 1]
  BY <1>1
<1>3. \A k \in 1..(Len(steps) + 1) : StepAt(Tail(steps), k) = StepAt(steps, k + 1)
  BY <1>2 DEF StepAt
<1>4. \A k \in 1..Len(Tail(steps)) : k + 1 \in 1..Len(steps) /\ k \in 1..(Len(steps) + 1)
  BY <1>2
<1>5. \A k \in 1..Len(Tail(steps)) :
        <<StepAt(Tail(steps), k), StepAt(Tail(steps), k + 1)>> \in Order(n)
  <2> SUFFICES ASSUME NEW k \in 1..Len(Tail(steps))
               PROVE  <<StepAt(Tail(steps), k), StepAt(Tail(steps), k + 1)>> \in Order(n)
    OBVIOUS
  <2>1. k + 1 \in 1..Len(steps) /\ k + 1 \in 1..(Len(steps) + 1)
    BY <1>2
  <2>2. <<StepAt(steps, k + 1), StepAt(steps, k + 1 + 1)>> \in Order(n)
    BY <2>1 DEF Ordered
  <2> QED
    BY <1>3, <1>4, <2>1, <2>2
<1>6. /\ n = "openTable" => \A k \in 1..Len(Tail(steps)) : Tail(steps)[k].page = 0
      /\ \A k \in 1..Len(Tail(steps)) :
           Tail(steps)[k].step = "count" => total_pages < MaxRecords
  BY <1>2, <1>4 DEF Ordered
<1>7. <<StepAt(steps, 1), StepAt(Tail(steps), 1)>> \in Order(n)
  <2>1. 1 \in 1..Len(steps) /\ 1 \in 1..(Len(steps) + 1)
    BY <1>2
  <2>2. <<StepAt(steps, 1), StepAt(steps, 1 + 1)>> \in Order(n)
    BY <2>1 DEF Ordered
  <2> QED
    BY <1>3, <2>1, <2>2
<1> QED
  BY <1>2, <1>5, <1>6, <1>7 DEF Ordered

LEMMA HeadIs ==
  ASSUME Ordered(todo, op.name)
  PROVE  /\ todo = <<>> => At = "end"
         /\ todo # <<>> => /\ At = Head(todo).step /\ At \in StepNames
                           /\ Head(todo).page \in 0..MaxRecords
                           /\ op.name = "openTable" => Head(todo).page = 0
<1>1. todo \in Seq(CallSteps)
  BY DEF Ordered
<1>2. CASE todo = <<>>
  BY <1>2 DEF At, StepAt
<1>3. CASE todo # <<>>
  <2>1. Len(todo) \in Nat \ {0} /\ 1 \in 1..Len(todo) /\ Head(todo) = todo[1]
    BY <1>1, <1>3
  <2>2. todo[1] \in CallSteps
    BY <1>1, <2>1
  <2> QED
    BY <1>3, <2>1, <2>2 DEF At, StepAt, Ordered, CallSteps
<1> QED
  BY <1>2, <1>3

LEMMA EndIsEnd ==
  ASSUME NEW steps \in Seq(CallSteps),
         StepAt(steps, 1) = "end"
  PROVE  steps = <<>>
<1> SUFFICES ASSUME steps # <<>> PROVE FALSE
  OBVIOUS
<1>0. steps \in Seq(CallSteps)
  OBVIOUS
<1>1. Len(steps) >= 1 /\ steps[1] \in CallSteps
  BY <1>0
<1>2. steps[1].step \in StepNames
  BY <1>1 DEF CallSteps
<1> QED
  BY <1>1, <1>2 DEF StepAt, StepNames

\* What is known of a call from the step it is at, and from the step after it.
LEMMA OrderKnown ==
  ASSUME NEW n, NEW a, NEW b, <<a, b>> \in Order(n)
  PROVE  /\ a = "init" => n = "openTable" /\ b = "pin"
         /\ a = "schema" => n = "openTable" /\ b = "end"
         /\ a = "shutdown" => n = "closeTable" /\ b = "end"
         /\ a = "pin" => \/ n = "openTable" /\ b = "schema"
                         \/ n \in Writers /\ b = "fill"
                         \/ n \notin Begins \cup Writers /\ b = "parse"
         /\ a = "fill" => n \in Writers /\ b = "mark"
         /\ a = "mark" => n \in Writers /\ b = "unpin"
         /\ a = "unpin" => \/ n = "closeTable" /\ b = "shutdown"
                           \/ n \in Writers /\ b = "force"
                           \/ n \notin Begins \cup Writers /\ b \in {"pin", "end"}
         /\ a = "force" => n \in Writers /\ b \in {"end", "count"}
         /\ a = "count" => n \in Writers /\ b = "end"
         /\ a = "parse" => n \notin Begins \cup Writers /\ b = "unpin"
<1>1. CASE n = "openTable"
  BY <1>1 DEF Order, Writers, Begins
<1>2. CASE n = "closeTable"
  BY <1>2 DEF Order, Writers, Begins
<1>3. CASE n \in Writers
  BY <1>3 DEF Order, Writers, Begins
<1>4. CASE n \notin Begins \cup Writers
  BY <1>4 DEF Order, Writers, Begins
<1> QED
  BY <1>1, <1>2, <1>3, <1>4 DEF Begins

\* A step of the call in progress is the last one of its call, or the call
\* goes on with the step after it, or with a loop of the pool.
LEMMA Advanced ==
  ASSUME CallInProgress, todo # <<>>, Advance,
         total_pages' = total_pages, op' = op
  PROVE  /\ CallInProgress'
         /\ call'.op # "none" => todo' = todo
         /\ call'.op = "none" => <<At, At'>> \in Order(op.name)
<1>1. CASE call'.op # "none"
  <2>1. todo' = todo
    BY <1>1 DEF Advance
  <2> QED
    BY <1>1, <2>1 DEF CallInProgress, Ordered, StepAt
<1>2. CASE call'.op = "none"
  <2>1. todo' = Tail(todo)
    BY <1>2 DEF Advance
  <2>2. Ordered(Tail(todo), op.name) /\ <<At, StepAt(Tail(todo), 1)>> \in Order(op.name)
    BY TailOrdered DEF CallInProgress, At
  <2>3. Ordered(todo, op.name)'
    BY <2>1, <2>2 DEF Ordered, StepAt
  <2>4. At' = StepAt(Tail(todo), 1)
    BY <2>1 DEF At, StepAt
  <2> QED
    BY <1>2, <2>2, <2>3, <2>4 DEF CallInProgress
<1> QED
  BY <1>1, <1>2

-----------------------------------------------------------------------------
(***************************************************************************)
(* A step of a call that is one step of the pool keeps IInv.  What is left *)
(* to show of a pool call is where it leaves the pins, the dirty bits and  *)
(* the loops of the pool.                                                  *)
(***************************************************************************)
Progress == PinsSoFar /\ DirtySoFar /\ LoopSoFar /\ CallsSucceed

LEMMA StepInit ==
  ASSUME TableInv, Doing("init"), initBufferPool(NumPages, "RS_FIFO"), Advance,
         UNCHANGED <<total_pages, op>>
  PROVE  IInv' /\ Progress'
<1>1. [Next]_vars
  BY TableConstants DEF Next
<1>2. IInv'
  BY <1>1, InvStep, TableConstants DEF TableInv
<1>3. At = "init" /\ todo # <<>> /\ Quiet
  BY HeadIs DEF Doing, TableInv, CallInProgress
<1>4. call' = call /\ handle' = handle /\ call'.op = "none"
  BY <1>3 DEF initBufferPool, Quiet
<1>5. op.name = "openTable" /\ At' = "pin"
  BY <1>3, <1>4, Advanced, OrderKnown DEF TableInv
<1>6. ~(NumPages <= 0)
  BY Constants
<1>7. mgmtData' /\ EmptyPool /\ last'.rc = "RC_OK" /\ ~mgmtData
  BY <1>6 DEF initBufferPool, Return
<1> QED
  BY <1>2, <1>3, <1>4, <1>5, <1>7, TableConstants
     DEF TableInv, Progress, PinsSoFar, DirtySoFar, LoopSoFar, CallsSucceed,
         EmptyPool, Begins, Writers

\* The page is pinned: when it was in the pool, when there was an empty frame,
\* and when the loop of fifo has found a frame for it.
LEMMA PinsOne ==
  ASSUME TableInv, At = "pin", todo # <<>>, mgmtData,
         <<At, At'>> \in Order(op.name), UNCHANGED <<mgmtData, op>>,
         call'.op = "none", last'.rc = "RC_OK",
         NEW i \in Frames,
         handle' \in {[handle EXCEPT ![op.client] = Pinned(Head(todo).page, i)],
                      [Orphan(i) EXCEPT ![op.client] = Pinned(Head(todo).page, i)]},
         \A j \in Frames : ~dirtybit'[j]
  PROVE  Progress'
<1>1. op.client = IF op.name \in Begins THEN TablePage ELSE RecordPage
  BY DEF TableInv, CallInProgress
<1>2. op.client \in Clients
  BY <1>1, TableConstants
<1>3. /\ handle'[op.client].pinned
      /\ handle'[op.client].pageNum = Head(todo).page
  BY <1>2 DEF Pinned, Orphan, TableInv, IInv, TypeOK
<1>4. \A c \in Clients \ {op.client} :
        /\ handle'[c].pinned = handle[c].pinned
        /\ handle'[c].pageNum = handle[c].pageNum
  BY <1>2 DEF Pinned, Orphan, TableInv, IInv, TypeOK, PageHandle
<1>5. op.name = "openTable" => Head(todo).page = 0
  BY HeadIs DEF TableInv, CallInProgress
<1>6. \/ op.name = "openTable" /\ At' = "schema"
      \/ op.name \in Writers /\ At' = "fill"
      \/ op.name \notin Begins \cup Writers /\ At' = "parse"
  BY OrderKnown
<1>7. /\ handle[TablePage].pinned <=> op.name # "openTable"
      /\ handle[TablePage].pinned => handle[TablePage].pageNum = 0
      /\ ~handle[RecordPage].pinned
  BY DEF TableInv, PinsSoFar
<1>8. PinsSoFar'
  <2>1. CASE op.name = "openTable"
    BY <1>1, <1>3, <1>4, <1>5, <1>6, <1>7, <2>1, TableConstants
       DEF PinsSoFar, Begins, Writers
  <2>2. CASE op.name # "openTable"
    BY <1>1, <1>3, <1>4, <1>6, <1>7, <2>2, TableConstants
       DEF PinsSoFar, Begins, Writers
  <2> QED
    BY <2>1, <2>2
<1> QED
  BY <1>6, <1>8 DEF Progress, DirtySoFar, LoopSoFar, CallsSucceed

LEMMA StepPin ==
  ASSUME TableInv, Doing("pin"), NEW c, c = op.client, NEW p, p = Head(todo).page,
         PinEmpty(c, p) \/ PinHit(c, p) \/ PinMissFifo(c, p), Advance,
         UNCHANGED <<total_pages, op>>
  PROVE  IInv' /\ Progress'
<1>1. At = "pin" /\ todo # <<>> /\ Quiet /\ p \in Pages
  BY HeadIs, TableConstants DEF Doing, TableInv, CallInProgress
<1>2. c \in Clients
  BY <1>1, TableConstants DEF TableInv, CallInProgress
<1>3. [Next]_vars
  BY <1>1, <1>2 DEF Next
<1>4. IInv'
  BY <1>3, InvStep, TableConstants DEF TableInv
<1>5. mgmtData /\ UNCHANGED <<mgmtData, op>>
  BY DEF PinEmpty, PinHit, PinMissFifo, Miss, MayPin, Ready
<1>6. \A i \in Frames : ~dirtybit[i]
  BY <1>1 DEF TableInv, DirtySoFar
<1>7. CASE PinEmpty(c, p)
  <2>1. PICK i \in Frames : handle' = [Orphan(i) EXCEPT ![c] = Pinned(p, i)]
    BY <1>7 DEF PinEmpty
  <2>2. call'.op = "none" /\ last'.rc = "RC_OK" /\ dirtybit' = dirtybit
    BY <1>1, <1>7 DEF PinEmpty, Return, Quiet
  <2>3. <<At, At'>> \in Order(op.name)
    BY <1>1, <2>2, Advanced DEF TableInv
  <2> QED
    BY <1>1, <1>4, <1>5, <1>6, <2>1, <2>2, <2>3, PinsOne
<1>8. CASE PinHit(c, p)
  <2>1. PICK i \in Frames : /\ handle' = [handle EXCEPT ![c] = Pinned(p, i)]
                            /\ dirtybit' = [dirtybit EXCEPT ![i] = FALSE]
    BY <1>8 DEF PinHit
  <2>2. call'.op = "none" /\ last'.rc = "RC_OK"
    BY <1>1, <1>8 DEF PinHit, Return, Quiet
  <2>3. <<At, At'>> \in Order(op.name)
    BY <1>1, <2>2, Advanced DEF TableInv
  <2>4. \A j \in Frames : ~dirtybit'[j]
    BY <1>6, <2>1 DEF TableInv, IInv, TypeOK
  <2> QED
    BY <1>1, <1>4, <1>5, <2>1, <2>2, <2>3, <2>4, PinsOne
<1>9. CASE PinMissFifo(c, p)
  <2>1. /\ call'.op = "fifo" /\ call'.client = c /\ call'.page = p
        /\ UNCHANGED <<mgmtData, pagenum, dirtybit, handle, last>>
    BY <1>9 DEF PinMissFifo, frames
  <2>2. todo' = todo /\ At' = At
    BY <1>1, <2>1, Advanced DEF TableInv, At, StepAt
  <2> QED
    BY <1>1, <1>4, <1>5, <1>6, <2>1, <2>2
       DEF TableInv, Progress, PinsSoFar, DirtySoFar, LoopSoFar, CallsSucceed
<1> QED
  BY <1>7, <1>8, <1>9

\* The loop of fifo finds a frame that nobody has pinned, or goes on.
LEMMA StepFifo ==
  ASSUME TableInv, FifoEvict \/ FifoSkip, Advance, UNCHANGED <<total_pages, op>>
  PROVE  todo # <<>> /\ IInv' /\ Progress'
<1>1. /\ At = "pin" /\ call.client = op.client /\ call.page = Head(todo).page
      /\ mgmtData /\ call.index \in Frames
  BY DEF TableInv, LoopSoFar, IInv, CallShape, FifoEvict, FifoSkip
<1>2. todo # <<>>
  BY <1>1, HeadIs DEF TableInv, CallInProgress
<1>3. [Next]_vars
  BY DEF Next, Continue
<1>4. IInv'
  BY <1>3, InvStep, TableConstants DEF TableInv
<1>5. \A i \in Frames : ~dirtybit[i]
  BY <1>1 DEF TableInv, DirtySoFar
<1>6. CASE FifoEvict
  <2>1. /\ handle' = [Orphan(call.index) EXCEPT
                        ![op.client] = Pinned(Head(todo).page, call.index)]
        /\ dirtybit' = [dirtybit EXCEPT ![call.index] = FALSE]
        /\ call'.op = "none" /\ last'.rc = "RC_OK" /\ mgmtData' = mgmtData
    BY <1>1, <1>6 DEF FifoEvict, Replace, NoCall, Return
  <2>2. <<At, At'>> \in Order(op.name)
    BY <1>2, <2>1, Advanced DEF TableInv
  <2>3. \A j \in Frames : ~dirtybit'[j]
    BY <1>5, <2>1 DEF TableInv, IInv, TypeOK
  <2> QED
    BY <1>1, <1>2, <1>4, <2>1, <2>2, <2>3, PinsOne
<1>7. CASE FifoSkip
  <2>1. /\ call'.op = call.op /\ call'.client = call.client /\ call'.page = call.page
        /\ call'.op # "none"
        /\ UNCHANGED <<mgmtData, pagenum, dirtybit, handle, last>>
    BY <1>7 DEF FifoSkip, frames, TableInv, IInv, TypeOK, Call
  <2>2. todo' = todo /\ At' = At
    BY <1>2, <2>1, Advanced DEF TableInv, At, StepAt
  <2> QED
    BY <1>1, <1>2, <1>4, <1>5, <2>1, <2>2
       DEF TableInv, Progress, PinsSoFar, DirtySoFar, LoopSoFar, CallsSucceed
<1> QED
  BY <1>2, <1>6, <1>7

\* The page of a pinned handle is found in the pool.
LEMMA FindsPage ==
  ASSUME TableInv, NEW c \in Clients, handle[c].pinned
  PROVE  /\ ~NotHeld(c) /\ handle[c].pageNum \in Pages /\ mgmtData
         /\ \E i \in Frames : pagenum[i] = handle[c].pageNum
BY DEF TableInv, IInv, PinnedPageResident, HandleShape, NotHeld

LEMMA StepMark ==
  ASSUME TableInv, Doing("mark"), markDirty(op.client), Advance,
         UNCHANGED <<total_pages, op>>
  PROVE  IInv' /\ Progress'
<1>1. At = "mark" /\ todo # <<>> /\ Quiet
  BY HeadIs DEF Doing, TableInv, CallInProgress
<1>2. call' = call /\ call'.op = "none"
  BY <1>1 DEF markDirty, Quiet
<1>3. op.name \in Writers /\ At' = "unpin"
  BY <1>1, <1>2, Advanced, OrderKnown DEF TableInv
<1>4. op.client = RecordPage /\ RecordPage \in Clients
  BY <1>1, <1>3, TableConstants DEF TableInv, CallInProgress, Writers, Begins
<1>5. [Next]_vars
  BY <1>4 DEF Next
<1>6. IInv'
  BY <1>5, InvStep, TableConstants DEF TableInv
<1>7. PICK i \in Frames : HeldAt(RecordPage, i) /\ dirtybit' = [dirtybit EXCEPT ![i] = TRUE]
  BY <1>4, FindsPage DEF markDirty
<1>8. last'.rc = "RC_OK" /\ UNCHANGED <<mgmtData, pagenum>> /\ mgmtData
  BY <1>4, FindsPage DEF markDirty, Return, Ready
<1>9. \A c \in Clients : /\ handle'[c].pinned = handle[c].pinned
                         /\ handle'[c].pageNum = handle[c].pageNum
  BY DEF markDirty, TableInv, IInv, TypeOK, PageHandle
<1>10. \A j \in Frames : ~dirtybit[j]
  BY <1>1 DEF TableInv, DirtySoFar
<1>11. \A j \in Frames : dirtybit'[j] => pagenum'[j] = handle'[RecordPage].pageNum
  BY <1>4, <1>7, <1>8, <1>9, <1>10 DEF HeldAt, TableInv, IInv, TypeOK
<1>12. PinsSoFar'
  BY <1>1, <1>3, <1>8, <1>9, TableConstants DEF TableInv, PinsSoFar, Writers
<1> QED
  BY <1>2, <1>3, <1>6, <1>8, <1>11, <1>12
     DEF TableInv, Progress, DirtySoFar, LoopSoFar, CallsSucceed

LEMMA StepUnpin ==
  ASSUME TableInv, Doing("unpin"), unpinPage(op.client), Advance,
         UNCHANGED <<total_pages, op>>
  PROVE  IInv' /\ Progress'
<1>1. At = "unpin" /\ todo # <<>> /\ Quiet
  BY HeadIs DEF Doing, TableInv, CallInProgress
<1>2. call' = call /\ call'.op = "none"
  BY <1>1 DEF unpinPage, Quiet
<1>3. \/ op.name = "closeTable" /\ At' = "shutdown"
      \/ op.name \in Writers /\ At' = "force"
      \/ op.name \notin Begins \cup Writers /\ At' \in {"pin", "end"}
  BY <1>1, <1>2, Advanced, OrderKnown DEF TableInv
<1>4. /\ op.client = IF op.name = "closeTable" THEN TablePage ELSE RecordPage
      /\ op.client \in Clients
  BY <1>1, <1>3, TableConstants DEF TableInv, CallInProgress, Writers, Begins
<1>5. [Next]_vars
  BY <1>4 DEF Next
<1>6. IInv'
  BY <1>5, InvStep, TableConstants DEF TableInv
<1>7. handle[op.client].pinned /\ mgmtData
  BY DEF unpinPage, Ready
<1>8. last'.rc = "RC_OK" /\ UNCHANGED <<mgmtData, pagenum, dirtybit>>
  BY <1>4, <1>7, FindsPage DEF unpinPage, Return
<1>9. /\ ~handle'[op.client].pinned
      /\ \A c \in Clients : handle'[c].pageNum = handle[c].pageNum
      /\ \A c \in Clients \ {op.client} : handle'[c].pinned = handle[c].pinned
  BY <1>4 DEF unpinPage, TableInv, IInv, TypeOK, PageHandle
<1>10. CASE op.name = "closeTable"
  <2>1. At' = "shutdown"
    BY <1>3, <1>10 DEF Writers, Begins
  <2>2. PinsSoFar'
    BY <1>1, <1>4, <1>7, <1>8, <1>9, <1>10, <2>1, TableConstants
       DEF TableInv, PinsSoFar
  <2>3. \A j \in Frames : ~dirtybit[j]
    BY <1>10 DEF TableInv, DirtySoFar, Writers
  <2> QED
    BY <1>2, <1>6, <1>7, <1>8, <2>1, <2>2, <2>3
       DEF Progress, DirtySoFar, LoopSoFar, CallsSucceed
<1>11. CASE op.name # "closeTable"
  <2>1. op.client = RecordPage
    BY <1>4, <1>11
  <2>2. \/ op.name \in Writers /\ At' = "force"
        \/ op.name \notin Begins \cup Writers /\ At' \in {"pin", "end"}
    BY <1>3, <1>11
  <2>3. PinsSoFar'
    BY <1>1, <1>7, <1>8, <1>9, <1>11, <2>1, <2>2, TableConstants
       DEF TableInv, PinsSoFar, Writers, Begins
  <2>4. /\ handle'[RecordPage].pageNum # NoPage
        /\ \E i \in Frames : pagenum'[i] = handle'[RecordPage].pageNum
    BY <1>4, <1>7, <1>8, <1>9, <2>1, FindsPage, Constants
  <2>5. \A i \in Frames : dirtybit'[i] =>
          /\ op.name \in Writers
          /\ pagenum'[i] = handle'[RecordPage].pageNum
    BY <1>4, <1>8, <1>9, <2>1 DEF TableInv, DirtySoFar
  <2>6. DirtySoFar'
    BY <1>7, <1>8, <2>2, <2>4, <2>5 DEF DirtySoFar
  <2> QED
    BY <1>2, <1>6, <1>8, <2>3, <2>6 DEF Progress, LoopSoFar, CallsSucceed
<1> QED
  BY <1>10, <1>11

LEMMA StepForce ==
  ASSUME TableInv, Doing("force"), forcePage(op.client), Advance,
         UNCHANGED <<total_pages, op>>
  PROVE  IInv' /\ Progress'
<1>1. At = "force" /\ todo # <<>> /\ Quiet
  BY HeadIs DEF Doing, TableInv, CallInProgress
<1>2. call' = call /\ call'.op = "none" /\ handle' = handle
  BY <1>1 DEF forcePage, Quiet
<1>3. op.name \in Writers /\ At' \in {"end", "count"}
  BY <1>1, <1>2, Advanced, OrderKnown DEF TableInv
<1>4. op.client = RecordPage /\ RecordPage \in Clients
  BY <1>1, <1>3, TableConstants DEF TableInv, CallInProgress, Writers, Begins
<1>5. [Next]_vars
  BY <1>4 DEF Next
<1>6. IInv'
  BY <1>5, InvStep, TableConstants DEF TableInv
<1>7. handle[RecordPage].pageNum # NoPage /\ ~NotHeld(RecordPage)
  BY <1>1 DEF TableInv, DirtySoFar, NotHeld
<1>8. PICK i \in Frames : HeldAt(RecordPage, i) /\ dirtybit' = [dirtybit EXCEPT ![i] = FALSE]
  BY <1>4, <1>7 DEF forcePage
<1>9. last'.rc = "RC_OK" /\ UNCHANGED <<mgmtData, pagenum>> /\ mgmtData
  BY <1>4, <1>7 DEF forcePage, Return, Ready
<1>10. \A j \in Frames : dirtybit[j] => j = i
  <2> SUFFICES ASSUME NEW j \in Frames, dirtybit[j] PROVE j = i
    OBVIOUS
  <2>1. pagenum[j] = pagenum[i] /\ pagenum[i] # NoPage
    BY <1>7, <1>8 DEF TableInv, DirtySoFar, HeldAt
  <2>2. ~(i < j) /\ ~(j < i)
    BY <2>1 DEF TableInv, IInv, OneFramePerPage
  <2> QED
    BY <2>2, Constants
<1>11. \A j \in Frames : ~dirtybit'[j]
  BY <1>8, <1>10 DEF TableInv, IInv, TypeOK
<1>12. PinsSoFar'
  BY <1>1, <1>2, <1>3, <1>9, TableConstants DEF TableInv, PinsSoFar, Writers
<1> QED
  BY <1>2, <1>3, <1>6, <1>9, <1>11, <1>12 DEF Progress, DirtySoFar, LoopSoFar, CallsSucceed

\* The table is closed: the flush finds nothing to write, and nobody has a
\* page pinned when the frames are freed.
LEMMA StepShutdown ==
  ASSUME TableInv, Advance, UNCHANGED <<total_pages, op>>,
         \/ Doing("shutdown") /\ shutdownBufferPool
         \/ FlushFrame \/ FlushDone \/ ShutdownDone
  PROVE  todo # <<>> /\ IInv' /\ Progress'
<1>1. At = "shutdown" /\ todo # <<>> /\ ~FlushDone
  BY HeadIs DEF Doing, TableInv, CallInProgress, FlushFrame, Flushing,
                FlushDone, ShutdownDone, LoopSoFar
<1>2. [Next]_vars
  BY DEF Next, Continue
<1>3. IInv'
  BY <1>2, InvStep, TableConstants DEF TableInv
<1>4. \A i \in Frames : ~dirtybit[i]
  BY <1>1 DEF TableInv, DirtySoFar
<1>5. ASSUME call'.op = "shutdown",
             UNCHANGED <<mgmtData, pagenum, dirtybit, handle, last>>
      PROVE  Progress'
  <2>1. todo' = todo /\ At' = At
    BY <1>1, <1>5, Advanced DEF TableInv, At, StepAt
  <2> QED
    BY <1>1, <1>4, <1>5, <2>1
       DEF TableInv, Progress, PinsSoFar, DirtySoFar, LoopSoFar, CallsSucceed
<1>6. CASE shutdownBufferPool
  BY <1>1, <1>3, <1>5, <1>6 DEF shutdownBufferPool, StartLoop, NoCall, frames
<1>7. CASE FlushFrame
  <2>1. call.op = "shutdown" /\ call.index \in Frames
    <3>1. call.op = "shutdown" /\ call.index \in 0..NumPages /\ call.index < NumPages
      BY <1>7 DEF FlushFrame, Flushing, TableInv, LoopSoFar, IInv, TypeOK, Call
    <3> QED
      BY <3>1, Constants DEF Frames
  <2>2. call'.op = "shutdown"
    BY <1>7, <2>1 DEF FlushFrame, TableInv, IInv, TypeOK, Call
  <2>3. UNCHANGED <<mgmtData, pagenum, dirtybit, handle, last>>
    BY <1>4, <1>7, <2>1 DEF FlushFrame, Flushable
  <2> QED
    BY <1>1, <1>3, <1>5, <2>2, <2>3
<1>8. CASE ShutdownDone
  <2>1. call'.op = "none" /\ ~mgmtData' /\ EmptyPool /\ handle' = [c \in Clients |-> Idle]
    BY <1>8 DEF ShutdownDone, NoCall
  <2>2. At' = "end" /\ op.name = "closeTable"
    BY <1>1, <2>1, Advanced, OrderKnown DEF TableInv
  <2>3. todo' = <<>>
    <3>1. CallInProgress'
      BY <1>1, Advanced DEF TableInv
    <3>2. todo' \in Seq(CallSteps)
      BY <3>1 DEF CallInProgress, Ordered
    <3> QED
      BY <2>2, <3>2, EndIsEnd DEF At, StepAt
  <2>4. \A c \in Clients : ~handle[c].pinned
    BY <1>1, <2>2, TableConstants DEF TableInv, PinsSoFar
  <2>5. \A i \in Frames : fixedcount[i] = 0
    <3>1. \A i \in Frames : UsersOf(i) = {}
      BY <2>4 DEF UsersOf
    <3> QED
      BY <3>1, FS_EmptySet DEF TableInv, IInv, FixCountsPins
  <2>6. last'.rc = "RC_OK"
    BY <1>8, <2>5 DEF ShutdownDone, Return
  <2>7. /\ \A c \in Clients : ~handle'[c].pinned
        /\ \A i \in Frames : ~dirtybit'[i] /\ pagenum'[i] = NoPage
    BY <2>1 DEF EmptyPool, Idle
  <2> QED
    BY <1>1, <1>3, <2>1, <2>2, <2>3, <2>6, <2>7, TableConstants
       DEF Progress, PinsSoFar, DirtySoFar, LoopSoFar, CallsSucceed
<1> QED
  BY <1>1, <1>3, <1>6, <1>7, <1>8

LEMMA StepPool ==
  ASSUME TableInv, PoolStep
  PROVE  TableInv'
<1>1. Advance /\ UNCHANGED <<total_pages, op>>
  BY DEF PoolStep
<1>2. todo # <<>> /\ IInv' /\ Progress'
  <2>1. Doing("init") /\ initBufferPool(NumPages, "RS_FIFO") => todo # <<>> /\ IInv' /\ Progress'
    BY <1>1, StepInit DEF Doing
  <2>2. ASSUME Doing("pin"), NEW c, c = op.client, NEW p, p = Head(todo).page,
               PinEmpty(c, p) \/ PinHit(c, p) \/ PinMissFifo(c, p)
        PROVE  todo # <<>> /\ IInv' /\ Progress'
    BY <1>1, <2>2, StepPin DEF Doing
  <2>3. Doing("mark") /\ markDirty(op.client) => todo # <<>> /\ IInv' /\ Progress'
    BY <1>1, StepMark DEF Doing
  <2>4. Doing("unpin") /\ unpinPage(op.client) => todo # <<>> /\ IInv' /\ Progress'
    BY <1>1, StepUnpin DEF Doing
  <2>5. Doing("force") /\ forcePage(op.client) => todo # <<>> /\ IInv' /\ Progress'
    BY <1>1, StepForce DEF Doing
  <2>6. \/ Doing("shutdown") /\ shutdownBufferPool
        \/ FlushFrame \/ FlushDone \/ ShutdownDone
        => todo # <<>> /\ IInv' /\ Progress'
    BY <1>1, StepShutdown
  <2>7. FifoEvict \/ FifoSkip => todo # <<>> /\ IInv' /\ Progress'
    BY <1>1, StepFifo
  <2> QED
    BY <2>1, <2>2, <2>3, <2>4, <2>5, <2>6, <2>7 DEF PoolStep, Continue
<1>3. CallInProgress'
  BY <1>1, <1>2, Advanced DEF TableInv
<1> QED
  BY <1>2, <1>3 DEF TableInv, Progress

-----------------------------------------------------------------------------
(***************************************************************************)
(* The steps of a call that are not calls of the pool.                     *)
(***************************************************************************)
LEMMA StepFill ==
  ASSUME TableInv, Fill
  PROVE  TableInv'
<1>1. At = "fill" /\ todo # <<>> /\ Quiet /\ UNCHANGED <<total_pages, op>>
  BY HeadIs DEF Fill, Doing, TableInv, CallInProgress
<1>2. PICK data : /\ data \in IF op.name = "deleteRecord" THEN Table!Marked(Page)
                              ELSE {op.data}
                  /\ WritePage(op.client, data)
  BY DEF Fill
<1>3. call' = call /\ call'.op = "none" /\ Advance
  BY <1>1, <1>2 DEF WritePage, Quiet, Fill
<1>4. op.name \in Writers /\ At' = "mark" /\ CallInProgress'
  BY <1>1, <1>3, Advanced, OrderKnown DEF TableInv
<1>5. op.client = RecordPage /\ RecordPage \in Clients
  BY <1>1, <1>4, TableConstants DEF TableInv, CallInProgress, Writers, Begins
<1>6. data \in Data
  <2>1. CASE op.name = "deleteRecord"
    <3>1. data = Junk \/ \E v \in Values : data = Table!Tomb(v)
      BY <1>2, <2>1 DEF Table!Marked
    <3> QED
      BY <3>1, TableDataAssumption
  <2>2. CASE op.name # "deleteRecord"
    BY <1>1, <1>2, <1>4, <2>2, TableDataAssumption
       DEF TableInv, CallInProgress, Writers
  <2> QED
    BY <2>1, <2>2
<1>7. [Next]_vars
  BY <1>2, <1>5, <1>6 DEF Next
<1>8. IInv'
  BY <1>7, InvStep, TableConstants DEF TableInv
<1>9. /\ UNCHANGED <<mgmtData, pagenum, dirtybit, last>>
      /\ \A c \in Clients : /\ handle'[c].pinned = handle[c].pinned
                            /\ handle'[c].pageNum = handle[c].pageNum
      /\ mgmtData
  BY <1>2 DEF WritePage, Ready, TableInv, IInv, TypeOK, PageHandle
<1>10. PinsSoFar'
  BY <1>1, <1>4, <1>9, TableConstants DEF TableInv, PinsSoFar, Writers
<1>11. DirtySoFar'
  BY <1>1, <1>4, <1>9 DEF TableInv, DirtySoFar
<1> QED
  BY <1>3, <1>4, <1>8, <1>9, <1>10, <1>11 DEF TableInv, LoopSoFar, CallsSucceed

LEMMA InvSame ==
  ASSUME IInv, UNCHANGED vars
  PROVE  IInv'
<1>1. [Next]_vars
  OBVIOUS
<1> QED
  BY <1>1, InvStep, TableConstants

LEMMA StepParse ==
  ASSUME TableInv, Parse
  PROVE  TableInv'
<1>1. At = "parse" /\ todo # <<>> /\ Quiet /\ UNCHANGED <<vars, total_pages>>
  BY HeadIs DEF Parse, Doing, TableInv, CallInProgress
<1>2. PICK v : op' = [op EXCEPT !.data = v]
  BY DEF Parse
<1>3. call'.op = "none" /\ todo' = Tail(todo)
  BY <1>1 DEF Parse, Advance, Quiet, vars
<1>4. Ordered(Tail(todo), op.name) /\ <<At, StepAt(Tail(todo), 1)>> \in Order(op.name)
  BY <1>1, TailOrdered DEF TableInv, CallInProgress, At
<1>5. op.name \notin Begins \cup Writers /\ At' = "unpin"
  BY <1>1, <1>3, <1>4, OrderKnown DEF At, StepAt
<1>6. op' = [name |-> op.name, client |-> op.client, data |-> v]
  BY <1>2 DEF TableInv, CallInProgress
<1>7. CallInProgress'
  <2>1. Ordered(todo, op.name)'
    BY <1>1, <1>3, <1>4, <1>6 DEF Ordered, StepAt
  <2> QED
    BY <1>1, <1>5, <1>6, <2>1 DEF TableInv, CallInProgress, Writers
<1>8. IInv'
  BY <1>1, InvSame DEF TableInv
<1>9. UNCHANGED <<mgmtData, handle, dirtybit, pagenum, call, last>>
  BY <1>1 DEF vars, frames
<1> QED
  BY <1>1, <1>3, <1>5, <1>6, <1>7, <1>8, <1>9
     DEF TableInv, PinsSoFar, DirtySoFar, LoopSoFar, CallsSucceed, Begins, Writers

LEMMA StepSchema ==
  ASSUME TableInv, ParseSchema
  PROVE  TableInv'
<1>1. At = "schema" /\ todo # <<>> /\ Quiet /\ UNCHANGED <<vars, total_pages, op>>
  BY HeadIs DEF ParseSchema, Doing, TableInv, CallInProgress
<1>2. call'.op = "none" /\ Advance
  BY <1>1 DEF ParseSchema, Quiet, vars
<1>3. CallInProgress' /\ op.name = "openTable" /\ At' = "end"
  BY <1>1, <1>2, Advanced, OrderKnown DEF TableInv
<1>4. IInv'
  BY <1>1, InvSame DEF TableInv
<1>5. UNCHANGED <<mgmtData, handle, dirtybit, pagenum, call, last>>
  BY <1>1 DEF vars, frames
<1> QED
  BY <1>1, <1>2, <1>3, <1>4, <1>5
     DEF TableInv, PinsSoFar, DirtySoFar, LoopSoFar, CallsSucceed, Begins, Writers

LEMMA StepCount ==
  ASSUME TableInv, CountRecord
  PROVE  TableInv'
<1>1. At = "count" /\ todo # <<>> /\ Quiet /\ UNCHANGED <<vars, op>>
  BY HeadIs DEF CountRecord, Doing, TableInv, CallInProgress
<1>2. call'.op = "none" /\ todo' = Tail(todo) /\ total_pages' = total_pages + 1
  BY <1>1 DEF CountRecord, Advance, Quiet, vars
<1>3. Ordered(Tail(todo), op.name) /\ <<At, StepAt(Tail(todo), 1)>> \in Order(op.name)
  BY <1>1, TailOrdered DEF TableInv, CallInProgress, At
<1>4. op.name \in Writers /\ StepAt(Tail(todo), 1) = "end"
  BY <1>1, <1>3, OrderKnown
<1>5. todo' = <<>> /\ At' = "end"
  BY <1>2, <1>3, <1>4, EndIsEnd DEF Ordered, At, StepAt
<1>6. total_pages < MaxRecords
  BY <1>1 DEF TableInv, CallInProgress, Ordered, At, StepAt
<1>7. CallInProgress'
  BY <1>1, <1>2, <1>5, <1>6, TableConstants DEF TableInv, CallInProgress, Ordered
<1>8. IInv'
  BY <1>1, InvSame DEF TableInv
<1>9. UNCHANGED <<mgmtData, handle, dirtybit, pagenum, call, last>>
  BY <1>1 DEF vars, frames
<1> QED
  BY <1>1, <1>2, <1>4, <1>5, <1>7, <1>8, <1>9
     DEF TableInv, PinsSoFar, DirtySoFar, LoopSoFar, CallsSucceed, Begins, Writers

-----------------------------------------------------------------------------
(***************************************************************************)
(* The calls begin with the steps that belong to their names.              *)
(***************************************************************************)
LEMMA StepsAre ==
  ASSUME NEW steps \in Seq(StepNames), NEW p \in 0..MaxRecords
  PROVE  /\ Steps(steps, p) \in Seq(CallSteps)
         /\ Len(Steps(steps, p)) = Len(steps)
         /\ \A k \in 1..Len(steps) : Steps(steps, p)[k] = [step |-> steps[k], page |-> p]
<1> DEFINE rec == [k \in 1..Len(steps) |-> [step |-> steps[k], page |-> p]]
<1>1. Len(steps) \in Nat /\ \A k \in 1..Len(steps) : steps[k] \in StepNames
  OBVIOUS
<1>2. Steps(steps, p) = rec
  BY DEF Steps
<1>3. \A k \in 1..Len(steps) : rec[k] \in CallSteps
  BY <1>1 DEF CallSteps
<1>4. rec \in Seq(CallSteps) /\ Len(rec) = Len(steps)
  <2>1. rec \in [1..Len(steps) -> CallSteps]
    BY <1>3
  <2> HIDE DEF rec
  <2> QED
    BY <1>1, <2>1
<1>5. \A k \in 1..Len(steps) : rec[k] = [step |-> steps[k], page |-> p]
  OBVIOUS
<1> QED
  BY <1>2, <1>4, <1>5

LEMMA OrderOf ==
  /\ <<"init", "pin">> \in Order("openTable") /\ <<"pin", "schema">> \in Order("openTable")
  /\ <<"schema", "end">> \in Order("openTable")
  /\ <<"unpin", "shutdown">> \in Order("closeTable")
  /\ <<"shutdown", "end">> \in Order("closeTable")
BY DEF Order, Writers

LEMMA AppendsOne ==
  ASSUME NEW S, NEW s \in Seq(S), NEW x \in S
  PROVE  /\ Append(s, x) \in Seq(S) /\ Len(Append(s, x)) = Len(s) + 1
         /\ \A k \in 1..Len(s) : Append(s, x)[k] = s[k]
         /\ Append(s, x)[Len(s) + 1] = x
OBVIOUS

LEMMA AppendSixth ==
  ASSUME NEW s \in Seq(CallSteps), Len(s) = 5, NEW x \in CallSteps
  PROVE  /\ Append(s, x) \in Seq(CallSteps) /\ Len(Append(s, x)) = 6
         /\ \A k \in 1..5 : Append(s, x)[k] = s[k]
         /\ Append(s, x)[6] = x
<1>1. /\ Append(s, x) \in Seq(CallSteps) /\ Len(Append(s, x)) = Len(s) + 1
      /\ \A k \in 1..Len(s) : Append(s, x)[k] = s[k]
      /\ Append(s, x)[Len(s) + 1] = x
  BY AppendsOne, Zenon
<1>2. Len(s) + 1 = 6
  OBVIOUS
<1> QED
  BY <1>1, <1>2, Zenon

LEMMA BeginsOrdered ==
  /\ Ordered(Steps(<<"init", "pin", "schema">>, 0), "openTable")
  /\ StepAt(Steps(<<"init", "pin", "schema">>, 0), 1) = "init"
  /\ Ordered(Steps(<<"unpin", "shutdown">>, 0), "closeTable")
  /\ StepAt(Steps(<<"unpin", "shutdown">>, 0), 1) = "unpin"
<1>1. 0 \in 0..MaxRecords
  BY TableConstants
<1>2. /\ Ordered(Steps(<<"init", "pin", "schema">>, 0), "openTable")
      /\ StepAt(Steps(<<"init", "pin", "schema">>, 0), 1) = "init"
  <2> DEFINE names == <<"init", "pin", "schema">>
             steps == Steps(names, 0)
  <2>1. names \in Seq(StepNames) /\ Len(names) = 3
    BY DEF StepNames
  <2>2. /\ steps \in Seq(CallSteps)
        /\ Len(steps) = 3
        /\ \A k \in 1..3 : steps[k] = [step |-> names[k], page |-> 0]
    <3> HIDE DEF names
    <3> QED
      BY <1>1, <2>1, StepsAre
  <2>3. /\ steps[1].step = "init" /\ steps[2].step = "pin" /\ steps[3].step = "schema"
        /\ \A k \in 1..3 : steps[k].page = 0
    <3> HIDE DEF steps
    <3> QED
      BY <2>2
  <2> HIDE DEF steps, names
  <2>4. /\ StepAt(steps, 1) = "init" /\ StepAt(steps, 2) = "pin"
        /\ StepAt(steps, 3) = "schema" /\ StepAt(steps, 4) = "end"
    BY <2>2, <2>3 DEF StepAt
  <2>5. \A k \in 1..3 : <<StepAt(steps, k), StepAt(steps, k + 1)>> \in Order("openTable")
    <3> SUFFICES ASSUME NEW k \in 1..3
                 PROVE  <<StepAt(steps, k), StepAt(steps, k + 1)>> \in Order("openTable")
      OBVIOUS
    <3>1. (k = 1 /\ k + 1 = 2) \/ (k = 2 /\ k + 1 = 3) \/ (k = 3 /\ k + 1 = 4)
      OBVIOUS
    <3> QED
      BY <2>4, <3>1, OrderOf
  <2>6. Ordered(steps, "openTable")
    <3>1. \A k \in 1..3 : steps[k].step # "count"
      <4>1. \A k \in 1..3 : k = 1 \/ k = 2 \/ k = 3
        OBVIOUS
      <4> QED
        BY <2>3, <4>1
    <3> QED
      BY <2>2, <2>3, <2>5, <3>1 DEF Ordered
  <2> QED
    BY <2>4, <2>6 DEF steps, names
<1>3. /\ Ordered(Steps(<<"unpin", "shutdown">>, 0), "closeTable")
      /\ StepAt(Steps(<<"unpin", "shutdown">>, 0), 1) = "unpin"
  <2> DEFINE names == <<"unpin", "shutdown">>
             steps == Steps(names, 0)
  <2>1. names \in Seq(StepNames) /\ Len(names) = 2
    BY DEF StepNames
  <2>2. /\ steps \in Seq(CallSteps)
        /\ Len(steps) = 2
        /\ \A k \in 1..2 : steps[k] = [step |-> names[k], page |-> 0]
    <3> HIDE DEF names
    <3> QED
      BY <1>1, <2>1, StepsAre
  <2>3. /\ steps[1].step = "unpin" /\ steps[2].step = "shutdown"
    <3> HIDE DEF steps
    <3> QED
      BY <2>2
  <2> HIDE DEF steps, names
  <2>4. /\ StepAt(steps, 1) = "unpin" /\ StepAt(steps, 2) = "shutdown"
        /\ StepAt(steps, 3) = "end"
    BY <2>2, <2>3 DEF StepAt
  <2>5. \A k \in 1..2 : k = 1 \/ k = 2
    OBVIOUS
  <2>6. \A k \in 1..2 : <<StepAt(steps, k), StepAt(steps, k + 1)>> \in Order("closeTable")
    <3> SUFFICES ASSUME NEW k \in 1..2
                 PROVE  <<StepAt(steps, k), StepAt(steps, k + 1)>> \in Order("closeTable")
      OBVIOUS
    <3>1. (k = 1 /\ k + 1 = 2) \/ (k = 2 /\ k + 1 = 3)
      OBVIOUS
    <3> QED
      BY <2>4, <3>1, OrderOf
  <2>7. \A k \in 1..2 : steps[k].step # "count"
    BY <2>3, <2>5
  <2>8. Ordered(steps, "closeTable")
    BY <2>2, <2>6, <2>7 DEF Ordered
  <2> QED
    BY <2>4, <2>8 DEF steps, names
<1> QED
  BY <1>2, <1>3

LEMMA WritingOrdered ==
  ASSUME NEW n \in Writers, NEW p \in 0..MaxRecords
  PROVE  /\ Ordered(Writing(p), n) /\ StepAt(Writing(p), 1) = "pin"
         /\ total_pages < MaxRecords =>
              LET all == Append(Writing(p), [step |-> "count", page |-> 0])
              IN  Ordered(all, n) /\ StepAt(all, 1) = "pin"
<1> DEFINE names == <<"pin", "fill", "mark", "unpin", "force">>
           steps == Writing(p)
           all == Append(steps, [step |-> "count", page |-> 0])
<1>1. names \in Seq(StepNames) /\ Len(names) = 5
  BY DEF StepNames
<1>2. /\ steps \in Seq(CallSteps) /\ Len(steps) = 5
      /\ \A k \in 1..5 : steps[k] = [step |-> names[k], page |-> p]
  <2>1. steps = Steps(names, p)
    BY DEF Writing
  <2> HIDE DEF names, steps
  <2> QED
    BY <1>1, <2>1, StepsAre
<1>3. [step |-> "count", page |-> 0] \in CallSteps
  BY TableConstants DEF CallSteps, StepNames
<1>4. /\ all \in Seq(CallSteps) /\ Len(all) = 6
      /\ \A k \in 1..5 : all[k] = steps[k]
      /\ all[6] = [step |-> "count", page |-> 0]
  <2> HIDE DEF steps, names
  <2>1. steps \in Seq(CallSteps) /\ Len(steps) = 5
    BY <1>2
  <2> QED
    BY <2>1, <1>3, AppendSixth
<1>5. /\ steps[1].step = "pin" /\ steps[2].step = "fill" /\ steps[3].step = "mark"
      /\ steps[4].step = "unpin" /\ steps[5].step = "force"
  <2> HIDE DEF steps
  <2> QED
    BY <1>2
<1>6. /\ all[1].step = "pin" /\ all[2].step = "fill" /\ all[3].step = "mark"
      /\ all[4].step = "unpin" /\ all[5].step = "force" /\ all[6].step = "count"
  <2> HIDE DEF steps, all
  <2> QED
    BY <1>4, <1>5
<1>7. /\ \A k \in 1..5 : k = 1 \/ k = 2 \/ k = 3 \/ k = 4 \/ k = 5
      /\ \A k \in 1..6 : k = 1 \/ k = 2 \/ k = 3 \/ k = 4 \/ k = 5 \/ k = 6
  OBVIOUS
<1>8. n # "openTable" /\ n # "closeTable"
  BY DEF Writers
<1> HIDE DEF steps, names, all
<1>9. Ordered(steps, n) /\ StepAt(steps, 1) = "pin"
  BY <1>2, <1>5, <1>7, <1>8 DEF Ordered, StepAt, Order
<1>10. total_pages < MaxRecords => Ordered(all, n) /\ StepAt(all, 1) = "pin"
  BY <1>4, <1>6, <1>7, <1>8 DEF Ordered, StepAt, Order
<1> QED
  BY <1>9, <1>10 DEF steps, all

LEMMA ReadingIs ==
  ASSUME NEW p \in 0..MaxRecords
  PROVE  /\ Reading(p) \in Seq(CallSteps) /\ Len(Reading(p)) = 3
         /\ Reading(p)[1].step = "pin" /\ Reading(p)[2].step = "parse"
         /\ Reading(p)[3].step = "unpin"
<1> DEFINE names == <<"pin", "parse", "unpin">>
<1>1. names \in Seq(StepNames) /\ Len(names) = 3
  BY DEF StepNames
<1>2. /\ Reading(p) \in Seq(CallSteps) /\ Len(Reading(p)) = 3
      /\ \A k \in 1..3 : Reading(p)[k] = [step |-> names[k], page |-> p]
  <2>1. Reading(p) = Steps(names, p)
    BY DEF Reading
  <2> HIDE DEF names
  <2> QED
    BY <1>1, <2>1, StepsAre
<1> QED
  BY <1>2

LEMMA OrderOfReaders ==
  ASSUME NEW n \in Readers
  PROVE  /\ <<"pin", "parse">> \in Order(n) /\ <<"parse", "unpin">> \in Order(n)
         /\ <<"unpin", "pin">> \in Order(n) /\ <<"unpin", "end">> \in Order(n)
         /\ n # "openTable"
BY DEF Order, Writers, Readers

LEMMA ReadingOrdered ==
  ASSUME NEW n \in Readers, NEW p \in 0..MaxRecords
  PROVE  Ordered(Reading(p), n) /\ StepAt(Reading(p), 1) = "pin"
<1> DEFINE steps == Reading(p)
<1>1. /\ steps \in Seq(CallSteps) /\ Len(steps) = 3
      /\ steps[1].step = "pin" /\ steps[2].step = "parse" /\ steps[3].step = "unpin"
  BY ReadingIs
<1> HIDE DEF steps
<1>2. /\ StepAt(steps, 1) = "pin" /\ StepAt(steps, 2) = "parse"
      /\ StepAt(steps, 3) = "unpin" /\ StepAt(steps, 4) = "end"
  BY <1>1 DEF StepAt
<1>3. ASSUME NEW k \in 1..3
      PROVE  <<StepAt(steps, k), StepAt(steps, k + 1)>> \in Order(n) /\ steps[k].step # "count"
  <2>1. (k = 1 /\ k + 1 = 2) \/ (k = 2 /\ k + 1 = 3) \/ (k = 3 /\ k + 1 = 4)
    OBVIOUS
  <2> QED
    BY <1>1, <1>2, <2>1, OrderOfReaders
<1>4. Ordered(steps, n)
  BY <1>1, <1>3, OrderOfReaders DEF Ordered
<1> QED
  BY <1>2, <1>4 DEF steps

LEMMA ReadingToOrdered ==
  ASSUME NEW n \in 1..MaxRecords
  PROVE  /\ Ordered(ReadingTo(n), "getNumTuples")
         /\ StepAt(ReadingTo(n), 1) = "pin"
<1> DEFINE size == 3 * n
           at(k) == ((k + 2) % 3) + 1
           page(k) == (k + 2) \div 3
           steps == ReadingTo(n)
<1>1. n \in Nat /\ size \in Nat /\ size >= 3 /\ n <= MaxRecords
  BY TableConstants
<1>2. \A k \in 1..size : at(k) \in 1..3 /\ page(k) \in 0..MaxRecords
  BY <1>1, TableConstants
<1>3. \A k \in 1..size : Reading(page(k))[at(k)] \in CallSteps
  <2> SUFFICES ASSUME NEW k \in 1..size PROVE Reading(page(k))[at(k)] \in CallSteps
    OBVIOUS
  <2>1. at(k) \in 1..3 /\ page(k) \in 0..MaxRecords
    BY <1>2
  <2> HIDE DEF at, page
  <2>2. Reading(page(k)) \in Seq(CallSteps) /\ Len(Reading(page(k))) = 3
    BY <2>1, ReadingIs
  <2>3. \A s \in Seq(CallSteps) : \A i \in 1..Len(s) : s[i] \in CallSteps
    OBVIOUS
  <2> QED
    BY <2>1, <2>2, <2>3, Zenon
<1>4. steps \in Seq(CallSteps) /\ Len(steps) = size
  <2>1. steps = [k \in 1..size |-> Reading(page(k))[at(k)]]
    BY DEF ReadingTo
  <2> HIDE DEF steps, size, at, page
  <2>2. steps \in [1..size -> CallSteps]
    BY <1>3, <2>1
  <2> QED
    BY <1>1, <2>1, <2>2
<1>5. \A k \in 1..size : steps[k] = Reading(page(k))[at(k)]
  BY DEF ReadingTo
<1>6. ASSUME NEW k \in 1..size
      PROVE  steps[k].step = IF at(k) = 1 THEN "pin" ELSE IF at(k) = 2 THEN "parse" ELSE "unpin"
  <2>1. /\ at(k) = 1 \/ at(k) = 2 \/ at(k) = 3
        /\ page(k) \in 0..MaxRecords
        /\ steps[k] = Reading(page(k))[at(k)]
    BY <1>2, <1>5
  <2> HIDE DEF steps, size, at, page
  <2> QED
    BY <2>1, ReadingIs
<1>7. ASSUME NEW k \in 1..size
      PROVE  at(k + 1) = IF at(k) = 3 THEN 1 ELSE at(k) + 1
  BY <1>1
<1>8. at(size) = 3 /\ at(1) = 1 /\ \A k \in 1..size : at(k) \in 1..3
  BY <1>1
<1>9. ASSUME NEW k \in 1..size
      PROVE  /\ <<StepAt(steps, k), StepAt(steps, k + 1)>> \in Order("getNumTuples")
             /\ steps[k].step # "count"
  <2>1. "getNumTuples" \in Readers /\ k \in Nat /\ k <= size
    BY <1>1 DEF Readers
  <2>2. /\ StepAt(steps, k) = steps[k].step
        /\ k < size => StepAt(steps, k + 1) = steps[k + 1].step /\ k + 1 \in 1..size
        /\ k = size => StepAt(steps, k + 1) = "end"
    <3> HIDE DEF steps, size, at, page
    <3> QED
      BY <1>1, <1>4, <2>1 DEF StepAt
  <2> HIDE DEF steps, size, at, page
  <2>3. CASE k < size
    BY <1>6, <1>7, <1>8, <2>1, <2>2, <2>3, OrderOfReaders
  <2>4. CASE k = size
    BY <1>6, <1>8, <2>1, <2>2, <2>4, OrderOfReaders
  <2> QED
    BY <1>1, <2>1, <2>3, <2>4
<1>10. StepAt(steps, 1) = "pin"
  <2>1. 1 \in 1..size
    BY <1>1
  <2> HIDE DEF steps, size, at, page
  <2> QED
    BY <1>1, <1>4, <1>6, <1>8, <2>1 DEF StepAt
<1>11. Ordered(steps, "getNumTuples")
  <2> HIDE DEF steps, size, at, page
  <2> QED
    BY <1>1, <1>4, <1>9 DEF Ordered
<1> QED
  BY <1>10, <1>11 DEF steps

-----------------------------------------------------------------------------
LEMMA StepBegin ==
  ASSUME TableInv, NEW n \in Begins \cup Writers \cup Readers,
         NEW c, NEW d, NEW steps, Begin(n, c, d, steps), Ordered(steps, n),
         c = IF n \in Begins THEN TablePage ELSE RecordPage,
         n \in {"insertRecord", "updateRecord"} => d \in Values,
         n = "deleteRecord" => d = NULL,
         StepAt(steps, 1) = IF n = "openTable" THEN "init"
                            ELSE IF n = "closeTable" THEN "unpin" ELSE "pin",
         mgmtData <=> n # "openTable"
  PROVE  TableInv'
<1>1. todo = <<>> /\ At = "end"
  BY HeadIs DEF Begin, TableInv, CallInProgress
<1>2. /\ op' = [name |-> n, client |-> c, data |-> d]
      /\ op'.name = n /\ op'.client = c /\ op'.data = d
      /\ todo' = steps /\ total_pages' = total_pages
  BY DEF Begin
<1>3. CallInProgress'
  BY <1>2 DEF TableInv, CallInProgress, Ordered, StepAt
<1>4. At' = StepAt(steps, 1)
  BY <1>2 DEF At, StepAt
<1>5. IInv'
  BY InvSame DEF TableInv, Begin
<1>6. UNCHANGED <<mgmtData, handle, dirtybit, pagenum, call, last>>
  BY DEF Begin, vars, frames
<1>7. CASE n = "openTable"
  BY <1>1, <1>2, <1>3, <1>4, <1>5, <1>6, <1>7
     DEF TableInv, PinsSoFar, DirtySoFar, LoopSoFar, CallsSucceed
<1>8. CASE n = "closeTable"
  BY <1>1, <1>2, <1>3, <1>4, <1>5, <1>6, <1>8
     DEF TableInv, PinsSoFar, DirtySoFar, LoopSoFar, CallsSucceed
<1>9. CASE n \notin Begins
  BY <1>1, <1>2, <1>3, <1>4, <1>5, <1>6, <1>9
     DEF TableInv, PinsSoFar, DirtySoFar, LoopSoFar, CallsSucceed, Begins
<1> QED
  BY <1>7, <1>8, <1>9 DEF Begins

LEMMA StepCall ==
  ASSUME TableInv,
         \/ openTable \/ closeTable \/ getNumTuples
         \/ \E v \in Values : insertRecord(v)
         \/ \E p \in 0..MaxRecords :
              \/ getRecord(p) \/ deleteRecord(p)
              \/ \E v \in Values : updateRecord(p, v)
  PROVE  TableInv'
<1>0. total_pages \in Nat /\ total_pages <= MaxRecords /\ MaxRecords \in Nat
  BY TableConstants DEF TableInv, CallInProgress
<1>1. CASE openTable
  BY <1>1, BeginsOrdered, StepBegin DEF openTable, Begins, Writers, Readers
<1>2. CASE closeTable
  BY <1>2, BeginsOrdered, StepBegin DEF closeTable, Begins, Writers, Readers
<1>3. CASE getNumTuples
  <2>1. total_pages - 1 \in 1..MaxRecords /\ mgmtData
    BY <1>0, <1>3 DEF getNumTuples
  <2>2. Begin("getNumTuples", RecordPage, NULL, ReadingTo(total_pages - 1))
    BY <1>3 DEF getNumTuples
  <2> QED
    BY <2>1, <2>2, ReadingToOrdered, StepBegin DEF Begins, Writers, Readers
<1>4. ASSUME NEW v \in Values, insertRecord(v) PROVE TableInv'
  <2>1. total_pages + 1 \in 0..MaxRecords /\ mgmtData /\ total_pages < MaxRecords
    BY <1>0, <1>4 DEF insertRecord
  <2>2. "insertRecord" \in Writers
    BY DEF Writers
  <2> DEFINE all == Append(Writing(total_pages + 1), [step |-> "count", page |-> 0])
  <2>3. Begin("insertRecord", RecordPage, v, all)
    BY <1>4 DEF insertRecord
  <2>4. Ordered(all, "insertRecord") /\ StepAt(all, 1) = "pin"
    BY <2>1, <2>2, WritingOrdered
  <2> HIDE DEF all
  <2> QED
    BY <2>1, <2>3, <2>4, StepBegin DEF Begins, Writers, Readers
<1>5. ASSUME NEW p \in 0..MaxRecords, getRecord(p) PROVE TableInv'
  <2>1. "getRecord" \in Readers
    BY DEF Readers
  <2>2. Ordered(Reading(p), "getRecord") /\ StepAt(Reading(p), 1) = "pin"
    BY <2>1, ReadingOrdered
  <2>3. mgmtData /\ Begin("getRecord", RecordPage, NULL, Reading(p))
    BY <1>5 DEF getRecord
  <2> QED
    BY <2>2, <2>3, StepBegin DEF Begins, Writers, Readers
<1>6. ASSUME NEW p \in 0..MaxRecords, deleteRecord(p) PROVE TableInv'
  <2>1. "deleteRecord" \in Writers
    BY DEF Writers
  <2>2. Ordered(Writing(p), "deleteRecord") /\ StepAt(Writing(p), 1) = "pin"
    BY <2>1, WritingOrdered
  <2>3. mgmtData /\ Begin("deleteRecord", RecordPage, NULL, Writing(p))
    BY <1>6 DEF deleteRecord
  <2> QED
    BY <2>2, <2>3, StepBegin DEF Begins, Writers, Readers
<1>7. ASSUME NEW p \in 0..MaxRecords, NEW v \in Values, updateRecord(p, v)
      PROVE  TableInv'
  <2>1. "updateRecord" \in Writers
    BY DEF Writers
  <2>2. Ordered(Writing(p), "updateRecord") /\ StepAt(Writing(p), 1) = "pin"
    BY <2>1, WritingOrdered
  <2>3. mgmtData /\ Begin("updateRecord", RecordPage, v, Writing(p))
    BY <1>7 DEF updateRecord
  <2> QED
    BY <2>2, <2>3, StepBegin DEF Begins, Writers, Readers
<1> QED
  BY <1>1, <1>2, <1>3, <1>4, <1>5, <1>6, <1>7

\* Creating or deleting the table leaves the pool, which is closed, as it is.
LEMMA StepFile ==
  ASSUME TableInv, createTable \/ deleteTable
  PROVE  TableInv'
<1>1. /\ UNCHANGED <<mgmtData, strategy, frames, stat, handle, call, last, op, todo>>
      /\ todo = <<>>
  BY DEF createTable, deleteTable
<1>2. disk' \in Seq(Content)
  <2>1. <<>> \in Seq(Content) /\ <<Zero>> \in Seq(Content) /\ <<Schema>> \in Seq(Content)
    BY TableDataAssumption DEF Content
  <2> QED
    BY <2>1 DEF createTable, deleteTable
<1>3. IInv'
  BY <1>1, <1>2
     DEF TableInv, IInv, frames, TypeOK, HandleShape, CallShape, OneFramePerPage,
         PinnedPageResident, FixCountsPins, UsersOf, LastUsedIsOne
<1>4. total_pages' \in 0..MaxRecords
  BY TableConstants DEF createTable, deleteTable, TableInv, CallInProgress
<1>5. CallInProgress'
  BY <1>1, <1>4 DEF TableInv, CallInProgress, Ordered, StepAt
<1>6. At' = At
  BY <1>1 DEF At, StepAt
<1> QED
  BY <1>1, <1>3, <1>5, <1>6
     DEF TableInv, PinsSoFar, DirtySoFar, LoopSoFar, CallsSucceed, frames

LEMMA StepEnd ==
  ASSUME TableInv, EndOfProcess
  PROVE  TableInv'
<1>1. /\ total_pages' = 0 /\ todo' = <<>>
      /\ op' = [name |-> "none", client |-> RecordPage, data |-> NULL]
      /\ op'.name = "none" /\ op'.client = RecordPage /\ op'.data = NULL
  BY DEF EndOfProcess, NoOp
<1>2. [Next]_vars
  BY DEF EndOfProcess, Next
<1>3. IInv'
  BY <1>2, InvStep, TableConstants DEF TableInv
<1>4. CallInProgress'
  BY <1>1, TableConstants DEF CallInProgress, Ordered
<1>5. At' = "end"
  BY <1>1 DEF At, StepAt
<1>6. /\ ~mgmtData' /\ last' = last
      /\ \A i \in Frames : ~dirtybit'[i] /\ pagenum'[i] = NoPage
      /\ call'.op = "none"
  <2>1. CASE Crash
    BY <2>1 DEF Crash, EmptyPool, NoCall
  <2>2. CASE ~mgmtData /\ UNCHANGED vars
    <3>1. call.op = "none" /\ At \notin {"unpin", "force"}
      <4>1. At \in {"init", "end"}
        BY <2>2, HeadIs DEF TableInv, CallInProgress, PinsSoFar
      <4> QED
        BY <2>2, <4>1 DEF TableInv, IInv, CallShape
    <3> QED
      BY <2>2, <3>1 DEF vars, frames, TableInv, DirtySoFar
  <2> QED
    BY <2>1, <2>2 DEF EndOfProcess
<1>7. \A c \in Clients : ~handle'[c].pinned
  BY <1>3, <1>6 DEF IInv, HandleShape
<1> QED
  BY <1>1, <1>3, <1>4, <1>5, <1>6, <1>7, TableConstants
     DEF TableInv, PinsSoFar, DirtySoFar, LoopSoFar, CallsSucceed

LEMMA TableInitInv == TableInit => TableInv
<1> SUFFICES ASSUME TableInit PROVE TableInv
  OBVIOUS
<1>1. TypeOK
  <2>1. disk \in Seq(Content) /\ mgmtData \in BOOLEAN /\ strategy \in Strategies
    <3>1. disk = <<>> /\ <<>> \in Seq(Content)
      BY DEF TableInit
    <3>2. mgmtData \in BOOLEAN /\ strategy \in Strategies
      BY TableConstants DEF TableInit
    <3> QED
      BY <3>1, <3>2
  <2>2. stat \in Stats /\ last \in [op: Ops, rc: RCs]
    BY DEF TableInit, Stats, Ops, RCs
  <2>3. call \in Call /\ handle \in [Clients -> PageHandle]
    BY Constants DEF TableInit, NoCall, Call, Calls, Content, Idle, PageHandle
  <2>4. /\ pagedata \in [Frames -> Content]
        /\ pagenum \in [Frames -> Pages \cup {NoPage}]
        /\ dirtybit \in [Frames -> BOOLEAN]
        /\ fixedcount \in [Frames -> Int]
        /\ ranking \in [Frames -> Int]
    BY DEF TableInit, Content, MaxRank
  <2> QED
    BY <2>1, <2>2, <2>3, <2>4 DEF TypeOK
<1>2. /\ \A i \in Frames : pagenum[i] = NoPage /\ fixedcount[i] = 0 /\ ~dirtybit[i]
      /\ \A c \in Clients : ~handle[c].pinned
      /\ call.op = "none" /\ ~mgmtData /\ last.rc = "RC_OK"
      /\ total_pages = 0 /\ op = NoOp /\ todo = <<>>
  BY DEF TableInit, Idle, NoCall
<1>3. PoolInv
  BY <1>2, UnusedPool
<1>4. CallShape /\ LastUsedIsOne
  BY DEF TableInit, CallShape, NoCall, LastUsedIsOne, MaxRank
<1>5. IInv
  BY <1>1, <1>3, <1>4 DEF IInv, PoolInv
<1>6. CallInProgress /\ At = "end"
  BY <1>2, TableConstants DEF CallInProgress, Ordered, NoOp, At, StepAt
<1> QED
  BY <1>2, <1>5, <1>6, TableConstants
     DEF TableInv, PinsSoFar, DirtySoFar, LoopSoFar, CallsSucceed

LEMMA TableInvStep ==
  ASSUME TableInv, [TableNext]_<<vars, tableVars>>
  PROVE  TableInv'
<1>1. CASE UNCHANGED <<vars, tableVars>>
  <2>1. UNCHANGED vars /\ UNCHANGED <<total_pages, op, todo>>
    BY <1>1 DEF tableVars
  <2>2. IInv'
    BY <2>1, InvSame DEF TableInv
  <2>3. CallInProgress' /\ At' = At
    BY <2>1 DEF TableInv, CallInProgress, Ordered, StepAt, At
  <2>4. UNCHANGED <<mgmtData, handle, dirtybit, pagenum, call, last>>
    BY <2>1 DEF vars, frames
  <2> QED
    BY <2>1, <2>2, <2>3, <2>4
       DEF TableInv, PinsSoFar, DirtySoFar, LoopSoFar, CallsSucceed
<1>2. CASE TableNext
  BY <1>2, StepCall, StepPool, StepFill, StepParse, StepSchema, StepCount,
     StepFile, StepEnd DEF TableNext
<1> QED
  BY <1>1, <1>2

-----------------------------------------------------------------------------
LEMMA TableInvariance == TableSpec => []TableInv
BY TableInitInv, TableInvStep, PTL DEF TableSpec

\* What is left between two calls.
LEMMA AtRest ==
  ASSUME TableInv
  PROVE  RestsClean
<1> SUFFICES ASSUME todo = <<>>, NEW i \in Frames
             PROVE  /\ ~dirtybit[i]
                    /\ fixedcount[i] = IF pagenum[i] = 0 THEN 1 ELSE 0
  BY DEF RestsClean
<1>1. At = "end"
  BY HeadIs DEF TableInv, CallInProgress
<1>2. ~dirtybit[i] /\ ~handle[RecordPage].pinned
  BY <1>1 DEF TableInv, DirtySoFar, PinsSoFar
<1>3. UsersOf(i) = IF pagenum[i] = 0 THEN {TablePage} ELSE {}
  <2>1. CASE mgmtData
    <3>1. handle[TablePage].pinned /\ handle[TablePage].pageNum = 0
      BY <1>1, <2>1 DEF TableInv, PinsSoFar
    <3>2. /\ handle[TablePage].data \in Frames
          /\ pagenum[handle[TablePage].data] = 0
      BY <3>1, TableConstants DEF TableInv, IInv, PinnedPageResident
    <3>3. pagenum[i] = 0 => handle[TablePage].data = i
      <4> SUFFICES ASSUME pagenum[i] = 0 PROVE handle[TablePage].data = i
        OBVIOUS
      <4>1. ~(i < handle[TablePage].data) /\ ~(handle[TablePage].data < i)
        BY <3>2, TableConstants DEF TableInv, IInv, OneFramePerPage
      <4>2. i \in Int /\ handle[TablePage].data \in Int
        BY <3>2, Constants
      <4> QED
        BY <4>1, <4>2
    <3> QED
      BY <1>2, <3>1, <3>2, <3>3, TableConstants DEF UsersOf
  <2>2. CASE ~mgmtData
    BY <2>2, TableConstants DEF TableInv, DirtySoFar, IInv, HandleShape, UsersOf
  <2> QED
    BY <2>1, <2>2
<1>4. fixedcount[i] = Cardinality(UsersOf(i))
  BY DEF TableInv, IInv, FixCountsPins
<1> QED
  BY <1>2, <1>3, <1>4, FS_EmptySet, FS_Singleton

(***************************************************************************)
(* Between two calls of the record manager nothing in the pool is dirty,   *)
(* and only page 0 is pinned, once: whatever calls came before, wherever   *)
(* the process ended in them, and for pools of any size.                   *)
(***************************************************************************)
THEOREM LeavesPoolClean == TableSpec => []RestsClean
<1>1. TableInv => RestsClean
  BY AtRest
<1> QED
  BY <1>1, TableInvariance, PTL

(***************************************************************************)
(* No call of the pool that the record manager makes returns an error: the *)
(* page of every markDirty, unpinPage and forcePage is still in the pool,  *)
(* and closeTable frees no frame that is pinned.                           *)
(***************************************************************************)
THEOREM PoolCallsSucceed == TableSpec => []CallsSucceed
<1>1. TableInv => CallsSucceed
  BY DEF TableInv
<1> QED
  BY <1>1, TableInvariance, PTL
=============================================================================
