------------------------- MODULE BufferOrderProofs -------------------------
(***************************************************************************)
(* Proofs about BufferOrder: what fifo and lru evict, for any clients,     *)
(* pages, data and pool size.                                              *)
(***************************************************************************)
EXTENDS BufferOrder, BufferMgrProofs

-----------------------------------------------------------------------------
(***************************************************************************)
(* The frames a step pins and loads.  A pin touches the one frame the page *)
(* is found in or put into; it is a load when the frame held another page. *)
(***************************************************************************)
NoPins == \A c \in Clients : handle'[c].pinned => handle[c].pinned

PinsOnly(c, i) ==
  /\ ~handle[c].pinned
  /\ handle'[c].pinned /\ handle'[c].data = i
  /\ \A d \in Clients \ {c} : handle'[d].pinned = handle[d].pinned

LEMMA TouchedNone ==
  ASSUME NoPins
  PROVE  Touched = {} /\ Loaded = {}
BY DEF NoPins, Touched, Loaded

LEMMA TouchedOne ==
  ASSUME NEW c \in Clients, NEW i \in Frames, PinsOnly(c, i)
  PROVE  /\ Touched = {i}
         /\ pagenum'[i] # pagenum[i] => Loaded = {i}
         /\ pagenum'[i] = pagenum[i] => Loaded = {}
<1>1. Touched = {i}
  <2> DEFINE S == {d \in Clients : ~handle[d].pinned /\ handle'[d].pinned}
  <2>1. \A d \in Clients : d \in S <=> d = c
    BY DEF PinsOnly
  <2>2. S = {c}
    BY <2>1
  <2>3. Touched = {handle'[d].data : d \in S}
    BY DEF Touched
  <2> QED
    BY <2>2, <2>3 DEF PinsOnly
<1> QED
  BY <1>1 DEF Loaded

LEMMA PlacePins ==
  ASSUME TypeOK, NEW c \in Clients, NEW i \in Frames, NEW p \in Pages,
         ~handle[c].pinned, handle' = [Orphan(i) EXCEPT ![c] = Pinned(p, i)]
  PROVE  PinsOnly(c, i)
<1>1. \A d \in Clients : Orphan(i)[d].pinned = handle[d].pinned
  BY DEF Orphan, TypeOK, PageHandle
<1>2. Orphan(i) \in [Clients -> PageHandle]
  BY Constants DEF Orphan, TypeOK, PageHandle
<1> QED
  BY <1>1, <1>2 DEF PinsOnly, Pinned, Orphan
(***************************************************************************)
(* The steps, by what they do to the pins: some pin nothing, and those     *)
(* that pin either find the page in its frame or put it into one.          *)
(***************************************************************************)
Placing(c, i) ==
  /\ PinsOnly(c, i) /\ pagenum[i] # pagenum'[i] /\ pagenum'[i] # NoPage
  /\ \A j \in Frames \ {i} : pagenum'[j] = pagenum[j]
  /\ decreaseRankingForPages(i)

Hitting(c, i) ==
  /\ PinsOnly(c, i) /\ pagenum[i] # NoPage /\ UNCHANGED pagenum
  /\ decreaseRankingForPages(i)

LEMMA EmptyPlaces ==
  ASSUME TypeOK, NEW c \in Clients, NEW p \in Pages, PinEmpty(c, p)
  PROVE  \E i \in Frames : FoundAt(p, i) /\ pagenum[i] = NoPage /\ Placing(c, i)
<1>1. PICK i \in Frames :
        /\ FoundAt(p, i) /\ pagenum[i] = NoPage
        /\ pagenum' = [pagenum EXCEPT ![i] = p]
        /\ decreaseRankingForPages(i)
        /\ handle' = [Orphan(i) EXCEPT ![c] = Pinned(p, i)]
  BY DEF PinEmpty
<1>2. ~handle[c].pinned
  BY DEF PinEmpty, MayPin
<1>3. PinsOnly(c, i)
  BY <1>1, <1>2, PlacePins
<1>4. p # NoPage
  BY Constants
<1> QED
  BY <1>1, <1>3, <1>4 DEF Placing, TypeOK

LEMMA HitHits ==
  ASSUME TypeOK, NEW c \in Clients, NEW p \in Pages, PinHit(c, p)
  PROVE  \E i \in Frames : Hitting(c, i)
<1>1. PICK i \in Frames :
        /\ pagenum[i] = p /\ decreaseRankingForPages(i)
        /\ handle' = [handle EXCEPT ![c] = Pinned(p, i)]
  BY DEF PinHit
<1>2. ~handle[c].pinned /\ UNCHANGED pagenum
  BY DEF PinHit, MayPin
<1>3. PinsOnly(c, i)
  BY <1>1, <1>2 DEF PinsOnly, Pinned, TypeOK
<1>4. p # NoPage
  BY Constants
<1> QED
  BY <1>1, <1>2, <1>3, <1>4 DEF Hitting

LEMMA ReplacePlaces ==
  ASSUME TypeOK, NEW c \in Clients, NEW p \in Pages, NEW i \in Frames,
         NEW file, NEW data, Replace(file, i, c, p, data),
         ~handle[c].pinned, pagenum[i] # p
  PROVE  Placing(c, i)
<1>1. /\ pagenum' = [pagenum EXCEPT ![i] = p]
      /\ decreaseRankingForPages(i)
      /\ handle' = [Orphan(i) EXCEPT ![c] = Pinned(p, i)]
  BY DEF Replace
<1>2. PinsOnly(c, i)
  BY <1>1, PlacePins
<1>3. p # NoPage
  BY Constants
<1> QED
  BY <1>1, <1>2, <1>3 DEF Placing, TypeOK

LEMMA FifoPlaces ==
  ASSUME IInv, FifoEvict
  PROVE  Placing(call.client, call.index)
<1>1. /\ call.client \in Clients /\ call.page \in Pages /\ call.index \in Frames
      /\ ~handle[call.client].pinned /\ pagenum[call.index] # call.page
  BY DEF IInv, CallShape, FifoEvict
<1>2. Replace(disk, call.index, call.client, call.page, call.data)
  BY DEF FifoEvict
<1> QED
  BY <1>1, <1>2, ReplacePlaces DEF IInv

LEMMA LruPlaces ==
  ASSUME IInv, NEW c \in Clients, NEW p \in Pages, PinMissLru(c, p)
  PROVE  \E i \in Frames : LruVictim(i) /\ Placing(c, i)
<1>1. PICK i \in Frames : LruVictim(i) /\ Replace(MissDisk(p), i, c, p, MissData(p))
  BY DEF PinMissLru
<1>2. ~handle[c].pinned /\ pagenum[i] # p
  BY DEF PinMissLru, Miss, MayPin
<1> QED
  BY <1>1, <1>2, ReplacePlaces DEF IInv

\* What every step of the pool does to the frames, as far as their order goes.
LEMMA StepKinds ==
  ASSUME IInv, [Next]_vars, mgmtData'
  PROVE  \/ \E c \in Clients, i \in Frames : Placing(c, i) \/ Hitting(c, i)
         \/ NoPins /\ UNCHANGED <<mgmtData, pagenum, ranking>>
         \/ NoPins /\ EmptyPool /\ ~mgmtData
<1>1. ASSUME NEW c \in Clients, NEW p \in Pages,
             PinEmpty(c, p) \/ PinHit(c, p) \/ PinMissLru(c, p)
      PROVE  \E d \in Clients, i \in Frames : Placing(d, i) \/ Hitting(d, i)
  BY <1>1, EmptyPlaces, HitHits, LruPlaces DEF IInv
<1>2. CASE FifoEvict
  <2>1. call.client \in Clients /\ call.index \in Frames
    BY <1>2 DEF IInv, CallShape, FifoEvict
  <2> QED
    BY <1>2, <2>1, FifoPlaces
<1>3. CASE UNCHANGED <<mgmtData, pagenum, ranking, handle>>
  BY <1>3 DEF NoPins
<1>4. ASSUME NEW n \in {0, NumPages}, NEW s \in Strategies, initBufferPool(n, s)
      PROVE  \/ NoPins /\ UNCHANGED <<mgmtData, pagenum, ranking>>
             \/ NoPins /\ EmptyPool /\ ~mgmtData
  BY <1>4 DEF initBufferPool, NoPins, frames
<1>5. ASSUME NEW c \in Clients, handle \in [Clients -> PageHandle],
             \/ \E p \in Pages : PinMissOther(c, p)
             \/ \E data \in Data : WritePage(c, data)
             \/ markDirty(c) \/ unpinPage(c)
      PROVE  NoPins /\ UNCHANGED <<mgmtData, pagenum, ranking>>
  BY <1>5 DEF PinMissOther, WritePage, markDirty, unpinPage, NoPins, frames, PageHandle
<1>6. handle \in [Clients -> PageHandle]
  BY DEF IInv, TypeOK
<1>7. CASE ShutdownDone \/ Crash
  BY <1>7 DEF ShutdownDone, Crash
<1> QED
  BY <1>1, <1>2, <1>3, <1>4, <1>5, <1>6, <1>7
     DEF Next, Continue, vars, frames, PinMissFifo, FifoSkip, forcePage, StartLoop,
         forceFlushPool, shutdownBufferPool, FlushFrame, FlushDone, NotInitialized

-----------------------------------------------------------------------------
(***************************************************************************)
(* The ranks are the order of the last uses, for every strategy: no two    *)
(* frames in use have the same one, and a frame has the lower rank when it *)
(* was used before the other.                                              *)
(***************************************************************************)
RanksAreUses ==
  \A i, j \in InUse : i # j =>
    /\ ranking[i] # ranking[j]
    /\ <<i, j>> \in uses <=> ranking[i] < ranking[j]

ClosedIsNew == ~mgmtData => InUse = {} /\ loads = {} /\ uses = {} /\ ~skipped

UseInv ==
  /\ IInv
  /\ ClosedIsNew
  /\ uses \subseteq InUse \X InUse
  /\ RanksAreUses

LEMMA RenewIs ==
  ASSUME NEW order \in SUBSET (InUse \X InUse), NEW i \in Frames
  PROVE  \A j, k \in Frames :
           <<j, k>> \in Renew(order, {i}) <=>
             \/ j # i /\ k # i /\ <<j, k>> \in order
             \/ j # i /\ k = i /\ j \in InUse
BY DEF Renew, InUse

LEMMA RenewNone == \A order : Renew(order, {}) = order
BY DEF Renew
LEMMA InitUses == OrderInit => UseInv
<1> SUFFICES ASSUME OrderInit PROVE UseInv
  OBVIOUS
<1>1. InUse = {} /\ uses = {}
  BY DEF OrderInit, Init, InUse
<1>2. IInv
  BY InitInv DEF OrderInit
<1> QED
  BY <1>1, <1>2 DEF OrderInit, UseInv, ClosedIsNew, RanksAreUses

LEMMA ClosedStep ==
  ASSUME IInv, ClosedIsNew, OrderNext
  PROVE  ClosedIsNew'
<1> SUFFICES ASSUME ~mgmtData' PROVE InUse' = {}
  BY DEF ClosedIsNew, OrderNext
<1>1. CASE EmptyPool
  BY <1>1 DEF EmptyPool, InUse
<1>2. CASE ~mgmtData /\ UNCHANGED pagenum
  BY <1>2 DEF InUse, ClosedIsNew
<1>3. ~FifoEvict
  BY DEF IInv, CallShape, FifoEvict
<1>4. ASSUME NEW n \in {0, NumPages}, NEW s \in Strategies, initBufferPool(n, s)
      PROVE  ~mgmtData /\ UNCHANGED pagenum
  BY <1>4 DEF initBufferPool, frames
<1>5. ASSUME NEW c \in Clients, NEW p \in Pages
      PROVE  ~ (PinEmpty(c, p) \/ PinHit(c, p) \/ PinMissLru(c, p))
  BY DEF PinEmpty, PinHit, PinMissLru, Miss, MayPin, Ready
<1>6. CASE UNCHANGED <<mgmtData, pagenum>>
  BY <1>2, <1>6
<1>7. Next
  BY DEF OrderNext
<1> QED
  BY <1>1, <1>2, <1>3, <1>4, <1>5, <1>6, <1>7
     DEF Next, Continue, frames, PinMissFifo, PinMissOther, WritePage, markDirty,
         unpinPage, forcePage, StartLoop, forceFlushPool, shutdownBufferPool,
         FifoSkip, FlushFrame, FlushDone, ShutdownDone, NotInitialized, Crash

\* A step that pins nothing moves nobody in the order.
LEMMA UsesUnpinned ==
  ASSUME UseInv, NoPins, mgmtData', OrderNext,
         \/ UNCHANGED <<mgmtData, pagenum, ranking>>
         \/ EmptyPool /\ ~mgmtData
  PROVE  (uses \subseteq InUse \X InUse)' /\ RanksAreUses'
<1>1. uses' = uses
  BY TouchedNone, RenewNone DEF OrderNext
<1>2. CASE UNCHANGED <<mgmtData, pagenum, ranking>>
  BY <1>1, <1>2 DEF UseInv, RanksAreUses, InUse
<1>3. CASE EmptyPool /\ ~mgmtData
  <2>1. InUse' = {} /\ uses' = {}
    BY <1>1, <1>3 DEF EmptyPool, InUse, UseInv, ClosedIsNew
  <2> QED
    BY <2>1 DEF RanksAreUses
<1> QED
  BY <1>2, <1>3

\* A pin makes its frame the last in the order and gives it the top rank.
LEMMA UsesPinned ==
  ASSUME UseInv, mgmtData', OrderNext, NEW c \in Clients, NEW i \in Frames,
         Placing(c, i) \/ Hitting(c, i)
  PROVE  (uses \subseteq InUse \X InUse)' /\ RanksAreUses'
<1>1. Touched = {i} /\ uses' = Renew(uses, {i})
  BY TouchedOne DEF OrderNext, Placing, Hitting
<1>2. /\ pagenum'[i] # NoPage
      /\ \A j \in Frames \ {i} : pagenum'[j] = pagenum[j]
      /\ decreaseRankingForPages(i)
  BY DEF Placing, Hitting
<1>3. InUse' = InUse \cup {i}
  BY <1>2 DEF InUse
<1>4. /\ ranking'[i] = MaxRank
      /\ \A j \in Frames \ {i} : ranking'[j] = ranking[j] - 1 /\ ranking[j] \in Int
      /\ \A j \in Frames : ranking[j] <= MaxRank
  BY <1>2 DEF decreaseRankingForPages, UseInv, IInv, TypeOK, LastUsedIsOne
<1>5. \A j \in Frames \ {i} : ranking'[j] < ranking'[i] /\ ranking'[j] \in Int
  BY <1>4 DEF MaxRank
<1>6. uses \in SUBSET (InUse \X InUse)
  BY DEF UseInv
<1>7. (uses \subseteq InUse \X InUse)'
  BY <1>1, <1>3, <1>6 DEF Renew
<1>8. ASSUME NEW j \in InUse', NEW k \in InUse', j # k
      PROVE  /\ ranking'[j] # ranking'[k]
             /\ <<j, k>> \in uses' <=> ranking'[j] < ranking'[k]
  <2>1. j \in Frames /\ k \in Frames /\ ranking'[i] \in Int
    BY <1>4 DEF InUse, MaxRank
  <2>2. <<j, k>> \in uses' <=>
          \/ j # i /\ k # i /\ <<j, k>> \in uses
          \/ j # i /\ k = i /\ j \in InUse
    BY <1>1, <1>6, <2>1, RenewIs
  <2>3. CASE j = i
    BY <1>5, <1>8, <2>1, <2>2, <2>3
  <2>4. CASE k = i
    BY <1>3, <1>5, <1>8, <2>1, <2>2, <2>4
  <2>5. CASE j # i /\ k # i
    <3>1. j \in InUse /\ k \in InUse
      BY <1>3, <2>5
    <3>2. ranking[j] # ranking[k] /\ (<<j, k>> \in uses <=> ranking[j] < ranking[k])
      BY <1>8, <3>1 DEF UseInv, RanksAreUses
    <3> QED
      BY <1>4, <2>1, <2>2, <2>5, <3>2
  <2> QED
    BY <2>3, <2>4, <2>5
<1> QED
  BY <1>7, <1>8 DEF RanksAreUses

LEMMA UsesStep ==
  ASSUME UseInv, Roomy, [OrderNext]_orderVars
  PROVE  UseInv'
<1>1. CASE UNCHANGED orderVars
  <2>1. IInv'
    BY <1>1, InvStep DEF UseInv, orderVars
  <2>2. ClosedIsNew' /\ RanksAreUses' /\ (uses \subseteq InUse \X InUse)'
    BY <1>1 DEF orderVars, vars, frames, UseInv, ClosedIsNew, RanksAreUses, InUse
  <2> QED
    BY <2>1, <2>2 DEF UseInv
<1>2. CASE OrderNext
  <2>1. IInv' /\ [Next]_vars
    BY <1>2, InvStep DEF UseInv, OrderNext
  <2>2. ClosedIsNew'
    BY <1>2, <2>1, ClosedStep DEF OrderNext, UseInv
  <2>3. CASE mgmtData'
    BY <1>2, <2>1, <2>2, <2>3, StepKinds, UsesUnpinned, UsesPinned DEF UseInv
  <2>4. CASE ~mgmtData'
    <3>1. uses' = {}
      BY <1>2, <2>4 DEF OrderNext
    <3>2. InUse' = {}
      BY <2>2, <2>4 DEF ClosedIsNew
    <3> QED
      BY <2>1, <2>2, <3>1, <3>2 DEF UseInv, RanksAreUses
  <2> QED
    BY <2>3, <2>4
<1> QED
  BY <1>1, <1>2

(***************************************************************************)
(* lru evicts, of the frames nobody has pinned, the one whose last use is  *)
(* longest ago (LruEvictsLeastRecent): for any number of frames, and of    *)
(* clients that is smaller, its ranks never lose the order.                *)
(***************************************************************************)
THEOREM LruIsLeastRecent ==
  ASSUME Roomy
  PROVE  OrderSpec => LruEvictsLeastRecent
<1> DEFINE A == \A c \in Clients, p \in Pages : PinMissLru(c, p) =>
                  \E i \in Frames :
                    /\ Loaded = {i}
                    /\ FirstOf(uses, {j \in Frames : fixedcount[j] = 0}, i)
<1>1. OrderInit => UseInv
  BY InitUses
<1>2. UseInv /\ [OrderNext]_orderVars => UseInv'
  BY UsesStep
<1>3. UseInv => A
  <2> SUFFICES ASSUME UseInv, NEW c \in Clients, NEW p \in Pages, PinMissLru(c, p)
               PROVE  \E i \in Frames :
                        /\ Loaded = {i}
                        /\ FirstOf(uses, {j \in Frames : fixedcount[j] = 0}, i)
    OBVIOUS
  <2>1. IInv
    BY DEF UseInv
  <2>2. PICK i \in Frames : LruVictim(i) /\ Placing(c, i)
    BY <2>1, LruPlaces
  <2>3. Loaded = {i}
    BY <2>2, TouchedOne DEF Placing
  <2>4. LruCandidates # {} /\ InUse = Frames
    BY <2>1, LruFindsFree DEF PinMissLru, Miss, InUse
  <2>5. /\ ranking[i] < MaxRank /\ fixedcount[i] = 0
        /\ \A j \in LruCandidates : ranking[i] <= ranking[j]
    <3>1. ranking \in [Frames -> Int]
      BY <2>1 DEF IInv, TypeOK
    <3>2. i \in LruCandidates /\ \A j \in LruCandidates : j \in Frames
      BY <2>2, <2>4 DEF LruVictim, LruCandidates
    <3>3. \A j \in LruCandidates : ranking[i] < ranking[j] \/ ranking[i] = ranking[j]
      BY <2>2, <2>4 DEF LruVictim
    <3> QED
      BY <3>1, <3>2, <3>3 DEF LruCandidates
  <2>6. ASSUME NEW j \in Frames, j # i, fixedcount[j] = 0
        PROVE  <<i, j>> \in uses
    <3>1. ranking[i] \in Int /\ ranking[j] \in Int /\ ranking[j] <= MaxRank
      BY <2>1 DEF IInv, TypeOK, LastUsedIsOne
    <3>2. ranking[i] # ranking[j] /\ (<<i, j>> \in uses <=> ranking[i] < ranking[j])
      BY <2>4, <2>6 DEF UseInv, RanksAreUses
    <3>3. ranking[i] <= ranking[j]
      <4>1. CASE ranking[j] < MaxRank
        BY <2>5, <2>6, <4>1 DEF LruCandidates
      <4>2. CASE ranking[j] = MaxRank
        BY <2>5, <4>2, <3>1 DEF MaxRank
      <4> QED
        BY <3>1, <4>1, <4>2 DEF MaxRank
    <3> QED
      BY <3>1, <3>2, <3>3
  <2> QED
    BY <2>3, <2>5, <2>6 DEF FirstOf
<1> HIDE DEF A
<1>4. OrderSpec => [][A]_orderVars
  BY <1>1, <1>2, <1>3, PTL DEF OrderSpec
<1> QED
  BY <1>4 DEF LruEvictsLeastRecent, A

-----------------------------------------------------------------------------
(***************************************************************************)
(* The order of the loads under fifo, as long as it has passed over no     *)
(* pinned frame.  First the frames are filled one after the other, and     *)
(* lastposition is the first that is empty.  Then they are replaced in     *)
(* turns, and the one whose turn it is has been loaded before all others.  *)
(***************************************************************************)
FillingUp(n) ==
  /\ stat.lastposition = n
  /\ \A i \in Frames : pagenum[i] # NoPage <=> i < n
  /\ \A i, j \in InUse : <<i, j>> \in loads <=> i < j

\* How many frames are replaced before i when q is the next.
Turn(q, i) == IF i >= q THEN i - q ELSE i - q + NumPages

InTurns(q) ==
  /\ InUse = Frames
  /\ \A i, j \in Frames : <<i, j>> \in loads <=> Turn(q, i) < Turn(q, j)

LoadsInOrder ==
  \/ call.op # "fifo" /\ \E n \in Frames : FillingUp(n)
  \/ call.op # "fifo" /\ InTurns(stat.lastposition % NumPages)
  \/ /\ call.op = "fifo" /\ InTurns(call.index)
     /\ stat.lastposition % NumPages = (call.index + 1) % NumPages

LoadInv ==
  /\ IInv
  /\ ClosedIsNew
  /\ loads \subseteq InUse \X InUse
  /\ call.op = "fifo" => strategy = "RS_FIFO"
  /\ strategy = "RS_FIFO" /\ mgmtData /\ ~skipped => LoadsInOrder

LEMMA InitLoads == OrderInit => LoadInv
<1> SUFFICES ASSUME OrderInit PROVE LoadInv
  OBVIOUS
<1>1. InUse = {} /\ loads = {} /\ ~mgmtData
  BY DEF OrderInit, Init, InUse
<1>2. IInv
  BY InitInv DEF OrderInit
<1> QED
  BY <1>1, <1>2 DEF OrderInit, Init, NoCall, LoadInv, ClosedIsNew

\* The loads stay pairs of frames in use.
LEMMA LoadsAreUsed ==
  ASSUME IInv, loads \subseteq InUse \X InUse, ClosedIsNew, OrderNext
  PROVE  loads' \subseteq (InUse \X InUse)'
<1>1. CASE ~mgmtData'
  BY <1>1 DEF OrderNext
<1>2. ASSUME NEW c \in Clients, NEW i \in Frames, Placing(c, i), mgmtData'
      PROVE  loads' \subseteq (InUse \X InUse)'
  <2>1. InUse' = InUse \cup {i} /\ loads' = Renew(loads, {i})
    BY <1>2, TouchedOne DEF Placing, InUse, OrderNext
  <2> QED
    BY <2>1 DEF Renew
<1>3. ASSUME NEW c \in Clients, NEW i \in Frames, Hitting(c, i), mgmtData'
      PROVE  loads' \subseteq (InUse \X InUse)'
  <2>1. InUse' = InUse /\ loads' = loads
    BY <1>3, TouchedOne, RenewNone DEF Hitting, InUse, OrderNext
  <2> QED
    BY <2>1
<1>4. CASE NoPins /\ mgmtData' /\ UNCHANGED pagenum
  <2>1. InUse' = InUse /\ loads' = loads
    BY <1>4, TouchedNone, RenewNone DEF InUse, OrderNext
  <2> QED
    BY <2>1
<1>5. CASE NoPins /\ mgmtData' /\ ~mgmtData
  BY <1>5, TouchedNone, RenewNone DEF OrderNext, ClosedIsNew
<1> QED
  BY <1>1, <1>2, <1>3, <1>4, <1>5, StepKinds DEF OrderNext

\* A frame becomes the newest when it is the one whose turn it is.
LEMMA TurnPasses ==
  ASSUME NEW q \in Frames, NEW r \in Frames, r = IF q + 1 = NumPages THEN 0 ELSE q + 1
  PROVE  /\ Turn(r, q) = NumPages - 1
         /\ \A i \in Frames \ {q} :
              Turn(r, i) = Turn(q, i) - 1 /\ Turn(q, i) \in 1..(NumPages - 1)
BY Constants DEF Turn, Frames

LEMMA LoadInTurn ==
  ASSUME NEW q \in Frames, InTurns(q), loads \subseteq InUse \X InUse,
         loads' = Renew(loads, {q}), InUse' = Frames
  PROVE  InTurns((q + 1) % NumPages)'
<1> DEFINE r == IF q + 1 = NumPages THEN 0 ELSE q + 1
<1>1. (q + 1) % NumPages = r /\ r \in Frames
  <2>1. NumPages \in Nat \ {0} /\ q \in 0..(NumPages - 1)
    BY Constants DEF Frames
  <2>2. (q + 1) % NumPages = r
    BY <2>1, InTurn
  <2> QED
    BY <2>1, <2>2 DEF Frames
<1>2. /\ Turn(r, q) = NumPages - 1
      /\ \A i \in Frames \ {q} :
           Turn(r, i) = Turn(q, i) - 1 /\ Turn(q, i) \in 1..(NumPages - 1)
  BY <1>1, TurnPasses
<1>3. ASSUME NEW i \in Frames, NEW j \in Frames
      PROVE  <<i, j>> \in loads' <=> Turn(r, i) < Turn(r, j)
  <2>1. <<i, j>> \in loads' <=>
          \/ i # q /\ j # q /\ <<i, j>> \in loads
          \/ i # q /\ j = q
    BY RenewIs DEF InTurns
  <2>2. <<i, j>> \in loads <=> Turn(q, i) < Turn(q, j)
    BY DEF InTurns
  <2> HIDE DEF r
  <2>3. CASE i = q
    <3>1. CASE j = q
      BY <1>2, <2>1, <2>3, <3>1, Constants
    <3>2. CASE j # q
      BY <1>2, <2>1, <2>3, <3>2, Constants
    <3> QED
      BY <3>1, <3>2
  <2>4. CASE i # q /\ j = q
    BY <1>2, <2>1, <2>4, Constants
  <2>5. CASE i # q /\ j # q
    BY <1>2, <2>1, <2>2, <2>5, Constants
  <2> QED
    BY <2>3, <2>4, <2>5
<1> HIDE DEF r
<1>4. \A i, j \in Frames : <<i, j>> \in loads' <=> Turn(r, i) < Turn(r, j)
  BY <1>3
<1>5. \A i, j \in Frames : Turn((q + 1) % NumPages, i)' < Turn((q + 1) % NumPages, j)'
                             <=> Turn(r, i) < Turn(r, j)
  BY <1>1 DEF Turn
<1> QED
  BY <1>4, <1>5 DEF InTurns, Turn

\* An empty frame is filled.
LEMMA LoadFills ==
  ASSUME NEW n \in Frames, FillingUp(n), loads \subseteq InUse \X InUse,
         NEW c \in Clients, Placing(c, n), OrderNext, mgmtData',
         stat'.lastposition = n + 1, call'.op # "fifo"
  PROVE  LoadsInOrder'
<1>1. loads' = Renew(loads, {n}) /\ InUse' = InUse \cup {n}
  BY TouchedOne DEF OrderNext, Placing, InUse
<1>2. \A i \in Frames : pagenum'[i] # NoPage <=> i < n + 1
  <2>1. /\ \A i \in Frames : pagenum[i] # NoPage <=> i < n
        /\ pagenum'[n] # NoPage
        /\ \A i \in Frames \ {n} : pagenum'[i] = pagenum[i]
    BY DEF FillingUp, Placing
  <2>2. n \in Int /\ \A i \in Frames : i \in Int
    BY Constants
  <2> QED
    BY <2>1, <2>2
<1>3. ASSUME NEW i \in InUse', NEW j \in InUse'
      PROVE  <<i, j>> \in loads' <=> i < j
  <2>1. i \in Frames /\ j \in Frames /\ i < n + 1 /\ j < n + 1
    BY <1>2 DEF InUse
  <2>2. <<i, j>> \in loads' <=>
          \/ i # n /\ j # n /\ <<i, j>> \in loads
          \/ i # n /\ j = n /\ i \in InUse
    BY <1>1, <2>1, RenewIs
  <2>3. (i # n => i \in InUse) /\ (j # n => j \in InUse)
    BY <1>1
  <2>4. i \in InUse /\ j \in InUse => (<<i, j>> \in loads <=> i < j)
    BY DEF FillingUp
  <2> QED
    BY <2>1, <2>2, <2>3, <2>4, Constants
<1>4. CASE n + 1 \in Frames
  BY <1>2, <1>3, <1>4 DEF LoadsInOrder, FillingUp
<1>5. CASE n + 1 \notin Frames
  <2>1. n + 1 = NumPages /\ NumPages = NumPages * 1 + 0 /\ 0 \in 0..(NumPages - 1)
    BY <1>5, Constants DEF Frames
  <2>2. stat'.lastposition % NumPages = 0
    BY <2>1, Constants, Remainder
  <2>3. InUse' = Frames
    BY <1>2, <2>1, Constants DEF InUse, Frames
  <2>4. \A i \in Frames : Turn(0, i) = i
    BY Constants DEF Turn, Frames
  <2>5. InTurns(stat.lastposition % NumPages)'
    BY <1>3, <2>2, <2>3, <2>4 DEF InTurns, Turn
  <2> QED
    BY <2>5 DEF LoadsInOrder
<1> QED
  BY <1>4, <1>5

\* A step that loads nothing and does not begin or go on with a loop of fifo.
LEMMA LoadsStay ==
  ASSUME LoadsInOrder, loads' = loads, UNCHANGED pagenum,
         stat'.lastposition = stat.lastposition,
         call.op # "fifo", call'.op # "fifo"
  PROVE  LoadsInOrder'
BY DEF LoadsInOrder, FillingUp, InTurns, InUse, Turn

LEMMA HitLoadsNone ==
  ASSUME IInv, OrderNext, mgmtData', NEW c \in Clients, NEW p \in Pages, PinHit(c, p)
  PROVE  loads' = loads
BY HitHits, TouchedOne, RenewNone DEF IInv, Hitting, OrderNext

LEMMA PlacedIsLoaded ==
  ASSUME OrderNext, mgmtData', NEW c \in Clients, NEW i \in Frames, Placing(c, i)
  PROVE  loads' = Renew(loads, {i}) /\ InUse' = InUse \cup {i}
BY TouchedOne DEF OrderNext, Placing, InUse

\* What is counted as a load.
LEMMA CountLoads ==
  ASSUME TypeOK, NEW h \in Int, NEW r \in Int, NEW w \in Int, NEW l \in Int, Count(h, r, w, l)
  PROVE  stat'.lastposition = stat.lastposition + l /\ stat.lastposition \in Nat
BY DEF Count, TypeOK, Stats

LEMMA LoadsInOrderStep ==
  ASSUME LoadInv, OrderNext, mgmtData', strategy' = "RS_FIFO", ~skipped'
  PROVE  LoadsInOrder'
<1>1. /\ TypeOK /\ CallShape /\ ClosedIsNew
      /\ loads \subseteq InUse \X InUse
      /\ Next /\ ~skipped
      /\ call.op = "fifo" => fixedcount[call.index] = 0
  BY DEF LoadInv, IInv, OrderNext
<1>2. mgmtData /\ strategy = "RS_FIFO" => LoadsInOrder
  BY <1>1 DEF LoadInv
<1>3. ASSUME NEW n \in {0, NumPages}, NEW s \in Strategies, initBufferPool(n, s)
      PROVE  LoadsInOrder'
  <2>1. /\ ~mgmtData /\ call.op = "none" /\ UNCHANGED call /\ EmptyPool
        /\ stat' = [hitcount |-> 0, readcount |-> 0, writecount |-> 0, lastposition |-> 0]
    BY <1>3, Zenon DEF initBufferPool, Quiet
  <2>2. InUse' = {} /\ 0 \in Frames /\ \A i \in Frames : ~(i < 0)
    BY <2>1, Constants DEF EmptyPool, InUse, Frames
  <2>3. FillingUp(0)'
    BY <2>1, <2>2 DEF FillingUp, EmptyPool
  <2> QED
    BY <2>1, <2>2, <2>3 DEF LoadsInOrder
<1>4. ASSUME NEW c \in Clients, NEW p \in Pages, PinEmpty(c, p)
      PROVE  LoadsInOrder'
  <2>1. PICK i \in Frames : FoundAt(p, i) /\ pagenum[i] = NoPage /\ Placing(c, i)
    BY <1>1, <1>4, EmptyPlaces
  <2>2. LoadsInOrder /\ call.op = "none" /\ UNCHANGED call
    BY <1>2, <1>4 DEF PinEmpty, MayPin, Ready, Quiet
  <2>3. ~InTurns(stat.lastposition % NumPages)
    BY <2>1 DEF InTurns, InUse
  <2>4. PICK n \in Frames : FillingUp(n)
    BY <2>2, <2>3 DEF LoadsInOrder
  <2>5. i = n
    <3>1. ~(i < n) /\ pagenum[n] = NoPage /\ (n < i => pagenum[n] # NoPage)
      BY <2>1, <2>4, Constants DEF FillingUp, FoundAt
    <3> QED
      BY <3>1, Constants
  <2>6. stat'.lastposition = n + 1
    <3>1. Count(0, 1, 0, 1)
      BY <1>4 DEF PinEmpty
    <3> QED
      BY <1>1, <2>4, <3>1, CountLoads DEF FillingUp
  <2> QED
    BY <1>1, <2>1, <2>2, <2>4, <2>5, <2>6, LoadFills
<1>5. ASSUME NEW c \in Clients, NEW p \in Pages, PinHit(c, p)
      PROVE  LoadsInOrder'
  <2>1. loads' = loads
    BY <1>5, HitLoadsNone DEF LoadInv
  <2>2. PICK i \in Frames : Count(1, 0, Writes(i), 0)
    BY <1>5 DEF PinHit
  <2>3. stat'.lastposition = stat.lastposition
    <3>1. Writes(i) \in Int
      BY DEF Writes
    <3> QED
      BY <1>1, <2>2, <3>1, CountLoads
  <2>4. /\ mgmtData /\ strategy = "RS_FIFO" /\ UNCHANGED <<pagenum, call>>
        /\ call.op = "none"
    BY <1>5 DEF PinHit, MayPin, Ready, Quiet
  <2> QED
    BY <1>2, <2>1, <2>3, <2>4, LoadsStay
<1>6. ASSUME NEW c \in Clients, NEW p \in Pages, PinMissFifo(c, p)
      PROVE  LoadsInOrder'
  <2>1. /\ mgmtData /\ call.op = "none" /\ UNCHANGED <<pagenum, handle>>
        /\ \A i \in Frames : pagenum[i] # NoPage
        /\ call'.op = "fifo" /\ call'.index = stat.lastposition % NumPages
        /\ Count(0, 1, 0, 1)
    BY <1>6 DEF PinMissFifo, Miss, MayPin, Ready, Quiet, frames
  <2>2. loads' = loads /\ InUse' = InUse
    BY <2>1, TouchedNone, RenewNone DEF NoPins, OrderNext, InUse
  <2>3. \A n \in Frames : ~FillingUp(n)
    BY <2>1, Constants DEF FillingUp
  <2>4. InTurns(stat.lastposition % NumPages)
    BY <1>2, <1>6, <2>1, <2>3 DEF LoadsInOrder, PinMissFifo
  <2>5. InTurns(call.index)'
    BY <2>1, <2>2, <2>4 DEF InTurns, Turn
  <2>6. stat'.lastposition % NumPages = (call'.index + 1) % NumPages
    <3> DEFINE x == stat.lastposition
    <3>1. x \in Nat /\ stat'.lastposition = x + 1
      BY <1>1, <2>1, CountLoads
    <3> HIDE DEF x
    <3>2. (x + 1) % NumPages = ((x % NumPages) + 1) % NumPages
      BY <3>1, NextPosition, Constants
    <3> QED
      BY <2>1, <3>1, <3>2 DEF x
  <2> QED
    BY <2>1, <2>5, <2>6 DEF LoadsInOrder
<1>7. CASE FifoEvict
  <2>1. /\ call.op = "fifo" /\ call'.op = "none" /\ UNCHANGED strategy /\ mgmtData
        /\ Count(0, 0, Writes(call.index), 0)
    BY <1>1, <1>7 DEF FifoEvict, NoCall, CallShape
  <2>2. /\ call.client \in Clients /\ call.index \in Frames
        /\ Placing(call.client, call.index)
    BY <1>1, <1>7, <2>1, FifoPlaces DEF LoadInv, CallShape
  <2>3. /\ InTurns(call.index)
        /\ stat.lastposition % NumPages = (call.index + 1) % NumPages
    BY <1>2, <2>1 DEF LoadsInOrder
  <2>4. loads' = Renew(loads, {call.index}) /\ InUse' = Frames
    BY <2>2, <2>3, PlacedIsLoaded DEF InTurns
  <2>9. PICK q \in Frames : q = call.index
    BY <2>2
  <2>5. InTurns((q + 1) % NumPages)'
    BY <1>1, <2>3, <2>4, <2>9, LoadInTurn
  <2>6. stat'.lastposition = stat.lastposition
    <3>1. Writes(call.index) \in Int
      BY DEF Writes
    <3> QED
      BY <1>1, <2>1, <3>1, CountLoads
  <2>7. stat'.lastposition % NumPages = (q + 1) % NumPages
    BY <2>3, <2>6, <2>9
  <2>8. InTurns(stat.lastposition % NumPages)'
    BY <2>5, <2>7 DEF InTurns, Turn
  <2> QED
    BY <2>1, <2>8 DEF LoadsInOrder
<1>8. ~FifoSkip
  BY <1>1 DEF FifoSkip
<1>9. ~(\E c \in Clients, p \in Pages : PinMissLru(c, p) \/ PinMissOther(c, p))
  BY DEF PinMissLru, PinMissOther
<1>10. ASSUME NoPins, mgmtData, UNCHANGED <<pagenum, strategy>>,
              stat'.lastposition = stat.lastposition,
              call.op # "fifo", call'.op # "fifo"
       PROVE  LoadsInOrder'
  BY <1>2, <1>10, LoadsStay, TouchedNone, RenewNone DEF OrderNext
<1>11. ASSUME NEW c \in Clients, NEW data \in Data, WritePage(c, data)
       PROVE  LoadsInOrder'
  BY <1>1, <1>10, <1>11
     DEF WritePage, Ready, Quiet, NoPins, TypeOK, PageHandle
<1>12. ASSUME NEW c \in Clients, markDirty(c) \/ unpinPage(c) PROVE LoadsInOrder'
  BY <1>1, <1>10, <1>12
     DEF markDirty, unpinPage, Ready, Quiet, NoPins, TypeOK, PageHandle
<1>13. ASSUME UNCHANGED handle, mgmtData, UNCHANGED <<pagenum, strategy>>,
              UNCHANGED stat \/ Count(0, 0, 1, 0),
              call.op # "fifo", call'.op # "fifo"
       PROVE  LoadsInOrder'
  <2>1. stat'.lastposition = stat.lastposition
    BY <1>1, <1>13, CountLoads
  <2>2. NoPins
    BY <1>13 DEF NoPins
  <2> QED
    BY <1>10, <1>13, <2>1, <2>2
<1>14. ASSUME NEW c \in Clients, forcePage(c) PROVE LoadsInOrder'
  BY <1>13, <1>14 DEF forcePage, Ready, Quiet
<1>15. CASE forceFlushPool \/ shutdownBufferPool
  BY <1>13, <1>15
     DEF forceFlushPool, shutdownBufferPool, StartLoop, Ready, Quiet, NoCall, frames
<1>16. CASE FlushFrame
  <2>1. mgmtData /\ call'.op = call.op
    BY <1>1, <1>16 DEF FlushFrame, Flushing, CallShape, TypeOK, Call
  <2> QED
    BY <1>13, <1>16, <2>1 DEF FlushFrame, Flushing
<1>17. CASE FlushDone
  BY <1>1, <1>13, <1>17 DEF FlushDone, NoCall, frames, CallShape
<1>18. ~ShutdownDone /\ ~Crash /\ \A op : ~NotInitialized(op)
  BY DEF ShutdownDone, Crash, NotInitialized
<1> QED
  BY <1>1, <1>3, <1>4, <1>5, <1>6, <1>7, <1>8, <1>9, <1>11, <1>12, <1>14, <1>15,
     <1>16, <1>17, <1>18
     DEF Next, Continue

LEMMA FifoStrategy ==
  ASSUME TypeOK, call.op = "fifo" => strategy = "RS_FIFO", Next
  PROVE  call'.op = "fifo" => strategy' = "RS_FIFO"
<1>1. CASE UNCHANGED <<call, strategy>>
  BY <1>1
<1>2. CASE call' = NoCall
  BY <1>2 DEF NoCall
<1>3. ASSUME NEW n \in {0, NumPages}, NEW s \in Strategies, initBufferPool(n, s)
      PROVE  call'.op # "fifo"
  BY <1>3 DEF initBufferPool, Quiet
<1>4. ASSUME NEW c \in Clients, NEW p \in Pages, PinMissFifo(c, p)
      PROVE  strategy' = "RS_FIFO"
  BY <1>4 DEF PinMissFifo
<1>5. CASE FifoSkip
  BY <1>5 DEF FifoSkip, TypeOK, Call
<1>6. CASE forceFlushPool \/ shutdownBufferPool
  BY <1>6 DEF forceFlushPool, shutdownBufferPool, StartLoop, NoCall
<1>7. CASE FlushFrame
  BY <1>7 DEF FlushFrame, Flushing, TypeOK, Call
<1> QED
  BY <1>1, <1>2, <1>3, <1>4, <1>5, <1>6, <1>7
     DEF Next, Continue, PinEmpty, PinHit, PinMissLru, PinMissOther, WritePage,
         markDirty, unpinPage, forcePage, FifoEvict, FlushDone, ShutdownDone,
         NotInitialized, Crash

LEMMA LoadInvStep ==
  ASSUME LoadInv, Roomy, [OrderNext]_orderVars
  PROVE  LoadInv'
<1>1. CASE UNCHANGED orderVars
  <2>1. IInv'
    BY <1>1, InvStep DEF LoadInv, orderVars
  <2>2. /\ ClosedIsNew' /\ (loads \subseteq InUse \X InUse)'
        /\ LoadsInOrder => LoadsInOrder'
        /\ UNCHANGED <<strategy, mgmtData, skipped, call>>
    BY <1>1 DEF orderVars, vars, frames, LoadInv, ClosedIsNew, LoadsInOrder,
                FillingUp, InTurns, Turn, InUse
  <2> QED
    BY <2>1, <2>2 DEF LoadInv
<1>2. CASE OrderNext
  <2>1. IInv'
    BY <1>2, InvStep DEF LoadInv, OrderNext
  <2>2. ClosedIsNew'
    BY <1>2, ClosedStep DEF LoadInv
  <2>3. loads' \subseteq (InUse \X InUse)'
    BY <1>2, LoadsAreUsed DEF LoadInv
  <2>4. call'.op = "fifo" => strategy' = "RS_FIFO"
    BY <1>2, FifoStrategy DEF LoadInv, IInv, OrderNext
  <2> QED
    BY <1>2, <2>1, <2>2, <2>3, <2>4, LoadsInOrderStep DEF LoadInv
<1> QED
  BY <1>1, <1>2

(***************************************************************************)
(* fifo evicts the frame that was loaded before all others, until it has   *)
(* passed over a pinned one (FifoEvictsOldest): for any number of frames   *)
(* its one counter stands for the order of the loads.                      *)
(***************************************************************************)
THEOREM FifoIsOldest ==
  ASSUME Roomy
  PROVE  OrderSpec => FifoEvictsOldest
<1> DEFINE A == FifoEvict /\ ~skipped => FirstOf(loads, Frames, call.index)
<1>1. OrderInit => LoadInv
  BY InitLoads
<1>2. LoadInv /\ [OrderNext]_orderVars => LoadInv'
  BY LoadInvStep
<1>3. LoadInv /\ [OrderNext]_orderVars => [A]_orderVars
  <2> SUFFICES ASSUME LoadInv, OrderNext, FifoEvict, ~skipped
               PROVE  FirstOf(loads, Frames, call.index)
    OBVIOUS
  <2>1. call.op = "fifo" /\ mgmtData /\ call.index \in Frames
    BY DEF FifoEvict, LoadInv, IInv, CallShape
  <2>2. strategy = "RS_FIFO"
    BY <2>1 DEF LoadInv
  <2>3. InTurns(call.index)
    BY <2>1, <2>2 DEF LoadInv, LoadsInOrder
  <2>4. \A j \in Frames \ {call.index} : Turn(call.index, call.index) < Turn(call.index, j)
    BY <2>1, Constants DEF Turn, Frames
  <2> QED
    BY <2>1, <2>3, <2>4 DEF InTurns, FirstOf
<1> HIDE DEF A
<1>4. OrderSpec => [][A]_orderVars
  BY <1>1, <1>2, <1>3, PTL DEF OrderSpec
<1> QED
  BY <1>4 DEF FifoEvictsOldest, A
=============================================================================
