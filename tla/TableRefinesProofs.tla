------------------------- MODULE TableRefinesProofs -------------------------
(***************************************************************************)
(* Proof that the calls of TableOnPool, step by step, implement RecordMgr. *)
(***************************************************************************)
EXTENDS TableOnPoolProofs, WellFoundedInduction

-----------------------------------------------------------------------------
(***************************************************************************)
(* The pool of RecordMgr as it is seen in the frames: those that hold a    *)
(* page are the first ones.                                                *)
(***************************************************************************)
LoadedIn(pages) == Cardinality({i \in Frames : pages[i] # NoPage})

View(pages, data, position) ==
  [frames |-> [i \in 1..LoadedIn(pages) |-> [page |-> pages[i - 1],
                                             data |-> data[i - 1]]],
   position |-> position]

Filled(pages) ==
  /\ LoadedIn(pages) \in 0..NumPages
  /\ \A i \in Frames : pages[i] # NoPage <=> i < LoadedIn(pages)

\* Page p of the file f, in memory that was fresh.
FromFile(f, p) == ReadBlock(f, Len(f), p, Junk)

\* A frame i is given the page or the data d.
Put(f, i, d) == [f EXCEPT ![i] = d]

\* The position of fifo after a page was loaded.
Moved(q) == (q + 1) % NumPages

\* What pinPage shows of page p in front of the file f.
ShownIn(f, b, p) ==
  IF Table!Holds(b, p) THEN b.frames[Table!Slot(b, p)].data
  ELSE FromFile(f, p)

LEMMA FrameIs == \A i \in Frames : i \in Nat /\ i < NumPages
BY Constants DEF Frames

LEMMA LoadedIs ==
  ASSUME NEW pages, NEW n \in 0..NumPages,
         \A i \in Frames : pages[i] # NoPage <=> i < n
  PROVE  LoadedIn(pages) = n /\ Filled(pages)
<1>1. {i \in Frames : pages[i] # NoPage} = 0..(n - 1)
  BY Constants DEF Frames
<1>2. Cardinality(0..(n - 1)) = n
  BY Constants, FS_Interval
<1> QED
  BY <1>1, <1>2 DEF LoadedIn, Filled

LEMMA ViewFrames ==
  ASSUME NEW pages, NEW data, NEW q
  PROVE  /\ View(pages, data, q).position = q
         /\ View(pages, data, q).frames =
              [i \in 1..LoadedIn(pages) |-> [page |-> pages[i - 1], data |-> data[i - 1]]]
BY DEF View

LEMMA ViewIs ==
  ASSUME NEW pages, NEW data, NEW q, Filled(pages)
  PROVE  /\ View(pages, data, q).position = q
         /\ Len(View(pages, data, q).frames) = LoadedIn(pages)
         /\ DOMAIN View(pages, data, q).frames = 1..LoadedIn(pages)
         /\ \A i \in 1..LoadedIn(pages) :
              /\ i - 1 \in Frames
              /\ View(pages, data, q).frames[i].page = pages[i - 1]
              /\ View(pages, data, q).frames[i].data = data[i - 1]
<1> DEFINE n == LoadedIn(pages)
           fs == [i \in 1..n |-> [page |-> pages[i - 1], data |-> data[i - 1]]]
<1>1. n \in Nat /\ n <= NumPages
  BY Constants DEF Filled
<1>2. View(pages, data, q).frames = fs /\ View(pages, data, q).position = q
  BY ViewFrames
<1>3. \A i \in 1..n : i - 1 \in Frames
  BY <1>1, Constants DEF Frames
<1>4. Len(fs) = n /\ DOMAIN fs = 1..n
  BY <1>1
<1>5. \A i \in 1..n : fs[i].page = pages[i - 1] /\ fs[i].data = data[i - 1]
  OBVIOUS
<1> HIDE DEF fs
<1> QED
  BY <1>2, <1>3, <1>4, <1>5

LEMMA ViewHolds ==
  ASSUME NEW pages, NEW data, NEW q, Filled(pages), NEW p, p # NoPage
  PROVE  Table!Holds(View(pages, data, q), p) <=> \E i \in Frames : pages[i] = p
<1> DEFINE b == View(pages, data, q)
<1>1. /\ DOMAIN b.frames = 1..LoadedIn(pages)
      /\ \A i \in 1..LoadedIn(pages) : i - 1 \in Frames /\ b.frames[i].page = pages[i - 1]
  BY ViewIs
<1>2. ASSUME NEW i \in Frames, pages[i] = p
      PROVE  i + 1 \in 1..LoadedIn(pages) /\ (i + 1) - 1 = i
  BY <1>2, Constants DEF Filled, Frames
<1> HIDE DEF b
<1> QED
  BY <1>1, <1>2 DEF Table!Holds, b

(***************************************************************************)
(* What RecordMgr's Using makes of the pool is what the branches of        *)
(* pinPage make of the frames, whatever is then put into the page.         *)
(***************************************************************************)
LEMMA ViewHit ==
  ASSUME NEW pages, NEW data \in [Frames -> Content], NEW q, Filled(pages),
         NEW p, p # NoPage, NEW i \in Frames, pages[i] = p,
         \A j \in Frames : pages[j] = p => j = i, NEW f
  PROVE  LET b == View(pages, data, q) IN
         /\ ShownIn(f, b, p) = data[i]
         /\ \A d : View(pages, Put(data, i, d), q) = Table!Using(b, p, d)
<1> DEFINE b == View(pages, data, q)
           n == LoadedIn(pages)
<1>1. /\ b.position = q /\ n \in Nat /\ n <= NumPages
      /\ Len(b.frames) = n /\ DOMAIN b.frames = 1..n
      /\ \A j \in 1..n : /\ j - 1 \in Frames
                         /\ b.frames[j].page = pages[j - 1]
                         /\ b.frames[j].data = data[j - 1]
  BY ViewIs, Constants DEF Filled
<1>2. i \in Int /\ i + 1 \in 1..n /\ (i + 1) - 1 = i
  BY Constants DEF Filled, Frames
<1> HIDE DEF b, n
<1>3. Table!Holds(b, p)
  BY ViewHolds DEF b
<1>7. \A j \in 1..n : j - 1 = i <=> j = i + 1
  <2> SUFFICES ASSUME NEW j \in 1..n PROVE j - 1 = i <=> j = i + 1
    OBVIOUS
  <2>1. j \in Int /\ i \in Int
    BY <1>2
  <2> QED
    BY <2>1
<1>4. Table!Slot(b, p) = i + 1
  <2>1. Table!Slot(b, p) = CHOOSE j \in DOMAIN b.frames : b.frames[j].page = p
    BY <1>3 DEF Table!Slot
  <2>2. \A j \in DOMAIN b.frames : b.frames[j].page = p <=> j = i + 1
    BY <1>1, <1>7, Zenon
  <2>3. i + 1 \in DOMAIN b.frames
    BY <1>1, <1>2
  <2> QED
    BY <2>1, <2>2, <2>3
<1>5. ShownIn(f, b, p) = data[i]
  BY <1>1, <1>2, <1>3, <1>4 DEF ShownIn
<1>6. ASSUME NEW d
      PROVE  View(pages, [data EXCEPT ![i] = d], q) = Table!Using(b, p, d)
  <2>1. Table!Using(b, p, d) =
          [frames |-> [b.frames EXCEPT ![i + 1] = [page |-> p, data |-> d]],
           position |-> q]
    <3>1. ~(i + 1 > n)
      BY <1>1, <1>2
    <3> QED
      BY <1>1, <1>3, <1>4, <3>1 DEF Table!Using
  <2>2. View(pages, [data EXCEPT ![i] = d], q) =
          [frames |-> [j \in 1..n |-> [page |-> pages[j - 1],
                                       data |-> [data EXCEPT ![i] = d][j - 1]]],
           position |-> q]
    BY DEF View, n
  <2>3. [b.frames EXCEPT ![i + 1] = [page |-> p, data |-> d]] =
        [j \in 1..n |-> [page |-> pages[j - 1], data |-> [data EXCEPT ![i] = d][j - 1]]]
    <3>1. ASSUME NEW j \in 1..n
          PROVE  (IF j = i + 1 THEN [page |-> p, data |-> d] ELSE b.frames[j]) =
                 [page |-> pages[j - 1], data |-> [data EXCEPT ![i] = d][j - 1]]
      <4>1. j - 1 \in Frames /\ (j = i + 1 <=> j - 1 = i)
        BY <1>1, <1>7, Zenon
      <4>2. [data EXCEPT ![i] = d][j - 1] = IF j - 1 = i THEN d ELSE data[j - 1]
        BY <4>1
      <4>3. b.frames[j] = [page |-> pages[j - 1], data |-> data[j - 1]]
        <5>1. b.frames = [k \in 1..n |-> [page |-> pages[k - 1], data |-> data[k - 1]]]
          BY ViewFrames DEF b, n
        <5> QED
          BY <5>1
      <4> QED
        BY <1>2, <4>1, <4>2, <4>3
    <3>2. [b.frames EXCEPT ![i + 1] = [page |-> p, data |-> d]] =
          [j \in 1..n |-> IF j = i + 1 THEN [page |-> p, data |-> d] ELSE b.frames[j]]
      BY <1>1
    <3> QED
      BY <3>1, <3>2
  <2> QED
    BY <2>1, <2>2, <2>3
<1> QED
  BY <1>5, <1>6 DEF b, Put

LEMMA ViewMisses ==
  ASSUME NEW pages, NEW data, NEW q, Filled(pages), NEW p, p # NoPage,
         \A j \in Frames : pages[j] # p
  PROVE  /\ ~Table!Holds(View(pages, data, q), p)
         /\ \A f : ShownIn(f, View(pages, data, q), p) = FromFile(f, p)
<1>1. ~Table!Holds(View(pages, data, q), p)
  BY ViewHolds
<1> QED
  BY <1>1 DEF ShownIn

LEMMA ViewEmpty ==
  ASSUME NEW pages \in [Frames -> Pages \cup {NoPage}],
         NEW data \in [Frames -> Content], NEW q, Filled(pages),
         NEW p \in Pages, NEW i \in Frames, pages[i] = NoPage,
         \A j \in Frames : pages[j] # p, \A j \in Frames : j < i => pages[j] # NoPage
  PROVE  /\ Filled(Put(pages, i, p))
         /\ \A d : View(Put(pages, i, p), Put(data, i, d), Moved(q))
                     = Table!Using(View(pages, data, q), p, d)
<1> DEFINE b == View(pages, data, q)
           n == LoadedIn(pages)
           new == [pages EXCEPT ![i] = p]
<1>1. /\ n \in Nat /\ n <= NumPages /\ NumPages \in Nat
      /\ \A j \in Frames : pages[j] # NoPage <=> j < n
  BY Constants DEF Filled
<1>2. i = n /\ i \in Nat /\ i < NumPages
  <2>1. i \in Nat /\ i < NumPages /\ ~(i < n)
    BY <1>1, Constants DEF Frames
  <2>2. n < NumPages => n \in Frames
    BY <1>1 DEF Frames
  <2>3. ~(n < i)
    BY <1>1, <2>1, <2>2
  <2> QED
    BY <1>1, <2>1, <2>3
<1>3. p # NoPage
  BY Constants
<1>4. \A j \in Frames : new[j] # NoPage <=> j < n + 1
  <2> SUFFICES ASSUME NEW j \in Frames PROVE new[j] # NoPage <=> j < n + 1
    OBVIOUS
  <2>1. j \in Int
    BY Constants
  <2>2. new[j] = IF j = i THEN p ELSE pages[j]
    OBVIOUS
  <2> HIDE DEF new
  <2> QED
    BY <1>1, <1>2, <1>3, <2>1, <2>2
<1>5. LoadedIn(new) = n + 1 /\ Filled(new)
  <2>1. n + 1 \in 0..NumPages
    BY <1>1, <1>2
  <2> HIDE DEF n, new
  <2> QED
    BY <1>4, <2>1, LoadedIs
<1>6. /\ b.position = q /\ Len(b.frames) = n /\ DOMAIN b.frames = 1..n
      /\ b.frames = [j \in 1..n |-> [page |-> pages[j - 1], data |-> data[j - 1]]]
  BY ViewIs, ViewFrames
<1>7. ~Table!Holds(b, p)
  BY <1>3, ViewMisses
<1> HIDE DEF b, n, new
<1>8. Table!Slot(b, p) = n + 1
  BY <1>1, <1>2, <1>6, <1>7 DEF Table!Slot
<1>9. ASSUME NEW d
      PROVE  View(new, [data EXCEPT ![i] = d], Moved(q)) = Table!Using(b, p, d)
  <2> DEFINE frame == [page |-> p, data |-> d]
             fs == [j \in 1..(n + 1) |-> [page |-> new[j - 1],
                                          data |-> [data EXCEPT ![i] = d][j - 1]]]
  <2>1. Table!Using(b, p, d) =
          [frames |-> Append(b.frames, frame), position |-> Moved(q)]
    <3>1. n + 1 > n
      BY <1>1
    <3> QED
      BY <1>6, <1>7, <1>8, <3>1 DEF Table!Using, Moved
  <2>2. View(new, [data EXCEPT ![i] = d], Moved(q)) =
          [frames |-> fs, position |-> Moved(q)]
    BY <1>5 DEF View
  <2>3. Append(b.frames, frame) =
          [j \in 1..(n + 1) |-> IF j = n + 1 THEN frame ELSE b.frames[j]]
    <3> DEFINE old == [j \in 1..n |-> [page |-> pages[j - 1], data |-> data[j - 1]]]
    <3> DEFINE S == {old[k] : k \in 1..n}
    <3>3. old \in [1..n -> S]
      OBVIOUS
    <3> HIDE DEF old, S
    <3>1. old \in Seq(S) /\ Len(old) = n
      BY <1>1, <3>3
    <3>2. Append(old, frame) = [j \in 1..(n + 1) |-> IF j = n + 1 THEN frame ELSE old[j]]
      BY <1>1, <3>1
    <3> QED
      BY <1>6, <3>2 DEF old
  <2>4. ASSUME NEW j \in 1..(n + 1)
        PROVE  fs[j] = IF j = n + 1 THEN frame ELSE b.frames[j]
    <3>1. j \in Int /\ j - 1 \in Frames /\ (j - 1 = i <=> j = n + 1)
      BY <1>1, <1>2, Constants DEF Frames
    <3>2. fs[j] = [page |-> new[j - 1], data |-> [data EXCEPT ![i] = d][j - 1]]
      OBVIOUS
    <3>3. /\ new[j - 1] = IF j - 1 = i THEN p ELSE pages[j - 1]
          /\ [data EXCEPT ![i] = d][j - 1] = IF j - 1 = i THEN d ELSE data[j - 1]
      BY <3>1 DEF new
    <3>4. j # n + 1 => b.frames[j] = [page |-> pages[j - 1], data |-> data[j - 1]]
      <4>1. j # n + 1 => j \in 1..n
        BY <1>1
      <4> QED
        BY <1>6, <4>1
    <3> HIDE DEF fs
    <3> QED
      BY <3>1, <3>2, <3>3, <3>4
  <2>5. fs = Append(b.frames, frame)
    BY <2>3, <2>4
  <2> QED
    BY <2>1, <2>2, <2>5
<1> QED
  BY <1>5, <1>9 DEF b, new, Put

LEMMA ViewEvict ==
  ASSUME NEW pages \in [Frames -> Pages \cup {NoPage}],
         NEW data \in [Frames -> Content], NEW q \in Nat, Filled(pages),
         NEW p \in Pages, NEW i \in Frames, \A j \in Frames : pages[j] \notin {NoPage, p},
         i = IF q = 0 THEN 1 ELSE q
  PROVE  /\ Filled(Put(pages, i, p))
         /\ \A d : View(Put(pages, i, p), Put(data, i, d), Moved(q))
                     = Table!Using(View(pages, data, q), p, d)
<1> DEFINE b == View(pages, data, q)
           n == LoadedIn(pages)
           new == [pages EXCEPT ![i] = p]
<1>1. /\ n \in Nat /\ n <= NumPages /\ NumPages \in Nat
      /\ \A j \in Frames : pages[j] # NoPage <=> j < n
  BY Constants DEF Filled
<1>2. n = NumPages /\ i \in Nat /\ i + 1 \in 1..n
  <2>1. i \in Nat /\ i < NumPages
    BY FrameIs, Zenon
  <2>2. n < NumPages => n \in Frames
    BY <1>1 DEF Frames
  <2>3. ~(n < NumPages)
    BY <1>1, <2>2
  <2> QED
    BY <1>1, <2>1, <2>3
<1>3. p # NoPage
  BY Constants
<1>4. \A j \in Frames : new[j] # NoPage <=> j < NumPages
  BY <1>1, <1>2, <1>3
<1>5. LoadedIn(new) = n /\ Filled(new)
  <2>1. n \in 0..NumPages
    BY <1>1
  <2> HIDE DEF n, new
  <2> QED
    BY <1>2, <1>4, <2>1, LoadedIs
<1>6. /\ b.position = q /\ Len(b.frames) = n /\ DOMAIN b.frames = 1..n
      /\ b.frames = [j \in 1..n |-> [page |-> pages[j - 1], data |-> data[j - 1]]]
  BY ViewIs, ViewFrames
<1>7. ~Table!Holds(b, p)
  BY <1>3, ViewMisses
<1> HIDE DEF b, n, new
<1>8. Table!Slot(b, p) = i + 1
  <2>1. ~(Len(b.frames) < NumPages)
    BY <1>1, <1>2, <1>6
  <2>2. Table!Slot(b, p) = Table!Victim(b)
    BY <1>7, <2>1 DEF Table!Slot
  <2> QED
    BY <1>2, <1>6, <2>2 DEF Table!Victim
<1>9. ASSUME NEW d
      PROVE  View(new, [data EXCEPT ![i] = d], Moved(q)) = Table!Using(b, p, d)
  <2> DEFINE frame == [page |-> p, data |-> d]
             fs == [j \in 1..n |-> [page |-> new[j - 1],
                                    data |-> [data EXCEPT ![i] = d][j - 1]]]
  <2>1. Table!Using(b, p, d) =
          [frames |-> [b.frames EXCEPT ![i + 1] = frame], position |-> Moved(q)]
    <3>1. ~(i + 1 > n)
      BY <1>1, <1>2
    <3> QED
      BY <1>6, <1>7, <1>8, <3>1 DEF Table!Using, Moved
  <2>2. View(new, [data EXCEPT ![i] = d], Moved(q)) =
          [frames |-> fs, position |-> Moved(q)]
    BY <1>5 DEF View
  <2>3. [b.frames EXCEPT ![i + 1] = frame] =
          [j \in 1..n |-> IF j = i + 1 THEN frame ELSE b.frames[j]]
    BY <1>6
  <2>4. ASSUME NEW j \in 1..n
        PROVE  fs[j] = IF j = i + 1 THEN frame ELSE b.frames[j]
    <3>1. j \in Int /\ j - 1 \in Frames /\ (j - 1 = i <=> j = i + 1)
      <4>1. j \in 1..n /\ i \in Nat /\ n = NumPages /\ n \in Nat
        BY <1>1, <1>2
      <4>2. j \in Int /\ (j - 1 = i <=> j = i + 1)
        BY <4>1
      <4>3. j - 1 \in 0..(NumPages - 1)
        BY <4>1
      <4> QED
        BY <4>2, <4>3 DEF Frames
    <3>2. fs[j] = [page |-> new[j - 1], data |-> [data EXCEPT ![i] = d][j - 1]]
      OBVIOUS
    <3>3. /\ new[j - 1] = IF j - 1 = i THEN p ELSE pages[j - 1]
          /\ [data EXCEPT ![i] = d][j - 1] = IF j - 1 = i THEN d ELSE data[j - 1]
      BY <3>1 DEF new
    <3>4. b.frames[j] = [page |-> pages[j - 1], data |-> data[j - 1]]
      BY <1>6
    <3> HIDE DEF fs
    <3> QED
      BY <3>1, <3>2, <3>3, <3>4
  <2>5. fs = [b.frames EXCEPT ![i + 1] = frame]
    BY <2>3, <2>4
  <2> QED
    BY <2>1, <2>2, <2>5
<1> QED
  BY <1>5, <1>9 DEF b, new, Put

-----------------------------------------------------------------------------
(***************************************************************************)
(* A pass over several pages, one read after the other.                    *)
(***************************************************************************)
Passes(g, f, b, first, end) ==
  g = [p \in (first - 1)..end |->
         IF p < first THEN b ELSE Table!Using(g[p - 1], p, ShownIn(f, g[p - 1], p))]

\* The pools after the first pages of a table have been read.
AllPasses(f, b) ==
  LET after[p \in 0..MaxRecords] ==
        IF p < 1 THEN b
        ELSE Table!Using(after[p - 1], p, ShownIn(f, after[p - 1], p))
  IN  after

\* Induction over the natural numbers with a set in the place of the predicate.
LEMMA SetInduction ==
  ASSUME NEW S, 0 \in S, \A k \in Nat : k \in S => k + 1 \in S
  PROVE  \A k \in Nat : k \in S
<1> DEFINE less == OpToRel(<, Nat)
           T == Nat \ S
<1> SUFFICES ASSUME T # {} PROVE FALSE
  OBVIOUS
<1>1. \A x, y \in Nat : x < y => <<x, y>> \in less
  BY DEF OpToRel
<1>2. IsWellFoundedOn(less, Nat)
  BY NatLessThanWellFounded
<1> HIDE DEF less
<1>3. PICK x \in T : \A y \in T : <<y, x>> \notin less
  BY <1>2, WFMin
<1>4. x \in Nat /\ x # 0 /\ x - 1 \in Nat /\ (x - 1) + 1 = x /\ x - 1 < x
  OBVIOUS
<1>5. x - 1 \notin T
  BY <1>1, <1>3, <1>4
<1> QED
  BY <1>4, <1>5

LEMMA PassesExist ==
  ASSUME NEW f, NEW b, NEW first \in Int
  PROVE  \A k \in Nat : \E g : Passes(g, f, b, first, first - 1 + k)
<1> DEFINE S == {k \in Nat : \E g : Passes(g, f, b, first, first - 1 + k)}
<1>1. 0 \in S
  <2> DEFINE g == [p \in (first - 1)..(first - 1) |-> b]
  <2>1. Passes(g, f, b, first, first - 1 + 0)
    BY DEF Passes
  <2> QED
    BY <2>1
<1>2. ASSUME NEW k \in Nat, k \in S PROVE k + 1 \in S
  <2>1. PICK g : Passes(g, f, b, first, first - 1 + k)
    BY <1>2
  <2> DEFINE next(h, p) == Table!Using(h[p - 1], p, ShownIn(f, h[p - 1], p))
             h == [p \in (first - 1)..(first - 1 + (k + 1)) |->
                     IF p < first THEN b ELSE next(g, p)]
  <2>2. \A p \in (first - 1)..(first - 1 + k) :
          /\ h[p] = IF p < first THEN b ELSE next(g, p)
          /\ g[p] = IF p < first THEN b ELSE next(g, p)
    BY <2>1 DEF Passes
  <2>3. ASSUME NEW p \in (first - 1)..(first - 1 + (k + 1)), ~(p < first)
        PROVE  next(h, p) = next(g, p)
    <3>1. p - 1 \in (first - 1)..(first - 1 + k)
      BY <2>3
    <3> HIDE DEF h
    <3>2. h[p - 1] = g[p - 1]
      BY <2>2, <3>1
    <3> QED
      BY <3>2
  <2>4. h = [p \in (first - 1)..(first - 1 + (k + 1)) |->
               IF p < first THEN b ELSE next(h, p)]
    BY <2>3
  <2>5. Passes(h, f, b, first, first - 1 + (k + 1))
    BY <2>4 DEF Passes
  <2> HIDE DEF h
  <2> QED
    BY <2>5
<1> HIDE DEF S
<1>3. \A k \in Nat : k \in S
  BY <1>1, <1>2, SetInduction
<1> QED
  BY <1>3 DEF S

\* The pools of a pass do not depend on where it ends.
LEMMA PassesAgree ==
  ASSUME NEW f, NEW b, NEW end \in Nat, NEW far \in Nat, end <= far,
         NEW g, Passes(g, f, b, 1, end), NEW h, Passes(h, f, b, 1, far)
  PROVE  g[end] = h[end]
<1> DEFINE S == {k \in Nat : k <= end => g[k] = h[k]}
<1>1. /\ \A p \in 0..end :
           g[p] = IF p < 1 THEN b ELSE Table!Using(g[p - 1], p, ShownIn(f, g[p - 1], p))
      /\ \A p \in 0..far :
           h[p] = IF p < 1 THEN b ELSE Table!Using(h[p - 1], p, ShownIn(f, h[p - 1], p))
  BY DEF Passes
<1>2. 0 \in S
  BY <1>1
<1>3. ASSUME NEW k \in Nat, k \in S PROVE k + 1 \in S
  <2> SUFFICES ASSUME k + 1 <= end PROVE g[k + 1] = h[k + 1]
    OBVIOUS
  <2>1. /\ k + 1 \in 0..end /\ k + 1 \in 0..far /\ ~(k + 1 < 1)
        /\ (k + 1) - 1 = k /\ k <= end
    OBVIOUS
  <2>2. g[k] = h[k]
    BY <1>3, <2>1
  <2>3. g[k + 1] = Table!Using(g[k], k + 1, ShownIn(f, g[k], k + 1))
    BY <1>1, <2>1
  <2>4. h[k + 1] = Table!Using(h[k], k + 1, ShownIn(f, h[k], k + 1))
    BY <1>1, <2>1
  <2> QED
    BY <2>2, <2>3, <2>4
<1> HIDE DEF S
<1>4. \A k \in Nat : k \in S
  BY <1>2, <1>3, SetInduction
<1> QED
  BY <1>4 DEF S

LEMMA AllPassesAre ==
  ASSUME NEW f, NEW b
  PROVE  /\ Passes(AllPasses(f, b), f, b, 1, MaxRecords)
         /\ AllPasses(f, b)[0] = b
         /\ \A p \in 1..MaxRecords :
              AllPasses(f, b)[p] =
                Table!Using(AllPasses(f, b)[p - 1], p, ShownIn(f, AllPasses(f, b)[p - 1], p))
<1>1. \E g : Passes(g, f, b, 1, MaxRecords)
  <2>1. MaxRecords \in Nat /\ 1 - 1 + MaxRecords = MaxRecords
    BY TableConstants
  <2>2. \E g : Passes(g, f, b, 1, 1 - 1 + MaxRecords)
    BY <2>1, PassesExist
  <2> QED
    BY <2>1, <2>2
<1>2. Passes(AllPasses(f, b), f, b, 1, MaxRecords)
  <2> DEFINE Passing(g) ==
               g = [p \in 0..MaxRecords |->
                      IF p < 1 THEN b ELSE Table!Using(g[p - 1], p, ShownIn(f, g[p - 1], p))]
  <2>1. 1 - 1 = 0
    OBVIOUS
  <2>2. \A g : Passes(g, f, b, 1, MaxRecords) <=> Passing(g)
    BY <2>1 DEF Passes
  <2>3. AllPasses(f, b) = CHOOSE g : Passing(g)
    BY DEF AllPasses
  <2> HIDE DEF Passing
  <2> QED
    BY <1>1, <2>2, <2>3
<1> DEFINE g == AllPasses(f, b)
<1> HIDE DEF g
<1>3. \A p \in 0..MaxRecords :
        g[p] = IF p < 1 THEN b ELSE Table!Using(g[p - 1], p, ShownIn(f, g[p - 1], p))
  <2>1. g = [p \in 0..MaxRecords |->
               IF p < 1 THEN b ELSE Table!Using(g[p - 1], p, ShownIn(f, g[p - 1], p))]
    <3>1. 1 - 1 = 0
      OBVIOUS
    <3>2. g = [p \in (1 - 1)..MaxRecords |->
                 IF p < 1 THEN b ELSE Table!Using(g[p - 1], p, ShownIn(f, g[p - 1], p))]
      BY <1>2, Zenon DEF Passes, g
    <3> QED
      BY <3>1, <3>2
  <2> QED
    BY <2>1
<1>4. 0 \in 0..MaxRecords
  BY TableConstants
<1>5. g[0] = b
  BY <1>3, <1>4
<1>6. \A p \in 1..MaxRecords : g[p] = Table!Using(g[p - 1], p, ShownIn(f, g[p - 1], p))
  <2> SUFFICES ASSUME NEW p \in 1..MaxRecords
               PROVE  g[p] = Table!Using(g[p - 1], p, ShownIn(f, g[p - 1], p))
    OBVIOUS
  <2>1. p \in 0..MaxRecords /\ ~(p < 1)
    OBVIOUS
  <2> QED
    BY <1>3, <2>1
<1> QED
  BY <1>2, <1>5, <1>6 DEF g

-----------------------------------------------------------------------------
\* RecordMgr's operators in terms of the file that is seen.
LEMMA ShownIs ==
  ASSUME NEW b, NEW p
  PROVE  Table!Shown(TableName, b, p) = ShownIn(Seen.file, b, p)
BY DEF Table!Shown, ShownIn, FromFile, Table!ReadBlock, ReadBlock, Table!ReadRC, ReadRC

LEMMA ReadingAllIs ==
  ASSUME NEW b, NEW first \in Int, NEW end \in Int, first <= end
  PROVE  \E g : /\ Passes(g, Seen.file, b, first, end)
                /\ Table!ReadingAll(TableName, b, first, end) = g[end]
<1> DEFINE InTable(h) ==
             h = [p \in (first - 1)..end |->
                    IF p < first THEN b
                    ELSE Table!Using(h[p - 1], p, Table!Shown(TableName, h[p - 1], p))]
           g == CHOOSE h : InTable(h)
<1>1. Table!ReadingAll(TableName, b, first, end) = g[end]
  BY DEF Table!ReadingAll
<1>2. \A h : InTable(h) <=> Passes(h, Seen.file, b, first, end)
  BY ShownIs DEF Passes
<1>3. \E h : Passes(h, Seen.file, b, first, end)
  <2>1. end - (first - 1) \in Nat /\ end = first - 1 + (end - (first - 1))
    OBVIOUS
  <2> QED
    BY <2>1, PassesExist
<1>4. InTable(g)
  <2> HIDE DEF InTable
  <2> QED
    BY <1>2, <1>3
<1> HIDE DEF g, InTable
<1> QED
  BY <1>1, <1>2, <1>4

LEMMA ReadingOne ==
  ASSUME NEW b, NEW p \in Int
  PROVE  Table!ReadingAll(TableName, b, p, p) = Table!Using(b, p, ShownIn(Seen.file, b, p))
<1>1. PICK g : /\ Passes(g, Seen.file, b, p, p)
               /\ Table!ReadingAll(TableName, b, p, p) = g[p]
  BY ReadingAllIs
<1>2. /\ \A q \in (p - 1)..p :
           g[q] = IF q < p THEN b
                  ELSE Table!Using(g[q - 1], q, ShownIn(Seen.file, g[q - 1], q))
      /\ p \in (p - 1)..p /\ p - 1 \in (p - 1)..p /\ p - 1 < p /\ ~(p < p)
  BY <1>1 DEF Passes
<1>3. g[p - 1] = b /\ g[p] = Table!Using(g[p - 1], p, ShownIn(Seen.file, g[p - 1], p))
  BY <1>2
<1> QED
  BY <1>1, <1>3

LEMMA ReadingMany ==
  ASSUME NEW b, NEW end \in 1..MaxRecords
  PROVE  Table!ReadingAll(TableName, b, 1, end) = AllPasses(Seen.file, b)[end]
<1>1. PICK g : /\ Passes(g, Seen.file, b, 1, end)
               /\ Table!ReadingAll(TableName, b, 1, end) = g[end]
  BY ReadingAllIs
<1>2. end \in Nat /\ MaxRecords \in Nat /\ end <= MaxRecords
  BY TableConstants
<1>3. Passes(AllPasses(Seen.file, b), Seen.file, b, 1, MaxRecords)
  BY AllPassesAre
<1> QED
  BY <1>1, <1>2, <1>3, PassesAgree

-----------------------------------------------------------------------------
(***************************************************************************)
(* The inductive invariant.  The steps that are left of a call name its    *)
(* pages; while a record's page is used, the pool is the one RecordMgr has *)
(* after the call, up to what is still to be written into the page.        *)
(***************************************************************************)

\* The pages a call may use.
PagesOf(n) ==
  CASE n = "insertRecord" -> {total_pages + 1}
    [] n = "updateRecord" -> 0..total_pages
    [] n = "getNumTuples" -> 1..(total_pages - 1)
    [] n \in Begins -> {0}
    [] OTHER -> 1..total_pages

\* Which page each step works on.
Paged(steps, n) ==
  \A k \in 1..Len(steps) :
    /\ steps[k].step # "count" => steps[k].page \in PagesOf(n)
    /\ StepAt(steps, k + 1) \notin {"end", "count"} =>
         steps[k + 1].page = IF n = "getNumTuples" /\ steps[k].step = "unpin"
                             THEN steps[k].page + 1 ELSE steps[k].page
    /\ n = "getNumTuples" /\ StepAt(steps, k + 1) = "end" =>
         steps[k].page = total_pages - 1
    /\ steps[k].step = "force" =>
         (StepAt(steps, k + 1) = "count" <=> n = "insertRecord")
    /\ n = "getRecord" /\ steps[k].step = "unpin" => StepAt(steps, k + 1) = "end"

\* A file that begins with a schema has a page for every record counted.
FileSoFar ==
  /\ disk # <<>> /\ disk[1] = Schema => total_pages < Len(disk)
  /\ mgmtData /\ (op.name = "openTable" => At = "end") => total_pages < Len(disk)
  /\ At = "count" => total_pages + 1 < Len(disk)

FramesSoFar ==
  /\ Filled(pagenum)
  /\ mgmtData /\ <<op.name, At>> # <<"openTable", "pin">> => pagenum[0] = 0

\* No call changes the file before it takes effect.
BeforeSoFar ==
  /\ before = NULL <=> At \in {"end", "count"}
  /\ before # NULL =>
       before = [file |-> disk, open |-> op.name # "openTable", pool |-> before.pool]

OpenSoFar ==
  op.name = "openTable" /\ todo # <<>> =>
    /\ before.pool = Table!NoPool
    /\ disk # <<>>
    /\ At = "pin" => /\ call.op = "none" /\ stat.lastposition = 0
                     /\ \A i \in Frames : pagenum[i] = NoPage
    /\ At = "schema" => /\ handle[TablePage].data = 0 /\ pagedata[0] = disk[1]
                        /\ Now.pool = Table!Using(Table!NoPool, 0, disk[1])

\* The pool as the call finds it when it pins page p.
Base(p) ==
  IF op.name = "getNumTuples" THEN AllPasses(disk, before.pool)[p - 1] ELSE before.pool

Position == IF mgmtData THEN stat.lastposition % NumPages ELSE 0

\* Page p is to be pinned in the pool b, or fifo looks for its frame.
Pinning(p, b) ==
  IF call.op = "none" THEN Now.pool = b
  ELSE /\ View(pagenum, pagedata, b.position) = b
       /\ b.position \in 0..(NumPages - 1)
       /\ Position = Moved(b.position)
       /\ call.data = ShownIn(disk, b, p)
       /\ call.index = b.position \/ (call.index = 1 /\ b.position = 0)

\* What may be in the page that is pinned.
Filling(p, b) ==
  IF op.name \in Readers \/ At = "fill" THEN {ShownIn(disk, b, p)}
  ELSE IF op.name = "deleteRecord" THEN Table!Marked(ShownIn(disk, b, p))
  ELSE {op.data}

\* Page p was pinned in the pool b, and is in the frame the handle leads to.
Using(p, b) ==
  LET i == handle[RecordPage].data IN
  /\ i \in Frames /\ pagenum[i] = p /\ handle[RecordPage].pageNum = p
  /\ pagedata[i] \in Filling(p, b)
  /\ \A d \in Content :
       View(pagenum, Put(pagedata, i, d), Position) = Table!Using(b, p, d)
  /\ op.name = "getRecord" /\ At = "unpin" => op.data \in Table!Parses(ShownIn(disk, b, p))

RecordSoFar ==
  op.name \in Writers \cup Readers /\ before # NULL =>
    LET p == Head(todo).page IN
    IF At = "pin" THEN Pinning(p, Base(p)) ELSE Using(p, Base(p))

RefinesInv ==
  /\ FileSoFar
  /\ FramesSoFar
  /\ BeforeSoFar
  /\ Paged(todo, op.name)
  /\ OpenSoFar
  /\ RecordSoFar

-----------------------------------------------------------------------------
LEMMA NowIs ==
  /\ Now.file = disk /\ Now.open = mgmtData
  /\ Now.pool = View(pagenum, pagedata, Position)
BY DEF Now, View, Loaded, LoadedIn, Position

LEMMA NowAfter ==
  /\ Now.file' = disk' /\ Now.open' = mgmtData'
  /\ Now.pool' = View(pagenum', pagedata', Position')
BY DEF Now, View, Loaded, LoadedIn, Position

LEMMA EmptyIs ==
  ASSUME NEW steps \in Seq(CallSteps)
  PROVE  /\ steps = <<>> <=> Len(steps) = 0
         /\ steps = <<>> <=> StepAt(steps, 1) = "end"
<1>1. Len(<<>>) = 0
  OBVIOUS
<1>2. Len(steps) = 0 => steps = <<>>
  OBVIOUS
<1>3. steps = <<>> <=> Len(steps) = 0
  BY <1>1, <1>2
<1>4. Len(steps) = 0 => StepAt(steps, 1) = "end"
  BY DEF StepAt
<1> QED
  BY <1>3, <1>4, EndIsEnd

LEMMA TailPaged ==
  ASSUME NEW n, NEW steps \in Seq(CallSteps), Paged(steps, n), steps # <<>>
  PROVE  /\ Paged(Tail(steps), n)
         /\ steps[1].step # "count" => Head(steps).page \in PagesOf(n)
         /\ StepAt(steps, 2) = StepAt(Tail(steps), 1)
         /\ StepAt(Tail(steps), 1) \notin {"end", "count"} =>
              Head(Tail(steps)).page = IF n = "getNumTuples" /\ steps[1].step = "unpin"
                                       THEN Head(steps).page + 1 ELSE Head(steps).page
         /\ n = "getNumTuples" /\ StepAt(Tail(steps), 1) = "end" =>
              Head(steps).page = total_pages - 1
         /\ steps[1].step = "force" =>
              (StepAt(Tail(steps), 1) = "count" <=> n = "insertRecord")
         /\ n = "getRecord" /\ steps[1].step = "unpin" => StepAt(Tail(steps), 1) = "end"
<1> DEFINE rest == Tail(steps)
<1>1. /\ Len(steps) \in Nat \ {0} /\ rest \in Seq(CallSteps)
      /\ Len(rest) = Len(steps) - 1
      /\ \A k \in 1..Len(rest) : rest[k] = steps[k + 1]
      /\ Head(steps) = steps[1]
      /\ rest # <<>> => Head(rest) = rest[1] /\ 1 \in 1..Len(rest)
  OBVIOUS
<1> HIDE DEF rest
<1>2. \A k \in 1..(Len(steps) + 1) : StepAt(rest, k) = StepAt(steps, k + 1)
  BY <1>1 DEF StepAt
<1>3. /\ 1 \in 1..Len(steps) /\ 1 \in 1..(Len(steps) + 1) /\ 1 + 1 = 2
      /\ \A k \in 1..Len(rest) : k + 1 \in 1..Len(steps) /\ k + 1 \in 1..(Len(steps) + 1)
  BY <1>1
<1>4. Paged(rest, n)
  <2> SUFFICES ASSUME NEW k \in 1..Len(rest)
               PROVE  /\ rest[k].step # "count" => rest[k].page \in PagesOf(n)
                      /\ StepAt(rest, k + 1) \notin {"end", "count"} =>
                           rest[k + 1].page = IF n = "getNumTuples" /\ rest[k].step = "unpin"
                                              THEN rest[k].page + 1 ELSE rest[k].page
                      /\ n = "getNumTuples" /\ StepAt(rest, k + 1) = "end" =>
                           rest[k].page = total_pages - 1
                      /\ rest[k].step = "force" =>
                           (StepAt(rest, k + 1) = "count" <=> n = "insertRecord")
                      /\ n = "getRecord" /\ rest[k].step = "unpin" =>
                           StepAt(rest, k + 1) = "end"
    BY DEF Paged
  <2>1. rest[k] = steps[k + 1] /\ k + 1 \in 1..Len(steps)
    BY <1>1, <1>3
  <2>2. StepAt(rest, k + 1) = StepAt(steps, k + 1 + 1)
    BY <1>2, <1>3
  <2>3. StepAt(rest, k + 1) \notin {"end", "count"} => rest[k + 1] = steps[k + 1 + 1]
    <3>1. StepAt(rest, k + 1) # "end" => k + 1 <= Len(rest)
      BY DEF StepAt
    <3>2. k + 1 <= Len(rest) => k + 1 \in 1..Len(rest)
      BY <1>1
    <3> QED
      BY <1>1, <3>1, <3>2
  <2> QED
    BY <2>1, <2>2, <2>3 DEF Paged
<1>5. StepAt(rest, 1) # "end" => rest # <<>>
  BY <1>1 DEF StepAt
<1>6. StepAt(rest, 1) = StepAt(steps, 2)
  BY <1>2, <1>3
<1>7. rest # <<>> => Head(rest) = steps[2]
  BY <1>1, <1>3
<1> QED
  BY <1>1, <1>3, <1>4, <1>5, <1>6, <1>7 DEF rest, Paged

\* The last step of a call that changes what is seen.
LEMMA CountIsLast ==
  ASSUME TableInv
  PROVE  (Len(todo) = 1 /\ Head(todo).step = "count") <=> At = "count"
<1>1. todo \in Seq(CallSteps) /\ Ordered(todo, op.name)
  BY DEF TableInv, CallInProgress, Ordered
<1>2. CASE todo = <<>>
  BY <1>2 DEF At, StepAt
<1>3. CASE todo # <<>>
  <2>1. At = Head(todo).step
    BY <1>1, <1>3, HeadIs
  <2>2. At = "count" => Len(todo) = 1
    <3> SUFFICES ASSUME At = "count" PROVE Len(todo) = 1
      OBVIOUS
    <3>1. StepAt(Tail(todo), 1) = "end" /\ Tail(todo) \in Seq(CallSteps)
      <4>1. /\ Ordered(Tail(todo), op.name)
            /\ <<At, StepAt(Tail(todo), 1)>> \in Order(op.name)
        BY <1>1, <1>3, TailOrdered DEF At
      <4> QED
        BY <4>1, OrderKnown DEF Ordered
    <3>2. Tail(todo) = <<>>
      BY <3>1, EndIsEnd
    <3>3. Len(Tail(todo)) = Len(todo) - 1 /\ Len(todo) \in Nat
      BY <1>1, <1>3
    <3>4. Len(Tail(todo)) = 0
      BY <3>1, <3>2, EmptyIs
    <3> QED
      BY <3>3, <3>4
  <2> QED
    BY <2>1, <2>2
<1> QED
  BY <1>2, <1>3

(***************************************************************************)
(* A step of a call leaves the call where it is while a loop of the pool   *)
(* runs; it takes effect, or what is seen stays as it is.                  *)
(***************************************************************************)
LEMMA Takes ==
  ASSUME TableInv, RefinesInv, todo # <<>>, At # "count", Advance,
         total_pages' = total_pages, op'.name = op.name
  PROVE  /\ before # NULL
         /\ call'.op # "none" => /\ todo' = todo /\ At' = At
                                 /\ before' = before /\ returned' = returned
         /\ call'.op = "none" =>
              /\ todo' = Tail(todo) /\ At' = StepAt(Tail(todo), 1)
              /\ <<At, At'>> \in Order(op.name)
              /\ At = "force" => (At' = "count" <=> op.name = "insertRecord")
              /\ op.name = "getNumTuples" /\ At' = "end" => Head(todo).page = total_pages - 1
              /\ op.name = "getRecord" /\ At = "unpin" => At' = "end"
              /\ At' \in {"end", "count"} => before' = NULL /\ returned' = Result
              /\ At' \notin {"end", "count"} =>
                   /\ before' = before /\ returned' = returned
                   /\ Head(todo').page = IF op.name = "getNumTuples" /\ At = "unpin"
                                         THEN Head(todo).page + 1 ELSE Head(todo).page
         /\ Head(todo).page \in PagesOf(op.name)
         /\ Paged(todo, op.name)'
<1>1. todo \in Seq(CallSteps) /\ Ordered(todo, op.name) /\ Paged(todo, op.name)
  BY DEF TableInv, RefinesInv, CallInProgress, Ordered
<1>2. At = Head(todo).step /\ At # "end" /\ At = todo[1].step /\ At \in StepNames
  <2>1. At = Head(todo).step /\ At \in StepNames /\ Head(todo) = todo[1]
    BY <1>1, HeadIs
  <2> QED
    BY <2>1 DEF StepNames
<1>3. before # NULL
  BY <1>2 DEF RefinesInv, BeforeSoFar
<1>4. Head(todo).page \in PagesOf(op.name) /\ Paged(Tail(todo), op.name)
  BY <1>1, <1>2, TailPaged
<1>5. \A steps, n : Paged(steps, n) => Paged(steps, n)'
  BY DEF Paged, PagesOf, StepAt
<1>6. CASE call'.op # "none"
  <2>1. todo' = todo /\ before' = before /\ returned' = returned
    BY <1>6 DEF Advance
  <2> QED
    BY <1>1, <1>3, <1>4, <1>5, <1>6, <2>1 DEF At, StepAt
<1>7. CASE call'.op = "none"
  <2>1. todo' = Tail(todo)
    BY <1>7 DEF Advance
  <2>2. At' = StepAt(Tail(todo), 1)
    BY <2>1 DEF At, StepAt
  <2>3. <<At, At'>> \in Order(op.name) /\ Tail(todo) \in Seq(CallSteps)
    BY <1>1, <2>2, TailOrdered DEF At, Ordered
  <2>4. At' = "end" <=> Len(todo) = 1
    <3>1. Len(Tail(todo)) = Len(todo) - 1 /\ Len(todo) \in Nat
      BY <1>1
    <3>2. At' = "end" <=> Len(Tail(todo)) = 0
      BY <2>2, <2>3, EmptyIs
    <3> QED
      BY <3>1, <3>2
  <2>5. At' \in {"end", "count"} <=> Len(todo) = 1 \/ Head(todo).step = "force"
    <3>1. At = "force" => At' \in {"end", "count"}
      BY <2>3, OrderKnown
    <3>2. At' = "count" => At = "force"
      BY <1>2, <2>3, OrderKnown DEF StepNames
    <3> QED
      BY <1>2, <2>4, <3>1, <3>2
  <2>6. IF At' \in {"end", "count"} THEN before' = NULL /\ returned' = Result
        ELSE before' = before /\ returned' = returned
    BY <1>3, <1>7, <2>5 DEF Advance
  <2>7. /\ At' \notin {"end", "count"} =>
             Head(todo').page = IF op.name = "getNumTuples" /\ At = "unpin"
                                THEN Head(todo).page + 1 ELSE Head(todo).page
        /\ op.name = "getNumTuples" /\ At' = "end" => Head(todo).page = total_pages - 1
        /\ At = "force" => (At' = "count" <=> op.name = "insertRecord")
        /\ op.name = "getRecord" /\ At = "unpin" => At' = "end"
    BY <1>1, <1>2, <2>1, <2>2, TailPaged
  <2> QED
    BY <1>3, <1>4, <1>5, <1>7, <2>1, <2>2, <2>3, <2>6, <2>7
<1> QED
  BY <1>6, <1>7

\* The variables of RecordMgr.
Counted ==
  IF Len(todo) = 1 /\ Head(todo).step = "count" THEN total_pages + 1 ELSE total_pages

LEMMA CountedIs ==
  /\ TableInv => Counted = IF At = "count" THEN total_pages + 1 ELSE total_pages
  /\ TableInv' => Counted' = IF At' = "count" THEN total_pages' + 1 ELSE total_pages'
<1>1. TableInv => Counted = IF At = "count" THEN total_pages + 1 ELSE total_pages
  BY CountIsLast DEF Counted
<1>2. (TableInv => Counted = IF At = "count" THEN total_pages + 1 ELSE total_pages)'
  BY <1>1, PTL
<1> QED
  BY <1>1, <1>2

LEMMA StaysBefore ==
  ASSUME RefinesInv, before # NULL, before' = before, At' \notin {"end", "count"},
         disk' = disk, op'.name = op.name
  PROVE  BeforeSoFar'
BY DEF RefinesInv, BeforeSoFar

\* A step that does not take effect yet changes nothing that is seen.
LEMMA Stutters ==
  ASSUME TableInv, RefinesInv, TableInv', todo # <<>>, At # "count", Advance,
         total_pages' = total_pages, op'.name = op.name, disk' = disk,
         call'.op # "none" \/ At' \notin {"end", "count"}
  PROVE  BeforeSoFar' /\ UNCHANGED Table!vars
<1>1. /\ before # NULL /\ before' = before /\ returned' = returned
      /\ At' \notin {"end", "count"}
  <2>1. At \notin {"end", "count"}
    BY HeadIs DEF TableInv, CallInProgress, StepNames
  <2> QED
    BY <2>1, Takes
<1>2. BeforeSoFar'
  BY <1>1, StaysBefore
<1>3. Seen' = Seen
  BY <1>1 DEF Seen
<1>4. Counted = total_pages /\ Counted' = total_pages'
  BY <1>1, CountedIs
<1> QED
  BY <1>1, <1>2, <1>3, <1>4 DEF Table!vars, Counted

-----------------------------------------------------------------------------
(***************************************************************************)
(* The calls of RecordMgr in terms of what is seen.                        *)
(***************************************************************************)
LEMMA OneValue ==
  ASSUME NEW a, NEW e
  PROVE  /\ [x \in {a} |-> e][a] = e
         /\ \A f : [[x \in {a} |-> e] EXCEPT ![a] = f] = [x \in {a} |-> f]
OBVIOUS

LEMMA NoScans ==
  /\ <<>> = [s \in {} |-> NULL]
  /\ \A p : Table!Disturbed(p) = <<>>
<1>1. [s \in {} |-> NULL] = <<>>
  OBVIOUS
<1>2. \A p : Table!Disturbed(p) = <<>>
  BY DEF Table!Disturbed
<1> QED
  BY <1>1, <1>2

LEMMA NameIs ==
  /\ TableName # NULL
  /\ Table!IsOpen(Relation) <=> Seen.open
BY OneValue, TableNullAssumption DEF Table!IsOpen

LEMMA OpenIs ==
  ASSUME Seen.open = FALSE, Seen.file # <<>>, Seen.file[1] = Schema,
         Seen'.file = Seen.file, Seen'.open = TRUE,
         Seen'.pool = Table!Using(Table!NoPool, 0, Schema), Counted' = Counted,
         returned' = [op |-> "openTable", rc |-> "RC_OK", out |-> NULL]
  PROVE  Table!openTable(Relation, TableName)
BY OneValue, NameIs DEF Table!openTable, Table!Exists, Table!Return, Counted

LEMMA CloseIs ==
  ASSUME Seen.open, Seen'.file = Seen.file, Seen'.open = FALSE,
         Seen'.pool = Table!NoPool, Counted' = Counted,
         returned' = [op |-> "closeTable", rc |-> "RC_OK", out |-> NULL]
  PROVE  Table!closeTable(Relation)
BY OneValue, NameIs DEF Table!closeTable, Table!Return, Counted

\* What a call reads, and what it writes, with the table open.
LEMMA ReadIs ==
  ASSUME Seen.open, NEW first, NEW end, Seen'.pool = Table!ReadingAll(TableName, Seen.pool, first, end)
  PROVE  Table!Read(Relation, first, end)
BY OneValue DEF Table!Read

LEMMA WriteIs ==
  ASSUME Seen.open, NEW p, NEW d, Seen'.pool = Table!Using(Seen.pool, p, d),
         Seen'.file = WriteBlock(Seen.file, Len(Seen.file), p, d)
  PROVE  Table!Write(Relation, p, d)
BY OneValue, NoScans
   DEF Table!Write, Table!WriteBlock, WriteBlock, Table!WriteRC, WriteRC, Table!Store, Store

\* RecordMgr's instance has a Cardinality of its own.
LEMMA SameCardinality == \A S : Table!Cardinality(S) = Cardinality(S)
BY DEF Table!Cardinality, Cardinality

LEMMA NumTuplesIs ==
  ASSUME Seen.open, Seen'.open, Seen'.file = Seen.file, Counted' = Counted, Counted \in Nat, Counted > 1,
         Seen'.pool = Table!ReadingAll(TableName, Seen.pool, 1, Counted - 1),
         returned' = [op |-> "getNumTuples", rc |-> "RC_OK", out |-> Counted - 1]
  PROVE  Table!getNumTuples(Relation)
<1>1. Cardinality(1..(Counted - 1)) = Counted - 1
  <2> DEFINE n == Counted - 1
  <2>1. n \in Int /\ 1 \in Int /\ ~(1 > n) /\ n - 1 + 1 = n
    OBVIOUS
  <2> HIDE DEF n
  <2>2. Cardinality(1..n) = n
    BY <2>1, FS_Interval
  <2> QED
    BY <2>2 DEF n
<1>2. Table!Read(Relation, 1, Counted - 1)
  BY ReadIs
<1>3. Table!Return("getNumTuples", "RC_OK", Table!Cardinality(1..(Counted - 1)))
  BY <1>1, SameCardinality DEF Table!Return
<1>4. /\ Table!IsOpen(Relation)
      /\ UNCHANGED <<[n \in {TableName} |-> Seen.file], Counted,
                     [r \in {Relation} |-> IF Seen.open THEN TableName ELSE NULL], <<>>>>
  BY NameIs
<1> QED
  BY <1>2, <1>3, <1>4 DEF Table!getNumTuples, Counted

LEMMA GetIs ==
  ASSUME Seen.open, Seen'.open, Seen'.file = Seen.file, Counted' = Counted,
         NEW p, p > 0, p <= Counted, 
         Seen'.pool = Table!ReadingAll(TableName, Seen.pool, p, p),
         NEW v \in Table!Parses(Table!Shown(TableName, Seen.pool, p)),
         returned' = [op |-> "getRecord", rc |-> "RC_OK",
                      out |-> Table!Record(p, v)]
  PROVE  Table!getRecord(Relation, p)
<1>1. Table!InTable(p)
  BY DEF Table!InTable, Counted
<1>2. Table!Read(Relation, p, p)
  BY ReadIs
<1> QED
  BY <1>1, <1>2, NameIs, OneValue DEF Table!getRecord, Table!Return, Counted

LEMMA InsertIs ==
  ASSUME Seen.open, Seen'.open, Counted < MaxRecords, Counted' = Counted + 1, NEW v,
         Seen'.pool = Table!Using(Seen.pool, Counted + 1, v),
         Seen'.file = WriteBlock(Seen.file, Len(Seen.file), Counted + 1, v),
         returned' = [op |-> "insertRecord", rc |-> "RC_OK",
                      out |-> Table!Record(Counted + 1, v)]
  PROVE  Table!insertRecord(Relation, v)
<1>1. Table!Write(Relation, Counted + 1, v)
  BY WriteIs
<1> QED
  BY <1>1, NameIs DEF Table!insertRecord, Table!FreePage, Table!Return, Counted

LEMMA UpdateIs ==
  ASSUME Seen.open, Seen'.open, Counted' = Counted, NEW p, p >= 0, p <= Counted, NEW v,
         Seen'.pool = Table!Using(Seen.pool, p, v),
         Seen'.file = WriteBlock(Seen.file, Len(Seen.file), p, v),
         returned' = [op |-> "updateRecord", rc |-> "RC_OK",
                      out |-> Table!Record(p, v)]
  PROVE  Table!updateRecord(Relation, p, v)
<1>1. Table!Write(Relation, p, v)
  BY WriteIs
<1> QED
  BY <1>1, NameIs DEF Table!updateRecord, Table!Return, Counted

LEMMA DeleteIs ==
  ASSUME Seen.open, Seen'.open, Counted' = Counted, NEW p, p > 0, p <= Counted,
         NEW d \in Table!Marked(Table!Shown(TableName, Seen.pool, p)),
         Seen'.pool = Table!Using(Seen.pool, p, d),
         Seen'.file = WriteBlock(Seen.file, Len(Seen.file), p, d),
         returned' = [op |-> "deleteRecord", rc |-> "RC_OK",
                      out |-> Table!Record(p, NULL)]
  PROVE  Table!deleteRecord(Relation, p)
<1>1. Table!Write(Relation, p, d) /\ Table!InTable(p)
  BY WriteIs DEF Table!InTable, Counted
<1> QED
  BY <1>1, NameIs, OneValue DEF Table!deleteRecord, Table!Return, Counted

LEMMA CreateIs ==
  ASSUME Seen.open = FALSE, Seen'.open = FALSE, Seen'.pool = Seen.pool,
         \/ Seen.file # <<>> /\ Seen'.file = <<Zero>> /\ Counted' = Counted
         \/ Seen.file = <<>> /\ Seen'.file = <<Schema>> /\ Counted' = 0,
         returned' = [op |-> "createTable",
                      rc |-> IF Seen.file # <<>> THEN "RC_TABLE_EXISTS" ELSE "RC_OK",
                      out |-> NULL]
  PROVE  Table!createTable(TableName)
BY OneValue, NoScans, NameIs
   DEF Table!createTable, Table!NotOpen, Table!Exists, Table!Return, Counted

LEMMA DropIs ==
  ASSUME Seen.open = FALSE, Seen'.open = FALSE, Seen'.pool = Seen.pool,
         Seen'.file = <<>>, Counted' = Counted,
         returned' = [op |-> "deleteTable",
                      rc |-> IF Seen.file # <<>> THEN "RC_OK" ELSE "RC_FILE_NOT_DELETED",
                      out |-> NULL]
  PROVE  Table!deleteTable(TableName)
BY OneValue, NoScans, NameIs
   DEF Table!deleteTable, Table!NotOpen, Table!Exists, Table!Return, Counted

LEMMA EndIs ==
  ASSUME Seen'.open = FALSE, Seen'.pool = Table!NoPool, Seen'.file = Seen.file, Counted' = 0,
         returned' = [op |-> "initRecordManager", rc |-> "RC_OK", out |-> NULL]
  PROVE  Table!Crash
BY OneValue, NoScans DEF Table!Crash, Table!Restarted, Table!Return, Counted

\* The step with which a call takes effect.
LEMMA TakesEffect ==
  ASSUME TableInv, RefinesInv, TableInv', todo # <<>>, At # "count", Advance,
         total_pages' = total_pages, op'.name = op.name,
         call'.op = "none", At' \in {"end", "count"}
  PROVE  /\ BeforeSoFar'
         /\ Seen = before /\ Seen' = Now'
         /\ Seen.file = disk /\ Seen.open = (op.name # "openTable")
         /\ Seen'.file = disk' /\ Seen'.open = mgmtData'
         /\ Seen'.pool = View(pagenum', pagedata', Position')
         /\ Counted = total_pages
         /\ Counted' = IF op.name = "insertRecord" THEN total_pages + 1 ELSE total_pages
         /\ returned'.op = op.name /\ returned'.rc = "RC_OK"
         /\ returned' = Result
<1>1. /\ before # NULL /\ before' = NULL /\ returned' = Result
      /\ <<At, At'>> \in Order(op.name)
      /\ At = "force" => (At' = "count" <=> op.name = "insertRecord")
  BY Takes
<1>2. At' = "count" <=> op.name = "insertRecord"
  <2>1. At' = "count" => At = "force"
    <3>1. At \in StepNames
      BY HeadIs DEF TableInv, CallInProgress
    <3> QED
      BY <1>1, <3>1, OrderKnown DEF StepNames
  <2>2. op.name = "insertRecord" => At = "force"
    <3>1. At \in StepNames
      BY HeadIs DEF TableInv, CallInProgress
    <3> QED
      BY <1>1, <3>1, OrderKnown DEF StepNames, Writers, Begins
  <2> QED
    BY <1>1, <2>1, <2>2
<1>3. /\ Counted = total_pages
      /\ Counted' = IF op.name = "insertRecord" THEN total_pages + 1 ELSE total_pages
  BY <1>2, CountedIs
<1>4. last'.rc = "RC_OK"
  BY DEF TableInv, CallsSucceed
<1>5. Seen = before /\ Seen' = Now'
  BY <1>1 DEF Seen
<1>6. before.file = disk /\ before.open = (op.name # "openTable")
  BY <1>1 DEF RefinesInv, BeforeSoFar
<1>7. BeforeSoFar'
  BY <1>1 DEF BeforeSoFar
<1> QED
  BY <1>1, <1>3, <1>4, <1>5, <1>6, <1>7, NowAfter DEF Result

LEMMA EmptyView ==
  ASSUME NEW pages, NEW data, \A i \in Frames : pages[i] = NoPage
  PROVE  Filled(pages) /\ LoadedIn(pages) = 0 /\ View(pages, data, 0) = Table!NoPool
<1>1. LoadedIn(pages) = 0 /\ Filled(pages)
  <2>1. 0 \in 0..NumPages /\ \A i \in Frames : pages[i] # NoPage <=> i < 0
    BY Constants, FrameIs
  <2> QED
    BY <2>1, LoadedIs
<1>2. [i \in 1..0 |-> [page |-> pages[i - 1], data |-> data[i - 1]]] = <<>>
  OBVIOUS
<1> QED
  BY <1>1, <1>2 DEF View, Table!NoPool

LEMMA PositionIs == TableInv => Position \in 0..(NumPages - 1) /\ Position \in Nat
<1> SUFFICES ASSUME TableInv PROVE Position \in 0..(NumPages - 1) /\ Position \in Nat
  OBVIOUS
<1>1. stat.lastposition \in Nat /\ NumPages \in Nat \ {0}
  BY Constants DEF TableInv, IInv, TypeOK, Stats
<1>2. stat.lastposition % NumPages \in 0..(NumPages - 1)
  BY <1>1, NextPosition
<1> QED
  BY <1>1, <1>2 DEF Position

\* What is seen is not NULL.
LEMMA NowTyped ==
  ASSUME TableInv, Filled(pagenum)
  PROVE  Now # NULL
<1> DEFINE fs == View(pagenum, pagedata, Position).frames
           n == LoadedIn(pagenum)
           F == [page: Pages, data: Content]
<1>1. n \in Nat /\ n <= NumPages /\ NumPages \in Nat
  BY Constants DEF Filled
<1>2. fs = [i \in 1..n |-> [page |-> pagenum[i - 1], data |-> pagedata[i - 1]]]
  BY ViewFrames
<1>3. ASSUME NEW i \in 1..n
      PROVE  [page |-> pagenum[i - 1], data |-> pagedata[i - 1]] \in F
  <2>1. i - 1 \in Frames /\ i - 1 < n
    BY <1>1 DEF Frames
  <2>2. pagenum[i - 1] # NoPage
    BY <2>1 DEF Filled
  <2>3. pagenum[i - 1] \in Pages /\ pagedata[i - 1] \in Content
    BY <2>1, <2>2 DEF TableInv, IInv, TypeOK
  <2> QED
    BY <2>3
<1> HIDE DEF fs, n, F
<1>4. fs \in Seq(F)
  <2>1. fs \in [1..n -> F]
    BY <1>2, <1>3
  <2> QED
    BY <1>1, <2>1
<1>5. Now = [file |-> disk, open |-> mgmtData, pool |-> [frames |-> fs, position |-> Position]]
  BY DEF Now, fs, View, Loaded, LoadedIn, Position
<1>6. Now \in [file: Seq(Content), open: BOOLEAN, pool: [frames: Seq(F), position: Nat]]
  BY <1>4, <1>5, PositionIs DEF TableInv, IInv, TypeOK
<1> QED
  BY <1>6, TableNullAssumption DEF F

(***************************************************************************)
(* The beginnings of the calls, which change nothing that is seen.         *)
(***************************************************************************)
LEMMA BeginRefines ==
  ASSUME TableInv, RefinesInv, TableInv',
         NEW n \in Begins \cup Writers \cup Readers,
         NEW c, NEW d, NEW steps \in Seq(CallSteps), Begin(n, c, d, steps), Paged(steps, n),
         StepAt(steps, 1) = IF n = "openTable" THEN "init"
                            ELSE IF n = "closeTable" THEN "unpin" ELSE "pin",
         n = "getNumTuples" => Head(steps).page = 1,
         n = "openTable" => disk # <<>>,
         mgmtData <=> n # "openTable"
  PROVE  RefinesInv' /\ UNCHANGED Table!vars
<1>1. todo = <<>> /\ At = "end"
  BY HeadIs DEF Begin, TableInv, CallInProgress
<1>2. /\ op'.name = n /\ todo' = steps /\ total_pages' = total_pages
      /\ returned' = returned /\ before' = Now
      /\ UNCHANGED <<disk, mgmtData, pagenum, pagedata, stat, handle, call>>
  BY DEF Begin, vars, frames
<1>3. At' = StepAt(steps, 1) /\ At' \notin {"end", "count"}
  BY <1>2 DEF At, StepAt
<1>4. before = NULL
  BY <1>1 DEF RefinesInv, BeforeSoFar
<1>5. Now # NULL
  BY NowTyped DEF RefinesInv, FramesSoFar
<1>6. UNCHANGED Table!vars
  <2>1. Seen' = Seen
    BY <1>2, <1>4, <1>5 DEF Seen
  <2>2. Counted' = Counted
    BY <1>1, <1>2, <1>3, CountedIs
  <2> QED
    BY <1>2, <2>1, <2>2 DEF Table!vars, Counted
<1>7. FileSoFar'
  BY <1>1, <1>2, <1>3 DEF RefinesInv, FileSoFar
<1>8. FramesSoFar'
  BY <1>1, <1>2 DEF RefinesInv, FramesSoFar
<1>9. BeforeSoFar'
  <2>1. before'.file = disk /\ before'.open = mgmtData
    BY <1>2, NowIs
  <2>2. before' = [file |-> disk, open |-> mgmtData, pool |-> before'.pool]
    BY <1>2 DEF Now
  <2>3. mgmtData = (n # "openTable")
    BY DEF TableInv, IInv, TypeOK
  <2> QED
    BY <1>2, <1>3, <1>5, <2>2, <2>3 DEF BeforeSoFar
<1>10. Paged(todo, op.name)'
  <2>1. \A s, m : Paged(s, m) => Paged(s, m)'
    BY <1>2 DEF Paged, PagesOf, StepAt
  <2> QED
    BY <1>2, <2>1
<1>11. OpenSoFar'
  <2> SUFFICES ASSUME n = "openTable" PROVE OpenSoFar'
    BY <1>2 DEF OpenSoFar
  <2>1. \A i \in Frames : pagenum[i] = NoPage
    BY DEF TableInv, DirtySoFar
  <2>2. Now.pool = Table!NoPool
    BY <2>1, NowIs, EmptyView DEF Position
  <2> QED
    BY <1>2, <1>3, <2>2 DEF OpenSoFar
<1>12. RecordSoFar'
  <2> SUFFICES ASSUME n \in Writers \cup Readers PROVE RecordSoFar'
    BY <1>2 DEF RecordSoFar
  <2>1. At' = "pin"
    BY <1>3 DEF Writers, Readers
  <2>2. call'.op = "none"
    BY <1>1, <1>2 DEF TableInv, LoopSoFar
  <2>3. Now'.pool = Now.pool
    BY <1>2, NowIs, NowAfter DEF Position
  <2>4. Base(Head(todo).page)' = Now.pool
    <3>1. CASE n = "getNumTuples"
      <4>1. AllPasses(disk, Now.pool)[0] = Now.pool
        BY AllPassesAre
      <4>2. Head(todo').page - 1 = 0
        BY <1>2, <3>1
      <4>3. Base(Head(todo).page)' = AllPasses(disk, Now.pool)[Head(todo').page - 1]
        BY <1>2, <3>1 DEF Base
      <4> QED
        BY <4>1, <4>2, <4>3
    <3>2. CASE n # "getNumTuples"
      BY <1>2, <3>2 DEF Base
    <3> QED
      BY <3>1, <3>2
  <2> QED
    BY <2>1, <2>2, <2>3, <2>4 DEF RecordSoFar, Pinning
<1> QED
  BY <1>6, <1>7, <1>8, <1>9, <1>10, <1>11, <1>12 DEF RefinesInv

LEMMA PagesAre ==
  /\ PagesOf("insertRecord") = {total_pages + 1}
  /\ PagesOf("updateRecord") = 0..total_pages
  /\ PagesOf("getNumTuples") = 1..(total_pages - 1)
  /\ \A n \in Begins : PagesOf(n) = {0}
  /\ \A n \in {"deleteRecord", "getRecord"} : PagesOf(n) = 1..total_pages
BY DEF PagesOf, Begins

\* The steps the calls begin with, and their pages.
LEMMA PagedSteps ==
  ASSUME NEW n, NEW names \in Seq(StepNames), NEW p \in 0..MaxRecords, p \in PagesOf(n),
         n = "getNumTuples" => FALSE,
         n = "insertRecord" => \A k \in 1..Len(names) : names[k] # "force",
         n = "getRecord" => \A k \in 1..Len(names) : names[k] = "unpin" => k = Len(names),
         \A k \in 1..Len(names) : names[k] # "count"
  PROVE  Paged(Steps(names, p), n)
<1> DEFINE steps == Steps(names, p)
<1>1. /\ steps \in Seq(CallSteps) /\ Len(steps) = Len(names) /\ Len(names) \in Nat
      /\ \A k \in 1..Len(names) : steps[k] = [step |-> names[k], page |-> p]
  <2>1. Len(names) \in Nat
    OBVIOUS
  <2> QED
    BY <2>1, StepsAre, Zenon
<1> HIDE DEF steps
<1>2. ASSUME NEW k \in 1..Len(steps)
      PROVE  /\ steps[k].page = p /\ steps[k].step = names[k]
             /\ StepAt(steps, k + 1) # "end" => steps[k + 1].page = p
             /\ StepAt(steps, k + 1) # "count"
             /\ k = Len(names) => StepAt(steps, k + 1) = "end"
  <2>1. steps[k].page = p /\ steps[k].step = names[k] /\ names[k] \in StepNames
    <3>1. k \in 1..Len(names)
      BY <1>1
    <3>2. steps[k] = [step |-> names[k], page |-> p]
      BY <1>1, <3>1
    <3> QED
      BY <3>1, <3>2
  <2>2. k + 1 <= Len(steps) => k + 1 \in 1..Len(names)
    BY <1>1
  <2>3. k + 1 <= Len(steps) => steps[k + 1] = [step |-> names[k + 1], page |-> p]
                               /\ names[k + 1] # "count"
    BY <1>1, <2>2
  <2>4. StepAt(steps, k + 1) # "end" => k + 1 <= Len(steps)
    BY DEF StepAt
  <2>5. StepAt(steps, k + 1) # "count"
    BY <2>3 DEF StepAt
  <2>6. k = Len(names) => StepAt(steps, k + 1) = "end"
    BY <1>1 DEF StepAt
  <2> QED
    BY <2>1, <2>3, <2>4, <2>5, <2>6
<1>3. Paged(steps, n)
  BY <1>1, <1>2 DEF Paged
<1> QED
  BY <1>3 DEF steps

LEMMA PagedInsert ==
  ASSUME total_pages + 1 \in 0..MaxRecords
  PROVE  Paged(Append(Writing(total_pages + 1), [step |-> "count", page |-> 0]), "insertRecord")
<1> DEFINE p == total_pages + 1
           names == <<"pin", "fill", "mark", "unpin", "force">>
           steps == Writing(p)
           last6 == [step |-> "count", page |-> 0]
           all == Append(steps, last6)
<1>1. names \in Seq(StepNames) /\ Len(names) = 5
  BY DEF StepNames
<1>2. /\ steps \in Seq(CallSteps) /\ Len(steps) = 5
      /\ \A k \in 1..5 : steps[k] = [step |-> names[k], page |-> p]
  <2>1. steps = Steps(names, p)
    BY DEF Writing
  <2> HIDE DEF names, steps
  <2> QED
    BY <1>1, <2>1, StepsAre
<1>3. last6 \in CallSteps
  BY TableConstants DEF CallSteps, StepNames
<1>4. /\ Len(all) = 6
      /\ \A k \in 1..5 : all[k] = steps[k]
      /\ all[6] = last6
  <2> HIDE DEF steps, names, last6
  <2> QED
    BY <1>2, <1>3, AppendSixth
<1>5. /\ names[1] = "pin" /\ names[2] = "fill" /\ names[3] = "mark"
      /\ names[4] = "unpin" /\ names[5] = "force"
  OBVIOUS
<1>6. /\ \A k \in 1..5 : all[k].page = p /\ all[k].step = names[k]
      /\ all[6].step = "count"
  <2> HIDE DEF steps, all, names
  <2> QED
    BY <1>2, <1>4
<1>7. \A k \in 1..6 : k = 6 \/ (k \in 1..5 /\ (k = 5 \/ k + 1 \in 1..5))
  OBVIOUS
<1>8. p \in PagesOf("insertRecord")
  BY PagesAre
<1> HIDE DEF steps, names, all, p
<1>9. ASSUME NEW k \in 1..6
      PROVE  /\ all[k].step # "count" => all[k].page = p
             /\ StepAt(all, k + 1) \notin {"end", "count"} => all[k + 1].page = p /\ all[k].page = p
             /\ all[k].step = "force" => StepAt(all, k + 1) = "count"
  <2>1. CASE k = 6
    BY <1>4, <1>6, <2>1 DEF StepAt
  <2>2. CASE k = 5
    BY <1>4, <1>5, <1>6, <2>2 DEF StepAt
  <2>3. CASE k \in 1..5 /\ k + 1 \in 1..5
    <3>1. k = 1 \/ k = 2 \/ k = 3 \/ k = 4
      BY <2>3
    <3>2. all[k].step # "force" /\ all[k].page = p /\ all[k + 1].page = p
      BY <1>5, <1>6, <2>3, <3>1
    <3> QED
      BY <3>2
  <2> QED
    BY <1>7, <2>1, <2>2, <2>3
<1>10. Paged(all, "insertRecord")
  BY <1>4, <1>8, <1>9 DEF Paged
<1> QED
  BY <1>10 DEF all, steps, p

LEMMA PagedNumTuples ==
  ASSUME total_pages \in Nat, total_pages - 1 \in 1..MaxRecords
  PROVE  /\ Paged(ReadingTo(total_pages - 1), "getNumTuples")
         /\ Head(ReadingTo(total_pages - 1)).page = 1
<1> DEFINE n == total_pages - 1
           size == 3 * n
           at(k) == ((k + 2) % 3) + 1
           page(k) == (k + 2) \div 3
           steps == ReadingTo(n)
<1>1. n \in Nat /\ size \in Nat /\ size >= 3 /\ n <= MaxRecords /\ MaxRecords \in Nat
  BY TableConstants
<1>2. \A k \in 1..size : at(k) \in 1..3 /\ page(k) \in 0..MaxRecords /\ page(k) \in 1..n
  BY <1>1
<1>3. \A k \in 1..size :
        /\ at(k + 1) = IF at(k) = 3 THEN 1 ELSE at(k) + 1
        /\ page(k + 1) = IF at(k) = 3 THEN page(k) + 1 ELSE page(k)
        /\ k = size => at(k) = 3 /\ page(k) = n
  BY <1>1
<1>4. steps = [k \in 1..size |-> Reading(page(k))[at(k)]]
  BY DEF ReadingTo
<1>5. steps \in Seq(CallSteps) /\ Len(steps) = size
  <2>1. Ordered(steps, "getNumTuples")
    BY <1>1, ReadingToOrdered
  <2>2. DOMAIN steps = 1..size /\ steps \in Seq(CallSteps)
    BY <1>4, <2>1 DEF Ordered
  <2> HIDE DEF steps, size
  <2> QED
    BY <1>1, <2>2
<1>6. \A p \in 0..MaxRecords :
        /\ Reading(p)[1] = [step |-> "pin", page |-> p]
        /\ Reading(p)[2] = [step |-> "parse", page |-> p]
        /\ Reading(p)[3] = [step |-> "unpin", page |-> p]
  BY DEF Reading, Steps
<1>7. \A k \in 1..size :
        /\ steps[k].page = page(k)
        /\ steps[k].step = IF at(k) = 1 THEN "pin" ELSE IF at(k) = 2 THEN "parse" ELSE "unpin"
  <2> SUFFICES ASSUME NEW k \in 1..size
               PROVE  /\ steps[k].page = page(k)
                      /\ steps[k].step = IF at(k) = 1 THEN "pin"
                                         ELSE IF at(k) = 2 THEN "parse" ELSE "unpin"
    OBVIOUS
  <2>1. steps[k] = Reading(page(k))[at(k)]
    BY <1>4
  <2>2. at(k) \in 1..3 /\ page(k) \in 0..MaxRecords
    BY <1>2
  <2> HIDE DEF steps, at, page, size
  <2>3. at(k) = 1 \/ at(k) = 2 \/ at(k) = 3
    BY <2>2
  <2>4. /\ Reading(page(k))[1] = [step |-> "pin", page |-> page(k)]
        /\ Reading(page(k))[2] = [step |-> "parse", page |-> page(k)]
        /\ Reading(page(k))[3] = [step |-> "unpin", page |-> page(k)]
    BY <1>6, <2>2
  <2>5. CASE at(k) = 1
    BY <2>1, <2>4, <2>5
  <2>6. CASE at(k) = 2
    BY <2>1, <2>4, <2>6
  <2>7. CASE at(k) = 3
    BY <2>1, <2>4, <2>7
  <2> QED
    BY <2>3, <2>5, <2>6, <2>7
<1> HIDE DEF steps, at, page
<1>8. ASSUME NEW k \in 1..size
      PROVE  /\ steps[k].page \in 1..n /\ steps[k].step # "force"
             /\ StepAt(steps, k + 1) # "end" =>
                  steps[k + 1].page = IF steps[k].step = "unpin"
                                      THEN steps[k].page + 1 ELSE steps[k].page
             /\ StepAt(steps, k + 1) = "end" => steps[k].page = n
  <2>1. steps[k].page \in 1..n /\ steps[k].step # "force"
    BY <1>2, <1>7
  <2>2. k < size => k + 1 \in 1..size /\ StepAt(steps, k + 1) = steps[k + 1].step
    BY <1>1, <1>5 DEF StepAt
  <2>3. k < size => StepAt(steps, k + 1) # "end"
    BY <1>7, <2>2
  <2>4. k = size => StepAt(steps, k + 1) = "end" /\ steps[k].page = n
    BY <1>1, <1>3, <1>5, <1>7 DEF StepAt
  <2>5. k < size \/ k = size
    BY <1>1
  <2>6. k < size => steps[k + 1].page = IF steps[k].step = "unpin"
                                        THEN steps[k].page + 1 ELSE steps[k].page
    BY <1>2, <1>3, <1>7, <2>2
  <2> QED
    BY <2>1, <2>3, <2>4, <2>5, <2>6
<1>9. PagesOf("getNumTuples") = 1..n
  BY PagesAre
<1>10. Paged(steps, "getNumTuples")
  BY <1>5, <1>8, <1>9 DEF Paged
<1>11. Head(steps).page = 1
  <2>1. 1 \in 1..size /\ page(1) = 1
    BY <1>1 DEF page
  <2>2. Head(steps) = steps[1]
    BY <1>1, <1>5
  <2> QED
    BY <1>7, <2>1, <2>2
<1> QED
  BY <1>10, <1>11 DEF steps

LEMMA CallRefines ==
  ASSUME TableInv, RefinesInv, TableInv',
         \/ openTable \/ closeTable \/ getNumTuples
         \/ \E v \in Values : insertRecord(v)
         \/ \E p \in 0..MaxRecords :
              \/ getRecord(p) \/ deleteRecord(p)
              \/ \E v \in Values : updateRecord(p, v)
  PROVE  RefinesInv' /\ UNCHANGED Table!vars
<1>0. total_pages \in Nat /\ total_pages <= MaxRecords /\ MaxRecords \in Nat /\ 0 \in 0..MaxRecords
  BY TableConstants DEF TableInv, CallInProgress
<1> DEFINE opening == <<"init", "pin", "schema">>
           closing == <<"unpin", "shutdown">>
           writing == <<"pin", "fill", "mark", "unpin", "force">>
           reading == <<"pin", "parse", "unpin">>
<1>a. /\ opening \in Seq(StepNames) /\ \A k \in 1..Len(opening) : opening[k] # "count"
      /\ closing \in Seq(StepNames) /\ \A k \in 1..Len(closing) : closing[k] # "count"
      /\ writing \in Seq(StepNames) /\ \A k \in 1..Len(writing) : writing[k] # "count"
      /\ reading \in Seq(StepNames) /\ \A k \in 1..Len(reading) : reading[k] # "count"
      /\ \A k \in 1..Len(reading) : reading[k] = "unpin" => k = Len(reading)
  BY DEF StepNames
<1>1. CASE openTable
  <2>1. 0 \in PagesOf("openTable")
    BY PagesAre DEF Begins
  <2>2. Paged(Steps(opening, 0), "openTable")
    <3> HIDE DEF opening
    <3> QED
      BY <1>0, <1>a, <2>1, PagedSteps
  <2>3. /\ Ordered(Steps(opening, 0), "openTable") /\ StepAt(Steps(opening, 0), 1) = "init"
        /\ Begin("openTable", TablePage, NULL, Steps(opening, 0))
        /\ ~mgmtData /\ disk # <<>>
    BY <1>1, BeginsOrdered DEF openTable
  <2> HIDE DEF opening
  <2> QED
    BY <2>2, <2>3, BeginRefines DEF Begins, Ordered
<1>2. CASE closeTable
  <2>1. 0 \in PagesOf("closeTable")
    BY PagesAre DEF Begins
  <2>2. Paged(Steps(closing, 0), "closeTable")
    <3> HIDE DEF closing
    <3> QED
      BY <1>0, <1>a, <2>1, PagedSteps
  <2>3. /\ Ordered(Steps(closing, 0), "closeTable") /\ StepAt(Steps(closing, 0), 1) = "unpin"
        /\ Begin("closeTable", TablePage, NULL, Steps(closing, 0))
        /\ mgmtData
    BY <1>2, BeginsOrdered DEF closeTable
  <2> HIDE DEF closing
  <2> QED
    BY <2>2, <2>3, BeginRefines DEF Begins, Ordered
<1>3. CASE getNumTuples
  <2>1. total_pages - 1 \in 1..MaxRecords /\ mgmtData
    BY <1>0, <1>3 DEF getNumTuples
  <2>2. Begin("getNumTuples", RecordPage, NULL, ReadingTo(total_pages - 1))
    BY <1>3 DEF getNumTuples
  <2>3. Paged(ReadingTo(total_pages - 1), "getNumTuples") /\ Head(ReadingTo(total_pages - 1)).page = 1
    BY <1>0, <2>1, PagedNumTuples
  <2>4. Ordered(ReadingTo(total_pages - 1), "getNumTuples") /\ StepAt(ReadingTo(total_pages - 1), 1) = "pin"
    BY <2>1, ReadingToOrdered
  <2> QED
    BY <2>1, <2>2, <2>3, <2>4, BeginRefines DEF Readers, Ordered
<1>4. ASSUME NEW v \in Values, insertRecord(v) PROVE RefinesInv' /\ UNCHANGED Table!vars
  <2> DEFINE all == Append(Writing(total_pages + 1), [step |-> "count", page |-> 0])
  <2>1. total_pages + 1 \in 0..MaxRecords /\ mgmtData /\ total_pages < MaxRecords
        /\ "insertRecord" \in Writers
    BY <1>0, <1>4 DEF insertRecord, Writers
  <2>2. Begin("insertRecord", RecordPage, v, all)
    BY <1>4 DEF insertRecord
  <2>3. Paged(all, "insertRecord")
    BY <2>1, PagedInsert
  <2>4. Ordered(all, "insertRecord") /\ StepAt(all, 1) = "pin"
    BY <2>1, WritingOrdered
  <2> HIDE DEF all
  <2> QED
    BY <2>1, <2>2, <2>3, <2>4, BeginRefines DEF Ordered
<1>5. ASSUME NEW p \in 0..MaxRecords, getRecord(p) PROVE RefinesInv' /\ UNCHANGED Table!vars
  <2>1. p \in PagesOf("getRecord") /\ "getRecord" \in Readers
        /\ mgmtData /\ Begin("getRecord", RecordPage, NULL, Reading(p))
    BY <1>5, PagesAre DEF getRecord, Readers
  <2>2. Paged(Reading(p), "getRecord")
    <3>1. Reading(p) = Steps(reading, p)
      BY DEF Reading
    <3> HIDE DEF reading
    <3> QED
      BY <1>a, <2>1, <3>1, PagedSteps
  <2>3. Ordered(Reading(p), "getRecord") /\ StepAt(Reading(p), 1) = "pin"
    BY <2>1, ReadingOrdered
  <2> QED
    BY <2>1, <2>2, <2>3, BeginRefines DEF Ordered
<1>6. ASSUME NEW p \in 0..MaxRecords, NEW n \in {"deleteRecord", "updateRecord"}, NEW d,
             p \in PagesOf(n), mgmtData, Begin(n, RecordPage, d, Writing(p))
      PROVE  RefinesInv' /\ UNCHANGED Table!vars
  <2>1. n \in Writers /\ n \notin {"insertRecord", "getNumTuples", "openTable", "closeTable"}
    BY DEF Writers
  <2>2. Paged(Writing(p), n)
    <3>1. Writing(p) = Steps(writing, p)
      BY DEF Writing
    <3> HIDE DEF writing
    <3> QED
      BY <1>6, <1>a, <2>1, <3>1, PagedSteps
  <2>3. Ordered(Writing(p), n) /\ StepAt(Writing(p), 1) = "pin"
    BY <2>1, WritingOrdered
  <2> QED
    BY <1>6, <2>1, <2>2, <2>3, BeginRefines DEF Ordered
<1>7. ASSUME NEW p \in 0..MaxRecords, deleteRecord(p) PROVE RefinesInv' /\ UNCHANGED Table!vars
  BY <1>6, <1>7, PagesAre DEF deleteRecord
<1>8. ASSUME NEW p \in 0..MaxRecords, NEW v \in Values, updateRecord(p, v)
      PROVE  RefinesInv' /\ UNCHANGED Table!vars
  BY <1>6, <1>8, PagesAre DEF updateRecord
<1> QED
  BY <1>1, <1>2, <1>3, <1>4, <1>5, <1>7, <1>8

-----------------------------------------------------------------------------
(***************************************************************************)
(* The steps that pin a page.                                              *)
(***************************************************************************)
LEMMA FileStays ==
  ASSUME RefinesInv, op'.name = op.name,
         UNCHANGED <<disk, total_pages, mgmtData>>,
         op.name = "openTable" => At' # "end", At' # "count"
  PROVE  FileSoFar'
BY DEF RefinesInv, FileSoFar

LEMMA PositionSteps ==
  ASSUME TableInv, mgmtData, mgmtData'
  PROVE  /\ stat'.lastposition = stat.lastposition + 1 => Position' = Moved(Position)
         /\ stat'.lastposition = stat.lastposition => Position' = Position
<1>1. stat.lastposition \in Nat /\ NumPages \in Nat \ {0}
  BY Constants DEF TableInv, IInv, TypeOK, Stats
<1>2. (stat.lastposition + 1) % NumPages = ((stat.lastposition % NumPages) + 1) % NumPages
  BY <1>1, NextPosition
<1> QED
  BY <1>2 DEF Position, Moved

\* The file has the page, or ends just before it.
LEMMA PinFacts ==
  ASSUME TableInv, RefinesInv, todo # <<>>, At = "pin"
  PROVE  LET p == Head(todo).page IN
         /\ p \in Pages /\ p \in Nat /\ p \in PagesOf(op.name) /\ p <= Len(disk)
         /\ mgmtData /\ op.client \in Clients
         /\ op.name \in {"openTable"} \cup Writers \cup Readers
         /\ WithCapacity(p) = disk /\ MissDisk(p) = disk
         /\ ReadPage(p) = FromFile(disk, p)
         /\ MissData(p) = FromFile(disk, p)
         /\ ReadPage(p) \in Content
         /\ \A i \in Frames : ~dirtybit[i]
<1> DEFINE p == Head(todo).page
<1>1. p \in 0..MaxRecords /\ todo \in Seq(CallSteps)
  BY HeadIs DEF TableInv, CallInProgress, Ordered
<1>2. mgmtData /\ op.client \in Clients /\ \A i \in Frames : ~dirtybit[i]
  BY TableConstants DEF TableInv, CallInProgress, PinsSoFar, DirtySoFar
<1>3. p \in PagesOf(op.name)
  <2>1. todo[1].step # "count"
    BY HeadIs DEF TableInv, CallInProgress
  <2> QED
    BY <1>1, <2>1, TailPaged DEF RefinesInv
<1>4. op.name \in Begins \cup Writers \cup Readers
  BY DEF TableInv, CallInProgress
<1>5. op.name # "closeTable"
  <2>1. <<At, StepAt(Tail(todo), 1)>> \in Order(op.name)
    BY TailOrdered DEF TableInv, CallInProgress, At
  <2> QED
    BY <2>1, OrderKnown DEF Writers, Begins
<1>6. op.name \in {"openTable"} \cup Writers \cup Readers
  BY <1>4, <1>5 DEF Begins
<1>7. total_pages \in Nat /\ Len(disk) \in Nat /\ p \in Nat /\ p \in Pages
  BY <1>1, TableConstants DEF TableInv, CallInProgress, IInv, TypeOK
<1>8. p <= Len(disk)
  <2>1. CASE op.name = "openTable"
    BY <1>3, <1>7, <2>1, PagesAre DEF Begins
  <2>2. CASE op.name # "openTable"
    <3>1. total_pages < Len(disk)
      BY <1>2, <2>2 DEF RefinesInv, FileSoFar
    <3>2. /\ op.name = "insertRecord" => p = total_pages + 1
          /\ op.name = "updateRecord" => p \in 0..total_pages
          /\ op.name = "getNumTuples" => p \in 1..(total_pages - 1)
          /\ op.name \in {"deleteRecord", "getRecord"} => p \in 1..total_pages
      BY <1>3, PagesAre
    <3>3. op.name \in {"insertRecord", "updateRecord", "getNumTuples", "deleteRecord", "getRecord"}
      BY <1>6, <2>2 DEF Writers, Readers
    <3> HIDE DEF p
    <3> QED
      BY <1>7, <3>1, <3>2, <3>3
  <2> QED
    BY <2>1, <2>2
<1>9. WithCapacity(p) = disk /\ MissDisk(p) = disk
  <2>1. Len(disk) >= p
    BY <1>7, <1>8
  <2> QED
    BY <2>1 DEF WithCapacity, MissDisk, EnsureCapacity
<1>10. ReadPage(p) \in Content
  BY <1>7, PoolTypes DEF TableInv, IInv
<1> HIDE DEF p
<1>11. /\ ReadPage(p) = FromFile(disk, p)
       /\ MissData(p) = FromFile(disk, p)
  BY <1>9 DEF ReadPage, MissData, FromFile
<1> QED
  BY <1>2, <1>3, <1>6, <1>7, <1>8, <1>9, <1>10, <1>11 DEF p

\* A record's page is pinned.
LEMMA PinnedRecord ==
  ASSUME TableInv, RefinesInv, TableInv', todo # <<>>, At = "pin", Advance,
         op.name \in Writers \cup Readers,
         UNCHANGED <<total_pages, op, disk, mgmtData>>, call'.op = "none",
         NEW p, p = Head(todo).page, NEW i \in Frames, handle'[RecordPage] = Pinned(p, i),
         Filled(pagenum'), pagenum'[0] = 0, pagenum'[i] = p,
         pagedata'[i] = ShownIn(disk, Base(p), p),
         \A d \in Content :
           View(pagenum', Put(pagedata', i, d), Position') = Table!Using(Base(p), p, d)
  PROVE  RefinesInv' /\ UNCHANGED Table!vars
<1>1. /\ op.name \in Writers => At' = "fill"
      /\ op.name \in Readers => At' = "parse"
      /\ before # NULL /\ before' = before /\ Paged(todo, op.name)'
      /\ Head(todo').page = p
  <2>1. <<At, At'>> \in Order(op.name)
    BY Takes
  <2>2. op.name # "openTable" /\ (op.name \in Readers => op.name \notin Begins \cup Writers)
        /\ (op.name \in Writers => op.name \notin Readers)
    BY DEF Writers, Readers, Begins
  <2>3. /\ op.name \in Writers => At' = "fill"
        /\ op.name \in Readers => At' = "parse"
    BY <2>1, <2>2, OrderKnown
  <2> QED
    BY <2>3, Takes
<1>2. At' \notin {"end", "count"}
  BY <1>1
<1>3. BeforeSoFar' /\ UNCHANGED Table!vars
  BY <1>2, Stutters
<1>4. FileSoFar'
  BY <1>2, FileStays
<1>5. FramesSoFar' /\ OpenSoFar'
  BY DEF FramesSoFar, OpenSoFar, Writers, Readers
<1>6. Base(p)' = Base(p)
  BY <1>1 DEF Base
<1>7. Using(p, Base(p))'
  <2>1. pagedata'[i] \in Filling(p, Base(p))'
    BY <1>1, <1>6 DEF Filling
  <2>2. handle'[RecordPage].data = i /\ handle'[RecordPage].pageNum = p
    BY DEF Pinned
  <2>3. At' # "unpin"
    BY <1>1
  <2> QED
    BY <1>6, <2>1, <2>2, <2>3 DEF Using
<1>8. RecordSoFar'
  BY <1>1, <1>7 DEF RecordSoFar
<1> QED
  BY <1>1, <1>3, <1>4, <1>5, <1>8 DEF RefinesInv

\* The schema's page is pinned.
LEMMA PinnedOpen ==
  ASSUME TableInv, RefinesInv, TableInv', todo # <<>>, At = "pin", Advance,
         op.name = "openTable",
         UNCHANGED <<total_pages, op, disk, mgmtData>>, call'.op = "none",
         handle'[TablePage] = Pinned(0, 0),
         Filled(pagenum'), pagenum'[0] = 0, pagedata'[0] = disk[1],
         View(pagenum', pagedata', Position') = Table!Using(Table!NoPool, 0, disk[1])
  PROVE  RefinesInv' /\ UNCHANGED Table!vars
<1>1. At' = "schema" /\ before # NULL /\ before' = before /\ Paged(todo, op.name)'
  <2>1. <<At, At'>> \in Order(op.name)
    BY Takes
  <2>2. At' = "schema"
    BY <2>1, OrderKnown DEF Writers, Begins
  <2> QED
    BY <2>2, Takes
<1>2. BeforeSoFar' /\ UNCHANGED Table!vars
  BY <1>1, Stutters
<1>3. FileSoFar' /\ FramesSoFar'
  BY <1>1, FileStays DEF FramesSoFar
<1>4. OpenSoFar'
  <2>1. before.pool = Table!NoPool /\ disk # <<>>
    BY DEF RefinesInv, OpenSoFar
  <2>2. Now.pool' = Table!Using(Table!NoPool, 0, disk[1])
    BY NowAfter
  <2> QED
    BY <1>1, <2>1, <2>2 DEF OpenSoFar, Pinned
<1>5. RecordSoFar'
  BY DEF RecordSoFar, Writers, Readers
<1> QED
  BY <1>1, <1>2, <1>3, <1>4, <1>5 DEF RefinesInv

\* A frame holds a page alone.
LEMMA OnlyOne ==
  ASSUME TableInv, NEW i \in Frames, pagenum[i] # NoPage
  PROVE  \A j \in Frames : pagenum[j] = pagenum[i] => j = i
<1> SUFFICES ASSUME NEW j \in Frames, pagenum[j] = pagenum[i] PROVE j = i
  OBVIOUS
<1>1. ~(i < j) /\ ~(j < i)
  BY DEF TableInv, IInv, OneFramePerPage
<1>2. i \in Int /\ j \in Int
  BY Constants
<1> QED
  BY <1>1, <1>2

\* Behind the first empty frame there is no page.
LEMMA EmptyBehind ==
  ASSUME TableInv, NEW p \in Pages, NEW i \in Frames, FoundAt(p, i), pagenum[i] = NoPage
  PROVE  /\ \A j \in Frames : pagenum[j] # p
         /\ \A j \in Frames : j < i => pagenum[j] # NoPage
<1> SUFFICES ASSUME NEW j \in Frames
             PROVE  pagenum[j] # p /\ (j < i => pagenum[j] # NoPage)
  OBVIOUS
<1>1. p # NoPage /\ i \in Int /\ j \in Int
  BY Constants
<1>2. j < i => pagenum[j] \notin {NoPage, p}
  BY DEF FoundAt
<1>3. i < j => pagenum[j] = NoPage
  BY DEF TableInv, IInv, OneFramePerPage
<1> QED
  BY <1>1, <1>2, <1>3

LEMMA PoolTyped ==
  TableInv => /\ pagenum \in [Frames -> Pages \cup {NoPage}]
              /\ pagedata \in [Frames -> Content]
              /\ handle \in [Clients -> PageHandle]
              /\ disk \in Seq(Content) /\ Len(disk) \in Nat
              /\ stat.lastposition \in Nat
              /\ total_pages \in Nat
<1> SUFFICES ASSUME TableInv
             PROVE  /\ pagenum \in [Frames -> Pages \cup {NoPage}]
                    /\ pagedata \in [Frames -> Content]
                    /\ handle \in [Clients -> PageHandle]
                    /\ disk \in Seq(Content) /\ Len(disk) \in Nat
                    /\ stat.lastposition \in Nat
                    /\ total_pages \in Nat
  OBVIOUS
<1>1. TypeOK /\ total_pages \in 0..MaxRecords
  BY DEF TableInv, IInv, CallInProgress
<1>2. disk \in Seq(Content) /\ stat \in Stats
  BY <1>1 DEF TypeOK
<1>3. Len(disk) \in Nat /\ stat.lastposition \in Nat
  BY <1>2 DEF Stats
<1>4. /\ pagenum \in [Frames -> Pages \cup {NoPage}]
      /\ pagedata \in [Frames -> Content]
      /\ handle \in [Clients -> PageHandle]
  BY <1>1 DEF TypeOK
<1> QED
  BY <1>1, <1>2, <1>3, <1>4, TableConstants

\* What the pool is when no loop of it runs and a record's page is pinned.
LEMMA PoolToPin ==
  ASSUME TableInv, RefinesInv, todo # <<>>, At = "pin", op.name \in Writers \cup Readers
  PROVE  /\ pagenum[0] = 0 /\ op.client = RecordPage
         /\ Pinning(Head(todo).page, Base(Head(todo).page))
         /\ call.op = "none" =>
              View(pagenum, pagedata, Position) = Base(Head(todo).page)
<1>1. op.name # "openTable" /\ op.name \notin Begins
  BY DEF Writers, Readers, Begins
<1>2. pagenum[0] = 0 /\ op.client = RecordPage
  BY <1>1, PinFacts DEF RefinesInv, FramesSoFar, TableInv, CallInProgress
<1>3. before # NULL
  BY DEF RefinesInv, BeforeSoFar
<1>4. Pinning(Head(todo).page, Base(Head(todo).page))
  BY <1>3 DEF RefinesInv, RecordSoFar
<1> QED
  BY <1>2, <1>4, NowIs DEF Pinning

LEMMA PutIs ==
  ASSUME TableInv, NEW i \in Frames, NEW d
  PROVE  /\ Put(pagenum, i, d)[i] = d /\ Put(pagedata, i, d)[i] = d
         /\ \A j \in Frames : j # i => /\ Put(pagenum, i, d)[j] = pagenum[j]
                                       /\ Put(pagedata, i, d)[j] = pagedata[j]
         /\ \A e : Put(Put(pagedata, i, d), i, e) = Put(pagedata, i, e)
BY PoolTyped DEF Put

LEMMA MissShows ==
  ASSUME RefinesInv, NEW p \in Pages, \A j \in Frames : pagenum[j] # p
  PROVE  \A q : ShownIn(disk, View(pagenum, pagedata, q), p) = FromFile(disk, p)
<1>1. p # NoPage /\ Filled(pagenum)
  BY Constants DEF RefinesInv, FramesSoFar
<1> QED
  BY <1>1, ViewMisses

LEMMA ZeroFrame == 0 \in Frames
BY SizesAssumption DEF Frames

LEMMA EmptyRefines ==
  ASSUME TableInv, RefinesInv, TableInv', todo # <<>>, At = "pin", Advance,
         NEW p, p = Head(todo).page, PinEmpty(op.client, p),
         UNCHANGED <<total_pages, op>>
  PROVE  RefinesInv' /\ UNCHANGED Table!vars
<1>1. /\ p \in Pages /\ p # NoPage /\ op.client \in Clients /\ mgmtData
      /\ op.name \in {"openTable"} \cup Writers \cup Readers
      /\ WithCapacity(p) = disk /\ ReadPage(p) = FromFile(disk, p)
      /\ ReadPage(p) \in Content
  BY PinFacts, Constants
<1>2. PICK i \in Frames :
        /\ FoundAt(p, i)
        /\ pagenum[i] = NoPage
        /\ disk' = IF i = 0 THEN WithCapacity(p) ELSE disk
        /\ pagedata' = Put(pagedata, i, ReadPage(p))
        /\ pagenum' = Put(pagenum, i, p)
        /\ handle' = [Orphan(i) EXCEPT ![op.client] = Pinned(p, i)]
  BY DEF PinEmpty, Put
<1>3. /\ stat'.lastposition = stat.lastposition + 1 /\ mgmtData' = mgmtData
      /\ call' = call /\ call.op = "none"
  BY PoolTyped DEF PinEmpty, Count, MayPin, Ready, Quiet
<1>4. disk' = disk /\ handle'[op.client] = Pinned(p, i) /\ pagenum'[i] = p
      /\ pagedata'[i] = ReadPage(p)
  <2>1. disk' = disk /\ handle'[op.client] = Pinned(p, i)
    BY <1>1, <1>2, PoolTyped DEF Orphan
  <2> QED
    BY <1>2, <2>1, PutIs
<1>5. Position' = Moved(Position)
  BY <1>1, <1>3, PositionSteps
<1>6. /\ \A j \in Frames : pagenum[j] # p
      /\ \A j \in Frames : j < i => pagenum[j] # NoPage
  BY <1>1, <1>2, EmptyBehind
<1>7. /\ Filled(pagenum')
      /\ \A d : View(pagenum', Put(pagedata, i, d), Position') =
                  Table!Using(View(pagenum, pagedata, Position), p, d)
  <2>1. Filled(pagenum)
    BY DEF RefinesInv, FramesSoFar
  <2> QED
    BY <1>1, <1>2, <1>5, <1>6, <2>1, PoolTyped, ViewEmpty
<1>8. CASE op.name \in Writers \cup Readers
  <2>1. /\ pagenum[0] = 0 /\ op.client = RecordPage
        /\ View(pagenum, pagedata, Position) = Base(p)
    BY <1>3, <1>8, PoolToPin
  <2>2. pagenum'[0] = 0
    <3>1. i # 0
      BY <1>2, <2>1, Constants DEF NoPage
    <3> QED
      BY <1>2, <2>1, <3>1, PutIs, ZeroFrame
  <2>3. pagedata'[i] = ShownIn(disk, Base(p), p)
    <3>2. ShownIn(disk, View(pagenum, pagedata, Position), p) = FromFile(disk, p)
      BY <1>1, <1>6, MissShows
    <3> QED
      BY <1>1, <1>4, <2>1, <3>2
  <2>4. \A d \in Content :
          View(pagenum', Put(pagedata', i, d), Position') = Table!Using(Base(p), p, d)
    BY <1>2, <1>7, <2>1, PutIs
  <2> QED
    BY <1>3, <1>4, <1>7, <1>8, <2>1, <2>2, <2>3, <2>4, PinnedRecord
<1>9. CASE op.name = "openTable"
  <2>1. /\ p = 0 /\ op.client = TablePage
        /\ disk # <<>> /\ stat.lastposition = 0
        /\ \A j \in Frames : pagenum[j] = NoPage
    BY <1>9, HeadIs DEF TableInv, CallInProgress, Begins, RefinesInv, OpenSoFar
  <2>2. i = 0
    <3>1. 0 \in Frames /\ i \in Nat
      BY ZeroFrame, FrameIs
    <3>2. ~(0 < i)
      BY <1>6, <2>1, <3>1
    <3> QED
      BY <3>1, <3>2
  <2>3. Position = 0
    <3>1. NumPages \in Nat \ {0}
      BY Constants
    <3>2. 0 % NumPages = 0
      BY <3>1
    <3> QED
      BY <2>1, <3>2 DEF Position
  <2>4. View(pagenum, pagedata, Position) = Table!NoPool
    BY <2>1, <2>3, EmptyView
  <2>5. ReadPage(0) = disk[1]
    <3>1. Len(disk) # 0
      BY <2>1, PoolTyped
    <3>2. 0 < Len(disk) /\ ~(Len(disk) < 0) /\ 0 + 1 = 1
      BY <3>1, PoolTyped
    <3> QED
      BY <1>1, <2>1, <3>2 DEF FromFile, ReadBlock, ReadRC
  <2>6. View(pagenum', pagedata', Position') = Table!Using(Table!NoPool, 0, disk[1])
    BY <1>2, <1>7, <2>1, <2>2, <2>4, <2>5
  <2> QED
    BY <1>3, <1>4, <1>7, <1>9, <2>1, <2>2, <2>5, <2>6, PinnedOpen
<1> QED
  BY <1>1, <1>8, <1>9

\* Only openTable pins a page while the pool holds none.
LEMMA OpensEmpty ==
  ASSUME TableInv, RefinesInv, todo # <<>>, At = "pin",
         op.name \notin Writers \cup Readers
  PROVE  op.name = "openTable" /\ call.op = "none" /\ \A j \in Frames : pagenum[j] = NoPage
<1>1. op.name = "openTable"
  BY PinFacts
<1> QED
  BY <1>1 DEF RefinesInv, OpenSoFar

LEMMA HitRefines ==
  ASSUME TableInv, RefinesInv, TableInv', todo # <<>>, At = "pin", Advance,
         NEW p, p = Head(todo).page, PinHit(op.client, p),
         UNCHANGED <<total_pages, op>>
  PROVE  RefinesInv' /\ UNCHANGED Table!vars
<1>1. /\ p \in Pages /\ p # NoPage /\ op.client \in Clients /\ mgmtData
      /\ \A i \in Frames : ~dirtybit[i]
  BY PinFacts, Constants
<1>2. PICK i \in Frames :
        /\ pagenum[i] = p
        /\ disk' = IF dirtybit[i] THEN Written(i) ELSE disk
        /\ Count(1, 0, Writes(i), 0)
        /\ handle' = [handle EXCEPT ![op.client] = Pinned(p, i)]
  BY DEF PinHit
<1>3. /\ stat'.lastposition = stat.lastposition /\ mgmtData' = mgmtData
      /\ call' = call /\ call.op = "none"
      /\ disk' = disk /\ handle'[op.client] = Pinned(p, i)
      /\ pagenum' = pagenum /\ pagedata' = pagedata
  BY <1>1, <1>2, PoolTyped DEF PinHit, Count, MayPin, Ready, Quiet
<1>4. op.name \in Writers \cup Readers
  BY <1>1, <1>2, OpensEmpty
<1>5. Position' = Position
  BY <1>1, <1>3, PositionSteps
<1>6. /\ pagenum[0] = 0 /\ op.client = RecordPage
      /\ View(pagenum, pagedata, Position) = Base(p)
  BY <1>3, <1>4, PoolToPin
<1>7. Filled(pagenum) /\ \A j \in Frames : pagenum[j] = p => j = i
  BY <1>1, <1>2, OnlyOne DEF RefinesInv, FramesSoFar
<1>8. /\ ShownIn(disk, Base(p), p) = pagedata[i]
      /\ \A d : View(pagenum, Put(pagedata, i, d), Position) = Table!Using(Base(p), p, d)
  BY <1>1, <1>2, <1>6, <1>7, PoolTyped, ViewHit
<1> QED
  BY <1>2, <1>3, <1>4, <1>5, <1>6, <1>7, <1>8, PinnedRecord

LEMMA MissRefines ==
  ASSUME TableInv, RefinesInv, TableInv', todo # <<>>, At = "pin", Advance,
         NEW p, p = Head(todo).page, PinMissFifo(op.client, p),
         UNCHANGED <<total_pages, op>>
  PROVE  RefinesInv' /\ UNCHANGED Table!vars
<1>1. /\ p \in Pages /\ mgmtData /\ MissDisk(p) = disk /\ MissData(p) = FromFile(disk, p)
  BY PinFacts
<1>2. /\ \A i \in Frames : pagenum[i] \notin {NoPage, p}
      /\ disk' = disk /\ call.op = "none"
      /\ call'.op = "fifo" /\ call'.index = stat.lastposition % NumPages
      /\ call'.data = FromFile(disk, p)
      /\ stat'.lastposition = stat.lastposition + 1
      /\ UNCHANGED <<mgmtData, pagenum, pagedata, handle>>
  BY <1>1, PoolTyped DEF PinMissFifo, Miss, MayPin, Ready, Quiet, Count, frames
<1>3. op.name \in Writers \cup Readers
  BY <1>2, OpensEmpty, ZeroFrame
<1>4. Position' = Moved(Position) /\ call'.index = Position
  BY <1>1, <1>2, PositionSteps DEF Position
<1>5. View(pagenum, pagedata, Position) = Base(p) /\ Base(p).position = Position
  <2>1. View(pagenum, pagedata, Position) = Base(p)
    BY <1>2, <1>3, PoolToPin
  <2>2. View(pagenum, pagedata, Position).position = Position
    BY DEF View
  <2> QED
    BY <2>1, <2>2
<1>6. ShownIn(disk, Base(p), p) = FromFile(disk, p)
  BY <1>1, <1>2, <1>5, MissShows
<1>7. /\ todo' = todo /\ At' = At /\ before' = before /\ before # NULL
      /\ Paged(todo, op.name)'
  BY <1>2, Takes
<1>8. BeforeSoFar' /\ UNCHANGED Table!vars
  BY <1>2, Stutters
<1>9. FileSoFar'
  BY <1>2, <1>7, FileStays
<1>10. FramesSoFar' /\ OpenSoFar'
  BY <1>2, <1>3, <1>7 DEF RefinesInv, FramesSoFar, OpenSoFar, Writers, Readers
<1>11. RecordSoFar'
  <2>1. Base(p)' = Base(p)
    BY <1>2, <1>7 DEF Base
  <2>2. Position \in 0..(NumPages - 1)
    BY PositionIs
  <2>3. Pinning(p, Base(p))'
    BY <1>2, <1>4, <1>5, <1>6, <2>1, <2>2 DEF Pinning
  <2> QED
    BY <1>7, <2>3 DEF RecordSoFar
<1> QED
  BY <1>7, <1>8, <1>9, <1>10, <1>11 DEF RefinesInv

\* While the loop of fifo runs only page 0 is pinned, in frame 0.
LEMMA OnlyFirstPinned ==
  ASSUME TableInv, RefinesInv, todo # <<>>, At = "pin", op.name \in Writers \cup Readers,
         NEW i \in Frames
  PROVE  fixedcount[i] # 0 <=> i = 0
<1>1. pagenum[0] = 0
  BY PoolToPin
<1>2. /\ handle[TablePage].pinned /\ handle[TablePage].pageNum = 0
      /\ ~handle[RecordPage].pinned
  BY PinFacts DEF TableInv, PinsSoFar, Writers, Readers
<1>3. handle[TablePage].data = 0
  <2>1. /\ handle[TablePage].data \in Frames
        /\ pagenum[handle[TablePage].data] = 0
    BY <1>2, TableConstants DEF TableInv, IInv, PinnedPageResident
  <2> QED
    BY <1>1, <2>1, OnlyOne, ZeroFrame, TableConstants
<1>4. UsersOf(i) = IF i = 0 THEN {TablePage} ELSE {}
  BY <1>2, <1>3, TableConstants DEF UsersOf
<1>5. fixedcount[i] = Cardinality(UsersOf(i))
  BY DEF TableInv, IInv, FixCountsPins
<1> QED
  BY <1>4, <1>5, FS_EmptySet, FS_Singleton

LEMMA SkipRefines ==
  ASSUME TableInv, RefinesInv, TableInv', todo # <<>>, Advance, FifoSkip,
         UNCHANGED <<total_pages, op>>
  PROVE  RefinesInv' /\ UNCHANGED Table!vars
<1> DEFINE p == Head(todo).page
           b == Base(p)
<1>1. /\ At = "pin" /\ call.op = "fifo" /\ call.index \in Frames
  BY DEF TableInv, LoopSoFar, IInv, CallShape, FifoSkip
<1>2. op.name \in Writers \cup Readers
  BY <1>1, OpensEmpty
<1>3. /\ View(pagenum, pagedata, b.position) = b
      /\ b.position \in 0..(NumPages - 1)
      /\ Position = Moved(b.position)
      /\ call.data = ShownIn(disk, b, p)
      /\ call.index = b.position \/ (call.index = 1 /\ b.position = 0)
  BY <1>1, <1>2, PoolToPin DEF Pinning
<1>4. /\ call'.op = "fifo" /\ call'.data = call.data
      /\ call'.index = (call.index + 1) % NumPages
      /\ fixedcount[call.index] # 0
      /\ UNCHANGED <<disk, mgmtData, pagenum, pagedata, stat, handle>>
  BY <1>1 DEF FifoSkip, frames, TableInv, IInv, TypeOK, Call
<1>5. call.index = 0
  BY <1>1, <1>2, <1>4, OnlyFirstPinned
<1>6. b.position = 0 /\ (call'.index = 0 \/ call'.index = 1)
  <2>1. NumPages \in Nat \ {0} /\ call'.index = 1 % NumPages
    BY <1>4, <1>5, Constants
  <2>2. 1 % NumPages = 0 \/ 1 % NumPages = 1
    <3>1. NumPages = 1 \/ 1 \in 0..(NumPages - 1)
      BY <2>1
    <3>2. 1 % 1 = 0
      OBVIOUS
    <3>3. 1 = NumPages * 0 + 1 /\ 0 \in Int
      BY <2>1
    <3>4. 1 \in 0..(NumPages - 1) => 1 % NumPages = 1
      BY <2>1, <3>3, Remainder
    <3> QED
      BY <3>1, <3>2, <3>4
  <2> QED
    BY <1>3, <1>5, <2>1, <2>2
<1>7. /\ todo' = todo /\ At' = At /\ before' = before /\ before # NULL
      /\ Paged(todo, op.name)'
  BY <1>1, <1>4, Takes
<1>8. BeforeSoFar' /\ UNCHANGED Table!vars
  BY <1>1, <1>4, Stutters
<1>9. FileSoFar'
  BY <1>1, <1>4, <1>7, FileStays
<1>10. FramesSoFar' /\ OpenSoFar'
  BY <1>2, <1>4, <1>7 DEF RefinesInv, FramesSoFar, OpenSoFar, Writers, Readers
<1>11. RecordSoFar'
  <2>1. Base(p)' = Base(p)
    BY <1>4, <1>7 DEF Base
  <2>2. Position' = Position
    BY <1>4 DEF Position
  <2>3. Pinning(p, b)'
    BY <1>3, <1>4, <1>6, <1>7, <2>1, <2>2 DEF Pinning
  <2> QED
    BY <1>1, <1>7, <2>3 DEF RecordSoFar
<1> QED
  BY <1>7, <1>8, <1>9, <1>10, <1>11 DEF RefinesInv

LEMMA EvictRefines ==
  ASSUME TableInv, RefinesInv, TableInv', todo # <<>>, Advance, FifoEvict,
         UNCHANGED <<total_pages, op>>
  PROVE  RefinesInv' /\ UNCHANGED Table!vars
<1> DEFINE p == Head(todo).page
           b == Base(p)
           q == b.position
<1>0. PICK i \in Frames : i = call.index
  BY DEF TableInv, IInv, CallShape, FifoEvict
<1>1. /\ At = "pin" /\ call.op = "fifo"
      /\ call.client = op.client /\ call.page = p
      /\ \A j \in Frames : pagenum[j] \notin {NoPage, p}
  BY <1>0 DEF TableInv, LoopSoFar, IInv, CallShape, FifoEvict
<1>2. op.name \in Writers \cup Readers
  BY <1>1, OpensEmpty
<1>3. /\ View(pagenum, pagedata, q) = b
      /\ q \in 0..(NumPages - 1)
      /\ Position = Moved(q)
      /\ call.data = ShownIn(disk, b, p)
      /\ i = q \/ (i = 1 /\ q = 0)
  BY <1>0, <1>1, <1>2, PoolToPin DEF Pinning
<1>4. p \in Pages /\ op.client = RecordPage /\ RecordPage \in Clients /\ ~dirtybit[i]
      /\ pagenum[0] = 0 /\ mgmtData
  BY <1>1, <1>2, PinFacts, PoolToPin
<1> HIDE DEF p, b, q
<1>5. /\ fixedcount[i] = 0
      /\ pagedata' = Put(pagedata, i, call.data)
      /\ pagenum' = Put(pagenum, i, p)
      /\ handle' = [Orphan(i) EXCEPT ![RecordPage] = Pinned(p, i)]
      /\ disk' = disk /\ mgmtData' = mgmtData
      /\ call'.op = "none"
      /\ Count(0, 0, Writes(i), 0)
  BY <1>0, <1>1, <1>4 DEF FifoEvict, Replace, Put, NoCall
<1>6. handle'[RecordPage] = Pinned(p, i) /\ stat'.lastposition = stat.lastposition
  BY <1>4, <1>5, PoolTyped DEF Orphan, Count
<1>7. pagenum'[i] = p /\ pagedata'[i] = call.data
      /\ \A j \in Frames : j # i => pagenum'[j] = pagenum[j]
  BY <1>1, <1>5, PutIs
<1>8. i # 0 /\ i = IF q = 0 THEN 1 ELSE q
  BY <1>1, <1>2, <1>3, <1>5, OnlyFirstPinned
<1>9. Position' = Moved(q)
  BY <1>3, <1>4, <1>5, <1>6, PositionSteps
<1>10. q \in Nat /\ Filled(pagenum)
  BY <1>3 DEF RefinesInv, FramesSoFar
<1>11. /\ Filled(pagenum')
       /\ \A d : View(pagenum', Put(pagedata, i, d), Position') = Table!Using(b, p, d)
  BY <1>1, <1>3, <1>4, <1>5, <1>8, <1>9, <1>10, PoolTyped, ViewEvict
<1>12. pagenum'[0] = 0
  <2>1. 0 \in Frames /\ 0 # i
    BY <1>8, ZeroFrame
  <2>2. pagenum'[0] = pagenum[0]
    BY <1>7, <2>1, Zenon
  <2> QED
    BY <1>4, <2>2
<1>13. \A d \in Content : View(pagenum', Put(pagedata', i, d), Position') = Table!Using(b, p, d)
  <2> SUFFICES ASSUME NEW d
               PROVE  View(pagenum', Put(pagedata', i, d), Position') = Table!Using(b, p, d)
    OBVIOUS
  <2>1. Put(pagedata', i, d) = Put(pagedata, i, d)
    BY <1>1, <1>5, PutIs
  <2>2. View(pagenum', Put(pagedata, i, d), Position') = Table!Using(b, p, d)
    BY <1>11
  <2> QED
    BY <2>1, <2>2
<1>14. pagedata'[i] = ShownIn(disk, b, p)
  BY <1>3, <1>7
<1> QED
  BY <1>1, <1>2, <1>5, <1>6, <1>7, <1>11, <1>12, <1>13, <1>14, PinnedRecord DEF p, b

-----------------------------------------------------------------------------
(***************************************************************************)
(* The steps that work on the page that is pinned.                         *)
(***************************************************************************)
LEMMA InitRefines ==
  ASSUME TableInv, RefinesInv, TableInv', Doing("init"), initBufferPool(NumPages, "RS_FIFO"),
         Advance, UNCHANGED <<total_pages, op>>
  PROVE  RefinesInv' /\ UNCHANGED Table!vars
<1>1. At = "init" /\ todo # <<>> /\ Quiet
  BY HeadIs DEF Doing, TableInv, CallInProgress
<1>2. ~(NumPages <= 0)
  BY Constants
<1>3. /\ disk' = disk /\ call' = call /\ call'.op = "none"
      /\ stat'.lastposition = 0
      /\ \A i \in Frames : pagenum'[i] = NoPage
  BY <1>1, <1>2 DEF initBufferPool, EmptyPool, Quiet
<1>4. op.name = "openTable" /\ At' = "pin"
  BY <1>1, <1>3, Advanced, OrderKnown DEF TableInv
<1>5. before # NULL /\ before' = before /\ Paged(todo, op.name)' /\ todo' = Tail(todo)
  BY <1>1, <1>3, <1>4, Takes
<1>6. BeforeSoFar' /\ UNCHANGED Table!vars
  BY <1>1, <1>3, <1>4, Stutters
<1>7. FileSoFar' /\ FramesSoFar'
  <2>1. Filled(pagenum')
    BY <1>3, EmptyView
  <2> QED
    BY <1>3, <1>4, <2>1 DEF RefinesInv, FileSoFar, FramesSoFar
<1>8. OpenSoFar' /\ RecordSoFar'
  BY <1>1, <1>3, <1>4, <1>5 DEF RefinesInv, OpenSoFar, RecordSoFar, Writers, Readers
<1> QED
  BY <1>5, <1>6, <1>7, <1>8 DEF RefinesInv

LEMMA RecordUsed ==
  ASSUME TableInv, RefinesInv, todo # <<>>, op.name \in Writers \cup Readers,
         At \notin {"pin", "count"}, NEW p, p = Head(todo).page
  PROVE  /\ before # NULL /\ mgmtData /\ pagenum[0] = 0
         /\ handle[RecordPage].data \in Frames
         /\ Using(p, Base(p))
<1>1. At \in StepNames /\ At # "end"
  BY HeadIs DEF TableInv, CallInProgress, StepNames
<1>2. before # NULL
  BY <1>1 DEF RefinesInv, BeforeSoFar
<1>3. Using(p, Base(p))
  BY <1>2 DEF RefinesInv, RecordSoFar
<1>4. At # "init"
  <2>1. <<At, StepAt(Tail(todo), 1)>> \in Order(op.name)
    BY TailOrdered DEF TableInv, CallInProgress, At
  <2> QED
    BY <2>1, OrderKnown DEF Writers, Readers
<1>5. mgmtData /\ pagenum[0] = 0
  BY <1>4 DEF TableInv, PinsSoFar, RefinesInv, FramesSoFar, Writers, Readers
<1> QED
  BY <1>2, <1>3, <1>5 DEF Using

LEMMA WorksOn ==
  ASSUME TableInv, RefinesInv, TableInv', todo # <<>>, Advance,
         op.name \in Writers \cup Readers,
         At \notin {"pin", "count"}, At' \notin {"pin", "end", "count"},
         total_pages' = total_pages, op'.name = op.name, call'.op = "none",
         UNCHANGED <<disk, mgmtData, pagenum, stat>>,
         NEW p, p = Head(todo).page, NEW i, i = handle[RecordPage].data,
         handle'[RecordPage].data = i,
         handle'[RecordPage].pageNum = handle[RecordPage].pageNum,
         NEW d, pagedata' = Put(pagedata, i, d), d \in Filling(p, Base(p))',
         op.name = "getRecord" /\ At' = "unpin" =>
           op'.data \in Table!Parses(ShownIn(disk, Base(p), p))
  PROVE  RefinesInv' /\ UNCHANGED Table!vars
<1>1. /\ before # NULL /\ mgmtData /\ pagenum[0] = 0 /\ i \in Frames
      /\ pagenum[i] = p /\ handle[RecordPage].pageNum = p
      /\ \A e \in Content :
           View(pagenum, Put(pagedata, i, e), Position) = Table!Using(Base(p), p, e)
  BY RecordUsed DEF Using
<1>2. /\ before' = before /\ Paged(todo, op.name)'
      /\ Head(todo').page = p /\ todo' = Tail(todo)
  <2>1. <<At, At'>> \in Order(op.name)
    BY Takes
  <2>2. At = "unpin" => op.name # "getNumTuples"
    BY <2>1, OrderKnown DEF Begins, Writers
  <2> QED
    BY <2>2, Takes
<1>3. BeforeSoFar' /\ UNCHANGED Table!vars
  BY Stutters
<1>4. FileSoFar'
  BY FileStays DEF Writers, Readers
<1>5. FramesSoFar' /\ OpenSoFar'
  BY <1>1 DEF RefinesInv, FramesSoFar, OpenSoFar, Writers, Readers
<1>6. Base(p)' = Base(p) /\ Position' = Position
  BY <1>2 DEF Base, Position
<1>7. pagedata'[i] = d
  BY <1>1, PutIs
<1>8. \A e \in Content :
        View(pagenum', Put(pagedata', i, e), Position') = Table!Using(Base(p), p, e)
  <2> SUFFICES ASSUME NEW e \in Content
               PROVE  View(pagenum', Put(pagedata', i, e), Position') = Table!Using(Base(p), p, e)
    OBVIOUS
  <2>1. Put(pagedata', i, e) = Put(pagedata, i, e)
    BY <1>1, PutIs
  <2>2. View(pagenum, Put(pagedata, i, e), Position) = Table!Using(Base(p), p, e)
    BY <1>1
  <2> QED
    BY <1>6, <2>1, <2>2
<1>9. Using(p, Base(p))'
  BY <1>1, <1>6, <1>7, <1>8 DEF Using
<1>10. RecordSoFar'
  BY <1>2, <1>9 DEF RecordSoFar
<1> QED
  BY <1>2, <1>3, <1>4, <1>5, <1>10 DEF RefinesInv

LEMMA SameContent ==
  ASSUME TableInv, NEW i \in Frames
  PROVE  pagedata = Put(pagedata, i, pagedata[i]) /\ pagedata[i] \in Content
BY PoolTyped DEF Put

LEMMA FillRefines ==
  ASSUME TableInv, RefinesInv, TableInv', Fill
  PROVE  RefinesInv' /\ UNCHANGED Table!vars
<1>0. PICK p : p = Head(todo).page
  OBVIOUS
<1>1. At = "fill" /\ todo # <<>> /\ Quiet /\ UNCHANGED <<total_pages, op>> /\ Advance
  BY HeadIs DEF Fill, Doing, TableInv, CallInProgress
<1>2. PICK data : /\ data \in IF op.name = "deleteRecord" THEN Table!Marked(Page)
                              ELSE {op.data}
                  /\ WritePage(op.client, data)
  BY DEF Fill
<1>3. call'.op = "none" /\ UNCHANGED <<disk, mgmtData, pagenum, stat>>
  BY <1>1, <1>2 DEF WritePage, Quiet
<1>4. op.name \in Writers /\ At' = "mark"
  BY <1>1, <1>3, Advanced, OrderKnown DEF TableInv
<1>5. op.client = RecordPage /\ RecordPage \in Clients
  BY <1>1, <1>4, TableConstants DEF TableInv, CallInProgress, Writers, Begins
<1>6. PICK i \in Frames : i = handle[RecordPage].data
  BY <1>1, <1>4, RecordUsed
<1>7. /\ pagedata' = Put(pagedata, i, data)
      /\ handle'[RecordPage].data = i
      /\ handle'[RecordPage].pageNum = handle[RecordPage].pageNum
  <2>1. i # NoFrame /\ handle[RecordPage] \in PageHandle
    BY <1>5, Constants, PoolTyped DEF NoFrame
  <2>2. pagedata' = Put(pagedata, i, data)
    BY <1>2, <1>5, <1>6, <2>1 DEF WritePage, Put
  <2>3. handle' = [handle EXCEPT ![RecordPage].unmarked = TRUE]
    BY <1>2, <1>5 DEF WritePage
  <2> QED
    BY <1>5, <1>6, <2>1, <2>2, <2>3, PoolTyped DEF PageHandle
<1>8. Page = ShownIn(disk, Base(p), p)
  BY <1>0, <1>1, <1>4, <1>5, <1>6, RecordUsed DEF Using, Filling, Page
<1>9. data \in Filling(p, Base(p))'
  <2>1. Base(p)' = Base(p)
    <3>1. before' = before
      BY <1>1, <1>3, <1>4, Takes
    <3> QED
      BY <1>1, <1>3, <3>1 DEF Base
  <2> QED
    BY <1>1, <1>2, <1>3, <1>4, <1>8, <2>1 DEF Filling, Writers, Readers
<1>10. op.name # "getRecord"
  BY <1>4 DEF Writers
<1> QED
  BY <1>0, <1>1, <1>3, <1>4, <1>6, <1>7, <1>9, <1>10, WorksOn

LEMMA MarkRefines ==
  ASSUME TableInv, RefinesInv, TableInv', Doing("mark"), markDirty(op.client), Advance,
         UNCHANGED <<total_pages, op>>
  PROVE  RefinesInv' /\ UNCHANGED Table!vars
<1>0. PICK p : p = Head(todo).page
  OBVIOUS
<1>1. At = "mark" /\ todo # <<>> /\ Quiet
  BY HeadIs DEF Doing, TableInv, CallInProgress
<1>2. call'.op = "none" /\ UNCHANGED <<disk, mgmtData, pagenum, pagedata, stat>>
  BY <1>1 DEF markDirty, Quiet
<1>3. op.name \in Writers /\ At' = "unpin"
  BY <1>1, <1>2, Advanced, OrderKnown DEF TableInv
<1>4. op.client = RecordPage /\ RecordPage \in Clients
  BY <1>1, <1>3, TableConstants DEF TableInv, CallInProgress, Writers, Begins
<1>5. PICK i \in Frames : i = handle[RecordPage].data
  BY <1>1, <1>3, RecordUsed
<1>6. handle'[RecordPage].data = i /\ handle'[RecordPage].pageNum = handle[RecordPage].pageNum
  <2>1. handle' = [handle EXCEPT ![RecordPage].unmarked = FALSE] /\ handle[RecordPage] \in PageHandle
    BY <1>4, PoolTyped DEF markDirty
  <2> QED
    BY <1>4, <1>5, <2>1, PoolTyped DEF PageHandle
<1>7. pagedata' = Put(pagedata, i, pagedata[i])
  BY <1>2, SameContent
<1>8. pagedata[i] \in Filling(p, Base(p))'
  <2>1. Base(p)' = Base(p)
    <3>1. before' = before
      BY <1>1, <1>2, <1>3, Takes
    <3> QED
      BY <1>2, <3>1 DEF Base
  <2>2. pagedata[i] \in Filling(p, Base(p))
    BY <1>0, <1>1, <1>3, <1>5, RecordUsed DEF Using
  <2> QED
    BY <1>1, <1>2, <1>3, <2>1, <2>2 DEF Filling, Writers, Readers
<1>9. op.name # "getRecord"
  BY <1>3 DEF Writers
<1> QED
  BY <1>0, <1>1, <1>2, <1>3, <1>5, <1>6, <1>7, <1>8, <1>9, WorksOn

\* The calls as steps of RecordMgr.
LEMMA IsNext ==
  /\ Table!createTable(TableName) => Table!Next
  /\ Table!deleteTable(TableName) => Table!Next
  /\ Table!openTable(Relation, TableName) => Table!Next
  /\ Table!closeTable(Relation) => Table!Next
  /\ Table!getNumTuples(Relation) => Table!Next
  /\ \A v \in Values : Table!insertRecord(Relation, v) => Table!Next
  /\ \A p \in 0..MaxRecords : Table!deleteRecord(Relation, p) => Table!Next
  /\ \A p \in 0..MaxRecords : Table!getRecord(Relation, p) => Table!Next
  /\ \A p \in 0..MaxRecords, v \in Values : Table!updateRecord(Relation, p, v) => Table!Next
  /\ Table!Crash => Table!Next
<1>1. \A p \in 0..MaxRecords : p \in Table!RIDs
  BY TableConstants DEF Table!RIDs
<1> QED
  BY <1>1 DEF Table!Next

LEMMA ParseRefines ==
  ASSUME TableInv, RefinesInv, TableInv', Parse
  PROVE  RefinesInv' /\ UNCHANGED Table!vars
<1>0. PICK p : p = Head(todo).page
  OBVIOUS
<1>1. At = "parse" /\ todo # <<>> /\ Quiet /\ Advance /\ UNCHANGED <<vars, total_pages>>
  BY HeadIs DEF Parse, Doing, TableInv, CallInProgress
<1>2. PICK v \in Table!Parses(Page) : op' = [op EXCEPT !.data = v]
  BY DEF Parse
<1>3. /\ call'.op = "none"
      /\ UNCHANGED <<disk, mgmtData, pagenum, pagedata, stat, handle>>
  BY <1>1 DEF Quiet, vars, frames
<1>4. op' = [name |-> op.name, client |-> op.client, data |-> v]
      /\ op'.name = op.name /\ op'.data = v
  <2>1. op = [name |-> op.name, client |-> op.client, data |-> op.data]
    BY DEF TableInv, CallInProgress
  <2> QED
    BY <1>2, <2>1
<1>5. op.name \in Readers /\ At' = "unpin"
  <2>1. <<At, At'>> \in Order(op.name)
    BY <1>1, <1>3, <1>4, Takes
  <2>2. op.name \in Begins \cup Writers \cup Readers
    BY <1>1 DEF TableInv, CallInProgress
  <2> QED
    BY <1>1, <2>1, <2>2, OrderKnown
<1>6. op.client = RecordPage
  BY <1>1, <1>5 DEF TableInv, CallInProgress, Readers, Begins
<1>7. PICK i \in Frames : i = handle[RecordPage].data
  BY <1>1, <1>5, RecordUsed
<1>8. Page = ShownIn(disk, Base(p), p) /\ pagedata[i] = ShownIn(disk, Base(p), p)
  BY <1>0, <1>1, <1>5, <1>6, <1>7, RecordUsed DEF Using, Filling, Page
<1>9. pagedata' = Put(pagedata, i, pagedata[i])
  BY <1>3, SameContent
<1>10. pagedata[i] \in Filling(p, Base(p))'
  <2>1. Base(p)' = Base(p)
    <3>1. before' = before
      BY <1>1, <1>3, <1>4, <1>5, Takes
    <3> QED
      BY <1>3, <1>4, <3>1 DEF Base
  <2> QED
    BY <1>3, <1>4, <1>5, <1>8, <2>1 DEF Filling
<1> QED
  BY <1>0, <1>1, <1>2, <1>3, <1>4, <1>5, <1>7, <1>8, <1>9, <1>10, WorksOn

\* What is left to show of a record's call that takes effect.
LEMMA EndsRecord ==
  ASSUME TableInv, RefinesInv, TableInv', todo # <<>>, Advance,
         op.name \in Writers \cup Readers, At \notin {"pin", "count"},
         At' \in {"end", "count"}, UNCHANGED <<total_pages, op, mgmtData, pagenum>>,
         call'.op = "none", FileSoFar'
  PROVE  RefinesInv'
<1>1. BeforeSoFar'
  BY TakesEffect
<1>2. Paged(todo, op.name)'
  BY Takes
<1>3. mgmtData /\ pagenum[0] = 0 /\ Filled(pagenum)
  BY RecordUsed DEF RefinesInv, FramesSoFar
<1>4. FramesSoFar' /\ OpenSoFar'
  BY <1>3 DEF FramesSoFar, OpenSoFar, Writers, Readers
<1>5. RecordSoFar'
  BY <1>1 DEF RecordSoFar, BeforeSoFar
<1> QED
  BY <1>1, <1>2, <1>4, <1>5 DEF RefinesInv

\* The pool when a page has been read.
LEMMA PoolRead ==
  ASSUME TableInv, RefinesInv, todo # <<>>, op.name \in Readers, At = "unpin",
         NEW p, p = Head(todo).page
  PROVE  View(pagenum, pagedata, Position) =
           Table!Using(Base(p), p, ShownIn(disk, Base(p), p))
<1>1. PICK i \in Frames : i = handle[RecordPage].data
  BY RecordUsed
<1>2. pagedata[i] = ShownIn(disk, Base(p), p)
  BY <1>1, RecordUsed DEF Using, Filling
<1>3. View(pagenum, Put(pagedata, i, pagedata[i]), Position) = Table!Using(Base(p), p, pagedata[i])
  BY <1>1, SameContent, RecordUsed DEF Using
<1> QED
  BY <1>2, <1>3, SameContent

LEMMA UnpinFacts ==
  ASSUME TableInv, RefinesInv, TableInv', Doing("unpin"), unpinPage(op.client), Advance,
         UNCHANGED <<total_pages, op>>
  PROVE  /\ At = "unpin" /\ todo # <<>> /\ call'.op = "none"
         /\ UNCHANGED <<disk, mgmtData, pagenum, pagedata, stat>>
         /\ \/ op.name = "closeTable" /\ At' = "shutdown"
            \/ op.name \in Writers /\ At' = "force"
            \/ op.name = "getRecord" /\ At' = "end"
            \/ op.name = "getNumTuples" /\ At' \in {"pin", "end"}
         /\ op.name # "closeTable" => op.client = RecordPage /\ RecordPage \in Clients
<1>1. At = "unpin" /\ todo # <<>> /\ Quiet
  BY HeadIs DEF Doing, TableInv, CallInProgress
<1>2. call'.op = "none" /\ UNCHANGED <<disk, mgmtData, pagenum, pagedata, stat>>
  BY <1>1 DEF unpinPage, Quiet
<1>3. \/ op.name = "closeTable" /\ At' = "shutdown"
      \/ op.name \in Writers /\ At' = "force"
      \/ op.name \notin Begins \cup Writers /\ At' \in {"pin", "end"}
  BY <1>1, <1>2, Advanced, OrderKnown DEF TableInv
<1>4. op.name \in Begins \cup Writers \cup Readers
  BY <1>1 DEF TableInv, CallInProgress
<1>5. op.name = "getRecord" => At' = "end"
  BY <1>1, <1>2, Takes
<1>6. \/ op.name = "closeTable" /\ At' = "shutdown"
      \/ op.name \in Writers /\ At' = "force"
      \/ op.name = "getRecord" /\ At' = "end"
      \/ op.name = "getNumTuples" /\ At' \in {"pin", "end"}
  BY <1>3, <1>4, <1>5 DEF Readers
<1>7. op.name # "closeTable" => op.client = RecordPage /\ RecordPage \in Clients
  BY <1>1, <1>6, TableConstants DEF TableInv, CallInProgress, Begins, Writers
<1> QED
  BY <1>1, <1>2, <1>6, <1>7

LEMMA UnpinRefines ==
  ASSUME TableInv, RefinesInv, TableInv', Doing("unpin"), unpinPage(op.client), Advance,
         UNCHANGED <<total_pages, op>>
  PROVE  RefinesInv' /\ (Table!Next \/ UNCHANGED Table!vars)
<1>0. PICK p : p = Head(todo).page
  OBVIOUS
<1>1. /\ At = "unpin" /\ todo # <<>> /\ call'.op = "none"
      /\ UNCHANGED <<disk, mgmtData, pagenum, pagedata, stat>>
      /\ \/ op.name = "closeTable" /\ At' = "shutdown"
         \/ op.name \in Writers /\ At' = "force"
         \/ op.name = "getRecord" /\ At' = "end"
         \/ op.name = "getNumTuples" /\ At' \in {"pin", "end"}
      /\ op.name # "closeTable" => op.client = RecordPage /\ RecordPage \in Clients
  BY UnpinFacts
<1>2. Position' = Position
  BY <1>1 DEF Position
<1>3. CASE op.name = "closeTable"
  <2>1. At' = "shutdown"
    BY <1>1, <1>3 DEF Writers
  <2>2. BeforeSoFar' /\ UNCHANGED Table!vars
    BY <1>1, <2>1, Stutters
  <2>3. FileSoFar'
    BY <1>1, <1>3, <2>1, FileStays
  <2>4. FramesSoFar' /\ OpenSoFar' /\ RecordSoFar'
    BY <1>1, <1>3 DEF RefinesInv, FramesSoFar, OpenSoFar, RecordSoFar, Writers, Readers
  <2>5. Paged(todo, op.name)'
    BY <1>1, Takes
  <2> QED
    BY <2>2, <2>3, <2>4, <2>5 DEF RefinesInv
<1>4. CASE op.name \in Writers
  <2>1. At' = "force" /\ op.name \notin Readers
    BY <1>1, <1>4 DEF Writers, Readers
  <2>2. op.client = RecordPage /\ RecordPage \in Clients
    BY <1>1, <1>4 DEF Writers
  <2>3. PICK i \in Frames : i = handle[RecordPage].data
    BY <1>1, <1>4, RecordUsed
  <2>4. handle'[RecordPage].data = i /\ handle'[RecordPage].pageNum = handle[RecordPage].pageNum
    <3>1. /\ handle' = [handle EXCEPT ![RecordPage].pinned = FALSE]
          /\ handle[RecordPage] \in PageHandle
      BY <2>2, PoolTyped DEF unpinPage
    <3> QED
      BY <2>2, <2>3, <3>1, PoolTyped DEF PageHandle
  <2>5. pagedata' = Put(pagedata, i, pagedata[i])
    BY <1>1, SameContent
  <2>6. pagedata[i] \in Filling(p, Base(p))'
    <3>1. Base(p)' = Base(p)
      <4>1. before' = before
        BY <1>1, <2>1, Takes
      <4> QED
        BY <1>1, <4>1 DEF Base
    <3>2. pagedata[i] \in Filling(p, Base(p))
      BY <1>0, <1>1, <1>4, <2>3, RecordUsed DEF Using
    <3> QED
      BY <1>1, <2>1, <3>1, <3>2 DEF Filling
  <2>7. op.name # "getRecord"
    BY <1>4 DEF Writers
  <2> QED
    BY <1>0, <1>1, <1>4, <2>1, <2>3, <2>4, <2>5, <2>6, <2>7, WorksOn
<1>5. CASE op.name \in Readers
  <2>1. /\ before # NULL /\ mgmtData /\ pagenum[0] = 0
        /\ View(pagenum', pagedata', Position') =
             Table!Using(Base(p), p, ShownIn(disk, Base(p), p))
        /\ p \in PagesOf(op.name) /\ total_pages \in Nat /\ total_pages <= MaxRecords
    <3>1. before # NULL /\ mgmtData /\ pagenum[0] = 0
      BY <1>1, <1>5, RecordUsed
    <3>2. View(pagenum, pagedata, Position) = Table!Using(Base(p), p, ShownIn(disk, Base(p), p))
      BY <1>0, <1>1, <1>5, PoolRead
    <3>3. p \in PagesOf(op.name)
      BY <1>0, <1>1, Takes
    <3>4. total_pages \in Nat /\ total_pages <= MaxRecords
      BY TableConstants DEF TableInv, CallInProgress
    <3> QED
      BY <1>1, <1>2, <3>1, <3>2, <3>3, <3>4
  <2>2. FileSoFar' \/ At' = "count"
    BY <1>1, <1>5, FileStays DEF Readers
  <2>3. At' # "count" /\ FileSoFar'
    BY <1>1, <1>5, <2>2 DEF Readers, Writers
  <2>4. ASSUME At' = "end" PROVE /\ RefinesInv'
                                 /\ Seen = before /\ Seen.open /\ Seen'.open
                                 /\ Seen.file = disk /\ Seen'.file = disk
                                 /\ Counted = total_pages /\ Counted' = total_pages
                                 /\ returned' = Result /\ last'.rc = "RC_OK"
                                 /\ Seen'.pool = Table!Using(Base(p), p, ShownIn(disk, Base(p), p))
    <3>1. RefinesInv'
      BY <1>1, <1>5, <2>3, <2>4, EndsRecord
    <3>2. /\ Seen = before
          /\ Seen.file = disk /\ Seen.open = (op.name # "openTable")
          /\ Seen'.file = disk' /\ Seen'.open = mgmtData'
          /\ Seen'.pool = View(pagenum', pagedata', Position')
          /\ Counted = total_pages
          /\ Counted' = IF op.name = "insertRecord" THEN total_pages + 1 ELSE total_pages
          /\ returned' = Result
      BY <1>1, <2>4, TakesEffect
    <3>3. last'.rc = "RC_OK"
      BY DEF TableInv, CallsSucceed
    <3>4. op.name \notin {"openTable", "insertRecord"}
      BY <1>5 DEF Readers
    <3> QED
      BY <1>1, <2>1, <3>1, <3>2, <3>3, <3>4
  <2>5. CASE op.name = "getRecord"
    <3>1. At' = "end" /\ Base(p) = before.pool
      BY <1>1, <2>5 DEF Base, Writers
    <3>2. p \in 1..total_pages /\ p \in 0..MaxRecords
      <4>1. p \in 1..total_pages
        BY <2>1, <2>5, PagesAre
      <4> QED
        BY <2>1, <4>1, TableConstants
    <3>3. op.data \in Table!Parses(ShownIn(disk, before.pool, p))
      BY <1>0, <1>1, <1>5, <2>5, <3>1, RecordUsed DEF Using
    <3>4. op.data \in Table!Parses(Table!Shown(TableName, Seen.pool, p))
      <4>1. Table!Shown(TableName, Seen.pool, p) = ShownIn(disk, before.pool, p)
        BY <2>4, <3>1, ShownIs
      <4> QED
        BY <3>3, <4>1
    <3>5. Seen'.pool = Table!ReadingAll(TableName, Seen.pool, p, p)
      BY <2>4, <3>1, <3>2, ReadingOne
    <3>6. returned' = [op |-> "getRecord", rc |-> "RC_OK",
                       out |-> Table!Record(p, op.data)]
      BY <1>0, <2>4, <2>5, <3>1 DEF Result
    <3>7. p > 0 /\ p <= Counted
      BY <2>1, <2>4, <3>1, <3>2
    <3>8. Table!getRecord(Relation, p)
      BY <2>4, <3>1, <3>4, <3>5, <3>6, <3>7, GetIs
    <3> QED
      BY <2>4, <3>1, <3>2, <3>8, IsNext
  <2>6. CASE op.name = "getNumTuples"
    <3>1. Base(p) = AllPasses(disk, before.pool)[p - 1] /\ At' \in {"pin", "end"}
      BY <1>1, <2>6 DEF Base, Writers
    <3>2. p \in 1..(total_pages - 1) /\ p \in 1..MaxRecords
      <4>1. p \in 1..(total_pages - 1)
        BY <2>1, <2>6, PagesAre
      <4> QED
        BY <2>1, <4>1, TableConstants
    <3>3. AllPasses(disk, before.pool)[p] = Table!Using(Base(p), p, ShownIn(disk, Base(p), p))
      BY <3>1, <3>2, AllPassesAre
    <3>4. CASE At' = "pin"
      <4>1. /\ before' = before /\ Head(todo').page = p + 1 /\ todo' = Tail(todo)
            /\ Paged(todo, op.name)'
        BY <1>0, <1>1, <2>6, <3>4, Takes
      <4>2. BeforeSoFar' /\ UNCHANGED Table!vars
        BY <1>1, <3>4, Stutters
      <4>3. FramesSoFar' /\ OpenSoFar'
        BY <1>1, <1>5, <2>1 DEF RefinesInv, FramesSoFar, OpenSoFar, Readers
      <4>4. Base(p + 1)' = AllPasses(disk, before.pool)[p]
        <5>1. (p + 1) - 1 = p
          BY <3>2
        <5> QED
          BY <1>1, <2>6, <4>1, <5>1 DEF Base
      <4>5. Now.pool' = Base(p + 1)'
        BY <2>1, <3>3, <4>4, NowAfter
      <4>6. RecordSoFar'
        BY <1>1, <3>4, <4>1, <4>5 DEF RecordSoFar, Pinning
      <4> QED
        BY <2>3, <4>1, <4>2, <4>3, <4>6 DEF RefinesInv
    <3>5. CASE At' = "end"
      <4>1. p = total_pages - 1
        BY <1>0, <1>1, <2>6, <3>5, Takes
      <4>2. Counted > 1 /\ Counted \in Nat
        BY <2>1, <2>4, <3>2, <3>5
      <4>3. Seen'.pool = Table!ReadingAll(TableName, Seen.pool, 1, Counted - 1)
        <5>1. Table!ReadingAll(TableName, Seen.pool, 1, p) = AllPasses(disk, before.pool)[p]
          BY <2>4, <3>2, <3>5, ReadingMany
        <5> QED
          BY <2>4, <3>3, <3>5, <4>1, <5>1
      <4>4. returned' = [op |-> "getNumTuples", rc |-> "RC_OK", out |-> Counted - 1]
        BY <2>4, <2>6, <3>5 DEF Result
      <4>5. Table!getNumTuples(Relation)
        BY <2>4, <3>5, <4>2, <4>3, <4>4, NumTuplesIs
      <4> QED
        BY <2>4, <3>5, <4>5, IsNext
    <3> QED
      BY <3>1, <3>4, <3>5
  <2> QED
    BY <1>5, <2>5, <2>6 DEF Readers
<1> QED
  BY <1>1, <1>3, <1>4, <1>5 DEF Readers

-----------------------------------------------------------------------------
(***************************************************************************)
(* The steps that end a call.                                              *)
(***************************************************************************)
LEMMA SchemaRefines ==
  ASSUME TableInv, RefinesInv, TableInv', ParseSchema
  PROVE  RefinesInv' /\ Table!Next
<1>1. At = "schema" /\ todo # <<>> /\ Quiet /\ Advance /\ UNCHANGED <<vars, total_pages, op>>
  BY HeadIs DEF ParseSchema, Doing, TableInv, CallInProgress
<1>2. /\ call'.op = "none"
      /\ UNCHANGED <<disk, mgmtData, pagenum, pagedata, stat, handle>>
  BY <1>1 DEF Quiet, vars, frames
<1>3. op.name = "openTable" /\ At' = "end" /\ mgmtData
  <2>1. <<At, At'>> \in Order(op.name)
    BY <1>1, <1>2, Takes
  <2>2. op.name = "openTable" /\ At' = "end"
    BY <1>1, <2>1, OrderKnown
  <2> QED
    BY <1>1, <2>2 DEF TableInv, PinsSoFar
<1>4. op.client = TablePage
  BY <1>1, <1>3 DEF TableInv, CallInProgress, Begins
<1>5. /\ before.pool = Table!NoPool /\ disk # <<>>
      /\ handle[TablePage].data = 0 /\ pagedata[0] = disk[1]
      /\ Now.pool = Table!Using(Table!NoPool, 0, disk[1])
  BY <1>1, <1>3 DEF RefinesInv, OpenSoFar
<1>6. disk[1] = Schema
  BY <1>1, <1>4, <1>5 DEF ParseSchema, Page
<1>7. /\ BeforeSoFar' /\ Seen = before
      /\ Seen.file = disk /\ Seen.open = (op.name # "openTable")
      /\ Seen'.file = disk' /\ Seen'.open = mgmtData'
      /\ Seen'.pool = View(pagenum', pagedata', Position')
      /\ Counted = total_pages
      /\ Counted' = IF op.name = "insertRecord" THEN total_pages + 1 ELSE total_pages
      /\ returned' = Result /\ last'.rc = "RC_OK"
  BY <1>1, <1>2, <1>3, TakesEffect DEF TableInv, CallsSucceed
<1>8. Seen'.pool = Table!Using(Table!NoPool, 0, Schema)
  <2>1. Position' = Position
    BY <1>2 DEF Position
  <2> QED
    BY <1>2, <1>5, <1>6, <1>7, <2>1, NowIs
<1>9. returned' = [op |-> "openTable", rc |-> "RC_OK", out |-> NULL]
  BY <1>3, <1>7 DEF Result
<1>10. Table!openTable(Relation, TableName)
  BY <1>2, <1>3, <1>5, <1>6, <1>7, <1>8, <1>9, OpenIs
<1>11. FileSoFar' /\ FramesSoFar'
  BY <1>1, <1>2, <1>3, <1>5, <1>6 DEF RefinesInv, FileSoFar, FramesSoFar
<1>12. OpenSoFar' /\ RecordSoFar'
  <2>1. todo' = <<>>
    <3>1. todo' \in Seq(CallSteps) /\ StepAt(todo, 1)' = "end"
      BY <1>3 DEF TableInv, CallInProgress, Ordered, At
    <3>2. StepAt(todo', 1) = "end"
      BY <3>1 DEF StepAt
    <3> QED
      BY <3>1, <3>2, EndIsEnd
  <2> QED
    BY <1>1, <1>3, <2>1 DEF OpenSoFar, RecordSoFar, Writers, Readers
<1>13. Paged(todo, op.name)'
  BY <1>1, <1>2, Takes
<1> QED
  BY <1>7, <1>10, <1>11, <1>12, <1>13, IsNext DEF RefinesInv

\* The file after a write to a page of it or to the one behind it.
LEMMA Grows ==
  ASSUME NEW f \in Seq(Content), NEW p \in Nat, p <= Len(f), NEW d
  PROVE  Len(WriteBlock(f, Len(f), p, d)) >= Len(f) /\ Len(WriteBlock(f, Len(f), p, d)) > p
<1>1. WriteBlock(f, Len(f), p, d) = Store(f, p, d)
  <2>1. ~(Len(f) < p)
    OBVIOUS
  <2> QED
    BY <2>1 DEF WriteBlock, WriteRC
<1>2. CASE p < Len(f)
  <2>1. Len(Store(f, p, d)) = Len(f)
    BY <1>2 DEF Store
  <2> QED
    BY <1>1, <1>2, <2>1
<1>3. CASE ~(p < Len(f))
  <2>1. Len(Store(f, p, d)) = p + 1
    BY <1>3 DEF Store
  <2> QED
    BY <1>1, <1>3, <2>1
<1> QED
  BY <1>2, <1>3

LEMMA ForceRefines ==
  ASSUME TableInv, RefinesInv, TableInv', Doing("force"), forcePage(op.client), Advance,
         UNCHANGED <<total_pages, op>>
  PROVE  RefinesInv' /\ Table!Next
<1>0. PICK p : p = Head(todo).page
  OBVIOUS
<1>1. At = "force" /\ todo # <<>> /\ Quiet
  BY HeadIs DEF Doing, TableInv, CallInProgress
<1>2. /\ call'.op = "none"
      /\ UNCHANGED <<mgmtData, pagenum, pagedata, handle>>
      /\ stat'.lastposition = stat.lastposition
  BY <1>1, PoolTyped DEF forcePage, Quiet, Count
<1>3. /\ op.name \in Writers /\ At' \in {"end", "count"}
      /\ (At' = "count" <=> op.name = "insertRecord")
      /\ p \in PagesOf(op.name)
  <2>1. <<At, At'>> \in Order(op.name) /\ (At' = "count" <=> op.name = "insertRecord")
        /\ p \in PagesOf(op.name)
    BY <1>0, <1>1, <1>2, Takes
  <2> QED
    BY <1>1, <2>1, OrderKnown
<1>4. op.client = RecordPage /\ RecordPage \in Clients
  BY <1>1, <1>3, TableConstants DEF TableInv, CallInProgress, Writers, Begins
<1>5. PICK i \in Frames : i = handle[RecordPage].data
  BY <1>1, <1>3, RecordUsed
<1>6. /\ before # NULL /\ mgmtData /\ pagenum[i] = p /\ handle[RecordPage].pageNum = p
      /\ pagedata[i] \in Filling(p, Base(p))
      /\ \A d \in Content :
           View(pagenum, Put(pagedata, i, d), Position) = Table!Using(Base(p), p, d)
  BY <1>0, <1>1, <1>3, <1>5, RecordUsed DEF Using
<1>7. /\ p \in 0..MaxRecords /\ p \in Nat /\ p # NoPage
      /\ total_pages \in Nat /\ total_pages <= MaxRecords /\ MaxRecords \in Nat
  BY <1>0, <1>1, HeadIs, TableConstants DEF TableInv, CallInProgress, NoPage
<1>8. /\ op.name = "insertRecord" => p = total_pages + 1
      /\ op.name = "updateRecord" => p \in 0..total_pages
      /\ op.name = "deleteRecord" => p \in 1..total_pages
  BY <1>3, PagesAre
<1>9. total_pages < Len(disk) /\ p <= Len(disk) /\ Len(disk) \in Nat
  <2>1. total_pages < Len(disk)
    BY <1>3, <1>6 DEF RefinesInv, FileSoFar, Writers
  <2>2. Len(disk) \in Nat
    BY PoolTyped
  <2>3. op.name = "insertRecord" \/ op.name = "updateRecord" \/ op.name = "deleteRecord"
    BY <1>3 DEF Writers
  <2> QED
    BY <1>7, <1>8, <2>1, <2>2, <2>3
<1>10. disk' = WriteBlock(disk, Len(disk), p, pagedata[i])
  <2>1. ~NotHeld(RecordPage)
    BY <1>6 DEF NotHeld
  <2>2. PICK j \in Frames : HeldAt(RecordPage, j) /\ disk' = Written(j)
    BY <1>4, <1>6, <1>7, <2>1 DEF forcePage
  <2>3. pagenum[j] = pagenum[i] /\ pagenum[i] # NoPage
    BY <1>6, <1>7, <2>2 DEF HeldAt
  <2>4. j = i
    BY <2>3, OnlyOne
  <2> QED
    BY <1>6, <2>2, <2>4 DEF Written
<1>11. disk' \in Seq(Content) /\ Len(disk') \in Nat /\ Len(disk') >= Len(disk) /\ Len(disk') > p
  <2>1. Len(disk') >= Len(disk) /\ Len(disk') > p
    BY <1>7, <1>9, <1>10, PoolTyped, Grows
  <2>2. disk' \in Seq(Content)
    BY DEF TableInv, IInv, TypeOK
  <2>3. \A f \in Seq(Content) : Len(f) \in Nat
    OBVIOUS
  <2> QED
    BY <2>1, <2>2, <2>3
<1>12. FileSoFar'
  <2>1. total_pages < Len(disk')
    BY <1>7, <1>9, <1>11
  <2>2. At' = "count" => total_pages + 1 < Len(disk')
    BY <1>3, <1>8, <1>11
  <2> QED
    BY <2>1, <2>2 DEF FileSoFar
<1>13. RefinesInv'
  BY <1>1, <1>2, <1>3, <1>12, EndsRecord
<1>14. /\ Seen.open /\ Seen'.open
       /\ Seen.pool = before.pool /\ Seen.file = disk
       /\ Seen'.file = WriteBlock(Seen.file, Len(Seen.file), p, pagedata[i])
       /\ Counted = total_pages
       /\ Counted' = IF op.name = "insertRecord" THEN total_pages + 1 ELSE total_pages
       /\ returned' = [op |-> op.name, rc |-> "RC_OK",
                       out |-> Table!Record(p, op.data)]
       /\ Seen'.pool = View(pagenum', pagedata', Position')
  <2>1. /\ Seen = before
        /\ Seen.file = disk /\ Seen.open = (op.name # "openTable")
        /\ Seen'.file = disk' /\ Seen'.open = mgmtData'
        /\ Seen'.pool = View(pagenum', pagedata', Position')
        /\ Counted = total_pages
        /\ Counted' = IF op.name = "insertRecord" THEN total_pages + 1 ELSE total_pages
        /\ returned' = Result
    BY <1>1, <1>2, <1>3, TakesEffect
  <2>2. /\ op.name \in {"insertRecord", "updateRecord", "deleteRecord"}
        /\ op.name # "openTable" /\ last'.rc = "RC_OK"
    BY <1>3 DEF Writers, TableInv, CallsSucceed
  <2>3. returned' = [op |-> op.name, rc |-> "RC_OK", out |-> Table!Record(p, op.data)]
    BY <1>0, <2>1, <2>2 DEF Result
  <2> QED
    BY <1>2, <1>6, <1>10, <2>1, <2>2, <2>3
<1>15. Seen'.pool = Table!Using(Seen.pool, p, pagedata[i])
  <2>1. Position' = Position
    BY <1>2 DEF Position
  <2>2. View(pagenum, pagedata, Position) = Table!Using(Base(p), p, pagedata[i])
    BY <1>6, SameContent
  <2>3. Base(p) = before.pool
    BY <1>3 DEF Base, Writers
  <2> QED
    BY <1>2, <1>14, <2>1, <2>2, <2>3
<1>16. /\ op.name = "deleteRecord" => pagedata[i] \in Table!Marked(Table!Shown(TableName, Seen.pool, p))
       /\ op.name # "deleteRecord" => pagedata[i] = op.data /\ op.data \in Values
  <2>1. Base(p) = Seen.pool
    BY <1>3, <1>14 DEF Base, Writers
  <2>2. Table!Shown(TableName, Seen.pool, p) = ShownIn(disk, Base(p), p)
    BY <1>14, <2>1, ShownIs
  <2>3. op.name \notin Readers /\ At # "fill"
    BY <1>1, <1>3 DEF Writers, Readers
  <2>4. op.name # "deleteRecord" => op.data \in Values
    BY <1>1, <1>3 DEF TableInv, CallInProgress, Writers
  <2> QED
    BY <1>6, <2>2, <2>3, <2>4 DEF Filling
<1>17. CASE op.name = "insertRecord"
  <2>1. /\ p = Counted + 1 /\ Counted < MaxRecords /\ Counted' = Counted + 1
        /\ pagedata[i] = op.data /\ op.data \in Values
    BY <1>7, <1>8, <1>14, <1>16, <1>17
  <2>2. Table!insertRecord(Relation, op.data)
    BY <1>14, <1>15, <1>17, <2>1, InsertIs
  <2> QED
    BY <1>13, <2>1, <2>2, IsNext
<1>18. CASE op.name = "updateRecord"
  <2>1. /\ p >= 0 /\ p <= Counted /\ Counted' = Counted
        /\ pagedata[i] = op.data /\ op.data \in Values
    BY <1>7, <1>8, <1>14, <1>16, <1>18
  <2>2. Table!updateRecord(Relation, p, op.data)
    BY <1>14, <1>15, <1>18, <2>1, UpdateIs
  <2> QED
    BY <1>7, <1>13, <2>1, <2>2, IsNext
<1>19. CASE op.name = "deleteRecord"
  <2>1. /\ p > 0 /\ p <= Counted /\ Counted' = Counted
        /\ pagedata[i] \in Table!Marked(Table!Shown(TableName, Seen.pool, p))
        /\ op.data = NULL
    BY <1>1, <1>7, <1>8, <1>14, <1>16, <1>19 DEF TableInv, CallInProgress
  <2>2. Table!deleteRecord(Relation, p)
    BY <1>14, <1>15, <1>19, <2>1, DeleteIs
  <2> QED
    BY <1>7, <1>13, <2>2, IsNext
<1> QED
  BY <1>3, <1>17, <1>18, <1>19 DEF Writers

LEMMA ShutdownFacts ==
  ASSUME TableInv, todo # <<>>, At = "shutdown"
  PROVE  /\ op.name = "closeTable" /\ mgmtData
         /\ \A i \in Frames : ~dirtybit[i]
<1>1. <<At, StepAt(Tail(todo), 1)>> \in Order(op.name)
  BY TailOrdered DEF TableInv, CallInProgress, At
<1> QED
  BY <1>1, OrderKnown DEF TableInv, PinsSoFar, DirtySoFar

\* shutdownBufferPool and its flush, which has nothing to write.
LEMMA FlushRefines ==
  ASSUME TableInv, RefinesInv, TableInv', Advance, UNCHANGED <<total_pages, op>>,
         \/ Doing("shutdown") /\ shutdownBufferPool
         \/ FlushFrame
  PROVE  RefinesInv' /\ UNCHANGED Table!vars
<1>1. At = "shutdown" /\ todo # <<>>
  BY HeadIs DEF Doing, TableInv, CallInProgress, FlushFrame, Flushing, LoopSoFar
<1>2. op.name = "closeTable" /\ mgmtData /\ \A i \in Frames : ~dirtybit[i]
  BY <1>1, ShutdownFacts
<1>3. /\ call'.op # "none"
      /\ UNCHANGED <<disk, mgmtData, pagenum, pagedata, stat, handle>>
  <2>1. CASE shutdownBufferPool
    BY <2>1 DEF shutdownBufferPool, StartLoop, NoCall, frames
  <2>2. CASE FlushFrame
    <3>1. call.op = "shutdown" /\ call.index \in Frames
      <4>1. call.op = "shutdown" /\ call.index \in 0..NumPages /\ call.index < NumPages
        BY <2>2 DEF FlushFrame, Flushing, TableInv, LoopSoFar, IInv, TypeOK, Call
      <4> QED
        BY <4>1, Constants DEF Frames
    <3>2. call'.op = "shutdown"
      BY <2>2, <3>1 DEF FlushFrame, TableInv, IInv, TypeOK, Call
    <3> QED
      BY <1>2, <2>2, <3>1, <3>2 DEF FlushFrame, Flushable
  <2> QED
    BY <2>1, <2>2
<1>4. todo' = todo /\ At' = At /\ before # NULL /\ Paged(todo, op.name)'
  BY <1>1, <1>3, Takes
<1>5. BeforeSoFar' /\ UNCHANGED Table!vars
  BY <1>1, <1>3, Stutters
<1>6. FileSoFar' /\ FramesSoFar' /\ OpenSoFar' /\ RecordSoFar'
  BY <1>1, <1>2, <1>3, <1>4
     DEF RefinesInv, FileSoFar, FramesSoFar, OpenSoFar, RecordSoFar, Writers, Readers
<1> QED
  BY <1>4, <1>5, <1>6 DEF RefinesInv

LEMMA ShutdownRefines ==
  ASSUME TableInv, RefinesInv, TableInv', Advance, UNCHANGED <<total_pages, op>>, ShutdownDone
  PROVE  RefinesInv' /\ Table!Next
<1>1. At = "shutdown" /\ todo # <<>>
  BY HeadIs DEF TableInv, CallInProgress, ShutdownDone, LoopSoFar
<1>2. op.name = "closeTable" /\ mgmtData
  BY <1>1, ShutdownFacts
<1>3. /\ call'.op = "none" /\ ~mgmtData' /\ mgmtData' = FALSE /\ disk' = disk
      /\ \A i \in Frames : pagenum'[i] = NoPage
  BY DEF ShutdownDone, NoCall, EmptyPool
<1>4. At' = "end" /\ Paged(todo, op.name)'
  <2>1. <<At, At'>> \in Order(op.name) /\ Paged(todo, op.name)'
    BY <1>1, <1>3, Takes
  <2> QED
    BY <1>1, <2>1, OrderKnown
<1>5. /\ BeforeSoFar'
      /\ Seen.file = disk /\ Seen.open = (op.name # "openTable")
      /\ Seen'.file = disk' /\ Seen'.open = mgmtData'
      /\ Seen'.pool = View(pagenum', pagedata', Position')
      /\ Counted = total_pages
      /\ Counted' = IF op.name = "insertRecord" THEN total_pages + 1 ELSE total_pages
      /\ returned' = Result /\ last'.rc = "RC_OK"
  BY <1>1, <1>3, <1>4, TakesEffect DEF TableInv, CallsSucceed
<1>6. Filled(pagenum') /\ Seen'.pool = Table!NoPool
  <2>1. Position' = 0
    BY <1>3 DEF Position
  <2> QED
    BY <1>3, <1>5, <2>1, EmptyView
<1>7. returned' = [op |-> "closeTable", rc |-> "RC_OK", out |-> NULL]
  BY <1>2, <1>5 DEF Result
<1>8. Table!closeTable(Relation)
  BY <1>2, <1>3, <1>5, <1>6, <1>7, CloseIs
<1>9. FileSoFar' /\ FramesSoFar' /\ OpenSoFar' /\ RecordSoFar'
  BY <1>2, <1>3, <1>4, <1>6
     DEF RefinesInv, FileSoFar, FramesSoFar, OpenSoFar, RecordSoFar, Writers, Readers
<1> QED
  BY <1>4, <1>5, <1>8, <1>9, IsNext DEF RefinesInv

LEMMA CountRefines ==
  ASSUME TableInv, RefinesInv, TableInv', CountRecord
  PROVE  RefinesInv' /\ UNCHANGED Table!vars
<1>1. At = "count" /\ todo # <<>> /\ Quiet /\ UNCHANGED <<vars, op>>
  BY HeadIs DEF CountRecord, Doing, TableInv, CallInProgress
<1>2. /\ call'.op = "none" /\ todo' = Tail(todo) /\ total_pages' = total_pages + 1
      /\ UNCHANGED <<disk, mgmtData, pagenum, pagedata, stat, handle>>
  BY <1>1 DEF CountRecord, Advance, Quiet, vars, frames
<1>3. Ordered(Tail(todo), op.name) /\ <<At, StepAt(Tail(todo), 1)>> \in Order(op.name)
  BY <1>1, TailOrdered DEF TableInv, CallInProgress, At
<1>4. op.name \in Writers /\ StepAt(Tail(todo), 1) = "end"
  BY <1>1, <1>3, OrderKnown
<1>5. todo' = <<>> /\ At' = "end"
  BY <1>2, <1>3, <1>4, EndIsEnd DEF Ordered, At, StepAt
<1>6. before = NULL /\ before' = NULL /\ returned' = returned
  <2>1. before = NULL
    BY <1>1 DEF RefinesInv, BeforeSoFar
  <2> QED
    BY <2>1 DEF CountRecord, Advance
<1>7. UNCHANGED Table!vars
  <2>1. Now' = Now
    BY <1>2 DEF Now, Loaded
  <2>2. Seen' = Seen
    BY <1>6, <2>1 DEF Seen
  <2>3. Counted' = Counted
    BY <1>1, <1>2, <1>5, CountedIs
  <2> QED
    BY <1>6, <2>2, <2>3 DEF Table!vars, Counted
<1>8. FileSoFar'
  BY <1>1, <1>2, <1>5 DEF RefinesInv, FileSoFar
<1>9. /\ FramesSoFar' /\ OpenSoFar' /\ RecordSoFar' /\ BeforeSoFar'
  BY <1>1, <1>2, <1>4, <1>5, <1>6
     DEF RefinesInv, FramesSoFar, OpenSoFar, RecordSoFar, BeforeSoFar, Writers, Readers
<1>10. Paged(todo, op.name)'
  <2>1. todo' = <<>> /\ Len(<<>>) = 0
    BY <1>5
  <2>2. \A k \in 1..Len(todo') : FALSE
    BY <2>1
  <2> QED
    BY <2>2 DEF Paged
<1> QED
  BY <1>7, <1>8, <1>9, <1>10 DEF RefinesInv

-----------------------------------------------------------------------------
(***************************************************************************)
(* What happens between two calls.                                         *)
(***************************************************************************)
LEMMA NothingPaged == ASSUME todo' = <<>> PROVE Paged(todo, op.name)'
<1>1. Len(<<>>) = 0
  OBVIOUS
<1>2. \A k \in 1..Len(todo') : FALSE
  BY <1>1
<1> QED
  BY <1>2 DEF Paged

LEMMA FileRefines ==
  ASSUME TableInv, RefinesInv, TableInv', createTable \/ deleteTable
  PROVE  RefinesInv' /\ Table!Next
<1>1. /\ UNCHANGED <<mgmtData, pagedata, pagenum, stat, handle, call, op, todo, before>>
      /\ todo = <<>> /\ ~mgmtData
  BY DEF createTable, deleteTable, frames
<1>2. At = "end" /\ At' = "end" /\ todo' = <<>>
  BY <1>1 DEF At, StepAt
<1>3. before = NULL /\ before' = NULL
  BY <1>1, <1>2 DEF RefinesInv, BeforeSoFar
<1>4. Seen = Now /\ Seen' = Now'
  BY <1>3 DEF Seen
<1>5. /\ Seen.open = FALSE /\ Seen'.open = FALSE /\ Seen'.pool = Seen.pool
      /\ Seen.file = disk /\ Seen'.file = disk'
  <2>1. Position' = Position /\ mgmtData \in BOOLEAN
    BY <1>1 DEF Position, TableInv, IInv, TypeOK
  <2>2. View(pagenum', pagedata', Position') = View(pagenum, pagedata, Position)
    BY <1>1, <2>1
  <2> QED
    BY <1>1, <1>4, <2>1, <2>2, NowIs, NowAfter
<1>6. Counted = total_pages /\ Counted' = total_pages'
  BY <1>2, CountedIs
<1>7. Table!Next
  <2>1. CASE createTable
    <3>1. \/ Seen.file # <<>> /\ Seen'.file = <<Zero>> /\ Counted' = Counted
          \/ Seen.file = <<>> /\ Seen'.file = <<Schema>> /\ Counted' = 0
      BY <1>5, <1>6, <2>1 DEF createTable
    <3>2. returned' = [op |-> "createTable",
                       rc |-> IF Seen.file # <<>> THEN "RC_TABLE_EXISTS" ELSE "RC_OK",
                       out |-> NULL]
      BY <1>5, <2>1 DEF createTable
    <3>3. Table!createTable(TableName)
      BY <1>5, <3>1, <3>2, CreateIs
    <3> QED
      BY <3>3, IsNext
  <2>2. CASE deleteTable
    <3>1. Seen'.file = <<>> /\ Counted' = Counted
      BY <1>5, <1>6, <2>2 DEF deleteTable
    <3>2. returned' = [op |-> "deleteTable",
                       rc |-> IF Seen.file # <<>> THEN "RC_OK" ELSE "RC_FILE_NOT_DELETED",
                       out |-> NULL]
      BY <1>5, <2>2 DEF deleteTable
    <3>3. Table!deleteTable(TableName)
      BY <1>5, <3>1, <3>2, DropIs
    <3> QED
      BY <3>3, IsNext
  <2> QED
    BY <2>1, <2>2
<1>8. FileSoFar'
  <2>1. disk' # <<>> /\ disk'[1] = Schema => total_pages' < Len(disk')
    <3>1. CASE disk' = <<Zero>>
      BY <3>1, TableSchemaAssumption
    <3>2. CASE disk' = <<Schema>> /\ total_pages' = 0
      BY <3>2
    <3>3. CASE disk' = <<>>
      BY <3>3
    <3> QED
      BY <3>1, <3>2, <3>3 DEF createTable, deleteTable
  <2> QED
    BY <1>1, <1>2, <2>1 DEF FileSoFar
<1>9. FramesSoFar' /\ OpenSoFar' /\ RecordSoFar' /\ BeforeSoFar'
  BY <1>1, <1>2, <1>3
     DEF RefinesInv, FramesSoFar, OpenSoFar, RecordSoFar, BeforeSoFar
<1> QED
  BY <1>2, <1>7, <1>8, <1>9, NothingPaged DEF RefinesInv

LEMMA EndRefines ==
  ASSUME TableInv, RefinesInv, TableInv', EndOfProcess
  PROVE  RefinesInv' /\ Table!Next
<1>1. /\ total_pages' = 0 /\ todo' = <<>> /\ before' = NULL
      /\ op'.name = "none" /\ disk' = disk
      /\ returned' = [op |-> "initRecordManager", rc |-> "RC_OK", out |-> NULL]
  BY DEF EndOfProcess, NoOp, Crash, vars
<1>2. At' = "end"
  BY <1>1 DEF At, StepAt
<1>3. mgmtData' = FALSE /\ \A i \in Frames : pagenum'[i] = NoPage
  <2>1. CASE Crash
    BY <2>1 DEF Crash, EmptyPool
  <2>2. CASE ~mgmtData /\ UNCHANGED vars
    BY <2>2 DEF vars, frames, TableInv, DirtySoFar, IInv, TypeOK
  <2> QED
    BY <2>1, <2>2 DEF EndOfProcess
<1>4. Filled(pagenum') /\ Now'.pool = Table!NoPool
  <2>1. Position' = 0
    BY <1>3 DEF Position
  <2> QED
    BY <1>3, <2>1, EmptyView, NowAfter
<1>5. Seen.file = disk
  BY NowIs DEF Seen, RefinesInv, BeforeSoFar
<1>6. Seen' = Now'
  BY <1>1 DEF Seen
<1>7. Counted' = 0
  BY <1>1, <1>2, CountedIs
<1>8. Table!Crash
  BY <1>1, <1>3, <1>4, <1>5, <1>6, <1>7, NowAfter, EndIs
<1>9. FileSoFar'
  <2>1. disk \in Seq(Content)
    BY PoolTyped
  <2>2. disk # <<>> => 0 < Len(disk)
    BY <2>1
  <2> QED
    BY <1>1, <1>2, <1>3, <2>2 DEF FileSoFar
<1>10. FramesSoFar' /\ OpenSoFar' /\ RecordSoFar' /\ BeforeSoFar'
  BY <1>1, <1>2, <1>3, <1>4 DEF FramesSoFar, OpenSoFar, RecordSoFar, BeforeSoFar
<1> QED
  BY <1>1, <1>8, <1>9, <1>10, NothingPaged, IsNext DEF RefinesInv

LEMMA SameRefines ==
  ASSUME RefinesInv, UNCHANGED <<vars, tableVars>>
  PROVE  RefinesInv' /\ UNCHANGED Table!vars
<1>1. /\ UNCHANGED <<disk, mgmtData, pagedata, pagenum, stat, handle, call>>
      /\ UNCHANGED <<total_pages, op, todo, before, returned>>
  BY DEF vars, frames, tableVars
<1>2. At' = At
  BY <1>1 DEF At, StepAt
<1>3. Now' = Now
  BY <1>1 DEF Now, Loaded
<1>4. UNCHANGED Table!vars
  <2>1. Seen' = Seen
    BY <1>1, <1>3 DEF Seen
  <2> QED
    BY <1>1, <2>1 DEF Table!vars
<1>5. FileSoFar' /\ FramesSoFar' /\ BeforeSoFar' /\ OpenSoFar'
  BY <1>1, <1>2, <1>3 DEF RefinesInv, FileSoFar, FramesSoFar, BeforeSoFar, OpenSoFar
<1>6. Paged(todo, op.name)'
  BY <1>1 DEF RefinesInv, Paged, PagesOf, StepAt
<1>7. RecordSoFar'
  <2>1. PICK p : p = Head(todo).page
    OBVIOUS
  <2>2. Base(p)' = Base(p) /\ Position' = Position
    BY <1>1 DEF Base, Position
  <2>3. Pinning(p, Base(p))' <=> Pinning(p, Base(p))
    BY <1>1, <1>3, <2>2 DEF Pinning
  <2>4. Filling(p, Base(p))' = Filling(p, Base(p))
    BY <1>1, <1>2, <2>2 DEF Filling
  <2>5. Using(p, Base(p)) => Using(p, Base(p))'
    BY <1>1, <1>2, <2>2, <2>4 DEF Using
  <2>6. Head(todo').page = p
    BY <1>1, <2>1
  <2> QED
    BY <1>1, <1>2, <2>1, <2>3, <2>5, <2>6 DEF RefinesInv, RecordSoFar
<1> QED
  BY <1>4, <1>5, <1>6, <1>7 DEF RefinesInv

-----------------------------------------------------------------------------
LEMMA PoolRefines ==
  ASSUME TableInv, RefinesInv, TableInv', PoolStep
  PROVE  RefinesInv' /\ (Table!Next \/ UNCHANGED Table!vars)
<1>1. Advance /\ UNCHANGED <<total_pages, op>>
  BY DEF PoolStep
<1>2. CASE Doing("init") /\ initBufferPool(NumPages, "RS_FIFO")
  BY <1>1, <1>2, InitRefines
<1>3. CASE /\ Doing("pin")
           /\ \/ PinEmpty(op.client, Head(todo).page)
              \/ PinHit(op.client, Head(todo).page)
              \/ PinMissFifo(op.client, Head(todo).page)
  <2>1. At = "pin" /\ todo # <<>>
    BY <1>3, HeadIs DEF Doing, TableInv, CallInProgress
  <2> QED
    BY <1>1, <1>3, <2>1, EmptyRefines, HitRefines, MissRefines
<1>4. CASE Doing("mark") /\ markDirty(op.client)
  BY <1>1, <1>4, MarkRefines
<1>5. CASE Doing("unpin") /\ unpinPage(op.client)
  BY <1>1, <1>5, UnpinRefines
<1>6. CASE Doing("force") /\ forcePage(op.client)
  BY <1>1, <1>6, ForceRefines
<1>7. CASE Doing("shutdown") /\ shutdownBufferPool
  BY <1>1, <1>7, FlushRefines
<1>8. CASE FlushFrame
  BY <1>1, <1>8, FlushRefines
<1>9. CASE ShutdownDone
  BY <1>1, <1>9, ShutdownRefines
<1>10. CASE FifoEvict \/ FifoSkip
  <2>1. todo # <<>>
    BY <1>1, <1>10, StepFifo
  <2> QED
    BY <1>1, <1>10, <2>1, SkipRefines, EvictRefines
<1>11. ~FlushDone
  BY DEF FlushDone, TableInv, LoopSoFar
<1> QED
  BY <1>2, <1>3, <1>4, <1>5, <1>6, <1>7, <1>8, <1>9, <1>10, <1>11 DEF PoolStep, Continue

LEMMA StepRefines ==
  ASSUME TableInv, RefinesInv, TableInv', [TableNext]_<<vars, tableVars>>
  PROVE  RefinesInv' /\ (Table!Next \/ UNCHANGED Table!vars)
<1>1. CASE UNCHANGED <<vars, tableVars>>
  BY <1>1, SameRefines
<1>2. CASE TableNext
  BY <1>2, CallRefines, PoolRefines, FillRefines, ParseRefines, SchemaRefines,
     CountRefines, FileRefines, EndRefines DEF TableNext
<1> QED
  BY <1>1, <1>2

LEMMA InitRefinesInit == TableInit => RefinesInv /\ Table!Init
<1> SUFFICES ASSUME TableInit PROVE RefinesInv /\ Table!Init
  OBVIOUS
<1>1. /\ disk = <<>> /\ mgmtData = FALSE /\ total_pages = 0 /\ todo = <<>> /\ before = NULL
      /\ op.name = "none"
      /\ \A i \in Frames : pagenum[i] = NoPage
      /\ returned = [op |-> "initRecordManager", rc |-> "RC_OK", out |-> NULL]
  BY DEF TableInit, NoOp
<1>2. At = "end"
  BY <1>1 DEF At, StepAt
<1>3. Filled(pagenum) /\ Now.pool = Table!NoPool
  <2>1. Position = 0
    BY <1>1 DEF Position
  <2> QED
    BY <1>1, <2>1, EmptyView, NowIs
<1>4. Paged(todo, op.name)
  <2>1. Len(todo) = 0
    BY <1>1
  <2>2. \A k \in 1..Len(todo) : FALSE
    BY <2>1
  <2> QED
    BY <2>2 DEF Paged
<1>5. FileSoFar /\ FramesSoFar /\ BeforeSoFar /\ OpenSoFar /\ RecordSoFar
  BY <1>1, <1>2, <1>3 DEF FileSoFar, FramesSoFar, BeforeSoFar, OpenSoFar, RecordSoFar
<1>6. Table!Init
  <2>1. Seen.file = <<>> /\ Seen.open = FALSE /\ Seen.pool = Table!NoPool
    BY <1>1, <1>3, NowIs DEF Seen
  <2>2. ~(Len(todo) = 1 /\ Head(todo).step = "count")
    <3>1. Len(todo) = 0
      BY <1>1
    <3> QED
      BY <3>1
  <2> QED
    BY <1>1, <2>1, <2>2, NoScans DEF Table!Init
<1> QED
  BY <1>4, <1>5, <1>6 DEF RefinesInv

(***************************************************************************)
(* The calls of the record manager are atomic: step by step through the    *)
(* buffer manager, with the process ending between any two steps, each of  *)
(* them does to the file, the pool and the count of records what RecordMgr *)
(* has it do in one step, or has done nothing when the process ends.       *)
(***************************************************************************)
THEOREM CallsAreAtomic == TableSpec => ImplementsRecordMgr
<1>1. TableInit => TableInv /\ RefinesInv /\ Table!Init
  BY TableInitInv, InitRefinesInit
<1>2. TableInv /\ RefinesInv /\ [TableNext]_<<vars, tableVars>> =>
        TableInv' /\ RefinesInv' /\ [Table!Next]_(Table!vars)
  <2> SUFFICES ASSUME TableInv, RefinesInv, [TableNext]_<<vars, tableVars>>
               PROVE  TableInv' /\ RefinesInv' /\ [Table!Next]_(Table!vars)
    OBVIOUS
  <2>1. TableInv'
    BY TableInvStep
  <2> QED
    BY <2>1, StepRefines
<1> QED
  BY <1>1, <1>2, PTL DEF TableSpec, Table!Spec, ImplementsRecordMgr
=============================================================================
