------------------------- MODULE ReorderQueueProofs -------------------------
(***************************************************************************)
(* What the queue operations do, as facts about their operators: numbers   *)
(* become offsets from the head, and push is described by what it keeps,   *)
(* what it drops and what is new.                                          *)
(***************************************************************************)
EXTENDS ReorderQueue, SeqNumProofs

(* What the assumption on the window size gives in arithmetic. *)
LEMMA QueueSizeFacts ==
  /\ QueueSize \in Nat \ {0}
  /\ 2 <= QueueSize
  /\ QueueSize < SeqHalf
  /\ QueueSize + 2 < SeqMod
  /\ SeqHalf + 2 < SeqMod
  BY QueueSizeAssumption, SeqModFacts

(* Quotient and remainder. *)
LEMMA ModEq == ASSUME NEW m \in Nat \ {0}, NEW x \in Int PROVE x = m * (x \div m) + (x % m) /\ x % m \in 0..m-1 /\ x \div m \in Int
  OBVIOUS

(* No multiple of m but zero lies strictly between -m and m. *)
LEMMA NoSmallMultiple == ASSUME NEW m \in Nat \ {0}, NEW k \in Int, m * k < m, m * k > -m PROVE k = 0
  <1>1. CASE k >= 1
    <2>1. m * k = m + m * (k-1)
      OBVIOUS
    <2>2. m * (k-1) >= 0
      BY <1>1
    <2> QED BY <2>1, <2>2
  <1>2. CASE k <= -1
    <2>1. m * k = -m + m * (k+1)
      OBVIOUS
    <2>2. m * (k+1) <= 0
      BY <1>2
    <2> QED BY <2>1, <2>2
  <1> QED BY <1>1, <1>2

(* Multiplication distributes over a difference. *)
LEMMA Distribute == ASSUME NEW m \in Int, NEW x \in Int, NEW y \in Int PROVE m * (x - y) = m * x - m * y
  OBVIOUS

(* Numbers less than m apart with the same remainder are equal. *)
LEMMA ModDiff == ASSUME NEW m \in Nat \ {0}, NEW x \in Int, NEW y \in Int, x % m = y % m, x - y < m, y - x < m PROVE x = y
  <1> DEFINE k == (x \div m) - (y \div m)
  <1>1. x - y = m * (x \div m) - m * (y \div m)
    <2> DEFINE A == m * (x \div m)
               B == m * (y \div m)
    <2>1. x = A + (x % m) /\ x % m \in Int /\ A \in Int
      BY ModEq
    <2>2. y = B + (y % m) /\ y % m \in Int /\ B \in Int
      BY ModEq
    <2> HIDE DEF A, B
    <2>3. x - y = A - B
      BY <2>1, <2>2
    <2> QED
      BY <2>3 DEF A, B
  <1>2. m * (x \div m) - m * (y \div m) = m * k
    <2>1. x \div m \in Int /\ y \div m \in Int /\ m \in Int
      BY ModEq
    <2> QED BY <2>1, Distribute
  <1>3. k \in Int
   BY ModEq
  <1> HIDE DEF k
  <1>4. k = 0
    BY <1>1, <1>2, <1>3, NoSmallMultiple
  <1> QED BY <1>1, <1>2, <1>4

(* Taking a multiple of m away keeps the remainder. *)
LEMMA ModShift == ASSUME NEW m \in Nat \ {0}, NEW x \in Int, NEW k \in Int PROVE (x - m * k) % m = x % m
  <1> DEFINE r == (x - m * k) % m
             d == (x - m * k) \div m
  <1>1. x - m * k = m * d + r /\ r \in 0..m-1 /\ d \in Int
    BY ModEq, SMTT(30)
  <1>2. x = m * (x \div m) + (x % m) /\ x % m \in 0..m-1 /\ x \div m \in Int
    BY ModEq
  <1> DEFINE j == (x \div m) - k - d
  <1>3. m * j = r - (x % m)
    <2>1. m * ((x \div m) - k) = m * (x \div m) - m * k
      BY <1>2, Distribute
    <2>2. m * (((x \div m) - k) - d) = m * ((x \div m) - k) - m * d
      BY <1>1, <1>2, Distribute
    <2>3. m * j = m * (x \div m) - m * k - m * d
      BY <2>1, <2>2
    <2> DEFINE A == m * (x \div m)
               B == m * k
               C == m * d
    <2>4. A \in Int /\ B \in Int /\ C \in Int /\ r \in Int /\ x % m \in Int
      BY <1>1, <1>2
    <2>5. x - B = C + r /\ x = A + (x % m)
      BY <1>1, <1>2
    <2>6. m * j = A - B - C
      BY <2>3
    <2> HIDE DEF A, B, C, j, r
    <2> QED BY <2>4, <2>5, <2>6
  <1> HIDE DEF r, d
  <1>4. j \in Int BY <1>1, <1>2
  <1> HIDE DEF j
  <1>5. j = 0
    BY <1>1, <1>2, <1>3, <1>4, NoSmallMultiple
  <1>6. r = x % m
    BY <1>1, <1>2, <1>3, <1>5
  <1> QED BY <1>6 DEF r

(* Masking a sequence number gives a slot of the array. *)
LEMMA IdxType == ASSUME NEW s \in SeqNums PROVE Idx(s) \in 0 .. QueueSize - 1
  BY QueueSizeFacts, ModEq, SeqModFacts DEF Idx, SeqNums

(* The wrap of the number space does not disturb the masking, since the window size divides it. *)
LEMMA IdxOfAdd ==
  ASSUME NEW a \in SeqNums, NEW i \in 0 .. SeqMod
  PROVE  Idx(SeqAdd(a, i)) = (a + i) % QueueSize
  <1>1. CASE a + i < SeqMod
    BY <1>1, AddValue DEF Idx
  <1>2. CASE ~(a + i < SeqMod)
    <2>1. PICK k \in 1 .. SeqMod : SeqMod = k * QueueSize
      BY QueueSizeAssumption
    <2>2. SeqMod = QueueSize * k
      BY <2>1, QueueSizeFacts, SeqModFacts
    <2>3. a + i \in Int /\ k \in Int
      BY SeqModFacts DEF SeqNums
    <2>4. ((a + i) - QueueSize * k) % QueueSize = (a + i) % QueueSize
      BY <2>3, QueueSizeFacts, ModShift
    <2>5. SeqAdd(a, i) = (a + i) - SeqMod
      <3>1. SeqAdd(a, i) = IF a + i < SeqMod THEN a + i ELSE a + i - SeqMod
        BY AddValue
      <3> QED
        BY <1>2, <3>1, SeqModFacts DEF SeqNums
    <2>6. SeqAdd(a, i) = (a + i) - QueueSize * k
      BY <2>2, <2>5
    <2> QED
      BY <2>4, <2>6 DEF Idx
  <1> QED
    BY <1>1, <1>2

(* Numbers of one window never share a slot. *)
LEMMA IdxInjective ==
  ASSUME NEW a \in SeqNums, NEW i \in 0 .. QueueSize - 1, NEW j \in 0 .. QueueSize - 1,
         Idx(SeqAdd(a, i)) = Idx(SeqAdd(a, j))
  PROVE  i = j
  <1>1. i \in 0 .. SeqMod /\ j \in 0 .. SeqMod /\ a \in Int
    BY QueueSizeFacts, SeqModFacts DEF SeqNums
  <1>2. (a + i) % QueueSize = (a + j) % QueueSize
    BY <1>1, IdxOfAdd
  <1>3. /\ a + i \in Int
        /\ a + j \in Int
        /\ (a + i) - (a + j) < QueueSize
        /\ (a + j) - (a + i) < QueueSize
    BY <1>1, QueueSizeFacts
  <1>4. a + i = a + j
    BY <1>2, <1>3, QueueSizeFacts, ModDiff
  <1> QED
    BY <1>1, <1>4

-----------------------------------------------------------------------------

Off(q, s) == SeqDist(q.begin, s)

(* Types of the parts of a queue value. *)
LEMMA QueueFacts ==
  ASSUME NEW q \in Queues
  PROVE  /\ q.begin \in SeqNums
         /\ q.count \in Nat
         /\ q.count <= QueueSize
         /\ q.count \in 0 .. SeqMod - 1
         /\ q.count \in 0 .. SeqMod
         /\ \A i \in 0 .. QueueSize : i \in 0 .. SeqMod - 1 /\ i \in 0 .. SeqMod
         /\ \A i \in 0 .. SeqMod : SeqAt(q, i) \in SeqNums
         /\ \A i \in 0 .. QueueSize : SeqAt(q, i) \in SeqNums
         /\ \A i \in 0 .. SeqMod : SlotAt(q, i) \in Slots
         /\ End(q) \in SeqNums
         /\ Off(q, End(q)) = q.count
  <1>1. q.begin \in SeqNums /\ q.count \in 0 .. QueueSize
    BY DEF Queues
  <1>2. \A i \in 0 .. QueueSize : i \in 0 .. SeqMod - 1 /\ i \in 0 .. SeqMod
    BY QueueSizeFacts, SeqModFacts
  <1>3. \A i \in 0 .. SeqMod : SeqAt(q, i) \in SeqNums
    BY <1>1, AddType DEF SeqAt
  <1>4. \A i \in 0 .. SeqMod : SlotAt(q, i) \in Slots
    BY <1>3, IdxType DEF SlotAt, Queues
  <1>5. End(q) \in SeqNums /\ Off(q, End(q)) = q.count
    BY <1>1, <1>2, AddType, DistOfAdd DEF End, Off
  <1>6. \A i \in 0 .. QueueSize : SeqAt(q, i) \in SeqNums
    BY <1>2, <1>3
  <1>7. q.count \in Nat /\ q.count <= QueueSize
    BY <1>1, QueueSizeFacts
  <1> QED
    BY <1>1, <1>2, <1>3, <1>4, <1>5, <1>6, <1>7

(* Every number has an offset from the head and is found there. *)
LEMMA OffType ==
  ASSUME NEW q \in Queues, NEW s \in SeqNums
  PROVE  Off(q, s) \in 0 .. SeqMod - 1 /\ SeqAt(q, Off(q, s)) = s
  BY QueueFacts, DistType, AddOfDist DEF Off, SeqAt

(* The number at offset i has offset i. *)
LEMMA OffOfSeqAt ==
  ASSUME NEW q \in Queues, NEW i \in 0 .. SeqMod - 1
  PROVE  Off(q, SeqAt(q, i)) = i
  BY QueueFacts, DistOfAdd DEF Off, SeqAt

(* The ge/lt test of push (line 68) is a comparison of offsets. *)
LEMMA InWindowByOffset ==
  ASSUME NEW q \in Queues, NEW s \in SeqNums
  PROVE  InWindow(q, s) <=> Off(q, s) < q.count
  <1> DEFINE d == Off(q, s)
             c == q.count
  <1>1. d \in 0 .. SeqMod - 1 /\ c \in 0 .. QueueSize
    BY OffType, QueueFacts, QueueSizeFacts
  <1>2. SeqGe(s, q.begin) <=> d < SeqHalf
    BY GeByDist, QueueFacts DEF Off
  <1>3. SeqLt(s, End(q)) <=> SeqDist(s, End(q)) \in 1 .. SeqHalf - 1
    BY LtByDist, QueueFacts
  <1>4. SeqDist(s, End(q)) = IF d <= c THEN c - d ELSE c - d + SeqMod
    BY DistSplit, QueueFacts DEF Off
  <1> HIDE DEF d, c
  <1>5. (d < SeqHalf /\ SeqDist(s, End(q)) \in 1 .. SeqHalf - 1) <=> d < c
    BY <1>1, <1>4, QueueSizeFacts, SeqModFacts
  <1> QED
    BY <1>2, <1>3, <1>5 DEF InWindow, d, c

(* The lt test of push (line 78): more than half the space ahead is behind. *)
LEMMA OldByOffset ==
  ASSUME NEW q \in Queues, NEW s \in SeqNums
  PROVE  Old(q, s) <=> Off(q, s) > SeqHalf
  <1> DEFINE d == Off(q, s)
             c == q.count
  <1>1. d \in 0 .. SeqMod - 1 /\ c \in 0 .. QueueSize
    BY OffType, QueueFacts, QueueSizeFacts
  <1>2. SeqLt(s, q.begin) <=> SeqDist(s, q.begin) \in 1 .. SeqHalf - 1
    BY LtByDist, QueueFacts
  <1>3. SeqDist(s, q.begin) = IF d = 0 THEN 0 ELSE SeqMod - d
    BY DistBack, DistZero, QueueFacts DEF Off
  <1>4. InWindow(q, s) <=> d < c
    BY InWindowByOffset
  <1> HIDE DEF d, c
  <1>5. Old(q, s) <=> d > SeqHalf
    BY <1>1, <1>2, <1>3, <1>4, QueueSizeFacts, SeqModFacts DEF Old
  <1> QED
    BY <1>5 DEF d

(* The branch at line 82 is taken exactly half the space ahead of an empty window. *)
LEMMA IncomparableByOffset ==
  ASSUME NEW q \in Queues, NEW s \in SeqNums
  PROVE  Incomparable(q, s) <=> Off(q, s) = SeqHalf /\ q.count = 0
  <1> DEFINE d == Off(q, s)
             c == q.count
  <1>1. d \in 0 .. SeqMod - 1 /\ c \in 0 .. QueueSize
    BY OffType, QueueFacts, QueueSizeFacts
  <1>2. SeqLt(s, q.begin) <=> SeqDist(s, q.begin) \in 1 .. SeqHalf - 1
    BY LtByDist, QueueFacts
  <1>3. SeqDist(s, q.begin) = IF d = 0 THEN 0 ELSE SeqMod - d
    BY DistBack, DistZero, QueueFacts DEF Off
  <1>4. InWindow(q, s) <=> d < c
    BY InWindowByOffset
  <1>5. SeqGe(s, End(q)) <=> SeqDist(End(q), s) < SeqHalf
    BY GeByDist, QueueFacts
  <1>6. SeqDist(End(q), s) = IF c <= d THEN d - c ELSE d - c + SeqMod
    BY DistSplit, QueueFacts DEF Off
  <1> HIDE DEF d, c
  <1>7. Incomparable(q, s) <=> d = SeqHalf /\ c = 0
    BY <1>1, <1>2, <1>3, <1>4, <1>5, <1>6, QueueSizeFacts, SeqModFacts DEF Incomparable
  <1> QED
    BY <1>7 DEF d, c

(* The test at line 99 and the number of rounds of its loop, in offsets. *)
LEMMA ExcessByOffset ==
  ASSUME NEW q \in Queues, NEW s \in SeqNums, Off(q, s) <= SeqHalf
  PROVE  /\ Overreaches(q, s) <=> Off(q, s) >= QueueSize
         /\ Excess(q, s) = IF Off(q, s) >= QueueSize THEN Off(q, s) + 1 - QueueSize ELSE 0
  <1> DEFINE d == Off(q, s)
             t == TotalEnd(q)
             n == SeqAdd(s, 1)
  <1>1. d \in 0 .. SeqMod - 1
    BY OffType
  <1>2. t = SeqAdd(q.begin, QueueSize)
    <2>1. q.count \in Nat /\ QueueSize - q.count \in Nat /\ q.count + (QueueSize - q.count) = QueueSize
      BY QueueFacts, QueueSizeFacts
    <2> QED
      BY <2>1, AddTwice, QueueFacts, QueueSizeFacts DEF TotalEnd, End
  <1>3. t \in SeqNums /\ SeqDist(q.begin, t) = QueueSize
    BY <1>2, AddType, DistOfAdd, QueueFacts, QueueSizeFacts
  <1>4. n = SeqAdd(q.begin, d + 1)
    <2>1. SeqAdd(q.begin, d) = s
      BY OffType DEF SeqAt
    <2> QED
      BY <1>1, <2>1, AddTwice, QueueFacts, SeqModFacts
  <1>5. n \in SeqNums /\ SeqDist(q.begin, n) = d + 1
    <2>1. d + 1 \in 0 .. SeqMod - 1 /\ d + 1 \in 0 .. SeqMod
      BY <1>1, QueueSizeFacts, SeqModFacts
    <2> QED
      BY <1>4, <2>1, AddType, DistOfAdd, QueueFacts
  <1>6. SeqDist(t, n) = IF QueueSize <= d + 1 THEN d + 1 - QueueSize ELSE d + 1 - QueueSize + SeqMod
    <2>1. q.begin \in SeqNums
      BY QueueFacts
    <2>2. SeqDist(t, n) = IF SeqDist(q.begin, t) <= SeqDist(q.begin, n)
                            THEN SeqDist(q.begin, n) - SeqDist(q.begin, t)
                            ELSE SeqDist(q.begin, n) - SeqDist(q.begin, t) + SeqMod
      BY <1>3, <1>5, <2>1, DistSplit
    <2> HIDE DEF d, t, n
    <2> QED
      BY <1>1, <1>3, <1>5, <2>2, QueueSizeFacts, SeqModFacts
  <1>7. SeqLt(t, n) <=> SeqDist(t, n) \in 1 .. SeqHalf - 1
    BY <1>3, <1>5, LtByDist
  <1>8. d <= SeqHalf
    OBVIOUS
  <1>9. /\ Overreaches(q, s) <=> SeqLt(t, n)
        /\ Excess(q, s) = IF SeqLt(t, n) THEN SeqDist(t, n) ELSE 0
    BY DEF Overreaches, Excess
  <1> HIDE DEF d, t, n
  <1>10. SeqLt(t, n) <=> d >= QueueSize
    BY <1>1, <1>6, <1>7, <1>8, QueueSizeFacts, SeqModFacts
  <1>11. d >= QueueSize => SeqDist(t, n) = d + 1 - QueueSize
    BY <1>1, <1>6, QueueSizeFacts
  <1> QED
    BY <1>9, <1>10, <1>11 DEF d

(* The fill loop opens the slots up to the new element. *)
LEMMA FillCountByOffset ==
  ASSUME NEW q \in Queues, NEW s \in SeqNums, q.count <= Off(q, s), Off(q, s) < QueueSize
  PROVE  FillCount(q, s) = Off(q, s) + 1 - q.count
  <1> DEFINE d == Off(q, s)
             e == End(q)
             n == SeqAdd(s, 1)
             c == q.count
  <1>1. d \in 0 .. SeqMod - 1 /\ c \in Nat
    BY OffType, QueueFacts
  <1>2. e \in SeqNums /\ SeqDist(q.begin, e) = c
    BY QueueFacts DEF Off
  <1>3. n = SeqAdd(q.begin, d + 1)
    <2>1. SeqAdd(q.begin, d) = s
      BY OffType DEF SeqAt
    <2> QED
      BY <1>1, <2>1, AddTwice, QueueFacts, SeqModFacts
  <1>4. n \in SeqNums /\ SeqDist(q.begin, n) = d + 1
    <2>1. d + 1 \in 0 .. SeqMod - 1 /\ d + 1 \in 0 .. SeqMod
      BY <1>1, QueueSizeFacts, SeqModFacts
    <2> QED
      BY <1>3, <2>1, AddType, DistOfAdd, QueueFacts
  <1>5. SeqDist(e, n) = IF SeqDist(q.begin, e) <= SeqDist(q.begin, n)
                          THEN SeqDist(q.begin, n) - SeqDist(q.begin, e)
                          ELSE SeqDist(q.begin, n) - SeqDist(q.begin, e) + SeqMod
    BY <1>2, <1>4, DistSplit, QueueFacts
  <1>6. SeqLt(e, n) <=> SeqDist(e, n) \in 1 .. SeqHalf - 1
    BY <1>2, <1>4, LtByDist
  <1>7. FillCount(q, s) = IF SeqLt(e, n) THEN SeqDist(e, n) ELSE 0
    BY DEF FillCount
  <1>8. c <= d /\ d < QueueSize
    OBVIOUS
  <1> HIDE DEF d, e, n, c
  <1>9. SeqDist(e, n) = d + 1 - c
    BY <1>1, <1>2, <1>4, <1>5, <1>8
  <1>10. FillCount(q, s) = d + 1 - c
    BY <1>1, <1>6, <1>7, <1>8, <1>9, QueueSizeFacts, SeqModFacts
  <1> QED
    BY <1>10 DEF d, c

(* A queue with another count and slot array is a queue. *)
LEMMA QueueFill ==
  ASSUME NEW q \in Queues, NEW m \in 0 .. QueueSize,
         NEW f \in [0 .. QueueSize - 1 -> Slots]
  PROVE  [q EXCEPT !.count = m, !.slot = f] \in Queues
  BY DEF Queues

(* A queue with another head and count is a queue. *)
LEMMA QueueMove ==
  ASSUME NEW q \in Queues, NEW b \in SeqNums, NEW m \in 0 .. QueueSize
  PROVE  [q EXCEPT !.begin = b, !.count = m] \in Queues
  BY DEF Queues

(* The slots of a window are different ones. *)
LEMMA SlotsDiffer ==
  ASSUME NEW q \in Queues, NEW i \in 0 .. QueueSize - 1, NEW j \in 0 .. QueueSize - 1, i # j
  PROVE  Idx(SeqAt(q, i)) # Idx(SeqAt(q, j))
  BY IdxInjective, QueueFacts DEF SeqAt

(* Storing in the window changes one slot of it. *)
LEMMA StoreEffect ==
  ASSUME NEW q \in Queues, NEW s \in SeqNums, NEW p \in Packets, Off(q, s) < q.count
  PROVE  /\ Store(q, s, p) \in Queues
         /\ Store(q, s, p).begin = q.begin
         /\ Store(q, s, p).count = q.count
         /\ \A i \in 0 .. q.count - 1 :
              SlotAt(Store(q, s, p), i) =
                IF i = Off(q, s) THEN [set |-> TRUE, user |-> p] ELSE SlotAt(q, i)
  <1> DEFINE r == Store(q, s, p)
             d == Off(q, s)
  <1>1. [set |-> TRUE, user |-> p] \in Slots
    BY DEF Slots
  <1>2. Idx(s) \in 0 .. QueueSize - 1
    BY IdxType
  <1>3. r \in Queues /\ r.begin = q.begin /\ r.count = q.count
    BY <1>1, <1>2 DEF Store, Queues
  <1>4. ASSUME NEW i \in 0 .. q.count - 1
        PROVE  SlotAt(r, i) = IF i = d THEN [set |-> TRUE, user |-> p] ELSE SlotAt(q, i)
    <2>1. i \in 0 .. QueueSize - 1 /\ i \in 0 .. QueueSize /\ d \in 0 .. QueueSize - 1
      BY OffType, QueueFacts, QueueSizeFacts, SeqModFacts
    <2>2. SeqAt(q, d) = s /\ SeqAt(r, i) = SeqAt(q, i)
      BY <1>3, OffType DEF SeqAt
    <2>3. i # d => Idx(SeqAt(q, i)) # Idx(s)
      BY <2>1, <2>2, SlotsDiffer
    <2>4. Idx(SeqAt(q, i)) \in 0 .. QueueSize - 1
      BY <2>1, IdxType, QueueFacts
    <2>5. r.slot = [q.slot EXCEPT ![Idx(s)] = [set |-> TRUE, user |-> p]]
      BY DEF Store, Queues
    <2>6. DOMAIN q.slot = 0 .. QueueSize - 1
      BY DEF Queues
    <2> HIDE DEF r, d
    <2> QED
      BY <1>2, <2>2, <2>3, <2>4, <2>5, <2>6 DEF SlotAt
  <1> QED
    BY <1>3, <1>4

(* Filling keeps the old slots and opens cleared ones up to the new element. *)
LEMMA FillEffect ==
  ASSUME NEW q \in Queues, NEW s \in SeqNums, q.count <= Off(q, s), Off(q, s) < QueueSize
  PROVE  /\ Fill(q, s) \in Queues
         /\ Fill(q, s).begin = q.begin
         /\ Fill(q, s).strategy = q.strategy
         /\ Fill(q, s).count = Off(q, s) + 1
         /\ \A i \in 0 .. q.count - 1 : SlotAt(Fill(q, s), i) = SlotAt(q, i)
         /\ \A i \in q.count .. Off(q, s) : ~SlotAt(Fill(q, s), i).set
  <1> DEFINE r == Fill(q, s)
             d == Off(q, s)
             c == q.count
             n == FillCount(q, s)
             opened == {Idx(SeqAdd(End(q), j)) : j \in 0 .. n - 1}
  <1>1. d \in 0 .. QueueSize - 1 /\ c \in 0 .. QueueSize /\ n = d + 1 - c
    BY OffType, QueueFacts, QueueSizeFacts, SeqModFacts, FillCountByOffset
  <1>2. ASSUME NEW j \in 0 .. n - 1
        PROVE  SeqAdd(End(q), j) = SeqAt(q, c + j)
    <2>1. c \in Nat /\ j \in Nat /\ c + j <= SeqMod
      BY <1>1, QueueSizeFacts, SeqModFacts
    <2> QED
      BY <2>1, AddTwice, QueueFacts DEF End, SeqAt
  <1>3. opened = {Idx(SeqAt(q, c + j)) : j \in 0 .. n - 1}
    BY <1>2
  <1>4. /\ r.begin = q.begin
        /\ r.strategy = q.strategy
        /\ r.count = c + n
        /\ r.slot = [i \in DOMAIN q.slot |-> IF i \in opened
                                               THEN [q.slot[i] EXCEPT !.set = FALSE]
                                               ELSE q.slot[i]]
    BY DEF Fill, Queues
  <1>5. DOMAIN q.slot = 0 .. QueueSize - 1 /\ q.slot \in [0 .. QueueSize - 1 -> Slots]
    BY DEF Queues
  <1>6. r.count = d + 1
    BY <1>1, <1>4
  <1>7. r \in Queues
    <2>1. \A i \in 0 .. QueueSize - 1 : [q.slot[i] EXCEPT !.set = FALSE] \in Slots
      BY <1>5 DEF Slots
    <2>2. r.slot \in [0 .. QueueSize - 1 -> Slots]
      BY <1>4, <1>5, <2>1
    <2>3. r = [q EXCEPT !.count = r.count, !.slot = r.slot]
      BY <1>4 DEF Fill, Queues
    <2>4. r.count \in 0 .. QueueSize
      BY <1>1, <1>6, QueueSizeFacts
    <2> DEFINE f == r.slot
               m == r.count
    <2> HIDE DEF f, m
    <2>5. [q EXCEPT !.count = m, !.slot = f] \in Queues
      BY <2>2, <2>4, QueueFill DEF f, m
    <2> QED
      BY <2>3, <2>5 DEF f, m
  <1>8. ASSUME NEW i \in 0 .. d
        PROVE  /\ SlotAt(r, i) = r.slot[Idx(SeqAt(q, i))]
               /\ Idx(SeqAt(q, i)) \in 0 .. QueueSize - 1
               /\ i \in 0 .. QueueSize - 1
    <2>1. i \in 0 .. QueueSize - 1 /\ i \in 0 .. QueueSize
      BY <1>1, QueueSizeFacts
    <2>2. SeqAt(r, i) = SeqAt(q, i)
      BY <1>4 DEF SeqAt
    <2> QED
      BY <2>1, <2>2, IdxType, QueueFacts DEF SlotAt
  <1>9. ASSUME NEW i \in 0 .. c - 1
        PROVE  SlotAt(r, i) = SlotAt(q, i)
    <2>1. i \in 0 .. d
      BY <1>1
    <2>2. ASSUME NEW j \in 0 .. n - 1 PROVE Idx(SeqAt(q, i)) # Idx(SeqAt(q, c + j))
      <3>1. c + j \in 0 .. QueueSize - 1 /\ i # c + j
        <4> HIDE DEF c, d, n
        <4> QED
          BY <1>1, QueueSizeFacts
      <3> QED
        BY <1>8, <2>1, <3>1, SlotsDiffer
    <2>3. Idx(SeqAt(q, i)) \notin opened
      BY <1>3, <2>2
    <2> HIDE DEF opened, r
    <2> QED
      BY <1>4, <1>5, <1>8, <2>1, <2>3 DEF SlotAt
  <1>10. ASSUME NEW i \in c .. d
         PROVE  ~SlotAt(r, i).set
    <2>1. i \in 0 .. d /\ i - c \in 0 .. n - 1 /\ c + (i - c) = i
      BY <1>1
    <2>2. Idx(SeqAt(q, i)) \in opened
      BY <1>3, <2>1
    <2>3. q.slot[Idx(SeqAt(q, i))] \in Slots
      BY <1>5, <1>8, <2>1
    <2> HIDE DEF opened, r
    <2>4. SlotAt(r, i) = [q.slot[Idx(SeqAt(q, i))] EXCEPT !.set = FALSE]
      BY <1>4, <1>5, <1>8, <2>1, <2>2
    <2> QED
      BY <2>3, <2>4 DEF Slots
  <1> QED
    BY <1>4, <1>6, <1>7, <1>9, <1>10

(* A number ahead of the window, not further than half the space. *)
Ahead(q, s) == Off(q, s) >= q.count /\ Off(q, s) <= SeqHalf

(* Dropping from the head makes room for the new element and gives back what it passes. *)
LEMMA ShedEffect ==
  ASSUME NEW q \in Queues, NEW s \in SeqNums, Ahead(q, s)
  PROVE  /\ Shed(q, s) \in Queues
         /\ Shed(q, s).slot = q.slot
         /\ Shed(q, s).strategy = q.strategy
         /\ Shed(q, s).count <= Off(Shed(q, s), s)
         /\ Off(Shed(q, s), s) < QueueSize
         /\ \E k \in 0 .. q.count :
              /\ Shed(q, s).count = q.count - k
              /\ k < q.count => Shed(q, s).begin = SeqAt(q, k)
              /\ Evicted(q, s) = {SlotAt(q, i).user : i \in {j \in SetOffsets(q) : j < k}}
              /\ Off(q, s) < QueueSize => Shed(q, s) = q
  <1> DEFINE d == Off(q, s)
             c == q.count
             k == ShedCount(q, s)
             r == Shed(q, s)
  <1>1. d \in 0 .. SeqMod - 1 /\ c \in 0 .. QueueSize /\ c <= d /\ d <= SeqHalf
    BY OffType, QueueFacts, QueueSizeFacts DEF Ahead
  <1>2. /\ Overreaches(q, s) <=> d >= QueueSize
        /\ Excess(q, s) = IF d >= QueueSize THEN d + 1 - QueueSize ELSE 0
    BY <1>1, ExcessByOffset
  <1>3. Evicted(q, s) = {SlotAt(q, i).user : i \in {j \in SetOffsets(q) : j < k}}
    BY DEF Evicted
  <1>4. CASE d < QueueSize
    <2>1. r = q
      BY <1>1, <1>2, <1>4, QueueSizeFacts DEF Shed
    <2>2. k = 0
      <3>1. Excess(q, s) = 0
        BY <1>1, <1>2, <1>4, QueueSizeFacts
      <3> QED
        BY <1>1, <3>1 DEF ShedCount
    <2>3. 0 \in 0 .. q.count /\ q.count - 0 = q.count
      BY <1>1, QueueSizeFacts
    <2>4. SeqAt(q, 0) = q.begin
      BY AddValue, QueueFacts, SeqModFacts DEF SeqAt, SeqNums
    <2>5. /\ r \in Queues /\ r.slot = q.slot /\ r.strategy = q.strategy
          /\ r.count <= Off(r, s) /\ Off(r, s) < QueueSize
      BY <1>1, <1>4, <2>1
    <2>6. /\ r.count = q.count - 0
          /\ r.begin = SeqAt(q, 0)
          /\ Evicted(q, s) = {SlotAt(q, i).user : i \in {j \in SetOffsets(q) : j < 0}}
      BY <1>3, <2>1, <2>2, <2>3, <2>4
    <2> QED
      BY <2>1, <2>3, <2>5, <2>6
  <1>5. CASE d >= QueueSize
    <2>1. k \in 0 .. c /\ k = IF d + 1 - QueueSize < c THEN d + 1 - QueueSize ELSE c
      <3>1. Excess(q, s) = d + 1 - QueueSize
        BY <1>2, <1>5
      <3> QED
        BY <1>1, <1>5, <3>1, QueueSizeFacts DEF ShedCount
    <2>2. r = [q EXCEPT !.begin = IF k = c THEN s ELSE SeqAdd(q.begin, k), !.count = c - k]
      BY <1>2, <1>5 DEF Shed
    <2>3. /\ r.begin = IF k = c THEN s ELSE SeqAt(q, k)
          /\ r.count = c - k
          /\ r.slot = q.slot
          /\ r.strategy = q.strategy
      BY <2>2 DEF Queues, SeqAt
    <2>4. r \in Queues
      <3>1. r.begin \in SeqNums
        <4>1. k \in 0 .. QueueSize
          BY <1>1, <2>1, QueueSizeFacts
        <4> QED
          BY <2>3, <4>1, QueueFacts
      <3>2. r.count \in 0 .. QueueSize
        <4> HIDE DEF r, k, c
        <4> QED
          BY <1>1, <2>1, <2>3, QueueSizeFacts
      <3>3. r = [q EXCEPT !.begin = r.begin, !.count = r.count]
        BY <2>2, <2>3 DEF Queues
      <3> DEFINE b == r.begin
                 m == r.count
      <3>4. b \in SeqNums /\ m \in 0 .. QueueSize
        BY <3>1, <3>2
      <3>5. q.slot \in [0 .. QueueSize - 1 -> Slots]
        BY DEF Queues
      <3> HIDE DEF b, m
      <3>6. [q EXCEPT !.begin = b, !.count = m] \in Queues
        BY <3>4, <3>5, QueueMove
      <3> QED
        BY <3>3, <3>6 DEF b, m
    <2>5. r.count <= Off(r, s) /\ Off(r, s) < QueueSize
      <3>1. CASE k = c
        <4>1. Off(r, s) = 0
          BY <2>3, <3>1, DistZero DEF Off
        <4> QED
          BY <1>1, <2>3, <3>1, <4>1, QueueSizeFacts
      <3>2. CASE k # c
        <4>1. k = d + 1 - QueueSize /\ k < c
          BY <2>1, <3>2
        <4>2. r.begin = SeqAt(q, k) /\ k \in 0 .. SeqMod - 1
          <5>1. k \in 0 .. QueueSize
            BY <1>1, <2>1, QueueSizeFacts
          <5> QED
            BY <2>3, <3>2, <5>1, QueueFacts
        <4>3. r.begin \in SeqNums /\ SeqDist(q.begin, r.begin) = k
          BY <2>4, <4>2, OffOfSeqAt DEF Off, Queues
        <4>4. SeqDist(r.begin, s) = IF SeqDist(q.begin, r.begin) <= SeqDist(q.begin, s)
                                      THEN SeqDist(q.begin, s) - SeqDist(q.begin, r.begin)
                                      ELSE SeqDist(q.begin, s) - SeqDist(q.begin, r.begin) + SeqMod
          BY <4>3, DistSplit, QueueFacts
        <4>5. Off(r, s) = IF k <= d THEN d - k ELSE d - k + SeqMod
          BY <4>3, <4>4 DEF Off
        <4> HIDE DEF r, k, d, c
        <4> QED
          BY <1>1, <1>5, <2>1, <2>3, <4>1, <4>5, QueueSizeFacts
      <3> QED
        BY <3>1, <3>2
    <2>6. k \in 0 .. q.count /\ (k < q.count => r.begin = SeqAt(q, k))
      BY <1>1, <2>1, <2>3, QueueSizeFacts
    <2>7. ~(d < QueueSize)
      BY <1>1, <1>5, QueueSizeFacts
    <2> QED
      BY <1>3, <2>3, <2>4, <2>5, <2>6, <2>7
  <1> QED
    BY <1>1, <1>4, <1>5, QueueSizeFacts

(* What an accepted push does to the window, in one statement: k slots left *)
(* at the head, the others kept their number and content, and the pushed    *)
(* packet is the only new one.                                              *)
Kept(q, r, k) ==
  \A j \in k .. q.count - 1 :
    SlotAt(q, j).set =>
      /\ j - k \in Offsets(r)
      /\ SlotAt(r, j - k) = SlotAt(q, j)
      /\ SeqAt(r, j - k) = SeqAt(q, j)

OnlyNew(q, r, k, s, p) ==
  \A i \in SetOffsets(r) :
    \/ /\ SeqAt(r, i) = s
       /\ SlotAt(r, i).user = p
    \/ /\ i + k \in SetOffsets(q)
       /\ SlotAt(r, i) = SlotAt(q, i + k)
       /\ SeqAt(r, i) = SeqAt(q, i + k)

Stored(r, s, p) ==
  \E i \in Offsets(r) : SlotAt(r, i) = [set |-> TRUE, user |-> p]

(* Offsets shift when the head moves. *)
LEMMA SeqAtShifted ==
  ASSUME NEW q \in Queues, NEW r \in Queues, NEW k \in 0 .. QueueSize, NEW i \in 0 .. QueueSize,
         r.begin = SeqAt(q, k)
  PROVE  SeqAt(r, i) = SeqAt(q, k + i)
  <1>1. k \in Nat /\ i \in Nat /\ k + i <= SeqMod
    BY QueueSizeFacts, SeqModFacts, QueueSizeAssumption
  <1> QED
    BY <1>1, AddTwice, QueueFacts DEF SeqAt

(* A push ahead of the window keeps what it does not drop, and its element is the last one. *)
LEMMA PushAheadEffect ==
  ASSUME NEW q \in Queues, NEW s \in SeqNums, NEW p \in Packets, Ahead(q, s)
  PROVE  LET r == Store(Fill(Shed(q, s), s), s, p)
         IN  /\ r \in Queues
             /\ r.count > 0
             /\ SlotAt(r, r.count - 1).set
             /\ Stored(r, s, p)
             /\ \E k \in 0 .. q.count :
                  /\ Kept(q, r, k)
                  /\ OnlyNew(q, r, k, s, p)
                  /\ Evicted(q, s) = {SlotAt(q, i).user : i \in {j \in SetOffsets(q) : j < k}}
  <1> DEFINE t == Shed(q, s)
             f == Fill(t, s)
             r == Store(f, s, p)
             d == Off(t, s)
  <1>1. PICK k \in 0 .. q.count :
          /\ t.count = q.count - k
          /\ k < q.count => t.begin = SeqAt(q, k)
          /\ Evicted(q, s) = {SlotAt(q, i).user : i \in {j \in SetOffsets(q) : j < k}}
    BY ShedEffect
  <1>2. t \in Queues /\ t.slot = q.slot /\ t.count <= d /\ d < QueueSize
    BY ShedEffect
  <1>3. /\ f \in Queues
        /\ f.begin = t.begin
        /\ f.count = d + 1
        /\ \A i \in 0 .. t.count - 1 : SlotAt(f, i) = SlotAt(t, i)
        /\ \A i \in t.count .. d : ~SlotAt(f, i).set
    BY <1>2, FillEffect
  <1>4. Off(f, s) = d /\ d \in 0 .. QueueSize - 1 /\ d < f.count
    BY <1>2, <1>3, OffType, QueueSizeFacts, SeqModFacts DEF Off
  <1>5. /\ r \in Queues
        /\ r.begin = t.begin
        /\ r.count = d + 1
        /\ \A i \in 0 .. d : SlotAt(r, i) = IF i = d THEN [set |-> TRUE, user |-> p] ELSE SlotAt(f, i)
    <2>1. /\ r \in Queues
          /\ r.begin = f.begin
          /\ r.count = f.count
          /\ \A i \in 0 .. f.count - 1 :
               SlotAt(r, i) = IF i = Off(f, s) THEN [set |-> TRUE, user |-> p] ELSE SlotAt(f, i)
      BY <1>3, <1>4, StoreEffect
    <2>2. \A i \in 0 .. d : i \in 0 .. f.count - 1
      <3> HIDE DEF f, d
      <3> QED
        BY <1>3, <1>4, QueueSizeFacts
    <2> HIDE DEF r, f, d, t
    <2> QED
      BY <1>3, <1>4, <2>1, <2>2
  <1>6. SeqAt(r, d) = s /\ d \in Offsets(r) /\ d = r.count - 1
    <2>1. d \in Offsets(r) /\ d = r.count - 1
      <3> HIDE DEF r, d
      <3> QED
        BY <1>4, <1>5, QueueSizeFacts DEF Offsets
    <2>2. SeqAt(t, d) = s
      BY <1>2, OffType
    <2> QED
      BY <1>5, <2>1, <2>2 DEF SeqAt
  <1>7. SlotAt(r, d) = [set |-> TRUE, user |-> p]
    <2>1. d \in 0 .. d
      BY <1>4, QueueSizeFacts
    <2> QED
      BY <1>5, <2>1
  <1>8. Offsets(r) = 0 .. d
    <2> HIDE DEF r, d
    <2> QED
      BY <1>4, <1>5, QueueSizeFacts DEF Offsets
  <1>9. q.count \in 0 .. QueueSize /\ k \in 0 .. QueueSize /\ t.count \in 0 .. QueueSize
    BY <1>1, <1>2, QueueFacts, QueueSizeFacts
  <1>10. ASSUME NEW i \in 0 .. t.count - 1
         PROVE  /\ i \in 0 .. d /\ i # d
                /\ i + k \in 0 .. q.count - 1
                /\ i + k \in Offsets(q)
                /\ SlotAt(r, i) = SlotAt(q, i + k)
                /\ SeqAt(r, i) = SeqAt(q, i + k)
    <2>1. /\ i \in 0 .. d /\ i # d /\ i + k \in 0 .. q.count - 1 /\ k < q.count
          /\ i \in 0 .. QueueSize
      <3> HIDE DEF d, t
      <3> QED
        BY <1>1, <1>2, <1>4, <1>9, QueueSizeFacts
    <2>2. t.begin = SeqAt(q, k)
      BY <1>1, <2>1
    <2>3. SeqAt(t, i) = SeqAt(q, k + i) /\ k + i = i + k
      BY <1>2, <1>9, <2>1, <2>2, SeqAtShifted
    <2>4. SeqAt(r, i) = SeqAt(t, i)
      BY <1>5 DEF SeqAt
    <2>5. SlotAt(r, i) = SlotAt(t, i)
      BY <1>3, <1>5, <2>1
    <2>6. SlotAt(t, i) = SlotAt(q, i + k)
      BY <1>2, <2>3 DEF SlotAt
    <2> QED
      BY <2>1, <2>3, <2>4, <2>5, <2>6 DEF Offsets
  <1>11. Kept(q, r, k)
    <2> SUFFICES ASSUME NEW j \in k .. q.count - 1
                 PROVE  /\ j - k \in Offsets(r)
                        /\ SlotAt(r, j - k) = SlotAt(q, j)
                        /\ SeqAt(r, j - k) = SeqAt(q, j)
      BY DEF Kept
    <2>1. j - k \in 0 .. t.count - 1 /\ (j - k) + k = j
      <3> HIDE DEF t
      <3> QED
        BY <1>1, <1>9, QueueSizeFacts
    <2> HIDE DEF t, r, d
    <2> QED
      BY <1>8, <1>10, <2>1
  <1>12. OnlyNew(q, r, k, s, p)
    <2> SUFFICES ASSUME NEW i \in SetOffsets(r)
                 PROVE  \/ /\ SeqAt(r, i) = s
                           /\ SlotAt(r, i).user = p
                        \/ /\ i + k \in SetOffsets(q)
                           /\ SlotAt(r, i) = SlotAt(q, i + k)
                           /\ SeqAt(r, i) = SeqAt(q, i + k)
      BY DEF OnlyNew
    <2>1. i \in 0 .. d /\ SlotAt(r, i).set
      BY <1>8 DEF SetOffsets
    <2>2. CASE i = d
      BY <1>6, <1>7, <2>2
    <2>3. CASE i \in 0 .. t.count - 1
      <3>1. i + k \in SetOffsets(q)
        BY <1>10, <2>1, <2>3 DEF SetOffsets
      <3> QED
        BY <1>10, <2>3, <3>1
    <2>4. CASE i \in t.count .. d /\ i # d
      <3>1. SlotAt(r, i) = SlotAt(f, i) /\ ~SlotAt(f, i).set
        <4> HIDE DEF r, f, t, d
        <4> QED
          BY <1>3, <1>5, <2>1, <2>4
      <3> QED
        BY <2>1, <3>1
    <2>5. i \in 0 .. t.count - 1 \/ i \in t.count .. d
      <3> HIDE DEF t, d
      <3> QED
        BY <1>4, <1>9, <2>1, QueueSizeFacts
    <2> QED
      BY <2>2, <2>3, <2>4, <2>5
  <1>13. Stored(r, s, p) /\ SlotAt(r, r.count - 1).set
    BY <1>6, <1>7 DEF Stored
  <1>14. r.count > 0
    <2> HIDE DEF r, d
    <2> QED
      BY <1>4, <1>5, QueueSizeFacts
  <1> HIDE DEF r, t, f, d
  <1>15. \E kk \in 0 .. q.count :
           /\ Kept(q, r, kk)
           /\ OnlyNew(q, r, kk, s, p)
           /\ Evicted(q, s) = {SlotAt(q, i).user : i \in {j \in SetOffsets(q) : j < kk}}
    BY <1>1, <1>11, <1>12
  <1> QED
    BY <1>5, <1>13, <1>14, <1>15 DEF r, t, f

TailSet(q) == q.count > 0 => SlotAt(q, q.count - 1).set

(* A push into an empty slot of the window adds its element and nothing else. *)
LEMMA PushInWindowEffect ==
  ASSUME NEW q \in Queues, NEW s \in SeqNums, NEW p \in Packets,
         Off(q, s) < q.count, ~SlotAt(q, Off(q, s)).set, TailSet(q)
  PROVE  LET r == Store(q, s, p)
         IN  /\ r \in Queues
             /\ r.count > 0
             /\ SlotAt(r, r.count - 1).set
             /\ Stored(r, s, p)
             /\ Kept(q, r, 0)
             /\ OnlyNew(q, r, 0, s, p)
  <1> DEFINE r == Store(q, s, p)
             d == Off(q, s)
             c == q.count
  <1>1. d \in 0 .. c - 1 /\ c \in Nat /\ c > 0 /\ c - 1 \in 0 .. c - 1
    BY OffType, QueueFacts
  <1>2. /\ r \in Queues
        /\ r.begin = q.begin
        /\ r.count = c
        /\ \A i \in 0 .. c - 1 :
             SlotAt(r, i) = IF i = d THEN [set |-> TRUE, user |-> p] ELSE SlotAt(q, i)
    BY StoreEffect
  <1>3. \A i : SeqAt(r, i) = SeqAt(q, i)
    BY <1>2 DEF SeqAt
  <1>4. SeqAt(q, d) = s
    BY OffType
  <1>5. Offsets(r) = 0 .. c - 1 /\ Offsets(q) = 0 .. c - 1
    BY <1>2 DEF Offsets
  <1>6. ~SlotAt(q, d).set
    OBVIOUS
  <1>7. c > 0 => SlotAt(q, c - 1).set
    BY DEF TailSet
  <1> HIDE DEF r, d, c
  <1>8. SlotAt(r, c - 1).set /\ Stored(r, s, p)
    BY <1>1, <1>2, <1>5, <1>7 DEF Stored
  <1>9. ASSUME NEW j \in 0 .. c - 1, SlotAt(q, j).set
        PROVE  j - 0 \in Offsets(r) /\ SlotAt(r, j - 0) = SlotAt(q, j) /\ SeqAt(r, j - 0) = SeqAt(q, j)
    <2>1. j # d /\ j - 0 = j
      BY <1>1, <1>6, <1>9
    <2> QED
      BY <1>2, <1>3, <1>5, <2>1
  <1>10. Kept(q, r, 0)
    BY <1>9 DEF Kept, c
  <1>11. ASSUME NEW i \in SetOffsets(r)
         PROVE  \/ SeqAt(r, i) = s /\ SlotAt(r, i).user = p
                \/ i + 0 \in SetOffsets(q) /\ SlotAt(r, i) = SlotAt(q, i + 0) /\ SeqAt(r, i) = SeqAt(q, i + 0)
    <2>1. i \in 0 .. c - 1 /\ SlotAt(r, i).set /\ i + 0 = i
      BY <1>1, <1>5 DEF SetOffsets
    <2>2. CASE i = d
      BY <1>2, <1>3, <1>4, <2>1, <2>2
    <2>3. CASE i # d
      BY <1>2, <1>3, <1>5, <2>1, <2>3 DEF SetOffsets
    <2> QED
      BY <2>2, <2>3
  <1>12. OnlyNew(q, r, 0, s, p)
    BY <1>11 DEF OnlyNew
  <1> QED
    BY <1>1, <1>2, <1>8, <1>10, <1>12 DEF r

Dropped(q, k) == {SlotAt(q, i).user : i \in {j \in SetOffsets(q) : j < k}}

(* Every accepted push keeps what it does not drop, adds its element, and ends the window with a set slot. *)
LEMMA PushEffect ==
  ASSUME NEW q \in Queues, NEW s \in SeqNums, NEW p \in Packets, ~Rejected(q, s), TailSet(q)
  PROVE  LET r == Push(q, s, p)
         IN  /\ r \in Queues
             /\ r.count > 0
             /\ SlotAt(r, r.count - 1).set
             /\ Stored(r, s, p)
             /\ \E k \in 0 .. q.count :
                  /\ Kept(q, r, k)
                  /\ OnlyNew(q, r, k, s, p)
                  /\ PushDrops(q, s, p) = Dropped(q, k)
  <1> DEFINE r == Push(q, s, p)
  <1>1. q.count \in Nat /\ 0 \in 0 .. q.count /\ q.count \in 0 .. QueueSize
    BY QueueFacts, QueueSizeFacts
  <1>2. Off(q, s) \in 0 .. SeqMod - 1
    BY OffType
  <1>3. CASE InWindow(q, s)
    <2>1. Off(q, s) < q.count
      BY <1>3, InWindowByOffset
    <2>2. SlotAt(q, Off(q, s)) = q.slot[Idx(s)]
      BY OffType DEF SlotAt
    <2>3. ~SlotAt(q, Off(q, s)).set
      BY <1>3, <2>2 DEF Rejected, Duplicate
    <2>4. r = Store(q, s, p) /\ PushDrops(q, s, p) = {}
      BY <1>3 DEF Push, PushDrops
    <2>5. /\ r \in Queues
          /\ r.count > 0
          /\ SlotAt(r, r.count - 1).set
          /\ Stored(r, s, p)
          /\ Kept(q, r, 0)
          /\ OnlyNew(q, r, 0, s, p)
      BY <2>1, <2>3, <2>4, PushInWindowEffect
    <2>6. Dropped(q, 0) = {}
      BY <1>1 DEF Dropped, SetOffsets, Offsets
    <2> HIDE DEF r
    <2> QED
      BY <1>1, <2>4, <2>5, <2>6 DEF r
  <1>4. CASE ~InWindow(q, s) /\ ~Incomparable(q, s)
    <2>1. Ahead(q, s)
      <3>1. ~(Off(q, s) < q.count) /\ ~(Off(q, s) > SeqHalf)
        BY <1>4, InWindowByOffset, OldByOffset DEF Rejected
      <3> QED
        BY <1>1, <1>2, <3>1, SeqModFacts DEF Ahead
    <2>2. Rebased(q, s) = q
      BY <1>4 DEF Rebased, Rebases
    <2>3. r = Store(Fill(Shed(q, s), s), s, p) /\ PushDrops(q, s, p) = Evicted(q, s)
      BY <1>4, <2>2 DEF Push, PushDrops
    <2> HIDE DEF r
    <2> QED
      BY <2>1, <2>3, PushAheadEffect DEF r, Dropped
  <1>5. CASE Incomparable(q, s)
    <2> DEFINE b == Rebased(q, s)
    <2>1. ~InWindow(q, s) /\ Rebases(q, s) /\ q.count = 0
      BY <1>5, IncomparableByOffset DEF Rejected, Incomparable
    <2>2. b = [q EXCEPT !.begin = s]
      BY <2>1 DEF Rebased
    <2>3. b \in Queues /\ b.count = 0 /\ b.begin = s
      BY <2>1, <2>2 DEF Queues
    <2>4. Off(b, s) = 0
      BY <2>3, DistZero DEF Off
    <2>5. Ahead(b, s)
      BY <2>3, <2>4, SeqModFacts DEF Ahead
    <2>6. r = Store(Fill(Shed(b, s), s), s, p) /\ PushDrops(q, s, p) = Evicted(b, s)
      BY <2>1 DEF Push, PushDrops
    <2> HIDE DEF r, b
    <2>7. /\ r \in Queues
          /\ r.count > 0
          /\ SlotAt(r, r.count - 1).set
          /\ Stored(r, s, p)
      BY <2>3, <2>5, <2>6, PushAheadEffect
    <2>8. PICK k \in 0 .. b.count :
            /\ OnlyNew(b, r, k, s, p)
            /\ Evicted(b, s) = {SlotAt(b, i).user : i \in {j \in SetOffsets(b) : j < k}}
      BY <2>3, <2>5, <2>6, PushAheadEffect
    <2>9. SetOffsets(b) = {} /\ SetOffsets(q) = {}
      BY <2>1, <2>3 DEF SetOffsets, Offsets
    <2>10. OnlyNew(q, r, 0, s, p)
      BY <2>8, <2>9 DEF OnlyNew
    <2>11. Kept(q, r, 0)
      BY <2>1 DEF Kept
    <2>12. PushDrops(q, s, p) = Dropped(q, 0)
      BY <2>6, <2>8, <2>9 DEF Dropped
    <2> QED
      BY <1>1, <2>7, <2>10, <2>11, <2>12 DEF r
  <1> QED
    BY <1>3, <1>4, <1>5

(* Giving up k slots at the head, as pull and the skip of takion.c do. *)
Advance(q, k) == [q EXCEPT !.begin = SeqAdd(@, k), !.count = @ - k]

(* A new queue is well typed and empty. *)
LEMMA NewQueueEmpty ==
  ASSUME NEW s \in SeqNums, NEW strategy \in Strategies
  PROVE  /\ NewQueue(s, strategy) \in Queues
         /\ NewQueue(s, strategy).count = 0
         /\ SetOffsets(NewQueue(s, strategy)) = {}
         /\ Content(NewQueue(s, strategy)) = {}
  <1> DEFINE q == NewQueue(s, strategy)
  <1>1. 0 \in 0 .. QueueSize
    BY QueueSizeFacts
  <1>2. [set |-> FALSE, user |-> NoPacket] \in Slots
    BY DEF Slots
  <1>3. q \in Queues
    BY <1>1, <1>2 DEF NewQueue, Queues
  <1>4. q.count = 0
    BY DEF NewQueue
  <1> HIDE DEF q
  <1>5. SetOffsets(q) = {}
    BY <1>4 DEF SetOffsets, Offsets
  <1> QED
    BY <1>3, <1>4, <1>5 DEF Content, q

(* Moving the head by k shifts the offsets of the rest. *)
LEMMA AdvanceEffect ==
  ASSUME NEW q \in Queues, NEW k \in 0 .. q.count
  PROVE  /\ Advance(q, k) \in Queues
         /\ Advance(q, k).count = q.count - k
         /\ \A i \in 0 .. q.count - k - 1 :
              /\ SlotAt(Advance(q, k), i) = SlotAt(q, i + k)
              /\ SeqAt(Advance(q, k), i) = SeqAt(q, i + k)
  <1> DEFINE r == Advance(q, k)
             b == SeqAt(q, k)
             m == q.count - k
  <1>1. k \in 0 .. QueueSize /\ q.count \in 0 .. QueueSize /\ q.count - k \in 0 .. QueueSize
    BY QueueFacts, QueueSizeFacts
  <1>2. r = [q EXCEPT !.begin = b, !.count = m]
    BY DEF Advance, SeqAt
  <1>3. b \in SeqNums /\ m \in 0 .. QueueSize /\ q.slot \in [0 .. QueueSize - 1 -> Slots]
    BY <1>1, QueueFacts DEF Queues
  <1> HIDE DEF b, m
  <1>4. r \in Queues
    <2>1. [q EXCEPT !.begin = b, !.count = m] \in Queues
      BY <1>3, QueueMove
    <2> QED
      BY <1>2, <2>1
  <1>5. r.begin = b /\ r.count = m /\ r.slot = q.slot
    BY <1>2 DEF Queues
  <1> HIDE DEF r
  <1>6. ASSUME NEW i \in 0 .. q.count - k - 1
        PROVE  SlotAt(r, i) = SlotAt(q, i + k) /\ SeqAt(r, i) = SeqAt(q, i + k)
    <2>1. i \in 0 .. QueueSize /\ k + i = i + k
      BY <1>1, QueueSizeFacts
    <2>2. SeqAt(r, i) = SeqAt(q, i + k)
      BY <1>1, <1>4, <1>5, <2>1, SeqAtShifted DEF b
    <2> QED
      BY <1>5, <2>2 DEF SlotAt
  <1> QED
    BY <1>4, <1>5, <1>6 DEF r, m
=============================================================================
