-------------------------- MODULE TakionDataProofs --------------------------
(***************************************************************************)
(* The data channel acknowledges only what it has taken and implements the *)
(* ordered channel, for every number width, window and stream of messages; *)
(* the video queue waits for a missing head no longer than it should, for  *)
(* every number width, window and timeout.                                 *)
(***************************************************************************)
EXTENDS TakionData, TakionAVQueue, ReorderQueueProofs

(* A queue that drops from the end keeps its head, and reaches at most to the new element. *)
LEMMA EndPush ==
  ASSUME NEW q \in Queues, q.strategy = "END", NEW s \in SeqNums, NEW p \in Packets,
         ~Rejected(q, s), TailSet(q)
  PROVE  LET r == Push(q, s, p)
         IN  /\ r \in Queues /\ r.strategy = "END" /\ r.begin = q.begin
             /\ r.count = IF Off(q, s) < q.count THEN q.count ELSE Off(q, s) + 1
             /\ TailSet(r)
             /\ \A i \in SetOffsets(r) :
                  \/ i = Off(q, s) /\ SlotAt(r, i).user = p
                  \/ i \in SetOffsets(q) /\ SlotAt(r, i) = SlotAt(q, i)
  <1> DEFINE r == Push(q, s, p)
             d == Off(q, s)
             f == Fill(q, s)
  <1>1. q.count \in Nat /\ q.count <= QueueSize /\ d \in Nat
    BY QueueFacts, OffType, SeqModFacts
  <1>2. r \in Queues /\ TailSet(r)
    BY PushEffect DEF TailSet
  <1>3. CASE InWindow(q, s)
    <2>1. r = Store(q, s, p) /\ d < q.count
      BY <1>3, InWindowByOffset DEF Push
    <2>2. r.begin = q.begin /\ r.count = q.count
          /\ \A i \in 0 .. q.count - 1 : SlotAt(r, i) = IF i = d THEN [set |-> TRUE, user |-> p] ELSE SlotAt(q, i)
      BY <2>1, StoreEffect
    <2>3. r.strategy = "END"
      BY <2>1 DEF Store, Queues
    <2> HIDE DEF r, d
    <2>4. ASSUME NEW i \in SetOffsets(r)
          PROVE  (i = d /\ SlotAt(r, i).user = p) \/ (i \in SetOffsets(q) /\ SlotAt(r, i) = SlotAt(q, i))
      BY <2>2 DEF SetOffsets, Offsets
    <2> QED
      BY <1>1, <1>2, <2>1, <2>2, <2>3, <2>4 DEF r, d
  <1>4. CASE ~InWindow(q, s)
    <2>1. ~Old(q, s) /\ ~Rebases(q, s) /\ ~Incomparable(q, s)
      BY DEF Rejected, Rebases
    <2>2. Rebased(q, s) = q /\ ~Overreaches(q, s)
      BY <1>4, <2>1 DEF Rebased, Rejected
    <2>3. Shed(q, s) = q
      BY <2>2 DEF Shed
    <2>4. q.count <= d /\ d <= SeqHalf
      BY <1>1, <1>4, <2>1, InWindowByOffset, OldByOffset, SeqModFacts
    <2>5. d < QueueSize
      BY <1>1, <2>2, <2>4, ExcessByOffset, QueueSizeFacts
    <2>6. r = Store(f, s, p)
      BY <1>4, <2>2, <2>3 DEF Push
    <2>7. /\ f \in Queues /\ f.begin = q.begin /\ f.strategy = "END" /\ f.count = d + 1
          /\ \A i \in 0 .. q.count - 1 : SlotAt(f, i) = SlotAt(q, i)
          /\ \A i \in q.count .. d : ~SlotAt(f, i).set
      BY <2>4, <2>5, FillEffect
    <2>8. Off(f, s) = d
      BY <2>7 DEF Off
    <2> HIDE DEF f
    <2>9. r.begin = f.begin /\ r.count = f.count
          /\ \A i \in 0 .. f.count - 1 : SlotAt(r, i) = IF i = d THEN [set |-> TRUE, user |-> p] ELSE SlotAt(f, i)
      BY <1>1, <2>6, <2>7, <2>8, StoreEffect
    <2>10. r.strategy = "END"
      BY <2>6, <2>7 DEF Store, Queues
    <2> HIDE DEF r, d
    <2>11. ASSUME NEW i \in SetOffsets(r)
           PROVE  (i = d /\ SlotAt(r, i).user = p) \/ (i \in SetOffsets(q) /\ SlotAt(r, i) = SlotAt(q, i))
      <3>1. i \in 0 .. f.count - 1 /\ SlotAt(r, i).set
        BY <2>9 DEF SetOffsets, Offsets
      <3>2. CASE i = d
        BY <2>9, <3>1, <3>2
      <3>3. CASE i # d
        <4>1. SlotAt(r, i) = SlotAt(f, i) /\ SlotAt(f, i).set
          BY <2>9, <3>1, <3>3
        <4>2. i \in 0 .. q.count - 1
          BY <1>1, <2>7, <3>1, <4>1
        <4> QED
          BY <2>7, <4>1, <4>2 DEF SetOffsets, Offsets
      <3> QED
        BY <3>2, <3>3
    <2> QED
      BY <1>1, <1>2, <2>4, <2>7, <2>9, <2>10, <2>11 DEF r, d
  <1> QED
    BY <1>3, <1>4

-----------------------------------------------------------------------------
(* The queue reaches no further than what was sent, and the message at each *)
(* offset is the one whose turn is there.                                   *)
DataInv ==
  /\ produced \in 0 .. MaxMessages
  /\ queue \in Queues /\ queue.strategy = "END" /\ TailSet(queue)
  /\ taken + queue.count <= produced
  /\ \A i \in SetOffsets(queue) : SlotAt(queue, i).user = taken + i
  /\ seqNum \in SeqNums /\ ack \in BOOLEAN /\ (ack => SeqDist(FirstRemote, seqNum) < taken)
  /\ acks \subseteq SeqNums /\ AcksCoverOnlyTaken

(* Numbers of messages and of the queue. *)
LEMMA DataFacts ==
  /\ FirstRemote \in SeqNums /\ MaxMessages \in Nat /\ MaxMessages < SeqHalf /\ MaxMessages < SeqMod
  /\ Messages = 0 .. MaxMessages - 1 /\ Packets = 0 .. MaxMessages - 1
  BY TakionDataAssumption, SeqModFacts DEF Messages

(* Nothing is there at first. *)
LEMMA DataInvInit == DataInit => DataInv
  <1> SUFFICES ASSUME DataInit PROVE DataInv
    OBVIOUS
  <1>1. queue = DataQueue /\ produced = 0 /\ seqNum = 0 /\ ack = FALSE /\ acks = {}
    BY DEF DataInit
  <1>2. 0 \in 0 .. QueueSize /\ [set |-> FALSE, user |-> NoPacket] \in Slots /\ "END" \in Strategies
    BY QueueSizeFacts DEF Slots, Strategies
  <1>3. queue \in Queues /\ queue.count = 0 /\ queue.begin = FirstRemote /\ queue.strategy = "END"
    BY <1>1, <1>2, DataFacts DEF DataQueue, NewQueue, Queues
  <1>4. taken = 0
    BY <1>3, DataFacts, DistZero DEF taken
  <1>5. SetOffsets(queue) = {} /\ TailSet(queue)
    BY <1>3 DEF SetOffsets, Offsets, TailSet
  <1>6. produced \in 0 .. MaxMessages /\ seqNum \in SeqNums
    BY <1>1, DataFacts, SeqModFacts DEF SeqNums
  <1>7. taken + queue.count <= produced
    BY <1>1, <1>3, <1>4
  <1>8. \A i \in SetOffsets(queue) : SlotAt(queue, i).user = taken + i
    BY <1>5
  <1>9. ack \in BOOLEAN /\ ~ack /\ acks \subseteq SeqNums /\ AcksCoverOnlyTaken
    BY <1>1 DEF AcksCoverOnlyTaken
  <1> QED
    BY <1>3, <1>5, <1>6, <1>7, <1>8, <1>9 DEF DataInv

(* Where a message that was sent belongs: ahead of the head, unless it was taken. *)
LEMMA OffOfMessage ==
  ASSUME DataInv, NEW n \in Messages
  PROVE  /\ MsgSeq(n) \in SeqNums /\ taken \in Nat
         /\ Off(queue, MsgSeq(n)) = IF taken <= n THEN n - taken ELSE n - taken + SeqMod
  <1>1. n \in 0 .. SeqMod - 1 /\ n \in 0 .. SeqMod /\ queue.begin \in SeqNums /\ FirstRemote \in SeqNums
    BY DataFacts, SeqModFacts, QueueFacts DEF DataInv
  <1>2. MsgSeq(n) \in SeqNums /\ SeqDist(FirstRemote, MsgSeq(n)) = n
    BY <1>1, AddType, DistOfAdd DEF MsgSeq
  <1>3. taken \in 0 .. SeqMod - 1
    BY <1>1, DistType DEF taken
  <1>4. SeqDist(queue.begin, MsgSeq(n)) =
          IF SeqDist(FirstRemote, queue.begin) <= SeqDist(FirstRemote, MsgSeq(n))
            THEN SeqDist(FirstRemote, MsgSeq(n)) - SeqDist(FirstRemote, queue.begin)
            ELSE SeqDist(FirstRemote, MsgSeq(n)) - SeqDist(FirstRemote, queue.begin) + SeqMod
    BY <1>1, <1>2, DistSplit
  <1> QED
    BY <1>2, <1>3, <1>4 DEF taken, Off

(* A packet comes in: it is refused, or takes the place of its turn. *)
LEMMA ArriveStep == ASSUME DataInv, NEW n \in Messages, DataArrives(n) PROVE DataInv' /\ taken' = taken
  <1> DEFINE s == MsgSeq(n)
             r == Push(queue, s, n)
  <1>1. n < produced /\ queue' = r /\ ack' = FALSE /\ seqNum' = 0 /\ UNCHANGED <<produced, acks>>
    BY DEF DataArrives
  <1>2. s \in SeqNums /\ taken \in Nat /\ Off(queue, s) = IF taken <= n THEN n - taken ELSE n - taken + SeqMod
    BY OffOfMessage
  <1>3. produced \in Nat /\ produced < SeqHalf /\ n \in Nat /\ queue.count \in Nat /\ n \in Packets
    <2>1. produced \in 0 .. MaxMessages /\ queue \in Queues
      BY DEF DataInv
    <2>2. queue.count \in Nat
      BY <2>1, QueueFacts
    <2>3. MaxMessages \in Nat /\ MaxMessages < SeqHalf /\ SeqHalf \in Nat
      BY DataFacts, SeqModFacts
    <2>4. n \in 0 .. MaxMessages - 1 /\ n \in Packets
      BY DataFacts
    <2> QED
      BY <2>1, <2>2, <2>3, <2>4
  <1>4. 0 \in SeqNums
    BY SeqModFacts DEF SeqNums
  <1> HIDE DEF s
  <1>5. CASE Rejected(queue, s)
    <2>1. queue' = queue
      BY <1>1, <1>5 DEF Push
    <2> QED
      BY <1>1, <1>4, <2>1 DEF DataInv, AcksCoverOnlyTaken, taken
  <1>6. CASE ~Rejected(queue, s)
    <2>1. taken <= n
      <3>1. SUFFICES ASSUME ~(taken <= n) PROVE FALSE
        OBVIOUS
      <3>2. Off(queue, s) = n - taken + SeqMod /\ taken <= produced
        BY <1>2, <1>3, <3>1 DEF DataInv
      <3>3. Off(queue, s) > SeqHalf
        BY <1>2, <1>3, <3>1, <3>2, SeqModFacts
      <3>4. Old(queue, s)
        BY <1>2, <3>3, OldByOffset DEF DataInv
      <3> QED
        BY <1>6, <3>4 DEF Rejected
    <2>2. Off(queue, s) = n - taken
      BY <1>2, <2>1
    <2>3. /\ r \in Queues /\ r.strategy = "END" /\ r.begin = queue.begin
          /\ r.count = IF Off(queue, s) < queue.count THEN queue.count ELSE Off(queue, s) + 1
          /\ TailSet(r)
          /\ \A i \in SetOffsets(r) :
               \/ i = Off(queue, s) /\ SlotAt(r, i).user = n
               \/ i \in SetOffsets(queue) /\ SlotAt(r, i) = SlotAt(queue, i)
      BY <1>2, <1>3, <1>6, EndPush DEF DataInv
    <2> HIDE DEF r
    <2>4. taken' = taken
      BY <1>1, <2>3 DEF taken
    <2>5. taken + r.count <= produced
      BY <1>1, <1>2, <1>3, <2>1, <2>2, <2>3 DEF DataInv
    <2>6. ASSUME NEW i \in SetOffsets(r) PROVE SlotAt(r, i).user = taken + i
      <3>1. CASE i = n - taken /\ SlotAt(r, i).user = n
        BY <1>2, <1>3, <3>1
      <3>2. CASE i \in SetOffsets(queue) /\ SlotAt(r, i) = SlotAt(queue, i)
        BY <3>2 DEF DataInv
      <3> QED
        BY <2>2, <2>3, <3>1, <3>2
    <2>7. AcksCoverOnlyTaken'
      BY <1>1, <2>4 DEF DataInv, AcksCoverOnlyTaken
    <2>8. produced' \in 0 .. MaxMessages /\ seqNum' \in SeqNums /\ acks' \subseteq SeqNums
      BY <1>1, <1>4 DEF DataInv
    <2> QED
      BY <1>1, <2>3, <2>4, <2>5, <2>6, <2>7, <2>8 DEF DataInv
  <1> QED
    BY <1>5, <1>6

(* The head is pulled: it is the message whose turn it is, and was sent. *)
LEMMA PullStep ==
  ASSUME DataInv, FlushPulls
  PROVE  /\ DataInv'
         /\ taken \in Nat /\ taken' = taken + 1 /\ taken < produced /\ UNCHANGED produced
         /\ handed' = IF taken \in UnknownTypes THEN handed ELSE Append(handed, taken)
  <1> DEFINE r == Pull(queue)
  <1>1. /\ CanPull(queue) /\ queue' = r /\ ack' = TRUE /\ seqNum' = queue.begin /\ UNCHANGED <<produced, acks>>
        /\ handed' = IF PullUser(queue) \in UnknownTypes THEN handed ELSE Append(handed, PullUser(queue))
    BY DEF FlushPulls
  <1>2. queue \in Queues /\ queue.begin \in SeqNums /\ queue.count \in Nat /\ queue.count > 0 /\ queue.strategy = "END"
    BY <1>1, QueueFacts DEF DataInv, CanPull
  <1>3. taken \in 0 .. SeqMod - 1
    BY <1>2, DataFacts, DistType DEF taken
  <1>4. produced \in 0 .. MaxMessages /\ taken + queue.count <= produced
    BY DEF DataInv
  <1>5. taken < produced /\ taken + 1 \in 0 .. SeqMod - 1 /\ taken \in Nat
    BY <1>2, <1>3, <1>4, DataFacts, SeqModFacts
  <1>6. SeqAdd(queue.begin, 1) \in SeqNums /\ SeqDist(FirstRemote, SeqAdd(queue.begin, 1)) = taken + 1
    <2>1. queue.begin = SeqAdd(FirstRemote, taken)
      BY <1>2, DataFacts, AddOfDist DEF taken
    <2>2. 1 \in Nat /\ taken + 1 <= SeqMod /\ 1 \in 0 .. SeqMod
      BY <1>3, SeqModFacts
    <2>3. SeqAdd(SeqAdd(FirstRemote, taken), 1) = SeqAdd(FirstRemote, taken + 1)
      BY <1>5, <2>2, DataFacts, AddTwice
    <2>4. SeqDist(FirstRemote, SeqAdd(FirstRemote, taken + 1)) = taken + 1
      BY <1>5, DataFacts, DistOfAdd
    <2>5. SeqAdd(queue.begin, 1) \in SeqNums
      BY <1>2, <2>2, AddType
    <2> QED
      BY <2>1, <2>3, <2>4, <2>5
  <1>7. SlotAt(queue, 0) = queue.slot[Idx(queue.begin)] /\ 0 \in SetOffsets(queue)
    <2>1. SeqAdd(queue.begin, 0) = queue.begin
      BY <1>2, AddValue, SeqModFacts DEF SeqNums
    <2> QED
      BY <1>1, <1>2, <2>1 DEF SlotAt, SeqAt, SetOffsets, Offsets, CanPull
  <1>8. PullUser(queue) = taken
    <2>1. SlotAt(queue, 0).user = taken + 0
      BY <1>7 DEF DataInv
    <2> QED
      BY <1>3, <1>7, <2>1 DEF PullUser
  <1>9. /\ r \in Queues /\ r.count = queue.count - 1
        /\ \A i \in 0 .. queue.count - 1 - 1 : SlotAt(r, i) = SlotAt(queue, i + 1)
    <2>1. 1 \in 0 .. queue.count /\ r = Advance(queue, 1)
      BY <1>2 DEF Pull, Advance
    <2> QED
      BY <1>2, <2>1, AdvanceEffect
  <1>10. r.begin = SeqAdd(queue.begin, 1) /\ r.strategy = "END"
    BY <1>2 DEF Pull, Queues
  <1> HIDE DEF r
  <1>11. taken' = taken + 1
    BY <1>1, <1>6, <1>10 DEF taken
  <1>12. TailSet(r)
    <2>1. SUFFICES ASSUME r.count > 0 PROVE SlotAt(r, r.count - 1).set
      BY DEF TailSet
    <2>2. r.count - 1 \in 0 .. queue.count - 1 - 1 /\ (r.count - 1) + 1 = queue.count - 1
      BY <1>2, <1>9, <2>1
    <2>3. SlotAt(queue, queue.count - 1).set
      BY <1>2 DEF DataInv, TailSet
    <2> QED
      BY <1>9, <2>2, <2>3
  <1>13. ASSUME NEW i \in SetOffsets(r) PROVE SlotAt(r, i).user = (taken + 1) + i
    <2>1. i \in 0 .. queue.count - 1 - 1 /\ SlotAt(r, i).set /\ i \in Nat
      BY <1>2, <1>9, <1>13 DEF SetOffsets, Offsets
    <2>2. SlotAt(r, i) = SlotAt(queue, i + 1) /\ i + 1 \in SetOffsets(queue)
      BY <1>2, <1>9, <2>1 DEF SetOffsets, Offsets
    <2>3. SlotAt(queue, i + 1).user = taken + (i + 1)
      BY <2>2 DEF DataInv
    <2> QED
      BY <1>5, <2>1, <2>2, <2>3
  <1>14. ack' \in BOOLEAN /\ seqNum' \in SeqNums /\ SeqDist(FirstRemote, seqNum') < taken'
    BY <1>1, <1>2, <1>5, <1>11 DEF taken
  <1>15. AcksCoverOnlyTaken'
    <2> SUFFICES ASSUME NEW x \in acks PROVE SeqDist(FirstRemote, x) < taken'
      BY <1>1 DEF AcksCoverOnlyTaken
    <2>1. SeqDist(FirstRemote, x) < taken /\ x \in SeqNums
      BY DEF DataInv, AcksCoverOnlyTaken
    <2>2. SeqDist(FirstRemote, x) \in 0 .. SeqMod - 1
      BY <2>1, DataFacts, DistType
    <2> QED
      BY <1>5, <1>11, <2>1, <2>2, SeqModFacts
  <1>16. taken' + r.count <= produced'
    BY <1>1, <1>2, <1>4, <1>5, <1>9, <1>11
  <1>17. DataInv'
    BY <1>1, <1>4, <1>9, <1>10, <1>11, <1>12, <1>13, <1>14, <1>15, <1>16 DEF DataInv
  <1> QED
    BY <1>1, <1>5, <1>8, <1>11, <1>17

(* The other steps leave the queue alone. *)
LEMMA RestStep ==
  ASSUME DataInv,
         \/ ConsoleSends \/ FlushAcks \/ FlushEnds \/ (\E x \in SeqNums : ConsoleReceivesAck(x))
         \/ UNCHANGED dataVars
  PROVE  DataInv' /\ taken' = taken
  <1>1. queue' = queue /\ taken' = taken
    BY DEF ConsoleSends, FlushAcks, FlushEnds, ConsoleReceivesAck, dataVars, taken
  <1>2. produced \in 0 .. MaxMessages /\ taken \in Nat /\ queue.count \in Nat /\ MaxMessages \in Nat
    <2>1. produced \in 0 .. MaxMessages /\ queue \in Queues
      BY DEF DataInv
    <2>2. queue.count \in Nat /\ queue.begin \in SeqNums
      BY <2>1, QueueFacts
    <2>3. taken \in 0 .. SeqMod - 1
      BY <2>2, DataFacts, DistType DEF taken
    <2> QED
      BY <2>1, <2>2, <2>3, DataFacts, SeqModFacts
  <1>3. produced' \in 0 .. MaxMessages /\ taken + queue.count <= produced'
    BY <1>2 DEF DataInv, ConsoleSends, FlushAcks, FlushEnds, ConsoleReceivesAck, dataVars
  <1>4. 0 \in SeqNums
    BY SeqModFacts DEF SeqNums
  <1>5. seqNum' \in SeqNums /\ ack' \in BOOLEAN /\ (ack' => SeqDist(FirstRemote, seqNum') < taken)
    <2>1. seqNum \in SeqNums /\ ack \in BOOLEAN /\ (ack => SeqDist(FirstRemote, seqNum) < taken)
      BY DEF DataInv
    <2>2. (seqNum' = seqNum /\ ack' = ack) \/ (seqNum' = 0 /\ ack' = FALSE)
      BY DEF ConsoleSends, FlushAcks, FlushEnds, ConsoleReceivesAck, dataVars
    <2>3. CASE seqNum' = seqNum /\ ack' = ack
      BY <2>1, <2>3
    <2>4. CASE seqNum' = 0 /\ ack' = FALSE
      BY <1>4, <2>4
    <2> QED
      BY <2>2, <2>3, <2>4
  <1>6. acks' = acks \/ (ack /\ acks' = acks \cup {seqNum})
    BY DEF ConsoleSends, FlushAcks, FlushEnds, ConsoleReceivesAck, dataVars, AckNumber
  <1>7. acks' \subseteq SeqNums /\ \A x \in acks' : SeqDist(FirstRemote, x) < taken
    BY <1>6 DEF DataInv, AcksCoverOnlyTaken
  <1>8. AcksCoverOnlyTaken'
    BY <1>1, <1>7 DEF AcksCoverOnlyTaken
  <1> QED
    BY <1>1, <1>3, <1>5, <1>7, <1>8 DEF DataInv

(* Every step keeps the invariant. *)
LEMMA DataStep == DataInv /\ [DataNext]_dataVars => DataInv'
  BY ArriveStep, PullStep, RestStep DEF DataNext

(* The console is told only of messages that were taken, so it never forgets *)
(* one that is missing, for every number width and size of the data queue.   *)
THEOREM AcksAlwaysCoverOnlyTaken == DataSpec => []AcksCoverOnlyTaken
  <1>1. DataInv => AcksCoverOnlyTaken
    BY DEF DataInv
  <1> QED
    BY <1>1, DataInvInit, DataStep, PTL DEF DataSpec

(* Every step of the data channel is a step of the ordered channel or leaves it alone. *)
LEMMA DataRefines == DataInv /\ [DataNext]_dataVars => [Ordered!Next]_Ordered!vars
  <1> SUFFICES ASSUME DataInv, [DataNext]_dataVars PROVE [Ordered!Next]_Ordered!vars
    OBVIOUS
  <1>1. CASE FlushPulls
    <2>1. /\ taken' = taken + 1 /\ taken < produced /\ UNCHANGED produced
          /\ handed' = IF taken \in UnknownTypes THEN handed ELSE Append(handed, taken)
      BY <1>1, PullStep
    <2> QED
      BY <2>1 DEF Ordered!Next, Ordered!Take
  <1>2. CASE ConsoleSends
    <2>1. taken' = taken
      BY <1>2, RestStep
    <2>2. produced < MaxMessages /\ produced' = produced + 1 /\ handed' = handed
      BY <1>2 DEF ConsoleSends
    <2> QED
      BY <2>1, <2>2 DEF Ordered!Next, Ordered!Produce
  <1>3. ASSUME NEW n \in Messages, DataArrives(n) PROVE [Ordered!Next]_Ordered!vars
    <2>1. taken' = taken /\ UNCHANGED <<produced, handed>>
      BY <1>3, ArriveStep DEF DataArrives
    <2> QED
      BY <2>1 DEF Ordered!vars
  <1>4. CASE FlushAcks \/ FlushEnds \/ (\E x \in SeqNums : ConsoleReceivesAck(x)) \/ UNCHANGED dataVars
    <2>1. taken' = taken
      BY <1>4, RestStep
    <2>2. UNCHANGED <<produced, handed>>
      BY <1>4 DEF FlushAcks, FlushEnds, ConsoleReceivesAck, dataVars
    <2> QED
      BY <2>1, <2>2 DEF Ordered!vars
  <1> QED
    BY <1>1, <1>2, <1>3, <1>4 DEF DataNext

(* Over a network that loses, repeats and reorders packets, the data queue makes *)
(* an ordered channel without gaps and duplicates, for every width and window.   *)
THEOREM DataChannelIsOrdered == DataSpec => ImplementsOrderedDelivery
  <1>1. DataInit => Ordered!Init
    <2> SUFFICES ASSUME DataInit PROVE Ordered!Init
      OBVIOUS
    <2>1. queue.begin = FirstRemote /\ produced = 0 /\ handed = <<>>
      BY DEF DataInit, DataQueue, NewQueue
    <2>2. taken = 0
      BY <2>1, DataFacts, DistZero DEF taken
    <2> QED
      BY <2>1, <2>2 DEF Ordered!Init
  <1> QED
    BY <1>1, DataInvInit, DataStep, DataRefines, PTL DEF DataSpec, ImplementsOrderedDelivery, Ordered!Spec

-----------------------------------------------------------------------------
(* A wait that runs while the thread receives is the one for the missing   *)
(* head of a queue that is not empty ...                                   *)
WaitIsForTheHead ==
  avpc = "recv" /\ headWait # None => videoQueue.count > 0 /\ headSeq = videoQueue.begin

(* ... and in a flush that has pulled nothing, the head is there, or the   *)
(* one that was waited for, or after it.                                   *)
HeadMovesOn(q) == CanPull(q) \/ q.begin = headSeq \/ SeqGt(q.begin, headSeq)
WaitGoesOn ==
  avpc = "flush" /\ ~progress /\ headWait # None => videoQueue.count > 0 /\ HeadMovesOn(videoQueue)

AVInv == AVTypeOK /\ TailSet(videoQueue) /\ WaitIsForTheHead /\ WaitGoesOn

(* There is a packet, and the queue is made at a number. *)
LEMMA AVFacts ==
  /\ Packet \in Packets /\ Timeout \in Nat /\ 0 \in SeqNums
  /\ \A s \in SeqNums, unit \in 0 .. MaxUnit : (s - unit) % SeqMod \in SeqNums
  /\ \A s \in SeqNums : /\ EmptyQueue(s) \in Queues /\ EmptyQueue(s).count = 0
                        /\ TailSet(EmptyQueue(s)) /\ EmptyQueue(s).begin = s
  <1>1. Packet \in Packets
    BY AVQueueAssumption DEF Packet
  <1>2. 0 \in SeqNums /\ Timeout \in Nat
    BY AVQueueAssumption, SeqModFacts DEF SeqNums
  <1>3. ASSUME NEW s \in SeqNums, NEW unit \in 0 .. MaxUnit
        PROVE  (s - unit) % SeqMod \in SeqNums
    <2>1. s - unit \in Int
      BY AVQueueAssumption DEF SeqNums
    <2> QED
      BY <2>1, ModEq, SeqModFacts DEF SeqNums
  <1>4. ASSUME NEW s \in SeqNums
        PROVE  /\ EmptyQueue(s) \in Queues /\ EmptyQueue(s).count = 0
               /\ TailSet(EmptyQueue(s)) /\ EmptyQueue(s).begin = s
    <2>1. EmptyQueue(s) \in Queues /\ EmptyQueue(s).count = 0
      BY NewQueueEmpty DEF EmptyQueue, Strategies
    <2> QED
      BY <2>1 DEF TailSet, EmptyQueue, NewQueue
  <1> QED
    BY <1>1, <1>2, <1>3, <1>4

(* How many slots a push sheds is a number, less than the capacity unless  *)
(* it sheds all.                                                           *)
LEMMA ShedCountType ==
  ASSUME NEW q \in Queues, NEW s \in SeqNums, Overreaches(q, s), ShedCount(q, s) # q.count
  PROVE  ShedCount(q, s) \in 0 .. QueueSize - 1
  <1>1. q.begin \in SeqNums /\ q.count \in 0 .. SeqMod /\ q.count <= QueueSize /\ q.count \in Nat
    BY QueueFacts
  <1>2. QueueSize - q.count \in 0 .. SeqMod /\ 1 \in 0 .. SeqMod
    BY <1>1, QueueSizeFacts, SeqModFacts
  <1>3. End(q) \in SeqNums
    BY <1>1, AddType DEF End
  <1>4. TotalEnd(q) \in SeqNums /\ SeqAdd(s, 1) \in SeqNums
    BY <1>2, <1>3, AddType DEF TotalEnd
  <1>5. Excess(q, s) \in 0 .. SeqMod - 1
    BY <1>4, DistType DEF Excess
  <1>6. ShedCount(q, s) = Excess(q, s) /\ Excess(q, s) < q.count
    BY DEF ShedCount
  <1> QED
    BY <1>1, <1>5, <1>6, QueueSizeFacts

(* A number less than the capacity ahead is the same or a greater one. *)
LEMMA HeadGoesAhead ==
  ASSUME NEW b \in SeqNums, NEW k \in 0 .. QueueSize - 1
  PROVE  SeqAdd(b, k) = b \/ SeqGt(SeqAdd(b, k), b)
  <1>1. k \in 0 .. SeqMod - 1 /\ k < SeqHalf /\ k \in 0 .. SeqMod
    BY QueueSizeFacts, SeqModFacts
  <1>2. SeqAdd(b, k) \in SeqNums /\ SeqDist(b, SeqAdd(b, k)) = k
    BY <1>1, AddType, DistOfAdd
  <1>3. CASE k = 0
    BY <1>2, <1>3, DistZero
  <1>4. CASE k # 0
    <2>1. SeqLt(b, SeqAdd(b, k))
      <3>1. k \in 1 .. SeqHalf - 1
        BY <1>1, <1>4, SeqModFacts
      <3> QED
        BY <1>2, <3>1, LtByDist
    <2> QED
      BY <1>2, <2>1 DEF SeqLt, SeqGt, SeqNums
  <1> QED
    BY <1>3, <1>4

(* A push moves the head of a queue that is not empty less than half the   *)
(* space of numbers, or to the packet it stores.                           *)
LEMMA PushMovesHeadOn ==
  ASSUME NEW q \in Queues, NEW s \in SeqNums, NEW p \in Packets, q.count > 0, TailSet(q)
  PROVE  \/ CanPull(Push(q, s, p))
         \/ Push(q, s, p).begin = q.begin
         \/ SeqGt(Push(q, s, p).begin, q.begin)
  <1> DEFINE r == Push(q, s, p)
             k == ShedCount(q, s)
  <1>1. CASE Rejected(q, s)
    BY <1>1 DEF Push
  <1>2. CASE ~Rejected(q, s) /\ InWindow(q, s)
    BY <1>2 DEF Push, Store
  <1>3. CASE ~Rejected(q, s) /\ ~InWindow(q, s)
    <2> DEFINE t == Shed(q, s)
    <2>1. Rebased(q, s) = q
      BY DEF Rebased, Rebases
    <2>2. r = Store(Fill(t, s), s, p)
      BY <1>3, <2>1 DEF Push
    <2>3. r.begin = t.begin
      BY <2>2 DEF Store, Fill
    <2>4. CASE ~Overreaches(q, s)
      BY <2>3, <2>4 DEF Shed
    <2>5. CASE Overreaches(q, s) /\ k = q.count
      <3>1. t.begin = s
        BY <2>5 DEF Shed, Queues
      <3>2. r \in Queues /\ r.count > 0
        BY <1>3, PushEffect
      <3>3. r.slot[Idx(s)] = [set |-> TRUE, user |-> p]
        BY <2>2, <3>2, IdxType DEF Store, Queues
      <3> QED
        BY <2>3, <3>1, <3>2, <3>3 DEF CanPull
    <2>6. CASE Overreaches(q, s) /\ k # q.count
      <3>1. k \in 0 .. QueueSize - 1
        BY <2>6, ShedCountType
      <3>2. t.begin = SeqAdd(q.begin, k)
        BY <2>6 DEF Shed, Queues
      <3>3. q.begin \in SeqNums
        BY QueueFacts
      <3> HIDE DEF k
      <3>4. r.begin = q.begin \/ SeqGt(r.begin, q.begin)
        BY <2>3, <3>1, <3>2, <3>3, HeadGoesAhead
      <3> QED
        BY <3>4
    <2> QED
      BY <2>4, <2>5, <2>6
  <1> QED
    BY <1>1, <1>2, <1>3

(* A queue that is pulled from or skipped in still ends with a packet. *)
LEMMA AdvanceKeepsTail ==
  ASSUME NEW q \in Queues, TailSet(q), NEW k \in 0 .. q.count
  PROVE  Advance(q, k) \in Queues /\ TailSet(Advance(q, k))
  <1> DEFINE r == Advance(q, k)
  <1>1. /\ r \in Queues /\ r.count = q.count - k
        /\ \A i \in 0 .. q.count - k - 1 : SlotAt(r, i) = SlotAt(q, i + k)
    BY AdvanceEffect
  <1>2. q.count \in Nat /\ k \in Nat
    BY QueueFacts
  <1> HIDE DEF r
  <1>3. ASSUME r.count > 0 PROVE SlotAt(r, r.count - 1).set
    <2>1. /\ r.count - 1 \in 0 .. q.count - k - 1 /\ (r.count - 1) + k = q.count - 1 /\ q.count > 0
      BY <1>1, <1>2, <1>3
    <2> QED
      BY <1>1, <2>1 DEF TailSet
  <1> QED
    BY <1>1, <1>3 DEF TailSet, r

(* The invariant holds at the start. *)
LEMMA AVBegins == AVInit => AVInv
  <1> SUFFICES ASSUME AVInit PROVE AVInv
    OBVIOUS
  <1>1. 0 \in SeqNums /\ videoQueue \in Queues /\ TailSet(videoQueue)
    BY AVFacts DEF AVInit
  <1> QED
    BY <1>1 DEF AVInit, AVInv, AVTypeOK, WaitIsForTheHead, WaitGoesOn

(* A packet keeps it, wherever it is stored or dropped. *)
LEMMA ArrivesKeeps ==
  ASSUME AVInv, NEW s \in SeqNums, NEW unit \in 0 .. MaxUnit, PacketArrives(s, unit)
  PROVE  AVInv'
  <1> DEFINE start == (s - unit) % SeqMod
             q == IF initialized THEN videoQueue ELSE EmptyQueue(start)
  <1>1. start \in SeqNums
    BY AVFacts
  <1> HIDE DEF start
  <1>2. q \in Queues /\ TailSet(q)
    BY <1>1, AVFacts DEF AVInv, AVTypeOK
  <1>3. /\ avpc = "recv" /\ initialized' = TRUE /\ videoQueue' = Push(q, s, Packet)
        /\ avpc' = "flush" /\ progress' = FALSE
        /\ headWait' = (IF initialized THEN headWait ELSE None)
        /\ headSeq' = IF initialized THEN headSeq ELSE start
    BY DEF PacketArrives, start
  <1>4. headWait' \in {None} \cup 0 .. Timeout + 1 /\ headSeq' \in SeqNums
    BY <1>1, <1>3 DEF AVInv, AVTypeOK
  <1> HIDE DEF q
  <1>5. /\ videoQueue' \in Queues /\ TailSet(videoQueue')
        /\ q.count > 0 => videoQueue'.count > 0
    <2>1. CASE Rejected(q, s)
      BY <1>2, <1>3, <2>1 DEF Push
    <2>2. CASE ~Rejected(q, s)
      BY <1>2, <1>3, <2>2, PushEffect, AVFacts DEF TailSet
    <2> QED
      BY <2>1, <2>2
  <1>6. headWait' # None => videoQueue'.count > 0 /\ HeadMovesOn(videoQueue)'
    <2> SUFFICES ASSUME headWait' # None PROVE videoQueue'.count > 0 /\ HeadMovesOn(videoQueue)'
      OBVIOUS
    <2>1. initialized /\ headWait # None /\ q = videoQueue /\ headSeq' = headSeq
      BY <1>3 DEF q
    <2>2. q.count > 0 /\ headSeq = q.begin
      BY <1>3, <2>1 DEF AVInv, WaitIsForTheHead
    <2> QED
      BY <1>2, <1>3, <1>5, <2>1, <2>2, PushMovesHeadOn, AVFacts DEF HeadMovesOn
  <1> QED
    BY <1>3, <1>4, <1>5, <1>6 DEF AVInv, AVTypeOK, WaitIsForTheHead, WaitGoesOn

(* While packets are waited for, no flush meets a new gap: the branch that *)
(* would begin a new budget is never taken.                                *)
LEMMA NoNewGap ==
  ASSUME AVInv, FlushKeepsWaiting
  PROVE  ~NewGap /\ headWait # None
  <1>1. ~progress /\ headWait # None
    BY DEF FlushKeepsWaiting, WaitAfterPulls, AVInv, AVTypeOK
  <1> QED
    BY <1>1 DEF FlushKeepsWaiting, AVInv, WaitGoesOn, HeadMovesOn, NewGap

(* Every step of a flush keeps it. *)
LEMMA FlushKeeps ==
  ASSUME AVInv, FlushNext
  PROVE  AVInv'
  <1>a. videoQueue \in Queues /\ TailSet(videoQueue) /\ videoQueue.begin \in SeqNums
    BY QueueFacts DEF AVInv, AVTypeOK
  <1>b. Timeout \in Nat
    BY AVFacts
  <1>1. CASE VideoPulls
    <2>1. 1 \in 0 .. videoQueue.count /\ videoQueue' = Advance(videoQueue, 1)
      BY <1>1, <1>a, QueueFacts DEF VideoPulls, CanPull, Pull, Advance
    <2>2. videoQueue' \in Queues /\ TailSet(videoQueue')
      BY <1>a, <2>1, AdvanceKeepsTail
    <2> QED
      BY <1>1, <2>2 DEF VideoPulls, AVInv, AVTypeOK, WaitIsForTheHead, WaitGoesOn
  <1>2. CASE FlushEmpties
    <2>1. headWait' = None
      BY <1>2 DEF FlushEmpties, WaitAfterPulls, AVInv, WaitGoesOn
    <2> QED
      BY <1>2, <1>a, <2>1 DEF FlushEmpties, AVInv, AVTypeOK, WaitIsForTheHead, WaitGoesOn
  <1>3. CASE FlushBeginsWait
    <2>1. 0 \in {None} \cup 0 .. Timeout + 1
      BY <1>b
    <2> QED
      BY <1>3, <1>a, <2>1 DEF FlushBeginsWait, AVInv, AVTypeOK, WaitIsForTheHead, WaitGoesOn
  <1>4. CASE FlushKeepsWaiting
    <2>1. headWait' = headWait
      BY <1>4, NoNewGap DEF FlushKeepsWaiting
    <2> QED
      BY <1>4, <1>a, <2>1 DEF FlushKeepsWaiting, AVInv, AVTypeOK, WaitIsForTheHead, WaitGoesOn
  <1>5. CASE FlushSkips
    <2> DEFINE k == FirstPeek(videoQueue)
    <2>1. SetOffsets(videoQueue) # {} /\ SetOffsets(videoQueue) \in SUBSET Nat
      BY <1>5 DEF FlushSkips, CanSkip, SetOffsets, Offsets
    <2>2. k \in SetOffsets(videoQueue)
      BY <2>1, SmallestNumber DEF FirstPeek
    <2>3. k \in 0 .. videoQueue.count
      BY <1>a, <2>2, QueueFacts DEF SetOffsets, Offsets
    <2>4. videoQueue' = Advance(videoQueue, k)
      BY <1>5 DEF FlushSkips, SkipMissing, Advance
    <2> HIDE DEF k
    <2>5. videoQueue' \in Queues /\ TailSet(videoQueue')
      BY <1>a, <2>3, <2>4, AdvanceKeepsTail
    <2> QED
      BY <1>5, <1>a, <2>5 DEF FlushSkips, AVInv, AVTypeOK, WaitIsForTheHead, WaitGoesOn
  <1> QED
    BY <1>1, <1>2, <1>3, <1>4, <1>5 DEF FlushNext

(* So does every step of the thread. *)
LEMMA AVKeeps == AVInv /\ [AVNext]_avVars => AVInv'
  <1> SUFFICES ASSUME AVInv, [AVNext]_avVars PROVE AVInv'
    OBVIOUS
  <1>1. CASE RecvTimesOut
    BY <1>1 DEF RecvTimesOut, AVInv, AVTypeOK, WaitIsForTheHead, WaitGoesOn, HeadMovesOn
  <1>2. CASE ThreadEnds
    <2>1. videoQueue' \in Queues /\ TailSet(videoQueue')
      BY <1>2, AVFacts DEF ThreadEnds
    <2> QED
      BY <1>2, <2>1 DEF ThreadEnds, AVInv, AVTypeOK, WaitIsForTheHead, WaitGoesOn
  <1>3. CASE AVTick
    <2>1. headWait' \in 0 .. Timeout + 1 /\ headWait' # None
      BY <1>3, AVFacts DEF AVTick, AVInv, AVTypeOK, None
    <2> QED
      BY <1>3, <2>1 DEF AVTick, AVInv, AVTypeOK, WaitIsForTheHead, WaitGoesOn
  <1>4. CASE UNCHANGED avVars
    BY <1>4 DEF avVars, AVInv, AVTypeOK, WaitIsForTheHead, WaitGoesOn, HeadMovesOn
  <1> QED
    BY <1>1, <1>2, <1>3, <1>4, ArrivesKeeps, FlushKeeps DEF AVNext

(* takion.c:976 keeps the original budget while the missing head advances: *)
(* pushes never restart a wait, only a pull or a skip ends it.             *)
THEOREM BudgetStays == AVSpec => BudgetIsNotRenewed
  <1>1. AVInv /\ [AVNext]_avVars =>
          [(headWait # None /\ headWait' # None /\ headWait' < headWait) => progress]_avVars
    <2> SUFFICES ASSUME AVInv, AVNext, headWait # None, headWait' # None, headWait' < headWait
                 PROVE  progress
      OBVIOUS
    <2>1. headWait \in 0 .. Timeout + 1 /\ Timeout \in Nat
      BY AVFacts DEF AVInv, AVTypeOK
    <2>2. headWait' # headWait /\ headWait' # headWait + 1
      BY <2>1
    <2>3. ~FlushKeepsWaiting
      BY <2>2, NoNewGap DEF FlushKeepsWaiting
    <2>4. CASE FlushBeginsWait
      BY <2>4 DEF FlushBeginsWait, WaitAfterPulls
    <2>5. CASE FlushEmpties
      BY <2>2, <2>5 DEF FlushEmpties, WaitAfterPulls
    <2> QED
      BY <2>2, <2>3, <2>4, <2>5
      DEF AVNext, FlushNext, PacketArrives, RecvTimesOut, VideoPulls, FlushSkips, ThreadEnds, AVTick
  <1>2. AVSpec => []AVInv
    BY AVBegins, AVKeeps, PTL DEF AVSpec
  <1> QED
    BY <1>1, <1>2, PTL DEF AVSpec, BudgetIsNotRenewed
=============================================================================
