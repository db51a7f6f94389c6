---------------------- MODULE ReorderQueueClientProofs ----------------------
(***************************************************************************)
(* The invariants of ReorderQueueClient for every number width, window     *)
(* size and set of packets.                                                *)
(***************************************************************************)
EXTENDS ReorderQueueClient, ReorderQueueProofs

ClosedIsEmpty == ~open => queue.count = 0

IInv == /\ TypeOK
        /\ ClosedIsEmpty
        /\ EntriesInPosition
        /\ EachPacketHasOneOwner
        /\ TailIsSet

Positions(q, seqs) ==
  \A i \in SetOffsets(q) : /\ SlotAt(q, i).user \in Packets
                           /\ seqs[SlotAt(q, i).user] = SeqAt(q, i)

Owners(q, out) == \A p \in Packets : out[p] = IF p \in Content(q) THEN 1 ELSE 0

(* A window without slots holds nothing. *)
LEMMA EmptyQueue ==
  ASSUME NEW q, q.count = 0
  PROVE  SetOffsets(q) = {} /\ Content(q) = {}
  BY DEF SetOffsets, Offsets, Content

(* A packet sits at one offset only, the one of its number. *)
LEMMA UserAtOneOffset ==
  ASSUME NEW q \in Queues, NEW seqs, Positions(q, seqs),
         NEW i \in SetOffsets(q), NEW j \in SetOffsets(q),
         SlotAt(q, i).user = SlotAt(q, j).user
  PROVE  i = j
  <1>1. SeqAt(q, i) = SeqAt(q, j)
    BY DEF Positions
  <1>2. i \in 0 .. SeqMod - 1 /\ j \in 0 .. SeqMod - 1
    BY QueueFacts, QueueSizeFacts, SeqModFacts DEF SetOffsets, Offsets
  <1> QED
    BY <1>1, <1>2, OffOfSeqAt

(* The ghost variables after the packets in D came back. *)
OutAfter(D, out) == [p \in Packets |-> IF p \in D THEN out[p] - 1 ELSE out[p]]
SeqsAfter(D, seqs) == [p \in Packets |-> IF p \in D THEN 0 ELSE seqs[p]]

(* Moving the head by k and returning what was there preserves positions, owners and the tail. *)
LEMMA AdvanceKeepsGhosts ==
  ASSUME NEW q \in Queues, NEW k \in 0 .. q.count, NEW seqs, NEW out,
         Positions(q, seqs), Owners(q, out), TailSet(q)
  PROVE  /\ Positions(Advance(q, k), SeqsAfter(Dropped(q, k), seqs))
         /\ Owners(Advance(q, k), OutAfter(Dropped(q, k), out))
         /\ TailSet(Advance(q, k))
  <1> DEFINE r == Advance(q, k)
             D == Dropped(q, k)
             c == q.count
  <1>1. /\ r \in Queues
        /\ r.count = c - k
        /\ \A i \in 0 .. c - k - 1 : SlotAt(r, i) = SlotAt(q, i + k) /\ SeqAt(r, i) = SeqAt(q, i + k)
    BY AdvanceEffect
  <1>2. c \in Nat /\ k \in 0 .. c
    BY QueueFacts
  <1> HIDE DEF r
  <1>3. ASSUME NEW i \in SetOffsets(r)
        PROVE  i + k \in SetOffsets(q) /\ ~(i + k < k) /\ SlotAt(r, i) = SlotAt(q, i + k) /\ SeqAt(r, i) = SeqAt(q, i + k)
    <2>1. i \in 0 .. c - k - 1 /\ SlotAt(r, i).set
      BY <1>1 DEF SetOffsets, Offsets
    <2>2. i + k \in 0 .. c - 1 /\ ~(i + k < k)
      BY <1>2, <2>1
    <2> QED
      BY <1>1, <2>1, <2>2 DEF SetOffsets, Offsets
  <1>4. ASSUME NEW i \in SetOffsets(q), ~(i < k)
        PROVE  i - k \in SetOffsets(r) /\ SlotAt(r, i - k) = SlotAt(q, i)
    <2>1. i \in 0 .. c - 1 /\ SlotAt(q, i).set
      BY DEF SetOffsets, Offsets
    <2>2. i - k \in 0 .. c - k - 1 /\ (i - k) + k = i
      BY <1>2, <1>4, <2>1
    <2> QED
      BY <1>1, <2>1, <2>2 DEF SetOffsets, Offsets
  <1>5. ASSUME NEW x
        PROVE  x \in D <=> \E i \in SetOffsets(q) : i < k /\ x = SlotAt(q, i).user
    BY DEF Dropped
  <1> HIDE DEF D
  <1>6. ASSUME NEW i \in SetOffsets(q), ~(i < k)
        PROVE  SlotAt(q, i).user \notin D
    BY <1>5, <1>6, UserAtOneOffset
  <1>7. Positions(r, SeqsAfter(D, seqs))
    <2> SUFFICES ASSUME NEW i \in SetOffsets(r)
                 PROVE  /\ SlotAt(r, i).user \in Packets
                        /\ SeqsAfter(D, seqs)[SlotAt(r, i).user] = SeqAt(r, i)
      BY DEF Positions
    <2>1. SlotAt(q, i + k).user \in Packets /\ seqs[SlotAt(q, i + k).user] = SeqAt(q, i + k)
      BY <1>3 DEF Positions
    <2>2. SlotAt(q, i + k).user \notin D
      BY <1>3, <1>6
    <2> QED
      BY <1>3, <2>1, <2>2 DEF SeqsAfter
  <1>8. ASSUME NEW x \in Packets
        PROVE  x \in Content(r) <=> x \in Content(q) /\ x \notin D
    <2>1. ASSUME x \in Content(r) PROVE x \in Content(q) /\ x \notin D
      <3>1. PICK i \in SetOffsets(r) : x = SlotAt(r, i).user
        BY <2>1 DEF Content
      <3> QED
        BY <1>3, <1>6, <3>1 DEF Content
    <2>2. ASSUME x \in Content(q), x \notin D PROVE x \in Content(r)
      <3>1. PICK i \in SetOffsets(q) : x = SlotAt(q, i).user
        BY <2>2 DEF Content
      <3>2. ~(i < k)
        BY <1>5, <2>2, <3>1
      <3> QED
        BY <1>4, <3>1, <3>2 DEF Content
    <2> QED
      BY <2>1, <2>2
  <1>9. ASSUME NEW x \in D PROVE x \in Content(q)
    BY <1>5 DEF Content
  <1>10. Owners(r, OutAfter(D, out))
    <2> SUFFICES ASSUME NEW x \in Packets
                 PROVE  OutAfter(D, out)[x] = IF x \in Content(r) THEN 1 ELSE 0
      BY DEF Owners
    <2>1. out[x] = IF x \in Content(q) THEN 1 ELSE 0
      BY DEF Owners
    <2>2. OutAfter(D, out)[x] = IF x \in D THEN out[x] - 1 ELSE out[x]
      BY DEF OutAfter
    <2> QED
      BY <1>8, <1>9, <2>1, <2>2
  <1>11. TailSet(r)
    <2> SUFFICES ASSUME r.count > 0 PROVE SlotAt(r, r.count - 1).set
      BY DEF TailSet
    <2>1. r.count - 1 \in 0 .. c - k - 1 /\ (r.count - 1) + k = c - 1 /\ c > 0
      BY <1>1, <1>2
    <2> QED
      BY <1>1, <2>1 DEF TailSet
  <1> QED
    BY <1>7, <1>10, <1>11 DEF r, D

(* An accepted push preserves positions and owners. *)
LEMMA PushKeepsGhosts ==
  ASSUME NEW q \in Queues, NEW s \in SeqNums, NEW p \in Packets, ~Rejected(q, s),
         NEW seqs \in [Packets -> SeqNums], NEW out \in [Packets -> Int],
         Positions(q, seqs), Owners(q, out), TailSet(q), out[p] = 0
  PROVE  LET D == PushDrops(q, s, p)
         IN  /\ Positions(Push(q, s, p), SeqsAfter(D, [seqs EXCEPT ![p] = s]))
             /\ Owners(Push(q, s, p), OutAfter(D, [out EXCEPT ![p] = 1]))
  <1> DEFINE r == Push(q, s, p)
             D == PushDrops(q, s, p)
             seqsP == [seqs EXCEPT ![p] = s]
             outP == [out EXCEPT ![p] = 1]
  <1>1. r \in Queues /\ Stored(r, s, p)
    BY PushEffect
  <1>2. PICK k \in 0 .. q.count :
          /\ Kept(q, r, k)
          /\ OnlyNew(q, r, k, s, p)
          /\ D = Dropped(q, k)
    BY PushEffect
  <1>3. q.count \in Nat /\ k \in 0 .. q.count
    BY QueueFacts
  <1>4. p \notin Content(q)
    BY DEF Owners
  <1>5. ASSUME NEW x
        PROVE  x \in D <=> \E i \in SetOffsets(q) : i < k /\ x = SlotAt(q, i).user
    BY <1>2 DEF Dropped
  <1> HIDE DEF D, r
  <1>6. ASSUME NEW x \in D PROVE x \in Content(q) /\ x # p
    BY <1>4, <1>5 DEF Content
  <1>7. ASSUME NEW i \in SetOffsets(q), ~(i < k)
        PROVE  /\ SlotAt(q, i).user \notin D
               /\ i - k \in SetOffsets(r)
               /\ SlotAt(r, i - k) = SlotAt(q, i)
    <2>1. i \in k .. q.count - 1 /\ SlotAt(q, i).set
      BY <1>3, <1>7 DEF SetOffsets, Offsets
    <2>2. SlotAt(q, i).user \notin D
      BY <1>5, <1>7, UserAtOneOffset
    <2> QED
      BY <1>2, <2>1, <2>2 DEF Kept, SetOffsets
  <1>8. ASSUME NEW i \in SetOffsets(r)
        PROVE  \/ SeqAt(r, i) = s /\ SlotAt(r, i).user = p
               \/ /\ i + k \in SetOffsets(q)
                  /\ ~(i + k < k)
                  /\ SlotAt(r, i) = SlotAt(q, i + k)
                  /\ SeqAt(r, i) = SeqAt(q, i + k)
    <2>1. i \in Nat
      BY <1>1, QueueFacts DEF SetOffsets, Offsets
    <2>2. ~(i + k < k)
      BY <1>3, <2>1
    <2> QED
      BY <1>2, <2>2 DEF OnlyNew
  <1>9. Positions(r, SeqsAfter(D, seqsP))
    <2> SUFFICES ASSUME NEW i \in SetOffsets(r)
                 PROVE  /\ SlotAt(r, i).user \in Packets
                        /\ SeqsAfter(D, seqsP)[SlotAt(r, i).user] = SeqAt(r, i)
      BY DEF Positions
    <2>1. CASE SeqAt(r, i) = s /\ SlotAt(r, i).user = p
      <3>1. p \notin D
        BY <1>6
      <3> QED
        BY <2>1, <3>1 DEF SeqsAfter
    <2>2. CASE /\ i + k \in SetOffsets(q)
               /\ ~(i + k < k)
               /\ SlotAt(r, i) = SlotAt(q, i + k)
               /\ SeqAt(r, i) = SeqAt(q, i + k)
      <3>1. SlotAt(q, i + k).user \in Packets /\ seqs[SlotAt(q, i + k).user] = SeqAt(q, i + k)
        BY <2>2 DEF Positions
      <3>2. SlotAt(q, i + k).user \notin D
        BY <1>7, <2>2
      <3>3. SlotAt(q, i + k).user # p
        BY <1>4, <2>2 DEF Content
      <3> QED
        BY <2>2, <3>1, <3>2, <3>3 DEF SeqsAfter
    <2> QED
      BY <1>8, <2>1, <2>2
  <1>10. p \in Content(r)
    BY <1>1 DEF Stored, Content, SetOffsets
  <1>11. ASSUME NEW x \in Packets, x # p
         PROVE  x \in Content(r) <=> x \in Content(q) /\ x \notin D
    <2>1. ASSUME x \in Content(r) PROVE x \in Content(q) /\ x \notin D
      <3>1. PICK i \in SetOffsets(r) : x = SlotAt(r, i).user
        BY <2>1 DEF Content
      <3> QED
        BY <1>7, <1>8, <1>11, <3>1 DEF Content
    <2>2. ASSUME x \in Content(q), x \notin D PROVE x \in Content(r)
      <3>1. PICK i \in SetOffsets(q) : x = SlotAt(q, i).user
        BY <2>2 DEF Content
      <3>2. ~(i < k)
        BY <1>5, <2>2, <3>1
      <3> QED
        BY <1>7, <3>1, <3>2 DEF Content
    <2> QED
      BY <2>1, <2>2
  <1>12. Owners(r, OutAfter(D, outP))
    <2> SUFFICES ASSUME NEW x \in Packets
                 PROVE  OutAfter(D, outP)[x] = IF x \in Content(r) THEN 1 ELSE 0
      BY DEF Owners
    <2>1. out[x] = IF x \in Content(q) THEN 1 ELSE 0
      BY DEF Owners
    <2>2. OutAfter(D, outP)[x] = IF x \in D THEN outP[x] - 1 ELSE outP[x]
      BY DEF OutAfter
    <2>3. CASE x = p
      BY <1>6, <1>10, <2>2, <2>3
    <2>4. CASE x # p
      <3>1. outP[x] = out[x]
        BY <2>4
      <3> QED
        BY <1>6, <1>11, <2>1, <2>2, <2>4, <3>1
    <2> QED
      BY <2>3, <2>4
  <1> QED
    BY <1>9, <1>12 DEF r, D

-----------------------------------------------------------------------------

(* The invariants as predicates of the queue and the ghost variables. *)
LEMMA InvByParts ==
  ASSUME TypeOK
  PROVE  /\ EntriesInPosition <=> Positions(queue, seqOf)
         /\ EachPacketHasOneOwner <=> Owners(queue, outstanding)
         /\ TailIsSet <=> TailSet(queue)
  BY DEF EntriesInPosition, Positions, EachPacketHasOneOwner, Owners, TailIsSet, TailSet

(* Initially there is no packet. *)
LEMMA InitInv == Init => IInv
  <1> SUFFICES ASSUME Init PROVE IInv
    OBVIOUS
  <1>1. 0 \in SeqNums
    BY SeqModFacts DEF SeqNums
  <1>2. queue \in Queues /\ queue.count = 0 /\ SetOffsets(queue) = {} /\ Content(queue) = {}
    BY <1>1, NewQueueEmpty DEF Init, Strategies
  <1>3. TypeOK
    <2>1. open \in BOOLEAN
      BY DEF Init
    <2>2. outstanding \in [Packets -> Int] /\ seqOf \in [Packets -> SeqNums]
      BY <1>1 DEF Init
    <2> QED
      BY <1>2, <2>1, <2>2 DEF TypeOK
  <1>4. EntriesInPosition
    BY <1>2 DEF EntriesInPosition
  <1>5. EachPacketHasOneOwner
    BY <1>2 DEF Init, EachPacketHasOneOwner
  <1>6. ClosedIsEmpty /\ TailIsSet
    BY <1>2 DEF ClosedIsEmpty, TailIsSet
  <1> QED
    BY <1>3, <1>4, <1>5, <1>6 DEF IInv

(* Returning packets keeps the types of the ghost variables. *)
LEMMA GhostTypes ==
  ASSUME NEW D, NEW out \in [Packets -> Int], NEW seqs \in [Packets -> SeqNums]
  PROVE  OutAfter(D, out) \in [Packets -> Int] /\ SeqsAfter(D, seqs) \in [Packets -> SeqNums]
  BY SeqModFacts DEF OutAfter, SeqsAfter, SeqNums

(* Opening an empty queue preserves the invariant. *)
LEMMA OpenInv ==
  ASSUME IInv, NEW s \in SeqNums, NEW strategy \in Strategies, Open(s, strategy)
  PROVE  IInv'
  <1>1. queue' \in Queues /\ queue'.count = 0 /\ SetOffsets(queue') = {} /\ Content(queue') = {}
    BY NewQueueEmpty DEF Open
  <1>2. Content(queue) = {}
    BY EmptyQueue DEF Open, IInv, ClosedIsEmpty
  <1> QED
    BY <1>1, <1>2 DEF Open, IInv, TypeOK, ClosedIsEmpty, EntriesInPosition,
                      EachPacketHasOneOwner, TailIsSet

(* push preserves the invariant, whether it rejects or accepts. *)
LEMMA PushInv ==
  ASSUME IInv, NEW s \in SeqNums, NEW p \in Packets, PushStep(s, p)
  PROVE  IInv'
  <1> DEFINE D == PushDrops(queue, s, p)
             outP == [outstanding EXCEPT ![p] = 1]
             seqsP == [seqOf EXCEPT ![p] = s]
  <1>1. /\ TypeOK
        /\ Positions(queue, seqOf)
        /\ Owners(queue, outstanding)
        /\ TailSet(queue)
    BY InvByParts DEF IInv
  <1>2. /\ open' = TRUE
        /\ queue' = Push(queue, s, p)
        /\ outstanding[p] = 0
        /\ outstanding' = OutAfter(D, outP)
        /\ seqOf' = SeqsAfter(D, seqsP)
    BY <1>1 DEF PushStep, Returned, OutAfter, SeqsAfter, TypeOK
  <1>3. outP \in [Packets -> Int] /\ seqsP \in [Packets -> SeqNums]
    BY <1>1 DEF TypeOK
  <1>4. outstanding' \in [Packets -> Int] /\ seqOf' \in [Packets -> SeqNums]
    BY <1>2, <1>3, GhostTypes
  <1>5. CASE Rejected(queue, s)
    <2>1. queue' = queue /\ D = {p}
      BY <1>2, <1>5 DEF Push, PushDrops
    <2>2. outstanding' = outstanding
      BY <1>1, <1>2, <2>1 DEF OutAfter, TypeOK
    <2>3. p \notin Content(queue)
      BY <1>1, <1>2 DEF Owners
    <2>4. \A x \in Packets : x # p => seqOf'[x] = seqOf[x]
      BY <1>1, <1>2, <2>1 DEF SeqsAfter, TypeOK
    <2>5. Positions(queue', seqOf')
      BY <1>1, <2>1, <2>3, <2>4 DEF Positions, Content
    <2> QED
      BY <1>1, <1>2, <1>4, <2>1, <2>2, <2>5 DEF IInv, TypeOK, ClosedIsEmpty,
         EntriesInPosition, Positions, EachPacketHasOneOwner, TailIsSet
  <1>6. CASE ~Rejected(queue, s)
    <2>1. /\ queue' \in Queues
          /\ queue'.count > 0
          /\ SlotAt(queue', queue'.count - 1).set
      BY <1>1, <1>2, <1>6, PushEffect DEF TypeOK
    <2>2. Positions(queue', seqOf') /\ Owners(queue', outstanding')
      BY <1>1, <1>2, <1>6, PushKeepsGhosts DEF TypeOK
    <2> QED
      BY <1>2, <1>4, <2>1, <2>2 DEF IInv, TypeOK, ClosedIsEmpty, EntriesInPosition, Positions,
         EachPacketHasOneOwner, Owners, TailIsSet
  <1> QED
    BY <1>5, <1>6

(* pull preserves the invariant: it moves the head by one. *)
LEMMA PullInv == ASSUME IInv, PullStep PROVE IInv'
  <1>1. /\ TypeOK
        /\ Positions(queue, seqOf)
        /\ Owners(queue, outstanding)
        /\ TailSet(queue)
    BY InvByParts DEF IInv
  <1>2. queue \in Queues /\ queue.count > 0 /\ queue.slot[Idx(queue.begin)].set
    BY <1>1 DEF PullStep, CanPull, TypeOK
  <1>3. 1 \in 0 .. queue.count /\ queue' = Advance(queue, 1)
    BY <1>2, QueueFacts DEF PullStep, Pull, Advance
  <1>4. SeqAt(queue, 0) = queue.begin
    BY <1>2, QueueFacts, AddValue, SeqModFacts DEF SeqAt, SeqNums
  <1>5. Dropped(queue, 1) = {PullUser(queue)}
    <2>1. 0 \in SetOffsets(queue) /\ SlotAt(queue, 0).user = PullUser(queue)
      BY <1>2, <1>4, QueueFacts DEF SetOffsets, Offsets, SlotAt, PullUser
    <2>2. \A j \in SetOffsets(queue) : j < 1 <=> j = 0
      BY DEF SetOffsets, Offsets
    <2> QED
      BY <2>1, <2>2 DEF Dropped
  <1>6. /\ outstanding' = OutAfter(Dropped(queue, 1), outstanding)
        /\ seqOf' = SeqsAfter(Dropped(queue, 1), seqOf)
        /\ open' = TRUE
    BY <1>5 DEF PullStep, Returned, OutAfter, SeqsAfter
  <1>7. queue' \in Queues
    BY <1>2, <1>3, AdvanceEffect
  <1>8. outstanding' \in [Packets -> Int] /\ seqOf' \in [Packets -> SeqNums]
    BY <1>1, <1>6, GhostTypes DEF TypeOK
  <1>9. Positions(queue', seqOf') /\ Owners(queue', outstanding') /\ TailSet(queue')
    BY <1>1, <1>2, <1>3, <1>6, AdvanceKeepsGhosts
  <1> QED
    BY <1>6, <1>7, <1>8, <1>9 DEF IInv, TypeOK, ClosedIsEmpty, EntriesInPosition, Positions,
       EachPacketHasOneOwner, Owners, TailIsSet, TailSet

(* The skip of takion.c preserves the invariant: it stops at the first set slot. *)
LEMMA SkipInv == ASSUME IInv, SkipStep PROVE IInv'
  <1> DEFINE k == FirstPeek(queue)
  <1>1. /\ TypeOK
        /\ Positions(queue, seqOf)
        /\ Owners(queue, outstanding)
        /\ TailSet(queue)
    BY InvByParts DEF IInv
  <1>2. queue \in Queues /\ SetOffsets(queue) # {}
    BY <1>1 DEF SkipStep, CanSkip, TypeOK
  <1>3. SetOffsets(queue) \in SUBSET Nat
    BY DEF SetOffsets, Offsets
  <1>4. k \in SetOffsets(queue) /\ \A j \in SetOffsets(queue) : k <= j
    BY <1>2, <1>3, SmallestNumber DEF FirstPeek
  <1>5. k \in 0 .. queue.count
    BY <1>2, <1>4, QueueFacts DEF SetOffsets, Offsets
  <1>6. queue' = Advance(queue, k) /\ open' = open /\ open = TRUE
    BY DEF SkipStep, SkipMissing, Advance
  <1>7. Dropped(queue, k) = {}
    <2>1. \A j \in SetOffsets(queue) : ~(j < k)
      BY <1>3, <1>4
    <2> QED
      BY <2>1 DEF Dropped
  <1> HIDE DEF k
  <1>8. outstanding' = OutAfter({}, outstanding) /\ seqOf' = SeqsAfter({}, seqOf)
    BY <1>1 DEF SkipStep, OutAfter, SeqsAfter, TypeOK
  <1>9. Positions(queue', seqOf') /\ Owners(queue', outstanding') /\ TailSet(queue')
    BY <1>1, <1>2, <1>5, <1>6, <1>7, <1>8, AdvanceKeepsGhosts
  <1>10. queue' \in Queues
    BY <1>2, <1>5, <1>6, AdvanceEffect
  <1> QED
    BY <1>1, <1>6, <1>9, <1>10 DEF SkipStep, IInv, TypeOK, ClosedIsEmpty, EntriesInPosition,
       Positions, EachPacketHasOneOwner, Owners, TailIsSet, TailSet

(* fini gives every packet back. *)
LEMMA FiniInv == ASSUME IInv, FiniStep PROVE IInv'
  <1>1. 0 \in SeqNums
    BY SeqModFacts DEF SeqNums
  <1>2. queue' \in Queues /\ queue'.count = 0 /\ SetOffsets(queue') = {} /\ Content(queue') = {}
    BY <1>1, NewQueueEmpty DEF FiniStep, Strategies
  <1>3. \A p \in Packets : outstanding'[p] = 0
    BY DEF FiniStep, Returned, FiniDrops, IInv, EachPacketHasOneOwner
  <1>4. /\ outstanding' = OutAfter(Content(queue), outstanding)
        /\ seqOf' = SeqsAfter(Content(queue), seqOf)
    BY DEF FiniStep, Returned, FiniDrops, OutAfter, SeqsAfter
  <1>5. outstanding' \in [Packets -> Int] /\ seqOf' \in [Packets -> SeqNums]
    BY <1>4, GhostTypes DEF IInv, TypeOK
  <1>6. TypeOK'
    BY <1>2, <1>5 DEF FiniStep, TypeOK
  <1>7. EntriesInPosition'
    BY <1>2 DEF EntriesInPosition
  <1>8. EachPacketHasOneOwner'
    BY <1>2, <1>3 DEF EachPacketHasOneOwner
  <1>9. ClosedIsEmpty' /\ TailIsSet'
    BY <1>2 DEF ClosedIsEmpty, TailIsSet
  <1> QED
    BY <1>6, <1>7, <1>8, <1>9 DEF IInv

(* The invariant is inductive: every operation preserves bounds, positions, ownership and the set tail together. *)
THEOREM InvHolds == Spec => []IInv
  <1>1. ASSUME IInv, [Next]_vars PROVE IInv'
    <2>1. ASSUME NEW s \in SeqNums, NEW strategy \in Strategies, Open(s, strategy)
          PROVE  IInv'
      BY <1>1, <2>1, OpenInv
    <2>2. ASSUME NEW s \in SeqNums, NEW p \in Packets, PushStep(s, p)
          PROVE  IInv'
      BY <1>1, <2>2, PushInv
    <2>3. CASE PullStep
      BY <1>1, <2>3, PullInv
    <2>4. CASE SkipStep
      BY <1>1, <2>4, SkipInv
    <2>5. CASE FiniStep
      BY <1>1, <2>5, FiniInv
    <2>6. CASE UNCHANGED vars
      BY <1>1, <2>6 DEF vars, IInv, TypeOK, ClosedIsEmpty, EntriesInPosition,
                        EachPacketHasOneOwner, TailIsSet
    <2> QED
      BY <1>1, <2>1, <2>2, <2>3, <2>4, <2>5, <2>6 DEF Next
  <1> QED
    BY InitInv, <1>1, PTL DEF Spec

(* The bounds that the assertions of push and pull state hold for every    *)
(* number width, window size and set of packets.                           *)
THEOREM TypeCorrect == Spec => []TypeOK
  BY InvHolds, PTL DEF IInv

(* A set slot holds the packet pushed under its number. *)
THEOREM PositionsCorrect == Spec => []EntriesInPosition
  BY InvHolds, PTL DEF IInv

(* No packet leaks and none is freed twice. *)
THEOREM OwnershipCorrect == Spec => []EachPacketHasOneOwner
  BY InvHolds, PTL DEF IInv

(* A window that is not empty ends with a packet. *)
THEOREM TailCorrect == Spec => []TailIsSet
  BY InvHolds, PTL DEF IInv

-----------------------------------------------------------------------------
(* What a pull takes is the packet of the head, and no other is returned. *)
LEMMA PullTakesHead ==
  ASSUME IInv, PullStep
  PROVE  /\ PullUser(queue) \in Packets
         /\ seqOf[PullUser(queue)] = queue.begin
         /\ outstanding[PullUser(queue)] = 1
         /\ outstanding' = [outstanding EXCEPT ![PullUser(queue)] = 0]
  <1>1. queue \in Queues /\ queue.count > 0 /\ queue.slot[Idx(queue.begin)].set
    BY DEF PullStep, CanPull, IInv, TypeOK
  <1>2. SeqAt(queue, 0) = queue.begin
    BY <1>1, QueueFacts, AddValue, SeqModFacts DEF SeqAt, SeqNums
  <1>3. 0 \in SetOffsets(queue) /\ SlotAt(queue, 0).user = PullUser(queue)
    BY <1>1, <1>2, QueueFacts DEF SetOffsets, Offsets, SlotAt, PullUser
  <1>4. PullUser(queue) \in Packets /\ seqOf[PullUser(queue)] = queue.begin
    BY <1>2, <1>3 DEF IInv, EntriesInPosition
  <1>5. PullUser(queue) \in Content(queue)
    BY <1>3 DEF Content
  <1>6. outstanding[PullUser(queue)] = 1
    BY <1>4, <1>5 DEF IInv, EachPacketHasOneOwner
  <1> DEFINE u == PullUser(queue)
  <1>7. /\ outstanding' = [p \in Packets |-> IF p \in {u} THEN outstanding[p] - 1 ELSE outstanding[p]]
        /\ outstanding \in [Packets -> Int]
    BY DEF PullStep, Returned, IInv, TypeOK
  <1>8. u \in Packets /\ outstanding[u] = 1
    BY <1>4, <1>6
  <1> HIDE DEF u
  <1>9. outstanding' = [outstanding EXCEPT ![u] = 0]
    <2>1. \A p \in Packets : (IF p \in {u} THEN outstanding[p] - 1 ELSE outstanding[p])
                               = [outstanding EXCEPT ![u] = 0][p]
      BY <1>7, <1>8
    <2>2. outstanding' = [p \in Packets |-> [outstanding EXCEPT ![u] = 0][p]]
      BY <1>7, <2>1, Zenon
    <2> QED
      BY <1>7, <2>2
  <1> QED
    BY <1>4, <1>6, <1>9 DEF u

(* No number of the window is before the number of its head. *)
LEMMA HeadIsFirst ==
  ASSUME NEW q \in Queues, NEW i \in Offsets(q)
  PROVE  ~SeqLt(SeqAt(q, i), q.begin)
  <1>1. i \in 0 .. SeqMod - 1 /\ i < SeqHalf /\ q.begin \in SeqNums
    BY QueueFacts, QueueSizeFacts, SeqModFacts DEF Offsets
  <1>2. SeqAt(q, i) \in SeqNums /\ SeqDist(q.begin, SeqAt(q, i)) = i
    BY <1>1, OffOfSeqAt, AddType, SeqModFacts DEF Off, SeqAt
  <1>3. SeqDist(SeqAt(q, i), q.begin) = 0 \/ SeqDist(SeqAt(q, i), q.begin) = SeqMod - i
    BY <1>1, <1>2, DistBack
  <1>4. ~(SeqDist(SeqAt(q, i), q.begin) \in 1 .. SeqHalf - 1)
    BY <1>1, <1>3, SeqModFacts
  <1> QED
    BY <1>1, <1>2, <1>4, LtByDist

(* chiaki_reorder_queue_pull takes the packets in the order of their       *)
(* numbers, across the wrap and whatever order they were pushed in.        *)
THEOREM PullsAreOrdered == Spec => PullsInOrder
  <1>1. ASSUME IInv, NEW p \in Packets, NEW r \in Packets, PullStep,
               outstanding'[p] < outstanding[p], outstanding'[r] = 1
        PROVE  ~SeqLt(seqOf[r], seqOf[p])
    <2>1. /\ seqOf[PullUser(queue)] = queue.begin /\ outstanding[PullUser(queue)] = 1
          /\ outstanding' = [outstanding EXCEPT ![PullUser(queue)] = 0]
      BY <1>1, PullTakesHead
    <2>2. outstanding \in [Packets -> Int] /\ queue \in Queues
      BY <1>1 DEF IInv, TypeOK
    <2>3. p = PullUser(queue)
      BY <1>1, <2>1, <2>2
    <2>4. outstanding[r] = 1
      BY <1>1, <2>1, <2>2
    <2>5. r \in Content(queue)
      BY <1>1, <2>4 DEF IInv, EachPacketHasOneOwner
    <2>6. PICK i \in SetOffsets(queue) : SlotAt(queue, i).user = r
      BY <2>5 DEF Content
    <2>7. seqOf[r] = SeqAt(queue, i) /\ i \in Offsets(queue)
      BY <1>1, <2>6 DEF IInv, EntriesInPosition, SetOffsets
    <2> QED
      BY <2>1, <2>2, <2>3, <2>7, HeadIsFirst
  <1>2. IInv => [\A p, r \in Packets :
                   (PullStep /\ outstanding'[p] < outstanding[p] /\ outstanding'[r] = 1)
                     => ~SeqLt(seqOf[r], seqOf[p])]_vars
    BY <1>1
  <1> QED
    BY <1>2, InvHolds, PTL DEF PullsInOrder

(* A queue that drops from the end keeps its head when it is pushed to. *)
LEMMA EndPushKeepsHead ==
  ASSUME NEW q, NEW s, NEW p, q.strategy = "END"
  PROVE  Push(q, s, p).begin = q.begin
  <1>1. CASE Rejected(q, s)
    BY <1>1 DEF Push
  <1>2. CASE ~Rejected(q, s) /\ InWindow(q, s)
    BY <1>2 DEF Push, Store
  <1>3. CASE ~Rejected(q, s) /\ ~InWindow(q, s)
    <2>1. Rebased(q, s) = q
      BY DEF Rebased, Rebases
    <2>2. ~Overreaches(q, s)
      BY <1>3, <2>1 DEF Rejected
    <2>3. Shed(q, s) = q
      BY <2>2 DEF Shed
    <2>4. Push(q, s, p) = Store(Fill(q, s), s, p)
      BY <1>3, <2>1, <2>3 DEF Push
    <2> QED
      BY <2>4 DEF Store, Fill
  <1> QED
    BY <1>1, <1>2, <1>3

(* takion.c's data queue, which drops from the end, gives up no number:    *)
(* its head only moves past what is pulled, or when it is skipped.         *)
THEOREM EndStrategySkipsNothing == Spec => EndStrategyPassesOverNothing
  <1>1. ASSUME IInv, Next, open, open', queue.strategy = "END", queue'.begin # queue.begin
        PROVE  \/ SkipStep
               \/ /\ queue'.begin = SeqAdd(queue.begin, 1)
                  /\ \E p \in Packets : /\ seqOf[p] = queue.begin
                                        /\ outstanding'[p] < outstanding[p]
    <2>1. CASE PullStep
      <3>1. queue'.begin = SeqAdd(queue.begin, 1)
        BY <1>1, <2>1 DEF PullStep, Pull, IInv, TypeOK, Queues
      <3>2. /\ PullUser(queue) \in Packets
            /\ seqOf[PullUser(queue)] = queue.begin
            /\ outstanding'[PullUser(queue)] < outstanding[PullUser(queue)]
        BY <1>1, <2>1, PullTakesHead DEF IInv, TypeOK
      <3> QED
        BY <3>1, <3>2
    <2>2. ASSUME NEW s \in SeqNums, NEW p \in Packets, PushStep(s, p)
          PROVE  FALSE
      BY <1>1, <2>2, EndPushKeepsHead DEF PushStep
    <2>3. ~FiniStep /\ \A s \in SeqNums, strategy \in Strategies : ~Open(s, strategy)
      BY <1>1 DEF FiniStep, Open
    <2> QED
      BY <1>1, <2>1, <2>2, <2>3 DEF Next
  <1>2. IInv /\ [Next]_vars =>
          [(open /\ open' /\ queue.strategy = "END" /\ queue'.begin # queue.begin)
             => \/ SkipStep
                \/ /\ queue'.begin = SeqAdd(queue.begin, 1)
                   /\ \E p \in Packets : /\ seqOf[p] = queue.begin
                                         /\ outstanding'[p] < outstanding[p]]_vars
    BY <1>1
  <1> QED
    BY <1>2, InvHolds, PTL DEF Spec, EndStrategyPassesOverNothing
=============================================================================
