---------------------------- MODULE ReorderQueue ----------------------------
(***************************************************************************)
(* The operations of lib/src/reorderqueue.c as operators on a queue value. *)
(* A queue is the C struct: the sequence number of its head, the number of *)
(* slots its window spans, the slot array and the drop strategy.  Slots    *)
(* are found by masking the sequence number, and a slot that has left the  *)
(* window keeps its stale "set" flag and user pointer, as in the C array.  *)
(* A definition marked "Slip" is a deliberately wrong variant of the one   *)
(* that follows; the checks must notice when it takes its place.           *)
(***************************************************************************)
EXTENDS SeqNum

CONSTANTS QueueSize, \* 1 << size_exp
          Packets,   \* the user pointers
          NoPacket   \* the user pointer of a slot calloc'ed and never written

ASSUME QueueSizeAssumption ==
  /\ QueueSize \in Nat
  /\ 2 <= QueueSize
  /\ QueueSize < SeqHalf
  /\ \E k \in 1 .. SeqMod : SeqMod = k * QueueSize

ASSUME NoPacketAssumption == NoPacket \notin Packets

Strategies == {"BEGIN", "END"}
Slots == [set : BOOLEAN, user : Packets \cup {NoPacket}]
Queues == [begin : SeqNums, count : 0 .. QueueSize,
           slot : [0 .. QueueSize - 1 -> Slots], strategy : Strategies]

Idx(s) == s % QueueSize

NewQueue(start, strategy) ==
  [begin |-> start, count |-> 0, strategy |-> strategy,
   slot |-> [i \in 0 .. QueueSize - 1 |-> [set |-> FALSE, user |-> NoPacket]]]

(* The sequence number, the slot and the content at an offset from the head. *)
SeqAt(q, i) == SeqAdd(q.begin, i)
SlotAt(q, i) == q.slot[Idx(SeqAt(q, i))]
Offsets(q) == 0 .. q.count - 1
SetOffsets(q) == {i \in Offsets(q) : SlotAt(q, i).set}
Content(q) == {SlotAt(q, i).user : i \in SetOffsets(q)}

End(q) == SeqAdd(q.begin, q.count)

-----------------------------------------------------------------------------
(* push: which of its branches a sequence number takes.                    *)

InWindow(q, s) == SeqGe(s, q.begin) /\ SeqLt(s, End(q))
Duplicate(q, s) == InWindow(q, s) /\ q.slot[Idx(s)].set
(* Slip: old numbers are accepted. *)
OldAccepted(q, s) == FALSE
Old(q, s) == ~InWindow(q, s) /\ SeqLt(s, q.begin)

(* Half the number space away from the end: neither inside, before nor     *)
(* after the window.  An empty queue that drops from the begin moves there. *)
Incomparable(q, s) ==
  ~InWindow(q, s) /\ ~SeqLt(s, q.begin) /\ ~SeqGe(s, End(q))
Rebases(q, s) == Incomparable(q, s) /\ q.count = 0 /\ q.strategy = "BEGIN"
Rebased(q, s) == IF Rebases(q, s) THEN [q EXCEPT !.begin = s] ELSE q

(* How many slots a push ahead of the window reaches beyond the capacity.  *)
(* Slip: room for one slot too many. *)
TotalEndTooFar(q) == SeqAdd(End(q), QueueSize - q.count + 1)
TotalEnd(q) == SeqAdd(End(q), QueueSize - q.count)
Overreaches(q, s) == SeqLt(TotalEnd(q), SeqAdd(s, 1))
Excess(q, s) == IF Overreaches(q, s) THEN SeqDist(TotalEnd(q), SeqAdd(s, 1)) ELSE 0

(* Slip: the drop strategy is not consulted. *)
RejectedIgnoringStrategy(q, s) ==
  \/ Duplicate(q, s)
  \/ Old(q, s)
  \/ Incomparable(q, s) /\ ~Rebases(q, s)

Rejected(q, s) ==
  \/ Duplicate(q, s)
  \/ Old(q, s)
  \/ Incomparable(q, s) /\ ~Rebases(q, s)
  \/ /\ ~InWindow(q, s)
     /\ Overreaches(Rebased(q, s), s)
     /\ q.strategy = "END"

(* The loop that drops from the head until the new element fits: each      *)
(* round advances total_end by one, so it runs Excess rounds or until the  *)
(* queue is empty, and an emptied queue restarts at the new element.       *)
ShedCount(q, s) == IF Excess(q, s) < q.count THEN Excess(q, s) ELSE q.count

Shed(q, s) ==
  LET k == ShedCount(q, s)
  IN  IF ~Overreaches(q, s) THEN q
      ELSE [q EXCEPT !.begin = IF k = q.count THEN s ELSE SeqAdd(@, k),
                     !.count = @ - k]

(* Slip: the slots that are dropped are not tested for being set. *)
EvictedUnchecked(q, s) == {SlotAt(q, i).user : i \in 0 .. ShedCount(q, s) - 1}

Evicted(q, s) ==
  {SlotAt(q, i).user : i \in {j \in SetOffsets(q) : j < ShedCount(q, s)}}

(* The loop that moves the end up to the new element, clearing the slots.  *)
(* Slip: the end moves one past the new element. *)
FillCountTooFar(q, s) ==
  IF SeqLt(End(q), SeqAdd(s, 1)) THEN SeqDist(End(q), SeqAdd(s, 1)) + 1 ELSE 0

FillCount(q, s) ==
  IF SeqLt(End(q), SeqAdd(s, 1)) THEN SeqDist(End(q), SeqAdd(s, 1)) ELSE 0

(* Slip: the slots that enter the window are not cleared. *)
FillUncleared(q, s) == [q EXCEPT !.count = @ + FillCount(q, s)]

Fill(q, s) ==
  LET n == FillCount(q, s)
      opened == {Idx(SeqAdd(End(q), j)) : j \in 0 .. n - 1}
  IN  [q EXCEPT !.count = @ + n,
                !.slot = [i \in DOMAIN @ |->
                            IF i \in opened THEN [@[i] EXCEPT !.set = FALSE]
                                            ELSE @[i]]]

Store(q, s, p) == [q EXCEPT !.slot[Idx(s)] = [set |-> TRUE, user |-> p]]

(* push as a whole: the queue it leaves and the packets given to drop_cb.  *)
Push(q, s, p) ==
  IF Rejected(q, s) THEN q
  ELSE IF InWindow(q, s) THEN Store(q, s, p)
  ELSE Store(Fill(Shed(Rebased(q, s), s), s), s, p)

PushDrops(q, s, p) ==
  IF Rejected(q, s) THEN {p}
  ELSE IF InWindow(q, s) THEN {}
  ELSE Evicted(Rebased(q, s), s)

-----------------------------------------------------------------------------
(* pull, peek, drop and fini.                                              *)

CanPull(q) == q.count > 0 /\ q.slot[Idx(q.begin)].set
PullUser(q) == q.slot[Idx(q.begin)].user
Pull(q) == [q EXCEPT !.begin = SeqAdd(@, 1), !.count = @ - 1]

CanPeek(q, i) == i < q.count /\ SlotAt(q, i).set

(* drop gives the packet at offset i to drop_cb.  It never clears the      *)
(* slot, so the loop that would shorten the window stops at once.          *)
CanDrop(q, i) == i < q.count /\ SlotAt(q, i).set
DropUser(q, i) == SlotAt(q, i).user
DropAt(q, i) == q

(* The packets fini gives to drop_cb. *)
FiniDrops(q) == Content(q)

-----------------------------------------------------------------------------
(* takion.c skips to the first packet that is there once the head has been *)
(* missing for too long.                                                   *)

CanSkip(q) == ~CanPull(q) /\ SetOffsets(q) # {}
FirstPeek(q) == CHOOSE i \in SetOffsets(q) : \A j \in SetOffsets(q) : i <= j
SkipMissing(q) == [q EXCEPT !.begin = SeqAdd(@, FirstPeek(q)),
                            !.count = @ - FirstPeek(q)]
=============================================================================
