-------------------------- MODULE ReorderQueueDrop --------------------------
(***************************************************************************)
(* The queue in use with chiaki_reorder_queue_drop as a further operation; *)
(* the Takion thread calls it (takion.c:1111) for a waiting data packet    *)
(* whose MAC turns out to be wrong once the keys are there.                *)
(***************************************************************************)
EXTENDS ReorderQueueClient

DropStep(i) ==
  /\ open
  /\ CanDrop(queue, i)
  /\ queue' = DropAt(queue, i)
  /\ Returned({DropUser(queue, i)}, outstanding, seqOf)
  /\ UNCHANGED open

DropNext == Next \/ \E i \in 0 .. QueueSize - 1 : DropStep(i)

DropSpec == Init /\ [][DropNext]_vars

(* reorderqueue.h:119-124: "Drop a specific element from the queue."  What *)
(* drop hands to the drop callback, which frees it, is no longer in the    *)
(* queue.                                                                  *)
DroppedPacketIsGone ==
  [][\A i \in 0 .. QueueSize - 1 :
       DropStep(i) => DropUser(queue, i) \notin Content(queue')]_vars
=============================================================================
