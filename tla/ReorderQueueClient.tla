------------------------- MODULE ReorderQueueClient -------------------------
(***************************************************************************)
(* A reorder queue in use.  The client opens a queue, pushes packets under *)
(* any sequence number the network brings, pulls, skips a missing head and *)
(* closes the queue, in any order; takion.c does so with its data queue    *)
(* (strategy END) and its video queue (strategy BEGIN).                    *)
(*                                                                         *)
(* The queue only holds pointers: a packet is allocated by the client,     *)
(* belongs to the queue once pushed and comes back through pull or the     *)
(* drop callback, whose user frees it.  outstanding[p] counts the pushes   *)
(* of p minus its returns, and seqOf[p] is the number p was pushed under.  *)
(***************************************************************************)
EXTENDS ReorderQueue

VARIABLES open, queue, outstanding, seqOf

vars == <<open, queue, outstanding, seqOf>>

Init ==
  /\ open = FALSE
  /\ queue = NewQueue(0, "END")
  /\ outstanding = [p \in Packets |-> 0]
  /\ seqOf = [p \in Packets |-> 0]

(* init_16/init_32, then set_drop_strategy. *)
Open(start, strategy) ==
  /\ ~open
  /\ open' = TRUE
  /\ queue' = NewQueue(start, strategy)
  /\ UNCHANGED <<outstanding, seqOf>>

(* The packets in ps come back to the client. *)
Returned(ps, out, seqs) ==
  /\ outstanding' = [p \in Packets |-> IF p \in ps THEN out[p] - 1 ELSE out[p]]
  /\ seqOf' = [p \in Packets |-> IF p \in ps THEN 0 ELSE seqs[p]]

PushStep(s, p) ==
  /\ open
  /\ outstanding[p] = 0
  /\ queue' = Push(queue, s, p)
  /\ Returned(PushDrops(queue, s, p),
              [outstanding EXCEPT ![p] = 1], [seqOf EXCEPT ![p] = s])
  /\ UNCHANGED open

PullStep ==
  /\ open
  /\ CanPull(queue)
  /\ queue' = Pull(queue)
  /\ Returned({PullUser(queue)}, outstanding, seqOf)
  /\ UNCHANGED open

SkipStep ==
  /\ open
  /\ CanSkip(queue)
  /\ queue' = SkipMissing(queue)
  /\ UNCHANGED <<open, outstanding, seqOf>>

FiniStep ==
  /\ open
  /\ open' = FALSE
  /\ queue' = NewQueue(0, "END")
  /\ Returned(FiniDrops(queue), outstanding, seqOf)

Next ==
  \/ \E s \in SeqNums, strategy \in Strategies : Open(s, strategy)
  \/ \E s \in SeqNums, p \in Packets : PushStep(s, p)
  \/ PullStep
  \/ SkipStep
  \/ FiniStep

Spec == Init /\ [][Next]_vars

-----------------------------------------------------------------------------
(* Types, with the bound the assertions of push and pull state: the window *)
(* never spans more slots than the array has.                              *)
TypeOK ==
  /\ open \in BOOLEAN
  /\ queue \in Queues
  /\ outstanding \in [Packets -> Int]
  /\ seqOf \in [Packets -> SeqNums]

(* A slot of the window that is set holds the packet that was pushed under *)
(* exactly that sequence number: masking never mixes up two numbers, and a *)
(* stale slot never comes back into the window with its old content.       *)
EntriesInPosition ==
  \A i \in SetOffsets(queue) :
    /\ SlotAt(queue, i).user \in Packets
    /\ seqOf[SlotAt(queue, i).user] = SeqAt(queue, i)

(* A packet the client has pushed and not got back is in the queue, and a  *)
(* packet in the queue has not been given back: nothing leaks, nothing is  *)
(* freed twice, and fini leaves no packet behind.                          *)
EachPacketHasOneOwner ==
  \A p \in Packets :
    outstanding[p] = IF p \in Content(queue) THEN 1 ELSE 0

(* The last slot of a window that is not empty is set.  The Takion thread  *)
(* relies on it: after the timeout of a missing head it looks for a packet *)
(* to skip to, and would spin if there was none.                           *)
TailIsSet == queue.count > 0 => SlotAt(queue, queue.count - 1).set

(* A packet is pulled only when no packet with a smaller sequence number   *)
(* is still waiting in the queue.                                          *)
PullsInOrder ==
  [][\A p, r \in Packets :
       (PullStep /\ outstanding'[p] < outstanding[p] /\ outstanding'[r] = 1)
         => ~SeqLt(seqOf[r], seqOf[p])]_vars

(* Dropping from the end, the data queue gives up no sequence number: its  *)
(* head advances one at a time, past a packet that is pulled, unless the   *)
(* client skips.                                                           *)
EndStrategyPassesOverNothing ==
  [][(open /\ open' /\ queue.strategy = "END" /\ queue'.begin # queue.begin)
       => \/ SkipStep
          \/ /\ queue'.begin = SeqAdd(queue.begin, 1)
             /\ \E p \in Packets : /\ seqOf[p] = queue.begin
                                   /\ outstanding'[p] < outstanding[p]]_vars
=============================================================================
