----------------------------- MODULE TakionData -----------------------------
(***************************************************************************)
(* The receiving side of Takion's data channel (takion.c): data packets    *)
(* arrive over UDP, lost, duplicated and reordered, go through the data    *)
(* queue and reach the callback; what was pulled is acknowledged.          *)
(*                                                                         *)
(* The console numbers its messages upwards from seq_num_remote_initial;   *)
(* message n here is the n-th of them.  It sends a message again while it  *)
(* has no acknowledgement for it, so any message sent so far may arrive at *)
(* any time and any number of times; a packet that never arrives, has a    *)
(* wrong MAC or finds no memory for its entry is one that does not arrive. *)
(***************************************************************************)
EXTENDS ReorderQueue, Sequences

CONSTANTS FirstRemote,        \* seq_num_remote_initial
          MaxMessages,        \* bound: number of messages ever sent
          UnknownTypes        \* the messages whose data type is not known

\* The packets of the data queue are the messages, each under its own index.
Messages == Packets

ASSUME TakionDataAssumption ==
  /\ FirstRemote \in SeqNums
  /\ MaxMessages \in Nat /\ MaxMessages < SeqHalf
  /\ Packets = 0 .. MaxMessages - 1
  /\ UnknownTypes \subseteq Messages

VARIABLES
  produced,  \* number of messages the console has sent
  acked,     \* number of messages the console knows to be acknowledged
  queue,     \* data_queue
  pc,        \* the Takion thread: receiving, or in takion_flush_data_queue
  ack,       \* `ack` and `seq_num` of that function
  seqNum,
  acks,      \* the acknowledgements that were sent
  handed     \* the messages given to the callback

dataVars == <<produced, acked, queue, pc, ack, seqNum, acks, handed>>

MsgSeq(n) == SeqAdd(FirstRemote, n)

\* Slip: the data queue drops from the begin.
DataQueueFromBegin == NewQueue(FirstRemote, "BEGIN")
DataQueue == NewQueue(FirstRemote, "END")

DataInit ==
  /\ produced = 0 /\ acked = 0
  /\ queue = DataQueue
  /\ pc = "recv" /\ ack = FALSE /\ seqNum = 0
  /\ acks = {}
  /\ handed = <<>>

ConsoleSends ==
  /\ produced < MaxMessages
  /\ produced' = produced + 1
  /\ UNCHANGED <<acked, queue, pc, ack, seqNum, acks, handed>>

\* takion_handle_packet_message_data, up to its call of the flush.
DataArrives(n) ==
  /\ pc = "recv" /\ n < produced
  /\ queue' = Push(queue, MsgSeq(n), n)
  /\ pc' = "flush" /\ ack' = FALSE /\ seqNum' = 0
  /\ UNCHANGED <<produced, acked, acks, handed>>

\* One round of the loop of takion_flush_data_queue.
FlushPulls ==
  /\ pc = "flush" /\ CanPull(queue)
  /\ queue' = Pull(queue)
  /\ ack' = TRUE /\ seqNum' = queue.begin
  /\ handed' = IF PullUser(queue) \in UnknownTypes THEN handed
                                                  ELSE Append(handed, PullUser(queue))
  /\ UNCHANGED <<produced, acked, pc, acks>>

\* Slips: the acknowledgement goes one too far, or to what waits in the queue.
AckNumberNext == SeqAdd(seqNum, 1)
AckNumberOfEnd == SeqAdd(queue.begin, queue.count - 1)
AckNumber == seqNum

\* The loop ends; something was pulled, so an acknowledgement is sent.
FlushAcks ==
  /\ pc = "flush" /\ ~CanPull(queue) /\ ack
  /\ acks' = acks \cup {AckNumber}
  /\ pc' = "recv" /\ ack' = FALSE /\ seqNum' = 0
  /\ UNCHANGED <<produced, acked, queue, handed>>

\* The same when sending the acknowledgement fails, or nothing was pulled.
FlushEnds ==
  /\ pc = "flush" /\ ~CanPull(queue)
  /\ pc' = "recv" /\ ack' = FALSE /\ seqNum' = 0
  /\ UNCHANGED <<produced, acked, queue, acks, handed>>

\* Acknowledgements are cumulative for the console; late ones change nothing.
ConsoleReceivesAck(s) ==
  /\ s \in acks /\ SeqDist(FirstRemote, s) >= acked
  /\ acked' = SeqDist(FirstRemote, s) + 1
  /\ UNCHANGED <<produced, queue, pc, ack, seqNum, acks, handed>>

DataNext ==
  \/ ConsoleSends
  \/ \E n \in Messages : DataArrives(n)
  \/ FlushPulls \/ FlushAcks \/ FlushEnds
  \/ \E s \in SeqNums : ConsoleReceivesAck(s)

taken == SeqDist(FirstRemote, queue.begin)

(* The Takion thread runs on, and the message whose turn it is gets        *)
(* through again and again, as long as the console goes on sending it for  *)
(* want of an acknowledgement.                                             *)
TurnArrives == taken \in Messages /\ taken >= acked /\ DataArrives(taken)
DataFairness ==
  /\ WF_dataVars(FlushPulls \/ FlushAcks \/ FlushEnds)
  /\ SF_dataVars(TurnArrives)

DataSpec == DataInit /\ [][DataNext]_dataVars /\ DataFairness

-----------------------------------------------------------------------------

DataTypeOK ==
  /\ produced \in 0 .. MaxMessages /\ acked \in 0 .. MaxMessages
  /\ queue \in Queues
  /\ pc \in {"recv", "flush"} /\ ack \in BOOLEAN /\ seqNum \in SeqNums
  /\ acks \subseteq SeqNums
  /\ handed \in Seq(Messages)

(* An acknowledgement covers only messages that were already pulled from   *)
(* the queue.  One that covered a message still missing would make the     *)
(* console forget it, and the head of the queue would be missing for ever. *)
AcksCoverOnlyTaken == \A s \in acks : SeqDist(FirstRemote, s) < taken

(* The queue in front of the callback makes an ordered channel, without    *)
(* gaps and duplicates, of the packets that arrive.                        *)
Ordered == INSTANCE OrderedDelivery
ImplementsOrderedDelivery == Ordered!Spec

(* What the console has sent is taken in the end, whatever is lost on the  *)
(* way, in either direction, and however small the queue: it stops after   *)
(* MaxMessages at the latest, and then nothing is left that was not taken. *)
EveryMessageIsTaken == []<>(taken = produced)
=============================================================================
