--------------------------- MODULE TakionAVQueue ---------------------------
(***************************************************************************)
(* The video queue of the Takion thread (takion.c): video packets go       *)
(* through a reorder queue that drops from its begin, and a missing head   *)
(* is waited for no longer than TAKION_AV_REORDER_TIMEOUT_US.              *)
(*                                                                         *)
(* The clock is what has passed since head_wait_start_us, in parts of the  *)
(* timeout, saturating beyond it.  One flush reads the clock once, and is  *)
(* taken to last no time.  Packets differ by their packet_index only.      *)
(***************************************************************************)
EXTENDS ReorderQueue

CONSTANTS Timeout,  \* TAKION_AV_REORDER_TIMEOUT_US
          MaxUnit,  \* bound: the largest unit_index of a packet
          Watched   \* bound: the numbers QueuedPacketLeaves follows

Packet == CHOOSE p \in Packets : TRUE
None == -1

ASSUME AVQueueAssumption ==
  Timeout \in Nat /\ MaxUnit \in Nat /\ Watched \subseteq SeqNums /\ Packets # {}

VARIABLES
  initialized,  \* video_queue_initialized
  videoQueue,   \* video_queue
  avpc,         \* the Takion thread: receiving, flushing or ended
  progress,     \* made_progress of the flush
  headWait,     \* time since video_queue_head_wait_start_us, or None if 0
  headSeq       \* video_queue_head_wait_seq_num

avVars == <<initialized, videoQueue, avpc, progress, headWait, headSeq>>

EmptyQueue(start) == NewQueue(start, "BEGIN")

AVInit ==
  /\ initialized = FALSE
  /\ videoQueue = EmptyQueue(0)
  /\ avpc = "recv" /\ progress = FALSE
  /\ headWait = None /\ headSeq = 0

\* takion_handle_packet_av for a video packet, up to its call of the flush.
PacketArrives(s, unit) ==
  LET start == (s - unit) % SeqMod
      q == IF initialized THEN videoQueue ELSE EmptyQueue(start)
  IN  /\ avpc = "recv"
      /\ initialized' = TRUE
      /\ videoQueue' = Push(q, s, Packet)
      /\ avpc' = "flush" /\ progress' = FALSE
      /\ headWait' = IF initialized THEN headWait ELSE None
      /\ headSeq' = IF initialized THEN headSeq ELSE start

\* takion_av_queues_next_timeout_ms: receiving ends when it is over.
RecvTimesOut ==
  /\ avpc = "recv"
  /\ headWait # None /\ headWait >= Timeout
  /\ avpc' = "flush" /\ progress' = FALSE
  /\ UNCHANGED <<initialized, videoQueue, headWait, headSeq>>

-----------------------------------------------------------------------------
(* takion_av_queue_flush_with_timeout: its loop pulls what it can, and     *)
(* then looks at the missing head.                                         *)

VideoPulls ==
  /\ avpc = "flush" /\ CanPull(videoQueue)
  /\ videoQueue' = Pull(videoQueue)
  /\ progress' = TRUE
  /\ UNCHANGED <<initialized, avpc, headWait, headSeq>>

WaitAfterPulls == IF progress THEN None ELSE headWait

\* Slip: every new head is a new gap.
NewGapAtAnyHead == videoQueue.begin # headSeq
NewGap == videoQueue.begin # headSeq /\ ~SeqGt(videoQueue.begin, headSeq)

FlushEmpties ==
  /\ avpc = "flush" /\ videoQueue.count = 0
  /\ avpc' = "recv" /\ progress' = FALSE
  /\ headWait' = WaitAfterPulls
  /\ UNCHANGED <<initialized, videoQueue, headSeq>>

\* Slip: a wait that is over is not begun again after a packet was pulled.
BeginsNoWait ==
  /\ avpc = "flush" /\ videoQueue.count > 0 /\ ~CanPull(videoQueue)
  /\ WaitAfterPulls = None
  /\ avpc' = "recv" /\ progress' = FALSE
  /\ headWait' = None /\ headSeq' = videoQueue.begin
  /\ UNCHANGED <<initialized, videoQueue>>

FlushBeginsWait ==
  /\ avpc = "flush" /\ videoQueue.count > 0 /\ ~CanPull(videoQueue)
  /\ WaitAfterPulls = None
  /\ avpc' = "recv" /\ progress' = FALSE
  /\ headWait' = 0 /\ headSeq' = videoQueue.begin
  /\ UNCHANGED <<initialized, videoQueue>>

FlushKeepsWaiting ==
  /\ avpc = "flush" /\ videoQueue.count > 0 /\ ~CanPull(videoQueue)
  /\ WaitAfterPulls # None
  /\ NewGap \/ headWait <= Timeout \/ ~CanSkip(videoQueue)
  /\ avpc' = "recv" /\ progress' = FALSE
  /\ headWait' = IF NewGap THEN 0 ELSE headWait
  /\ headSeq' = videoQueue.begin
  /\ UNCHANGED <<initialized, videoQueue>>

\* The loop is entered again, and pulls the packet that was skipped to.
FlushSkips ==
  /\ avpc = "flush" /\ videoQueue.count > 0 /\ ~CanPull(videoQueue)
  /\ WaitAfterPulls # None
  /\ ~NewGap /\ headWait > Timeout /\ CanSkip(videoQueue)
  /\ videoQueue' = SkipMissing(videoQueue)
  /\ headWait' = None /\ headSeq' = videoQueue.begin
  /\ progress' = FALSE
  /\ UNCHANGED <<initialized, avpc>>

\* Receiving fails or is cancelled: the thread leaves its loop.
ThreadEnds ==
  /\ avpc = "recv"
  /\ avpc' = "ended"
  /\ initialized' = FALSE
  /\ videoQueue' = EmptyQueue(0)
  /\ UNCHANGED <<progress, headWait, headSeq>>

AVTick ==
  /\ avpc = "recv" /\ headWait # None /\ headWait <= Timeout
  /\ headWait' = headWait + 1
  /\ UNCHANGED <<initialized, videoQueue, avpc, progress, headSeq>>

FlushNext ==
  VideoPulls \/ FlushEmpties \/ FlushBeginsWait \/ FlushKeepsWaiting \/ FlushSkips

AVNext ==
  \/ \E s \in SeqNums, unit \in 0 .. MaxUnit : PacketArrives(s, unit)
  \/ RecvTimesOut
  \/ FlushNext
  \/ ThreadEnds
  \/ AVTick

(* The thread runs on and time passes; packets need not arrive.  Receiving *)
(* times out in the end even if packets keep arriving before, because the  *)
(* time it is given shrinks to nothing (strong fairness).                  *)
AVFairness == WF_avVars(FlushNext) /\ SF_avVars(RecvTimesOut) /\ SF_avVars(AVTick)

AVSpec == AVInit /\ [][AVNext]_avVars /\ AVFairness

-----------------------------------------------------------------------------

Waiting == {SeqAt(videoQueue, i) : i \in SetOffsets(videoQueue)}

AVTypeOK ==
  /\ initialized \in BOOLEAN
  /\ videoQueue \in Queues
  /\ avpc \in {"recv", "flush", "ended"} /\ progress \in BOOLEAN
  /\ headWait \in {None} \cup 0 .. Timeout + 1
  /\ headSeq \in SeqNums

(* "The missing head advanced within the same loss burst.  Keep the        *)
(* original timeout budget": a running wait never starts afresh while      *)
(* nothing was pulled or skipped, however far pushes move the head.        *)
BudgetIsNotRenewed ==
  [][(headWait # None /\ headWait' # None /\ headWait' < headWait) => progress]_avVars

(* A packet in the queue comes out of it, delivered or dropped, even if    *)
(* the packets missing before it never arrive and nothing else does.  The  *)
(* model is the same under every number, so that a few are followed.       *)
QueuedPacketLeaves == \A s \in Watched : (s \in Waiting) ~> (s \notin Waiting)
=============================================================================
