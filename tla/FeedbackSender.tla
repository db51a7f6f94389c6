--------------------------- MODULE FeedbackSender ---------------------------
(***************************************************************************)
(* The feedback sender: the application sets the controller state, which   *)
(* records the changes of buttons, triggers and touches as history events  *)
(* and queues a history packet; the sender thread sends the analog state   *)
(* and the history packets to the console.  Events are numbered in the     *)
(* order of recording, so the history buffer (newest first) is the last    *)
(* fb.len of them.                                                         *)
(***************************************************************************)
EXTENDS Naturals, FiniteSets

CONSTANTS
  BufferSize,    \* FEEDBACK_HISTORY_BUFFER_SIZE (16)
  ResendEvents,  \* FEEDBACK_HISTORY_RESEND_EVENT_COUNT (4)
  PacketQueue,   \* CHIAKI_FEEDBACK_HISTORY_PACKET_QUEUE_SIZE (64)
  MaxBatch,      \* bound: events that one change of the controller records (20: 16 buttons,
                 \* 2 triggers, 2 touches), which may be more than the buffer holds
  MaxInputs      \* bound: number of changes of the controller

ASSUME FeedbackAssumption ==
  /\ BufferSize \in Nat \ {0} /\ ResendEvents \in 0 .. BufferSize
  /\ PacketQueue \in Nat \ {0} /\ MaxBatch \in Nat /\ MaxInputs \in Nat

VARIABLES
  fb,       \* under state_mutex: controller state, changed, history, ring of packets, should_stop;
            \* and, for the properties, whether the ring overflowed and the forgotten events
  sender,   \* the sender thread: where it is, what it took, the state it believes the console has
  sent,     \* what went to Takion: the last analog state, the events
  inputs    \* how many changes the application made

feedbackVars == <<fb, sender, sent, inputs>>

Sticks == {0, 1}
AllEvents == 1 .. MaxInputs * MaxBatch
History(len, recorded) == {e \in 1 .. recorded : e + len > recorded}

FeedbackTypeOK ==
  /\ fb.stick \in Sticks /\ fb.changed \in BOOLEAN /\ fb.stop \in BOOLEAN /\ fb.overflow \in BOOLEAN
  /\ fb.recorded \in 0 .. MaxInputs * MaxBatch /\ fb.len \in 0 .. BufferSize /\ fb.len <= fb.recorded
  /\ fb.begin \in 0 .. PacketQueue - 1 /\ fb.queued \in 0 .. PacketQueue
  /\ fb.packets \in [0 .. PacketQueue - 1 -> SUBSET AllEvents] /\ fb.forgotten \subseteq AllEvents
  /\ sender.pc \in {"wait", "send", "relock", "done"} /\ sender.prev \in Sticks
  /\ sender.now \in Sticks /\ sender.due \in BOOLEAN /\ sender.packet \subseteq AllEvents
  /\ sent.stick \in Sticks /\ sent.events \subseteq AllEvents
  /\ inputs \in 0 .. MaxInputs

FeedbackInit ==
  /\ fb = [stick |-> 0, changed |-> FALSE, stop |-> FALSE, overflow |-> FALSE, recorded |-> 0, len |-> 0,
           begin |-> 0, queued |-> 0, packets |-> [i \in 0 .. PacketQueue - 1 |-> {}], forgotten |-> {}]
  /\ sender = [pc |-> "wait", prev |-> 0, now |-> 0, due |-> FALSE, packet |-> {}]
  /\ sent = [stick |-> 0, events |-> {}]
  /\ inputs = 0

-----------------------------------------------------------------------------
\* Slip: the place of a new packet does not count from the first queued one.
PacketIndexSlip(f) == f.queued % PacketQueue
PacketIndex(f) == (f.begin + f.queued) % PacketQueue

\* Of the next k events, those that are older than the BufferSize newest.
Forgets(f, k) == {e \in f.recorded + 1 .. f.recorded + k : e + BufferSize <= f.recorded + k}

\* chiaki_feedback_history_buffer_push, k times: the buffer forgets what does not fit, and of
\* these k events, which are in no packet yet, the oldest if there are more than it holds.
Recorded(f, k) ==
  [f EXCEPT !.recorded = @ + k, !.len = IF f.len + k < BufferSize THEN f.len + k ELSE BufferSize,
            !.forgotten = @ \union Forgets(f, k)]

QueueLength(f) == IF f.queued < PacketQueue THEN f.queued + 1 ELSE f.queued

\* feedback_sender_flush_history_locked: a full ring overwrites its oldest packet.
Queued(f) ==
  [f EXCEPT
     !.packets[PacketIndex(f)] = History(f.len, f.recorded),
     !.queued = QueueLength(f),
     !.begin = IF f.queued < PacketQueue THEN @ ELSE (@ + 1) % PacketQueue,
     !.overflow = @ \/ f.queued = PacketQueue,
     !.len = IF @ > ResendEvents THEN ResendEvents ELSE @]

\* chiaki_feedback_sender_set_controller_state; a state that differs in nothing is ignored.
SetsControllerState(stick, k) ==
  /\ ~fb.stop /\ inputs < MaxInputs
  /\ stick # fb.stick \/ k > 0
  /\ LET f == [fb EXCEPT !.stick = stick, !.changed = TRUE]
     IN fb' = IF k = 0 THEN f ELSE Queued(Recorded(f, k))
  /\ inputs' = inputs + 1
  /\ UNCHANGED <<sender, sent>>

\* chiaki_feedback_sender_fini asks the thread to stop.
StopsFeedback == ~fb.stop /\ fb' = [fb EXCEPT !.stop = TRUE] /\ UNCHANGED <<sender, sent, inputs>>

-----------------------------------------------------------------------------
\* The sender thread.  It waits, at most until the analog state is due again,
\* only when no packet is queued; it decides and takes a packet with the mutex held.
Collects(due) ==
  /\ sender.pc = "wait"
  /\ fb.queued > 0 \/ fb.changed \/ fb.stop \/ due
  /\ IF fb.stop
     THEN sender' = [sender EXCEPT !.pc = "done"] /\ UNCHANGED fb
     ELSE /\ sender' = [sender EXCEPT !.pc = "send", !.now = fb.stick,
                          !.due = IF fb.changed THEN fb.stick # sender.prev ELSE due,
                          !.packet = IF fb.queued > 0 THEN fb.packets[fb.begin] ELSE {}]
          /\ fb' = [fb EXCEPT !.changed = FALSE,
                      !.queued = IF @ > 0 THEN @ - 1 ELSE @,
                      !.begin = IF fb.queued > 0 THEN (@ + 1) % PacketQueue ELSE @]
  /\ UNCHANGED <<sent, inputs>>

\* Without the mutex: the analog state, then the history packet.
Sends ==
  /\ sender.pc = "send"
  /\ sent' = [stick |-> IF sender.due THEN sender.now ELSE sent.stick,
              events |-> sent.events \union sender.packet]
  /\ sender' = [sender EXCEPT !.pc = "relock", !.packet = {}]
  /\ UNCHANGED <<fb, inputs>>

\* Slip: takes what the application has set meanwhile for what was sent.
RelocksSlip ==
  /\ sender.pc = "relock"
  /\ sender' = [sender EXCEPT !.pc = "wait", !.prev = IF sender.due THEN fb.stick ELSE @]
  /\ UNCHANGED <<fb, sent, inputs>>
Relocks ==
  /\ sender.pc = "relock"
  /\ sender' = [sender EXCEPT !.pc = "wait", !.prev = IF sender.due THEN sender.now ELSE @]
  /\ UNCHANGED <<fb, sent, inputs>>

\* What the sender does without waiting for the next periodic analog state.
SenderSteps == Collects(FALSE) \/ Sends \/ Relocks

FeedbackNext ==
  \/ \E stick \in Sticks, k \in 0 .. MaxBatch : SetsControllerState(stick, k)
  \/ StopsFeedback
  \/ \E due \in BOOLEAN : Collects(due)
  \/ Sends
  \/ Relocks

FeedbackSpec == FeedbackInit /\ [][FeedbackNext]_feedbackVars /\ WF_feedbackVars(SenderSteps)

-----------------------------------------------------------------------------
\* Every button or touch event that was recorded was sent, or a packet that has
\* it is in flight or queued, however the application fills the ring that the
\* sender empties, unless the ring overflowed or the event was among the oldest
\* of one change with more events than the history holds (feedback.c:201): these,
\* and no others, are gone before they are queued.
QueuedPackets == {fb.packets[(fb.begin + i) % PacketQueue] : i \in 0 .. fb.queued - 1}
EventsAreKept ==
  fb.overflow \/ (1 .. fb.recorded) \ fb.forgotten
                   \subseteq sent.events \union sender.packet \union UNION QueuedPackets

\* When the controller rests, the console has the analog state it rests in and
\* every queued packet has gone out, however the last changes fell between the
\* sender's reading of the state and its note of what it sent, and without the
\* periodic state, which would repair it only 200 ms later.
LatestStateIsSent ==
  <>[](sender.pc = "done" \/ fb.stop \/ (sent.stick = fb.stick /\ fb.queued = 0))
=============================================================================
