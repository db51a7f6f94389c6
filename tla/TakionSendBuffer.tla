-------------------------- MODULE TakionSendBuffer --------------------------
(***************************************************************************)
(* lib/src/takionsendbuffer.c and its callers in takion.c: the buffer of   *)
(* unacknowledged data packets, the application threads that send and push *)
(* them, the Takion thread that processes acknowledgements and finally     *)
(* stops the buffer, and the buffer's own thread that resends.             *)
(*                                                                         *)
(* The mutex is held by the resend thread from its wakeup to its next wait *)
(* or to the unlock in the give-up branch; push and ack lock, work and     *)
(* unlock without waiting for anything else and are one step each.         *)
(*                                                                         *)
(* Time passes in units of 100 ms (the wakeup timeout).  A packet's age is *)
(* the time since last_send_ms; it saturates above ResendAge, beyond which *)
(* a packet is due, plus MaxLag, the longest a scan is taken to last.      *)
(***************************************************************************)
EXTENDS SeqNum, FiniteSets

CONSTANTS Senders,     \* the threads in chiaki_takion_send_message_data
          Size,        \* TAKION_SEND_BUFFER_SIZE
          TriesMax,    \* TAKION_DATA_RESEND_TRIES_MAX
          ResendAge,   \* TAKION_DATA_RESEND_TIMEOUT_MS, in units of time
          MaxLag,      \* bound: units of time a scan may last
          FirstSeq,    \* seq_num_local when the connection starts
          MaxSends     \* bound: number of packets ever sent

ASSUME SendBufferAssumption ==
  /\ Size \in Nat \ {0} /\ TriesMax \in Nat \ {0} /\ ResendAge \in Nat /\ MaxLag \in Nat
  /\ FirstSeq \in SeqNums
  /\ MaxSends \in Nat /\ MaxSends < SeqHalf

VARIABLES
  sends,     \* how often seq_num_local was incremented
  sent,      \* the numbers of the packets that were sent
  sender,    \* sender[t]: what thread t is about to do, and for which number
  slots,     \* the packets array
  count,     \* packets_count
  resend,    \* the resend thread: pc, its kind of wait, index, lag, numbers
  stop       \* how far fini has come

sendBufferVars == <<sends, sent, sender, slots, count, resend, stop>>

MaxAge == ResendAge + 1 + MaxLag
Indices == 0 .. Size - 1
SlotRecords == [seq : SeqNums, tries : 0 .. TriesMax, age : 0 .. MaxAge]

Live == 0 .. count - 1
StoredSeqs == {slots[i].seq : i \in Live}

ResendPCs == {"top", "enter", "sleep", "woken", "awake", "scan",
              "giveup", "ack", "relock", "exited"}
\* The resend thread is outside the mutex: waiting, or in the give-up branch.
MutexFree == resend.pc \in {"sleep", "woken", "giveup", "ack", "relock", "exited"}

Idle == [pc |-> "idle", seq |-> FirstSeq]

ShouldStop == stop # "run"

SendBufferInit ==
  /\ sends = 0
  /\ sent = {}
  /\ sender = [t \in Senders |-> Idle]
  /\ slots = [i \in Indices |-> [seq |-> 0, tries |-> 0, age |-> 0]]
  /\ count = 0
  /\ resend = [pc |-> "top", timed |-> FALSE, i |-> 0, lag |-> 0,
               logged |-> 0, read |-> 0]
  /\ stop = "run"

(* pthread_cond_signal: it wakes the resend thread if it is waiting now.   *)
Signalled(r) == IF r.pc = "sleep" THEN [r EXCEPT !.pc = "woken"] ELSE r

-----------------------------------------------------------------------------
(* chiaki_takion_send_message_data                                         *)

AllocateSeqNum(t) ==
  /\ sender[t].pc = "idle" /\ stop # "joined"
  /\ sends < MaxSends
  /\ sender' = [sender EXCEPT ![t] = [pc |-> "send", seq |-> SeqAdd(FirstSeq, sends)]]
  /\ sends' = sends + 1
  /\ UNCHANGED <<sent, slots, count, resend, stop>>

SendSucceeds(t) ==
  /\ sender[t].pc = "send"
  /\ sent' = sent \cup {sender[t].seq}
  /\ sender' = [sender EXCEPT ![t].pc = "push"]
  /\ UNCHANGED <<sends, slots, count, resend, stop>>

\* The number stays used, and nothing is pushed under it.
SendFails(t) ==
  /\ sender[t].pc = "send"
  /\ sender' = [sender EXCEPT ![t] = Idle]
  /\ UNCHANGED <<sends, sent, slots, count, resend, stop>>

\* Slip: a push into the empty buffer wakes nobody.
PushSilently(t) ==
  /\ sender[t].pc = "push" /\ stop # "joined"
  /\ MutexFree
  /\ sender' = [sender EXCEPT ![t] = Idle]
  /\ IF count >= Size \/ sender[t].seq \in StoredSeqs
       THEN UNCHANGED <<slots, count>>
       ELSE /\ slots' = [slots EXCEPT ![count] = [seq |-> sender[t].seq, tries |-> 0, age |-> 0]]
            /\ count' = count + 1
  /\ UNCHANGED <<sends, sent, stop, resend>>

\* chiaki_takion_send_buffer_push; the caller ignores its errors.
Push(t) ==
  /\ sender[t].pc = "push" /\ stop # "joined"
  /\ MutexFree
  /\ sender' = [sender EXCEPT ![t] = Idle]
  /\ IF count >= Size \/ sender[t].seq \in StoredSeqs
       THEN UNCHANGED <<slots, count, resend>>
       ELSE /\ slots' = [slots EXCEPT ![count] = [seq |-> sender[t].seq, tries |-> 0, age |-> 0]]
            /\ count' = count + 1
            /\ resend' = IF count = 0 THEN Signalled(resend) ELSE resend
  /\ UNCHANGED <<sends, sent, stop>>

-----------------------------------------------------------------------------
\* chiaki_takion_send_buffer_ack.
INSTANCE AckCompaction WITH AckHalf <- SeqHalf

Removes(s) ==
  LET b == RemoveAcked([slots |-> slots, count |-> count], s)
  IN  slots' = b.slots /\ count' = b.count

\* An acknowledgement for any packet sent so far arrives, however late.
ReceiveAck(s) ==
  /\ stop = "run" /\ s \in sent
  /\ MutexFree
  /\ Removes(s)
  /\ UNCHANGED <<sends, sent, sender, resend, stop>>

-----------------------------------------------------------------------------
(* The resend thread.                                                      *)

WaitPredicate(timed) == IF timed THEN ShouldStop ELSE ShouldStop \/ count > 0
AfterPredicate(timed) == IF WaitPredicate(timed) THEN "awake" ELSE "enter"

\* With packets the wait has a timeout, without packets it has none.
BeginWait ==
  /\ resend.pc = "top"
  /\ resend' = [resend EXCEPT !.pc = AfterPredicate(count > 0), !.timed = count > 0]
  /\ UNCHANGED <<sends, sent, sender, slots, count, stop>>

\* pthread_cond_wait and its timed variant release the mutex and wait.
EnterWait ==
  /\ resend.pc = "enter"
  /\ resend' = [resend EXCEPT !.pc = "sleep"]
  /\ UNCHANGED <<sends, sent, sender, slots, count, stop>>

SpuriousWakeup ==
  /\ resend.pc = "sleep"
  /\ resend' = Signalled(resend)
  /\ UNCHANGED <<sends, sent, sender, slots, count, stop>>

\* Woken up, it takes the mutex and evaluates the predicate again.
Reacquire ==
  /\ resend.pc = "woken"
  /\ resend' = [resend EXCEPT !.pc = AfterPredicate(resend.timed)]
  /\ UNCHANGED <<sends, sent, sender, slots, count, stop>>

WaitTimesOut ==
  /\ resend.pc \in {"sleep", "woken"} /\ resend.timed
  /\ resend' = [resend EXCEPT !.pc = "awake"]
  /\ UNCHANGED <<sends, sent, sender, slots, count, stop>>

\* `now` is read here, at the start of takion_send_buffer_resend.
StopOrScan ==
  /\ resend.pc = "awake"
  /\ resend' = IF ShouldStop THEN [resend EXCEPT !.pc = "exited"]
                             ELSE [resend EXCEPT !.pc = "scan"]
  /\ UNCHANGED <<sends, sent, sender, slots, count, stop>>

\* now - last_send_ms: unsigned, so huge for a packet pushed after `now`.
Due(p) == p.age < resend.lag \/ p.age - resend.lag > ResendAge

ScanEnds ==
  /\ resend.pc = "scan" /\ resend.i >= count
  /\ resend' = [resend EXCEPT !.pc = "top", !.i = 0, !.lag = 0]
  /\ UNCHANGED <<sends, sent, sender, slots, count, stop>>

ScanPasses ==
  /\ resend.pc = "scan" /\ resend.i < count
  /\ ~Due(slots[resend.i])
  /\ resend' = [resend EXCEPT !.i = @ + 1]
  /\ UNCHANGED <<sends, sent, sender, slots, count, stop>>

\* Slip: the tries of a packet are not counted.
ScanResendsForever ==
  /\ resend.pc = "scan" /\ resend.i < count
  /\ Due(slots[resend.i]) /\ slots[resend.i].tries < TriesMax
  /\ slots' = [slots EXCEPT ![resend.i].age = resend.lag]
  /\ resend' = [resend EXCEPT !.i = @ + 1]
  /\ UNCHANGED <<sends, sent, sender, count, stop>>

ScanResends ==
  /\ resend.pc = "scan" /\ resend.i < count
  /\ Due(slots[resend.i]) /\ slots[resend.i].tries < TriesMax
  /\ slots' = [slots EXCEPT ![resend.i].age = resend.lag, ![resend.i].tries = @ + 1]
  /\ resend' = [resend EXCEPT !.i = @ + 1]
  /\ UNCHANGED <<sends, sent, sender, count, stop>>

\* The log line names the packet; then the mutex is unlocked ...
GiveUp ==
  /\ resend.pc = "scan" /\ resend.i < count
  /\ Due(slots[resend.i]) /\ slots[resend.i].tries >= TriesMax
  /\ resend' = [resend EXCEPT !.pc = "giveup", !.logged = slots[resend.i].seq]
  /\ UNCHANGED <<sends, sent, sender, slots, count, stop>>

\* ... packet->seq_num is read from the slot again ...
GiveUpReads ==
  /\ resend.pc = "giveup"
  /\ resend' = [resend EXCEPT !.pc = "ack", !.read = slots[resend.i].seq]
  /\ UNCHANGED <<sends, sent, sender, slots, count, stop>>

\* ... and given to chiaki_takion_send_buffer_ack as if it was acknowledged.
GiveUpAcks ==
  /\ resend.pc = "ack"
  /\ Removes(resend.read)
  /\ resend' = [resend EXCEPT !.pc = "relock"]
  /\ UNCHANGED <<sends, sent, sender, stop>>

\* `if(i > 0) i -= 1; continue;` and the i++ of the loop: index 0 is passed.
GiveUpContinues ==
  /\ resend.pc = "relock"
  /\ resend' = [resend EXCEPT !.pc = "scan", !.i = IF @ > 0 THEN @ ELSE 1,
                             !.logged = 0, !.read = 0]
  /\ UNCHANGED <<sends, sent, sender, slots, count, stop>>

-----------------------------------------------------------------------------
(* chiaki_takion_send_buffer_fini, called by the Takion thread.            *)

FiniSetsStop ==
  /\ stop = "run"
  /\ stop' = "set"
  /\ UNCHANGED <<sends, sent, sender, slots, count, resend>>

FiniSignals ==
  /\ stop = "set"
  /\ stop' = "joining"
  /\ resend' = Signalled(resend)
  /\ UNCHANGED <<sends, sent, sender, slots, count>>

FiniJoins ==
  /\ stop = "joining"
  /\ resend.pc = "exited"
  /\ stop' = "joined"
  /\ count' = 0
  /\ UNCHANGED <<sends, sent, sender, slots, resend>>

(* A unit of time passes for every packet and for a scan in progress.      *)
Scanning == resend.pc \in {"scan", "giveup", "ack", "relock"}

Tick ==
  /\ Scanning => resend.lag < MaxLag
  /\ slots' = [i \in Indices |->
                 IF i < count /\ slots[i].age < MaxAge
                   THEN [slots[i] EXCEPT !.age = @ + 1] ELSE slots[i]]
  /\ resend' = IF Scanning THEN [resend EXCEPT !.lag = @ + 1] ELSE resend
  /\ UNCHANGED <<sends, sent, sender, count, stop>>

-----------------------------------------------------------------------------

SenderNext == \E t \in Senders :
  AllocateSeqNum(t) \/ SendSucceeds(t) \/ SendFails(t) \/ Push(t)

ResendNext == \/ BeginWait \/ EnterWait \/ Reacquire \/ WaitTimesOut
              \/ StopOrScan \/ ScanEnds \/ ScanPasses \/ ScanResends
              \/ GiveUp \/ GiveUpReads \/ GiveUpAcks \/ GiveUpContinues

FiniNext == FiniSetsStop \/ FiniSignals \/ FiniJoins

SendBufferNext ==
  \/ SenderNext
  \/ \E s \in SeqNums : ReceiveAck(s)
  \/ ResendNext
  \/ SpuriousWakeup
  \/ FiniNext
  \/ Tick

(* The threads run on: the resend thread takes its steps, time passes, and *)
(* fini, once begun, continues.  A timed wait ends at an absolute time, so *)
(* that no number of wakeups before it can put it off (strong fairness).   *)
(* Nobody has to send, to acknowledge or to wake up spuriously.            *)
SendBufferFairness ==
  /\ WF_sendBufferVars(ResendNext)
  /\ SF_sendBufferVars(WaitTimesOut)
  /\ WF_sendBufferVars(Tick)
  /\ WF_sendBufferVars(FiniSignals)
  /\ WF_sendBufferVars(FiniJoins)

SendBufferSpec == SendBufferInit /\ [][SendBufferNext]_sendBufferVars /\ SendBufferFairness

-----------------------------------------------------------------------------

SendBufferTypeOK ==
  /\ sends \in 0 .. MaxSends /\ sent \subseteq SeqNums
  /\ sender \in [Senders -> [pc : {"idle", "send", "push"}, seq : SeqNums]]
  /\ slots \in [Indices -> SlotRecords]
  /\ count \in 0 .. Size
  /\ resend \in [pc : ResendPCs, timed : BOOLEAN, i : 0 .. Size, lag : 0 .. MaxLag,
                 logged : SeqNums, read : SeqNums]
  /\ stop \in {"run", "set", "joining", "joined"}

(* "buffer was empty before, so it will sleep without timeout => WAKE UP":  *)
(* while there are packets the resend thread never stays in the wait that  *)
(* has no timeout.                                                         *)
NoPacketsWhileSleepingUntimed ==
  (resend.pc = "sleep" /\ ~resend.timed) => count = 0

(* A packet in the buffer does not stay there: it is acknowledged, or      *)
(* given up after the last of its tries, even if every acknowledgement is  *)
(* lost, unless the buffer is being stopped.                               *)
EveryPacketLeaves ==
  \A s \in SeqNums : (s \in StoredSeqs) ~> (s \notin StoredSeqs \/ ShouldStop)

(* takionsendbuffer.c:249 logs "Hit max retries ... giving up on packet    *)
(* with seqnum": the packet that is then removed is the one it names.      *)
GivesUpTheLoggedPacket == resend.pc = "ack" => resend.read = resend.logged

(* takionsendbuffer.c:74-75 asserts that joining the resend thread         *)
(* succeeds: fini, once begun, comes to its end.                           *)
FiniCompletes == (stop = "set") ~> (stop = "joined")
=============================================================================
