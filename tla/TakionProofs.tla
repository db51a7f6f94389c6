---------------------------- MODULE TakionProofs ----------------------------
(***************************************************************************)
(* Safety of the two parts of Takion that have threads of their own: the   *)
(* send buffer, for any number of senders and any size of buffer, and the  *)
(* Takion thread with the stream connection that runs it, for any number   *)
(* of tries and postponed packets.                                         *)
(***************************************************************************)
EXTENDS TakionSendBuffer, StreamConnection, SeqNumProofs, TLAPS

Compaction == INSTANCE AckCompactionProofs WITH AckHalf <- SeqHalf

(* The resend thread is in the wait that has no timeout, or enters it with *)
(* the mutex held.                                                         *)
EmptyWhileUntimed == resend.pc \in {"enter", "sleep"} /\ ~resend.timed => count = 0

(* The give-up branch reads a slot of the array. *)
ReadsASlot == resend.pc = "giveup" => resend.i < Size

SendBufferInv == SendBufferTypeOK /\ EmptyWhileUntimed /\ ReadsASlot

-----------------------------------------------------------------------------
(* Facts about the numbers: those of the threads and the bounds of the     *)
(* ages.                                                                   *)
LEMMA Bounds ==
  /\ Size \in Nat /\ Size > 0 /\ TriesMax \in Nat /\ ResendAge \in Nat /\ MaxLag \in Nat
  /\ MaxAge \in Nat /\ MaxLag <= MaxAge /\ 0 \in SeqNums /\ FirstSeq \in SeqNums
  BY SendBufferAssumption, SeqModFacts DEF MaxAge, SeqNums

(* A number that is allocated is one. *)
LEMMA AllocatesANumber ==
  ASSUME NEW n \in 0 .. MaxSends
  PROVE  SeqAdd(FirstSeq, n) \in SeqNums
  BY SendBufferAssumption, SeqModFacts, AddType

(* An acknowledgement leaves an array of packets, and no more than before. *)
LEMMA RemovesPackets ==
  ASSUME SendBufferTypeOK, NEW s, Removes(s)
  PROVE  slots' \in [Indices -> SlotRecords] /\ count' \in 0 .. count
  <1> DEFINE b == [slots |-> slots, count |-> count]
             a == RemoveAcked(b, s)
  <1>1. /\ Size \in Nat /\ b.slots \in [0 .. Size - 1 -> SlotRecords] /\ b.count \in 0 .. Size
    BY Bounds DEF SendBufferTypeOK, Indices
  <1>2. a = Compaction!RemoveAcked(b, s)
    BY DEF RemoveAcked, AckLoop, AckStep, MemMove, Acked, Nums!SeqLt, Compaction!RemoveAcked,
           Compaction!AckLoop, Compaction!AckStep, Compaction!MemMove, Compaction!Acked,
           Compaction!Nums!SeqLt
  <1>3. slots' = a.slots /\ count' = a.count
    BY DEF Removes
  <1> HIDE DEF a
  <1>4. PICK d : Compaction!Compacted(a, d, b, s, Size, SlotRecords)
    <2> HIDE DEF b
    <2> QED
      BY <1>1, <1>2, Compaction!RemoveAckedCompacts, SeqHalfAssumption
  <1>5. a.slots \in [0 .. Size - 1 -> SlotRecords] /\ a.count \in 0 .. b.count
    BY <1>4 DEF Compaction!Compacted
  <1> QED
    BY <1>3, <1>5 DEF Indices

(* A slot that is replaced by a packet leaves an array of packets. *)
LEMMA SlotIsSet ==
  ASSUME slots \in [Indices -> SlotRecords], NEW i, NEW p \in SlotRecords,
         slots' = [slots EXCEPT ![i] = p]
  PROVE  slots' \in [Indices -> SlotRecords]
  OBVIOUS

(* A packet of the array has its three parts. *)
LEMMA SlotParts ==
  ASSUME NEW p \in SlotRecords
  PROVE  p.seq \in SeqNums /\ p.tries \in 0 .. TriesMax /\ p.age \in 0 .. MaxAge
  BY DEF SlotRecords

(* The parts of the type of the threads. *)
SenderRecords == [pc : {"idle", "send", "push"}, seq : SeqNums]
ResendRecords == [pc : ResendPCs, timed : BOOLEAN, i : 0 .. Size, lag : 0 .. MaxLag,
                  logged : SeqNums, read : SeqNums]

(* A signal wakes the resend thread or leaves it as it was. *)
LEMMA SignalledType ==
  ASSUME NEW r \in ResendRecords
  PROVE  /\ Signalled(r) \in ResendRecords
         /\ Signalled(r).pc # "sleep" /\ Signalled(r).i = r.i
         /\ Signalled(r).pc \in {"enter", "giveup"} => r.pc = Signalled(r).pc
         /\ Signalled(r).timed = r.timed
  BY DEF Signalled, ResendRecords, ResendPCs

(* The invariant holds at the start. *)
LEMMA SendBufferBegins == SendBufferInit => SendBufferInv
  BY Bounds, SendBufferAssumption
  DEF SendBufferInit, SendBufferInv, SendBufferTypeOK, EmptyWhileUntimed, ReadsASlot, Idle,
      SlotRecords, ResendPCs

(* The application threads keep it: a push into the empty buffer wakes. *)
LEMMA SendersKeep ==
  ASSUME SendBufferInv, SenderNext
  PROVE  SendBufferInv'
  <1> USE Bounds DEF SendBufferInv
  <1>0. PICK t \in Senders : AllocateSeqNum(t) \/ SendSucceeds(t) \/ SendFails(t) \/ Push(t)
    BY DEF SenderNext
  <1>1. sender[t].pc \in {"idle", "send", "push"} /\ sender[t].seq \in SeqNums
    BY DEF SendBufferTypeOK
  <1>2. CASE AllocateSeqNum(t)
    <2>1. SeqAdd(FirstSeq, sends) \in SeqNums /\ sends' \in 0 .. MaxSends
      BY <1>2, AllocatesANumber, SendBufferAssumption DEF AllocateSeqNum, SendBufferTypeOK
    <2> QED
      BY <1>2, <2>1 DEF AllocateSeqNum, SendBufferTypeOK, EmptyWhileUntimed, ReadsASlot
  <1>3. CASE SendSucceeds(t)
    BY <1>1, <1>3 DEF SendSucceeds, SendBufferTypeOK, EmptyWhileUntimed, ReadsASlot
  <1>4. CASE SendFails(t)
    BY <1>4 DEF SendFails, SendBufferTypeOK, EmptyWhileUntimed, ReadsASlot, Idle
  <1>5. CASE Push(t)
    <2>1. sender' \in [Senders -> SenderRecords]
      BY <1>5 DEF Push, SendBufferTypeOK, SenderRecords, Idle
    <2>2. /\ sends' \in 0 .. MaxSends /\ sent' \subseteq SeqNums
          /\ stop' \in {"run", "set", "joining", "joined"}
      BY <1>5 DEF Push, SendBufferTypeOK
    <2>3. CASE UNCHANGED <<slots, count, resend>>
      BY <2>1, <2>2, <2>3 DEF SendBufferTypeOK, EmptyWhileUntimed, ReadsASlot, SenderRecords
    <2>4. CASE ~(UNCHANGED <<slots, count, resend>>)
      <3> DEFINE p == [seq |-> sender[t].seq, tries |-> 0, age |-> 0]
      <3>1. /\ count < Size /\ slots' = [slots EXCEPT ![count] = p] /\ count' = count + 1
            /\ resend' = IF count = 0 THEN Signalled(resend) ELSE resend
        BY <1>5, <2>4 DEF Push, SendBufferTypeOK
      <3>2. p \in SlotRecords
        BY <1>1 DEF SlotRecords
      <3>3. slots' \in [Indices -> SlotRecords]
        BY <3>1, <3>2, SlotIsSet DEF SendBufferTypeOK
      <3>4. count \in Nat /\ count' \in 0 .. Size /\ count' # 0
        BY <3>1 DEF SendBufferTypeOK
      <3>5. resend \in ResendRecords
        BY DEF SendBufferTypeOK, ResendRecords
      <3>6. /\ resend' \in ResendRecords
            /\ resend'.pc = "giveup" => resend'.i < Size
        BY <3>1, <3>5, SignalledType DEF ReadsASlot
      <3>7. ~(resend'.pc \in {"enter", "sleep"} /\ ~resend'.timed)
        <4>1. resend.pc # "enter"
          BY <1>5 DEF Push, MutexFree
        <4>2. CASE count = 0
          BY <3>1, <3>5, <4>1, <4>2, SignalledType
        <4>3. CASE count # 0
          BY <3>1, <4>3 DEF EmptyWhileUntimed
        <4> QED
          BY <4>2, <4>3
      <3> QED
        BY <2>1, <2>2, <3>3, <3>4, <3>6, <3>7
        DEF SendBufferTypeOK, EmptyWhileUntimed, ReadsASlot, SenderRecords, ResendRecords
    <2> QED
      BY <2>3, <2>4
  <1> QED
    BY <1>0, <1>2, <1>3, <1>4, <1>5

(* An acknowledgement keeps it: what it leaves is no more than there was. *)
LEMMA AckKeeps ==
  ASSUME SendBufferInv, NEW s, ReceiveAck(s)
  PROVE  SendBufferInv'
  <1>1. Removes(s) /\ UNCHANGED <<sends, sent, sender, resend, stop>>
    BY DEF ReceiveAck
  <1>2. slots' \in [Indices -> SlotRecords] /\ count' \in 0 .. count
    BY <1>1, RemovesPackets DEF SendBufferInv
  <1>3. count' \in 0 .. Size /\ (count = 0 => count' = 0)
    BY <1>2, Bounds DEF SendBufferInv, SendBufferTypeOK
  <1> QED
    BY <1>1, <1>2, <1>3 DEF SendBufferInv, SendBufferTypeOK, EmptyWhileUntimed, ReadsASlot

(* The steps of the resend thread that change nothing but its own state. *)
LEMMA ResendAloneKeeps ==
  ASSUME SendBufferInv, UNCHANGED <<sends, sent, sender, slots, count, stop>>,
         resend' \in ResendRecords,
         ~(resend'.pc \in {"enter", "sleep"} /\ ~resend'.timed /\ count # 0),
         resend'.pc = "giveup" => resend'.i < Size
  PROVE  SendBufferInv'
  BY DEF SendBufferInv, SendBufferTypeOK, EmptyWhileUntimed, ReadsASlot, ResendRecords

(* The resend thread, its waits and its scans, keeps it: it goes to sleep  *)
(* without a timeout only when it has found the buffer empty.              *)
LEMMA ResendKeeps ==
  ASSUME SendBufferInv, ResendNext
  PROVE  SendBufferInv'
  <1> USE Bounds
  <1>a. resend \in ResendRecords /\ slots \in [Indices -> SlotRecords] /\ count \in 0 .. Size
    BY DEF SendBufferInv, SendBufferTypeOK, ResendRecords
  <1>b. resend.i \in Nat /\ count \in Nat /\ resend.lag \in 0 .. MaxLag
    BY <1>a DEF ResendRecords
  <1>d. /\ 0 \in 0 .. Size /\ 1 \in 0 .. Size /\ 0 \in 0 .. MaxLag
        /\ {"top", "enter", "sleep", "awake", "scan", "giveup", "ack", "relock", "exited"} \subseteq ResendPCs
    BY DEF ResendPCs
  <1>c. resend.pc = "scan" /\ resend.i < count => resend.i < Size /\ slots[resend.i] \in SlotRecords
    BY <1>a, <1>b DEF Indices
  <1>1. CASE BeginWait
    <2> DEFINE pc == AfterPredicate(count > 0)
    <2>1. pc \in {"awake", "enter"} /\ (pc = "enter" /\ ~(count > 0) => count = 0)
      BY <1>b DEF AfterPredicate, WaitPredicate
    <2>2. resend' = [resend EXCEPT !.pc = pc, !.timed = count > 0]
      BY <1>1 DEF BeginWait
    <2> HIDE DEF pc
    <2>3. (count > 0) \in BOOLEAN /\ pc \in ResendPCs /\ pc # "giveup"
      BY <2>1 DEF ResendPCs
    <2>4. resend' \in ResendRecords /\ resend'.pc = pc /\ resend'.timed = (count > 0)
      BY <1>a, <2>2, <2>3 DEF ResendRecords
    <2> QED
      BY <1>1, <1>b, <2>1, <2>3, <2>4, ResendAloneKeeps DEF BeginWait
  <1>2. CASE EnterWait
    BY <1>2, <1>a, ResendAloneKeeps
    DEF EnterWait, ResendRecords, ResendPCs, SendBufferInv, EmptyWhileUntimed
  <1>3. CASE Reacquire
    BY <1>3, <1>a, ResendAloneKeeps
    DEF Reacquire, AfterPredicate, WaitPredicate, ResendRecords, ResendPCs
  <1>4. CASE WaitTimesOut
    BY <1>4, <1>a, ResendAloneKeeps DEF WaitTimesOut, ResendRecords, ResendPCs
  <1>5. CASE StopOrScan
    BY <1>5, <1>a, ResendAloneKeeps DEF StopOrScan, ResendRecords, ResendPCs
  <1>6. CASE ScanEnds
    <2>1. resend' \in ResendRecords /\ resend'.pc = "top"
      BY <1>6, <1>a, <1>d DEF ScanEnds, ResendRecords
    <2> QED
      BY <1>6, <2>1, ResendAloneKeeps DEF ScanEnds
  <1>7. CASE ScanPasses
    <2>1. resend.i + 1 \in 0 .. Size
      BY <1>7, <1>b, <1>c DEF ScanPasses
    <2> QED
      BY <1>7, <1>a, <2>1, ResendAloneKeeps DEF ScanPasses, ResendRecords, ResendPCs
  <1>8. CASE ScanResends
    <2>1. /\ resend.i < Size /\ resend.i + 1 \in 0 .. Size
          /\ slots[resend.i] \in SlotRecords /\ slots[resend.i].tries < TriesMax
      BY <1>8, <1>b, <1>c DEF ScanResends
    <2>2. slots[resend.i].tries + 1 \in 0 .. TriesMax /\ resend.lag \in 0 .. MaxAge
      BY <1>b, <2>1, SlotParts
    <2>3. slots' = [slots EXCEPT ![resend.i].age = resend.lag, ![resend.i].tries = @ + 1]
      BY <1>8 DEF ScanResends
    <2>4. slots' \in [Indices -> SlotRecords]
      BY <1>a, <2>1, <2>2, <2>3 DEF SlotRecords
    <2>5. resend' \in ResendRecords /\ resend'.pc = "scan"
      BY <1>8, <1>a, <2>1 DEF ScanResends, ResendRecords, ResendPCs
    <2> QED
      BY <1>8, <2>4, <2>5
      DEF ScanResends, SendBufferInv, SendBufferTypeOK, EmptyWhileUntimed, ReadsASlot, ResendRecords
  <1>9. CASE GiveUp
    <2>1. resend.i < Size /\ slots[resend.i].seq \in SeqNums
      BY <1>9, <1>c, SlotParts DEF GiveUp
    <2> QED
      BY <1>9, <1>a, <2>1, ResendAloneKeeps DEF GiveUp, ResendRecords, ResendPCs
  <1>10. CASE GiveUpReads
    <2>1. resend.i \in Indices
      BY <1>10, <1>b DEF GiveUpReads, SendBufferInv, ReadsASlot, Indices
    <2>2. slots[resend.i].seq \in SeqNums
      BY <1>a, <2>1, SlotParts
    <2> QED
      BY <1>10, <1>a, <2>2, ResendAloneKeeps DEF GiveUpReads, ResendRecords, ResendPCs
  <1>11. CASE GiveUpAcks
    <2>1. slots' \in [Indices -> SlotRecords] /\ count' \in 0 .. count
      BY <1>11, RemovesPackets DEF GiveUpAcks, SendBufferInv
    <2>2. count' \in 0 .. Size
      BY <1>a, <2>1
    <2>3. resend' \in ResendRecords /\ resend'.pc = "relock"
      BY <1>11, <1>a DEF GiveUpAcks, ResendRecords, ResendPCs
    <2> QED
      BY <1>11, <2>1, <2>2, <2>3
      DEF GiveUpAcks, SendBufferInv, SendBufferTypeOK, EmptyWhileUntimed, ReadsASlot, ResendRecords
  <1>12. CASE GiveUpContinues
    <2>1. (IF resend.i > 0 THEN resend.i ELSE 1) \in 0 .. Size
      BY <1>a, <1>d DEF ResendRecords
    <2>2. resend' \in ResendRecords /\ resend'.pc = "scan"
      BY <1>12, <1>a, <1>d, <2>1 DEF GiveUpContinues, ResendRecords
    <2> QED
      BY <1>12, <2>2, ResendAloneKeeps DEF GiveUpContinues
  <1> QED
    BY <1>1, <1>2, <1>3, <1>4, <1>5, <1>6, <1>7, <1>8, <1>9, <1>10, <1>11, <1>12 DEF ResendNext

(* A spurious wakeup and the steps of fini keep it. *)
LEMMA WakeupsAndFiniKeep ==
  ASSUME SendBufferInv, SpuriousWakeup \/ FiniNext
  PROVE  SendBufferInv'
  <1>a. resend \in ResendRecords
    BY DEF SendBufferInv, SendBufferTypeOK, ResendRecords
  <1>b. /\ Signalled(resend) \in ResendRecords
        /\ Signalled(resend).pc = "enter" => resend.pc = "enter"
        /\ Signalled(resend).pc # "sleep" /\ Signalled(resend).timed = resend.timed
        /\ Signalled(resend).pc = "giveup" => Signalled(resend).i < Size
    BY <1>a, SignalledType DEF SendBufferInv, ReadsASlot
  <1>1. CASE SpuriousWakeup
    BY <1>1, <1>b, ResendAloneKeeps DEF SpuriousWakeup, SendBufferInv, EmptyWhileUntimed
  <1>2. CASE FiniSetsStop
    BY <1>2 DEF FiniSetsStop, SendBufferInv, SendBufferTypeOK, EmptyWhileUntimed, ReadsASlot
  <1>3. CASE FiniSignals
    BY <1>3, <1>b
    DEF FiniSignals, SendBufferInv, SendBufferTypeOK, EmptyWhileUntimed, ReadsASlot, ResendRecords
  <1>4. CASE FiniJoins
    BY <1>4, Bounds DEF FiniJoins, SendBufferInv, SendBufferTypeOK, EmptyWhileUntimed, ReadsASlot
  <1> QED
    BY <1>1, <1>2, <1>3, <1>4 DEF FiniNext

(* So does the passing of time. *)
LEMMA TickKeeps ==
  ASSUME SendBufferInv, Tick
  PROVE  SendBufferInv'
  <1> USE Bounds
  <1>a. resend \in ResendRecords /\ slots \in [Indices -> SlotRecords]
    BY DEF SendBufferInv, SendBufferTypeOK, ResendRecords
  <1>1. slots' \in [Indices -> SlotRecords]
    <2>1. SUFFICES ASSUME NEW i \in Indices
                   PROVE  (IF i < count /\ slots[i].age < MaxAge
                             THEN [slots[i] EXCEPT !.age = @ + 1] ELSE slots[i]) \in SlotRecords
      BY DEF Tick
    <2>2. slots[i] \in SlotRecords /\ slots[i].age \in 0 .. MaxAge
      BY <1>a, SlotParts
    <2>3. slots[i].age < MaxAge => slots[i].age + 1 \in 0 .. MaxAge
      BY <2>2
    <2> QED
      BY <2>2, <2>3 DEF SlotRecords
  <1>2. /\ resend' \in ResendRecords
        /\ resend'.pc = resend.pc /\ resend'.timed = resend.timed /\ resend'.i = resend.i
    <2>1. CASE Scanning
      <3>1. resend.lag + 1 \in 0 .. MaxLag
        BY <1>a, <2>1 DEF Tick, ResendRecords
      <3> QED
        BY <1>a, <2>1, <3>1 DEF Tick, ResendRecords
    <2>2. CASE ~Scanning
      BY <1>a, <2>2 DEF Tick
    <2> QED
      BY <2>1, <2>2
  <1> QED
    BY <1>1, <1>2
    DEF Tick, SendBufferInv, SendBufferTypeOK, EmptyWhileUntimed, ReadsASlot, ResendRecords

(* The send buffer with its invariant. *)
THEOREM SendBufferInvHolds == SendBufferSpec => []SendBufferInv
  <1>1. SendBufferInv /\ [SendBufferNext]_sendBufferVars => SendBufferInv'
    <2> SUFFICES ASSUME SendBufferInv, [SendBufferNext]_sendBufferVars PROVE SendBufferInv'
      OBVIOUS
    <2>1. CASE UNCHANGED sendBufferVars
      BY <2>1 DEF sendBufferVars, SendBufferInv, SendBufferTypeOK, EmptyWhileUntimed, ReadsASlot
    <2> QED
      BY <2>1, SendersKeep, AckKeeps, ResendKeeps, WakeupsAndFiniKeep, TickKeeps DEF SendBufferNext
  <1> QED
    BY SendBufferBegins, <1>1, PTL DEF SendBufferSpec

(* takionsendbuffer.c wakes the resend thread only for a push into the     *)
(* empty buffer: however pushes, acknowledgements, resends, wakeups and    *)
(* fini interleave, the thread never sleeps without a timeout on packets.  *)
THEOREM PacketsAreWatched == SendBufferSpec => []NoPacketsWhileSleepingUntimed
  <1>1. SendBufferInv => NoPacketsWhileSleepingUntimed
    BY DEF SendBufferInv, EmptyWhileUntimed, NoPacketsWhileSleepingUntimed
  <1> QED
    BY <1>1, SendBufferInvHolds, PTL

-----------------------------------------------------------------------------
(* The feedback sender is running while it is active and while it is used. *)
SenderLives == /\ fbActive => fb = "running"
               /\ InputUsesALiveSender

(* What the running thread expects is what it waits for. *)
StateFollowsRun ==
  /\ mpc \in {"connect", "startCc", "waitConnect"} => sc.state = "TAKION_CONNECT"
  /\ mpc = "waitBang" => sc.state = "EXPECT_BANG"
  /\ mpc = "waitInfo" => sc.state = "EXPECT_STREAMINFO"

(* Before big is sent the console answers nothing. *)
QuietBeforeBig == mpc \in {"start", "connect", "startCc", "waitConnect"} => console = "quiet"

(* The answer of the console and what is known of it. *)
AnswerIsTheConsoles ==
  /\ tev = "streaminfo" \/ sc.early = "streaminfo" => console = "informed"
  /\ tev = "badStreaminfo" \/ sc.early = "badStreaminfo" => console = "misinformed"

(* A streaminfo that is handled before the bang was noticed is kept. *)
EarlyIsKept ==
  mpc = "waitBang" /\ console = "informed" /\ tev # "streaminfo" => sc.early = "streaminfo"

(* There is a Takion thread from the connection to the join. *)
HasTakion == {"startCc", "waitConnect", "waitBang", "waitInfo", "initFb", "event", "idle",
              "finiFb", "joinFb", "disconnect", "stopCc", "joinCc", "close", "joinTakion"}
TakionIsThere == mpc \in HasTakion => tpc # "off"

StreamInv ==
  /\ TypeOK /\ SenderLives /\ StateFollowsRun /\ QuietBeforeBig /\ AnswerIsTheConsoles
  /\ EarlyIsKept /\ StreaminfoIsNotMissed /\ TakionIsThere

-----------------------------------------------------------------------------
(* The state under state_mutex. *)
ScRecords == [state : States, finished : BOOLEAN, stop : BOOLEAN, remote : BOOLEAN,
              early : {"none", "streaminfo", "badStreaminfo"}]

(* The parts of the type that do not belong to the Takion thread. *)
StreamTypeOK ==
  /\ mpc \in RunPCs /\ err \in Errors /\ sc \in ScRecords
  /\ cc \in {"off", "waiting", "sending", "told", "ended"}
  /\ fb \in {"off", "running", "told", "ended"} /\ fbActive \in BOOLEAN
  /\ ipc \in {"out", "locked", "using"}

(* The type of the Takion thread's part and that of the others. *)
LEMMA TypeSplits == TypeOK <=> TakionTypeOK /\ StreamTypeOK
  BY DEF TypeOK, StreamTypeOK, ScRecords

(* What is proved of the states besides their types. *)
StreamFacts ==
  /\ SenderLives /\ StateFollowsRun /\ QuietBeforeBig /\ AnswerIsTheConsoles
  /\ EarlyIsKept /\ StreaminfoIsNotMissed /\ TakionIsThere

(* The counters of the Takion thread stay within their bounds. *)
LEMMA TakionCounters ==
  ASSUME TakionTypeOK
  PROVE  /\ 0 \in 0 .. MaxTries - 1 /\ 0 \in 0 .. MaxPostponed
         /\ tries + 1 < MaxTries => tries + 1 \in 0 .. MaxTries - 1
         /\ Postponed \in 0 .. MaxPostponed
  BY TakionAssumption DEF TakionTypeOK, Postponed

(* A step of the Takion thread or of its resend thread keeps the types. *)
LEMMA TakionTypeStays ==
  ASSUME TakionTypeOK, TakionSteps \/ ResendSteps
  PROVE  TakionTypeOK'
  <1> USE TakionCounters DEF TakionTypeOK, TakionPCs, ThreadPCs, Events, DataKinds, TGoto, Emit, Silent
  <1>1. CASE InitTry
    BY <1>1 DEF InitTry, HandshakeTry
  <1>2. CASE CookieTry
    BY <1>2 DEF CookieTry, HandshakeTry
  <1>3. CASE SetsUp
    BY <1>3 DEF SetsUp
  <1>4. CASE FlushesPostponed
    BY <1>4 DEF FlushesPostponed
  <1>5. CASE RecvCanceled
    BY <1>5 DEF RecvCanceled, AfterCancel
  <1>6. CASE RecvFails
    BY <1>6 DEF RecvFails
  <1>7. CASE RecvNothing
    BY <1>7 DEF RecvNothing
  <1>8. CASE RecvAV
    BY <1>8 DEF RecvAV
  <1>9. CASE RecvData
    BY <1>9 DEF RecvData, ConsoleSays
  <1>10. CASE TellsResend
    BY <1>10 DEF TellsResend
  <1>11. CASE SignalsResend
    BY <1>11 DEF SignalsResend
  <1>12. CASE Ends
    BY <1>12 DEF Ends
  <1>13. CASE ResendSteps
    BY <1>13 DEF ResendSteps, ResendFindsNothing, ResendSleeps, ResendIsWoken, ResendEnds, ResendGoes
  <1> QED
    BY <1>1, <1>2, <1>3, <1>4, <1>5, <1>6, <1>7, <1>8, <1>9, <1>10, <1>11, <1>12, <1>13 DEF TakionSteps

(* It changes nothing of the stream, and keeps what is known of the        *)
(* console: only a message of the console changes that.                    *)
LEMMA TakionStepsKeep ==
  ASSUME TypeOK, StreamFacts, TakionSteps \/ ResendSteps, UNCHANGED streamVars
  PROVE  StreamFacts'
  <1> USE DEF TGoto, Emit, Silent, streamVars
  <1>1. SenderLives' /\ StateFollowsRun'
    BY DEF StreamFacts, SenderLives, StateFollowsRun, InputUsesALiveSender
  <1>2. TakionIsThere'
    <2>1. tpc' = "off" => tpc = "off"
      BY DEF TakionSteps, InitTry, CookieTry, HandshakeTry, SetsUp, FlushesPostponed,
             RecvCanceled, RecvFails, RecvNothing, RecvAV, RecvData, TellsResend, SignalsResend,
             Ends, AfterCancel, ResendSteps, ResendFindsNothing, ResendSleeps, ResendIsWoken,
             ResendEnds, ResendGoes
    <2> QED
      BY <2>1 DEF StreamFacts, TakionIsThere, HasTakion
  <1>3. CASE RecvData
    <2>1. PICK k \in DataKinds : ConsoleSays(k) /\ tev' = k
      BY <1>3 DEF RecvData
    <2>2. QuietBeforeBig'
      BY <2>1 DEF StreamFacts, QuietBeforeBig, ConsoleSays, DataKinds
    <2>3. tev = "none"
      BY <1>3 DEF RecvData
    <2>4. AnswerIsTheConsoles'
      BY <2>1, <2>3 DEF StreamFacts, AnswerIsTheConsoles, ConsoleSays, DataKinds
    <2>5. EarlyIsKept' /\ StreaminfoIsNotMissed'
      BY <2>1, <2>3 DEF StreamFacts, EarlyIsKept, StreaminfoIsNotMissed, ConsoleSays, DataKinds
    <2> QED
      BY <1>1, <1>2, <2>2, <2>4, <2>5 DEF StreamFacts
  <1>4. CASE ~RecvData
    <2>1. /\ UNCHANGED console
          /\ tev' = tev \/ (tev = "none" /\ tev' \in {"connected", "over", "av"})
      BY <1>4 DEF TakionSteps, InitTry, CookieTry, HandshakeTry, SetsUp, FlushesPostponed,
             RecvCanceled, RecvFails, RecvNothing, RecvAV, TellsResend, SignalsResend, Ends,
             ResendSteps, ResendFindsNothing, ResendSleeps, ResendIsWoken, ResendEnds, ResendGoes
    <2>2. QuietBeforeBig' /\ AnswerIsTheConsoles' /\ EarlyIsKept' /\ StreaminfoIsNotMissed'
      BY <2>1 DEF StreamFacts, QuietBeforeBig, AnswerIsTheConsoles, EarlyIsKept,
                  StreaminfoIsNotMissed
    <2> QED
      BY <1>1, <1>2, <2>2 DEF StreamFacts
  <1> QED
    BY <1>3, <1>4

(* What the running thread and the callbacks write into the state is one. *)
LEMMA ScUpdates ==
  ASSUME sc \in ScRecords, NEW b \in BOOLEAN, NEW e \in {"none", "streaminfo", "badStreaminfo"}
  PROVE  /\ sc.state \in States /\ sc.finished \in BOOLEAN /\ sc.stop \in BOOLEAN
         /\ sc.remote \in BOOLEAN /\ sc.early \in {"none", "streaminfo", "badStreaminfo"}
         /\ \A st \in States : [sc EXCEPT !.state = st, !.finished = b] \in ScRecords
         /\ \A st \in States : [sc EXCEPT !.state = st, !.finished = b, !.early = e] \in ScRecords
         /\ [sc EXCEPT !.finished = b] \in ScRecords /\ [sc EXCEPT !.stop = b] \in ScRecords
         /\ [sc EXCEPT !.remote = b] \in ScRecords /\ [sc EXCEPT !.early = e] \in ScRecords
  BY DEF ScRecords

(* Every step of the threads of the stream connection keeps the types. *)
LEMMA StreamTypeStays ==
  ASSUME TypeOK,
         Starts \/ RunSteps \/ FeedbackLocks \/ Finishes \/ Callback \/ CongestionSends
         \/ CongestionEnds \/ FeedbackEnds \/ InputLocks \/ InputUnlocks \/ Stops
  PROVE  StreamTypeOK'
  <1> USE TypeSplits, ScUpdates DEF StreamTypeOK, MGoto
  <1>0. {"IDLE", "TAKION_CONNECT", "EXPECT_BANG", "EXPECT_STREAMINFO"} = States
    BY DEF States
  <1>1. CASE Starts
    BY <1>1, <1>0 DEF Starts, RunPCs
  <1>2. CASE Connects
    BY <1>2 DEF Connects, RunPCs, Errors
  <1>3. CASE StartsCongestionControl
    BY <1>3 DEF StartsCongestionControl, RunPCs, Errors
  <1>4. CASE ConnectWaitEnds
    BY <1>4, <1>0, ZenonT(40) DEF ConnectWaitEnds, RunPCs, Errors
  <1>5. CASE BangWaitEnds
    BY <1>5, <1>0 DEF BangWaitEnds, EarlyInfo, RunPCs, Errors
  <1>6. CASE InfoWaitEnds
    BY <1>6 DEF InfoWaitEnds, RunPCs, Errors
  <1>7. CASE InitsFeedback
    BY <1>7, <1>0 DEF InitsFeedback, BecomesIdle, RunPCs, Errors
  <1>8. CASE SendsEvent \/ IdleEnds \/ JoinsFeedback \/ FinishesFeedback
    BY <1>8 DEF SendsEvent, IdleEnds, JoinsFeedback, FinishesFeedback, ActiveAfter, RunPCs, Errors
  <1>9. CASE Disconnects
    BY <1>9 DEF Disconnects, RunPCs, Errors
  <1>10. CASE StopsCongestionControl \/ JoinsCongestionControl \/ ClosesTakion \/ JoinsTakion
    BY <1>10 DEF StopsCongestionControl, JoinsCongestionControl, ClosesTakion, JoinsTakion, RunPCs
  <1>11. CASE Finishes
    BY <1>11 DEF Finishes, RunPCs
  <1>12. CASE Callback
    BY <1>12 DEF Callback, Handled
  <1>13. CASE CongestionSends \/ CongestionEnds \/ FeedbackEnds \/ InputLocks \/ InputUnlocks
    BY <1>13 DEF CongestionSends, CongestionEnds, FeedbackEnds, InputLocks, InputUnlocks
  <1>14. CASE Stops
    BY <1>14 DEF Stops
  <1> QED
    BY <1>1, <1>2, <1>3, <1>4, <1>5, <1>6, <1>7, <1>8, <1>9, <1>10, <1>11, <1>12, <1>13, <1>14
    DEF RunSteps, FeedbackLocks

(* They keep the types of the Takion thread, too. *)
LEMMA TakionTypeStaysHere ==
  ASSUME TypeOK,
         Starts \/ RunSteps \/ FeedbackLocks \/ Finishes \/ Callback \/ CongestionSends
         \/ CongestionEnds \/ FeedbackEnds \/ InputLocks \/ InputUnlocks \/ Stops
  PROVE  TakionTypeOK'
  <1> USE TypeSplits DEF TakionTypeOK, takionVars
  <1>1. CASE Connects
    BY <1>1 DEF Connects, TakionConnects, TGoto, TakionPCs
  <1>2. CASE ConnectWaitEnds
    BY <1>2 DEF ConnectWaitEnds, SendsBig
  <1>3. CASE ClosesTakion
    BY <1>3 DEF ClosesTakion, TakionIsTold
  <1>4. CASE Callback
    BY <1>4 DEF Callback, Events
  <1>5. CASE UNCHANGED takionVars
    BY <1>5
  <1> QED
    BY <1>1, <1>2, <1>3, <1>4, <1>5
    DEF Starts, RunSteps, FeedbackLocks, Finishes, StartsCongestionControl, BangWaitEnds,
        InfoWaitEnds, SendsEvent, IdleEnds, JoinsFeedback, Disconnects, StopsCongestionControl,
        JoinsCongestionControl, JoinsTakion, InitsFeedback, FinishesFeedback, CongestionSends,
        CongestionEnds, FeedbackEnds, InputLocks, InputUnlocks, Stops

(* The running thread keeps what is known of the states: it looks at what  *)
(* came early in the step in which it begins to wait for it.               *)
LEMMA RunKeeps ==
  ASSUME TypeOK, StreamFacts, Starts \/ RunSteps \/ FeedbackLocks \/ Finishes
  PROVE  StreamFacts'
  <1> USE DEF MGoto, takionVars, StreamFacts, SenderLives, InputUsesALiveSender, StateFollowsRun,
              QuietBeforeBig, AnswerIsTheConsoles, EarlyIsKept, StreaminfoIsNotMissed,
              TakionIsThere, HasTakion
  <1>a. sc \in ScRecords
    BY TypeSplits DEF StreamTypeOK
  <1>1. CASE Starts
    BY <1>1, <1>a DEF Starts, ScRecords
  <1>2. CASE Connects
    BY <1>2 DEF Connects, TakionConnects, TGoto
  <1>3. CASE StartsCongestionControl
    BY <1>3 DEF StartsCongestionControl
  <1>4. CASE ConnectWaitEnds
    BY <1>4, <1>a DEF ConnectWaitEnds, SendsBig, ScRecords
  <1>5. CASE BangWaitEnds
    <2>1. /\ mpc = "waitBang" /\ UNCHANGED <<takionVars, cc, fb, fbActive, ipc>>
          /\ \/ mpc' = "disconnect" /\ sc' = sc
             \/ sc' = EarlyInfo /\ mpc' = IF sc'.finished THEN "initFb" ELSE "waitInfo"
      BY <1>5 DEF BangWaitEnds
    <2>2. CASE mpc' = "disconnect" /\ sc' = sc
      BY <2>1, <2>2
    <2>3. CASE /\ sc' = EarlyInfo
               /\ mpc' = IF sc'.finished THEN "initFb" ELSE "waitInfo"
      BY <1>a, <2>1, <2>3 DEF EarlyInfo, ScRecords
    <2> QED
      BY <2>1, <2>2, <2>3
  <1>6. CASE InfoWaitEnds
    BY <1>6 DEF InfoWaitEnds
  <1>7. CASE InitsFeedback
    <2>1. /\ UNCHANGED <<takionVars, cc, ipc>> /\ ipc = "out" /\ mpc = "initFb"
          /\ \/ fb' = "running" /\ fbActive' = TRUE /\ sc' = BecomesIdle /\ mpc' = "event"
             \/ UNCHANGED <<fb, fbActive, sc>> /\ mpc' = "disconnect"
      BY <1>7 DEF InitsFeedback, FeedbackMutexFree
    <2>2. CASE UNCHANGED <<fb, fbActive, sc>> /\ mpc' = "disconnect"
      BY <2>1, <2>2
    <2>3. CASE fb' = "running" /\ fbActive' = TRUE /\ sc' = BecomesIdle /\ mpc' = "event"
      <3>1. sc'.early = sc.early
        BY <1>a, <2>3 DEF BecomesIdle, ScRecords
      <3> QED
        BY <2>1, <2>3, <3>1
    <2> QED
      BY <2>1, <2>2, <2>3
  <1>8. CASE SendsEvent \/ IdleEnds
    BY <1>8 DEF SendsEvent, IdleEnds
  <1>9. CASE FinishesFeedback \/ JoinsFeedback
    BY <1>9 DEF FinishesFeedback, JoinsFeedback, ActiveAfter, FeedbackMutexFree
  <1>10. CASE Disconnects
    BY <1>10, <1>a DEF Disconnects, ScRecords
  <1>11. CASE StopsCongestionControl \/ JoinsCongestionControl \/ JoinsTakion
    BY <1>11 DEF StopsCongestionControl, JoinsCongestionControl, JoinsTakion
  <1>12. CASE ClosesTakion
    BY <1>12 DEF ClosesTakion, TakionIsTold
  <1>13. CASE Finishes
    BY <1>13 DEF Finishes
  <1> QED
    BY <1>1, <1>2, <1>3, <1>4, <1>5, <1>6, <1>7, <1>8, <1>9, <1>10, <1>11, <1>12, <1>13
    DEF RunSteps, FeedbackLocks

(* The callback keeps it: a streaminfo is noted or ends the wait for it.   *)
LEMMA CallbackKeeps ==
  ASSUME TypeOK, StreamFacts, Callback
  PROVE  StreamFacts'
  <1> USE DEF Callback
  <1>a. sc \in ScRecords
    BY TypeSplits DEF StreamTypeOK
  <1>b. /\ Handled(tev).state = sc.state
        /\ sc.finished /\ sc.state # "TAKION_CONNECT" => Handled(tev).finished
        /\ Handled(tev).early # sc.early => Handled(tev).early = tev /\ sc.early = "none"
        /\ tev = "streaminfo" /\ sc.state = "EXPECT_BANG" /\ sc.early = "none" =>
             Handled(tev).early = "streaminfo"
        /\ tev = "streaminfo" /\ sc.state = "EXPECT_STREAMINFO" => Handled(tev).finished
    BY <1>a DEF Handled, ScRecords
  <1>c. /\ sc'.state = sc.state
        /\ sc.finished /\ sc.state # "TAKION_CONNECT" => sc'.finished
        /\ sc'.early # sc.early => sc'.early = tev /\ sc.early = "none"
        /\ tev = "streaminfo" /\ sc.state = "EXPECT_BANG" /\ sc.early = "none" =>
             sc'.early = "streaminfo"
        /\ tev = "streaminfo" /\ sc.state = "EXPECT_STREAMINFO" => sc'.finished
        /\ tev' = "none" /\ UNCHANGED <<tpc, console, mpc, fb, fbActive, ipc>>
    BY <1>b
  <1> HIDE DEF Callback
  <1>1. SenderLives' /\ StateFollowsRun' /\ QuietBeforeBig' /\ TakionIsThere'
    BY <1>c DEF StreamFacts, SenderLives, InputUsesALiveSender, StateFollowsRun, QuietBeforeBig,
                TakionIsThere
  <1>2. AnswerIsTheConsoles'
    BY <1>c DEF StreamFacts, AnswerIsTheConsoles
  <1>3. EarlyIsKept'
    BY <1>a, <1>c DEF StreamFacts, EarlyIsKept, AnswerIsTheConsoles, StateFollowsRun, ScRecords
  <1>4. StreaminfoIsNotMissed'
    BY <1>c DEF StreamFacts, StreaminfoIsNotMissed, StateFollowsRun
  <1> QED
    BY <1>1, <1>2, <1>3, <1>4 DEF StreamFacts

(* So do the other threads and the stop. *)
LEMMA OthersKeep ==
  ASSUME TypeOK, StreamFacts,
         CongestionSends \/ CongestionEnds \/ FeedbackEnds \/ InputLocks \/ InputUnlocks \/ Stops
  PROVE  StreamFacts'
  <1> USE DEF takionVars, StreamFacts, SenderLives, InputUsesALiveSender, StateFollowsRun,
              QuietBeforeBig, AnswerIsTheConsoles, EarlyIsKept, StreaminfoIsNotMissed,
              TakionIsThere, HasTakion
  <1>1. CASE CongestionSends \/ CongestionEnds \/ FeedbackEnds \/ InputLocks \/ InputUnlocks
    BY <1>1 DEF CongestionSends, CongestionEnds, FeedbackEnds, InputLocks, InputUnlocks
  <1>2. CASE Stops
    <2>1. sc \in ScRecords
      BY TypeSplits DEF StreamTypeOK
    <2> QED
      BY <1>2, <2>1 DEF Stops, ScRecords
  <1> QED
    BY <1>1, <1>2

(* The stream connection with its invariant. *)
THEOREM StreamInvHolds == Spec => []StreamInv
  <1>1. Init => StreamInv
    <2> SUFFICES ASSUME Init PROVE StreamInv
      OBVIOUS
    <2>1. TakionTypeOK
      <3>1. 0 \in 0 .. MaxTries - 1 /\ 0 \in 0 .. MaxPostponed
        BY TakionAssumption
      <3> QED
        BY <3>1 DEF Init, TakionInit, TakionTypeOK, TakionPCs, ThreadPCs, Events
    <2>2. StreamTypeOK
      BY DEF Init, StreamTypeOK, ScRecords, RunPCs, Errors, States
    <2>3. StreamFacts
      BY DEF Init, TakionInit, StreamFacts, SenderLives, InputUsesALiveSender, StateFollowsRun,
             QuietBeforeBig, AnswerIsTheConsoles, EarlyIsKept, StreaminfoIsNotMissed, TakionIsThere,
             HasTakion
    <2> QED
      BY <2>1, <2>2, <2>3, TypeSplits DEF StreamInv, StreamFacts
  <1>2. StreamInv /\ [Next]_vars => StreamInv'
    <2> SUFFICES ASSUME StreamInv, [Next]_vars PROVE StreamInv'
      OBVIOUS
    <2>0. StreamInv <=> TypeOK /\ StreamFacts
      BY DEF StreamInv, StreamFacts
    <2>1. CASE UNCHANGED vars
      BY <2>1
      DEF vars, takionVars, streamVars, StreamInv, TypeOK, TakionTypeOK, SenderLives,
          InputUsesALiveSender, StateFollowsRun, QuietBeforeBig, AnswerIsTheConsoles,
          EarlyIsKept, StreaminfoIsNotMissed, TakionIsThere
    <2>2. CASE TakionOnly(TakionSteps) \/ TakionOnly(ResendSteps)
      <3>1. StreamTypeOK'
        BY <2>0, <2>2, TypeSplits DEF TakionOnly, streamVars, StreamTypeOK
      <3>2. TakionTypeOK' /\ StreamFacts'
        BY <2>0, <2>2, TypeSplits, TakionTypeStays, TakionStepsKeep DEF TakionOnly
      <3>3. TypeOK'
        BY <3>1, <3>2 DEF TypeOK, StreamTypeOK, ScRecords
      <3> QED
        BY <3>2, <3>3 DEF StreamInv, StreamFacts
    <2>3. CASE Starts \/ RunSteps \/ FeedbackLocks \/ Finishes \/ Callback \/ CongestionSends
               \/ CongestionEnds \/ FeedbackEnds \/ InputLocks \/ InputUnlocks \/ Stops
      <3>1. StreamTypeOK' /\ TakionTypeOK'
        BY <2>0, <2>3, StreamTypeStays, TakionTypeStaysHere
      <3>2. TypeOK'
        BY <3>1 DEF TypeOK, StreamTypeOK, ScRecords
      <3>3. StreamFacts'
        BY <2>0, <2>3, RunKeeps, CallbackKeeps, OthersKeep
      <3> QED
        BY <3>2, <3>3 DEF StreamInv, StreamFacts
    <2> QED
      BY <2>1, <2>2, <2>3 DEF Next
  <1> QED
    BY <1>1, <1>2, PTL DEF Spec

(* streamconnection.c:776: whether the running thread or the Takion thread *)
(* is faster, who waits for a streaminfo has not had one before.           *)
THEOREM StreaminfoIsNeverMissed == Spec => []StreaminfoIsNotMissed
  <1>1. StreamInv => StreaminfoIsNotMissed
    BY DEF StreamInv
  <1> QED
    BY <1>1, StreamInvHolds, PTL

(* session.c:344: controller input goes to a feedback sender that runs.    *)
THEOREM InputAlwaysHasItsSender == Spec => []InputUsesALiveSender
  <1>1. StreamInv => InputUsesALiveSender
    BY DEF StreamInv, SenderLives
  <1> QED
    BY <1>1, StreamInvHolds, PTL

-----------------------------------------------------------------------------
(* Every step of the Takion thread and of its resend thread is a step of   *)
(* what it promises or is not seen by its user.                            *)
LEMMA TakionStepsAreAllowed ==
  ASSUME TypeOK, TakionSteps \/ ResendSteps
  PROVE  Promise!Next \/ UNCHANGED <<Phase, Event, pipe>>
  <1> USE DEF TGoto, Emit, Silent, Phase, Event, DataKinds, ResendThreadMissedStop
  <1>1. CASE InitTry
    BY <1>1 DEF InitTry, HandshakeTry
  <1>2. CASE CookieTry
    BY <1>2 DEF CookieTry, HandshakeTry
  <1>3. CASE SetsUp
    BY <1>3 DEF SetsUp, Promise!Next, Promise!Connect
  <1>4. CASE FlushesPostponed
    BY <1>4 DEF FlushesPostponed, Promise!Next, Promise!Deliver
  <1>5. CASE RecvCanceled
    BY <1>5 DEF RecvCanceled, AfterCancel
  <1>6. CASE RecvFails
    BY <1>6 DEF RecvFails
  <1>7. CASE RecvNothing
    BY <1>7 DEF RecvNothing, Promise!Next, Promise!Deliver
  <1>8. CASE RecvAV
    BY <1>8 DEF RecvAV, Promise!Next, Promise!Deliver
  <1>9. CASE RecvData
    BY <1>9 DEF RecvData, Promise!Next, Promise!Deliver
  <1>10. CASE TellsResend
    BY <1>10 DEF TellsResend
  <1>11. CASE SignalsResend
    BY <1>11 DEF SignalsResend, Promise!Next, Promise!Hang
  <1>12. CASE Ends
    BY <1>12 DEF Ends, Promise!Next, Promise!End
  <1>13. CASE ResendFindsNothing \/ ResendSleeps \/ ResendEnds
    BY <1>13 DEF ResendFindsNothing, ResendSleeps, ResendEnds, ResendGoes, ResendIsTold
  <1>14. CASE ResendIsWoken
    BY <1>14 DEF ResendIsWoken, ResendGoes, Promise!Next, Promise!Recover
  <1> QED
    BY <1>1, <1>2, <1>3, <1>4, <1>5, <1>6, <1>7, <1>8, <1>9, <1>10, <1>11, <1>12, <1>13, <1>14
    DEF TakionSteps, ResendSteps

(* So is every step of its users. *)
LEMMA StreamStepsAreAllowed ==
  ASSUME StreamInv,
         Starts \/ RunSteps \/ FeedbackLocks \/ Finishes \/ Callback \/ CongestionSends
         \/ CongestionEnds \/ FeedbackEnds \/ InputLocks \/ InputUnlocks \/ Stops
  PROVE  Promise!Next \/ UNCHANGED <<Phase, Event, pipe>>
  <1>1. CASE Connects
    BY <1>1
    DEF Connects, TakionConnects, TGoto, Phase, Event, takionVars, ResendThreadMissedStop,
        Promise!Next, Promise!Open
  <1>2. CASE ClosesTakion
    <2>1. tpc # "off" /\ tpc \in TakionPCs
      BY <1>2 DEF ClosesTakion, StreamInv, TakionIsThere, HasTakion, TypeOK, TakionTypeOK
    <2> QED
      BY <1>2, <2>1
      DEF ClosesTakion, TakionIsTold, Phase, Event, TakionPCs, ResendThreadMissedStop, Promise!Next,
          Promise!Close
  <1>3. CASE Callback
    <2>1. Event # "none" /\ Event' = "none" /\ UNCHANGED <<Phase, pipe>>
      BY <1>3 DEF Callback, Event, Phase, DataKinds, ResendThreadMissedStop
    <2> QED
      BY <2>1 DEF Promise!Next, Promise!Return
  <1>4. CASE UNCHANGED <<tpc, tev, pipe, rpc>>
    BY <1>4 DEF Phase, Event, ResendThreadMissedStop
  <1> QED
    BY <1>1, <1>2, <1>3, <1>4
    DEF Starts, RunSteps, FeedbackLocks, Finishes, StartsCongestionControl, ConnectWaitEnds,
        BangWaitEnds, InfoWaitEnds, SendsEvent, IdleEnds, JoinsFeedback, Disconnects,
        StopsCongestionControl, JoinsCongestionControl, JoinsTakion, InitsFeedback,
        FinishesFeedback, CongestionSends, CongestionEnds, FeedbackEnds, InputLocks,
        InputUnlocks, Stops, takionVars

(* The Takion thread implements TakionEvents: CONNECTED at most once and   *)
(* first, one callback at a time, DISCONNECT once and last, and no close   *)
(* before a connection (takion.h).                                         *)
THEOREM TakionImplementsItsEvents == Spec => Promise!Init /\ [][Promise!Next]_(Promise!vars)
  <1>1. Init => Promise!Init
    BY DEF Init, TakionInit, Promise!Init, Phase, Event, DataKinds
  <1>2. StreamInv /\ [Next]_vars => [Promise!Next]_(Promise!vars)
    <2> SUFFICES ASSUME StreamInv, [Next]_vars
                 PROVE  Promise!Next \/ UNCHANGED <<Phase, Event, pipe>>
      BY DEF Promise!vars
    <2>1. CASE UNCHANGED vars
      BY <2>1 DEF vars, takionVars, Phase, Event, ResendThreadMissedStop
    <2> QED
      BY <2>1, TakionStepsAreAllowed, StreamStepsAreAllowed DEF Next, TakionOnly, StreamInv
  <1> QED
    BY <1>1, <1>2, StreamInvHolds, PTL DEF Spec
=============================================================================
