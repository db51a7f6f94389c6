--------------------------- MODULE SessionProofs ---------------------------
(***************************************************************************)
(* Safety of a session, for any number of messages of the application: a   *)
(* PIN is there when it is forwarded, ctrl never sleeps on work, the two   *)
(* mutexes are held exactly where the code says, and the quit event has    *)
(* the last word.  Then of what is around it: the Quest app's native       *)
(* session, the desktop client, hole punching, the Quest app's input.      *)
(***************************************************************************)
EXTENDS Session, QuestSession, DesktopSession, Holepunch, QuestInput, SequenceTheorems, TLAPS

(* Facts about natural numbers; nothing here counts with a modulus. *)
Numbers == INSTANCE SeqNumProofs WITH SeqHalf <- 1

(* The ctrl thread exists from StartsCtrl on, and has ended when the       *)
(* session thread has joined it.                                           *)
BeforeCtrl == {"start", "regist", "registJoin", "request", "delay"}
Over == {"report", "ended"}
CtrlWithinSession ==
  /\ spc \in BeforeCtrl => cpc = "off"
  /\ spc \in Over => cpc \in {"off", "ended"}

(* The registration thread lives between its start and its join. *)
RegistWithinSession ==
  /\ rpc \notin {"off", "done"} => spc \in {"regist", "registJoin"}
  /\ spc \in {"regist", "registJoin"} => rpc # "off"

(* Who holds which mutex is a matter of the program counters. *)
SessionHolds == {"registJoin", "pinForward", "punch", "senkusha"}
CtrlDrops == {"off", "start", "connect", "select", "wokenPipe", "wokenData",
              "wokenEnd", "sending", "sendingPin", "ended"}
MutexesFollowThreads ==
  /\ stateMutex = "session" <=> spc \in SessionHolds
  /\ notifMutex = "ctrl" <=> cpc \notin CtrlDrops

(* The quit event is the last step of the session thread. *)
ReportIsLast == reported # "not yet" => spc = "ended"

(* What is queued has been counted by the application. *)
QueueIsCounted == ctrl.queue <= app.messages

SessionInv ==
  /\ TypeOK /\ QueueIsCounted /\ CtrlWithinSession /\ RegistWithinSession /\ MutexesFollowThreads
  /\ ReportIsLast /\ PinIsThereWhenForwarded /\ NoWorkWaitsUnsignalled

-----------------------------------------------------------------------------
(* Neither counter leaves its bound. *)
LEMMA QueueTypes ==
  ASSUME TypeOK
  PROVE  ctrl.queue \in Nat /\ app.messages \in Nat
  <1>1. ctrl.queue \in 0 .. MaxMessages
    BY DEF TypeOK, CtrlTypeOK
  <1>2. app.messages \in 0 .. MaxMessages
    BY DEF TypeOK
  <1> QED
    BY <1>1, <1>2, MaxMessagesAssumption

(* What a step does to the flags of the session keeps their types. *)
LEMMA ReasonSet ==
  /\ {"none", "stopped", "request", "ctrlUnknown", "ctrlRefused", "ctrlConnect",
      "stream", "remote", "regist"} \subseteq Reasons
  /\ {"none", "console", "fallback"} \subseteq IdSources
  BY DEF Reasons, IdSources

(* What an assignment to the session leaves is a session. *)
LEMMA SessUpdates ==
  ASSUME SessTypeOK, UNCHANGED conn, NEW r \in Reasons, NEW i \in IdSources, NEW b \in BOOLEAN,
         \/ sess' = sess
         \/ sess' = [sess EXCEPT !.reason = r]
         \/ sess' = [sess EXCEPT !.ctrlFailed = TRUE, !.reason = r]
         \/ sess' = [sess EXCEPT !.reason = r, !.stop = TRUE]
         \/ sess' = [sess EXCEPT !.id = i]
         \/ sess' = [sess EXCEPT !.pinRequested = b]
         \/ sess' = [sess EXCEPT !.pin = b]
         \/ sess' = [sess EXCEPT !.switch = TRUE]
         \/ sess' = [sess EXCEPT !.regist = TRUE]
         \/ sess' = [sess EXCEPT !.stop = TRUE, !.stopPipe = TRUE]
  PROVE  SessTypeOK'
  BY ZenonT(40) DEF SessTypeOK

(* The steps of the ctrl thread. *)
LEMMA CtrlKeepsSess ==
  ASSUME SessTypeOK, CtrlSteps \/ CtrlSocketWakes, UNCHANGED conn
  PROVE  SessTypeOK' /\ sess'.pin = sess.pin
  <1>1. CASE UNCHANGED sess
    BY <1>1 DEF SessTypeOK
  <1>2. CASE CtrlTcpFails
    <2>1. PICK r \in Reasons : sess' = [sess EXCEPT !.ctrlFailed = TRUE, !.reason = r]
      BY <1>2, ReasonSet DEF CtrlTcpFails, WithCtrlFailed
    <2> QED
      BY <2>1, SessUpdates, ReasonSet DEF SessTypeOK
  <1>3. CASE CtrlConnectFails \/ CtrlFails
    <2>1. PICK r \in Reasons : sess' = [sess EXCEPT !.ctrlFailed = TRUE, !.reason = r]
      BY <1>3, ReasonSet DEF CtrlConnectFails, CtrlFails, WithCtrlFailed
    <2> QED
      BY <2>1, SessUpdates, ReasonSet DEF SessTypeOK
  <1>4. CASE CtrlRequestReturns
    <2>1. PICK r \in Reasons : sess' = sess \/ sess' = [sess EXCEPT !.reason = r]
      BY <1>4, ReasonSet DEF CtrlRequestReturns
    <2> QED
      BY <2>1, SessUpdates, ReasonSet DEF SessTypeOK
  <1>5. CASE CtrlSetsId
    <2>1. PICK i \in IdSources : sess' = sess \/ sess' = [sess EXCEPT !.id = i]
      BY <1>5, ReasonSet DEF CtrlSetsId, WithFallbackId
    <2> QED
      BY <2>1, SessUpdates, ReasonSet DEF SessTypeOK
  <1>6. CASE CtrlRequestsPin \/ CtrlRequestsPinAgain \/ CtrlReportsSwitch
    <2>1. \/ sess' = sess \/ sess' = [sess EXCEPT !.pinRequested = TRUE]
          \/ sess' = [sess EXCEPT !.switch = TRUE]
      BY <1>6 DEF CtrlRequestsPin, CtrlRequestsPinAgain, CtrlReportsSwitch
    <2> QED
      BY <2>1, SessUpdates, ReasonSet DEF SessTypeOK
  <1> QED
    BY <1>1, <1>2, <1>3, <1>4, <1>5, <1>6
    DEF CtrlSteps, CtrlBegins, CtrlConnectReturns, CtrlHandles, CtrlChecksId, CtrlSelects,
        CtrlPipeWakes, CtrlSocketWakes, CtrlRelocks, CtrlDrains, CtrlHasSent

(* What is taken from and put into the queue of messages. *)
LEMMA QueueBounds ==
  ASSUME NEW q \in 0 .. MaxMessages
  PROVE  /\ q > 0 => q - 1 \in 0 .. MaxMessages
         /\ q < MaxMessages => q + 1 \in 0 .. MaxMessages
  BY MaxMessagesAssumption

(* A step of ctrl leaves ctrl's types. *)
LEMMA CtrlKeepsCtrl ==
  ASSUME TypeOK, CtrlSteps \/ CtrlSocketWakes, UNCHANGED conn
  PROVE  CtrlTypeOK'
  <1> USE DEF TypeOK, CtrlTypeOK
  <1>1. CASE UNCHANGED ctrl
    BY <1>1
  <1>2. CASE CtrlTcpFails \/ CtrlRequestReturns
    BY <1>2 DEF CtrlTcpFails, CtrlRequestReturns, RequestIsOver
  <1>3. CASE CtrlHandles
    BY <1>3 DEF CtrlHandles
  <1>4. CASE CtrlChecksId \/ CtrlSelects
    BY <1>4 DEF CtrlChecksId, CtrlSelects, Select
  <1>5. CASE CtrlRelocks
    BY <1>5, ZenonT(40) DEF CtrlRelocks, Kinds
  <1>6. CASE CtrlDrains
    <2>0. ctrl.queue \in 0 .. MaxMessages
      OBVIOUS
    <2>1. ctrl.queue > 0 => ctrl.queue - 1 \in 0 .. MaxMessages
      BY <2>0, QueueBounds
    <2>2. \/ ctrl.queue > 0 /\ ctrl' = [ctrl EXCEPT !.queue = ctrl.queue - 1]
          \/ ctrl' = [ctrl EXCEPT !.pin = FALSE] \/ ctrl' = ctrl
      BY <1>6 DEF CtrlDrains, MessageQueued
    <2> QED
      BY <2>1, <2>2
  <1> QED
    BY <1>1, <1>2, <1>3, <1>4, <1>5, <1>6
    DEF CtrlSteps, CtrlBegins, CtrlConnectReturns, CtrlConnectFails, CtrlSetsId,
        CtrlRequestsPin, CtrlRequestsPinAgain, CtrlReportsSwitch, CtrlFails,
        CtrlPipeWakes, CtrlSocketWakes, CtrlHasSent

(* A handler is entered with notif_mutex held. *)
LEMMA EnteredHolds ==
  ASSUME TypeOK, ctrl.inbox # "none"
  PROVE  Entered[ctrl.inbox] \in CtrlPCs \ CtrlDrops
  <1>1. ctrl.inbox \in {"sessionId", "badSessionId", "pinRequest", "loginSuccess", "pinIncorrect",
                        "switch", "other", "finish", "overflow"}
    BY DEF TypeOK, CtrlTypeOK
  <1>2. Entered[ctrl.inbox] \in {"loop", "checkId", "pinReq", "pinAgain", "switch", "failStay",
                                 "failBreak"}
    BY <1>1 DEF Entered
  <1> QED
    BY <1>2 DEF CtrlPCs, CtrlDrops

CtrlHolds == notifMutex \in {Free, "ctrl"} /\ (notifMutex = "ctrl" <=> cpc \notin CtrlDrops)
SessionHasMutex == stateMutex \in {Free, "session"} /\ (stateMutex = "session" <=> spc \in SessionHolds)

(* Only a living ctrl thread takes steps, and notif_mutex is held as its   *)
(* program counter says.                                                   *)
LEMMA CtrlKeepsMutexes ==
  ASSUME TypeOK, CtrlHolds, CtrlSteps \/ CtrlSocketWakes, UNCHANGED conn
  PROVE  cpc \notin {"off", "ended"} /\ cpc' \in CtrlPCs /\ CtrlHolds' /\ UNCHANGED stateMutex
  <1> USE DEF CtrlHolds, CtrlPCs, CtrlDrops, Goto, TakeNotif, DropNotif, Free
  <1>1. CASE CtrlBegins
    BY <1>1 DEF CtrlBegins
  <1>2. CASE CtrlConnectReturns
    BY <1>2 DEF CtrlConnectReturns
  <1>3. CASE CtrlTcpFails
    BY <1>3 DEF CtrlTcpFails
  <1>4. CASE CtrlConnectFails
    BY <1>4 DEF CtrlConnectFails
  <1>5. CASE CtrlRequestReturns
    BY <1>5 DEF CtrlRequestReturns
  <1>6. CASE CtrlHandles
    BY <1>6, EnteredHolds DEF CtrlHandles
  <1>7. CASE CtrlChecksId
    BY <1>7 DEF CtrlChecksId
  <1>8. CASE CtrlSetsId
    BY <1>8 DEF CtrlSetsId
  <1>9. CASE CtrlRequestsPin
    BY <1>9 DEF CtrlRequestsPin
  <1>10. CASE CtrlRequestsPinAgain
    BY <1>10 DEF CtrlRequestsPinAgain
  <1>11. CASE CtrlReportsSwitch
    BY <1>11 DEF CtrlReportsSwitch
  <1>12. CASE CtrlFails
    BY <1>12 DEF CtrlFails
  <1>13. CASE CtrlSelects
    BY <1>13 DEF CtrlSelects, Select
  <1>14. CASE CtrlPipeWakes
    BY <1>14 DEF CtrlPipeWakes
  <1>15. CASE CtrlSocketWakes
    BY <1>15 DEF CtrlSocketWakes
  <1>16. CASE CtrlRelocks
    BY <1>16 DEF CtrlRelocks
  <1>17. CASE CtrlDrains
    BY <1>17 DEF CtrlDrains
  <1>18. CASE CtrlHasSent
    BY <1>18 DEF CtrlHasSent
  <1> QED
    BY <1>1, <1>2, <1>3, <1>4, <1>5, <1>6, <1>7, <1>8, <1>9, <1>10, <1>11, <1>12, <1>13, <1>14, <1>15, <1>16, <1>17, <1>18 DEF CtrlSteps

(* The ctrl thread selects only when there is nothing to do, and leaves    *)
(* the select without touching the work.                                   *)
LEMMA CtrlKeepsWork ==
  ASSUME TypeOK, NoWorkWaitsUnsignalled, CtrlSteps \/ CtrlSocketWakes, UNCHANGED app
  PROVE  NoWorkWaitsUnsignalled'
  <1>1. CASE CtrlSelects
    BY <1>1 DEF CtrlSelects, Select, HasWork, NoWorkWaitsUnsignalled, Goto, TypeOK, CtrlTypeOK
  <1>2. CASE ~CtrlSelects
    <2>1. cpc' # "select"
      BY <1>2, EnteredHolds
      DEF CtrlSteps, CtrlBegins, CtrlConnectReturns, CtrlTcpFails, CtrlConnectFails,
          CtrlRequestReturns, CtrlHandles, CtrlChecksId, CtrlSetsId, CtrlRequestsPin,
          CtrlRequestsPinAgain, CtrlReportsSwitch, CtrlFails, CtrlPipeWakes, CtrlSocketWakes,
          CtrlRelocks, CtrlDrains, CtrlHasSent, CtrlDrops, Goto
    <2> QED
      BY <2>1 DEF NoWorkWaitsUnsignalled
  <1> QED
    BY <1>1, <1>2

-----------------------------------------------------------------------------
(* The steps of the session thread. *)
LEMMA SessionKeepsSess ==
  ASSUME SessTypeOK, SessionSteps, UNCHANGED conn
  PROVE  SessTypeOK'
  <1>0. \/ sess' = sess
        \/ \E r \in Reasons : sess' = [sess EXCEPT !.reason = r]
        \/ \E i \in IdSources : sess' = [sess EXCEPT !.id = i]
        \/ \E b \in BOOLEAN : sess' = [sess EXCEPT !.pinRequested = b]
        \/ \E b \in BOOLEAN : sess' = [sess EXCEPT !.pin = b]
    <2> USE ReasonSet DEF Unlocked, Locked, Quit, QuitStopped, QuitCtrlFailed, SGoto
    <2>0. sess.reason \in Reasons
      BY DEF SessTypeOK
    <2>1. CASE SessionBegins
      BY <2>1, <2>0 DEF SessionBegins
    <2>2. CASE RegistWaitEnds
      BY <2>2, <2>0 DEF RegistWaitEnds
    <2>3. CASE RegistJoined
      BY <2>3, <2>0 DEF RegistJoined
    <2>4. CASE RequestReturns
      BY <2>4, <2>0 DEF RequestReturns
    <2>5. CASE StartsCtrl
      BY <2>5, <2>0 DEF StartsCtrl
    <2>6. CASE CtrlWaitEnds
      BY <2>6, <2>0 DEF CtrlWaitEnds, AfterPin
    <2>7. CASE PinWaitEnds
      BY <2>7, <2>0 DEF PinWaitEnds, PinWaitPred, PredPin, PredState
    <2>8. CASE ForwardsPin
      BY <2>8, <2>0 DEF ForwardsPin
    <2>9. CASE PunchesHole
      BY <2>9, <2>0 DEF PunchesHole
    <2>10. CASE DataWaitEnds
      BY <2>10, <2>0 DEF DataWaitEnds
    <2>11. CASE SetsFallbackId
      BY <2>11, <2>0 DEF SetsFallbackId, WithFallbackId
    <2>12. CASE SenkushaReturns
      BY <2>12, <2>0 DEF SenkushaReturns
    <2>13. CASE SwitchWaitEnds
      BY <2>13, <2>0 DEF SwitchWaitEnds
    <2>14. CASE StreamEnds
      BY <2>14, <2>0 DEF StreamEnds
    <2>15. CASE StopsCtrl
      BY <2>15, <2>0 DEF StopsCtrl, StoppedCtrl
    <2>16. CASE JoinsCtrl
      BY <2>16, <2>0 DEF JoinsCtrl, CtrlIsGone
    <2>17. CASE ReportsQuit
      BY <2>17, <2>0 DEF ReportsQuit
    <2> QED
      BY <2>1, <2>2, <2>3, <2>4, <2>5, <2>6, <2>7, <2>8, <2>9, <2>10, <2>11, <2>12, <2>13, <2>14, <2>15, <2>16, <2>17 DEF SessionSteps
  <1> QED
    BY <1>0, SessUpdates, ReasonSet

SessionPlaces ==
  /\ cpc \in CtrlPCs /\ spc \in SessionPCs /\ rpc \in RegistPCs
  /\ CtrlWithinSession /\ RegistWithinSession /\ SessionHasMutex /\ ReportIsLast
(* A step of the session thread moves between the places. *)
LEMMA SessionKeepsPlaces ==
  ASSUME SessionPlaces, SessionSteps
  PROVE  SessionPlaces'
  <1> USE DEF SessionPlaces, CtrlWithinSession, RegistWithinSession, SessionHasMutex, ReportIsLast,
              SessionHolds, BeforeCtrl, Over, SessionPCs, RegistPCs, CtrlPCs, Free,
              Unlocked, Locked, Quit, QuitStopped, QuitCtrlFailed, SGoto, sessionVars
  <1>1. CASE SessionBegins
    BY <1>1 DEF SessionBegins
  <1>2. CASE RegistWaitEnds
    BY <1>2 DEF RegistWaitEnds
  <1>3. CASE RegistJoined
    BY <1>3 DEF RegistJoined
  <1>4. CASE RequestReturns
    BY <1>4 DEF RequestReturns
  <1>5. CASE StartsCtrl
    BY <1>5 DEF StartsCtrl
  <1>6. CASE CtrlWaitEnds
    BY <1>6, ZenonT(40) DEF CtrlWaitEnds, AfterPin
  <1>7. CASE PinWaitEnds
    BY <1>7 DEF PinWaitEnds
  <1>8. CASE ForwardsPin
    BY <1>8 DEF ForwardsPin
  <1>9. CASE PunchesHole
    BY <1>9 DEF PunchesHole
  <1>10. CASE DataWaitEnds
    BY <1>10 DEF DataWaitEnds
  <1>11. CASE SetsFallbackId
    BY <1>11 DEF SetsFallbackId, WithFallbackId
  <1>12. CASE SenkushaReturns
    BY <1>12, ZenonT(40) DEF SenkushaReturns
  <1>13. CASE SwitchWaitEnds
    BY <1>13 DEF SwitchWaitEnds
  <1>14. CASE StreamEnds
    BY <1>14 DEF StreamEnds
  <1>15. CASE StopsCtrl
    BY <1>15 DEF StopsCtrl, StoppedCtrl
  <1>16. CASE JoinsCtrl
    BY <1>16 DEF JoinsCtrl, CtrlIsGone
  <1>17. CASE ReportsQuit
    BY <1>17 DEF ReportsQuit
  <1> QED
    BY <1>1, <1>2, <1>3, <1>4, <1>5, <1>6, <1>7, <1>8, <1>9, <1>10, <1>11, <1>12, <1>13, <1>14, <1>15, <1>16, <1>17 DEF SessionSteps

(* The wait for the PIN ends with one, unless the session stops or ctrl    *)
(* has failed, and nobody takes it away before it is forwarded.            *)
LEMMA SessionKeepsPin ==
  ASSUME SessTypeOK, PinIsThereWhenForwarded, SessionSteps
  PROVE  PinIsThereWhenForwarded'
  <1> USE DEF PinIsThereWhenForwarded, Unlocked, Locked, Quit, QuitStopped, QuitCtrlFailed, SGoto
  <1>1. CASE PinWaitEnds
    BY <1>1 DEF PinWaitEnds, PinWaitPred, PredPin, PredState
  <1>2. CASE ~PinWaitEnds
    <2>1. spc' # "pinForward"
      BY <1>2 DEF SessionSteps, SessionBegins, RegistWaitEnds, RegistJoined, RequestReturns,
         StartsCtrl, CtrlWaitEnds, AfterPin, ForwardsPin, PunchesHole, DataWaitEnds,
         SetsFallbackId, SenkushaReturns, SwitchWaitEnds, StreamEnds, StopsCtrl, JoinsCtrl,
         ReportsQuit
    <2> QED
      BY <2>1
  <1> QED
    BY <1>1, <1>2

(* The session thread touches ctrl with a PIN or a stop only, and signals  *)
(* the pipe each time.                                                     *)
LEMMA SessionKeepsCtrl ==
  ASSUME TypeOK, CtrlWithinSession, CtrlHolds, NoWorkWaitsUnsignalled, SessionSteps
  PROVE  CtrlTypeOK' /\ CtrlHolds' /\ NoWorkWaitsUnsignalled'
  <1>1. CASE ForwardsPin \/ StopsCtrl
    <2>1. /\ ctrl'.pipe /\ UNCHANGED <<cpc, notifMutex>>
          /\ \/ ctrl' = [ctrl EXCEPT !.pin = TRUE, !.pipe = TRUE]
             \/ ctrl' = [ctrl EXCEPT !.stop = TRUE, !.pipe = TRUE]
      BY <1>1 DEF ForwardsPin, StopsCtrl, StoppedCtrl, TypeOK, CtrlTypeOK
    <2>2. CtrlTypeOK'
      BY <2>1 DEF TypeOK, CtrlTypeOK
    <2> QED
      BY <2>1, <2>2 DEF NoWorkWaitsUnsignalled, CtrlHolds
  <1>2. CASE StartsCtrl
    <2>1. cpc = "off" /\ cpc' \in {"off", "start"} /\ UNCHANGED <<ctrl, notifMutex>>
      BY <1>2 DEF StartsCtrl, CtrlWithinSession, BeforeCtrl
    <2> QED
      BY <2>1 DEF TypeOK, CtrlTypeOK, CtrlHolds, CtrlDrops, NoWorkWaitsUnsignalled
  <1>3. CASE ~(ForwardsPin \/ StopsCtrl \/ StartsCtrl)
    <2>1. UNCHANGED <<cpc, ctrl, notifMutex>> /\ app'.signal = app.signal
      BY <1>3 DEF SessionSteps, SessionBegins, RegistWaitEnds, RegistJoined, RequestReturns,
         CtrlWaitEnds, PinWaitEnds, PunchesHole, DataWaitEnds, SetsFallbackId, SenkushaReturns,
         SwitchWaitEnds, StreamEnds, JoinsCtrl, ReportsQuit, sessionVars, TypeOK
    <2> QED
      BY <2>1 DEF TypeOK, CtrlTypeOK, CtrlHolds, NoWorkWaitsUnsignalled, HasWork
  <1> QED
    BY <1>1, <1>2, <1>3

-----------------------------------------------------------------------------
AppTypeOK ==
  /\ app \in [stop : {"no", "called", "done"}, signal : BOOLEAN,
              asked : BOOLEAN, messages : 0 .. MaxMessages]
  /\ reported \in Reasons \cup {"not yet"}

(* Only the session thread and the application itself touch app. *)
LEMMA AppTypes ==
  ASSUME TypeOK, SessionSteps \/ AppSteps \/ UNCHANGED <<app, reported>>
  PROVE  AppTypeOK'
  <1>0. AppTypeOK /\ sess.reason \in Reasons
    BY DEF TypeOK, AppTypeOK, SessTypeOK
  <1>1. CASE UNCHANGED <<app, reported>>
    BY <1>0, <1>1 DEF AppTypeOK
  <1>2. CASE ReportsQuit
    BY <1>0, <1>2 DEF ReportsQuit, AppTypeOK
  <1>3. CASE CtrlWaitEnds
    BY <1>0, <1>3 DEF CtrlWaitEnds, AppTypeOK
  <1>4. CASE AppSteps
    <2>1. app.messages \in 0 .. MaxMessages
      BY <1>0 DEF AppTypeOK
    <2>2. app.messages < MaxMessages => app.messages + 1 \in 0 .. MaxMessages
      BY <2>1, QueueBounds
    <2> QED
      BY <1>0, <1>4, <2>2 DEF AppSteps, CallsStop, Stop, SetLoginPin, QueuesMessage, SignalsMessage,
         sessionVars, AppTypeOK
  <1> QED
    BY <1>1, <1>2, <1>3, <1>4
    DEF SessionSteps, SessionBegins, RegistWaitEnds, RegistJoined, RequestReturns, StartsCtrl,
        PinWaitEnds, ForwardsPin, PunchesHole, DataWaitEnds, SetsFallbackId, SenkushaReturns,
        SwitchWaitEnds, StreamEnds, StopsCtrl, JoinsCtrl, sessionVars

-----------------------------------------------------------------------------
(* Only the application makes the queue longer, and counts. *)
LEMMA QueueStaysCounted ==
  ASSUME TypeOK, QueueIsCounted, [Next]_vars
  PROVE  QueueIsCounted'
  <1>0. ctrl.queue \in Nat /\ app.messages \in Nat
    BY QueueTypes
  <1>1. CASE ctrl'.queue = ctrl.queue /\ app'.messages = app.messages
    BY <1>1 DEF QueueIsCounted
  <1>2. CASE CtrlDrains /\ UNCHANGED app
    <2>1. \/ ctrl.queue > 0 /\ ctrl' = [ctrl EXCEPT !.queue = ctrl.queue - 1]
          \/ ctrl' = [ctrl EXCEPT !.pin = FALSE] \/ ctrl' = ctrl
      BY <1>2 DEF CtrlDrains, MessageQueued
    <2>2. ctrl'.queue = ctrl.queue \/ ctrl'.queue = ctrl.queue - 1
      BY <2>1 DEF TypeOK, CtrlTypeOK
    <2> QED
      BY <1>0, <1>2, <2>2 DEF QueueIsCounted
  <1>3. CASE QueuesMessage
    <2>1. ctrl'.queue = ctrl.queue + 1 /\ app'.messages = app.messages + 1
      BY <1>3 DEF QueuesMessage, TypeOK, CtrlTypeOK
    <2> QED
      BY <1>0, <2>1 DEF QueueIsCounted
  <1>4. CASE CtrlThread(CtrlSteps) \/ CtrlThread(CtrlSocketWakes)
    <2>1. UNCHANGED app
      BY <1>4 DEF CtrlThread
    <2>2. CASE ~CtrlDrains
      <3>1. ctrl'.queue = ctrl.queue
        BY <1>4, <2>2
        DEF CtrlThread, CtrlSteps, CtrlBegins, CtrlConnectReturns, CtrlTcpFails, CtrlConnectFails,
            CtrlRequestReturns, CtrlHandles, CtrlChecksId, CtrlSetsId, CtrlRequestsPin,
            CtrlRequestsPinAgain, CtrlReportsSwitch, CtrlFails, CtrlSelects, Select, CtrlPipeWakes,
            CtrlSocketWakes, CtrlRelocks, CtrlHasSent, RequestIsOver, TypeOK, CtrlTypeOK
      <3> QED
        BY <1>1, <2>1, <3>1
    <2> QED
      BY <1>2, <2>1, <2>2
  <1>5. CASE SessionSteps
    <2>1. ctrl'.queue = ctrl.queue /\ app'.messages = app.messages
      BY <1>5
      DEF SessionSteps, SessionBegins, RegistWaitEnds, RegistJoined, RequestReturns, StartsCtrl,
          CtrlWaitEnds, PinWaitEnds, ForwardsPin, PunchesHole, DataWaitEnds, SetsFallbackId,
          SenkushaReturns, SwitchWaitEnds, StreamEnds, StopsCtrl, StoppedCtrl, JoinsCtrl,
          ReportsQuit, sessionVars, TypeOK, CtrlTypeOK
    <2> QED
      BY <1>1, <2>1
  <1>6. CASE RegistSteps \/ CallsStop \/ Stop \/ SetLoginPin \/ SignalsMessage \/ UNCHANGED vars
    <2>1. ctrl'.queue = ctrl.queue /\ app'.messages = app.messages
      BY <1>6
      DEF RegistSteps, RegistFinishes, RegistCallsBack, CallsStop, Stop, SetLoginPin, SignalsMessage,
          sessionVars, vars, TypeOK, CtrlTypeOK
    <2> QED
      BY <1>1, <2>1
  <1> QED
    BY <1>3, <1>4, <1>5, <1>6 DEF Next, AppSteps

-----------------------------------------------------------------------------
(* Initially nobody runs but the session thread. *)
LEMMA SessionInvInit == Init => SessionInv
  <1> SUFFICES ASSUME Init PROVE SessionInv
    OBVIOUS
  <1>0. 0 \in 0 .. MaxMessages
    BY MaxMessagesAssumption
  <1>1. SessTypeOK /\ CtrlTypeOK
    BY <1>0, ReasonSet DEF Init, SessInit, CtrlInit, SessTypeOK, CtrlTypeOK
  <1>2. TypeOK
    BY <1>0, <1>1, ReasonSet DEF Init, TypeOK, CtrlPCs, SessionPCs, RegistPCs, Free
  <1>3. QueueIsCounted
    <2>1. ctrl.queue = 0 /\ app.messages = 0
      BY DEF Init, CtrlInit
    <2> QED
      BY <2>1 DEF QueueIsCounted
  <1> QED
    BY <1>2, <1>3 DEF Init, SessionInv, CtrlWithinSession, RegistWithinSession, MutexesFollowThreads,
       ReportIsLast, PinIsThereWhenForwarded, NoWorkWaitsUnsignalled, BeforeCtrl, Over,
       SessionHolds, CtrlDrops, Free

(* The session thread keeps the invariant. *)
LEMMA SessionThreadStep ==
  ASSUME SessionInv, SessionSteps, UNCHANGED conn
  PROVE  SessionInv'
  <1>1. TypeOK /\ SessTypeOK /\ SessionPlaces /\ CtrlHolds
    BY DEF SessionInv, TypeOK, SessionPlaces, MutexesFollowThreads, SessionHasMutex, CtrlHolds
  <1>2. SessTypeOK' /\ SessionPlaces' /\ AppTypeOK'
    BY <1>1, SessionKeepsSess, SessionKeepsPlaces, AppTypes
  <1>3. CtrlTypeOK' /\ CtrlHolds' /\ NoWorkWaitsUnsignalled'
    BY <1>1, SessionKeepsCtrl DEF SessionInv
  <1>4. PinIsThereWhenForwarded'
    BY <1>1, SessionKeepsPin DEF SessionInv
  <1>9. QueueIsCounted'
    BY QueueStaysCounted DEF SessionInv, Next
  <1> QED
    BY <1>9, <1>2, <1>3, <1>4
    DEF SessionInv, TypeOK, SessionPlaces, MutexesFollowThreads, SessionHasMutex, CtrlHolds, AppTypeOK

(* The ctrl thread keeps the invariant. *)
LEMMA CtrlThreadStep ==
  ASSUME SessionInv, CtrlThread(CtrlSteps) \/ CtrlThread(CtrlSocketWakes), UNCHANGED conn
  PROVE  SessionInv'
  <1>0. (CtrlSteps \/ CtrlSocketWakes) /\ UNCHANGED <<spc, rpc, app, reported>>
    BY DEF CtrlThread
  <1>1. TypeOK /\ SessTypeOK /\ CtrlHolds
    BY DEF SessionInv, TypeOK, MutexesFollowThreads, CtrlHolds
  <1>2. SessTypeOK' /\ sess'.pin = sess.pin /\ CtrlTypeOK' /\ AppTypeOK'
    BY <1>0, <1>1, CtrlKeepsSess, CtrlKeepsCtrl, AppTypes
  <1>3. cpc \notin {"off", "ended"} /\ cpc' \in CtrlPCs /\ CtrlHolds' /\ UNCHANGED stateMutex
    BY <1>0, <1>1, CtrlKeepsMutexes
  <1>4. CtrlWithinSession' /\ RegistWithinSession' /\ ReportIsLast' /\ PinIsThereWhenForwarded'
    BY <1>0, <1>2, <1>3
    DEF SessionInv, CtrlWithinSession, RegistWithinSession, ReportIsLast, PinIsThereWhenForwarded
  <1>5. NoWorkWaitsUnsignalled'
    BY <1>0, <1>1, CtrlKeepsWork DEF SessionInv
  <1>9. QueueIsCounted'
    BY QueueStaysCounted DEF SessionInv, Next
  <1> QED
    BY <1>9, <1>0, <1>1, <1>2, <1>3, <1>4, <1>5
    DEF SessionInv, TypeOK, MutexesFollowThreads, CtrlHolds, AppTypeOK

(* The registration thread changes flags of the session only, and ends     *)
(* before it is joined.                                                    *)
LEMMA RegistThreadStep ==
  ASSUME SessionInv, RegistSteps, UNCHANGED conn
  PROVE  SessionInv'
  <1>1. TypeOK /\ SessTypeOK
    BY DEF SessionInv, TypeOK
  <1>2. SessTypeOK' /\ sess'.pin = sess.pin /\ rpc \in {"run", "succeeded", "failed"}
        /\ rpc' \in RegistPCs \ {"off"}
    <2>1. CASE RegistFinishes
      BY <1>1, <2>1 DEF RegistFinishes, SessTypeOK, RegistPCs
    <2>2. CASE RegistCallsBack
      <3>1. \/ sess' = [sess EXCEPT !.regist = TRUE]
            \/ \E r \in Reasons : sess' = [sess EXCEPT !.reason = r, !.stop = TRUE]
        BY <2>2, ReasonSet DEF RegistCallsBack
      <3>2. SessTypeOK'
        BY <1>1, <3>1, SessUpdates, ReasonSet
      <3>3. sess'.pin = sess.pin
        BY <1>1, <3>1 DEF SessTypeOK
      <3> QED
        BY <2>2, <3>2, <3>3 DEF RegistCallsBack, RegistPCs
    <2> QED
      BY <2>1, <2>2 DEF RegistSteps
  <1>3. UNCHANGED <<ctrl, stateMutex, notifMutex, cpc, spc, app, reported>>
    BY DEF RegistSteps, RegistFinishes, RegistCallsBack
  <1>9. QueueIsCounted'
    BY QueueStaysCounted DEF SessionInv, Next
  <1>4. TypeOK'
    <2>1. CtrlTypeOK'
      BY <1>1, <1>3 DEF TypeOK, CtrlTypeOK
    <2>2. AppTypeOK'
      BY <1>1, <1>3, AppTypes
    <2> QED
      BY <1>1, <1>2, <1>3, <2>1, <2>2 DEF TypeOK, AppTypeOK
  <1>5. CtrlWithinSession' /\ RegistWithinSession' /\ ReportIsLast' /\ PinIsThereWhenForwarded'
    BY <1>2, <1>3
    DEF SessionInv, CtrlWithinSession, RegistWithinSession, ReportIsLast, PinIsThereWhenForwarded
  <1>6. MutexesFollowThreads' /\ NoWorkWaitsUnsignalled'
    BY <1>3 DEF SessionInv, MutexesFollowThreads, NoWorkWaitsUnsignalled, HasWork
  <1> QED
    BY <1>4, <1>5, <1>6, <1>9 DEF SessionInv

(* The application sets flags, and signals what it has queued. *)
LEMMA AppStep ==
  ASSUME SessionInv, AppSteps, UNCHANGED conn
  PROVE  SessionInv'
  <1>0. ctrl.queue < MaxMessages \/ ~QueuesMessage
    <2>1. ctrl.queue \in Nat /\ app.messages \in Nat
      BY QueueTypes DEF SessionInv
    <2> QED
      BY <2>1, MaxMessagesAssumption DEF SessionInv, QueueIsCounted, QueuesMessage
  <1>1. TypeOK /\ SessTypeOK /\ CtrlTypeOK
    BY DEF SessionInv, TypeOK
  <1>2. AppTypeOK' /\ UNCHANGED <<stateMutex, notifMutex, cpc, spc, rpc, reported>>
    BY <1>1, AppTypes DEF AppSteps, CallsStop, Stop, SetLoginPin, QueuesMessage, SignalsMessage, sessionVars
  <1>3. SessTypeOK' /\ (sess.pin => sess'.pin)
    <2>1. \/ sess' = sess \/ sess' = [sess EXCEPT !.stop = TRUE, !.stopPipe = TRUE]
          \/ sess' = [sess EXCEPT !.pin = TRUE]
      BY DEF AppSteps, CallsStop, Stop, SetLoginPin, QueuesMessage, SignalsMessage
    <2>2. SessTypeOK'
      BY <1>1, <2>1, SessUpdates, ReasonSet
    <2> QED
      BY <1>1, <2>1, <2>2 DEF SessTypeOK
  <1>4. CtrlTypeOK'
    <2>1. ctrl.queue \in 0 .. MaxMessages
      BY <1>1 DEF CtrlTypeOK
    <2>2. CASE QueuesMessage
      <3>1. ctrl.queue + 1 \in 0 .. MaxMessages
        BY <1>0, <2>1, <2>2, QueueBounds
      <3> QED
        BY <1>1, <2>2, <3>1 DEF QueuesMessage, CtrlTypeOK
    <2>3. CASE CallsStop \/ Stop \/ SetLoginPin \/ SignalsMessage
      BY <1>1, <2>3 DEF CallsStop, Stop, SetLoginPin, SignalsMessage, CtrlTypeOK, sessionVars
    <2> QED
      BY <2>2, <2>3 DEF AppSteps
  <1>5. NoWorkWaitsUnsignalled'
    BY <1>1
    DEF SessionInv, AppSteps, CallsStop, Stop, SetLoginPin, QueuesMessage, SignalsMessage, sessionVars,
        NoWorkWaitsUnsignalled, HasWork, TypeOK, CtrlTypeOK
  <1>9. QueueIsCounted'
    BY QueueStaysCounted DEF SessionInv, Next
  <1> QED
    BY <1>9, <1>1, <1>2, <1>3, <1>4, <1>5
    DEF SessionInv, TypeOK, CtrlWithinSession, RegistWithinSession, MutexesFollowThreads,
        ReportIsLast, PinIsThereWhenForwarded, AppTypeOK

(* Every step keeps the invariant. *)
LEMMA SessionInvStep == SessionInv /\ [Next]_vars => SessionInv'
  <1> SUFFICES ASSUME SessionInv, [Next]_vars PROVE SessionInv'
    OBVIOUS
  <1>1. CASE UNCHANGED vars
    <2>0. /\ TypeOK /\ SessTypeOK /\ CtrlTypeOK
          /\ UNCHANGED <<conn, sess, ctrl, stateMutex, notifMutex, cpc, spc, rpc, app, reported>>
      BY <1>1 DEF vars, SessionInv, TypeOK
    <2>1. TypeOK'
      <3>1. SessTypeOK'
        BY <2>0 DEF SessTypeOK
      <3>3. CtrlTypeOK'
        BY <2>0 DEF CtrlTypeOK
      <3>2. AppTypeOK'
        BY <2>0, AppTypes
      <3> QED
        BY <2>0, <3>1, <3>2, <3>3 DEF TypeOK, AppTypeOK
    <2>2. QueueIsCounted'
      BY QueueStaysCounted DEF SessionInv
    <2>3. CtrlWithinSession' /\ RegistWithinSession' /\ ReportIsLast' /\ PinIsThereWhenForwarded'
      BY <1>1
      DEF vars, SessionInv, CtrlWithinSession, RegistWithinSession, ReportIsLast, PinIsThereWhenForwarded
    <2>4. MutexesFollowThreads' /\ NoWorkWaitsUnsignalled'
      BY <1>1 DEF vars, SessionInv, MutexesFollowThreads, NoWorkWaitsUnsignalled, HasWork
    <2> QED
      BY <2>1, <2>2, <2>3, <2>4 DEF SessionInv
  <1>2. CASE Next
    BY <1>2, SessionThreadStep, CtrlThreadStep, RegistThreadStep, AppStep DEF Next
  <1> QED
    BY <1>1, <1>2

-----------------------------------------------------------------------------
(* The invariant of a session holds always: besides the types, who holds   *)
(* state_mutex and notif_mutex, how long the ctrl and the registration     *)
(* thread live, and that the quit event comes last.                        *)
THEOREM SessionInvHolds == Spec => []SessionInv
  <1>1. Init => SessionInv
    BY SessionInvInit
  <1>2. SessionInv /\ [Next]_vars => SessionInv'
    BY SessionInvStep
  <1> QED
    BY <1>1, <1>2, PTL DEF Spec

(* The assertion of session.c:556 never fails: the login PIN is there when *)
(* the session thread forwards it to ctrl.                                 *)
THEOREM PinIsAlwaysThere == Spec => []PinIsThereWhenForwarded
  <1>1. SessionInv => PinIsThereWhenForwarded
    BY DEF SessionInv
  <1> QED
    BY <1>1, SessionInvHolds, PTL

(* The ctrl thread never selects on queued messages, a PIN or a stop that  *)
(* nobody has signalled or is about to signal.                             *)
THEOREM WorkIsAlwaysSignalled == Spec => []NoWorkWaitsUnsignalled
  <1>1. SessionInv => NoWorkWaitsUnsignalled
    BY DEF SessionInv
  <1> QED
    BY <1>1, SessionInvHolds, PTL

(* After the quit event nobody is left who could change the quit reason.   *)
LEMMA ReasonStays ==
  ASSUME SessionInv, [Next]_vars, reported # "not yet"
  PROVE  sess'.reason = sess.reason
  <1>1. spc = "ended" /\ cpc \in {"off", "ended"} /\ rpc \in {"off", "done"}
    BY DEF SessionInv, ReportIsLast, CtrlWithinSession, RegistWithinSession, Over
  <1>2. ~SessionSteps
    BY <1>1
    DEF SessionSteps, SessionBegins, RegistWaitEnds, RegistJoined, RequestReturns, StartsCtrl,
        CtrlWaitEnds, PinWaitEnds, ForwardsPin, PunchesHole, DataWaitEnds, SetsFallbackId,
        SenkushaReturns, SwitchWaitEnds, StreamEnds, StopsCtrl, JoinsCtrl, ReportsQuit
  <1>3. ~RegistSteps
    BY <1>1 DEF RegistSteps, RegistFinishes, RegistCallsBack
  <1>4. ~(CtrlThread(CtrlSteps) \/ CtrlThread(CtrlSocketWakes))
    BY <1>1, CtrlKeepsMutexes DEF CtrlThread, CtrlSteps, CtrlBegins, CtrlConnectReturns, CtrlTcpFails,
       CtrlConnectFails, CtrlRequestReturns, CtrlHandles, CtrlChecksId, CtrlSetsId, CtrlRequestsPin,
       CtrlRequestsPinAgain, CtrlReportsSwitch, CtrlFails, CtrlSelects, CtrlPipeWakes,
       CtrlSocketWakes, CtrlRelocks, CtrlDrains, CtrlHasSent
  <1>5. CASE AppSteps
    BY <1>5 DEF SessionInv, TypeOK, SessTypeOK, AppSteps, CallsStop, Stop, SetLoginPin, QueuesMessage,
       SignalsMessage
  <1> QED
    BY <1>2, <1>3, <1>4, <1>5 DEF Next, vars

(* The reason that the quit event carries is the last one written.         *)
THEOREM ReportedReasonStays == Spec => ReportedReasonIsFinal
  <1>1. SessionInv /\ [Next]_vars => [reported # "not yet" => sess'.reason = sess.reason]_vars
    BY ReasonStays
  <1> QED
    BY <1>1, SessionInvHolds, PTL DEF Spec, ReportedReasonIsFinal

-----------------------------------------------------------------------------
(***************************************************************************)
(* No thread calls into a freed session, for any number of threads that    *)
(* use it and any number of sessions.                                      *)
(***************************************************************************)


(* The owner has the only pointer of what it joins and frees: it took it   *)
(* from the handle, under the lock, when no call was under way.            *)
Disposing(s) == owner.pc \in {"join", "free"} /\ owner.session = s

\* Who is in a native call holds the lock of the handle it went through.
InsideHoldsLock ==
  \A c \in Callers : caller[c].pc = "inside" => lock[caller[c].session] = c

\* While a call is under way, the handle still has the pointer.
LockedHasPointer == \A s \in Sessions : lock[s] # "nobody" => pointer[s]

\* What is freed, or about to be, has no pointer in its handle.
DisposedIsDetached ==
  \A s \in Sessions : (native[s] = "freed" \/ Disposing(s)) => ~pointer[s]

LifeInv == QuestSessionTypeOK /\ InsideHoldsLock /\ LockedHasPointer /\ DisposedIsDetached

(* Nobody is inside a session at the beginning. *)
LEMMA LifeInvInit == QuestSessionInit => LifeInv
  <1> SUFFICES ASSUME QuestSessionInit PROVE LifeInv
    OBVIOUS
  <1>1. QuestSessionTypeOK
    BY QuestSessionAssumption
    DEF QuestSessionInit, QuestSessionTypeOK, Idle, None, NativeStates
  <1>2. InsideHoldsLock /\ LockedHasPointer /\ DisposedIsDetached
    BY DEF QuestSessionInit, InsideHoldsLock, LockedHasPointer, DisposedIsDetached, Disposing, Idle
  <1> QED
    BY <1>1, <1>2 DEF LifeInv

\* The owner's steps before it detaches touch neither handles nor calls.
LEMMA OwnerStep ==
  ASSUME LifeInv,
         Publishes \/ Starts \/ Unpublishes \/ Stops \/ Joins
  PROVE  LifeInv'
  <1>0. FirstStops = "stop"
    BY DEF FirstStops
  <1>1. QuestSessionTypeOK'
    BY <1>0 DEF LifeInv, QuestSessionTypeOK, Publishes, Starts, Unpublishes, Stops, Joins,
           Idle, At, None, NativeStates, Sessions
  <1>2. InsideHoldsLock' /\ LockedHasPointer'
    BY DEF LifeInv, InsideHoldsLock, LockedHasPointer,
           Publishes, Starts, Unpublishes, Stops, Joins
  <1>3. DisposedIsDetached'
    BY <1>0 DEF LifeInv, QuestSessionTypeOK, DisposedIsDetached, Disposing,
           Publishes, Starts, Unpublishes, Stops, Joins, Idle, At
  <1> QED
    BY <1>1, <1>2, <1>3 DEF LifeInv

\* A new session has never been freed, and nobody disposes of it.
LEMMA MakeStep ==
  ASSUME LifeInv, NEW s \in Sessions, Makes(s)
  PROVE  LifeInv'
  <1>1. QuestSessionTypeOK'
    BY DEF LifeInv, QuestSessionTypeOK, Makes, At, NativeStates, None, Sessions
  <1>2. InsideHoldsLock' /\ LockedHasPointer'
    BY DEF LifeInv, QuestSessionTypeOK, InsideHoldsLock, LockedHasPointer, Makes
  <1>3. DisposedIsDetached'
    BY DEF LifeInv, QuestSessionTypeOK, DisposedIsDetached, Disposing, Makes, At
  <1> QED
    BY <1>1, <1>2, <1>3 DEF LifeInv

\* Detaching waits for the lock: no call is under way any more.
LEMMA DetachStep ==
  ASSUME LifeInv, Detaches
  PROVE  LifeInv'
  <1>1. QuestSessionTypeOK'
    BY DEF LifeInv, QuestSessionTypeOK, Detaches, At, NativeStates, None, Sessions
  <1>2. InsideHoldsLock' /\ LockedHasPointer'
    BY DEF LifeInv, QuestSessionTypeOK, InsideHoldsLock, LockedHasPointer, Detaches, MayDetach
  <1>3. DisposedIsDetached'
    BY DEF LifeInv, QuestSessionTypeOK, DisposedIsDetached, Disposing, Detaches, At
  <1> QED
    BY <1>1, <1>2, <1>3 DEF LifeInv

\* What the owner frees it has detached before.
LEMMA FreeStep ==
  ASSUME LifeInv, Frees
  PROVE  LifeInv'
  <1>1. QuestSessionTypeOK'
    BY DEF LifeInv, QuestSessionTypeOK, Frees, Idle, NativeStates, None, Sessions
  <1>2. InsideHoldsLock' /\ LockedHasPointer'
    BY DEF LifeInv, InsideHoldsLock, LockedHasPointer, Frees
  <1>3. DisposedIsDetached'
    BY DEF LifeInv, QuestSessionTypeOK, DisposedIsDetached, Disposing, Frees, Idle
  <1> QED
    BY <1>1, <1>2, <1>3 DEF LifeInv

\* The thread of the native session does not free it.
LEMMA NativeStep ==
  ASSUME LifeInv, NEW s \in Sessions, Quits(s) \/ Ends(s)
  PROVE  LifeInv'
  <1>1. QuestSessionTypeOK'
    BY DEF LifeInv, QuestSessionTypeOK, Quits, Ends, NativeStates
  <1>2. InsideHoldsLock' /\ LockedHasPointer'
    BY DEF LifeInv, InsideHoldsLock, LockedHasPointer, Quits, Ends
  <1>3. DisposedIsDetached'
    BY DEF LifeInv, QuestSessionTypeOK, DisposedIsDetached, Disposing, Quits, Ends
  <1> QED
    BY <1>1, <1>2, <1>3 DEF LifeInv

\* A caller enters only with the pointer, and takes the lock for the call.
LEMMA CallerStep ==
  ASSUME LifeInv, NEW c \in Callers, Finds(c) \/ Enters(c) \/ Returns(c)
  PROVE  LifeInv'
  <1>1. QuestSessionTypeOK'
    <2>1. CASE Finds(c)
      BY <2>1 DEF LifeInv, QuestSessionTypeOK, Finds, At, None
    <2>2. CASE Enters(c)
      BY <2>2 DEF LifeInv, QuestSessionTypeOK, Enters, At, Idle, None
    <2>3. CASE Returns(c)
      BY <2>3 DEF LifeInv, QuestSessionTypeOK, Returns, Idle, None
    <2> QED
      BY <2>1, <2>2, <2>3
  <1>2. InsideHoldsLock'
    <2>1. CASE Finds(c)
      BY <2>1 DEF LifeInv, QuestSessionTypeOK, InsideHoldsLock, Finds, At
    <2>2. CASE Enters(c)
      BY <2>2, QuestSessionAssumption
      DEF LifeInv, QuestSessionTypeOK, InsideHoldsLock, Enters, At, Idle
    <2>3. CASE Returns(c)
      BY <2>3, QuestSessionAssumption
      DEF LifeInv, QuestSessionTypeOK, InsideHoldsLock, Returns, Idle
    <2> QED
      BY <2>1, <2>2, <2>3
  <1>3. LockedHasPointer' /\ DisposedIsDetached'
    BY DEF LifeInv, QuestSessionTypeOK, LockedHasPointer, DisposedIsDetached, Disposing,
           Finds, Enters, Returns
  <1> QED
    BY <1>1, <1>2, <1>3 DEF LifeInv

(* Every step keeps it. *)
LEMMA LifeInvStep == LifeInv /\ [QuestSessionNext]_questSessionVars => LifeInv'
  <1> SUFFICES ASSUME LifeInv, [QuestSessionNext]_questSessionVars PROVE LifeInv'
    OBVIOUS
  <1>1. CASE QuestSessionNext
    BY <1>1, OwnerStep, MakeStep, DetachStep, FreeStep, NativeStep, CallerStep
    DEF QuestSessionNext, OwnerSteps
  <1>2. CASE UNCHANGED questSessionVars
    BY <1>2 DEF questSessionVars, LifeInv, QuestSessionTypeOK, InsideHoldsLock,
                LockedHasPointer, DisposedIsDetached, Disposing
  <1> QED
    BY <1>1, <1>2

(* Who is inside has a pointer, so the session was not freed. *)
LEMMA LifeInvSafe == LifeInv => NoCallReachesAFreedSession
  BY QuestSessionAssumption
  DEF LifeInv, QuestSessionTypeOK, InsideHoldsLock, LockedHasPointer, DisposedIsDetached,
      NoCallReachesAFreedSession

(* "JNI called after free" does not happen: withPointer keeps the handle   *)
(* locked during the call, and detach, which waits for it, comes before    *)
(* the session is freed (NativeSessionHandle.kt, Session.dispose).         *)
THEOREM FreedSessionIsNotCalled == QuestSessionSpec => []NoCallReachesAFreedSession
  BY LifeInvInit, LifeInvStep, LifeInvSafe, PTL DEF QuestSessionSpec

-----------------------------------------------------------------------------
(***************************************************************************)
(* A session is always in one of five phases, and what the worker does and *)
(* what is posted to the main thread belongs to its phase.  The phases are *)
(* an inductive invariant, for any consoles and any bounds, from which it  *)
(* follows that a session being connected over PSN is kept.                *)
(***************************************************************************)


Names == Hosts \cup {"none"}

Desks ==
  [session : Nat, made : Nat, info : Names, wakeNick : Names, wakeStart : BOOLEAN,
   wakeTimer : BOOLEAN, resume : BOOLEAN, reconnect : BOOLEAN, tries : Nat,
   discovery : BOOLEAN, autoMac : Names, autoTimer : BOOLEAN]

ClientSessions ==
  [th : {"new", "starting", "connecting", "connected", "ended"}, stop : BOOLEAN,
   connected : BOOLEAN, connecting : BOOLEAN, restarts : Nat, due : BOOLEAN]

Events == [kind : {"result", "changed", "quit"}, n : Nat, ok : BOOLEAN]

Typed(d, s, w, p) == d \in Desks /\ s \in ClientSessions /\ w \in Nat /\ p \in Seq(Events)

NoSession(d, s, w, p) ==
  d.session = 0 /\ ~d.wakeStart /\ s.th = "new" /\ w = 0 /\ p = <<>>

WaitsForConsole(d, s, w, p) ==
  d.session # 0 /\ d.wakeStart /\ s.th = "new" /\ w = 0 /\ p = <<>>

ConnectsOverPsn(d, s, w, p) ==
  d.session # 0 /\ ~d.wakeStart /\ s.th = "new" /\ w = d.session /\ p = <<>>

HasResult(d, s, w, p) ==
  /\ d.session # 0 /\ ~d.wakeStart /\ s.th = "new" /\ w = 0
  /\ Len(p) = 1 /\ p[1].kind = "result" /\ p[1].n = d.session

(* Of a session that began only its own events come, the quit event last. *)
Began(d, s, w, p) ==
  /\ d.session # 0 /\ ~d.wakeStart /\ s.th # "new" /\ w = 0
  /\ s.due => s.th = "ended"
  /\ \A i \in 1 .. Len(p) :
       /\ p[i].n = d.session /\ p[i].kind # "result"
       /\ p[i].kind = "quit" => i = Len(p) /\ s.th = "ended" /\ ~s.due

Phases(d, s, w, p) ==
  /\ Typed(d, s, w, p)
  /\ s.th = "new" => ~s.due
  /\ \/ NoSession(d, s, w, p) \/ WaitsForConsole(d, s, w, p) \/ ConnectsOverPsn(d, s, w, p)
     \/ HasResult(d, s, w, p) \/ Began(d, s, w, p)

PhaseInv == Phases(desk, ses, worker, posted)

(* The initial states have no session. *)
LEMMA InitPhase == DesktopInit => PhaseInv
  <1> SUFFICES ASSUME DesktopInit PROVE PhaseInv
    OBVIOUS
  <1>1. PICK auto \in Consoles \cup {"none"} :
          desk = [session |-> 0, made |-> 0, info |-> "none", wakeNick |-> "none",
                  wakeStart |-> FALSE, wakeTimer |-> FALSE, resume |-> FALSE,
                  reconnect |-> FALSE, tries |-> 0, discovery |-> TRUE,
                  autoMac |-> auto, autoTimer |-> auto # "none"]
    BY DEF DesktopInit
  <1>2. desk \in Desks
    BY <1>1 DEF Desks, Names, Hosts
  <1>3. ses = NoSes /\ worker = 0 /\ posted = <<>>
    BY DEF DesktopInit
  <1>4. ses \in ClientSessions
    BY <1>3 DEF NoSes, ClientSessions
  <1>5. posted \in Seq(Events)
    BY <1>3
  <1>6. NoSession(desk, ses, worker, posted)
    BY <1>1, <1>3 DEF NoSession, NoSes
  <1> QED
    BY <1>2, <1>3, <1>4, <1>5, <1>6 DEF PhaseInv, Phases, Typed, NoSes

(* What is neither the session, its wait, its thread, the worker nor the   *)
(* posted events does not change the phase.                                *)
LEMMA SamePhase ==
  ASSUME NEW d, NEW s, NEW w, NEW p, NEW e, NEW t, Phases(d, s, w, p),
         e \in Desks, t \in ClientSessions,
         e.session = d.session, e.wakeStart = d.wakeStart, t.th = s.th, t.due = s.due
  PROVE  Phases(e, t, w, p)
  BY DEF Phases, Typed, NoSession, WaitsForConsole, ConnectsOverPsn, HasResult, Began

(* A session that starts leaves its wait or its PSN connection behind. *)
LEMMA StartPhase ==
  ASSUME NEW d \in Desks, NEW s \in ClientSessions, d.session # 0, ~d.wakeStart, s.th = "new", ~s.due,
         StartSession(d, s), worker' = 0, posted' = <<>>
  PROVE  PhaseInv'
  <1>1. desk' = d /\ ses' = [s EXCEPT !.th = "starting", !.connecting = TRUE]
    BY DEF StartSession
  <1>2. ses' \in ClientSessions /\ ses'.th = "starting" /\ ~ses'.due
    BY <1>1 DEF ClientSessions
  <1>3. posted' \in Seq(Events) /\ Len(posted') = 0
    OBVIOUS
  <1>4. Began(desk', ses', worker', posted')
    BY <1>1, <1>2, <1>3 DEF Began
  <1> QED
    BY <1>1, <1>2, <1>3, <1>4 DEF PhaseInv, Phases, Typed, Desks

(* A new session takes the place of none, and begins in a phase of its     *)
(* kind.                                                                   *)
LEMMA NewSessionPhase ==
  ASSUME NEW d \in Desks, NEW host \in Names, NewSession(d, host), ~d.wakeStart,
         worker = 0, posted = <<>>, UNCHANGED posted
  PROVE  PhaseInv'
  <1> DEFINE n == d.made + 1
             f == [d EXCEPT !.session = n, !.made = n, !.info = host]
  <1>1. n \in Nat /\ n # 0
    BY DEF Desks
  <1>2. f \in Desks /\ f.session = n /\ ~f.wakeStart
    BY <1>1 DEF Desks
  <1>3. NoSes \in ClientSessions /\ NoSes.th = "new" /\ ~NoSes.due
    BY DEF NoSes, ClientSessions
  <1>4. posted' = <<>> /\ posted' \in Seq(Events)
    OBVIOUS
  <1>5. \/ desk' = [f EXCEPT !.discovery = FALSE] /\ ses' = NoSes /\ worker' = n
        \/ desk' = [f EXCEPT !.wakeStart = TRUE, !.wakeTimer = TRUE] /\ ses' = NoSes /\ worker' = 0
        \/ StartSession(f, NoSes) /\ worker' = 0
    BY DEF NewSession
  <1> HIDE DEF n, f
  <1>6. CASE desk' = [f EXCEPT !.discovery = FALSE] /\ ses' = NoSes /\ worker' = n
    <2>1. desk' \in Desks /\ desk'.session = n /\ ~desk'.wakeStart
      BY <1>2, <1>6 DEF Desks
    <2>2. ConnectsOverPsn(desk', ses', worker', posted')
      BY <1>1, <1>3, <1>4, <1>6, <2>1 DEF ConnectsOverPsn
    <2> QED
      BY <1>1, <1>3, <1>4, <1>6, <2>1, <2>2 DEF PhaseInv, Phases, Typed
  <1>7. CASE desk' = [f EXCEPT !.wakeStart = TRUE, !.wakeTimer = TRUE] /\ ses' = NoSes /\ worker' = 0
    <2>1. desk' \in Desks /\ desk'.session = n /\ desk'.wakeStart
      BY <1>2, <1>7 DEF Desks
    <2>2. WaitsForConsole(desk', ses', worker', posted')
      BY <1>1, <1>3, <1>4, <1>7, <2>1 DEF WaitsForConsole
    <2> QED
      BY <1>3, <1>4, <1>7, <2>1, <2>2 DEF PhaseInv, Phases, Typed
  <1>8. CASE StartSession(f, NoSes) /\ worker' = 0
    BY <1>1, <1>2, <1>3, <1>4, <1>8, StartPhase
  <1> QED
    BY <1>5, <1>6, <1>7, <1>8

(* createSession, whatever its caller changed of the other fields. *)
LEMMA CreatePhase ==
  ASSUME NEW d \in Desks, NEW v, NEW host \in Names, PhaseInv, CreateSession(d, v, host),
         d.session = desk.session, d.wakeStart = desk.wakeStart, UNCHANGED posted
  PROVE  PhaseInv'
  <1> DEFINE e == [d EXCEPT !.autoMac = "none"]
  <1>1. e \in Desks /\ e.session = d.session /\ e.wakeStart = d.wakeStart
    BY DEF Desks, Names
  <1> HIDE DEF e
  <1>2. CASE d.session # 0
    <2>1. desk' = e /\ UNCHANGED <<ses, worker>>
      BY <1>2 DEF CreateSession, e
    <2>2. ses \in ClientSessions
      BY DEF PhaseInv, Phases, Typed
    <2> QED
      BY <1>1, <2>1, <2>2, SamePhase DEF PhaseInv
  <1>3. CASE d.session = 0
    <2>1. NewSession(e, host)
      BY <1>3 DEF CreateSession, e
    <2>2. worker = 0 /\ posted = <<>> /\ ~d.wakeStart
      BY <1>3 DEF PhaseInv, Phases, NoSession, WaitsForConsole, ConnectsOverPsn, HasResult, Began
    <2> QED
      BY <1>1, <2>1, <2>2, NewSessionPhase
  <1> QED
    BY <1>2, <1>3

(* connectToHost. *)
LEMMA ConnectPhase ==
  ASSUME NEW d \in Desks, NEW host \in Names, PhaseInv, ConnectToHost(d, host),
         d.session = desk.session, d.wakeStart = desk.wakeStart, UNCHANGED posted
  PROVE  PhaseInv'
  <1> DEFINE e == [d EXCEPT !.resume = FALSE]
             f == [d EXCEPT !.resume = FALSE,
                            !.wakeNick = IF power.on[host] THEN @ ELSE host]
  <1>1. e \in Desks /\ e.session = d.session /\ e.wakeStart = d.wakeStart
    BY DEF Desks
  <1>2. f \in Desks /\ f.session = d.session /\ f.wakeStart = d.wakeStart
    BY DEF Desks
  <1>3. \/ CreateSession(f, view, host)
        \/ CreateSession(e, view, host)
        \/ desk' = e /\ UNCHANGED <<ses, worker>>
    BY DEF ConnectToHost
  <1> HIDE DEF e, f
  <1>4. CASE CreateSession(f, view, host)
    BY <1>2, <1>4, CreatePhase
  <1>5. CASE CreateSession(e, view, host)
    BY <1>1, <1>5, CreatePhase
  <1>6. CASE desk' = e /\ UNCHANGED <<ses, worker>>
    <2>1. ses \in ClientSessions
      BY DEF PhaseInv, Phases, Typed
    <2> QED
      BY <1>1, <1>6, <2>1, SamePhase DEF PhaseInv
  <1> QED
    BY <1>3, <1>4, <1>5, <1>6

(* Events of a session that began are posted behind those there are; none  *)
(* comes after the quit event.                                             *)
LEMMA PostPhase ==
  ASSUME NEW d, NEW s, NEW w, NEW p, Phases(d, s, w, p), s.th \notin {"new", "ended"},
         NEW t \in ClientSessions, t.th # "new", t.due => t.th = "ended",
         NEW q \in Seq(Events),
         \A i \in 1 .. Len(q) :
           /\ q[i].n = d.session /\ q[i].kind # "result"
           /\ q[i].kind = "quit" => i = Len(q) /\ t.th = "ended" /\ ~t.due
  PROVE  Phases(d, t, w, p \o q)
  <1>1. Began(d, s, w, p)
    BY DEF Phases, NoSession, WaitsForConsole, ConnectsOverPsn, HasResult
  <1>2. p \in Seq(Events)
    BY DEF Phases, Typed
  <1>3. /\ p \o q \in Seq(Events)
        /\ Len(p \o q) = Len(p) + Len(q)
        /\ \A i \in 1 .. Len(p) + Len(q) :
             (p \o q)[i] = IF i <= Len(p) THEN p[i] ELSE q[i - Len(p)]
    BY <1>2
  <1>4. ASSUME NEW i \in 1 .. Len(p \o q)
        PROVE  /\ (p \o q)[i].n = d.session /\ (p \o q)[i].kind # "result"
               /\ (p \o q)[i].kind = "quit" => i = Len(p \o q) /\ t.th = "ended" /\ ~t.due
    <2>1. CASE i <= Len(p)
      BY <1>1, <1>2, <1>3, <2>1 DEF Began
    <2>2. CASE ~(i <= Len(p))
      <3>1. i - Len(p) \in 1 .. Len(q) /\ (p \o q)[i] = q[i - Len(p)]
        BY <1>2, <1>3, <2>2
      <3> QED
        BY <1>2, <1>3, <3>1
    <2> QED
      BY <2>1, <2>2
  <1>5. Began(d, t, w, p \o q)
    BY <1>1, <1>4 DEF Began
  <1> QED
    BY <1>3, <1>5 DEF Phases, Typed

(* Without an event the thread only changes its own state. *)
LEMMA OwnPhase ==
  ASSUME PhaseInv, ses.th \notin {"new", "ended"}, UNCHANGED <<desk, worker, posted>>,
         ses' \in ClientSessions, ses'.th # "new", ses'.due => ses'.th = "ended"
  PROVE  PhaseInv'
  <1>1. Began(desk, ses, worker, posted) /\ Typed(desk, ses, worker, posted)
    BY DEF PhaseInv, Phases, NoSession, WaitsForConsole, ConnectsOverPsn, HasResult
  <1>2. Began(desk', ses', worker', posted')
    BY <1>1 DEF Began
  <1> QED
    BY <1>1, <1>2 DEF PhaseInv, Phases, Typed

(* ThreadQuits starts the thread again later, or posts the last events. *)
LEMMA QuitPhase ==
  ASSUME NEW error \in BOOLEAN, PhaseInv, ThreadQuits(error), ses.th \notin {"new", "ended"},
         UNCHANGED <<desk, worker>>
  PROVE  PhaseInv'
  <1> DEFINE q == <<[kind |-> "changed", n |-> desk.session, ok |-> FALSE],
                    [kind |-> "quit", n |-> desk.session, ok |-> ~error]>>
  <1>1. ses \in ClientSessions /\ desk \in Desks /\ posted \in Seq(Events)
    BY DEF PhaseInv, Phases, Typed
  <1>2. ~ses.due
    BY DEF PhaseInv, Phases, NoSession, WaitsForConsole, ConnectsOverPsn, HasResult, Began
  <1>3. CASE ses' = [ses EXCEPT !.th = "ended", !.due = TRUE] /\ UNCHANGED posted
    <2>1. ses' \in ClientSessions /\ ses'.th = "ended"
      BY <1>1, <1>3 DEF ClientSessions
    <2> QED
      BY <1>1, <1>3, <2>1, OwnPhase
  <1>4. CASE ses' = [ses EXCEPT !.th = "ended", !.connected = FALSE] /\ posted' = posted \o q
    <2>1. ses' \in ClientSessions /\ ses'.th = "ended" /\ ~ses'.due
      BY <1>1, <1>2, <1>4 DEF ClientSessions
    <2>2. q \in Seq(Events) /\ Len(q) = 2
      BY <1>1 DEF Events, Desks
    <2>3. \A i \in 1 .. Len(q) :
            /\ q[i].n = desk.session /\ q[i].kind # "result"
            /\ q[i].kind = "quit" => i = Len(q)
      BY <2>2
    <2> HIDE DEF q
    <2> QED
      BY <1>4, <2>1, <2>2, <2>3, PostPhase DEF PhaseInv
  <1> QED
    BY <1>3, <1>4 DEF ThreadQuits

(* The steps of the thread of the session. *)
LEMMA ThreadPhase ==
  ASSUME PhaseInv, ThreadBegins \/ ThreadConnects \/ ThreadEnds
  PROVE  PhaseInv'
  <1>1. ses \in ClientSessions /\ desk \in Desks /\ posted \in Seq(Events)
    BY DEF PhaseInv, Phases, Typed
  <1>2. ses.th \in {"starting", "connecting", "connected"} => ~ses.due
    BY DEF PhaseInv, Phases, NoSession, WaitsForConsole, ConnectsOverPsn, HasResult, Began
  <1>3. CASE ThreadBegins
    <2>1. CASE ThreadQuits(FALSE)
      BY <1>3, <2>1, QuitPhase DEF ThreadBegins
    <2>2. CASE ses' = [ses EXCEPT !.th = "connecting"] /\ UNCHANGED posted
      <3>1. ses' \in ClientSessions /\ ses'.th = "connecting" /\ ~ses'.due
        BY <1>1, <1>2, <1>3, <2>2 DEF ClientSessions, ThreadBegins
      <3> QED
        BY <1>3, <2>2, <3>1, OwnPhase DEF ThreadBegins
    <2> QED
      BY <1>3, <2>1, <2>2 DEF ThreadBegins
  <1>4. CASE ThreadConnects
    <2> DEFINE q == <<[kind |-> "changed", n |-> desk.session, ok |-> TRUE]>>
    <2>1. ses' \in ClientSessions /\ ses'.th = "connected" /\ ~ses'.due
      BY <1>1, <1>2, <1>4 DEF ClientSessions, ThreadConnects
    <2>2. q \in Seq(Events) /\ Len(q) = 1 /\ q[1].n = desk.session /\ q[1].kind = "changed"
      BY <1>1 DEF Events, Desks
    <2>3. posted' = posted \o q
      <3>1. [kind |-> "changed", n |-> desk.session, ok |-> TRUE] \in Events
        BY <1>1 DEF Events, Desks
      <3> QED
        BY <1>1, <1>4, <3>1, AppendIsConcat DEF ThreadConnects
    <2> HIDE DEF q
    <2>5. \A i \in 1 .. Len(q) :
            /\ q[i].n = desk.session /\ q[i].kind # "result"
            /\ q[i].kind = "quit" => i = Len(q) /\ ses'.th = "ended" /\ ~ses'.due
      BY <2>2
    <2>4. Phases(desk, ses', worker, posted \o q)
      BY <1>4, <2>1, <2>2, <2>5, PostPhase DEF PhaseInv, ThreadConnects
    <2> QED
      BY <1>4, <2>3, <2>4 DEF PhaseInv, ThreadConnects
  <1>5. CASE ThreadEnds
    <2>1. PICK error \in BOOLEAN : ThreadQuits(error)
      BY <1>5 DEF ThreadEnds
    <2> QED
      BY <1>5, <2>1, QuitPhase DEF ThreadEnds
  <1> QED
    BY <1>3, <1>4, <1>5

(* The result of the worker finds its session; an event of a session that  *)
(* began leaves those behind it; the quit event, the last one, leaves none.*)
LEMMA HandlePhase ==
  ASSUME PhaseInv, HandlePosted
  PROVE  PhaseInv'
  <1> DEFINE event == Head(posted)
  <1>1. ses \in ClientSessions /\ desk \in Desks /\ posted \in Seq(Events) /\ worker \in Nat
    BY DEF PhaseInv, Phases, Typed
  <1>2. posted # <<>> /\ posted' = Tail(posted) /\ worker' = worker
    BY DEF HandlePosted
  <1>3. /\ Len(posted) \in Nat \ {0}
        /\ event = posted[1] /\ event \in Events
        /\ posted' \in Seq(Events) /\ Len(posted') = Len(posted) - 1
        /\ \A i \in 1 .. Len(posted') : posted'[i] = posted[i + 1]
    BY <1>1, <1>2, HeadTailProperties, EmptySeq
  <1>4. \/ HandleResult(event) /\ event.kind = "result"
        \/ HandleConnectedChanged(event) /\ event.kind = "changed"
        \/ HandleSessionQuit(event) /\ event.kind = "quit"
    BY DEF HandlePosted
  <1>5. HasResult(desk, ses, worker, posted) \/ Began(desk, ses, worker, posted)
    BY <1>2 DEF PhaseInv, Phases, NoSession, WaitsForConsole, ConnectsOverPsn
  <1>6. event.n = desk.session /\ desk.session # 0 /\ ~desk.wakeStart /\ worker = 0
    BY <1>3, <1>5 DEF HasResult, Began
  <1>7. ses.th = "new" => ~ses.due
    BY DEF PhaseInv, Phases
  <1>8. NoSes \in ClientSessions /\ NoSes.th = "new" /\ ~NoSes.due
    BY DEF NoSes, ClientSessions
  <1> HIDE DEF event
  <1>9. ASSUME NEW d, desk' = d, d \in Desks, d.session = 0, ~d.wakeStart, ses' = NoSes, posted' = <<>>
        PROVE  PhaseInv'
    <2>1. NoSession(desk', ses', worker', posted')
      BY <1>2, <1>6, <1>8, <1>9 DEF NoSession
    <2> QED
      BY <1>2, <1>3, <1>6, <1>8, <1>9, <2>1 DEF PhaseInv, Phases, Typed
  <1>10. [desk EXCEPT !.session = 0, !.discovery = TRUE] \in Desks
    BY <1>1 DEF Desks
  <1>11. CASE HandleResult(event) /\ event.kind = "result"
    <2>1. HasResult(desk, ses, worker, posted)
      BY <1>3, <1>5, <1>11 DEF Began
    <2>2. posted' = <<>>
      BY <1>3, <2>1, EmptySeq DEF HasResult
    <2>3. CASE event.ok
      <3>1. StartSession(desk, ses)
        BY <1>11, <2>3 DEF HandleResult
      <3> QED
        BY <1>1, <1>2, <1>6, <1>7, <2>1, <2>2, <3>1, StartPhase DEF HasResult
    <2>4. CASE ~event.ok
      <3>1. desk' = [desk EXCEPT !.session = 0, !.discovery = TRUE] /\ ses' = NoSes
        BY <1>6, <1>11, <2>4 DEF HandleResult
      <3>2. desk'.session = 0 /\ ~desk'.wakeStart
        BY <1>1, <1>6, <3>1 DEF Desks
      <3> QED
        BY <1>9, <1>10, <2>2, <3>1, <3>2
    <2> QED
      BY <2>3, <2>4
  <1>12. CASE HandleConnectedChanged(event) /\ event.kind = "changed"
    <2>1. Began(desk, ses, worker, posted)
      BY <1>3, <1>5, <1>12 DEF HasResult
    <2>2. /\ desk' \in Desks /\ desk'.session = desk.session /\ desk'.wakeStart = desk.wakeStart
          /\ ses' = ses
      BY <1>1, <1>12 DEF HandleConnectedChanged, Desks
    <2>3. ASSUME NEW i \in 1 .. Len(posted')
          PROVE  /\ posted'[i].n = desk.session /\ posted'[i].kind # "result"
                 /\ posted'[i].kind = "quit" => i = Len(posted') /\ ses.th = "ended" /\ ~ses.due
      <3>1. i + 1 \in 1 .. Len(posted) /\ posted'[i] = posted[i + 1]
        BY <1>3
      <3> QED
        BY <1>3, <2>1, <3>1 DEF Began
    <2>4. Began(desk', ses', worker', posted')
      BY <1>2, <2>1, <2>2, <2>3 DEF Began
    <2> QED
      BY <1>1, <1>2, <1>3, <1>7, <2>2, <2>4 DEF PhaseInv, Phases, Typed
  <1>13. CASE HandleSessionQuit(event) /\ event.kind = "quit"
    <2>1. Began(desk, ses, worker, posted)
      BY <1>3, <1>5, <1>13 DEF HasResult
    <2>2. Len(posted) = 1
      BY <1>3, <1>13, <2>1 DEF Began
    <2>3. posted' = <<>>
      BY <1>3, <2>2, EmptySeq
    <2>4. desk' = [desk EXCEPT !.session = 0, !.discovery = TRUE] /\ ses' = NoSes
      BY <1>6, <1>13 DEF HandleSessionQuit
    <2>5. desk'.session = 0 /\ ~desk'.wakeStart
      BY <1>1, <1>6, <2>4 DEF Desks
    <2> QED
      BY <1>9, <1>10, <2>3, <2>4, <2>5
  <1> QED
    BY <1>4, <1>11, <1>12, <1>13

(* The waiting session starts, or connectToHost is called. *)
LEMMA DiscoveryPhase ==
  ASSUME PhaseInv, UpdateDiscoveryHosts
  PROVE  PhaseInv'
  <1>1. ses \in ClientSessions /\ desk \in Desks
    BY DEF PhaseInv, Phases, Typed
  <1> DEFINE d == [desk EXCEPT !.wakeNick = "none", !.wakeStart = FALSE, !.wakeTimer = FALSE]
             e == [desk EXCEPT !.autoTimer = FALSE]
  <1>2. CASE desk.wakeStart /\ StartSession(d, ses) /\ UNCHANGED worker
    <2>1. WaitsForConsole(desk, ses, worker, posted) /\ ~ses.due
      BY <1>2 DEF PhaseInv, Phases, NoSession, ConnectsOverPsn, HasResult, Began, WaitsForConsole
    <2>2. d \in Desks /\ d.session = desk.session /\ ~d.wakeStart
      BY <1>1 DEF Desks, Names
    <2>3. posted' = posted
      BY DEF UpdateDiscoveryHosts
    <2> HIDE DEF d
    <2> QED
      BY <1>1, <1>2, <2>1, <2>2, <2>3, StartPhase DEF WaitsForConsole
  <1>3. CASE desk' = [desk EXCEPT !.wakeNick = desk.info] /\ UNCHANGED <<ses, worker>>
    <2>1. desk' \in Desks /\ desk'.session = desk.session /\ desk'.wakeStart = desk.wakeStart
      BY <1>1, <1>3 DEF Desks
    <2>2. posted' = posted
      BY DEF UpdateDiscoveryHosts
    <2>3. Phases(desk', ses, worker, posted)
      BY <1>1, <2>1, SamePhase DEF PhaseInv
    <2> QED
      BY <1>3, <2>2, <2>3 DEF PhaseInv
  <1>4. CASE ConnectToHost(e, desk.autoMac)
    <2>1. e \in Desks /\ e.session = desk.session /\ e.wakeStart = desk.wakeStart
      BY <1>1 DEF Desks
    <2>2. desk.autoMac \in Names /\ posted' = posted
      BY <1>1 DEF Desks, UpdateDiscoveryHosts
    <2> HIDE DEF e
    <2> QED
      BY <1>4, <2>1, <2>2, ConnectPhase
  <1> QED
    BY <1>2, <1>3, <1>4 DEF UpdateDiscoveryHosts

(* A session is deleted by stopAutoConnect only while it waits. *)
LEMMA ClosePhase ==
  ASSUME PhaseInv, ViewCloses
  PROVE  PhaseInv'
  <1>1. ses \in ClientSessions /\ desk \in Desks
    BY DEF PhaseInv, Phases, Typed
  <1>2. worker' = worker /\ posted' = posted
    BY DEF ViewCloses
  <1>3. CASE /\ ses' = ses /\ desk' \in Desks
             /\ desk'.session = desk.session /\ desk'.wakeStart = desk.wakeStart
    BY <1>1, <1>2, <1>3, SamePhase DEF PhaseInv
  <1>4. CASE desk.wakeStart /\ ses' = NoSes /\ desk' \in Desks /\ desk'.session = 0 /\ ~desk'.wakeStart
    <2>1. WaitsForConsole(desk, ses, worker, posted)
      BY <1>4 DEF PhaseInv, Phases, NoSession, ConnectsOverPsn, HasResult, Began
    <2>2. NoSes \in ClientSessions /\ NoSes.th = "new" /\ ~NoSes.due
      BY DEF NoSes, ClientSessions
    <2>3. NoSession(desk', ses', worker', posted')
      BY <1>2, <1>4, <2>1, <2>2 DEF NoSession, WaitsForConsole
    <2>4. posted' \in Seq(Events) /\ worker' \in Nat
      BY <1>2 DEF PhaseInv, Phases, Typed
    <2> QED
      BY <1>4, <2>2, <2>3, <2>4 DEF PhaseInv, Phases, Typed
  <1>5. CASE StopAutoConnect
    <2> DEFINE d == [desk EXCEPT !.autoMac = "none"]
               w == [d EXCEPT !.wakeTimer = FALSE, !.wakeNick = "none"]
               z == [w EXCEPT !.wakeStart = FALSE, !.session = 0]
    <2>1. d \in Desks /\ d.session = desk.session /\ d.wakeStart = desk.wakeStart
      BY <1>1 DEF Desks, Names
    <2>2. w \in Desks /\ w.session = desk.session /\ w.wakeStart = desk.wakeStart
      <3> HIDE DEF d
      <3> QED
        BY <2>1 DEF Desks, Names
    <2>3. z \in Desks /\ z.session = 0 /\ ~z.wakeStart
      <3> HIDE DEF w
      <3> QED
        BY <2>2 DEF Desks
    <2>4. \/ desk' = d /\ ses' = ses
          \/ desk' = w /\ ses' = ses
          \/ desk.wakeStart /\ desk' = z /\ ses' = NoSes
      BY <1>5 DEF StopAutoConnect
    <2> HIDE DEF d, w, z
    <2> QED
      BY <1>3, <1>4, <2>1, <2>2, <2>3, <2>4
  <1> QED
    BY <1>1, <1>3, <1>5 DEF ViewCloses

(* The worker leaves its result. *)
LEMMA WorkerPhase ==
  ASSUME PhaseInv, WorkerEnds
  PROVE  PhaseInv'
  <1>1. ConnectsOverPsn(desk, ses, worker, posted) /\ ~ses.due
    BY DEF PhaseInv, Phases, WorkerEnds, NoSession, WaitsForConsole, HasResult, Began, ConnectsOverPsn
  <1>2. PICK ok \in BOOLEAN : posted' = Append(posted, [kind |-> "result", n |-> worker, ok |-> ok])
    BY DEF WorkerEnds
  <1>3. ses \in ClientSessions /\ desk \in Desks /\ worker \in Nat
    BY DEF PhaseInv, Phases, Typed
  <1>4. posted' = <<[kind |-> "result", n |-> worker, ok |-> ok]>>
    BY <1>1, <1>2 DEF ConnectsOverPsn
  <1>5. [kind |-> "result", n |-> worker, ok |-> ok] \in Events
    BY <1>3 DEF Events
  <1>6. posted' \in Seq(Events) /\ Len(posted') = 1 /\ posted'[1].kind = "result" /\ posted'[1].n = worker
    BY <1>4, <1>5
  <1>7. HasResult(desk', ses', worker', posted')
    BY <1>1, <1>6 DEF HasResult, ConnectsOverPsn, WorkerEnds
  <1> QED
    BY <1>1, <1>3, <1>6, <1>7 DEF PhaseInv, Phases, Typed, WorkerEnds

(* Every step keeps the phases. *)
LEMMA StepPhase ==
  ASSUME PhaseInv, [DesktopNext]_desktopVars
  PROVE  PhaseInv'
  <1>1. ses \in ClientSessions /\ desk \in Desks /\ worker \in Nat /\ posted \in Seq(Events)
    BY DEF PhaseInv, Phases, Typed
  <1>2. ASSUME desk' \in Desks, ses' \in ClientSessions, UNCHANGED <<worker, posted>>,
               desk'.session = desk.session, desk'.wakeStart = desk.wakeStart,
               ses'.th = ses.th, ses'.due = ses.due
        PROVE  PhaseInv'
    <2>1. Phases(desk', ses', worker, posted)
      BY <1>2, SamePhase DEF PhaseInv
    <2> QED
      BY <1>2, <2>1 DEF PhaseInv
  <1>3. CASE UNCHANGED desktopVars
    BY <1>1, <1>2, <1>3 DEF desktopVars
  <1>4. CASE UserConnects
    <2>1. PICK host \in Hosts : ConnectToHost(desk, host)
      BY <1>4 DEF UserConnects
    <2> QED
      BY <1>1, <1>4, <2>1, ConnectPhase DEF UserConnects, Names
  <1>5. CASE AskedTokenComes
    <2>1. CASE CreateSession(desk, view, "psn")
      BY <1>1, <1>5, <2>1, CreatePhase DEF AskedTokenComes, Names, Hosts
    <2>2. CASE UNCHANGED <<desk, ses, view, worker>>
      BY <1>1, <1>2, <1>5, <2>2 DEF AskedTokenComes
    <2> QED
      BY <1>5, <2>1, <2>2 DEF AskedTokenComes
  <1>6. CASE UpdateDiscoveryHosts
    BY <1>6, DiscoveryPhase
  <1>7. CASE AutoTimerFires
    <2> DEFINE e == [desk EXCEPT !.autoTimer = FALSE]
    <2>1. e \in Desks /\ e.session = desk.session /\ e.wakeStart = desk.wakeStart
      BY <1>1 DEF Desks
    <2>2. ConnectToHost(e, "psn") \/ (desk' = e /\ UNCHANGED <<ses, worker>>)
      BY <1>7 DEF AutoTimerFires
    <2>3. posted' = posted /\ "psn" \in Names
      BY <1>7 DEF AutoTimerFires, Names, Hosts
    <2> HIDE DEF e
    <2>4. CASE ConnectToHost(e, "psn")
      BY <2>1, <2>3, <2>4, ConnectPhase
    <2>5. CASE desk' = e /\ UNCHANGED <<ses, worker>>
      BY <1>1, <1>2, <2>1, <2>3, <2>5
    <2> QED
      BY <2>2, <2>4, <2>5
  <1>8. CASE WakeupTimesOut
    BY <1>1, <1>2, <1>8 DEF WakeupTimesOut, Desks
  <1>9. CASE ViewMayClose \/ UserCancelsWait \/ UserCancelsPsn \/ ReconnectTimerFires \/ ConsoleTurnsOnOrOff
    BY <1>1, <1>2, <1>9 DEF ViewMayClose, UserCancelsWait, UserCancelsPsn, ReconnectTimerFires,
                            ConsoleTurnsOnOrOff
  <1>10. CASE ViewCloses
    BY <1>10, ClosePhase
  <1>11. CASE UserStops
    BY <1>1, <1>2, <1>11 DEF UserStops, ClientSessions
  <1>12. CASE GoToSleep
    <2>1. desk' \in Desks /\ desk'.session = desk.session /\ desk'.wakeStart = desk.wakeStart
      BY <1>1, <1>12 DEF GoToSleep, Desks
    <2>2. ses' \in ClientSessions /\ ses'.th = ses.th /\ ses'.due = ses.due
      BY <1>1, <1>12 DEF GoToSleep, ClientSessions
    <2> QED
      BY <1>2, <1>12, <2>1, <2>2 DEF GoToSleep
  <1>13. CASE ResumeFromSleep
    <2> DEFINE d == [desk EXCEPT !.resume = FALSE]
               r == [d EXCEPT !.reconnect = TRUE]
    <2>1. d \in Desks /\ d.session = desk.session /\ d.wakeStart = desk.wakeStart
      BY <1>1 DEF Desks
    <2>2. r \in Desks /\ r.session = desk.session /\ r.wakeStart = desk.wakeStart
      <3> HIDE DEF d
      <3> QED
        BY <2>1 DEF Desks
    <2>3. desk.info \in Names /\ posted' = posted
      BY <1>1, <1>13 DEF Desks, ResumeFromSleep
    <2>4. \/ UNCHANGED <<desk, ses, worker>>
          \/ CreateSession(d, view, desk.info)
          \/ desk' = r /\ UNCHANGED <<ses, worker>>
      BY <1>13 DEF ResumeFromSleep
    <2> HIDE DEF d, r
    <2>5. CASE CreateSession(d, view, desk.info)
      BY <2>1, <2>3, <2>5, CreatePhase
    <2>6. CASE UNCHANGED <<desk, ses, worker>>
      BY <1>1, <1>2, <2>3, <2>6
    <2>7. CASE desk' = r /\ UNCHANGED <<ses, worker>>
      BY <1>1, <1>2, <2>2, <2>3, <2>7
    <2> QED
      BY <2>4, <2>5, <2>6, <2>7
  <1>14. CASE ReconnectTokenComes
    <2> DEFINE e == [desk EXCEPT !.resume = FALSE, !.reconnect = FALSE, !.tries = 0]
               t == [desk EXCEPT !.tries = @ + 1]
    <2>1. e \in Desks /\ e.session = desk.session /\ e.wakeStart = desk.wakeStart
      BY <1>1 DEF Desks
    <2>2. t \in Desks /\ t.session = desk.session /\ t.wakeStart = desk.wakeStart
      BY <1>1 DEF Desks
    <2>3. desk.info \in Names /\ posted' = posted
      BY <1>1, <1>14 DEF Desks, ReconnectTokenComes
    <2>4. \/ CreateSession(e, view, desk.info)
          \/ desk' = e /\ UNCHANGED <<ses, worker>>
          \/ desk' = t /\ UNCHANGED <<ses, worker>>
      BY <1>14 DEF ReconnectTokenComes
    <2> HIDE DEF e, t
    <2>5. CASE CreateSession(e, view, desk.info)
      BY <2>1, <2>3, <2>5, CreatePhase
    <2>6. CASE desk' = e /\ UNCHANGED <<ses, worker>>
      BY <1>1, <1>2, <2>1, <2>3, <2>6
    <2>7. CASE desk' = t /\ UNCHANGED <<ses, worker>>
      BY <1>1, <1>2, <2>2, <2>3, <2>7
    <2> QED
      BY <2>4, <2>5, <2>6, <2>7
  <1>15. CASE WorkerEnds
    BY <1>15, WorkerPhase
  <1>16. CASE HandlePosted
    BY <1>16, HandlePhase
  <1>17. CASE ThreadBegins \/ ThreadConnects \/ ThreadEnds
    BY <1>17, ThreadPhase
  <1>18. CASE RestartIsDue
    <2>1. Began(desk, ses, worker, posted) /\ ses.th = "ended"
      BY <1>18 DEF RestartIsDue, PhaseInv, Phases, NoSession, WaitsForConsole, ConnectsOverPsn,
                   HasResult, Began
    <2> DEFINE t == [ses EXCEPT !.due = FALSE, !.th = "starting", !.restarts = @ + 1]
    <2>4. ses.restarts + 1 \in Nat
      BY <1>1 DEF ClientSessions
    <2>5. t \in ClientSessions /\ t.th = "starting" /\ ~t.due
      BY <1>1, <2>4 DEF ClientSessions
    <2>2. ses' \in ClientSessions /\ ses'.th = "starting" /\ ~ses'.due
      BY <1>18, <2>5 DEF RestartIsDue
    <2>3. Began(desk', ses', worker', posted')
      BY <1>18, <2>1, <2>2 DEF RestartIsDue, Began
    <2> QED
      BY <1>1, <1>18, <2>2, <2>3 DEF RestartIsDue, PhaseInv, Phases, Typed
  <1> QED
    BY <1>3, <1>4, <1>5, <1>6, <1>7, <1>8, <1>9, <1>10, <1>11, <1>12, <1>13, <1>14, <1>15, <1>16,
       <1>17, <1>18 DEF DesktopNext

(* A session that the worker connects stays until its result is handled    *)
(* (checkPsnConnection, which takes the result for that of the session     *)
(* there is), for any number of consoles, sessions and refreshed tokens.   *)
THEOREM ConnectingSessionStays == DesktopSpec => []ConnectingSessionIsKept
  <1>1. PhaseInv => ConnectingSessionIsKept
    <2> SUFFICES ASSUME PhaseInv PROVE ConnectingSessionIsKept
      OBVIOUS
    <2>1. worker # 0 => desk.session = worker /\ ses.th = "new"
      BY DEF PhaseInv, Phases, NoSession, WaitsForConsole, ConnectsOverPsn, HasResult, Began
    <2>2. ASSUME NEW i \in DOMAIN posted, posted[i].kind = "result"
          PROVE  desk.session = posted[i].n /\ ses.th = "new"
      <3>1. DOMAIN posted = 1 .. Len(posted)
        BY DEF PhaseInv, Phases, Typed
      <3>2. CASE posted = <<>>
        BY <2>2, <3>2
      <3>3. CASE HasResult(desk, ses, worker, posted)
        BY <2>2, <3>1, <3>3 DEF HasResult
      <3>4. CASE Began(desk, ses, worker, posted)
        BY <2>2, <3>1, <3>4 DEF Began
      <3> QED
        BY <3>2, <3>3, <3>4 DEF PhaseInv, Phases, NoSession, WaitsForConsole, ConnectsOverPsn
    <2> QED
      BY <2>1, <2>2 DEF ConnectingSessionIsKept
  <1> QED
    BY <1>1, InitPhase, StepPhase, PTL DEF DesktopSpec

-----------------------------------------------------------------------------
(***************************************************************************)
(* Hole punching: each hole is punched with its own offer.                 *)
(***************************************************************************)

(* The console's offer for the control hole, and its accept there.          *)
OldOffer == Notification("offer", 1)
OldAccept == Notification("accept", 1)

MainFields == {"pc", "asleep", "hole", "offer", "req", "used"}
WsFields == {"pc", "hand", "open"}
PsnFields == {"posted", "pushed", "repeated"}
HoleTyped ==
  /\ DOMAIN main = MainFields /\ main.hole \in {1, 2} /\ DOMAIN main.used = {1, 2}
  /\ DOMAIN ws = WsFields /\ DOMAIN psn = PsnFields
  /\ queue \in Seq(psn.pushed) /\ (ws.pc \in {"look", "enqueue"} => ws.hand \in psn.pushed)

(* PSN answers: an accept follows the offer it answers, the data hole's     *)
(* offer and our offer for it follow the accept of the control hole.        *)
Answers(p) ==
  /\ \A n \in p.pushed : n.kind = "accept" => OldOffer \in p.pushed /\ OldAccept \in p.pushed
  /\ \A n \in p.pushed : n.kind = "offer" =>
       n = OldOffer \/ (n = Notification("offer", 2) /\ OldAccept \in p.pushed)
  /\ \A n \in p.posted : n.kind = "offer" => OldOffer \in p.pushed /\ (n.no # 1 => OldAccept \in p.pushed)

(* No control offer comes after an accept in the queue.                     *)
Ordered(q, hand) ==
  /\ \A i, j \in 1 .. Len(q) : i < j /\ q[i].kind = "accept" => q[j] # OldOffer
  /\ \A i \in 1 .. Len(q) : q[i].kind = "accept" => hand # OldOffer
Old(q) == \E i \in 1 .. Len(q) : q[i] = OldOffer

(* Until the offer for the control hole is taken we offered nothing; from   *)
(* the accept for it on its offers are gone.                                *)
EarlyPCs == {"new", "wsWait", "createPost", "createWait", "createGot", "makeOffer", "start", "startWait",
             "startGot", "punch", "offerWait", "offerGot", "offerTaken"}
LatePCs == {"acceptTaken", "established", "holed", "streaming"}
Early(m, p) ==
  m.hole = 1 /\ m.pc \in EarlyPCs =>
    m.req = 1 /\ (\A n \in p.posted : n.kind \notin {"offer", "accept"}) /\ OldAccept \notin p.pushed
Late(m, q, hand, p) ==
  m.hole = 2 \/ m.pc \in LatePCs => OldAccept \in p.pushed /\ hand # OldOffer /\ ~Old(q)

(* What a step works on is in the queue.                                    *)
Has(q, kinds) == \E i \in 1 .. Len(q) : q[i].kind \in kinds
Awaited(pc, q) ==
  /\ pc = "createGot" => Has(q, Creating)
  /\ pc = "startGot" => Has(q, Starting)
  /\ pc \in {"offerGot", "ackGot", "acceptGot"} => Has(q, MessageKinds)
  /\ pc = "offerTaken" => Has(q, {"offer"})
  /\ pc = "deletedGot" => Has(q, {"deleted"})

HoleInv ==
  /\ HoleTyped /\ Answers(psn) /\ Ordered(queue, ws.hand) /\ Early(main, psn)
  /\ Late(main, queue, ws.hand, psn) /\ Awaited(main.pc, queue) /\ EachHoleHasItsOwnOffer

-----------------------------------------------------------------------------
(* Steps of the main thread: it goes to another pc, or fails.               *)
LEMMA Going ==
  ASSUME DOMAIN main = MainFields, NEW p, Goes(p)
  PROVE  /\ DOMAIN main' = MainFields /\ main'.pc = p
         /\ main'.hole = main.hole /\ main'.used = main.used /\ main'.req = main.req
  BY DEF MainFields, Goes

(* A step that fails leaves the holes and the requests as they are. *)
LEMMA Failing ==
  ASSUME DOMAIN main = MainFields, Fails
  PROVE  /\ DOMAIN main' = MainFields /\ main'.pc \in {"failed", "finiStop"}
         /\ main'.hole = main.hole /\ main'.used = main.used /\ main'.req = main.req
  BY DEF MainFields, Fails

(* A post leaves what PSN pushed. *)
LEMMA Posting ==
  ASSUME DOMAIN psn = PsnFields, NEW kind, NEW no, Posts(kind, no)
  PROVE  /\ DOMAIN psn' = PsnFields /\ psn'.pushed = psn.pushed
         /\ psn'.posted = psn.posted \union {Notification(kind, no)}
  BY DEF PsnFields, Posts

(* The first notification of some kinds is one of them.                     *)
LEMMA FirstIsThere ==
  ASSUME NEW S, queue \in Seq(S), NEW kinds, Has(queue, kinds)
  PROVE  /\ FirstOf(kinds) \in 1 .. Len(queue) /\ Found(kinds).kind \in kinds /\ Found(kinds) \in S
         /\ Found(kinds) = queue[FirstOf(kinds)]
         /\ \A j \in 1 .. Len(queue) : queue[j].kind \in kinds => FirstOf(kinds) <= j
  <1> DEFINE T == Positions(kinds)
  <1>1. Len(queue) \in Nat
    BY LenProperties
  <1>2. T \in SUBSET Nat /\ T # {}
    BY <1>1 DEF Has, Positions
  <1>3. \E i \in T : \A j \in T : i <= j
    BY <1>2, Numbers!SmallestNumber
  <1>4. FirstOf(kinds) \in T /\ \A j \in T : FirstOf(kinds) <= j
    BY <1>3 DEF FirstOf
  <1>5. FirstOf(kinds) \in 1 .. Len(queue) /\ queue[FirstOf(kinds)].kind \in kinds
    BY <1>4 DEF Positions
  <1>6. Found(kinds) = queue[FirstOf(kinds)] /\ queue[FirstOf(kinds)] \in S
    BY <1>5, ElementOfSeq DEF Found
  <1> QED
    BY <1>4, <1>5, <1>6 DEF Positions

(* What is cleared leaves the others in their order.                        *)
QueueKept(q) == q \in Seq(psn.pushed) /\ Ordered(q, ws.hand) /\ (Old(q) => Old(queue))

(* A queue with one notification cleared is one that was kept. *)
LEMMA ClearedKept ==
  ASSUME HoleTyped, Ordered(queue, ws.hand), NEW kinds, Has(queue, kinds)
  PROVE  QueueKept(Cleared(kinds))
  <1> DEFINE f == FirstOf(kinds)
             n == Len(queue) - 1
             from(i) == IF i < f THEN i ELSE i + 1
             q == [i \in 1 .. n |-> IF i < f THEN queue[i] ELSE queue[i + 1]]
  <1>1. queue \in Seq(psn.pushed) /\ Len(queue) \in Nat /\ \A i \in 1 .. Len(queue) : queue[i] \in psn.pushed
    BY LenProperties, ElementOfSeq DEF HoleTyped
  <1>2. f \in 1 .. Len(queue)
    BY <1>1, FirstIsThere
  <1> HIDE DEF f
  <1>3. n \in Nat /\ \A i \in 1 .. n : from(i) \in 1 .. Len(queue)
    BY <1>1, <1>2
  <1>4. \A i, j \in 1 .. n : i < j => from(i) < from(j)
    BY <1>1, <1>2
  <1>5. \A i \in 1 .. n : q[i] = queue[from(i)]
    OBVIOUS
  <1>6. q \in Seq(psn.pushed) /\ Len(q) = n
    <2>1. \A i \in 1 .. n : q[i] \in psn.pushed
      BY <1>1, <1>3, <1>5
    <2>2. q = [i \in 1 .. n |-> q[i]]
      OBVIOUS
    <2> HIDE DEF q, n
    <2> QED
      BY <1>3, <2>1, <2>2
  <1>7. Cleared(kinds) = q
    BY DEF Cleared, f
  <1> HIDE DEF q, n, from
  <1>8. Ordered(q, ws.hand) /\ (Old(q) => Old(queue))
    BY <1>3, <1>4, <1>5, <1>6 DEF Ordered, Old
  <1> QED
    BY <1>6, <1>7, <1>8 DEF QueueKept

(* Steps that leave the holes and what the other threads have.              *)
Quiet ==
  /\ DOMAIN main' = MainFields /\ main'.hole = main.hole /\ main'.used = main.used
  /\ main'.pc \in EarlyPCs => main.pc \in EarlyPCs /\ main'.req = main.req
  /\ main'.pc \in LatePCs => main.pc \in LatePCs
PsnKept ==
  /\ DOMAIN psn' = PsnFields /\ psn'.pushed = psn.pushed
  /\ \A n \in psn'.posted : n \in psn.posted \/ (n.kind # "offer" /\ (n.kind = "accept" => main.pc \notin EarlyPCs))

(* Such steps keep the invariant when what is awaited is there. *)
LEMMA QuietKeeps ==
  ASSUME HoleInv, Quiet, PsnKept, QueueKept(queue'), UNCHANGED ws, Awaited(main'.pc, queue')
  PROVE  HoleInv'
  <1>1. HoleTyped'
    BY DEF HoleInv, HoleTyped, Quiet, PsnKept, QueueKept
  <1>2. Answers(psn')
    BY DEF HoleInv, Answers, PsnKept
  <1>3. Ordered(queue', ws'.hand)
    BY DEF QueueKept
  <1>4. Early(main', psn')
    BY DEF HoleInv, Early, Quiet, PsnKept
  <1>5. Late(main', queue', ws'.hand, psn')
    BY DEF HoleInv, Late, Quiet, PsnKept, QueueKept
  <1>6. EachHoleHasItsOwnOffer'
    BY DEF HoleInv, EachHoleHasItsOwnOffer, Quiet
  <1> QED
    BY <1>1, <1>2, <1>3, <1>4, <1>5, <1>6 DEF HoleInv

(* An unchanged queue is kept. *)
LEMMA QueueStays == ASSUME HoleInv, UNCHANGED queue PROVE QueueKept(queue')
  BY DEF HoleInv, HoleTyped, QueueKept

(* An unchanged PSN is kept. *)
LEMMA PsnStays == ASSUME HoleInv, UNCHANGED psn PROVE PsnKept
  BY DEF HoleInv, HoleTyped, PsnKept

(* A step that goes to another pc, which is a late one only from a late one. *)
LEMMA GoingKeeps ==
  ASSUME HoleInv, NEW p, Goes(p), p \in EarlyPCs => main.pc \in EarlyPCs, p \in LatePCs => main.pc \in LatePCs,
         PsnKept, QueueKept(queue'), UNCHANGED ws, Awaited(p, queue')
  PROVE  HoleInv'
  <1>1. DOMAIN main = MainFields
    BY DEF HoleInv, HoleTyped
  <1>2. Quiet /\ main'.pc = p
    BY <1>1, Going DEF Quiet
  <1> QED
    BY <1>2, QuietKeeps

(* A step that fails goes to a place where nothing is awaited. *)
LEMMA FailingKeeps ==
  ASSUME HoleInv, Fails, PsnKept, QueueKept(queue'), UNCHANGED ws
  PROVE  HoleInv'
  <1>1. DOMAIN main = MainFields
    BY DEF HoleInv, HoleTyped
  <1>2. Quiet /\ main'.pc \in {"failed", "finiStop"}
    BY <1>1, Failing DEF Quiet, EarlyPCs, LatePCs
  <1>3. Awaited(main'.pc, queue')
    BY <1>2 DEF Awaited
  <1> QED
    BY <1>2, <1>3, QuietKeeps
-----------------------------------------------------------------------------
(* A wait finds what it asks for, sleeps, or fails.                         *)
LEMMA WaitKeeps ==
  ASSUME HoleInv, NEW here, NEW kinds, NEW found, WaitsFor(here, kinds, found),
         found \in EarlyPCs => here \in EarlyPCs, found \notin LatePCs,
         \A q : Awaited(here, q), \A q : Has(q, kinds) => Awaited(found, q)
  PROVE  HoleInv'
  <1>1. UNCHANGED <<queue, ws, psn>> /\ main.pc = here /\ PsnKept /\ QueueKept(queue')
    BY QueueStays, PsnStays DEF WaitsFor, StepIs
  <1>2. CASE Positions(kinds) # {} /\ Goes(found)
    <2>1. Awaited(found, queue')
      BY <1>1, <1>2 DEF Positions, Has
    <2> QED
      BY <1>1, <1>2, <2>1, GoingKeeps
  <1>3. CASE main' = [main EXCEPT !.asleep = TRUE]
    <2>1. DOMAIN main = MainFields
      BY DEF HoleInv, HoleTyped
    <2>2. DOMAIN main' = MainFields /\ main'.pc = main.pc /\ main'.hole = main.hole
          /\ main'.used = main.used /\ main'.req = main.req
      BY <1>3, <2>1 DEF MainFields
    <2>3. Quiet /\ Awaited(main'.pc, queue')
      BY <1>1, <2>2 DEF Quiet
    <2> QED
      BY <1>1, <2>3, QuietKeeps
  <1>4. CASE Fails
    BY <1>1, <1>4, FailingKeeps
  <1> QED
    BY <1>2, <1>3, <1>4 DEF WaitsFor, Canceled

(* A message that was found is cleared, taken, or ends the step.            *)
LEMMA MessageKeeps ==
  ASSUME HoleInv, NEW here, NEW wait, NEW wanted, NEW taken, MessageGot(here, wait, wanted, taken),
         here \in {"offerGot", "ackGot", "acceptGot"},
         wait \in EarlyPCs => here \in EarlyPCs, wait \notin LatePCs, \A q : Awaited(wait, q),
         taken \in EarlyPCs => here \in EarlyPCs, taken \notin LatePCs,
         Has(queue, {wanted}) => Awaited(taken, queue)
  PROVE  HoleInv'
  <1>1. UNCHANGED <<ws, psn>> /\ main.pc = here /\ PsnKept
    BY PsnStays DEF MessageGot, StepIs
  <1>2. HoleTyped /\ queue \in Seq(psn.pushed) /\ Ordered(queue, ws.hand) /\ Has(queue, MessageKinds)
    BY <1>1 DEF HoleInv, HoleTyped, Awaited
  <1>3. CASE Fails /\ UNCHANGED queue
    BY <1>1, <1>3, FailingKeeps, QueueStays
  <1>4. CASE queue' = Cleared(MessageKinds) /\ Goes(wait)
    BY <1>1, <1>2, <1>4, ClearedKept, GoingKeeps
  <1>5. CASE Found(MessageKinds).kind = wanted /\ Goes(taken) /\ UNCHANGED queue
    <2>1. Has(queue, {wanted})
      BY <1>2, <1>5, FirstIsThere DEF Has
    <2> QED
      BY <1>1, <1>5, <2>1, GoingKeeps, QueueStays
  <1> QED
    BY <1>3, <1>4, <1>5 DEF MessageGot, Canceled

(* The accept of the control hole is there: its offers are gone.            *)
LEMMA AcceptKeeps ==
  ASSUME HoleInv, MessageGot("acceptGot", "acceptWait", "accept", "acceptTaken")
  PROVE  HoleInv'
  <1>1. UNCHANGED <<ws, psn>> /\ main.pc = "acceptGot" /\ PsnKept
    BY PsnStays DEF MessageGot, StepIs
  <1>2. HoleTyped /\ queue \in Seq(psn.pushed) /\ Ordered(queue, ws.hand) /\ Has(queue, MessageKinds)
        /\ DOMAIN main = MainFields /\ Len(queue) \in Nat
    BY <1>1, LenProperties DEF HoleInv, HoleTyped, Awaited
  <1>3. CASE Fails /\ UNCHANGED queue
    BY <1>1, <1>3, FailingKeeps, QueueStays
  <1>4. CASE queue' = Cleared(MessageKinds) /\ Goes("acceptWait")
    <2>1. Awaited("acceptWait", queue')
      BY DEF Awaited
    <2> QED
      BY <1>1, <1>2, <1>4, <2>1, ClearedKept, GoingKeeps DEF EarlyPCs, LatePCs
  <1>5. CASE Found(MessageKinds).kind = "accept" /\ Goes("acceptTaken") /\ UNCHANGED queue
    <2> DEFINE f == FirstOf(MessageKinds)
    <2>1. /\ f \in 1 .. Len(queue) /\ queue[f].kind = "accept" /\ queue[f] \in psn.pushed
          /\ \A j \in 1 .. Len(queue) : queue[j].kind \in MessageKinds => f <= j
      BY <1>2, <1>5, FirstIsThere
    <2> HIDE DEF f
    <2>2. OldAccept \in psn.pushed /\ ws.hand # OldOffer
      BY <1>2, <2>1 DEF HoleInv, Answers, Ordered
    <2>3. OldOffer.kind = "offer" /\ "offer" \in MessageKinds
      BY DEF OldOffer, Notification, MessageKinds
    <2>4. ASSUME NEW j \in 1 .. Len(queue), queue[j] = OldOffer PROVE FALSE
      <3>1. f <= j /\ f # j
        BY <2>1, <2>3, <2>4
      <3>2. f < j
        BY <1>2, <2>1, <3>1
      <3> QED
        BY <1>2, <2>1, <2>4, <3>2 DEF Ordered
    <2>5. ~Old(queue)
      BY <2>4 DEF Old
    <2>6. main'.pc = "acceptTaken" /\ DOMAIN main' = MainFields
          /\ main'.hole = main.hole /\ main'.used = main.used /\ main'.req = main.req
      BY <1>2, <1>5, Going
    <2>7. Late(main', queue', ws'.hand, psn')
      BY <1>1, <1>5, <2>2, <2>5 DEF Late
    <2>8. Early(main', psn') /\ Awaited(main'.pc, queue')
      BY <2>6 DEF Early, EarlyPCs, Awaited
    <2> QED
      BY <1>1, <1>5, <2>6, <2>7, <2>8 DEF HoleInv, HoleTyped, EachHoleHasItsOwnOffer
  <1> QED
    BY <1>3, <1>4, <1>5 DEF MessageGot, Canceled

(* create: nothing here is about the holes.                                 *)
LEMMA CreateKeeps ==
  ASSUME HoleInv, CreatesWsThread \/ SeesWsOpen \/ PostsCreate \/ CreateGot
  PROVE  HoleInv'
  <1>1. DOMAIN psn = PsnFields /\ HoleTyped /\ Ordered(queue, ws.hand)
    BY DEF HoleInv, HoleTyped
  <1>2. \A p \in {"wsWait", "createPost", "createWait", "makeOffer"} : \A q : p \in EarlyPCs /\ p \notin LatePCs /\ Awaited(p, q)
    BY DEF EarlyPCs, LatePCs, Awaited
  <1>3. \A p \in {"new", "wsWait", "createPost", "createGot"} : p \in EarlyPCs
    BY DEF EarlyPCs
  <1>4. CASE CreatesWsThread
    <2>1. UNCHANGED <<queue, psn>> /\ main.pc = "new" /\ PsnKept /\ QueueKept(queue')
      BY <1>4, QueueStays, PsnStays DEF CreatesWsThread, StepIs
    <2>2. CASE Fails /\ UNCHANGED ws
      BY <2>1, <2>2, FailingKeeps
    <2>3. CASE Goes("wsWait") /\ ws' = [ws EXCEPT !.pc = "connecting"]
      <3>1. DOMAIN ws' = WsFields /\ ws'.hand = ws.hand /\ ws'.pc = "connecting"
        BY <2>3 DEF HoleInv, HoleTyped, WsFields
      <3>2. DOMAIN main' = MainFields /\ main'.pc = "wsWait"
            /\ main'.hole = main.hole /\ main'.used = main.used /\ main'.req = main.req
        BY <2>3, Going DEF HoleInv, HoleTyped
      <3>3. Early(main', psn') /\ Late(main', queue', ws'.hand, psn') /\ Awaited(main'.pc, queue')
        BY <1>2, <1>3, <2>1, <3>1, <3>2 DEF HoleInv, Early, Late
      <3> QED
        BY <2>1, <3>1, <3>2, <3>3 DEF HoleInv, HoleTyped, EachHoleHasItsOwnOffer
    <2> QED
      BY <1>4, <2>2, <2>3 DEF CreatesWsThread, Canceled
  <1>5. CASE SeesWsOpen
    <2>1. UNCHANGED <<queue, ws, psn>> /\ main.pc = "wsWait" /\ PsnKept /\ QueueKept(queue')
      BY <1>5, QueueStays, PsnStays DEF SeesWsOpen, StepIs
    <2>2. Fails \/ Goes("createPost")
      BY <1>5 DEF SeesWsOpen, Canceled
    <2> QED
      BY <1>2, <1>3, <2>1, <2>2, FailingKeeps, GoingKeeps
  <1>6. CASE PostsCreate
    <2>1. UNCHANGED <<queue, ws>> /\ main.pc = "createPost" /\ QueueKept(queue')
      BY <1>6, QueueStays DEF PostsCreate, StepIs
    <2>2. PsnKept
      <3>1. CASE UNCHANGED psn
        BY <3>1, PsnStays
      <3>2. CASE Posts("created", 0)
        BY <1>1, <3>2, Posting DEF PsnKept, Notification
      <3> QED
        BY <1>6, <3>1, <3>2 DEF PostsCreate
    <2>3. Fails \/ Goes("createWait")
      BY <1>6 DEF PostsCreate, Canceled
    <2> QED
      BY <1>2, <1>3, <2>1, <2>2, <2>3, FailingKeeps, GoingKeeps
  <1>7. CASE CreateGot
    <2>1. UNCHANGED <<ws, psn>> /\ main.pc = "createGot" /\ PsnKept
      BY <1>7, PsnStays DEF CreateGot, StepIs
    <2>2. Has(queue, Creating)
      BY <2>1 DEF HoleInv, Awaited
    <2>3. QueueKept(queue')
      BY <1>1, <1>7, <2>2, QueueStays, ClearedKept DEF CreateGot
    <2>4. Fails \/ Goes("makeOffer") \/ Goes("createWait")
      BY <1>7 DEF CreateGot, Canceled
    <2> QED
      BY <1>2, <1>3, <2>1, <2>3, <2>4, FailingKeeps, GoingKeeps
  <1> QED
    BY <1>4, <1>5, <1>6, <1>7

(* start, and the beginning of punch_hole.                                  *)
LEMMA StartKeeps ==
  ASSUME HoleInv, PostsStart \/ StartGot \/ Punches
  PROVE  HoleInv'
  <1>1. DOMAIN psn = PsnFields /\ HoleTyped /\ Ordered(queue, ws.hand)
    BY DEF HoleInv, HoleTyped
  <1>2. \A p \in {"startWait", "punch", "offerWait"} : \A q : p \in EarlyPCs /\ p \notin LatePCs /\ Awaited(p, q)
    BY DEF EarlyPCs, LatePCs, Awaited
  <1>3. \A p \in {"start", "startGot", "punch"} : p \in EarlyPCs
    BY DEF EarlyPCs
  <1>4. CASE PostsStart
    <2>1. UNCHANGED <<queue, ws>> /\ main.pc = "start" /\ QueueKept(queue')
      BY <1>4, QueueStays DEF PostsStart, StepIs
    <2>2. PsnKept
      <3>1. CASE UNCHANGED psn
        BY <3>1, PsnStays
      <3>2. CASE Posts("member", 2)
        BY <1>1, <3>2, Posting DEF PsnKept, Notification
      <3> QED
        BY <1>4, <3>1, <3>2 DEF PostsStart
    <2>3. Fails \/ Goes("startWait")
      BY <1>4 DEF PostsStart, Canceled
    <2> QED
      BY <1>2, <1>3, <2>1, <2>2, <2>3, FailingKeeps, GoingKeeps
  <1>5. CASE StartGot
    <2>1. UNCHANGED <<ws, psn>> /\ main.pc = "startGot" /\ PsnKept
      BY <1>5, PsnStays DEF StartGot, StepIs
    <2>2. Has(queue, Starting)
      BY <2>1 DEF HoleInv, Awaited
    <2>3. QueueKept(queue')
      BY <1>1, <1>5, <2>2, QueueStays, ClearedKept DEF StartGot
    <2>4. Fails \/ Goes("punch") \/ Goes("startWait")
      BY <1>5 DEF StartGot, Canceled
    <2> QED
      BY <1>2, <1>3, <2>1, <2>3, <2>4, FailingKeeps, GoingKeeps
  <1>6. CASE Punches
    <2>1. UNCHANGED <<queue, ws, psn>> /\ main.pc = "punch" /\ PsnKept /\ QueueKept(queue')
      BY <1>6, QueueStays, PsnStays DEF Punches, StepIs
    <2>2. Fails \/ Goes("offerWait")
      BY <1>6 DEF Punches
    <2> QED
      BY <1>2, <1>3, <2>1, <2>2, FailingKeeps, GoingKeeps
  <1> QED
    BY <1>4, <1>5, <1>6

(* Our offer is made; the session needs the data hole.                      *)
LEMMA OfferKeeps ==
  ASSUME HoleInv, MakesOffer \/ NeedsData
  PROVE  HoleInv'
  <1>1. DOMAIN main = MainFields /\ UNCHANGED <<queue, ws, psn>>
    BY DEF HoleInv, HoleTyped, MakesOffer, NeedsData
  <1>2. CASE MakesOffer
    <2>1. /\ DOMAIN main' = MainFields /\ main'.pc \in {"start", "punch", "failed"} /\ main.pc = "makeOffer"
          /\ main'.hole = main.hole /\ main'.used = main.used /\ main'.req = main.req
      BY <1>1, <1>2 DEF MakesOffer, StepIs, MainFields
    <2>2. Quiet /\ Awaited(main'.pc, queue')
      BY <2>1 DEF Quiet, Awaited, EarlyPCs, LatePCs
    <2> QED
      BY <1>1, <2>2, QuietKeeps, QueueStays, PsnStays
  <1>3. CASE NeedsData
    <2>1. /\ DOMAIN main' = MainFields /\ main'.pc = "makeOffer" /\ main.pc = "holed"
          /\ main'.hole = 2 /\ main'.used = main.used
      BY <1>1, <1>3 DEF NeedsData, StepIs, MainFields
    <2>2. Late(main', queue', ws'.hand, psn')
      BY <1>1, <2>1 DEF HoleInv, Late, LatePCs
    <2>3. Early(main', psn') /\ Awaited(main'.pc, queue')
      BY <2>1 DEF Early, Awaited
    <2> QED
      BY <1>1, <2>1, <2>2, <2>3 DEF HoleInv, HoleTyped, EachHoleHasItsOwnOffer
  <1> QED
    BY <1>2, <1>3

(* The offer that is taken is the one for the hole.                         *)
LEMMA TakesKeeps ==
  ASSUME HoleInv, TakesOffer
  PROVE  HoleInv'
  <1>1. /\ DOMAIN main = MainFields /\ DOMAIN psn = PsnFields /\ main.pc = "offerTaken" /\ UNCHANGED <<queue, ws>>
        /\ queue \in Seq(psn.pushed) /\ main.hole \in {1, 2} /\ DOMAIN main.used = {1, 2} /\ Len(queue) \in Nat
    BY LenProperties DEF HoleInv, HoleTyped, TakesOffer, StepIs
  <1>2. CASE Fails /\ UNCHANGED psn
    BY <1>1, <1>2, FailingKeeps, QueueStays, PsnStays
  <1>3. CASE /\ main' = [main EXCEPT !.pc = IF main.offer THEN "ackWait" ELSE "crashed", !.req = @ + 1,
                                     !.used = [main.used EXCEPT ![main.hole] = Found({"offer"}).no]]
             /\ UNCHANGED psn \/ Posts("offer", main.req)
    <2> DEFINE n == Found({"offer"})
    <2>1. n \in psn.pushed /\ n.kind = "offer" /\ \E i \in 1 .. Len(queue) : queue[i] = n
      <3>1. Has(queue, {"offer"})
        BY <1>1 DEF HoleInv, Awaited
      <3> QED
        BY <1>1, <3>1, FirstIsThere
    <2>2. OldOffer \in psn.pushed /\ (main.hole = 2 => OldAccept \in psn.pushed)
      <3>1. OldAccept.kind = "accept"
        BY DEF OldAccept, Notification
      <3>2. main.hole = 2 => OldAccept \in psn.pushed
        BY DEF HoleInv, Late
      <3> HIDE DEF n
      <3> QED
        BY <2>1, <3>1, <3>2 DEF HoleInv, Answers
    <2>3. n.no = main.hole
      <3>1. n = OldOffer \/ (n = Notification("offer", 2) /\ OldAccept \in psn.pushed)
        BY <2>1 DEF HoleInv, Answers
      <3>2. main.hole = 1 => OldAccept \notin psn.pushed
        BY <1>1 DEF HoleInv, Early, EarlyPCs
      <3>3. main.hole = 2 => n # OldOffer
        BY <2>1 DEF HoleInv, Late, Old
      <3>4. OldOffer.no = 1 /\ Notification("offer", 2).no = 2
        BY DEF OldOffer, Notification
      <3> HIDE DEF n
      <3> QED
        BY <1>1, <3>1, <3>2, <3>3, <3>4
    <2> HIDE DEF n
    <2> DEFINE u == [main.used EXCEPT ![main.hole] = n.no]
    <2>4. DOMAIN u = {1, 2} /\ \A h \in {1, 2} : u[h] = IF h = main.hole THEN n.no ELSE main.used[h]
      BY <1>1
    <2>5. main' = [main EXCEPT !.pc = IF main.offer THEN "ackWait" ELSE "crashed", !.req = @ + 1, !.used = u]
      BY <1>3 DEF n
    <2> HIDE DEF u
    <2>6. DOMAIN main' = MainFields /\ main'.pc \in {"ackWait", "crashed"} /\ main'.hole = main.hole /\ main'.used = u
      BY <1>1, <2>5 DEF MainFields
    <2>7. DOMAIN psn' = PsnFields /\ psn'.pushed = psn.pushed
          /\ (psn'.posted = psn.posted \/ psn'.posted = psn.posted \union {Notification("offer", main.req)})
      BY <1>1, <1>3, Posting
    <2>8. Answers(psn')
      <3>1. Notification("offer", main.req).no # 1 => OldAccept \in psn.pushed
        <4>1. main.hole = 1 => main.req = 1
          BY <1>1 DEF HoleInv, Early, EarlyPCs
        <4> QED
          BY <1>1, <2>2, <4>1 DEF Notification
      <3> QED
        BY <2>2, <2>7, <3>1 DEF HoleInv, Answers
    <2>9. Early(main', psn') /\ Awaited(main'.pc, queue')
      BY <2>6 DEF Early, EarlyPCs, Awaited
    <2>10. Late(main', queue', ws'.hand, psn')
      BY <1>1, <2>6, <2>7 DEF HoleInv, Late, LatePCs
    <2>11. \A h \in {1, 2} : u[h] \in {0, h}
      BY <2>3, <2>4 DEF HoleInv, EachHoleHasItsOwnOffer
    <2> QED
      BY <1>1, <2>4, <2>6, <2>7, <2>8, <2>9, <2>10, <2>11 DEF HoleInv, HoleTyped, EachHoleHasItsOwnOffer
  <1> QED
    BY <1>2, <1>3 DEF TakesOffer, Canceled
(* The answers of the console, and the end of a hole.                       *)
LEMMA PunchKeeps ==
  ASSUME HoleInv, TakesAck \/ AcceptsCandidate \/ TakesAccept \/ Finishes
  PROVE  HoleInv'
  <1>1. DOMAIN main = MainFields /\ DOMAIN psn = PsnFields /\ UNCHANGED <<queue, ws>> /\ QueueKept(queue')
    BY QueueStays DEF HoleInv, HoleTyped, TakesAck, AcceptsCandidate, TakesAccept, Finishes
  <1>2. \A p \in {"candidates", "ackWait", "established", "acceptWait", "holed", "streaming"} : \A q :
          p \notin EarlyPCs /\ Awaited(p, q)
    BY DEF EarlyPCs, Awaited
  <1>3. "candidates" \notin LatePCs /\ "ackWait" \notin LatePCs /\ "acceptTaken" \in LatePCs
    BY DEF LatePCs
  <1>4. CASE TakesAck
    <2>1. UNCHANGED psn /\ (Fails \/ Goes("candidates") \/ Goes("ackWait"))
      BY <1>4 DEF TakesAck, Canceled
    <2> QED
      BY <1>1, <1>2, <1>3, <2>1, FailingKeeps, GoingKeeps, PsnStays
  <1>5. CASE AcceptsCandidate
    <2>1. main.pc = "candidates"
      BY <1>5 DEF AcceptsCandidate, StepIs
    <2>2. PsnKept
      <3>1. CASE UNCHANGED psn
        BY <3>1, PsnStays
      <3>2. CASE Posts("accept", main.req)
        <4>1. main.pc \notin EarlyPCs
          BY <1>2, <2>1
        <4> QED
          BY <1>1, <3>2, <4>1, Posting DEF PsnKept, Notification
      <3> QED
        BY <1>5, <3>1, <3>2 DEF AcceptsCandidate
    <2>3. CASE Fails
      BY <1>1, <2>2, <2>3, FailingKeeps
    <2>4. CASE main' = [main EXCEPT !.pc = "acceptWait", !.req = @ + 1]
      <3>1. /\ DOMAIN main' = MainFields /\ main'.pc = "acceptWait"
            /\ main'.hole = main.hole /\ main'.used = main.used
        BY <1>1, <2>4 DEF MainFields
      <3>2. Quiet /\ Awaited(main'.pc, queue')
        BY <3>1 DEF Quiet, Awaited, EarlyPCs, LatePCs
      <3> QED
        BY <1>1, <2>2, <3>2, QuietKeeps
    <2> QED
      BY <1>5, <2>3, <2>4 DEF AcceptsCandidate, Canceled
  <1>6. CASE TakesAccept
    <2>1. main.pc = "acceptTaken" /\ UNCHANGED psn /\ (Fails \/ Goes("established"))
      BY <1>6 DEF TakesAccept, Canceled, StepIs
    <2> QED
      BY <1>1, <1>2, <1>3, <2>1, FailingKeeps, GoingKeeps, PsnStays
  <1>7. CASE Finishes
    <2>1. main.pc = "established" /\ UNCHANGED psn
      BY <1>7 DEF Finishes, StepIs
    <2>2. CASE Fails
      BY <1>1, <2>1, <2>2, FailingKeeps, PsnStays
    <2>3. CASE main' = [main EXCEPT !.pc = IF main.hole = 1 THEN "holed" ELSE "streaming", !.offer = FALSE]
      <3>1. /\ DOMAIN main' = MainFields /\ main'.pc \in {"holed", "streaming"}
            /\ main'.hole = main.hole /\ main'.used = main.used
        BY <1>1, <2>3 DEF MainFields
      <3>2. Quiet /\ Awaited(main'.pc, queue')
        BY <2>1, <3>1 DEF Quiet, Awaited, EarlyPCs, LatePCs
      <3> QED
        BY <1>1, <2>1, <3>2, QuietKeeps, PsnStays
    <2> QED
      BY <1>7, <2>2, <2>3 DEF Finishes, Canceled
  <1> QED
    BY <1>4, <1>5, <1>6, <1>7

(* fini.                                                                    *)
LEMMA FiniKeeps ==
  ASSUME HoleInv, Finis \/ DeletedGot \/ StopsWsThread \/ JoinsWsThread
  PROVE  HoleInv'
  <1>1. DOMAIN psn = PsnFields /\ HoleTyped /\ Ordered(queue, ws.hand) /\ UNCHANGED ws
    BY DEF HoleInv, HoleTyped, Finis, DeletedGot, StopsWsThread, JoinsWsThread
  <1>2. \A p \in {"deleteWait", "finished", "finiStop", "join"} : \A q :
          p \notin EarlyPCs /\ p \notin LatePCs /\ Awaited(p, q)
    BY DEF EarlyPCs, LatePCs, Awaited
  <1>3. \E p \in {"deleteWait", "finished", "finiStop", "join"} : Goes(p)
    BY DEF Finis, DeletedGot, StopsWsThread, JoinsWsThread
  <1>4. PsnKept
    <2>1. CASE UNCHANGED psn
      BY <2>1, PsnStays
    <2>2. CASE Posts("deleted", 0)
      BY <1>1, <2>2, Posting DEF PsnKept, Notification
    <2> QED
      BY <2>1, <2>2 DEF Finis, DeletedGot, StopsWsThread, JoinsWsThread
  <1>5. QueueKept(queue')
    <2>1. CASE UNCHANGED queue
      BY <2>1, QueueStays
    <2>2. CASE DeletedGot
      <3>1. Has(queue, {"deleted"}) /\ queue' = Cleared({"deleted"})
        BY <2>2 DEF DeletedGot, StepIs, HoleInv, Awaited
      <3> QED
        BY <1>1, <3>1, ClearedKept
    <2> QED
      BY <2>1, <2>2 DEF Finis, StopsWsThread, JoinsWsThread
  <1> QED
    BY <1>1, <1>2, <1>3, <1>4, <1>5, GoingKeeps

-----------------------------------------------------------------------------
(* The websocket thread.                                                    *)

(* PSN notifies in its order.                                               *)
LEMMA ReceivesKeeps ==
  ASSUME HoleInv, NEW n \in Notifications, WsReceives(n)
  PROVE  HoleInv'
  <1>1. /\ UNCHANGED <<main, queue>> /\ ws' = [ws EXCEPT !.pc = "look", !.hand = n] /\ MayPush(n)
        /\ \/ psn' = [psn EXCEPT !.pushed = @ \union {n}] /\ n \notin psn.pushed
           \/ psn' = [psn EXCEPT !.repeated = TRUE] /\ n = OldOffer /\ n \in psn.pushed /\ OldAccept \notin psn.pushed
    BY DEF WsReceives, OldOffer, OldAccept
  <1>2. DOMAIN ws = WsFields /\ DOMAIN psn = PsnFields /\ queue \in Seq(psn.pushed) /\ Len(queue) \in Nat
        /\ \A i \in 1 .. Len(queue) : queue[i] \in psn.pushed
    BY LenProperties, ElementOfSeq DEF HoleInv, HoleTyped
  <1>3. DOMAIN ws' = WsFields /\ ws'.hand = n
    BY <1>1, <1>2 DEF WsFields
  <1>4. DOMAIN psn' = PsnFields /\ psn'.posted = psn.posted /\ psn'.pushed = psn.pushed \union {n}
    BY <1>1, <1>2 DEF PsnFields
  <1>5. queue \in Seq(psn'.pushed)
    <2>1. psn.pushed \subseteq psn'.pushed
      BY <1>4
    <2> QED
      BY <1>2, <2>1, SeqMonotonic
  <1>6. n = OldOffer => \A m \in psn.pushed : m.kind # "accept"
    BY <1>1 DEF HoleInv, Answers
  <1>7. OldAccept.kind = "accept" /\ OldOffer.kind = "offer" /\ OldOffer.no = 1
    BY DEF OldAccept, OldOffer, Notification
  <1>8. /\ n.kind = "accept" => (n = OldAccept /\ OldOffer \in psn.pushed) \/ (OldAccept \in psn.pushed /\ OldOffer \in psn.pushed)
        /\ n.kind = "offer" => n = OldOffer \/ (n = Notification("offer", 2) /\ OldAccept \in psn.pushed)
    <2>1. /\ n.kind = "accept" => \/ n = OldAccept /\ OldOffer \in psn.posted
                                  \/ Notification("offer", 3) \in psn.posted
          /\ n.kind = "offer" => n = OldOffer \/ (n = Notification("offer", 2) /\ OldAccept \in psn.pushed)
      BY <1>1 DEF MayPush, Notification, OldAccept, OldOffer, Nothing
    <2>2. Notification("offer", 3).kind = "offer" /\ Notification("offer", 3).no = 3
      BY DEF Notification
    <2> QED
      BY <1>7, <2>1, <2>2 DEF HoleInv, Answers
  <1>9. Answers(psn')
    BY <1>4, <1>7, <1>8 DEF HoleInv, Answers
  <1>10. Ordered(queue, n)
    BY <1>2, <1>6 DEF HoleInv, Ordered
  <1>11. Early(main, psn')
    <2>1. ASSUME main.hole = 1, main.pc \in EarlyPCs PROVE n # OldAccept
      <3>1. \A m \in psn.posted : m.kind \notin {"offer", "accept"}
        BY <2>1 DEF HoleInv, Early
      <3>2. OldOffer \notin psn.posted
        BY <1>7, <3>1
      <3>3. n = OldAccept => OldOffer \in psn.posted
        BY <1>1 DEF MayPush, Notification, OldAccept, OldOffer, Nothing
      <3> QED
        BY <3>2, <3>3
    <2> QED
      BY <1>4, <2>1 DEF HoleInv, Early
  <1>12. Late(main, queue, n, psn')
    <2>1. OldAccept \in psn.pushed => n # OldOffer
      BY <1>6, <1>7
    <2> QED
      BY <1>4, <2>1 DEF HoleInv, Late
  <1> QED
    BY <1>1, <1>3, <1>4, <1>5, <1>9, <1>10, <1>11, <1>12 DEF HoleInv, HoleTyped, EachHoleHasItsOwnOffer

(* What a notification in hand is put behind.                               *)
LEMMA EnqueuesKeeps ==
  ASSUME HoleInv, WsEnqueues
  PROVE  HoleInv'
  <1> DEFINE h == ws.hand
             q == Append(queue, h)
  <1>1. UNCHANGED <<main, psn>> /\ queue' = q /\ ws.pc = "enqueue"
        /\ (ws' = [ws EXCEPT !.pc = "loop", !.hand = Nothing] \/ ws' = [pc |-> "ended", hand |-> Nothing, open |-> FALSE])
    BY DEF WsEnqueues
  <1>2. DOMAIN ws = WsFields /\ queue \in Seq(psn.pushed)
    BY DEF HoleInv, HoleTyped
  <1>3. DOMAIN ws' = WsFields /\ ws'.hand = Nothing /\ ws'.pc \in {"loop", "ended"}
    <2>1. CASE ws' = [ws EXCEPT !.pc = "loop", !.hand = Nothing]
      BY <1>2, <2>1 DEF WsFields
    <2>2. CASE ws' = [pc |-> "ended", hand |-> Nothing, open |-> FALSE]
      BY <2>2 DEF WsFields
    <2> QED
      BY <1>1, <2>1, <2>2
  <1>4. h \in psn.pushed
    BY <1>1 DEF HoleInv, HoleTyped
  <1>5. /\ q \in Seq(psn.pushed) /\ Len(queue) \in Nat /\ Len(q) = Len(queue) + 1 /\ q[Len(queue) + 1] = h
        /\ \A i \in 1 .. Len(queue) : q[i] = queue[i]
    <2> HIDE DEF h
    <2> QED
      BY <1>2, <1>4, AppendProperties, LenProperties
  <1> HIDE DEF q, h
  <1>6. Nothing # OldOffer
    BY DEF Nothing, OldOffer, Notification
  <1>7. Ordered(q, Nothing)
    <2>1. Ordered(queue, h)
      BY DEF HoleInv, h
    <2>2. ASSUME NEW i \in 1 .. Len(q), NEW j \in 1 .. Len(q), i < j, q[i].kind = "accept" PROVE q[j] # OldOffer
      <3>1. i \in 1 .. Len(queue) /\ (j \in 1 .. Len(queue) \/ j = Len(queue) + 1)
        BY <1>5, <2>2
      <3> QED
        BY <1>5, <2>1, <2>2, <3>1 DEF Ordered
    <2> QED
      BY <1>6, <2>2 DEF Ordered
  <1>8. Old(q) => Old(queue) \/ h = OldOffer
    BY <1>5 DEF Old
  <1>9. Late(main, q, Nothing, psn)
    BY <1>6, <1>8 DEF HoleInv, Late, h
  <1>10. \A kinds : Has(queue, kinds) => Has(q, kinds)
    <2>1. \A i \in 1 .. Len(queue) : i \in 1 .. Len(q)
      BY <1>5
    <2> QED
      BY <1>5, <2>1 DEF Has
  <1>11. Awaited(main.pc, q)
    BY <1>10 DEF HoleInv, Awaited
  <1> QED
    BY <1>1, <1>3, <1>5, <1>7, <1>9, <1>11 DEF HoleInv, HoleTyped, EachHoleHasItsOwnOffer

(* The other steps of the thread hold what was received, or nothing.        *)
LEMMA WsKeeps ==
  ASSUME HoleInv, UNCHANGED <<main, queue, psn>>, DOMAIN ws' = WsFields, ws'.hand \in {ws.hand, Nothing},
         ws'.pc \in {"look", "enqueue"} => ws.pc \in {"look", "enqueue"} /\ ws'.hand = ws.hand
  PROVE  HoleInv'
  <1>1. Nothing # OldOffer
    BY DEF Nothing, OldOffer, Notification
  <1>2. HoleTyped'
    BY DEF HoleInv, HoleTyped
  <1>3. Ordered(queue, ws'.hand) /\ Late(main, queue, ws'.hand, psn)
    BY <1>1 DEF HoleInv, Ordered, Late
  <1> QED
    BY <1>2, <1>3 DEF HoleInv, EachHoleHasItsOwnOffer

(* Every step keeps the invariant.                                          *)
LEMMA HoleStep == ASSUME HoleInv, [HolepunchNext]_holepunchVars PROVE HoleInv'
  <1>1. CASE UNCHANGED <<main, queue, ws, psn>>
    <2>1. DOMAIN ws = WsFields
      BY DEF HoleInv, HoleTyped
    <2> QED
      BY <1>1, <2>1, WsKeeps
  <1>2. CASE StepsNext
    <2>1. /\ \A p \in {"createWait", "createGot", "startWait", "startGot", "offerWait", "offerGot", "offerTaken"} : p \in EarlyPCs
          /\ \A p \in {"createGot", "startGot", "offerGot", "ackGot", "acceptGot", "offerWait", "ackWait", "offerTaken", "ackTaken"} :
               p \notin LatePCs
          /\ \A p \in {"ackGot", "acceptGot", "ackWait", "ackTaken"} : p \notin EarlyPCs
      BY DEF EarlyPCs, LatePCs
    <2>2. /\ \A p \in {"createWait", "startWait", "offerWait", "ackWait", "acceptWait", "ackTaken"} : \A q : Awaited(p, q)
          /\ \A q : Has(q, Creating) => Awaited("createGot", q)
          /\ \A q : Has(q, Starting) => Awaited("startGot", q)
          /\ \A p \in {"offerGot", "ackGot", "acceptGot"} : \A q : Has(q, MessageKinds) => Awaited(p, q)
          /\ \A q : Has(q, {"offer"}) => Awaited("offerTaken", q)
      BY DEF Awaited
    <2>3. CASE WaitsFor("createWait", Creating, "createGot") \/ WaitsFor("startWait", Starting, "startGot")
      BY <2>1, <2>2, <2>3, WaitKeeps
    <2>4. CASE WaitsFor("offerWait", MessageKinds, "offerGot")
      BY <2>1, <2>2, <2>4, WaitKeeps
    <2>5. CASE WaitsFor("ackWait", MessageKinds, "ackGot") \/ WaitsFor("acceptWait", MessageKinds, "acceptGot")
      BY <2>1, <2>2, <2>5, WaitKeeps
    <2>6. CASE MessageGot("offerGot", "offerWait", "offer", "offerTaken")
      BY <2>1, <2>2, <2>6, MessageKeeps
    <2>7. CASE MessageGot("ackGot", "ackWait", "result", "ackTaken")
      BY <2>1, <2>2, <2>7, MessageKeeps
    <2> QED
      BY <1>2, <2>3, <2>4, <2>5, <2>6, <2>7, AcceptKeeps, CreateKeeps, StartKeeps, OfferKeeps, TakesKeeps, PunchKeeps
      DEF StepsNext
  <1>3. CASE WaitsFor("deleteWait", {"deleted"}, "deletedGot")
    <2>1. "deletedGot" \notin EarlyPCs /\ "deletedGot" \notin LatePCs
          /\ \A q : Awaited("deleteWait", q) /\ (Has(q, {"deleted"}) => Awaited("deletedGot", q))
      BY DEF EarlyPCs, LatePCs, Awaited
    <2> QED
      BY <1>3, <2>1, WaitKeeps
  <1>4. CASE WsConnects \/ WsLooks \/ WsEnds
    <2>1. UNCHANGED <<main, queue, psn>> /\ DOMAIN ws = WsFields
      BY <1>4 DEF WsConnects, WsLooks, WsEnds, HoleInv, HoleTyped
    <2>2. /\ DOMAIN ws' = WsFields /\ ws'.hand \in {ws.hand, Nothing}
          /\ ws'.pc \in {"look", "enqueue"} => ws.pc \in {"look", "enqueue"} /\ ws'.hand = ws.hand
      BY <1>4, <2>1 DEF WsConnects, WsLooks, WsEnds, WsFields
    <2> QED
      BY <2>1, <2>2, WsKeeps
  <1> QED
    BY <1>1, <1>2, <1>3, <1>4, OfferKeeps, FiniKeeps, ReceivesKeeps, EnqueuesKeeps
    DEF HolepunchNext, FiniNext, Cancels, holepunchVars

(* Each hole is punched with the offer the console made for it, although    *)
(* both wait in one queue and the first may be repeated, for any number of  *)
(* cancels.                                                                 *)
THEOREM HolesHaveTheirOffers == HolepunchSpec => []EachHoleHasItsOwnOffer
  <1>1. HolepunchInit => HoleInv
    <2> SUFFICES ASSUME HolepunchInit PROVE HoleInv
      OBVIOUS
    <2>1. /\ DOMAIN main = MainFields /\ main.hole = 1 /\ main.pc = "new" /\ main.req = 1
          /\ DOMAIN main.used = {1, 2} /\ \A h \in {1, 2} : main.used[h] = 0
      BY DEF HolepunchInit, MainFields
    <2>2. /\ DOMAIN ws = WsFields /\ ws.pc = "off" /\ ws.hand = Nothing
          /\ DOMAIN psn = PsnFields /\ psn.pushed = {} /\ psn.posted = {}
      BY DEF HolepunchInit, WsFields, PsnFields
    <2>3. queue = <<>> /\ Len(queue) = 0
      BY DEF HolepunchInit
    <2> QED
      BY <2>1, <2>2, <2>3
      DEF HoleInv, HoleTyped, Answers, Ordered, Early, EarlyPCs, Late, LatePCs, Awaited, EachHoleHasItsOwnOffer
  <1>2. HoleInv => EachHoleHasItsOwnOffer
    BY DEF HoleInv
  <1> QED
    BY <1>1, <1>2, HoleStep, PTL DEF HolepunchSpec

-----------------------------------------------------------------------------
(***************************************************************************)
(* The Quest app's controllers: what is told to the session is the state   *)
(* of now, and a panel keeps its input from the game.                      *)
(***************************************************************************)

(* What StreamInput holds; "null" is no button.                             *)
Told == {"act", "chord", "key", "ps", "options"}
Inputs == [key : BOOLEAN, quest : SUBSET {"act", "chord"}, pulsed : SUBSET {"ps", "options"}, suspended : BOOLEAN,
           needsNeutral : BOOLEAN, last : (SUBSET Told) \union {NotSuppressed}, told : SUBSET Told]

(* What was told while the input is suppressed was remembered as told.      *)
Remembers(i) ==
  /\ i \in Inputs
  /\ i.last # NotSuppressed => i.told = i.last
  /\ i.suspended => i.last # NotSuppressed
Right(i) == i.told = IF i.last = NotSuppressed THEN Combined(i) ELSE i.pulsed

(* What is down from before a panel closed is behind the gate or, the key   *)
(* of the Bluetooth controller, waited for; a frame that is past the gate   *)
(* with it is under way, and the first one.                                 *)
Guarded ==
  /\ carried \subseteq {"act", "chord", "key"} /\ down \subseteq QuestButtons
  /\ carried \ {"key"} \subseteq gate
  /\ "key" \in carried => input.key /\ (input.suspended \/ input.needsNeutral)
  /\ frame.buttons \subseteq QuestButtons /\ (fpc = "idle" => frame.buttons = {})
  /\ ~underway => frame.buttons \cap carried = {} /\ (input.suspended \/ input.quest \cap carried = {})
  /\ frame.buttons \cap carried # {} => input.suspended \/ input.quest \cap carried = {}
PanelSuspends == panel # "none" <=> input.suspended
FrameTyped == DOMAIN frame = {"buttons", "move"} /\ underway \in BOOLEAN /\ emulation \in BOOLEAN

InputInv == Remembers(input) /\ Right(input) /\ Guarded /\ PanelSuspends /\ FrameTyped

-----------------------------------------------------------------------------
(* StreamInput tells the state of now, or remembers the pulses it told.     *)
Alike(u, i) ==
  /\ u.key = i.key /\ u.quest = i.quest /\ u.pulsed = i.pulsed
  /\ u.suspended = i.suspended /\ u.needsNeutral = i.needsNeutral

(* A state of buttons is not the null of lastSuppressedButtons. *)
LEMMA NullIsNoButton == ASSUME NEW s \in SUBSET Told PROVE s # NotSuppressed
  <1>1. "null" \notin Told
    BY DEF Told
  <1> QED
    BY <1>1 DEF NotSuppressed

(* What telling changes. *)
LEMMA TellsFields ==
  ASSUME NEW i \in Inputs, NEW b \in SUBSET Told, NEW l, l \in SUBSET Told \/ l = NotSuppressed
  PROVE  /\ Tells(i, b, l) \in Inputs /\ Alike(Tells(i, b, l), i)
         /\ Tells(i, b, l).told = b /\ Tells(i, b, l).last = l
  <1>1. l \in (SUBSET Told) \union {NotSuppressed}
    OBVIOUS
  <1> QED
    BY <1>1 DEF Tells, Inputs, Alike

(* What is combined are buttons that can be told. *)
LEMMA CombinedTyped == ASSUME NEW i \in Inputs PROVE Combined(i) \in SUBSET Told /\ i.pulsed \in SUBSET Told
  BY DEF Combined, Keys, Inputs, Told

(* Only these fields are combined. *)
LEMMA CombinedAlike == ASSUME NEW i, NEW u, Alike(u, i) PROVE Combined(u) = Combined(i)
  BY DEF Alike, Combined, Keys

(* controllerStateUpdated tells the present state, or its pulses. *)
LEMMA UpdatedTells ==
  ASSUME NEW i, Remembers(i), NEW c \in BOOLEAN
  PROVE  /\ Remembers(Updated(i, c)) /\ Right(Updated(i, c)) /\ Alike(Updated(i, c), i)
         /\ ~i.suspended /\ ~c => Updated(i, c).told = Combined(i)
  <1>1. i \in Inputs /\ Combined(i) \in SUBSET Told /\ i.pulsed \in SUBSET Told /\ i.pulsed # NotSuppressed
    BY CombinedTyped, NullIsNoButton DEF Remembers
  <1>2. CASE ~i.suspended /\ ~c
    <2> DEFINE u == Tells(i, Combined(i), NotSuppressed)
    <2>1. Updated(i, c) = u
      BY <1>2 DEF Updated
    <2>2. u \in Inputs /\ Alike(u, i) /\ u.told = Combined(i) /\ u.last = NotSuppressed
      BY <1>1, TellsFields
    <2> HIDE DEF u
    <2>3. Combined(u) = Combined(i)
      BY <2>2, CombinedAlike
    <2> QED
      BY <1>2, <2>1, <2>2, <2>3 DEF Remembers, Right, Alike
  <1>3. CASE ~(~i.suspended /\ ~c) /\ i.last # i.pulsed
    <2> DEFINE u == Tells(i, i.pulsed, i.pulsed)
    <2>1. Updated(i, c) = u
      BY <1>3 DEF Updated
    <2>2. u \in Inputs /\ Alike(u, i) /\ u.told = i.pulsed /\ u.last = i.pulsed
      BY <1>1, TellsFields
    <2> HIDE DEF u
    <2> QED
      BY <1>1, <1>3, <2>1, <2>2 DEF Remembers, Right, Alike
  <1>4. CASE ~(~i.suspended /\ ~c) /\ i.last = i.pulsed
    <2>1. Updated(i, c) = i
      BY <1>4 DEF Updated
    <2> QED
      BY <1>1, <1>4, <2>1 DEF Remembers, Right, Alike
  <1> QED
    BY <1>2, <1>3, <1>4

(* Suspended, resumed, released.                                            *)
LEMMA SuspendedTells ==
  ASSUME NEW i, Remembers(i), Right(i)
  PROVE  /\ Remembers(Suspended(i)) /\ Right(Suspended(i)) /\ Suspended(i).suspended = TRUE
         /\ Suspended(i).key = i.key /\ Suspended(i).quest = i.quest /\ Suspended(i).needsNeutral = i.needsNeutral
  <1>1. i \in Inputs /\ i.pulsed \in SUBSET Told /\ i.pulsed # NotSuppressed
    BY CombinedTyped, NullIsNoButton DEF Remembers
  <1>2. CASE i.suspended
    <2>1. i.suspended = TRUE
      BY <1>1, <1>2 DEF Inputs
    <2> QED
      BY <1>2, <2>1 DEF Suspended
  <1>3. CASE ~i.suspended
    <2>1. PICK s : s = [i EXCEPT !.suspended = TRUE]
      OBVIOUS
    <2>2. s \in Inputs /\ s.suspended = TRUE /\ s.key = i.key /\ s.quest = i.quest /\ s.pulsed = i.pulsed
          /\ s.needsNeutral = i.needsNeutral
      BY <1>1, <2>1 DEF Inputs
    <2> DEFINE u == Tells(s, i.pulsed, i.pulsed)
    <2>3. Suspended(i) = u
      BY <1>3, <2>1 DEF Suspended
    <2>4. u \in Inputs /\ Alike(u, s) /\ u.told = i.pulsed /\ u.last = i.pulsed
      BY <1>1, <2>2, TellsFields
    <2> HIDE DEF u
    <2> QED
      BY <1>1, <2>2, <2>3, <2>4 DEF Remembers, Right, Alike
  <1> QED
    BY <1>2, <1>3

(* A resumed input has no Quest buttons, and waits for a key that is held. *)
LEMMA ResumedTells ==
  ASSUME NEW i, Remembers(i), i.suspended
  PROVE  /\ Remembers(Resumed(i)) /\ Right(Resumed(i)) /\ Resumed(i).suspended = FALSE
         /\ Resumed(i).key = i.key /\ Resumed(i).quest = {} /\ Resumed(i).needsNeutral = i.key
  <1>1. i \in Inputs /\ i.pulsed \in SUBSET Told
    BY CombinedTyped DEF Remembers
  <1>2. PICK s : s = [i EXCEPT !.suspended = FALSE, !.needsNeutral = i.key, !.quest = {}]
    OBVIOUS
  <1>3. s \in Inputs /\ s.suspended = FALSE /\ s.key = i.key /\ s.quest = {} /\ s.pulsed = i.pulsed /\ s.needsNeutral = i.key
    BY <1>1, <1>2 DEF Inputs
  <1> DEFINE u == Tells(s, i.pulsed, NotSuppressed)
  <1>4. Resumed(i) = u
    BY <1>2 DEF Resumed
  <1>5. u \in Inputs /\ Alike(u, s) /\ u.told = i.pulsed /\ u.last = NotSuppressed
    BY <1>1, <1>3, TellsFields
  <1> HIDE DEF u
  <1>6. Combined(u) = i.pulsed
    BY <1>3, <1>5 DEF Combined, Keys, Alike
  <1> QED
    BY <1>3, <1>4, <1>5, <1>6 DEF Remembers, Right, Alike

(* A released input has nothing pressed. *)
LEMMA AllReleasedTells ==
  ASSUME NEW i, Remembers(i)
  PROVE  /\ Remembers(AllReleased(i)) /\ Right(AllReleased(i)) /\ AllReleased(i).quest = {}
         /\ AllReleased(i).key = FALSE /\ AllReleased(i).suspended = i.suspended
  <1>1. i \in Inputs /\ {} \in SUBSET Told /\ {} # NotSuppressed
    BY NullIsNoButton DEF Remembers
  <1>2. PICK s : s = [i EXCEPT !.key = FALSE, !.quest = {}, !.pulsed = {}]
    OBVIOUS
  <1>3. s \in Inputs /\ s.suspended = i.suspended /\ s.key = FALSE /\ s.quest = {} /\ s.pulsed = {}
    BY <1>1, <1>2 DEF Inputs
  <1> DEFINE u == Tells(s, {}, {})
  <1>4. AllReleased(i) = u
    BY <1>2 DEF AllReleased
  <1>5. u \in Inputs /\ Alike(u, s) /\ u.told = {} /\ u.last = {}
    BY <1>1, <1>3, TellsFields
  <1> HIDE DEF u
  <1> QED
    BY <1>1, <1>3, <1>4, <1>5 DEF Remembers, Right, Alike

(* The Quest controllers' buttons, and pulses.                              *)
LEMMA WithQuestTells ==
  ASSUME NEW i, Remembers(i), Right(i), NEW b \in SUBSET {"act", "chord"}, NEW e \in BOOLEAN
  PROVE  LET u == WithQuest(i, b, e) IN
         /\ Remembers(u) /\ Right(u) /\ u.quest = (IF e THEN b ELSE {})
         /\ u.key = i.key /\ u.suspended = i.suspended /\ u.needsNeutral = i.needsNeutral
         /\ ~i.suspended => u.told = Combined(u) \/ u = i
  <1> DEFINE quest == IF e THEN b ELSE {}
             pulsed == IF e THEN i.pulsed ELSE {}
             s == [i EXCEPT !.quest = quest, !.pulsed = pulsed]
             u == Updated(s, FALSE)
  <1>1. i \in Inputs
    BY DEF Remembers
  <1>2. CASE quest = i.quest /\ pulsed = i.pulsed
    <2>1. WithQuest(i, b, e) = i
      BY <1>2 DEF WithQuest
    <2> QED
      BY <1>2, <2>1
  <1>3. CASE ~(quest = i.quest /\ pulsed = i.pulsed)
    <2>1. WithQuest(i, b, e) = u
      BY <1>3 DEF WithQuest
    <2>2. /\ s \in Inputs /\ s.quest = quest /\ s.key = i.key /\ s.suspended = i.suspended
          /\ s.needsNeutral = i.needsNeutral /\ s.last = i.last /\ s.told = i.told
      <3>1. quest \in SUBSET {"act", "chord"} /\ pulsed \in SUBSET {"ps", "options"}
        BY <1>1 DEF Inputs
      <3> HIDE DEF quest, pulsed
      <3> QED
        BY <1>1, <3>1 DEF Inputs
    <2> HIDE DEF s, u
    <2>3. Remembers(s)
      BY <2>2 DEF Remembers
    <2>4. /\ Remembers(u) /\ Right(u) /\ Alike(u, s) /\ (~s.suspended => u.told = Combined(s))
      BY <2>3, UpdatedTells DEF u
    <2>5. Combined(u) = Combined(s)
      BY <2>4, CombinedAlike
    <2> QED
      BY <2>1, <2>2, <2>4, <2>5 DEF Alike
  <1> QED
    BY <1>2, <1>3

OnlyPulses(u, i) ==
  u.quest = i.quest /\ u.key = i.key /\ u.suspended = i.suspended /\ u.needsNeutral = i.needsNeutral

(* A pulse that begins or ends is told. *)
LEMMA PulsesTell ==
  ASSUME NEW i, Remembers(i), Right(i), NEW b \in {"ps", "options"}
  PROVE  /\ Remembers(Pulsed(i, b)) /\ Right(Pulsed(i, b)) /\ OnlyPulses(Pulsed(i, b), i)
         /\ Remembers(PulseOver(i, b)) /\ Right(PulseOver(i, b)) /\ OnlyPulses(PulseOver(i, b), i)
  <1> DEFINE s(p) == [i EXCEPT !.pulsed = p]
  <1>1. i \in Inputs
    BY DEF Remembers
  <1>2. ASSUME NEW p \in SUBSET {"ps", "options"}
        PROVE  /\ Remembers(Updated(s(p), FALSE)) /\ Right(Updated(s(p), FALSE))
               /\ OnlyPulses(Updated(s(p), FALSE), i)
    <2>1. /\ s(p) \in Inputs /\ s(p).quest = i.quest /\ s(p).key = i.key /\ s(p).suspended = i.suspended
          /\ s(p).needsNeutral = i.needsNeutral /\ s(p).last = i.last /\ s(p).told = i.told
      BY <1>1 DEF Inputs
    <2> HIDE DEF s
    <2>2. Remembers(s(p))
      BY <2>1 DEF Remembers
    <2> QED
      BY <2>1, <2>2, UpdatedTells DEF Alike, OnlyPulses
  <1>3. i.pulsed \union {b} \in SUBSET {"ps", "options"} /\ i.pulsed \ {b} \in SUBSET {"ps", "options"}
    BY <1>1 DEF Inputs
  <1>4. PulseOver(i, b) = Updated(s(i.pulsed \ {b}), FALSE)
    BY DEF PulseOver
  <1>5. Pulsed(i, b) = i \/ Pulsed(i, b) = Updated(s(i.pulsed \union {b}), FALSE)
    BY DEF Pulsed
  <1> HIDE DEF s
  <1>6. OnlyPulses(i, i)
    BY DEF OnlyPulses
  <1> QED
    BY <1>2, <1>3, <1>4, <1>5, <1>6

-----------------------------------------------------------------------------
(* Steps that leave StreamInput as it is but for pulses.                    *)
LEMMA PulsesKeep ==
  ASSUME InputInv, Remembers(input'), Right(input'), OnlyPulses(input', input), gate' \in {gate, QuestButtons},
         DOMAIN frame' = {"buttons", "move"}, frame'.buttons = frame.buttons, fpc' = fpc \/ fpc' # "idle",
         UNCHANGED <<carried, down, underway, panel, emulation>>
  PROVE  InputInv'
  <1>1. carried \ {"key"} \subseteq QuestButtons
    BY DEF InputInv, Guarded, QuestButtons
  <1> QED
    BY <1>1 DEF InputInv, OnlyPulses, Guarded, PanelSuspends, FrameTyped

(* An untouched input is still right. *)
LEMMA InputStays ==
  ASSUME InputInv, UNCHANGED input
  PROVE  Remembers(input') /\ Right(input') /\ OnlyPulses(input', input)
  <1>1. Remembers(input) /\ Right(input)
    BY DEF InputInv
  <1> QED
    BY <1>1 DEF Remembers, Right, Combined, Keys, OnlyPulses

(* A panel opens: the input is suppressed.                                  *)
LEMMA OpeningKeeps ==
  ASSUME InputInv, input' = Suspended(input), panel' # "none", gate' \in {gate, QuestButtons},
         UNCHANGED <<frame, fpc, carried, down, underway, emulation>>
  PROVE  InputInv'
  <1>1. Remembers(input) /\ Right(input)
    BY DEF InputInv
  <1>2. /\ Remembers(Suspended(input)) /\ Right(Suspended(input)) /\ Suspended(input).suspended = TRUE
        /\ Suspended(input).key = input.key
    BY <1>1, SuspendedTells
  <1>3. Remembers(input') /\ Right(input') /\ input'.suspended = TRUE /\ input'.key = input.key
    BY <1>2
  <1>4. carried \ {"key"} \subseteq QuestButtons
    BY DEF InputInv, Guarded, QuestButtons
  <1> QED
    BY <1>3, <1>4 DEF InputInv, Guarded, PanelSuspends, FrameTyped

(* A panel closes: what is down is behind the gate, or under way.           *)
LEMMA ClosingKeeps ==
  ASSUME InputInv, Remembers(input'), Right(input'), ~input'.suspended, input'.quest = {},
         panel' = "none", gate' = QuestButtons, UNCHANGED down, emulation' \in BOOLEAN,
         carried' \subseteq (down \ {"menu"}) \union {"key"}, "key" \in carried' => input'.key /\ input'.needsNeutral,
         DOMAIN frame' = {"buttons", "move"}, frame'.buttons \in {frame.buttons, {}},
         fpc' = "idle" => frame'.buttons = {}, underway' \in BOOLEAN, ~underway' => frame'.buttons = {}
  PROVE  InputInv'
  <1>1. carried' \subseteq {"act", "chord", "key"} /\ carried' \ {"key"} \subseteq gate'
    BY DEF InputInv, Guarded, QuestButtons
  <1>2. Guarded'
    BY <1>1 DEF InputInv, Guarded
  <1> QED
    BY <1>2 DEF InputInv, PanelSuspends, FrameTyped

(* All input is released.                                                   *)
LEMMA ReleasingKeeps ==
  ASSUME InputInv, input' = AllReleased(input), gate' = QuestButtons, carried' = carried \ {"key"},
         UNCHANGED <<frame, fpc, down, underway, panel, emulation>>
  PROVE  InputInv'
  <1>1. Remembers(input)
    BY DEF InputInv
  <1>2. /\ Remembers(AllReleased(input)) /\ Right(AllReleased(input)) /\ AllReleased(input).quest = {}
        /\ AllReleased(input).suspended = input.suspended
    BY <1>1, AllReleasedTells
  <1>3. Remembers(input') /\ Right(input') /\ input'.quest = {} /\ input'.suspended = input.suspended
    BY <1>2
  <1>4. carried' \ {"key"} \subseteq QuestButtons
    BY DEF InputInv, Guarded, QuestButtons
  <1> QED
    BY <1>3, <1>4 DEF InputInv, Guarded, PanelSuspends, FrameTyped

-----------------------------------------------------------------------------
(* The render thread.                                                       *)
LEMMA FrameBeginsKeeps ==
  ASSUME InputInv, NEW sample \in Samples, FrameBegins(sample)
  PROVE  InputInv'
  <1>1. sample \subseteq QuestButtons
    BY DEF Samples, QuestButtons
  <1>2. /\ frame'.buttons = sample \ (gate \cap sample) /\ DOMAIN frame' = {"buttons", "move"} /\ gate' = gate \cap sample
        /\ fpc' = "filtered" /\ down' = sample /\ carried' = carried \ (QuestButtons \ sample)
        /\ UNCHANGED <<input, panel, emulation, underway>>
    BY DEF FrameBegins, Blocked, screenVars
  <1>3. carried' \subseteq carried /\ carried' \ {"key"} \subseteq gate' /\ frame'.buttons \cap carried' = {}
    BY <1>1, <1>2 DEF InputInv, Guarded, QuestButtons
  <1>4. Guarded'
    BY <1>1, <1>2, <1>3 DEF InputInv, Guarded
  <1> QED
    BY <1>2, <1>4, InputStays DEF InputInv, PanelSuspends, FrameTyped

(* The open panel takes the sample, and may close. *)
LEMMA FrameOperatesPanelKeeps == ASSUME InputInv, FrameOperatesPanel PROVE InputInv'
  <1>1. /\ panel # "none" /\ fpc' = "idle" /\ frame' = NoFrame /\ underway' = FALSE /\ UNCHANGED down
        /\ DOMAIN frame' = {"buttons", "move"} /\ frame'.buttons = {}
    BY DEF FrameOperatesPanel, NoFrame
  <1>2. Remembers(input) /\ Right(input) /\ input.suspended /\ emulation \in BOOLEAN
    BY <1>1 DEF InputInv, PanelSuspends, FrameTyped
  <1>3. CASE /\ \E e \in BOOLEAN : input' = WithQuest(input, {}, e) /\ emulation' = e
             /\ UNCHANGED <<panel, gate, carried>>
    <2>1. PICK e \in BOOLEAN : input' = WithQuest(input, {}, e) /\ emulation' = e
      BY <1>3
    <2> DEFINE u == WithQuest(input, {}, e)
    <2>2. /\ Remembers(u) /\ Right(u) /\ u.key = input.key /\ u.needsNeutral = input.needsNeutral
          /\ u.suspended = input.suspended
      <3>1. {} \in SUBSET {"act", "chord"}
        OBVIOUS
      <3> QED
        BY <1>2, <3>1, WithQuestTells, ZenonT(40)
    <2> HIDE DEF u
    <2>3. input' = u
      BY <2>1 DEF u
    <2> QED
      BY <1>1, <1>2, <1>3, <2>1, <2>2, <2>3 DEF InputInv, Guarded, PanelSuspends, FrameTyped
  <1>4. CASE input' = WithQuest(Resumed(input), {}, emulation) /\ emulation' = emulation /\ Closes(input)
    <2> DEFINE r == Resumed(input)
    <2>1. /\ Remembers(r) /\ Right(r) /\ r.suspended = FALSE /\ r.key = input.key /\ r.needsNeutral = input.key
      BY <1>2, ResumedTells
    <2> HIDE DEF r
    <2>2. /\ Remembers(input') /\ Right(input') /\ input'.key = input.key /\ input'.needsNeutral = input.key
          /\ input'.suspended = FALSE /\ input'.quest = {}
      BY <1>2, <1>4, <2>1, WithQuestTells DEF r
    <2>3. /\ panel' = "none" /\ gate' = QuestButtons /\ carried' \subseteq (down \ {"menu"}) \union {"key"}
          /\ "key" \in carried' => input.key
      BY <1>4 DEF Closes, Keys, InputInv, Guarded, QuestButtons
    <2> QED
      BY <1>1, <1>2, <1>4, <2>2, <2>3, ClosingKeeps
  <1> QED
    BY <1>2, <1>3, <1>4 DEF FrameOperatesPanel

(* The end of a frame tells what passed the gate. *)
LEMMA FrameEndsKeeps == ASSUME InputInv, FrameEnds PROVE InputInv'
  <1> DEFINE i == IF frame.move = "doubleTap" THEN Pulsed(input, "ps") ELSE input
             buttons == frame.buttons \ {"menu"}
             u == WithQuest(i, buttons, emulation)
  <1>1. /\ input' = u /\ fpc' = "idle" /\ frame' = NoFrame /\ frame'.buttons = {}
        /\ DOMAIN frame' = {"buttons", "move"}
        /\ underway' = (underway /\ input'.told \cap carried # {}) /\ UNCHANGED <<panel, emulation, gate, down, carried>>
    BY DEF FrameEnds, NoFrame, screenVars
  <1>2. Remembers(input) /\ Right(input) /\ emulation \in BOOLEAN /\ buttons \in SUBSET {"act", "chord"}
    BY DEF InputInv, FrameTyped, Guarded, QuestButtons
  <1>3. Remembers(i) /\ Right(i) /\ OnlyPulses(i, input)
    BY <1>2, PulsesTell DEF OnlyPulses
  <1> HIDE DEF i, buttons
  <1>4. /\ Remembers(u) /\ Right(u) /\ u.quest = (IF emulation THEN buttons ELSE {})
        /\ u.key = i.key /\ u.suspended = i.suspended /\ u.needsNeutral = i.needsNeutral
        /\ ~i.suspended => u.told = Combined(u) \/ u = i
    BY <1>2, <1>3, WithQuestTells
  <1> HIDE DEF u
  <1>5. ~u.suspended /\ u.told = Combined(u) => u.quest \subseteq u.told
    BY DEF Combined
  <1>6. u.quest \subseteq frame.buttons
    BY <1>4 DEF buttons
  <1>7. ~underway' => u.suspended \/ u.quest \cap carried = {}
    <2>1. CASE frame.buttons \cap carried = {}
      BY <1>6, <2>1
    <2>2. CASE frame.buttons \cap carried # {}
      <3>1. underway /\ (input.suspended \/ input.quest \cap carried = {})
        BY <2>2 DEF InputInv, Guarded
      <3> QED
        BY <1>1, <1>3, <1>4, <1>5, <3>1 DEF OnlyPulses
    <2> QED
      BY <2>1, <2>2
  <1> QED
    BY <1>1, <1>3, <1>4, <1>7 DEF InputInv, Guarded, PanelSuspends, FrameTyped, OnlyPulses

-----------------------------------------------------------------------------
(* The Bluetooth controller.                                                *)
LEMMA KeyEventKeeps == ASSUME InputInv, NEW pressed \in BOOLEAN, KeyEvent(pressed) PROVE InputInv'
  <1> DEFINE i == [input EXCEPT !.key = pressed, !.needsNeutral = @ /\ (input.suspended \/ pressed)]
             kept == carried \ (IF pressed THEN {} ELSE {"key"})
  <1>1. Remembers(input) /\ input \in Inputs /\ emulation \in BOOLEAN
    BY DEF InputInv, FrameTyped, Remembers
  <1>2. /\ i \in Inputs /\ i.key = pressed /\ i.suspended = input.suspended /\ i.quest = input.quest
        /\ i.needsNeutral = (input.needsNeutral /\ (input.suspended \/ pressed)) /\ i.last = input.last /\ i.told = input.told
    BY <1>1 DEF Inputs
  <1>3. UNCHANGED <<frame, fpc, down>>
    BY DEF KeyEvent, frameVars
  <1>4. CASE /\ input' = Updated(i, keyGate \/ panel # "none") /\ carried' = kept /\ emulation' \in {emulation, ~emulation}
             /\ UNCHANGED <<panel, gate, underway>>
    <2> DEFINE c == keyGate \/ panel # "none"
    <2>1. c \in BOOLEAN
      OBVIOUS
    <2> HIDE DEF i, c
    <2>2. Remembers(i)
      BY <1>1, <1>2 DEF Remembers
    <2>3. input' = Updated(i, c)
      BY <1>4 DEF c, i
    <2>4. Remembers(input') /\ Right(input') /\ Alike(input', i)
      BY <2>1, <2>2, <2>3, UpdatedTells
    <2>5. carried' \subseteq carried /\ ("key" \in carried' => pressed)
      BY <1>4
    <2>6. emulation' \in BOOLEAN
      BY <1>1, <1>4
    <2> QED
      BY <1>2, <1>3, <1>4, <2>4, <2>5, <2>6 DEF InputInv, Guarded, PanelSuspends, FrameTyped, Alike
  <1>5. CASE /\ panel # "none" /\ pressed /\ input' = Updated(Resumed(i), TRUE)
             /\ ClosesUnderAFrame(i) /\ UNCHANGED emulation
    <2>1. input.suspended
      BY <1>5 DEF InputInv, PanelSuspends
    <2> HIDE DEF i
    <2>2. Remembers(i) /\ i.suspended /\ i.key = TRUE
      BY <1>1, <1>2, <1>5, <2>1 DEF Remembers
    <2> DEFINE r == Resumed(i)
    <2>3. Remembers(r) /\ r.suspended = FALSE /\ r.quest = {} /\ r.key = TRUE /\ r.needsNeutral = TRUE
      BY <2>2, ResumedTells
    <2> HIDE DEF r
    <2>4. input' = Updated(r, TRUE)
      BY <1>5 DEF r, i
    <2>5. Remembers(input') /\ Right(input') /\ Alike(input', r)
      BY <2>3, <2>4, UpdatedTells
    <2>6. /\ panel' = "none" /\ gate' = QuestButtons /\ carried' \subseteq (down \ {"menu"}) \union {"key"}
          /\ underway' = (fpc # "idle")
      BY <1>5 DEF ClosesUnderAFrame, Closes, Keys, i
    <2>7. /\ fpc' = "idle" => frame'.buttons = {}
          /\ DOMAIN frame' = {"buttons", "move"} /\ frame'.buttons = frame.buttons
      BY <1>3 DEF InputInv, Guarded, FrameTyped
    <2> QED
      BY <1>1, <1>3, <1>5, <2>3, <2>5, <2>6, <2>7, ClosingKeeps DEF Alike
  <1> QED
    BY <1>1, <1>4, <1>5 DEF KeyEvent

(* A row that is picked closes the panel or toggles the emulation. *)
LEMMA PointerKeeps == ASSUME InputInv, PointerPicks PROVE InputInv'
  <1>1. /\ panel = "settings" /\ UNCHANGED <<frame, fpc, down>>
    BY DEF PointerPicks, frameVars
  <1>2. /\ Remembers(input) /\ Right(input) /\ input.suspended /\ emulation \in BOOLEAN
        /\ DOMAIN frame = {"buttons", "move"} /\ (fpc = "idle" => frame.buttons = {})
    BY <1>1 DEF InputInv, PanelSuspends, FrameTyped, Guarded
  <1>3. CASE ClosesUnderAFrame(input) /\ input' = Resumed(input) /\ UNCHANGED emulation
    <2> DEFINE r == Resumed(input)
    <2>1. /\ Remembers(r) /\ Right(r) /\ r.suspended = FALSE /\ r.quest = {}
          /\ r.key = input.key /\ r.needsNeutral = input.key
      BY <1>2, ResumedTells
    <2> HIDE DEF r
    <2>2. input' = r
      BY <1>3 DEF r
    <2>3. /\ panel' = "none" /\ gate' = QuestButtons /\ carried' \subseteq (down \ {"menu"}) \union {"key"}
          /\ underway' = (fpc # "idle") /\ ("key" \in carried' => input.key)
      BY <1>3 DEF ClosesUnderAFrame, Closes, Keys, InputInv, Guarded, QuestButtons
    <2> QED
      BY <1>1, <1>2, <1>3, <2>1, <2>2, <2>3, ClosingKeeps
  <1>4. CASE emulation' = ~emulation /\ UNCHANGED <<panel, gate, keyGate, carried, underway, input>>
    <2>1. emulation' \in BOOLEAN
      BY <1>2, <1>4
    <2> QED
      BY <1>1, <1>4, <2>1, InputStays DEF InputInv, Guarded, PanelSuspends, FrameTyped
  <1> QED
    BY <1>3, <1>4 DEF PointerPicks

(* A pause releases the input, and closes the settings. *)
LEMMA PausesKeeps == ASSUME InputInv, Pauses PROVE InputInv'
  <1>1. gate' = QuestButtons /\ UNCHANGED <<frame, fpc, down, emulation>>
    BY DEF Pauses, frameVars
  <1>2. CASE panel = "settings"
    <2> DEFINE a == AllReleased(input)
               r == Resumed(a)
    <2>1. input' = r /\ panel' = "none" /\ carried' = down \ {"menu"} /\ underway' = (fpc # "idle")
      BY <1>2 DEF Pauses
    <2>2. Remembers(input) /\ input.suspended /\ emulation \in BOOLEAN
          /\ DOMAIN frame = {"buttons", "move"} /\ (fpc = "idle" => frame.buttons = {})
      BY <1>2 DEF InputInv, PanelSuspends, FrameTyped, Guarded
    <2>3. Remembers(a) /\ a.suspended
      BY <2>2, AllReleasedTells
    <2> HIDE DEF a
    <2>4. Remembers(r) /\ Right(r) /\ r.suspended = FALSE /\ r.quest = {}
      BY <2>3, ResumedTells
    <2> HIDE DEF r
    <2>5. "key" \notin carried'
      BY <2>1 DEF InputInv, Guarded, QuestButtons
    <2> QED
      BY <1>1, <2>1, <2>2, <2>4, <2>5, ClosingKeeps
  <1>3. CASE panel # "settings"
    BY <1>1, <1>3, ReleasingKeeps DEF Pauses
  <1> QED
    BY <1>2, <1>3

-----------------------------------------------------------------------------
(* Every step keeps the invariant.                                          *)
LEMMA InputStep == ASSUME InputInv, [QuestNext]_questVars PROVE InputInv'
  <1>1. Remembers(input) /\ Right(input) /\ DOMAIN frame = {"buttons", "move"}
    BY DEF InputInv, FrameTyped
  <1>2. CASE UNCHANGED <<input, screenVars, gate, frameVars, heldVars>>
    BY <1>1, <1>2, InputStays, PulsesKeep DEF screenVars, frameVars, heldVars
  <1>3. CASE \E settled \in BOOLEAN : FrameReadsGesture(settled)
    <2>1. /\ UNCHANGED <<input, panel, emulation, gate, carried, down, underway>>
          /\ frame'.buttons = frame.buttons /\ DOMAIN frame' = {"buttons", "move"} /\ fpc' = "read"
      BY <1>1, <1>3 DEF FrameReadsGesture, screenVars, heldVars
    <2> QED
      BY <2>1, InputStays, PulsesKeep
  <1>4. CASE LosesFocus \/ Unavailable
    BY <1>4, ReleasingKeeps DEF LosesFocus, Unavailable, ReleasesInput, screenVars, frameVars
  <1>5. CASE LongPressOpens \/ ShowsSettings \/ ShowsDialog
    BY <1>5, OpeningKeeps DEF LongPressOpens, ShowsSettings, ShowsDialog, Opens, frameVars, heldVars
  <1>6. CASE TapSendsOptions \/ \E button \in {"options", "ps"} : PulseEnds(button)
    <2>1. UNCHANGED <<screenVars, gate, frameVars, heldVars>>
      BY <1>6 DEF TapSendsOptions, PulseEnds
    <2>2. input' = Pulsed(input, "options") \/ \E button \in {"options", "ps"} : input' = PulseOver(input, button)
      BY <1>6 DEF TapSendsOptions, PulseEnds
    <2>3. Remembers(input') /\ Right(input') /\ OnlyPulses(input', input)
      BY <1>1, <2>2, PulsesTell
    <2> QED
      BY <1>1, <2>1, <2>3, PulsesKeep DEF screenVars, frameVars, heldVars
  <1>7. CASE LongPressFires \/ TapFires
    BY <1>2, <1>7 DEF LongPressFires, TapFires
  <1>8. CASE Resumes
    BY <1>1, <1>8, InputStays, PulsesKeep DEF Resumes, frameVars, heldVars
  <1>9. CASE UNCHANGED questVars
    BY <1>2, <1>9 DEF questVars
  <1> QED
    BY <1>3, <1>4, <1>5, <1>6, <1>7, <1>8, <1>9, FrameBeginsKeeps, FrameOperatesPanelKeeps, FrameEndsKeeps,
       KeyEventKeeps, PointerKeeps, PausesKeeps
    DEF QuestNext, RenderNext, MainNext

(* Nothing is pressed at the beginning. *)
LEMMA InputInit == QuestInit => InputInv
  <1> SUFFICES ASSUME QuestInit PROVE InputInv
    OBVIOUS
  <1>1. /\ input = [key |-> FALSE, quest |-> {}, pulsed |-> {}, suspended |-> FALSE,
                    needsNeutral |-> FALSE, last |-> NotSuppressed, told |-> {}]
        /\ panel = "none" /\ emulation = TRUE /\ carried = {} /\ down = {} /\ underway = FALSE
        /\ DOMAIN frame = {"buttons", "move"} /\ frame.buttons = {}
    BY DEF QuestInit, NoFrame
  <1>2. input \in Inputs
    BY <1>1 DEF Inputs
  <1>3. /\ input.key = FALSE /\ input.quest = {} /\ input.pulsed = {} /\ input.suspended = FALSE
        /\ input.needsNeutral = FALSE /\ input.last = NotSuppressed /\ input.told = {}
    BY <1>1
  <1> QED
    BY <1>1, <1>2, <1>3 DEF InputInv, Remembers, Right, Combined, Keys, Guarded, PanelSuspends, FrameTyped

(* The session was told the state of now, or the pulses of now while the    *)
(* input is suppressed.                                                     *)
THEOREM ButtonsAreReleased == QuestSpec => []NoButtonIsLeftPressed
  <1>1. InputInv => NoButtonIsLeftPressed
    BY DEF InputInv, Right, NoButtonIsLeftPressed
  <1> QED
    BY <1>1, InputInit, InputStep, PTL DEF QuestSpec

(* What was down when a panel closed is not told to the session before it   *)
(* was released, unless a frame past the gate was under way.                *)
THEOREM PanelKeepsItsInput == QuestSpec => []PanelInputStaysOutOfTheGame
  <1>1. InputInv => PanelInputStaysOutOfTheGame
    <2> SUFFICES ASSUME InputInv, ~underway PROVE carried \cap input.told = {}
      BY DEF PanelInputStaysOutOfTheGame
    <2>1. input \in Inputs /\ Remembers(input) /\ Right(input)
      BY DEF InputInv, Remembers
    <2>2. carried \cap input.pulsed = {}
      BY <2>1 DEF InputInv, Guarded, Inputs
    <2>3. CASE input.last = NotSuppressed
      <3>1. ~input.suspended /\ input.quest \cap carried = {}
        BY <2>1, <2>3 DEF InputInv, Guarded, Remembers
      <3>2. "key" \in carried => input.needsNeutral
        BY <3>1 DEF InputInv, Guarded
      <3>3. (IF input.needsNeutral THEN {} ELSE Keys(input)) \cap carried = {}
        BY <3>2 DEF Keys
      <3> QED
        BY <2>1, <2>2, <2>3, <3>1, <3>3 DEF Right, Combined
    <2>4. CASE input.last # NotSuppressed
      BY <2>1, <2>2, <2>4 DEF Right
    <2> QED
      BY <2>3, <2>4
  <1> QED
    BY <1>1, InputInit, InputStep, PTL DEF QuestSpec
=============================================================================
