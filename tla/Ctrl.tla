-------------------------------- MODULE Ctrl --------------------------------
(***************************************************************************)
(* The ctrl thread (ctrl.c).  It holds notif_mutex except while it         *)
(* connects, selects and sends, and takes state_mutex with notif_mutex     *)
(* held to tell the session what the console said or that it has failed.   *)
(* Message contents, encryption and the HTTP exchange are abstract: an     *)
(* exchange succeeds or fails, a message has a kind.                       *)
(***************************************************************************)
EXTENDS SessionState

VARIABLE cpc    \* control state of the ctrl thread

CtrlPCs == {"off", "start", "connect", "request", "failRefused", "failUnknown",
            "failConnect", "loop", "checkId", "setId", "setFallback", "pinReq",
            "pinAgain", "switch", "failStay", "failBreak", "select", "wokenPipe",
            "wokenData", "wokenEnd", "canceled", "sending", "sendingPin", "ended"}
Kinds == {"sessionId", "badSessionId", "pinRequest", "loginSuccess",
          "pinIncorrect", "switch", "other", "overflow"} \cup
         (IF Rudp THEN {"finish"} ELSE {})

Goto(pc) == cpc' = pc
HoldsNotif == notifMutex = "ctrl"
TakeNotif == notifMutex = Free /\ notifMutex' = "ctrl"
DropNotif == notifMutex' = Free

\* The thread locks notif_mutex; a TCP connect unlocks it again at once.
CtrlBegins ==
  /\ cpc = "start" /\ notifMutex = Free
  /\ IF Rudp THEN Goto("request") /\ TakeNotif
             ELSE Goto("connect") /\ UNCHANGED notifMutex
  /\ UNCHANGED <<sess, ctrl, stateMutex>>

\* chiaki_stop_pipe_connect returns: connected, canceled by a stop, or failed.
CtrlConnectReturns ==
  /\ cpc = "connect" /\ TakeNotif
  /\ \/ Goto("request")
     \/ ctrl.stop /\ Goto("failConnect")
     \/ \E pc \in {"failRefused", "failUnknown"} : Goto(pc)
  /\ UNCHANGED <<sess, ctrl, stateMutex>>

RequestIsOver == ctrl' = [ctrl EXCEPT !.retried = FALSE]
\* ctrl_failed inside of ctrl_connect_tcp.
CtrlTcpFails ==
  /\ cpc \in {"failRefused", "failUnknown"} /\ stateMutex = Free
  /\ sess' = WithCtrlFailed(sess, IF cpc = "failRefused" THEN "ctrlRefused" ELSE "ctrlUnknown")
  /\ Goto("failConnect") /\ RequestIsOver
  /\ UNCHANGED <<stateMutex, notifMutex>>

\* ctrl_failed of the thread function, whatever ctrl_connect_tcp reported.
CtrlConnectFails ==
  /\ cpc = "failConnect" /\ stateMutex = Free
  /\ sess' = WithCtrlFailed(sess, "ctrlConnect")
  /\ DropNotif /\ Goto("ended")
  /\ UNCHANGED <<ctrl, stateMutex>>

\* The HTTP request of ctrl_connect; one timeout is answered by a second try
\* on a new connection.  A failing RUDP ack writes the quit reason unlocked.
CtrlRequestReturns ==
  /\ cpc = "request"
  /\ \/ Goto("loop") /\ RequestIsOver /\ UNCHANGED <<sess, notifMutex>>
     \/ Goto("failConnect") /\ RequestIsOver /\ UNCHANGED <<sess, notifMutex>>
     \/ /\ Rudp
        /\ sess' = [sess EXCEPT !.reason = "request"]
        /\ Goto("failConnect") /\ RequestIsOver /\ UNCHANGED notifMutex
     \/ /\ ~ctrl.retried
        /\ ctrl' = [ctrl EXCEPT !.retried = TRUE]
        /\ IF Rudp THEN Goto("request") /\ UNCHANGED notifMutex
                   ELSE Goto("connect") /\ DropNotif
        /\ UNCHANGED sess
  /\ UNCHANGED stateMutex

-----------------------------------------------------------------------------
\* One message of the receive buffer is taken and its handler entered.
Entered == [sessionId |-> "checkId", badSessionId |-> "checkId",
            pinRequest |-> "pinReq", loginSuccess |-> "loop",
            pinIncorrect |-> IF ctrl.pinRequested THEN "pinAgain" ELSE "loop",
            switch |-> IF sess.switch THEN "loop" ELSE "switch",
            other |-> "loop", finish |-> "failStay", overflow |-> "failBreak"]
CtrlHandles ==
  /\ cpc = "loop" /\ ctrl.inbox # "none"
  /\ Goto(Entered[ctrl.inbox])
  /\ ctrl' = [ctrl EXCEPT
       !.inbox = IF @ \in {"sessionId", "badSessionId"} THEN @ ELSE "none",
       !.pinRequested = CASE ctrl.inbox = "pinRequest" -> TRUE
                          [] ctrl.inbox = "loginSuccess" -> FALSE
                          [] OTHER -> @]
  /\ UNCHANGED <<sess, stateMutex, notifMutex>>

\* ctrl_message_received_session_id looks for an earlier id ...
CtrlChecksId ==
  /\ cpc = "checkId" /\ stateMutex = Free
  /\ Goto(IF sess.id # "none" THEN "loop"
          ELSE IF ctrl.inbox = "sessionId" THEN "setId" ELSE "setFallback")
  /\ ctrl' = [ctrl EXCEPT !.inbox = "none"]
  /\ UNCHANGED <<sess, stateMutex, notifMutex>>

\* ... and stores its own in a second critical section.
CtrlSetsId ==
  /\ cpc \in {"setId", "setFallback"} /\ stateMutex = Free
  /\ sess' = IF cpc = "setId" THEN [sess EXCEPT !.id = "console"] ELSE WithFallbackId(sess)
  /\ Goto("loop")
  /\ UNCHANGED <<ctrl, stateMutex, notifMutex>>

\* A PIN request; once there is a session id it makes ctrl fail.
CtrlRequestsPin ==
  /\ cpc = "pinReq" /\ stateMutex = Free
  /\ IF sess.id # "none"
     THEN Goto("failStay") /\ UNCHANGED sess
     ELSE Goto("loop") /\ sess' = [sess EXCEPT !.pinRequested = TRUE]
  /\ UNCHANGED <<ctrl, stateMutex, notifMutex>>

\* The console rejects the PIN: the session is to ask again.
CtrlRequestsPinAgain ==
  /\ cpc = "pinAgain" /\ stateMutex = Free
  /\ sess' = [sess EXCEPT !.pinRequested = TRUE]
  /\ Goto("loop")
  /\ UNCHANGED <<ctrl, stateMutex, notifMutex>>

CtrlReportsSwitch ==
  /\ cpc = "switch" /\ stateMutex = Free
  /\ sess' = [sess EXCEPT !.switch = TRUE]
  /\ Goto("loop")
  /\ UNCHANGED <<ctrl, stateMutex, notifMutex>>

\* ctrl_failed in a handler (the loop goes on) or before the loop is left.
CtrlFails ==
  /\ cpc \in {"failStay", "failBreak"} /\ stateMutex = Free
  /\ sess' = WithCtrlFailed(sess, "ctrlUnknown")
  /\ IF cpc = "failStay" THEN Goto("loop") /\ UNCHANGED notifMutex
                         ELSE Goto("ended") /\ DropNotif
  /\ UNCHANGED <<ctrl, stateMutex>>

-----------------------------------------------------------------------------
HasWork == ctrl.stop \/ ctrl.queue > 0 \/ ctrl.pin

\* Before it selects, the thread looks for work and resets the pipe.
\* Slip: it does not look for a PIN.
SelectSlip ==
  IF ctrl.stop \/ ctrl.queue > 0
  THEN Goto("canceled") /\ UNCHANGED <<ctrl, notifMutex>>
  ELSE Goto("select") /\ DropNotif /\ ctrl' = [ctrl EXCEPT !.pipe = FALSE]
Select ==
  IF HasWork
  THEN Goto("canceled") /\ UNCHANGED <<ctrl, notifMutex>>
  ELSE Goto("select") /\ DropNotif /\ ctrl' = [ctrl EXCEPT !.pipe = FALSE]
CtrlSelects ==
  /\ cpc = "loop" /\ ctrl.inbox = "none"
  /\ Select
  /\ UNCHANGED <<sess, stateMutex>>

\* select returns; a signalled pipe goes before data.
CtrlPipeWakes ==
  /\ cpc = "select" /\ ctrl.pipe
  /\ Goto("wokenPipe")
  /\ UNCHANGED <<sess, ctrl, stateMutex, notifMutex>>
CtrlSocketWakes ==
  /\ cpc = "select" /\ ~ctrl.pipe
  /\ \E pc \in {"wokenData", "wokenEnd"} : Goto(pc)
  /\ UNCHANGED <<sess, ctrl, stateMutex, notifMutex>>

\* The thread has notif_mutex again and reads: a message or a failure.  A
\* closed connection or a select error leaves the loop without ctrl_failed.
CtrlRelocks ==
  /\ cpc \in {"wokenPipe", "wokenData", "wokenEnd"} /\ notifMutex = Free
  /\ \/ cpc = "wokenPipe" /\ TakeNotif /\ Goto("canceled") /\ UNCHANGED ctrl
     \/ /\ cpc = "wokenData" /\ TakeNotif /\ Goto("loop")
        /\ \E k \in Kinds : ctrl' = [ctrl EXCEPT !.inbox = k]
     \/ cpc = "wokenEnd" /\ TakeNotif /\ Goto("failBreak") /\ UNCHANGED ctrl
     \/ cpc = "wokenEnd" /\ Goto("ended") /\ UNCHANGED <<ctrl, notifMutex>>
  /\ UNCHANGED <<sess, stateMutex>>

MessageQueued == ctrl.queue > 0
\* After a wakeup: the queued messages, then the PIN, then the stop.
CtrlDrains ==
  /\ cpc = "canceled"
  /\ \/ /\ MessageQueued
        /\ ctrl' = [ctrl EXCEPT !.queue = @ - 1]
        /\ DropNotif /\ Goto("sending")
     \/ /\ ~MessageQueued /\ ctrl.pin
        /\ ctrl' = [ctrl EXCEPT !.pin = FALSE]
        /\ DropNotif /\ Goto("sendingPin")
     \/ /\ ~MessageQueued /\ ~ctrl.pin /\ ctrl.stop
        /\ DropNotif /\ Goto("ended") /\ UNCHANGED ctrl
     \/ /\ ~HasWork
        /\ Goto("loop") /\ UNCHANGED <<ctrl, notifMutex>>
  /\ UNCHANGED <<sess, stateMutex>>
CtrlHasSent ==
  /\ cpc \in {"sending", "sendingPin"} /\ TakeNotif
  /\ Goto(IF cpc = "sending" THEN "canceled" ELSE "loop")
  /\ UNCHANGED <<sess, ctrl, stateMutex>>

CtrlSteps ==
  \/ CtrlBegins \/ CtrlConnectReturns \/ CtrlTcpFails \/ CtrlConnectFails
  \/ CtrlRequestReturns \/ CtrlHandles \/ CtrlChecksId \/ CtrlSetsId
  \/ CtrlRequestsPin \/ CtrlRequestsPinAgain \/ CtrlReportsSwitch \/ CtrlFails
  \/ CtrlSelects \/ CtrlPipeWakes \/ CtrlRelocks \/ CtrlDrains \/ CtrlHasSent
=============================================================================
