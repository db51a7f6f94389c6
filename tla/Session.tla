------------------------------ MODULE Session ------------------------------
(***************************************************************************)
(* A session from start to the quit event: the session thread of           *)
(* session.c, the ctrl thread (Ctrl), the registration thread of a remote  *)
(* connection, and the application, which stops the session, enters PINs   *)
(* and queues messages.  The session thread holds state_mutex unless a     *)
(* comment says otherwise.                                                 *)
(***************************************************************************)
EXTENDS Ctrl

VARIABLES
  spc,       \* control state of the session thread
  rpc,       \* control state of the registration thread
  app,       \* pending signal of a queued message, and what was done
  reported   \* the reason of the quit event, or "not yet"

vars == <<conn, sess, ctrl, stateMutex, notifMutex, cpc, spc, rpc, app, reported>>
sessionVars == <<cpc, ctrl, notifMutex, rpc, app, reported>>

SessionPCs == {"start", "regist", "registJoin", "request", "delay", "ctrlWait",
               "ctrlWaitAgain", "pinWait", "pinForward", "punch", "dataWait",
               "fallback", "senkusha", "switchWait", "stream", "stopCtrl",
               "joinCtrl", "report", "ended"}
RegistPCs == {"off", "run", "succeeded", "failed", "done"}

TypeOK ==
  /\ SessTypeOK /\ CtrlTypeOK
  /\ stateMutex \in {Free, "session"} /\ notifMutex \in {Free, "ctrl"}
  /\ cpc \in CtrlPCs /\ spc \in SessionPCs /\ rpc \in RegistPCs
  /\ app \in [stop : {"no", "called", "done"}, signal : BOOLEAN,
              asked : BOOLEAN, messages : 0 .. MaxMessages]
  /\ reported \in Reasons \cup {"not yet"}

Init ==
  /\ SessInit /\ CtrlInit
  /\ stateMutex = Free /\ notifMutex = Free
  /\ cpc = "off" /\ spc = "start" /\ rpc = "off"
  /\ app = [stop |-> "no", signal |-> FALSE, asked |-> FALSE, messages |-> 0]
  /\ reported = "not yet"

SGoto(pc) == spc' = pc
\* The session thread unlocks (or keeps unlocked) and continues at pc.
Unlocked(pc) == stateMutex' = Free /\ SGoto(pc)
Locked(pc) == stateMutex' = "session" /\ SGoto(pc)
\* QUIT without, and CHECK_STOP with, the reason STOPPED.
Quit(pc) == Unlocked(pc) /\ UNCHANGED sess
QuitStopped(pc) == Unlocked(pc) /\ sess' = [sess EXCEPT !.reason = "stopped"]
\* The label ctrl_failed.
QuitCtrlFailed ==
  /\ Unlocked("stopCtrl")
  /\ sess' = [sess EXCEPT !.reason = IF @ = "none" THEN "ctrlUnknown" ELSE @]

-----------------------------------------------------------------------------
\* Up to the first wait: registration of a remote connection, or the request.
SessionBegins ==
  /\ spc = "start" /\ stateMutex = Free
  /\ \/ sess.stop /\ QuitStopped("report") /\ UNCHANGED rpc
     \/ /\ ~sess.stop /\ Rudp
        /\ rpc' = "run" /\ Quit("regist")
     \/ /\ ~sess.stop /\ ~Rudp
        /\ IF AutoRegist THEN QuitStopped("report") ELSE Quit("request")
        /\ UNCHANGED rpc
  /\ UNCHANGED <<cpc, ctrl, notifMutex, app, reported>>

\* The wait for the registration ends, by its predicate or after 10 s;
\* chiaki_regist_stop and chiaki_regist_fini follow with the mutex held.
RegistWaitEnds ==
  /\ spc = "regist" /\ stateMutex = Free
  /\ Locked("registJoin")
  /\ UNCHANGED <<sess, sessionVars>>

\* The registration thread has its result and calls back.
RegistFinishes ==
  /\ rpc = "run"
  /\ rpc' \in {"succeeded", "failed"}
  /\ UNCHANGED <<sess, ctrl, stateMutex, notifMutex, cpc, spc, app, reported>>
\* regist_cb.  A failed and a canceled registration do the same.
RegistCallsBack ==
  /\ rpc \in {"succeeded", "failed"} /\ stateMutex = Free
  /\ sess' = IF rpc = "succeeded" THEN [sess EXCEPT !.regist = TRUE]
                                  ELSE [sess EXCEPT !.reason = "regist", !.stop = TRUE]
  /\ rpc' = "done"
  /\ UNCHANGED <<ctrl, stateMutex, notifMutex, cpc, spc, app, reported>>

RegistJoined ==
  /\ spc = "registJoin" /\ rpc = "done"
  /\ IF sess.stop \/ AutoRegist THEN QuitStopped("report") ELSE Quit("request")
  /\ UNCHANGED sessionVars

\* session_thread_request_session returns for the last time: up to three tries
\* follow each other as long as the server reports another version.  Only the
\* stop pipe cancels them.
RequestReturns ==
  /\ spc = "request" /\ stateMutex = Free
  /\ \/ Quit("delay")
     \/ \E r \in {"request"} \cup (IF Rudp THEN {"none"} ELSE {}) :
          /\ sess' = [sess EXCEPT !.reason = r]
          /\ Unlocked("report")
     \/ sess.stopPipe /\ QuitStopped("report")
  /\ UNCHANGED <<cpc, ctrl, notifMutex, rpc, app, reported>>

\* After a short sleep ctrl is started; its thread may not come up.
StartsCtrl ==
  /\ spc = "delay" /\ stateMutex = Free
  /\ \/ cpc' = "start" /\ Quit("ctrlWait")
     \/ Quit("report") /\ UNCHANGED cpc
  /\ UNCHANGED <<ctrl, notifMutex, rpc, app, reported>>

-----------------------------------------------------------------------------
\* Past the PIN loop: the data socket of a remote connection, then the id.
AfterPin ==
  IF Rudp THEN Locked("punch")
  ELSE IF sess.id = "none" THEN Unlocked("fallback") ELSE Locked("senkusha")

\* The wait for the session id or a PIN request ends, by predicate or timeout.
\* Only the first of these waits is followed by a look at ctrl_failed.
CtrlWaitEnds ==
  /\ spc \in {"ctrlWait", "ctrlWaitAgain"} /\ stateMutex = Free
  /\ \/ sess.stop /\ QuitStopped("stopCtrl") /\ UNCHANGED app
     \/ /\ ~sess.stop /\ spc = "ctrlWait" /\ sess.ctrlFailed
        /\ QuitCtrlFailed /\ UNCHANGED app
     \/ /\ ~sess.stop /\ ~(spc = "ctrlWait" /\ sess.ctrlFailed)
        /\ sess.pinRequested
        /\ sess' = [sess EXCEPT !.pinRequested = FALSE]
        /\ app' = [app EXCEPT !.asked = TRUE]
        /\ Unlocked("pinWait")
     \/ /\ ~sess.stop /\ ~(spc = "ctrlWait" /\ sess.ctrlFailed)
        /\ ~sess.pinRequested
        /\ AfterPin /\ UNCHANGED <<sess, app>>
  /\ UNCHANGED <<cpc, ctrl, notifMutex, rpc, reported>>

\* The wait for the PIN has no timeout.
\* Slip: the wait ends at a new PIN request, too.
PinWaitPredSlip == PredPin \/ sess.pinRequested
PinWaitPred == PredPin
PinWaitEnds ==
  /\ spc = "pinWait" /\ stateMutex = Free /\ PinWaitPred
  /\ IF sess.stop THEN QuitStopped("stopCtrl")
     ELSE IF sess.ctrlFailed THEN QuitCtrlFailed
     ELSE Locked("pinForward") /\ UNCHANGED sess
  /\ UNCHANGED sessionVars

\* chiaki_ctrl_set_login_pin takes notif_mutex with state_mutex held.
ForwardsPin ==
  /\ spc = "pinForward" /\ notifMutex = Free
  /\ ctrl' = [ctrl EXCEPT !.pin = TRUE, !.pipe = TRUE]
  /\ sess' = [sess EXCEPT !.pin = FALSE]
  /\ Unlocked("ctrlWaitAgain")
  /\ UNCHANGED <<cpc, notifMutex, rpc, app, reported>>

\* The hole for the data socket is punched with the mutex held.
PunchesHole ==
  /\ spc = "punch"
  /\ Quit("dataWait") \/ Quit("stopCtrl")
  /\ UNCHANGED sessionVars
DataWaitEnds ==
  /\ spc = "dataWait" /\ stateMutex = Free
  /\ IF sess.stop THEN QuitStopped("stopCtrl")
     ELSE IF sess.id = "none" THEN Quit("fallback")
     ELSE Locked("senkusha") /\ UNCHANGED sess
  /\ UNCHANGED sessionVars

\* No id came: the session thread sets one itself, or fails to.
SetsFallbackId ==
  /\ spc = "fallback" /\ stateMutex = Free
  /\ \/ sess' = WithFallbackId(sess) /\ Locked("senkusha")
     \/ QuitCtrlFailed
  /\ UNCHANGED sessionVars

\* Senkusha runs with the mutex held; its failure is not fatal, except when
\* it cannot be set up.  A remote connection then waits for the switch.
SenkushaReturns ==
  /\ spc = "senkusha"
  /\ \/ Quit("stopCtrl")
     \/ /\ sess.stop /\ QuitStopped("stopCtrl")
     \/ /\ ~sess.stop /\ ~sess.ctrlFailed
        /\ IF Rudp THEN Quit("switchWait") ELSE Quit("stream")
  /\ UNCHANGED sessionVars

\* The switch is looked at before the stop.
SwitchWaitEnds ==
  /\ spc = "switchWait" /\ stateMutex = Free
  /\ IF ~sess.switch THEN Quit("stopCtrl")
     ELSE IF sess.stop THEN QuitStopped("stopCtrl")
     ELSE Quit("stream") \/ Quit("stopCtrl")
  /\ UNCHANGED sessionVars

\* chiaki_stream_connection_run returns; it ends as stopped only after
\* chiaki_session_stop.
StreamEnds ==
  /\ spc = "stream" /\ stateMutex = Free
  /\ \E r \in {"remote", "stream"} \cup (IF sess.stopPipe THEN {"stopped"} ELSE {}) :
       sess' = [sess EXCEPT !.reason = r]
  /\ Unlocked("stopCtrl")
  /\ UNCHANGED sessionVars

\* Slip: the flag is set and the pipe is not signalled.
StoppedCtrlSlip == [ctrl EXCEPT !.stop = TRUE]
StoppedCtrl == [ctrl EXCEPT !.stop = TRUE, !.pipe = TRUE]
\* chiaki_ctrl_stop and chiaki_ctrl_join.
StopsCtrl ==
  /\ spc = "stopCtrl" /\ notifMutex = Free
  /\ ctrl' = StoppedCtrl
  /\ SGoto("joinCtrl")
  /\ UNCHANGED <<sess, stateMutex, cpc, notifMutex, rpc, app, reported>>
\* Slip: a ctrl thread that could not connect is not waited for.
CtrlIsGoneSlip == cpc \in {"ended", "failConnect"}
CtrlIsGone == cpc = "ended"
JoinsCtrl ==
  /\ spc = "joinCtrl" /\ CtrlIsGone
  /\ SGoto("report")
  /\ UNCHANGED <<sess, stateMutex, sessionVars>>
ReportsQuit ==
  /\ spc = "report" /\ stateMutex = Free
  /\ reported' = sess.reason
  /\ SGoto("ended")
  /\ UNCHANGED <<sess, stateMutex, cpc, ctrl, notifMutex, rpc, app>>

SessionSteps ==
  \/ SessionBegins \/ RegistWaitEnds \/ RegistJoined \/ RequestReturns \/ StartsCtrl
  \/ CtrlWaitEnds \/ PinWaitEnds \/ ForwardsPin \/ PunchesHole \/ DataWaitEnds
  \/ SetsFallbackId \/ SenkushaReturns \/ SwitchWaitEnds \/ StreamEnds
  \/ StopsCtrl \/ JoinsCtrl \/ ReportsQuit
RegistSteps == RegistFinishes \/ RegistCallsBack

-----------------------------------------------------------------------------
\* The application: chiaki_session_stop, chiaki_session_set_login_pin after a
\* request, and, while it streams, chiaki_ctrl_send_message, which signals
\* after the unlock.
CallsStop ==
  /\ app.stop = "no"
  /\ app' = [app EXCEPT !.stop = "called"]
  /\ UNCHANGED <<sess, stateMutex, spc, cpc, ctrl, notifMutex, rpc, reported>>
Stop ==
  /\ app.stop = "called" /\ stateMutex = Free
  /\ sess' = [sess EXCEPT !.stop = TRUE, !.stopPipe = TRUE]
  /\ app' = [app EXCEPT !.stop = "done"]
  /\ UNCHANGED <<stateMutex, spc, cpc, ctrl, notifMutex, rpc, reported>>
SetLoginPin ==
  /\ app.asked /\ stateMutex = Free
  /\ sess' = [sess EXCEPT !.pin = TRUE]
  /\ UNCHANGED <<stateMutex, spc, sessionVars>>
QueuesMessage ==
  /\ spc = "stream" /\ ~app.signal /\ app.messages < MaxMessages /\ notifMutex = Free
  /\ ctrl' = [ctrl EXCEPT !.queue = @ + 1]
  /\ app' = [app EXCEPT !.signal = TRUE, !.messages = @ + 1]
  /\ UNCHANGED <<sess, stateMutex, spc, cpc, notifMutex, rpc, reported>>
SignalsMessage ==
  /\ app.signal
  /\ ctrl' = [ctrl EXCEPT !.pipe = TRUE]
  /\ app' = [app EXCEPT !.signal = FALSE]
  /\ UNCHANGED <<sess, stateMutex, spc, cpc, notifMutex, rpc, reported>>

CtrlThread(steps) == steps /\ UNCHANGED <<spc, rpc, app, reported>>
AppSteps == CallsStop \/ Stop \/ SetLoginPin \/ QueuesMessage \/ SignalsMessage
Next ==
  /\ \/ SessionSteps \/ RegistSteps
     \/ CtrlThread(CtrlSteps) \/ CtrlThread(CtrlSocketWakes)
     \/ AppSteps
  /\ UNCHANGED conn

-----------------------------------------------------------------------------
(***************************************************************************)
(* Fairness: every thread is scheduled, the session's own waits and        *)
(* network operations return (each has a timeout), and who waits for a     *)
(* mutex that others take again and again gets it.  None for the console,  *)
(* whose messages may never come, nor for the user, except that a call     *)
(* once made goes on, nor for the three calls in which the session thread  *)
(* is in another part of the library, which may not return: the wait of    *)
(* the hole punching for an acknowledgement (holepunch.c:5222) has no      *)
(* timeout, and senkusha and the stream close a Takion that may wait for   *)
(* ever for its resend thread (takionsendbuffer.c:71).                     *)
(***************************************************************************)
Elsewhere == {"punch", "senkusha", "stream"}
SessionGoesOn == SessionSteps /\ spc \notin Elsewhere /\ UNCHANGED conn
Spec ==
  /\ Init /\ [][Next]_vars
  /\ WF_vars(SessionGoesOn)
  /\ WF_vars(RegistSteps /\ UNCHANGED conn)
  /\ WF_vars(CtrlThread(CtrlSteps) /\ UNCHANGED conn)
  /\ WF_vars(SignalsMessage /\ UNCHANGED conn)
  /\ SF_vars(Stop /\ UNCHANGED conn)
  /\ SF_vars((ForwardsPin \/ StopsCtrl) /\ UNCHANGED conn)

-----------------------------------------------------------------------------
\* The two ways in which threads of a session wait for each other for ever:
\* state_mutex and notif_mutex taken crosswise, and the registration thread
\* joined with the mutex held that its callback needs.
WantsState == {"failRefused", "failUnknown", "failConnect", "checkId", "setId",
               "setFallback", "pinReq", "pinAgain", "switch", "failStay", "failBreak"}
LockCycle == spc = "pinForward" /\ notifMutex = "ctrl" /\ cpc \in WantsState
JoinCycle == spc = "registJoin" /\ rpc \in {"succeeded", "failed"}

\* In a call that may not return.  chiaki_session_stop cannot get the mutex
\* from the first two and cancels neither; it stops the stream.
MayNotReturn == spc \in {"punch", "senkusha"} \/ (spc = "stream" /\ sess.stopPipe)

\* A session that the application stops reports its end, from whatever point
\* of its life, unless one of the two cycles holds its threads or one of the
\* calls at session.c:582, 626 and 682 does not return: from one that does it
\* goes on to its end or to the next of them.
StopEndsTheSession ==
  app.stop # "no" ~> (spc = "ended" \/ LockCycle \/ JoinCycle \/ MayNotReturn)

\* The quit event carries the last word: when it is sent, no thread is left
\* that could still change the quit reason (session.c:712-723).
ReportedReasonIsFinal == [][reported # "not yet" => sess'.reason = sess.reason]_vars

\* The assertion of session.c:556: a PIN is there when it is forwarded,
\* though stops, failures and new requests signal the same condition.
PinIsThereWhenForwarded == spc = "pinForward" => sess.pin

\* The ctrl thread never sleeps on work: whoever left some while it selects
\* has signalled its pipe, or is about to.
NoWorkWaitsUnsignalled == cpc = "select" /\ HasWork => ctrl.pipe \/ app.signal
=============================================================================
