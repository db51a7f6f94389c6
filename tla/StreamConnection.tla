-------------------------- MODULE StreamConnection --------------------------
(***************************************************************************)
(* chiaki_stream_connection_run with the threads around it: the Takion     *)
(* thread (TakionThread), whose callbacks change the state it waits for,   *)
(* congestion control, the feedback sender, an input thread that sets the  *)
(* controller state, and the application that stops.                       *)
(*                                                                         *)
(* state_mutex is held by the running thread in the control states of      *)
(* HoldsStateMutex and never across a step of a callback, so that both     *)
(* mutexes are derived from control states.                                *)
(***************************************************************************)
EXTENDS TakionThread

VARIABLES
  mpc,      \* control state of chiaki_stream_connection_run
  sc,       \* state, state_finished, should_stop, remote_disconnected and the
            \* streaminfo that came early, under state_mutex
  err,      \* the local variable of the running thread, and what it returns
  cc,       \* thread of the congestion control
  fb,       \* thread of the feedback sender
  fbActive, \* feedback_sender_active, under feedback_sender_mutex
  ipc       \* control state of an input thread

streamVars == <<mpc, sc, err, cc, fb, fbActive, ipc>>
vars == <<takionVars, streamVars>>

RunPCs == {"start", "connect", "startCc", "waitConnect", "waitBang", "waitInfo",
           "initFb", "event", "idle", "finiFb", "joinFb", "disconnect", "stopCc",
           "joinCc", "close", "joinTakion", "returned", "fini", "finished"}
States == {"IDLE", "TAKION_CONNECT", "EXPECT_BANG", "EXPECT_STREAMINFO"}
Errors == {"success", "timeout", "unknown", "canceled", "disconnected"}

TypeOK ==
  /\ TakionTypeOK
  /\ mpc \in RunPCs /\ err \in Errors
  /\ sc \in [state : States, finished : BOOLEAN, stop : BOOLEAN, remote : BOOLEAN,
             early : {"none", "streaminfo", "badStreaminfo"}]
  /\ cc \in {"off", "waiting", "sending", "told", "ended"}
  /\ fb \in {"off", "running", "told", "ended"} /\ fbActive \in BOOLEAN
  /\ ipc \in {"out", "locked", "using"}

Init ==
  /\ TakionInit
  /\ mpc = "start" /\ err = "success"
  /\ sc = [state |-> "IDLE", finished |-> FALSE, stop |-> FALSE, remote |-> FALSE,
           early |-> "none"]
  /\ cc = "off" /\ fb = "off" /\ fbActive = FALSE /\ ipc = "out"

MGoto(pc) == mpc' = pc
\* Slip: it is held while Takion is closed.
HoldsStateMutexSlip ==
  mpc \in {"connect", "startCc", "initFb", "finiFb", "joinFb", "disconnect", "stopCc",
           "joinCc", "close", "joinTakion"}
\* Where the running thread holds state_mutex between two of its steps.
HoldsStateMutex ==
  mpc \in {"connect", "startCc", "initFb", "finiFb", "joinFb", "disconnect", "stopCc",
           "joinCc"}
FeedbackMutexFree == ipc = "out" /\ mpc # "joinFb"

\* The wait for state_finished_cond_check ends; after the timeout the
\* predicate is not looked at again.
WaitEnds(e) ==
  \/ e = "success" /\ (sc.finished \/ sc.stop \/ sc.remote)
  \/ e = "timeout"

\* The receivers are there, the state is set and Takion is connected, with
\* the mutex held.
Starts ==
  /\ mpc = "start"
  /\ sc' = [sc EXCEPT !.state = "TAKION_CONNECT", !.finished = FALSE]
  /\ MGoto("connect")
  /\ UNCHANGED <<takionVars, err, cc, fb, fbActive, ipc>>
Connects ==
  /\ mpc = "connect"
  /\ \/ TakionConnects /\ MGoto("startCc") /\ UNCHANGED err
     \/ MGoto("returned") /\ err' = "unknown" /\ UNCHANGED takionVars
  /\ UNCHANGED <<sc, cc, fb, fbActive, ipc>>
StartsCongestionControl ==
  /\ mpc = "startCc"
  /\ \/ cc' = "waiting" /\ MGoto("waitConnect") /\ UNCHANGED err
     \/ UNCHANGED cc /\ MGoto("close") /\ err' = "unknown"
  /\ UNCHANGED <<takionVars, sc, fb, fbActive, ipc>>

\* Connected: big is sent and the bang expected.  A stop at this point passes
\* over the congestion control, and a timeout wins over it as the result.
SendsBig == console' = IF console = "quiet" THEN "asked" ELSE console
ConnectWaitEnds ==
  /\ mpc = "waitConnect"
  /\ \E e \in {"success", "timeout"} :
       /\ WaitEnds(e)
       /\ \/ /\ sc.stop
             /\ MGoto("close") /\ err' = e /\ UNCHANGED <<sc, console>>
          \/ /\ ~sc.stop /\ e = "timeout"
             /\ MGoto("stopCc") /\ err' = e /\ UNCHANGED <<sc, console>>
          \/ /\ ~sc.stop /\ e = "success"
             /\ sc' = [sc EXCEPT !.state = "EXPECT_BANG", !.finished = FALSE]
             /\ \/ SendsBig /\ MGoto("waitBang") /\ err' = e
                \/ UNCHANGED console /\ MGoto("disconnect") /\ err' = "unknown"
  /\ UNCHANGED <<tpc, tries, tev, keys, postponed, pipe, rpc, cc, fb, fbActive, ipc>>

\* The bang has come: a streaminfo that came before is handled at once.
\* Slip: what came early is thrown away.
EarlyInfoSlip == [sc EXCEPT !.state = "EXPECT_STREAMINFO", !.finished = FALSE, !.early = "none"]
EarlyInfo == [sc EXCEPT !.state = "EXPECT_STREAMINFO", !.finished = sc.early = "streaminfo",
                        !.early = "none"]
BangWaitEnds ==
  /\ mpc = "waitBang"
  /\ \E e \in {"success", "timeout"} :
       /\ WaitEnds(e)
       /\ IF sc.stop \/ ~sc.finished
          THEN MGoto("disconnect") /\ err' = "unknown" /\ UNCHANGED sc
          ELSE /\ sc' = EarlyInfo /\ err' = e
               /\ MGoto(IF sc'.finished THEN "initFb" ELSE "waitInfo")
  /\ UNCHANGED <<takionVars, cc, fb, fbActive, ipc>>
\* A stop is looked at after the streaminfo that came early, too.
InfoWaitEnds ==
  /\ mpc = "waitInfo"
  /\ \E e \in {"success", "timeout"} :
       /\ WaitEnds(e)
       /\ IF sc.stop \/ ~sc.finished
          THEN MGoto("disconnect") /\ err' = "unknown"
          ELSE MGoto("initFb") /\ err' = e
  /\ UNCHANGED <<takionVars, sc, cc, fb, fbActive, ipc>>

\* The feedback sender is started; the state is idle from here on.
BecomesIdle == [sc EXCEPT !.state = "IDLE", !.finished = FALSE]
InitsFeedback ==
  /\ mpc = "initFb" /\ FeedbackMutexFree
  /\ \/ /\ fb' = "running" /\ fbActive' = TRUE
        /\ sc' = BecomesIdle
        /\ MGoto("event") /\ UNCHANGED err
     \/ /\ UNCHANGED <<fb, fbActive, sc>>
        /\ MGoto("disconnect") /\ err' = "unknown"
  /\ UNCHANGED <<takionVars, cc, ipc>>
\* The CONNECTED event of the session is sent without the mutex.
SendsEvent ==
  /\ mpc = "event"
  /\ MGoto("idle")
  /\ UNCHANGED <<takionVars, sc, err, cc, fb, fbActive, ipc>>

\* The heartbeat loop ends; the heartbeats change no state.
IdleEnds ==
  /\ mpc = "idle" /\ WaitEnds("success")
  /\ MGoto("finiFb")
  /\ UNCHANGED <<takionVars, sc, err, cc, fb, fbActive, ipc>>
\* Slip: the flag that input threads look at stays set.
ActiveAfterSlip == fbActive
ActiveAfter == FALSE
FinishesFeedback ==
  /\ mpc = "finiFb" /\ FeedbackMutexFree
  /\ fbActive' = ActiveAfter /\ fb' = "told"
  /\ MGoto("joinFb")
  /\ UNCHANGED <<takionVars, sc, err, cc, ipc>>
JoinsFeedback ==
  /\ mpc = "joinFb" /\ fb = "ended"
  /\ fb' = "off" /\ err' = "success"
  /\ MGoto("disconnect")
  /\ UNCHANGED <<takionVars, sc, cc, fbActive, ipc>>

\* The label disconnect: an early streaminfo is freed, the result decided.
Disconnects ==
  /\ mpc = "disconnect"
  /\ sc' = [sc EXCEPT !.early = "none"]
  /\ err' = CASE sc.stop -> "canceled" [] ~sc.stop /\ sc.remote -> "disconnected" [] OTHER -> err
  /\ MGoto("stopCc")
  /\ UNCHANGED <<takionVars, cc, fb, fbActive, ipc>>
\* chiaki_congestion_control_stop: the flag is set under the mutex that the
\* thread holds while it sends.
StopsCongestionControl ==
  /\ mpc \in {"stopCc", "fini"} /\ cc = "waiting"
  /\ cc' = "told"
  /\ UNCHANGED <<mpc, takionVars, sc, err, fb, fbActive, ipc>>
JoinsCongestionControl ==
  /\ mpc = "stopCc" /\ cc = "ended"
  /\ MGoto("close")
  /\ UNCHANGED <<takionVars, sc, err, cc, fb, fbActive, ipc>>
\* state_mutex is free when Takion is closed.
ClosesTakion ==
  /\ mpc = "close"
  /\ TakionIsTold /\ MGoto("joinTakion")
  /\ UNCHANGED <<sc, err, cc, fb, fbActive, ipc>>
JoinsTakion ==
  /\ mpc = "joinTakion" /\ TakionIsGone
  /\ MGoto("returned")
  /\ UNCHANGED <<takionVars, sc, err, cc, fb, fbActive, ipc>>

RunSteps ==
  \/ Connects \/ StartsCongestionControl \/ ConnectWaitEnds \/ BangWaitEnds
  \/ InfoWaitEnds \/ SendsEvent \/ IdleEnds \/ JoinsFeedback \/ Disconnects
  \/ StopsCongestionControl \/ JoinsCongestionControl \/ ClosesTakion \/ JoinsTakion
FeedbackLocks == InitsFeedback \/ FinishesFeedback

\* chiaki_stream_connection_fini stops what a run has left behind.
Finishes ==
  /\ mpc \in {"returned", "fini"}
  /\ IF cc \in {"off", "ended"} THEN MGoto("finished") ELSE mpc = "returned" /\ MGoto("fini")
  /\ UNCHANGED <<takionVars, sc, err, cc, fb, fbActive, ipc>>

-----------------------------------------------------------------------------
\* The callback of Takion, with state_mutex held.
Handled(ev) ==
  CASE ev \in {"connected", "over"} ->
         IF sc.state = "TAKION_CONNECT" THEN [sc EXCEPT !.finished = ev = "connected"] ELSE sc
    [] ev = "disconnect" -> [sc EXCEPT !.remote = TRUE]
    [] ev = "bang" /\ sc.state = "EXPECT_BANG" -> [sc EXCEPT !.finished = TRUE]
    [] ev \in {"streaminfo", "badStreaminfo"} /\ sc.state = "EXPECT_BANG" ->
         [sc EXCEPT !.early = IF @ = "none" THEN ev ELSE @]
    [] ev = "streaminfo" /\ sc.state = "EXPECT_STREAMINFO" -> [sc EXCEPT !.finished = TRUE]
    [] OTHER -> sc
Callback ==
  /\ tev # "none"
  /\ tev = "av" \/ ~HoldsStateMutex
  /\ sc' = IF tev = "av" THEN sc ELSE Handled(tev)
  /\ keys' = (keys \/ (tev = "bang" /\ sc.state = "EXPECT_BANG"))
  /\ tev' = "none"
  /\ UNCHANGED <<tpc, tries, postponed, pipe, console, rpc, mpc, err, cc, fb, fbActive, ipc>>

\* The congestion control thread, which reports every 200 ms.
CongestionSends ==
  /\ cc \in {"waiting", "sending"}
  /\ cc' = IF cc = "waiting" THEN "sending" ELSE "waiting"
  /\ UNCHANGED <<takionVars, mpc, sc, err, fb, fbActive, ipc>>
CongestionEnds ==
  /\ cc = "told" /\ cc' = "ended"
  /\ UNCHANGED <<takionVars, mpc, sc, err, fb, fbActive, ipc>>
FeedbackEnds ==
  /\ fb = "told" /\ fb' = "ended"
  /\ UNCHANGED <<takionVars, mpc, sc, err, cc, fbActive, ipc>>

\* chiaki_session_set_controller_state.
InputLocks ==
  /\ ipc = "out" /\ FeedbackMutexFree
  /\ ipc' = IF fbActive THEN "using" ELSE "locked"
  /\ UNCHANGED <<takionVars, mpc, sc, err, cc, fb, fbActive>>
InputUnlocks ==
  /\ ipc \in {"locked", "using"} /\ ipc' = "out"
  /\ UNCHANGED <<takionVars, mpc, sc, err, cc, fb, fbActive>>
Stops ==
  /\ ~sc.stop /\ ~HoldsStateMutex
  /\ sc' = [sc EXCEPT !.stop = TRUE]
  /\ UNCHANGED <<takionVars, mpc, err, cc, fb, fbActive, ipc>>

TakionOnly(steps) == steps /\ UNCHANGED streamVars
Next ==
  \/ Starts \/ RunSteps \/ FeedbackLocks \/ Finishes
  \/ TakionOnly(TakionSteps) \/ TakionOnly(ResendSteps)
  \/ Callback \/ CongestionSends \/ CongestionEnds \/ FeedbackEnds
  \/ InputLocks \/ InputUnlocks \/ Stops

(***************************************************************************)
(* Fairness: every thread is scheduled and every wait but that of the      *)
(* heartbeat loop, which only ends by its predicate, has a timeout.  Who   *)
(* waits for a mutex others take again and again gets it.  The video queue *)
(* empties, so that its timer does not keep the thread from the stop pipe. *)
(* Nothing need ever wake the resend thread from its wait without timeout. *)
(***************************************************************************)
Spec ==
  /\ Init /\ [][Next]_vars
  /\ WF_vars(RunSteps) /\ SF_vars(StopsCongestionControl) /\ SF_vars(FeedbackLocks)
  /\ WF_vars(TakionOnly(TakionSteps)) /\ SF_vars(TakionOnly(RecvCanceled))
  /\ WF_vars(TakionOnly(ResendSleeps \/ ResendEnds))
  /\ WF_vars(Callback) /\ WF_vars(CongestionSends) /\ WF_vars(CongestionEnds)
  /\ WF_vars(FeedbackEnds) /\ WF_vars(InputUnlocks)

-----------------------------------------------------------------------------
\* The Takion thread keeps the promise its user relies on: one CONNECTED at
\* most, one DISCONNECT, last, and after every close but that of a thread that
\* waits for ever for its resend thread (takionsendbuffer.c:71).
Promise == INSTANCE TakionEvents WITH phase <- Phase, event <- Event, closing <- pipe
KeepsTakionPromise == Promise!Spec

\* A stop ends a run that has begun, from whatever point, with every thread
\* the run has started joined or left to fini, unless the resend thread has
\* missed the stop and sleeps (takionsendbuffer.c:71): no other wait of the run
\* lasts, and a run whose resend thread is woken again ends as well, since that
\* thread misses one stop at most.
StopEndsTheRun ==
  sc.stop /\ mpc # "start" ~>
    mpc \in {"returned", "fini", "finished"} \/ ResendThreadMissedStop

\* A streaminfo is not lost when it is handled before the running thread has
\* noticed the bang, that is, while the bang is still expected
\* (streamconnection.c:776): who waits for one has not had it.
StreaminfoIsNotMissed ==
  mpc = "waitInfo" /\ console = "informed" /\ tev # "streaminfo" => sc.finished

\* An input thread that has seen feedback_sender_active uses a sender whose
\* thread and mutex are there (session.c:344).
InputUsesALiveSender == ipc = "using" => fb = "running"

=============================================================================
