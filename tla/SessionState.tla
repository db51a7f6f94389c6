---------------------------- MODULE SessionState ----------------------------
(***************************************************************************)
(* What the threads of a session share: the flags and the quit reason of   *)
(* ChiakiSession under state_mutex, and the part of ChiakiCtrl under       *)
(* notif_mutex.  A mutex is the name of the thread that holds it.  A wait  *)
(* on state_cond has one waiter, the session thread, which evaluates its   *)
(* predicate with the mutex held; signals are therefore not represented.   *)
(***************************************************************************)
EXTENDS Naturals

CONSTANTS
  MaxMessages   \* bound: messages the application queues for ctrl

ASSUME MaxMessagesAssumption == MaxMessages \in Nat

VARIABLES
  conn,         \* the kind of connection: over PSN or not, to register only or not
  sess,         \* flags and quit reason of the session
  ctrl,         \* flags, message queue and pipe of ctrl
  stateMutex,   \* holder of session->state_mutex
  notifMutex    \* holder of ctrl->notif_mutex

Free == "free"
Rudp == conn.rudp
AutoRegist == conn.autoRegist
Reasons == {"none", "stopped", "request", "ctrlUnknown", "ctrlRefused",
            "ctrlConnect", "stream", "remote", "regist"}
IdSources == {"none", "console", "fallback"}

SessTypeOK ==
  /\ conn \in [rudp : BOOLEAN, autoRegist : BOOLEAN]
  /\ sess \in [stop : BOOLEAN, stopPipe : BOOLEAN, ctrlFailed : BOOLEAN,
               id : IdSources, pinRequested : BOOLEAN, pin : BOOLEAN,
               switch : BOOLEAN, regist : BOOLEAN, reason : Reasons]
CtrlTypeOK ==
  ctrl \in [stop : BOOLEAN, pin : BOOLEAN, pinRequested : BOOLEAN,
            queue : 0 .. MaxMessages, pipe : BOOLEAN, retried : BOOLEAN,
            inbox : {"none", "sessionId", "badSessionId", "pinRequest",
                     "loginSuccess", "pinIncorrect", "switch", "other",
                     "finish", "overflow"}]

SessInit ==
  /\ conn \in [rudp : BOOLEAN, autoRegist : BOOLEAN]
  /\ sess = [stop |-> FALSE, stopPipe |-> FALSE, ctrlFailed |-> FALSE, id |-> "none",
             pinRequested |-> FALSE, pin |-> FALSE, switch |-> FALSE, regist |-> FALSE,
             reason |-> "none"]
CtrlInit ==
  ctrl = [stop |-> FALSE, pin |-> FALSE, pinRequested |-> FALSE, queue |-> 0,
          pipe |-> FALSE, retried |-> FALSE, inbox |-> "none"]

\* What the session thread waits for without a timeout.  Its other waits may
\* end at any time.
PredState == sess.stop \/ sess.ctrlFailed
PredPin == PredState \/ sess.pin

\* ctrl_message_set_fallback_session_id: an id that is there already stays.
WithFallbackId(s) == IF s.id = "none" THEN [s EXCEPT !.id = "fallback"] ELSE s

\* ctrl_failed: the reason is replaced, whatever it was.
WithCtrlFailed(s, reason) == [s EXCEPT !.ctrlFailed = TRUE, !.reason = reason]
=============================================================================
