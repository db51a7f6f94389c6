------------------------- MODULE DesktopSession -------------------------
(***************************************************************************)
(* The session of the desktop client from the side of its user interface   *)
(* (qmlbackend.cpp, streamsession.cpp and the views that call them).  Each *)
(* handler of the main thread is one step: what the user does, timers,     *)
(* system sleep, discovery, and what other threads post to it: the thread  *)
(* of the session, whose events come in order, and the worker that         *)
(* punches the hole of a remote session.                                   *)
(*                                                                         *)
(* Hosts are consoles of the local network, known by one name to discovery *)
(* and settings, or "psn".  How a session goes is open, and neither the    *)
(* worker nor the thread of a session need ever return.  The destructor of *)
(* a session joins its thread, which has ended or never begun.  A session  *)
(* that cannot be made or started is left out, and so are profiles and the *)
(* wake state kept on Windows.                                             *)
(***************************************************************************)
EXTENDS Naturals, Sequences

CONSTANTS Consoles, MaxStreams, MaxSleeps, MaxRestarts, ReconnectTries, MaxTokens

VARIABLES
  desk,       \* the fields of QmlBackend; session 0 is the null pointer
  ses,        \* the StreamSession desk.session points to
  view,       \* the page shown, with its timers
  worker,     \* the session the PSN worker connects, 0 for none
  posted,     \* events posted to the main thread
  tokens,     \* refreshes of the PSN token under way
  power       \* of each console, and of this computer

desktopVars == <<desk, ses, view, worker, posted, tokens, power>>

Hosts == Consoles \cup {"psn"}

NoSes == [th |-> "new", stop |-> FALSE, connected |-> FALSE, connecting |-> FALSE,
          restarts |-> 0, due |-> FALSE]

(* A view may be closed by the user 1.5 s after it came. *)
NewView(page) == [page |-> page, mayClose |-> "early", closing |-> FALSE]

DesktopInit ==
  /\ \E auto \in Consoles \cup {"none"} :
       /\ desk = [session |-> 0, made |-> 0, info |-> "none", wakeNick |-> "none",
                  wakeStart |-> FALSE, wakeTimer |-> FALSE, resume |-> FALSE,
                  reconnect |-> FALSE, tries |-> 0, discovery |-> TRUE,
                  autoMac |-> auto, autoTimer |-> auto # "none"]
       /\ view = NewView(IF auto = "none" THEN "main" ELSE "auto")
  /\ ses = NoSes
  /\ worker = 0
  /\ posted = <<>>
  /\ tokens = [asked |-> 0, reconnect |-> 0]
  /\ power \in [on : [Consoles -> BOOLEAN], asleep : {FALSE}, sleeps : {0}]

(* The view of a remote connection closes after the failure was shown for  *)
(* 2 s.                                                                    *)
ConnectFailed(v) == IF v.page = "psn" THEN [v EXCEPT !.closing = TRUE] ELSE v

(* startSession: the thread begins, the stream is shown. *)
StartSession(d, s) ==
  /\ desk' = d
  /\ ses' = [s EXCEPT !.th = "starting", !.connecting = TRUE]
  /\ view' = NewView("stream")

(* What createSession does without a session: a remote one is handed to    *)
(* the worker, one whose console was woken waits for it, others start.     *)
NewSession(d, host) ==
  LET n == d.made + 1
      f == [d EXCEPT !.session = n, !.made = n, !.info = host]
  IN /\ n <= MaxStreams
     /\ \/ /\ host = "psn"
           /\ desk' = [f EXCEPT !.discovery = FALSE]
           /\ view' = NewView("psn")
           /\ ses' = NoSes
           /\ worker' = n
        \/ /\ host # "psn" /\ d.wakeNick # "none"
           /\ desk' = [f EXCEPT !.wakeStart = TRUE, !.wakeTimer = TRUE]
           /\ view' = NewView("auto")
           /\ ses' = NoSes
           /\ UNCHANGED worker
        \/ /\ host # "psn" /\ d.wakeNick = "none"
           /\ StartSession(f, NoSes)
           /\ UNCHANGED worker

\* Slip: replaces the session there is.
CreateSessionAnyway(d, v, host) == NewSession([d EXCEPT !.autoMac = "none"], host)

(* createSession for a backend that was changed to d and a view that is v: *)
(* a session there is goes on.                                             *)
CreateSession(d, v, host) ==
  \/ /\ d.session # 0
     /\ desk' = [d EXCEPT !.autoMac = "none"]
     /\ view' = v
     /\ UNCHANGED <<ses, worker>>
  \/ /\ d.session = 0
     /\ NewSession([d EXCEPT !.autoMac = "none"], host)

(* connectToHost: a console in standby is woken; a PSN token that has      *)
(* expired is refreshed before anything else happens.                      *)
ConnectToHost(d, host) ==
  \/ /\ host # "psn"
     /\ CreateSession([d EXCEPT !.resume = FALSE,
                         !.wakeNick = IF power.on[host] THEN @ ELSE host], view, host)
     /\ UNCHANGED tokens
  \/ /\ host = "psn"
     /\ CreateSession([d EXCEPT !.resume = FALSE], view, host)
     /\ UNCHANGED tokens
  \/ /\ host = "psn" /\ tokens.asked < 1
     /\ desk' = [d EXCEPT !.resume = FALSE]
     /\ tokens' = [tokens EXCEPT !.asked = @ + 1]
     /\ UNCHANGED <<ses, view, worker>>

UserConnects ==
  /\ view.page = "main"
  /\ \E host \in Hosts : ConnectToHost(desk, host)
  /\ UNCHANGED <<posted, power>>

(* The answer to a refresh that connectToHost asked for. *)
AskedTokenComes ==
  /\ tokens.asked > 0
  /\ tokens' = [tokens EXCEPT !.asked = @ - 1]
  /\ \/ CreateSession(desk, view, "psn")
     \/ UNCHANGED <<desk, ses, view, worker>>
  /\ UNCHANGED <<posted, power>>

(* updateDiscoveryHosts: the session that waits for its console starts     *)
(* when it is ready; a console found in standby while a session connects   *)
(* is woken; the console to connect to at the start is there.              *)
UpdateDiscoveryHosts ==
  /\ desk.discovery
  /\ \/ /\ desk.wakeStart /\ desk.session # 0
        /\ desk.info = desk.wakeNick /\ power.on[desk.info]
        /\ StartSession([desk EXCEPT !.wakeNick = "none", !.wakeStart = FALSE,
                                     !.wakeTimer = FALSE], ses)
        /\ UNCHANGED <<worker, tokens>>
     \/ /\ desk.session # 0 /\ desk.info \in Consoles
        /\ ~power.on[desk.info] /\ ses.connecting
        /\ desk' = [desk EXCEPT !.wakeNick = desk.info]
        /\ UNCHANGED <<ses, view, worker, tokens>>
     \/ /\ desk.autoMac # "none"
        /\ ConnectToHost([desk EXCEPT !.autoTimer = FALSE], desk.autoMac)
  /\ UNCHANGED <<posted, power>>

(* psn_auto_connect_timer: the console to connect to at the start was not  *)
(* found in time.  Nothing stops it when that is called off.               *)
AutoTimerFires ==
  /\ desk.autoTimer
  /\ \/ ConnectToHost([desk EXCEPT !.autoTimer = FALSE], "psn")
     \/ /\ desk' = [desk EXCEPT !.autoTimer = FALSE]
        /\ UNCHANGED <<ses, view, worker, tokens>>
  /\ UNCHANGED <<posted, power>>

(* wakeup_start_timer. *)
WakeupTimesOut ==
  /\ desk.wakeTimer
  /\ desk' = [desk EXCEPT !.wakeTimer = FALSE]
  /\ view' = IF view.page = "auto" THEN [view EXCEPT !.closing = TRUE] ELSE view
  /\ UNCHANGED <<ses, worker, posted, tokens, power>>

(* stopAutoConnect, which ends the wait for a console that is woken. *)
StopAutoConnect ==
  LET d == [desk EXCEPT !.autoMac = "none"]
      w == [d EXCEPT !.wakeTimer = FALSE, !.wakeNick = "none"]
  IN \/ /\ desk.wakeNick = "none"
        /\ desk' = d
        /\ UNCHANGED ses
     \/ /\ desk.wakeNick # "none" /\ ~desk.wakeStart
        /\ desk' = w
        /\ UNCHANGED ses
     \/ /\ desk.wakeNick # "none" /\ desk.wakeStart
        /\ desk' = [w EXCEPT !.wakeStart = FALSE, !.session = 0]
        /\ ses' = NoSes

ViewMayClose ==
  /\ view.page \in {"auto", "psn"} /\ view.mayClose = "early"
  /\ view' = [view EXCEPT !.mayClose = "yes"]
  /\ UNCHANGED <<desk, ses, worker, posted, tokens, power>>

UserCancelsWait ==
  /\ view.page = "auto" /\ view.mayClose = "yes"
  /\ view' = [view EXCEPT !.closing = TRUE]
  /\ UNCHANGED <<desk, ses, worker, posted, tokens, power>>

(* psnCancel ends the work of the worker sooner, and a null session ends   *)
(* the program.                                                            *)
UserCancelsPsn ==
  /\ view.page = "psn" /\ view.mayClose = "yes"
  /\ view' = IF desk.session = 0 THEN NewView("crashed") ELSE [view EXCEPT !.mayClose = "no"]
  /\ UNCHANGED <<desk, ses, worker, posted, tokens, power>>

ViewCloses ==
  /\ view.closing
  /\ \/ view.page = "auto" /\ view.mayClose = "yes" /\ StopAutoConnect
     \/ view.page \in {"psn", "stream"} /\ UNCHANGED <<desk, ses>>
  /\ view' = NewView("main")
  /\ UNCHANGED <<worker, posted, tokens, power>>

(* closeRequested and stopSession stop the session; without one the        *)
(* window closes.                                                          *)
UserStops ==
  /\ IF desk.session = 0
     THEN view' = NewView("closed") /\ UNCHANGED ses
     ELSE ses' = [ses EXCEPT !.stop = TRUE] /\ UNCHANGED view
  /\ UNCHANGED <<desk, worker, posted, tokens, power>>

(* The computer goes to sleep: goToSleep. *)
GoToSleep ==
  /\ ~power.asleep /\ power.sleeps < MaxSleeps
  /\ power' = [power EXCEPT !.asleep = TRUE, !.sleeps = @ + 1]
  /\ \/ /\ desk.session # 0
        /\ ses' = [ses EXCEPT !.stop = TRUE]
        /\ desk' = [desk EXCEPT !.resume = TRUE]
     \/ /\ desk.session = 0
        /\ UNCHANGED <<ses, desk>>
  /\ UNCHANGED <<view, worker, posted, tokens>>

ResumeFromSleep ==
  LET d == [desk EXCEPT !.resume = FALSE]
  IN /\ power.asleep
     /\ power' = [power EXCEPT !.asleep = FALSE]
     /\ \/ /\ ~desk.resume
           /\ UNCHANGED <<desk, ses, view, worker>>
        \/ /\ desk.resume /\ desk.info # "psn"
           /\ CreateSession(d, view, desk.info)
        \/ /\ desk.resume /\ desk.info = "psn"
           /\ desk' = [d EXCEPT !.reconnect = TRUE]
           /\ view' = NewView("psn")
           /\ UNCHANGED <<ses, worker>>
     /\ UNCHANGED <<posted, tokens>>

(* psn_reconnect_timer, every 5 s, does not wait for the answer to the     *)
(* refresh before.                                                         *)
ReconnectTimerFires ==
  /\ desk.reconnect /\ tokens.reconnect < MaxTokens
  /\ tokens' = [tokens EXCEPT !.reconnect = @ + 1]
  /\ UNCHANGED <<desk, ses, view, worker, posted, power>>

ReconnectTokenComes ==
  /\ tokens.reconnect > 0
  /\ tokens' = [tokens EXCEPT !.reconnect = @ - 1]
  /\ LET ended == [desk EXCEPT !.resume = FALSE, !.reconnect = FALSE, !.tries = 0]
     IN \/ CreateSession(ended, view, desk.info)
        \/ /\ desk.tries + 1 < ReconnectTries
           /\ desk' = [desk EXCEPT !.tries = @ + 1]
           /\ UNCHANGED <<ses, view, worker>>
        \/ /\ desk.tries + 1 >= ReconnectTries
           /\ desk' = ended
           /\ view' = ConnectFailed(view)
           /\ UNCHANGED <<ses, worker>>
  /\ UNCHANGED <<posted, power>>

(* The worker: ConnectPsnConnection succeeds, fails or is canceled. *)
WorkerEnds ==
  /\ worker # 0
  /\ worker' = 0
  /\ \E ok \in BOOLEAN : posted' = Append(posted, [kind |-> "result", n |-> worker, ok |-> ok])
  /\ UNCHANGED <<desk, ses, view, tokens, power>>

(* The thread of the session, and StreamSession::Event in it. *)
ThreadQuits(error) ==
  \/ /\ error /\ ~ses.connected /\ desk.info # "psn" /\ ses.restarts < MaxRestarts
     /\ ses' = [ses EXCEPT !.th = "ended", !.due = TRUE]
     /\ UNCHANGED posted
  \/ /\ ses' = [ses EXCEPT !.th = "ended", !.connected = FALSE]
     /\ posted' = posted \o <<[kind |-> "changed", n |-> desk.session, ok |-> FALSE],
                              [kind |-> "quit", n |-> desk.session, ok |-> ~error]>>

ThreadBegins ==
  /\ ses.th = "starting"
  /\ \/ /\ ses.stop
        /\ ThreadQuits(FALSE)
     \/ /\ ~ses.stop
        /\ ses' = [ses EXCEPT !.th = "connecting"]
        /\ UNCHANGED posted
  /\ UNCHANGED <<desk, view, worker, tokens, power>>

ThreadConnects ==
  /\ ses.th = "connecting"
  /\ ses' = [ses EXCEPT !.th = "connected", !.connected = TRUE, !.connecting = FALSE]
  /\ posted' = Append(posted, [kind |-> "changed", n |-> desk.session, ok |-> TRUE])
  /\ UNCHANGED <<desk, view, worker, tokens, power>>

ThreadEnds ==
  /\ ses.th \in {"connecting", "connected"}
  /\ \E error \in BOOLEAN :
       /\ ~error => ses.stop \/ ses.th = "connected"
       /\ ThreadQuits(error)
  /\ UNCHANGED <<desk, view, worker, tokens, power>>

\* Slip: the session is made ready again.
RestartForgetsTheStop ==
  /\ ses.due
  /\ ses' = [ses EXCEPT !.due = FALSE, !.stop = FALSE, !.th = "starting", !.restarts = @ + 1]
  /\ UNCHANGED <<desk, view, worker, posted, tokens, power>>

(* The timer of Event calls Start again. *)
RestartIsDue ==
  /\ ses.due
  /\ ses' = [ses EXCEPT !.due = FALSE, !.th = "starting", !.restarts = @ + 1]
  /\ UNCHANGED <<desk, view, worker, posted, tokens, power>>

(* checkPsnConnection: the result is taken to be that of the session there *)
(* is.                                                                     *)
HandleResult(event) ==
  \/ /\ event.ok
     /\ StartSession(desk, ses)
  \/ /\ ~event.ok
     /\ view' = ConnectFailed(view)
     /\ IF desk.session = 0
        THEN UNCHANGED <<desk, ses>>
        ELSE desk' = [desk EXCEPT !.session = 0, !.discovery = TRUE] /\ ses' = NoSes

HandleConnectedChanged(event) ==
  /\ desk' = IF desk.session = event.n /\ ses.connected
             THEN [desk EXCEPT !.discovery = FALSE] ELSE desk
  /\ UNCHANGED <<ses, view>>

HandleSessionQuit(event) ==
  \/ /\ desk.session # event.n
     /\ UNCHANGED <<desk, ses, view>>
  \/ /\ desk.session = event.n
     /\ desk' = [desk EXCEPT !.session = 0, !.discovery = TRUE]
     /\ ses' = NoSes
     /\ view' = CASE view.page \notin {"psn", "stream"} -> view
                  [] event.ok /\ ~view.closing -> NewView("main")
                  [] OTHER -> [view EXCEPT !.closing = TRUE]

HandlePosted ==
  /\ posted # <<>>
  /\ posted' = Tail(posted)
  /\ LET event == Head(posted)
     IN \/ event.kind = "result" /\ HandleResult(event)
        \/ event.kind = "changed" /\ HandleConnectedChanged(event)
        \/ event.kind = "quit" /\ HandleSessionQuit(event)
  /\ UNCHANGED <<worker, tokens, power>>

ConsoleTurnsOnOrOff ==
  /\ \E c \in Consoles : power' = [power EXCEPT !.on[c] = ~@]
  /\ UNCHANGED <<desk, ses, view, worker, posted, tokens>>

Open == view.page \notin {"closed", "crashed"}

TimersNext == Open /\ (ViewMayClose \/ ViewCloses \/ WakeupTimesOut \/ RestartIsDue)

DesktopNext ==
  Open /\ (\/ UserConnects \/ UserCancelsWait \/ UserCancelsPsn \/ UserStops
           \/ AskedTokenComes \/ ReconnectTokenComes
           \/ UpdateDiscoveryHosts \/ AutoTimerFires \/ ReconnectTimerFires
           \/ ViewMayClose \/ ViewCloses \/ WakeupTimesOut \/ RestartIsDue
           \/ GoToSleep \/ ResumeFromSleep
           \/ WorkerEnds \/ HandlePosted
           \/ ThreadBegins \/ ThreadConnects \/ ThreadEnds
           \/ ConsoleTurnsOnOrOff)

(* The main thread gets to its events and timers, and a thread that was    *)
(* started begins.  Nothing is assumed of the worker, whose waits for the  *)
(* websocket to open (holepunch.c:918) and for an acknowledgement          *)
(* (holepunch.c:5222) have no timeout, nor of the end of a session, which  *)
(* may not come either (StopEndsTheSession).                               *)
DesktopFairness ==
  /\ WF_desktopVars(Open /\ HandlePosted) /\ WF_desktopVars(TimersNext)
  /\ WF_desktopVars(Open /\ ThreadBegins)

DesktopSpec == DesktopInit /\ [][DesktopNext]_desktopVars /\ DesktopFairness

-----------------------------------------------------------------------------

(* A session that is being connected over PSN stays the session of the     *)
(* backend until its result is handled: neither is it deleted under the    *)
(* worker, nor is the result taken for that of another one.                *)
ConnectingSessionIsKept ==
  /\ worker # 0 => desk.session = worker /\ ses.th = "new"
  /\ \A i \in DOMAIN posted :
       posted[i].kind = "result" => desk.session = posted[i].n /\ ses.th = "new"

(* What the user interface waits for without a bound: a stop does not      *)
(* cancel the worker (qmlbackend.cpp:1260 and 1657), and the thread of a   *)
(* session is told to stop and not waited for.                             *)
WorkerIsOut == worker # 0
StoppedThreadIsOut == ses.stop /\ ses.th \in {"connecting", "connected"}

(* A session that was stopped goes away and leaves room for the next one,  *)
(* none being made in its place before: also one that never started        *)
(* because it waits for its console to wake up, one that was still being   *)
(* connected over PSN, and one that would be started again after an error. *)
(* It stays only as long as the worker or its own thread does not return.  *)
StoppedSessionGoes ==
  (desk.session # 0 /\ ses.stop) ~> (desk.session = 0 \/ WorkerIsOut \/ StoppedThreadIsOut)

=============================================================================
