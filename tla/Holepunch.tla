----------------------------- MODULE Holepunch ------------------------------
(***************************************************************************)
(* The hole punching over PSN (remote/holepunch.c) as the graphical client *)
(* and the session use it: create, start and punch the control hole, later *)
(* the data hole, and fini at the end.  The steps run in one thread (here  *)
(* `main'); the websocket thread receives the notifications of PSN and     *)
(* queues them; the user may cancel.                                       *)
(***************************************************************************)
EXTENDS Naturals, Sequences

CONSTANT MaxCancels   \* bound: how often the user cancels
ASSUME HolepunchAssumption == MaxCancels \in Nat

VARIABLES
  main,     \* the steps: pc, whether a wait sleeps, hole (1 control, 2 data), our_offer_msg is there,
            \* local_req_id, the console's offer used for each hole
  hflags,   \* session->state
  hmutex,   \* state_mutex: free, or kept by a step that returned without unlocking
  queue,    \* ws_notification_queue
  hstop,    \* main_should_stop, ws_thread_should_stop with select_pipe, and the cancels so far
  ws,       \* the websocket thread: pc, the notification it works on, ws_open
  psn       \* what we posted to PSN, what PSN notified us of, whether it repeated the console's offer

holepunchVars == <<main, hflags, hmutex, queue, hstop, ws, psn>>

\* Notifications: the number is the member (1 we, 2 the console), the hole of an
\* offer or accept, or the request that a result answers.
Notification(kind, no) == [kind |-> kind, no |-> no]
MessageKinds == {"offer", "result", "accept"}
Notifications == [kind : MessageKinds \union {"created", "member", "data1", "deleted"}, no : 0 .. 4]
Nothing == Notification("deleted", 0)

FiniPCs == {"deleteWait", "deletedGot", "finiStop", "join"}
CallerPCs == {"failed", "holed", "streaming"}
StepPCs == {"new", "wsWait", "createPost", "createWait", "createGot", "makeOffer", "start", "startWait",
            "startGot", "punch", "offerWait", "offerGot", "offerTaken", "ackWait", "ackGot", "ackTaken",
            "candidates", "acceptWait", "acceptGot", "acceptTaken", "established"}
Flags == {"wsOpen", "created", "clientJoined", "consoleJoined", "data1", "offer1", "offer2",
          "established1", "established2", "deleted"}
OfferReceived(hole) == IF hole = 1 THEN "offer1" ELSE "offer2"
Established(hole) == IF hole = 1 THEN "established1" ELSE "established2"

HolepunchTypeOK ==
  /\ main.pc \in StepPCs \union FiniPCs \union CallerPCs \union {"crashed", "finished"}
  /\ main.asleep \in BOOLEAN /\ main.hole \in {1, 2} /\ main.offer \in BOOLEAN
  /\ main.req \in 1 .. 5 /\ main.used \in [{1, 2} -> 0 .. 2]
  /\ hflags \subseteq Flags /\ hmutex \in {"free", "kept"}
  /\ queue \in Seq(Notifications)
  /\ hstop.main \in BOOLEAN /\ hstop.ws \in BOOLEAN /\ hstop.cancels \in 0 .. MaxCancels
  /\ ws.pc \in {"off", "connecting", "loop", "look", "enqueue", "ended"} /\ ws.hand \in Notifications
  /\ ws.open \in BOOLEAN /\ (ws.open <=> ws.pc \in {"loop", "look", "enqueue"})
  /\ psn.posted \subseteq Notifications /\ psn.pushed \subseteq Notifications /\ psn.repeated \in BOOLEAN

HolepunchInit ==
  /\ main = [pc |-> "new", asleep |-> FALSE, hole |-> 1, offer |-> FALSE, req |-> 1, used |-> [h \in {1, 2} |-> 0]]
  /\ hflags = {} /\ hmutex = "free" /\ queue = <<>>
  /\ hstop = [main |-> FALSE, ws |-> FALSE, cancels |-> 0]
  /\ ws = [pc |-> "off", hand |-> Nothing, open |-> FALSE]
  /\ psn = [posted |-> {}, pushed |-> {}, repeated |-> FALSE]

-----------------------------------------------------------------------------
\* Where a step goes on: a punch_hole that ends frees our offer, and every
\* check of main_should_stop consumes it.

StepIs(pc) == main.pc = pc
Goes(pc) == main' = [main EXCEPT !.pc = pc, !.asleep = FALSE]
InPunch == main.pc \in {"punch", "offerWait", "offerGot", "offerTaken", "ackWait", "ackGot", "ackTaken",
                        "candidates", "acceptWait", "acceptGot", "acceptTaken", "established"}
Fails == main' = [main EXCEPT !.pc = IF main.pc \in FiniPCs THEN "finiStop" ELSE "failed",
                              !.asleep = FALSE, !.offer = @ /\ ~InPunch]
Runs == UNCHANGED hstop
StopSeen == hstop.main
Canceled == StopSeen /\ hstop' = [hstop EXCEPT !.main = FALSE] /\ Fails
NotCanceled == ~StopSeen /\ Runs
Posts(kind, no) == psn' = [psn EXCEPT !.posted = @ \union {Notification(kind, no)}]
MutexFree == hmutex = "free"

-----------------------------------------------------------------------------
\* The queue: a wait takes the first notification of the types it asks for,
\* and it stays in the queue until it is cleared.

Positions(kinds) == {i \in 1 .. Len(queue) : queue[i].kind \in kinds}
\* Slip: the newest one, so that older ones stay.
FirstOfSlip(kinds) == CHOOSE i \in Positions(kinds) : \A j \in Positions(kinds) : j <= i
FirstOf(kinds) == CHOOSE i \in Positions(kinds) : \A j \in Positions(kinds) : i <= j
Found(kinds) == queue[FirstOf(kinds)]
Cleared(kinds) ==
  [i \in 1 .. Len(queue) - 1 |-> IF i < FirstOf(kinds) THEN queue[i] ELSE queue[i + 1]]

\* wait_for_notification: the queue is looked through before the stop is; a
\* wait that sleeps ends by the timeout, by the stop, or with a new match.
WaitsFor(here, kinds, found) ==
  /\ StepIs(here)
  /\ \/ ~main.asleep /\ Positions(kinds) # {} /\ Goes(found) /\ Runs
     \/ ~main.asleep /\ Positions(kinds) = {} /\ main' = [main EXCEPT !.asleep = TRUE] /\ Runs
     \/ main.asleep /\ Fails /\ Runs
     \/ main.asleep /\ Canceled
     \/ main.asleep /\ NotCanceled /\ Positions(kinds) # {} /\ Goes(found)
  /\ UNCHANGED <<hflags, hmutex, queue, ws, psn>>

\* wait_for_session_message, once it has a notification: a terminate and one
\* that cannot be parsed end the step, a message of another action is cleared, the wanted one is kept.
\* Slip: the stop is not looked at, neither here nor for the answer to our offer.
MessageStopSlip == FALSE
MessageStop == StopSeen
MessageGot(here, wait, wanted, taken) ==
  /\ StepIs(here)
  /\ \/ MessageStop /\ Canceled /\ UNCHANGED queue
     \/ ~MessageStop /\ Runs /\ Fails /\ UNCHANGED queue
     \/ /\ ~MessageStop /\ Runs /\ Found(MessageKinds).kind # wanted
        /\ queue' = Cleared(MessageKinds) /\ Goes(wait)
     \/ /\ ~MessageStop /\ Runs /\ Found(MessageKinds).kind = wanted
        /\ Goes(taken) /\ UNCHANGED queue
  /\ UNCHANGED <<hflags, hmutex, ws, psn>>

-----------------------------------------------------------------------------
\* chiaki_holepunch_session_create.

CreatesWsThread ==
  /\ StepIs("new")
  /\ \/ Fails /\ Runs /\ UNCHANGED ws
     \/ Canceled /\ UNCHANGED ws
     \/ NotCanceled /\ Goes("wsWait") /\ ws' = [ws EXCEPT !.pc = "connecting"]
  /\ UNCHANGED <<hflags, hmutex, queue, psn>>

\* The wait for the open websocket has no timeout and does not look at the stop.
SeesWsOpen ==
  /\ StepIs("wsWait") /\ "wsOpen" \in hflags /\ MutexFree
  /\ Canceled \/ (NotCanceled /\ Goes("createPost"))
  /\ UNCHANGED <<hflags, hmutex, queue, ws, psn>>

PostsCreate ==
  /\ StepIs("createPost")
  /\ \/ Fails /\ Runs /\ UNCHANGED psn
     \/ Posts("created", 0) /\ (Canceled \/ (NotCanceled /\ Goes("createWait")))
  /\ UNCHANGED <<hflags, hmutex, queue, ws>>

\* A notification of the creation is worked on with state_mutex held; a bad
\* one and a stop leave the step without unlocking it.
Creating == {"created", "member"}
CreateGot ==
  /\ StepIs("createGot") /\ MutexFree
  /\ hflags' = hflags \union {IF Found(Creating).kind = "created" THEN "created" ELSE "clientJoined"}
  /\ \/ Found(Creating).kind = "created" /\ Fails /\ Runs /\ hmutex' = "kept" /\ UNCHANGED queue
     \/ Canceled /\ hmutex' = "kept" /\ UNCHANGED queue
     \/ /\ NotCanceled /\ UNCHANGED hmutex /\ queue' = Cleared(Creating)
        /\ Goes(IF {"created", "clientJoined"} \subseteq hflags' THEN "makeOffer" ELSE "createWait")
  /\ UNCHANGED <<ws, psn>>

\* holepunch_session_create_offer; for the data hole the session goes on when it fails.
MakesOffer ==
  /\ StepIs("makeOffer")
  /\ \/ main' = [main EXCEPT !.pc = IF main.hole = 1 THEN "start" ELSE "punch", !.offer = TRUE]
     \/ main' = [main EXCEPT !.pc = IF main.hole = 1 THEN "failed" ELSE "punch", !.offer = FALSE]
  /\ UNCHANGED <<hflags, hmutex, queue, hstop, ws, psn>>

\* chiaki_holepunch_session_start.
PostsStart ==
  /\ StepIs("start") /\ MutexFree /\ "created" \in hflags
  /\ \/ Fails /\ Runs /\ UNCHANGED psn
     \/ Posts("member", 2) /\ (Canceled \/ (NotCanceled /\ Goes("startWait")))
  /\ UNCHANGED <<hflags, hmutex, queue, ws>>

\* A bad notification ends the step with the mutex unlocked, a stop keeps it
\* locked; a member that is not our console ends the step with success.
Starting == {"member", "data1"}
StartGot ==
  /\ StepIs("startGot") /\ MutexFree
  /\ \/ Fails /\ Runs /\ UNCHANGED <<hflags, hmutex, queue>>
     \/ Found(Starting).kind = "member" /\ Goes("punch") /\ Runs /\ UNCHANGED <<hflags, hmutex, queue>>
     \/ /\ hflags' = hflags \union {IF Found(Starting).kind = "member" THEN "consoleJoined" ELSE "data1"}
        /\ queue' = Cleared(Starting)
        /\ \/ Canceled /\ hmutex' = "kept"
           \/ /\ NotCanceled /\ UNCHANGED hmutex
              /\ Goes(IF {"consoleJoined", "data1"} \subseteq hflags' THEN "punch" ELSE "startWait")
  /\ UNCHANGED <<ws, psn>>

-----------------------------------------------------------------------------
\* chiaki_holepunch_session_punch_hole.

Punches ==
  /\ StepIs("punch") /\ MutexFree
  /\ IF (IF main.hole = 1 THEN "data1" ELSE "established1") \in hflags THEN Goes("offerWait") ELSE Fails
  /\ UNCHANGED <<hflags, hmutex, queue, hstop, ws, psn>>

\* The console's offer is acknowledged and ours is sent; that the sending
\* fails is not noticed.  Without an offer of ours the program crashes here.
TakesOffer ==
  /\ StepIs("offerTaken") /\ MutexFree
  /\ hflags' = hflags \union {OfferReceived(main.hole)}
  /\ \/ Fails /\ Runs /\ UNCHANGED psn
     \/ Canceled /\ UNCHANGED psn
     \/ /\ NotCanceled
        /\ main' = [main EXCEPT !.pc = IF main.offer THEN "ackWait" ELSE "crashed",
                                !.req = @ + 1,
                                !.used = [main.used EXCEPT ![main.hole] = Found({"offer"}).no]]
        /\ UNCHANGED psn \/ (main.offer /\ Posts("offer", main.req))
  /\ UNCHANGED <<hmutex, queue, ws>>

\* wait_for_session_message_ack: the answer to another request stays in the
\* queue, and is found again at once.
TakesAck ==
  /\ StepIs("ackTaken")
  /\ \/ MessageStop /\ Canceled
     \/ ~MessageStop /\ Runs /\ Goes(IF Found({"result"}).no = main.req - 1 THEN "candidates" ELSE "ackWait")
  /\ UNCHANGED <<hflags, hmutex, queue, ws, psn>>

\* check_candidates, then our accept.
AcceptsCandidate ==
  /\ StepIs("candidates")
  /\ \/ Fails /\ Runs /\ UNCHANGED psn
     \/ Canceled /\ UNCHANGED psn
     \/ /\ Posts("accept", main.req)
        /\ \/ Canceled
           \/ NotCanceled /\ main' = [main EXCEPT !.pc = "acceptWait", !.req = @ + 1]
  /\ UNCHANGED <<hflags, hmutex, queue, ws>>

TakesAccept ==
  /\ StepIs("acceptTaken") /\ MutexFree
  /\ \/ Fails /\ Runs /\ UNCHANGED hflags
     \/ Canceled /\ UNCHANGED hflags
     \/ NotCanceled /\ hflags' = hflags \union {Established(main.hole)} /\ Goes("established")
  /\ UNCHANGED <<hmutex, queue, ws, psn>>

Finishes ==
  /\ StepIs("established")
  /\ \/ Fails /\ Runs
     \/ Canceled
     \/ NotCanceled /\ main' = [main EXCEPT !.pc = IF main.hole = 1 THEN "holed" ELSE "streaming", !.offer = FALSE]
  /\ UNCHANGED <<hflags, hmutex, queue, ws, psn>>

\* The session, when it has come as far as to need the data connection.
NeedsData ==
  /\ StepIs("holed") /\ main' = [main EXCEPT !.pc = "makeOffer", !.hole = 2]
  /\ UNCHANGED <<hflags, hmutex, queue, hstop, ws, psn>>

-----------------------------------------------------------------------------
\* chiaki_holepunch_session_fini, after the steps or after the stream.

Finis ==
  /\ main.pc \in CallerPCs
  /\ IF ws.open THEN Goes("deleteWait") /\ (UNCHANGED psn \/ Posts("deleted", 0))
     ELSE Goes("finished") /\ UNCHANGED psn
  /\ UNCHANGED <<hflags, hmutex, queue, hstop, ws>>

DeletedGot ==
  /\ StepIs("deletedGot") /\ MutexFree
  /\ hflags' = hflags \union {"deleted"} /\ queue' = Cleared({"deleted"}) /\ Goes("finiStop")
  /\ UNCHANGED <<hmutex, hstop, ws, psn>>

StopsWsThread ==
  /\ StepIs("finiStop") /\ hstop' = [hstop EXCEPT !.ws = TRUE] /\ Goes("join")
  /\ UNCHANGED <<hflags, hmutex, queue, ws, psn>>

JoinsWsThread ==
  /\ StepIs("join") /\ ws.pc = "ended" /\ Goes("finished")
  /\ UNCHANGED <<hflags, hmutex, queue, hstop, ws, psn>>

\* chiaki_holepunch_main_thread_cancel, from the user interface.
Cancels(stopThread) ==
  /\ main.pc \notin FiniPCs \union {"crashed", "finished"} /\ hstop.cancels < MaxCancels
  /\ hstop' = [main |-> TRUE, ws |-> hstop.ws \/ stopThread, cancels |-> hstop.cancels + 1]
  /\ UNCHANGED <<main, hflags, hmutex, queue, ws, psn>>

-----------------------------------------------------------------------------
\* The websocket thread.

\* The state is changed only when the connection is there.
WsConnects ==
  /\ ws.pc = "connecting" /\ MutexFree
  /\ \/ ws' = [ws EXCEPT !.pc = "loop", !.open = TRUE] /\ hflags' = hflags \union {"wsOpen"}
     \/ ws' = [ws EXCEPT !.pc = "ended"] /\ UNCHANGED hflags
  /\ UNCHANGED <<main, hmutex, queue, hstop, psn>>

\* PSN: the members, the console's data and offer follow our requests; the
\* console answers our offer and accept, may repeat its control offer until it
\* accepts, and offers the data port after that.  Left out: the answer to the
\* last accept, which nobody waits for, and the terminate message, which ends a
\* step like a message that cannot be parsed.
MayPush(n) ==
  LET posted(kind, no) == Notification(kind, no) \in psn.posted
      pushed(kind, no) == Notification(kind, no) \in psn.pushed
  IN \/ n \in {Notification("created", 0), Notification("member", 1)} /\ posted("created", 0)
     \/ n = Nothing /\ posted("deleted", 0)
     \/ n \in {Notification("member", 2), Notification("data1", 0), Notification("offer", 1)} /\ posted("member", 2)
     \/ n.kind = "result" /\ (posted("offer", n.no) \/ posted("accept", n.no)) /\ n.no <= 3
     \/ n = Notification("accept", 1) /\ posted("offer", 1)
     \/ n = Notification("offer", 2) /\ pushed("accept", 1)
     \/ n = Notification("accept", 2) /\ posted("offer", 3)

WsReceives(n) ==
  /\ ws.pc = "loop" /\ ~hstop.ws /\ MayPush(n)
  /\ \/ n \notin psn.pushed /\ psn' = [psn EXCEPT !.pushed = @ \union {n}]
     \/ /\ n = Notification("offer", 1) /\ n \in psn.pushed /\ ~psn.repeated
        /\ Notification("accept", 1) \notin psn.pushed
        /\ psn' = [psn EXCEPT !.repeated = TRUE]
  /\ ws' = [ws EXCEPT !.pc = "look", !.hand = n]
  /\ UNCHANGED <<main, hflags, hmutex, queue, hstop>>

\* Whether offers are acknowledged here is decided with state_mutex held; a
\* message that then cannot be parsed is thrown away.
AcksOffers == ("offer1" \in hflags /\ "established1" \notin hflags) \/ "offer2" \in hflags
WsLooks ==
  /\ ws.pc = "look" /\ MutexFree
  /\ \/ ws' = [ws EXCEPT !.pc = "enqueue"]
     \/ AcksOffers /\ ws.hand.kind \in MessageKinds /\ ws' = [ws EXCEPT !.pc = "loop", !.hand = Nothing]
  /\ UNCHANGED <<main, hflags, hmutex, queue, hstop, psn>>

\* The thread ends after a deleted session, not after a deleted member.
WsEnqueues ==
  /\ ws.pc = "enqueue" /\ queue' = Append(queue, ws.hand)
  /\ \/ ws' = [ws EXCEPT !.pc = "loop", !.hand = Nothing]
     \/ ws.hand.kind = "deleted" /\ ws' = [pc |-> "ended", hand |-> Nothing, open |-> FALSE]
  /\ UNCHANGED <<main, hflags, hmutex, hstop, psn>>

\* It ends when told to, and when the connection is lost.
WsEnds == ws.pc = "loop" /\ ws' = [ws EXCEPT !.pc = "ended", !.open = FALSE]
          /\ UNCHANGED <<main, hflags, hmutex, queue, hstop, psn>>

-----------------------------------------------------------------------------
StepsNext ==
  \/ CreatesWsThread \/ SeesWsOpen \/ PostsCreate \/ CreateGot \/ MakesOffer \/ PostsStart \/ StartGot
  \/ Punches \/ TakesOffer \/ TakesAck \/ AcceptsCandidate \/ TakesAccept \/ Finishes
  \/ WaitsFor("createWait", Creating, "createGot") \/ WaitsFor("startWait", Starting, "startGot")
  \/ WaitsFor("offerWait", MessageKinds, "offerGot") \/ MessageGot("offerGot", "offerWait", "offer", "offerTaken")
  \/ WaitsFor("ackWait", MessageKinds, "ackGot") \/ MessageGot("ackGot", "ackWait", "result", "ackTaken")
  \/ WaitsFor("acceptWait", MessageKinds, "acceptGot")
  \/ MessageGot("acceptGot", "acceptWait", "accept", "acceptTaken")
FiniNext == WaitsFor("deleteWait", {"deleted"}, "deletedGot") \/ DeletedGot \/ StopsWsThread \/ JoinsWsThread
WsNext == WsConnects \/ WsLooks \/ WsEnqueues \/ (hstop.ws /\ WsEnds)

HolepunchNext ==
  \/ StepsNext \/ NeedsData \/ Finis \/ FiniNext
  \/ \E stopThread \in BOOLEAN : Cancels(stopThread)
  \/ WsConnects \/ (\E n \in Notifications : WsReceives(n)) \/ WsLooks \/ WsEnqueues \/ WsEnds

\* The threads run on; the user, PSN and the connection owe nothing.
HolepunchFairness ==
  /\ WF_holepunchVars(StepsNext) /\ WF_holepunchVars(FiniNext) /\ WF_holepunchVars(WsNext)
HolepunchSpec == HolepunchInit /\ [][HolepunchNext]_holepunchVars /\ HolepunchFairness

-----------------------------------------------------------------------------
\* Each hole is punched with the offer the console made for it: the queue may
\* still hold the other hole's offer, repeated, and both look the same.
EachHoleHasItsOwnOffer == \A hole \in {1, 2} : main.used[hole] \in {0, hole}

\* "Cancel initial psn connection steps" (holepunch.h): once the websocket is
\* open, a cancel ends the steps, wherever they wait and whatever the queue holds.
CancelEndsTheSteps == (hstop.main /\ main.pc \in StepPCs /\ "wsOpen" \in hflags) ~> main.pc \notin StepPCs

\* "Will delete the session on the PSN server and free all resources associated
\* with the session" (holepunch.h): fini comes to its end.
FiniReturns == main.pc \in FiniPCs ~> main.pc = "finished"
=============================================================================
