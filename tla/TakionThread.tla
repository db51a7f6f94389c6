---------------------------- MODULE TakionThread ----------------------------
(***************************************************************************)
(* The Takion thread (takion.c): handshake with its retries, the receive   *)
(* loop, packets postponed until there are keys, and the end by error or   *)
(* by the stop pipe.  An event is handed to the callback and the thread    *)
(* goes on when the callback has returned.  The two packet queues and the  *)
(* send buffer have modules of their own (TakionData, TakionAVQueue,       *)
(* TakionSendBuffer).  Of the send buffer's resend thread this module has  *)
(* what the end of the Takion thread waits for: it may be between the test *)
(* of the stop flag and its wait without timeout when it is told to stop,  *)
(* and then it misses the signal (fini_lost_wakeup).                       *)
(***************************************************************************)
EXTENDS Naturals

CONSTANTS
  MaxTries,       \* MAX_CONNECT_RESEND_TRIES
  MaxPostponed    \* TAKION_POSTPONE_PACKETS_SIZE

ASSUME TakionAssumption == MaxTries \in Nat \ {0} /\ MaxPostponed \in Nat \ {0}

VARIABLES
  tpc,        \* control state of the Takion thread
  tries,      \* of the message of the handshake that waits for its answer
  tev,        \* the event whose callback runs, or "none"
  keys,       \* gkcrypt_remote is set
  postponed,  \* packets that wait for the keys
  pipe,       \* the stop pipe is signalled
  console,    \* what the console has sent of the stream's own handshake
  rpc         \* control state of the resend thread; "running" when it scans,
              \* waits with a timeout or is about to evaluate its predicate

takionVars == <<tpc, tries, tev, keys, postponed, pipe, console, rpc>>

TakionPCs == {"off", "init", "cookie", "setup", "loop", "recv", "fini", "signal", "join",
              "beach", "ended"}
ThreadPCs == {"off", "running", "enter", "sleep", "ended"}
\* Messages of the console that the stream connection tells apart.
DataKinds == {"bang", "badBang", "streaminfo", "badStreaminfo", "disconnect", "other"}
Events == {"none", "connected", "over", "av"} \cup DataKinds

TakionTypeOK ==
  /\ tpc \in TakionPCs /\ tries \in 0 .. MaxTries - 1 /\ tev \in Events
  /\ keys \in BOOLEAN /\ pipe \in BOOLEAN /\ postponed \in 0 .. MaxPostponed
  /\ console \in {"quiet", "asked", "banged", "informed", "misinformed"}
  /\ rpc \in ThreadPCs

TakionInit ==
  /\ tpc = "off" /\ tries = 0 /\ tev = "none" /\ keys = FALSE /\ pipe = FALSE
  /\ postponed = 0 /\ console = "quiet" /\ rpc = "off"

TGoto(pc) == tpc' = pc
Emit(ev) == tev' = ev
Silent == UNCHANGED tev

\* One try of takion_handshake: the message is sent, the answer is waited for.
\* A signalled stop pipe, a timeout and a wrong answer all use up a try.
HandshakeTry(here, next) ==
  /\ tpc = here /\ tev = "none"
  /\ \/ ~pipe /\ TGoto(next) /\ tries' = 0
     \/ tries + 1 < MaxTries /\ tries' = tries + 1 /\ UNCHANGED tpc
     \/ tries + 1 = MaxTries /\ tries' = 0 /\ TGoto("beach")
     \/ TGoto("beach") /\ tries' = 0
  /\ Silent /\ UNCHANGED <<keys, postponed, pipe, console, rpc>>
InitTry == HandshakeTry("init", "cookie")
CookieTry == HandshakeTry("cookie", "setup")

\* Data queue and send buffer are set up and CONNECTED is reported.
SetsUp ==
  /\ tpc = "setup" /\ tev = "none"
  /\ \/ TGoto("loop") /\ Emit("connected") /\ rpc' = "running"
     \/ TGoto("beach") /\ Silent /\ UNCHANGED rpc
  /\ UNCHANGED <<tries, keys, postponed, pipe, console>>

\* The packets that were postponed are handled, oldest first, when the keys
\* are there; then the thread receives.
FlushesPostponed ==
  /\ tpc = "loop" /\ tev = "none"
  /\ TGoto("recv")
  /\ IF keys /\ postponed > 0
     THEN postponed' = 0 /\ Emit("av")
     ELSE UNCHANGED postponed /\ Silent
  /\ UNCHANGED <<tries, keys, pipe, console, rpc>>

\* takion_recv is canceled by the stop pipe, which goes before data.
\* Slip: that is treated as a timeout.
AfterCancelSlip == "loop"
AfterCancel == "fini"
RecvCanceled ==
  /\ tpc = "recv" /\ tev = "none" /\ pipe
  /\ TGoto(AfterCancel)
  /\ Silent /\ UNCHANGED <<tries, keys, postponed, pipe, console, rpc>>
RecvFails ==
  /\ tpc = "recv" /\ tev = "none" /\ ~pipe
  /\ TGoto("fini")
  /\ Silent /\ UNCHANGED <<tries, keys, postponed, pipe, console, rpc>>
\* A packet for which there is no event, a timeout, or, before the stop pipe
\* is looked at, the timer of the video queue, which is then flushed.
RecvNothing ==
  /\ tpc = "recv" /\ tev = "none"
  /\ TGoto("loop")
  /\ \/ ~pipe /\ Silent
     \/ keys /\ (Silent \/ Emit("av"))
  /\ UNCHANGED <<tries, keys, postponed, pipe, console, rpc>>

Postponed == IF postponed < MaxPostponed THEN postponed + 1 ELSE postponed
\* An audio or video packet: without keys it is postponed, or lost when there
\* is no space for it.
RecvAV ==
  /\ tpc = "recv" /\ tev = "none" /\ ~pipe
  /\ TGoto("loop")
  /\ IF keys
     THEN Emit("av") /\ UNCHANGED postponed
     ELSE Silent /\ postponed' = Postponed
  /\ UNCHANGED <<tries, keys, pipe, console, rpc>>

\* A message of the console.  It answers big with a bang and the streaminfo,
\* each once and in this order; it may disconnect at any time.
ConsoleSays(k) ==
  CASE k \in {"bang", "badBang"} -> console = "asked" /\ console' = "banged"
    [] k = "streaminfo" -> console = "banged" /\ console' = "informed"
    [] k = "badStreaminfo" -> console = "banged" /\ console' = "misinformed"
    [] OTHER -> UNCHANGED console
RecvData ==
  /\ tpc = "recv" /\ tev = "none" /\ ~pipe
  /\ TGoto("loop")
  /\ \E k \in DataKinds : ConsoleSays(k) /\ Emit(k)
  /\ UNCHANGED <<tries, keys, postponed, pipe, rpc>>

\* chiaki_takion_send_buffer_fini: the stop flag is set and the condition
\* signalled without the mutex, then the resend thread is joined.
TellsResend ==
  /\ tpc = "fini" /\ tev = "none"
  /\ TGoto("signal")
  /\ Silent /\ UNCHANGED <<tries, keys, postponed, pipe, console, rpc>>
SignalsResend ==
  /\ tpc = "signal"
  /\ TGoto("join")
  /\ rpc' = IF rpc = "sleep" THEN "running" ELSE rpc
  /\ Silent /\ UNCHANGED <<tries, keys, postponed, pipe, console>>

\* DISCONNECT is the last event, after the join if there is a send buffer.
Ends ==
  /\ tev = "none"
  /\ tpc = "beach" \/ (tpc = "join" /\ rpc = "ended")
  /\ TGoto("ended") /\ Emit("over")
  /\ UNCHANGED <<tries, keys, postponed, pipe, console, rpc>>

TakionSteps ==
  \/ InitTry \/ CookieTry \/ SetsUp \/ FlushesPostponed \/ RecvCanceled \/ RecvFails
  \/ RecvNothing \/ RecvAV \/ RecvData \/ TellsResend \/ SignalsResend \/ Ends

-----------------------------------------------------------------------------
\* The resend thread.  With no packet to resend and no stop it has found the
\* predicate of its wait false, and holds the mutex until it waits.
ResendIsTold == tpc \in {"signal", "join"}
ResendGoes(from, to) ==
  /\ rpc = from /\ rpc' = to
  /\ UNCHANGED <<tpc, tries, tev, keys, postponed, pipe, console>>
ResendFindsNothing == ~ResendIsTold /\ ResendGoes("running", "enter")
ResendSleeps == ResendGoes("enter", "sleep")
\* By the push of a data packet, by whatever thread, or spuriously.
ResendIsWoken == ResendGoes("sleep", "running")
ResendEnds == ResendIsTold /\ ResendGoes("running", "ended")
ResendSteps == ResendFindsNothing \/ ResendSleeps \/ ResendIsWoken \/ ResendEnds

\* The signal has passed while the resend thread was about to wait: only a
\* push can still wake it, and the Takion thread waits in its join.
ResendThreadMissedStop == tpc = "join" /\ rpc \in {"enter", "sleep"}

-----------------------------------------------------------------------------
\* chiaki_takion_connect and chiaki_takion_close, called by the user's thread.
TakionConnects == tpc = "off" /\ TGoto("init") /\ UNCHANGED <<tries, tev, keys, postponed, pipe, console, rpc>>
TakionIsTold == pipe' = TRUE /\ UNCHANGED <<tpc, tries, tev, keys, postponed, console, rpc>>
TakionIsGone == tpc = "ended" /\ tev = "none"

\* The thread as its user sees it: the state of TakionEvents.
Phase == CASE tpc = "off" -> "idle"
           [] tpc \in {"init", "cookie", "setup", "beach"} -> "connecting"
           [] tpc \in {"loop", "recv", "fini", "signal", "join"} ->
                IF ResendThreadMissedStop THEN "hung" ELSE "connected"
           [] OTHER -> "over"
Event == CASE tev = "over" -> "disconnect"
           [] tev \in DataKinds -> "data"
           [] OTHER -> tev
=============================================================================
