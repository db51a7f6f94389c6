----------------------------- MODULE QuestInput -----------------------------
(***************************************************************************)
(* Controller input in the immersive stream of the Quest app: the render   *)
(* thread hands one sample of the Touch controllers per frame to           *)
(* onNativeControllerState (VRStreamActivity.kt), where the release gate,  *)
(* an open panel and the gestures of the Menu button act on it; the main   *)
(* thread runs the timers of the gestures, opens and closes panels and     *)
(* receives the Bluetooth controller; StreamInput combines both and tells  *)
(* the session.                                                            *)
(*                                                                         *)
(* Methods of StreamInput and of the gate are synchronized, one step each. *)
(* A frame of the render thread is three steps and a gesture timer two,    *)
(* where each reads, without a lock, what the other thread writes.         *)
(*                                                                         *)
(* "act" is any button that plays the game, "chord" what Menu and another  *)
(* button give together, "key" a Bluetooth button other than Options.      *)
(* Timers run out in any order, except that a pulse of 120 ms ends before  *)
(* the next tap is taken, after 350 ms.                                    *)
(***************************************************************************)

QuestButtons == {"menu", "act", "chord"}
Samples == {{}, {"menu"}, {"act"}, {"menu", "act"}, {"chord"}}
NotSuppressed == {"null"}    \* lastSuppressedButtons is null

VARIABLES
  input,      \* StreamInput, and what the session was told last
  emulation,  \* questControllerEmulationEnabled
  panel,      \* the settings panel, a dialog (error, login PIN) or none
  accept,     \* acceptQuestControllerInput
  gate,       \* blockedButtons of the release gate
  keyGate,    \* externalInputNeedsNeutral
  prev,       \* previousQuestButtons
  menu,       \* the questMenu... variables
  timers,     \* what is posted to the main looper
  upc,        \* the main thread: idle, or in a gesture timer past its check
  fpc,        \* the render thread: idle, or in a frame
  frame,      \* its filtered sample, and what the gesture comes to
  down,       \* history: the last sample
  carried,    \* history: down when a panel closed, and since
  underway    \* history: a frame had passed the gate when a panel closed

screenVars == <<emulation, panel, accept>>
frameVars == <<fpc, frame>>
heldVars == <<down, carried, underway>>
questVars == <<input, screenVars, gate, keyGate, prev, menu, timers, upc, frameVars, heldVars>>

NoGesture == [held |-> FALSE, long |-> FALSE, awaiting |-> FALSE, second |-> FALSE,
              suppressed |-> FALSE, released |-> FALSE]

NoFrame == [buttons |-> {}, move |-> "none"]

QuestInit ==
  /\ input = [key |-> FALSE, quest |-> {}, pulsed |-> {}, suspended |-> FALSE,
              needsNeutral |-> FALSE, last |-> NotSuppressed, told |-> {}]
  /\ emulation = TRUE /\ panel = "none" /\ accept = TRUE
  /\ gate = QuestButtons /\ keyGate = FALSE /\ prev = {} /\ menu = NoGesture
  /\ timers = {} /\ upc = "idle"
  /\ fpc = "idle" /\ frame = NoFrame
  /\ down = {} /\ carried = {} /\ underway = FALSE

-----------------------------------------------------------------------------
(* StreamInput.  i is its state. *)

Keys(i) == IF i.key THEN {"key"} ELSE {}
Combined(i) == (IF i.needsNeutral THEN {} ELSE Keys(i)) \cup i.quest \cup i.pulsed
Tells(i, buttons, last) == [i EXCEPT !.told = buttons, !.last = last]

\* controllerStateUpdated; what an interceptor takes is not combined.
Updated(i, intercepted) ==
  IF ~i.suspended /\ ~intercepted THEN Tells(i, Combined(i), NotSuppressed)
  ELSE IF i.last # i.pulsed THEN Tells(i, i.pulsed, i.pulsed) ELSE i

\* setGameplayInputSuspended
Suspended(i) ==
  IF i.suspended THEN i ELSE Tells([i EXCEPT !.suspended = TRUE], i.pulsed, i.pulsed)
\* Slip: what is held on the Bluetooth controller is not waited for.
ResumedSlip(i) ==
  IF ~i.suspended THEN i
  ELSE Tells([i EXCEPT !.suspended = FALSE, !.quest = {}], i.pulsed, NotSuppressed)
Resumed(i) ==
  IF ~i.suspended THEN i
  ELSE Tells([i EXCEPT !.suspended = FALSE, !.needsNeutral = i.key, !.quest = {}],
             i.pulsed, NotSuppressed)

\* releaseAllControllerInputs
AllReleased(i) ==
  Tells([i EXCEPT !.key = FALSE, !.quest = {}, !.pulsed = {}], {}, {})

\* updateQuestControllerState
WithQuest(i, buttons, enabled) ==
  LET quest == IF enabled THEN buttons ELSE {}
      pulsed == IF enabled THEN i.pulsed ELSE {}
  IN  IF quest = i.quest /\ pulsed = i.pulsed THEN i
      ELSE Updated([i EXCEPT !.quest = quest, !.pulsed = pulsed], FALSE)

\* pulseQuestControllerButton, and the end of the pulse.
Pulsed(i, button) ==
  IF ~emulation \/ button \in i.pulsed THEN i
  ELSE Updated([i EXCEPT !.pulsed = @ \cup {button}], FALSE)
\* Slip: a pulse ends while a panel is open, and nobody is told.
PulseOverSlip(i, button) ==
  IF i.suspended THEN [i EXCEPT !.pulsed = @ \ {button}]
  ELSE Updated([i EXCEPT !.pulsed = @ \ {button}], FALSE)
PulseOver(i, button) == Updated([i EXCEPT !.pulsed = @ \ {button}], FALSE)

-----------------------------------------------------------------------------
(* Panels. *)

\* openImmersiveControls, openStreamSettings
Opens ==
  /\ panel' = "settings" /\ input' = Suspended(input)
  /\ gate' = QuestButtons /\ keyGate' = input.key

\* closeImmersiveSettings and its likes, of which i is what they find.
Closes(i) ==
  /\ panel' = "none" /\ gate' = QuestButtons /\ keyGate' = i.key
  /\ carried' = (down \ {"menu"}) \cup Keys(i)
ClosesUnderAFrame(i) == Closes(i) /\ underway' = (fpc # "idle")

-----------------------------------------------------------------------------
(* The render thread: onNativeControllerState. *)

\* Slip: the gate lets a button through as soon as another one is released.
BlockedSlip(sample) == IF gate \subseteq sample THEN gate ELSE {}
Blocked(sample) == gate \cap sample

FrameBegins(sample) ==
  /\ fpc = "idle" /\ accept
  /\ gate' = Blocked(sample)
  /\ frame' = [buttons |-> sample \ Blocked(sample), move |-> "none"]
  /\ fpc' = "filtered"
  /\ down' = sample /\ carried' = carried \ (QuestButtons \ sample)
  /\ UNCHANGED <<input, screenVars, keyGate, prev, menu, timers, upc, underway>>

\* A panel is open: it takes the sample, and the game gets none.
FrameOperatesPanel ==
  LET pressed == frame.buttons \ prev
      Takes(i, enabled) == input' = WithQuest(i, {}, enabled) /\ emulation' = enabled
  IN  /\ fpc = "filtered" /\ panel # "none"
      /\ fpc' = "idle" /\ frame' = NoFrame
      /\ prev' = frame.buttons /\ underway' = FALSE
      /\ \/ /\ "menu" \in pressed => "act" \in pressed
            /\ \/ Takes(input, emulation)
               \/ "act" \in pressed /\ panel = "settings" /\ Takes(input, ~emulation)
            /\ UNCHANGED <<panel, gate, keyGate, carried>>
         \/ /\ pressed \cap {"menu", "act"} # {}
            /\ Takes(Resumed(input), emulation) /\ Closes(input)
      /\ UNCHANGED <<accept, menu, timers, upc, down>>

\* What the sample comes to for the gesture, after a chord has ended it.
Move(m, buttons) ==
  IF "menu" \in buttons
  THEN IF ~m.released \/ "menu" \in prev \/ m.held THEN "none"
       ELSE IF m.awaiting /\ ~m.suppressed THEN "secondPress" ELSE "press"
  ELSE IF m.held THEN IF m.long \/ m.suppressed THEN "release"
                      ELSE IF m.second THEN "doubleTap" ELSE "tap"
       ELSE IF m.suppressed /\ "chord" \notin buttons THEN "chordOver" ELSE "none"

\* settled: questMenuArmAfterUptimeMs has passed.
FrameReadsGesture(settled) ==
  LET chord == "chord" \in frame.buttons
      ended == [NoGesture EXCEPT !.suppressed = TRUE, !.released = menu.released]
      m == [(IF chord THEN ended ELSE menu) EXCEPT
              !.released = @ \/ ("menu" \notin frame.buttons /\ settled)]
  IN  /\ fpc = "filtered" /\ panel = "none"
      /\ menu' = m
      /\ timers' = IF chord THEN timers \ {"long", "tap"} ELSE timers
      /\ frame' = [frame EXCEPT !.move = Move(m, frame.buttons)]
      /\ fpc' = "read"
      /\ UNCHANGED <<input, screenVars, gate, keyGate, prev, upc, heldVars>>

AfterMove(m, move) ==
  CASE move = "press"       -> [m EXCEPT !.held = TRUE, !.long = FALSE]
    [] move = "secondPress" -> [m EXCEPT !.held = TRUE, !.long = FALSE,
                                         !.awaiting = FALSE, !.second = TRUE]
    [] move = "tap"         -> [m EXCEPT !.held = FALSE, !.long = FALSE,
                                         !.awaiting = TRUE, !.suppressed = FALSE]
    [] move = "doubleTap"   -> [m EXCEPT !.held = FALSE, !.long = FALSE,
                                         !.second = FALSE, !.suppressed = FALSE]
    [] move = "release"     -> [m EXCEPT !.held = FALSE, !.long = FALSE,
                                         !.suppressed = FALSE]
    [] move = "chordOver"   -> [m EXCEPT !.suppressed = FALSE]
    [] OTHER                -> m

TimersAfter(move) ==
  CASE move = "press"       -> IF menu.suppressed THEN timers ELSE timers \cup {"long"}
    [] move = "secondPress" -> (timers \ {"tap"}) \cup {"long"}
    [] move = "tap"         -> (timers \ {"long"}) \cup {"tap"}
    [] move \in {"doubleTap", "release"} -> timers \ {"long"}
    [] OTHER                -> timers

\* Options itself is not forwarded: the gesture decides.
FrameEnds ==
  LET i == IF frame.move = "doubleTap" THEN Pulsed(input, "ps") ELSE input
  IN  /\ fpc = "read"
      /\ menu' = AfterMove(menu, frame.move)
      /\ timers' = TimersAfter(frame.move) \cup (i.pulsed \ input.pulsed)
      /\ prev' = frame.buttons
      /\ input' = WithQuest(i, frame.buttons \ {"menu"}, emulation)
      /\ fpc' = "idle" /\ frame' = NoFrame
      /\ underway' = (underway /\ input'.told \cap carried # {})
      /\ UNCHANGED <<screenVars, gate, keyGate, upc, down, carried>>

\* releaseImmersiveControllerInput
ReleasesInput ==
  /\ gate' = QuestButtons /\ keyGate' = FALSE /\ prev' = {}
  /\ menu' = [NoGesture EXCEPT !.released = menu.released]
  /\ timers' = {} /\ input' = AllReleased(input)
  /\ carried' = carried \ {"key"}

\* onNativeControllerUnavailable
Unavailable ==
  /\ fpc = "idle" /\ ReleasesInput
  /\ UNCHANGED <<screenVars, upc, frameVars, down, underway>>

RenderNext ==
  \/ \E sample \in Samples : FrameBegins(sample)
  \/ FrameOperatesPanel \/ (\E settled \in BOOLEAN : FrameReadsGesture(settled)) \/ FrameEnds \/ Unavailable

-----------------------------------------------------------------------------
(* The main thread. *)

LongPressFires ==
  /\ upc = "idle" /\ "long" \in timers
  /\ timers' = timers \ {"long"}
  /\ upc' = IF menu.held /\ accept THEN "long" ELSE "idle"
  /\ UNCHANGED <<input, screenVars, gate, keyGate, prev, menu, frameVars, heldVars>>

LongPressOpens ==
  /\ upc = "long" /\ upc' = "idle"
  /\ menu' = [menu EXCEPT !.long = TRUE, !.held = FALSE, !.awaiting = FALSE, !.second = FALSE]
  /\ timers' = timers \ {"tap"}
  /\ Opens
  /\ UNCHANGED <<emulation, accept, prev, frameVars, heldVars>>

TapFires ==
  /\ upc = "idle" /\ "tap" \in timers /\ "options" \notin timers
  /\ timers' = timers \ {"tap"}
  /\ upc' = IF menu.awaiting /\ accept THEN "tap" ELSE "idle"
  /\ UNCHANGED <<input, screenVars, gate, keyGate, prev, menu, frameVars, heldVars>>

TapSendsOptions ==
  /\ upc = "tap" /\ upc' = "idle"
  /\ menu' = [menu EXCEPT !.awaiting = FALSE]
  /\ input' = Pulsed(input, "options")
  /\ timers' = timers \cup (input'.pulsed \ input.pulsed)
  /\ UNCHANGED <<screenVars, gate, keyGate, prev, frameVars, heldVars>>

PulseEnds(button) ==
  /\ upc = "idle" /\ button \in timers
  /\ timers' = timers \ {button}
  /\ input' = PulseOver(input, button)
  /\ UNCHANGED <<screenVars, gate, keyGate, prev, menu, upc, frameVars, heldVars>>

\* dispatchKeyEvent with interceptImmersiveControllerInput.
KeyEvent(pressed) ==
  LET i == [input EXCEPT !.key = pressed,
                         !.needsNeutral = @ /\ (input.suspended \/ pressed)]
      kept == carried \ (IF pressed THEN {} ELSE {"key"})
  IN  /\ upc = "idle"
      /\ \/ /\ input' = Updated(i, keyGate \/ panel # "none")
            /\ keyGate' = (keyGate /\ pressed)
            /\ carried' = kept
            /\ \/ UNCHANGED emulation
               \/ ~keyGate /\ panel = "settings" /\ pressed /\ emulation' = ~emulation
            /\ UNCHANGED <<panel, gate, underway>>
         \/ /\ ~keyGate /\ panel # "none" /\ pressed
            /\ input' = Updated(Resumed(i), TRUE)
            /\ ClosesUnderAFrame(i) /\ UNCHANGED emulation
      /\ UNCHANGED <<accept, prev, menu, timers, upc, frameVars, down>>

\* openStreamSettings does nothing while a dialog is open.
ShowsSettings ==
  /\ upc = "idle" /\ panel # "dialog" /\ Opens
  /\ UNCHANGED <<emulation, accept, prev, menu, timers, upc, frameVars, heldVars>>
ShowsDialog ==
  /\ upc = "idle" /\ panel' = "dialog" /\ input' = Suspended(input)
  /\ UNCHANGED <<emulation, accept, gate, keyGate, prev, menu, timers, upc, frameVars, heldVars>>

\* activateImmersiveSettingAt, for a row the pointer was released on.
PointerPicks ==
  /\ upc = "idle" /\ panel = "settings"
  /\ \/ ClosesUnderAFrame(input) /\ input' = Resumed(input) /\ UNCHANGED emulation
     \/ /\ emulation' = ~emulation
        /\ UNCHANGED <<panel, gate, keyGate, carried, underway, input>>
  /\ UNCHANGED <<accept, prev, menu, timers, upc, frameVars, down>>

LosesFocus ==
  /\ upc = "idle" /\ ReleasesInput
  /\ UNCHANGED <<screenVars, upc, frameVars, down, underway>>

Pauses ==
  /\ upc = "idle" /\ accept /\ accept' = FALSE
  /\ gate' = QuestButtons /\ keyGate' = FALSE /\ prev' = {}
  /\ menu' = NoGesture /\ timers' = {}
  /\ input' = IF panel = "settings" THEN Resumed(AllReleased(input)) ELSE AllReleased(input)
  /\ IF panel = "settings" THEN /\ panel' = "none" /\ carried' = down \ {"menu"}
                                /\ underway' = (fpc # "idle")
                           ELSE carried' = carried \ {"key"} /\ UNCHANGED <<panel, underway>>
  /\ UNCHANGED <<emulation, upc, frameVars, down>>

Resumes ==
  /\ upc = "idle" /\ ~accept /\ accept' = TRUE
  /\ gate' = QuestButtons
  /\ menu' = [menu EXCEPT !.released = FALSE]
  /\ UNCHANGED <<input, emulation, panel, keyGate, prev, timers, upc, frameVars, heldVars>>

MainNext ==
  \/ LongPressFires \/ LongPressOpens \/ TapFires \/ TapSendsOptions
  \/ \E button \in {"options", "ps"} : PulseEnds(button)
  \/ \E pressed \in BOOLEAN : KeyEvent(pressed)
  \/ ShowsSettings \/ ShowsDialog \/ PointerPicks \/ LosesFocus \/ Pauses \/ Resumes

QuestNext == RenderNext \/ MainNext

QuestSpec == QuestInit /\ [][QuestNext]_questVars

-----------------------------------------------------------------------------
\* The state the session was told last is the state of now, or, while the
\* input is suppressed, the pulses of now: whatever panels, gates, gestures and
\* timers do in between, no button is left pressed at the console.
NoButtonIsLeftPressed ==
  input.told = IF input.last = NotSuppressed THEN Combined(input) ELSE input.pulsed

\* A panel keeps its input from the game (VRStreamActivity.kt:288): what is
\* down when it closes is not told to the session before it was released,
\* unless the main thread closes it under a frame that is past the gate.
PanelInputStaysOutOfTheGame == carried \cap input.told # {} => underway

\* "Long-press: sends one PlayStation Options press, then opens the in-stream
\* settings panel" (docs/setup/controlling.md:39).
LongPressSendsOptions ==
  [][upc = "long" /\ upc' = "idle" => "options" \in input'.told]_questVars
=============================================================================
