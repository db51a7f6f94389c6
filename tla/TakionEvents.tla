---------------------------- MODULE TakionEvents ----------------------------
(***************************************************************************)
(* What Takion promises to the callback of its user (ChiakiTakionEvent):   *)
(* CONNECTED at most once and before anything is delivered, one callback   *)
(* at a time, DISCONNECT at most once and as the last one.  It comes when  *)
(* Takion is closed, unless the thread of a connection hangs for ever at   *)
(* its end, where a message that is sent may still free it.                *)
(***************************************************************************)
VARIABLES
  phase,     \* of the connection
  event,     \* the event whose callback runs, or "none"
  closing    \* chiaki_takion_close has been called

vars == <<phase, event, closing>>

Init == phase = "idle" /\ event = "none" /\ closing = FALSE

Open ==
  /\ phase = "idle" /\ phase' = "connecting"
  /\ UNCHANGED <<event, closing>>
Connect ==
  /\ phase = "connecting" /\ event = "none"
  /\ phase' = "connected" /\ event' = "connected"
  /\ UNCHANGED closing
Deliver ==
  /\ phase = "connected" /\ event = "none"
  /\ event' \in {"data", "av"}
  /\ UNCHANGED <<phase, closing>>
End ==
  /\ phase \in {"connecting", "connected"} /\ event = "none"
  /\ phase' = "over" /\ event' = "disconnect"
  /\ UNCHANGED closing
\* The thread waits for one of its own that has missed the stop.
Hang == phase = "connected" /\ phase' = "hung" /\ UNCHANGED <<event, closing>>
Recover == phase = "hung" /\ phase' = "connected" /\ UNCHANGED <<event, closing>>
Return == event # "none" /\ event' = "none" /\ UNCHANGED <<phase, closing>>
Close == phase # "idle" /\ closing' = TRUE /\ UNCHANGED <<phase, event>>

Next == Open \/ Connect \/ Deliver \/ End \/ Hang \/ Recover \/ Return \/ Close
Spec == Init /\ [][Next]_vars /\ WF_vars(Return) /\ SF_vars(closing /\ End)
=============================================================================
