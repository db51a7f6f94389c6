------------------------------ MODULE MCRemote ------------------------------
(* What remote sessions add at their two ends in one instance: the hole     *)
(* punching of the library, and the desktop client that makes, connects     *)
(* and ends sessions.  In every behaviour one of them runs.                 *)
EXTENDS Holepunch, DesktopSession

VARIABLE part

remoteVars == <<part, holepunchVars, desktopVars>>

Init ==
  /\ part \in {"holepunch", "desktop"}
  /\ HolepunchInit
  /\ DesktopInit /\ (part # "desktop" => desk.autoMac = "none" /\ \A c \in Consoles : power.on[c])

\* The other keeps its state.
InHolepunch(steps) == part = "holepunch" /\ steps /\ UNCHANGED <<part, desktopVars>>
InDesktop(steps) == part = "desktop" /\ steps /\ UNCHANGED <<part, holepunchVars>>

Next == InHolepunch(HolepunchNext) \/ InDesktop(DesktopNext)

\* The fairness of HolepunchSpec and DesktopSpec: as the part never changes, one
\* condition stands for a step of each.
Spec ==
  /\ Init /\ [][Next]_remoteVars
  /\ WF_remoteVars(InHolepunch(StepsNext) \/ InDesktop(Open /\ HandlePosted))
  /\ WF_remoteVars(InHolepunch(FiniNext) \/ InDesktop(TimersNext))
  /\ WF_remoteVars(InHolepunch(WsNext) \/ InDesktop(Open /\ ThreadBegins))
=============================================================================
