------------------------- MODULE MCStreamConnection -------------------------
(* The stream connection with two tries and one postponed packet, and the  *)
(* two queues of its Takion thread: the data channel, where more messages  *)
(* are under way than its queue has room for and the numbers wrap, and the *)
(* video queue.  They share no state: in every behaviour one of them runs  *)
(* while the others stay where they begin.                                 *)
EXTENDS StreamConnection, TakionData, TakionAVQueue

VARIABLE part

MCInit ==
  /\ part \in {"connection", "data channel", "video queue"}
  /\ Init /\ DataInit /\ AVInit

InConnection(steps) == part = "connection" /\ steps /\ UNCHANGED <<part, dataVars, avVars>>
InData(steps) == part = "data channel" /\ steps /\ UNCHANGED <<part, vars, avVars>>
InVideo(steps) == part = "video queue" /\ steps /\ UNCHANGED <<part, vars, dataVars>>

MCNext == InConnection(Next) \/ InData(DataNext) \/ InVideo(AVNext)
mcVars == <<part, vars, dataVars, avVars>>

\* The fairness of the three specifications.
MCSpec ==
  /\ MCInit /\ [][MCNext]_mcVars
  /\ WF_mcVars(InConnection(RunSteps)) /\ SF_mcVars(InConnection(StopsCongestionControl))
  /\ SF_mcVars(InConnection(FeedbackLocks)) /\ WF_mcVars(InConnection(TakionOnly(TakionSteps)))
  /\ SF_mcVars(InConnection(TakionOnly(RecvCanceled))) /\ WF_mcVars(InConnection(Callback))
  /\ WF_mcVars(InConnection(TakionOnly(ResendSleeps \/ ResendEnds)))
  /\ WF_mcVars(InConnection(CongestionSends)) /\ WF_mcVars(InConnection(CongestionEnds))
  /\ WF_mcVars(InConnection(FeedbackEnds)) /\ WF_mcVars(InConnection(InputUnlocks))
  /\ WF_mcVars(InData(FlushPulls \/ FlushAcks \/ FlushEnds)) /\ SF_mcVars(InData(TurnArrives))
  /\ WF_mcVars(InVideo(FlushNext)) /\ SF_mcVars(InVideo(RecvTimesOut)) /\ SF_mcVars(InVideo(AVTick))
=============================================================================
