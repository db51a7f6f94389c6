------------------------------ MODULE MCParts -------------------------------
(* The smaller parts in one instance: in every behaviour one of them runs   *)
(* while the others stay where they begin.  Frame indices, positions in     *)
(* packets and acknowledged numbers wrap; the rings, lists and the history  *)
(* are small enough to be full.                                             *)
EXTENDS VideoReceiver, FeedbackSender, DiscoveryService, KeyBuffer, Senkusha, AckClient, Rudp, QuestSession,
  AudioReceiver

VARIABLE part

partsVars == <<part, videoVars, feedbackVars, discoveryVars, keyVars, senkushaVars, ackBuffer, rudpVars, questSessionVars,
  audioVars>>

Init ==
  /\ part \in {"video", "feedback", "discovery", "keys", "senkusha", "acks", "rudp", "quest", "audio"}
  /\ VideoInit /\ FeedbackInit /\ DiscoveryInit /\ KeyInit /\ RudpInit /\ QuestSessionInit /\ AudioInit
  /\ SenkushaInit /\ (part # "senkusha" => link = [in |-> MtuMin, out |-> MtuMin])
  /\ AckInit /\ (part # "acks" => ackBuffer.count = 0)

\* The others keep their states.
Only(name, steps, others) == part = name /\ steps /\ UNCHANGED <<part, others>>

InVideo(steps) == Only("video", steps, <<feedbackVars, discoveryVars, keyVars, senkushaVars, ackBuffer, rudpVars, questSessionVars, audioVars>>)
InFeedback(steps) == Only("feedback", steps, <<videoVars, discoveryVars, keyVars, senkushaVars, ackBuffer, rudpVars, questSessionVars, audioVars>>)
InDiscovery(steps) == Only("discovery", steps, <<videoVars, feedbackVars, keyVars, senkushaVars, ackBuffer, rudpVars, questSessionVars, audioVars>>)
InKeys(steps) == Only("keys", steps, <<videoVars, feedbackVars, discoveryVars, senkushaVars, ackBuffer, rudpVars, questSessionVars, audioVars>>)
InSenkusha(steps) == Only("senkusha", steps, <<videoVars, feedbackVars, discoveryVars, keyVars, ackBuffer, rudpVars, questSessionVars, audioVars>>)
InAcks(steps) == Only("acks", steps, <<videoVars, feedbackVars, discoveryVars, keyVars, senkushaVars, rudpVars, questSessionVars, audioVars>>)
InRudp(steps) == Only("rudp", steps, <<videoVars, feedbackVars, discoveryVars, keyVars, senkushaVars, ackBuffer, questSessionVars, audioVars>>)
InQuest(steps) == Only("quest", steps, <<videoVars, feedbackVars, discoveryVars, keyVars, senkushaVars, ackBuffer, rudpVars, audioVars>>)
InAudio(steps) == Only("audio", steps, <<videoVars, feedbackVars, discoveryVars, keyVars, senkushaVars, ackBuffer, rudpVars, questSessionVars>>)

Next ==
  \/ InVideo(VideoNext) \/ InFeedback(FeedbackNext) \/ InDiscovery(DiscoveryNext)
  \/ InKeys(KeyNext) \/ InSenkusha(SenkushaNext) \/ InAcks(AckNext) \/ InRudp(RudpNext)
  \/ InQuest(QuestSessionNext) \/ InAudio(AudioNext)

\* The fairness of FeedbackSpec, SenkushaSpec and QuestSessionSpec.
Spec ==
  /\ Init /\ [][Next]_partsVars
  /\ WF_partsVars(InFeedback(SenderSteps))
  /\ WF_partsVars(InSenkusha(RunNext))
  /\ WF_partsVars(InSenkusha(spc = "close" /\ TakionEnds))
  /\ WF_partsVars(InQuest(OwnerSteps))
  /\ WF_partsVars(InQuest(StoppedEnds))
  /\ WF_partsVars(InQuest(CallsReturn))
=============================================================================
