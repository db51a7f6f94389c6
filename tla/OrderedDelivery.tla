-------------------------- MODULE OrderedDelivery --------------------------
(***************************************************************************)
(* What the data channel of Takion promises its user: the messages of the  *)
(* console are taken one by one, each once, in the order they were sent,   *)
(* and those of a known data type are handed to the callback.              *)
(***************************************************************************)
EXTENDS Integers, Sequences

CONSTANTS MaxMessages, \* bound: number of messages ever sent
          UnknownTypes \* the messages whose data type is not known

VARIABLES produced,  \* number of messages sent
          taken,     \* number of messages taken
          handed     \* the messages given to the callback

vars == <<produced, taken, handed>>

Init == produced = 0 /\ taken = 0 /\ handed = <<>>

Produce ==
  /\ produced < MaxMessages
  /\ produced' = produced + 1
  /\ UNCHANGED <<taken, handed>>

Take ==
  /\ taken < produced
  /\ taken' = taken + 1
  /\ handed' = IF taken \in UnknownTypes THEN handed ELSE Append(handed, taken)
  /\ UNCHANGED produced

Next == Produce \/ Take

Spec == Init /\ [][Next]_vars
=============================================================================
