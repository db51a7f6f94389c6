-------------------------------- MODULE Rudp --------------------------------
(***************************************************************************)
(* Messages to the console of a remote session (remote/rudp.c and its send *)
(* buffer).  The ctrl thread and the session thread both send; a message   *)
(* is kept, and sent again, until the console acknowledges its number.     *)
(* The buffer is that of Takion with 16 bit numbers: its compaction is     *)
(* AckCompaction, and how its thread waits is TakionSendBuffer.            *)
(***************************************************************************)
EXTENDS Naturals

CONSTANTS
  RudpHalf,      \* half the space of counters (2^15)
  RudpSize,      \* RUDP_SEND_BUFFER_SIZE
  RudpTries,     \* RUDP_DATA_RESEND_TRIES_MAX
  Senders,       \* the threads that send
  FirstCounter,  \* the random counter of chiaki_rudp_reset_counter_header
  MaxMessages    \* bound: messages of a session

ASSUME RudpAssumption ==
  /\ RudpHalf \in Nat \ {0} /\ RudpSize \in Nat \ {0} /\ RudpTries \in Nat
  /\ FirstCounter \in 0 .. 2 * RudpHalf - 1 /\ MaxMessages \in Nat /\ MaxMessages < RudpHalf

Ring == INSTANCE AckCompaction WITH AckHalf <- RudpHalf

VARIABLES
  counter,   \* rudp->counter
  sending,   \* for each thread where it is in its call, its message's counter, and the number it is kept under
  kept,      \* packets and packets_count of the send buffer
  giving,    \* the resend thread in its give-up branch: where, the slot, the number read from it
  reached,   \* counters of the messages the console has
  sentOk,    \* counters of the messages whose call returned success
  onWay,     \* counters of the messages given to the network
  givenUp    \* counters of the messages removed by giving up

rudpVars == <<counter, sending, kept, giving, reached, sentOk, onWay, givenUp>>

Counters == 0 .. 2 * RudpHalf - 1
Later(c, n) == (c + n) % (2 * RudpHalf)
MessageCounters == {Later(FirstCounter, n) : n \in 0 .. MaxMessages - 1}
EmptySlot == [seq |-> 0, msg |-> 0, tries |-> 0]

RudpTypeOK ==
  /\ counter \in Counters
  /\ sending \in [Senders -> [at : {"idle", "counted", "keyed", "sent"}, msg : Counters, key : Counters]]
  /\ kept.count \in 0 .. RudpSize
  /\ kept.slots \in [0 .. RudpSize - 1 -> [seq : Counters, msg : Counters, tries : 0 .. RudpTries]]
  /\ giving.at \in {"no", "read", "ack"} /\ giving.slot \in 0 .. RudpSize - 1 /\ giving.key \in Counters
  /\ reached \subseteq onWay /\ onWay \subseteq MessageCounters
  /\ sentOk \subseteq onWay /\ givenUp \subseteq onWay

RudpInit ==
  /\ counter = FirstCounter
  /\ sending = [t \in Senders |-> [at |-> "idle", msg |-> 0, key |-> 0]]
  /\ kept = [slots |-> [i \in 0 .. RudpSize - 1 |-> EmptySlot], count |-> 0]
  /\ giving = [at |-> "no", slot |-> 0, key |-> 0]
  /\ reached = {} /\ sentOk = {} /\ onWay = {} /\ givenUp = {}

Stored == {kept.slots[i] : i \in 0 .. kept.count - 1}
Messages(b) == {b.slots[i].msg : i \in 0 .. b.count - 1}

-----------------------------------------------------------------------------
(* chiaki_rudp_send_ctrl_message and its like for the switch message: the  *)
(* counter is taken under its mutex and read again, without it, for the    *)
(* number that the console will acknowledge.                               *)
TakesCounter(t) ==
  /\ sending[t].at = "idle" /\ counter \in MessageCounters
  /\ sending' = [sending EXCEPT ![t] = [at |-> "counted", msg |-> counter, key |-> 0]]
  /\ counter' = Later(counter, 1)
  /\ UNCHANGED <<kept, giving, reached, sentOk, onWay, givenUp>>

\* Slip: the message is kept under its own counter.
KeySlip(t) == sending[t].msg
Key(t) == counter

ReadsKey(t) ==
  /\ sending[t].at = "counted"
  /\ sending' = [sending EXCEPT ![t].at = "keyed", ![t].key = Key(t)]
  /\ UNCHANGED <<counter, kept, giving, reached, sentOk, onWay, givenUp>>

\* chiaki_rudp_send_raw; when it fails, nothing is kept.
SendsRaw(t) ==
  /\ sending[t].at = "keyed"
  /\ \/ onWay' = onWay \union {sending[t].msg} /\ sending' = [sending EXCEPT ![t].at = "sent"]
     \/ sending' = [sending EXCEPT ![t].at = "idle"] /\ UNCHANGED onWay
  /\ UNCHANGED <<counter, kept, giving, reached, sentOk, givenUp>>

\* chiaki_rudp_send_buffer_push: refused when the buffer is full or has the number already.
Keeps(t) ==
  LET refused == kept.count >= RudpSize \/ \E p \in Stored : p.seq = sending[t].key
      packet == [seq |-> sending[t].key, msg |-> sending[t].msg, tries |-> 0]
  IN /\ sending[t].at = "sent"
     /\ sending' = [sending EXCEPT ![t].at = "idle"]
     /\ kept' = IF refused THEN kept
                ELSE [slots |-> [kept.slots EXCEPT ![kept.count] = packet], count |-> kept.count + 1]
     /\ sentOk' = IF refused THEN sentOk ELSE sentOk \union {sending[t].msg}
     /\ UNCHANGED <<counter, giving, reached, onWay, givenUp>>

-----------------------------------------------------------------------------
\* rudp_send_buffer_resend: a packet may be due at every scan.
Resends ==
  /\ giving.at = "no"
  /\ \E i \in 0 .. kept.count - 1 :
       \/ /\ kept.slots[i].tries < RudpTries
          /\ kept' = [kept EXCEPT !.slots[i].tries = @ + 1] /\ UNCHANGED giving
       \/ /\ kept.slots[i].tries >= RudpTries
          /\ giving' = [at |-> "read", slot |-> i, key |-> 0] /\ UNCHANGED kept
  /\ UNCHANGED <<counter, sending, reached, sentOk, onWay, givenUp>>

\* The mutex is unlocked: what the slot holds may have changed.
GiveUpReads ==
  /\ giving.at = "read" /\ giving' = [giving EXCEPT !.at = "ack", !.key = kept.slots[giving.slot].seq]
  /\ UNCHANGED <<counter, sending, kept, reached, sentOk, onWay, givenUp>>
GiveUpAcks ==
  /\ giving.at = "ack" /\ giving' = [at |-> "no", slot |-> 0, key |-> 0]
  /\ kept' = Ring!RemoveAcked(kept, giving.key)
  /\ givenUp' = givenUp \union (Messages(kept) \ Messages(kept'))
  /\ UNCHANGED <<counter, sending, reached, sentOk, onWay>>

\* The console, which gets what was given to the network, or not, and acknowledges
\* a number when it has every message before it.
MessageReaches(c) ==
  /\ c \in onWay \ reached /\ reached' = reached \union {c}
  /\ UNCHANGED <<counter, sending, kept, giving, sentOk, onWay, givenUp>>
Acknowledgeable(n) == \A i \in 0 .. n - 1 : Later(FirstCounter, i) \in reached

\* chiaki_rudp_ack_packet, called by the ctrl thread between its own messages.
AckArrives(n) ==
  /\ Acknowledgeable(n) /\ ("ctrl" \in Senders => sending["ctrl"].at = "idle")
  /\ kept' = Ring!RemoveAcked(kept, Later(FirstCounter, n))
  /\ UNCHANGED <<counter, sending, giving, reached, sentOk, onWay, givenUp>>

RudpNext ==
  \/ \E t \in Senders : TakesCounter(t) \/ ReadsKey(t) \/ SendsRaw(t) \/ Keeps(t)
  \/ Resends \/ GiveUpReads \/ GiveUpAcks
  \/ \E c \in MessageCounters : MessageReaches(c)
  \/ \E n \in 1 .. MaxMessages : AckArrives(n)

RudpSpec == RudpInit /\ [][RudpNext]_rudpVars

-----------------------------------------------------------------------------
\* A message whose sending succeeded is sent again until the console has it,
\* or it is given up, although the number it is kept under may be that of a
\* message the other thread sends at the same time.
AcceptedMessagesAreKept == sentOk \subseteq reached \union givenUp \union Messages(kept)
=============================================================================
