----------------------------- MODULE AckClient -----------------------------
(***************************************************************************)
(* The array of the send buffer with every content that threads overtaking *)
(* each other between taking a number and pushing can leave in it,         *)
(* followed by acknowledgements only.                                      *)
(***************************************************************************)
EXTENDS AckCompaction, FiniteSets

CONSTANTS
  AckSize,    \* TAKION_SEND_BUFFER_SIZE
  AckNumbers  \* bound: the numbers of packets under way, less than half the space apart

ASSUME AckClientAssumption == AckSize \in Nat \ {0} /\ AckNumbers \subseteq Nums!SeqNums

VARIABLE ackBuffer

Orders == UNION {{o \in [0 .. n - 1 -> AckNumbers] : \A i, j \in 0 .. n - 1 : o[i] = o[j] => i = j}
                 : n \in 0 .. AckSize}

Array(o) == [i \in 0 .. AckSize - 1 |-> [seq |-> IF i \in DOMAIN o THEN o[i] ELSE 0]]

AckInit == \E o \in Orders : ackBuffer = [slots |-> Array(o), count |-> Cardinality(DOMAIN o)]

Acknowledges(s) == ackBuffer' = RemoveAcked(ackBuffer, s)

AckNext == \E s \in AckNumbers : Acknowledges(s)

-----------------------------------------------------------------------------
(* The pass with its memmoves keeps exactly the packets that are not       *)
(* acknowledged, in their order.                                           *)
Packets(b) == [i \in 1 .. b.count |-> b.slots[i - 1]]

Kept(b, s) ==
  LET kept == {i \in 0 .. b.count - 1 : ~Acked(b.slots[i].seq, s)}
      nth(n) == CHOOSE i \in kept : Cardinality({j \in kept : j < i}) = n - 1
  IN  [n \in 1 .. Cardinality(kept) |-> b.slots[nth(n)]]

AckKeepsTheOthersInOrder ==
  [][ackBuffer.count > 0 =>
       \A s \in AckNumbers : Acknowledges(s) => Packets(ackBuffer') = Kept(ackBuffer, s)]_ackBuffer
=============================================================================
