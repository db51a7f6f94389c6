--------------------------- MODULE AckCompaction ---------------------------
(* chiaki_takion_send_buffer_ack removes what is acknowledged cumulatively *)
(* by moving the kept packets forward, gap by gap, in one pass.            *)
EXTENDS Naturals

CONSTANT AckHalf  \* half the sequence number space
ASSUME AckAssumption == AckHalf \in Nat \ {0}

Nums == INSTANCE SeqNum WITH SeqHalf <- AckHalf

Acked(s, a) == s = a \/ Nums!SeqLt(s, a)

MemMove(a, dst, src, n) ==
  [j \in DOMAIN a |-> IF dst <= j /\ j < dst + n THEN a[src + (j - dst)] ELSE a[j]]

\* Slip: a new gap starts where the old one ended.
AckStepUnshifted(c, i, s) ==
  IF ~Acked(c.slots[i].seq, s) THEN c
  ELSE IF c.shift = 0 THEN [c EXCEPT !.start = i, !.shift = 1]
  ELSE IF c.start + c.shift = i THEN [c EXCEPT !.shift = @ + 1]
  ELSE [slots |-> MemMove(c.slots, c.start, c.start + c.shift, i - (c.start + c.shift)),
        start |-> i, shift |-> c.shift + 1]

AckStep(c, i, s) ==
  IF ~Acked(c.slots[i].seq, s) THEN c
  ELSE IF c.shift = 0 THEN [c EXCEPT !.start = i, !.shift = 1]
  ELSE IF c.start + c.shift = i THEN [c EXCEPT !.shift = @ + 1]
  ELSE [slots |-> MemMove(c.slots, c.start, c.start + c.shift, i - (c.start + c.shift)),
        start |-> i - c.shift, shift |-> c.shift + 1]

AckLoop(b, s) ==
  LET c[n \in 0 .. b.count] ==
        IF n = 0 THEN [slots |-> b.slots, start |-> 0, shift |-> 0]
                 ELSE AckStep(c[n - 1], n - 1, s)
  IN  c[b.count]

\* The packets array b.slots, of which the first b.count are in use, after the acknowledgement of s.
RemoveAcked(b, s) ==
  LET c == AckLoop(b, s)
      tail == c.start + c.shift
  IN  [slots |-> IF c.shift > 0 /\ tail < b.count
                   THEN MemMove(c.slots, c.start, tail, b.count - tail)
                   ELSE c.slots,
       count |-> b.count - c.shift]
=============================================================================
