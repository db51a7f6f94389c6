------------------------------- MODULE SeqNum -------------------------------
(***************************************************************************)
(* Serial-number arithmetic (RFC 1982) as seqnum.h defines it for 16 and   *)
(* 32 bit numbers.  The width is a parameter: SeqHalf is 1 << (bits - 1),  *)
(* so the C code is the pair of instances SeqHalf = 2^15 and 2^31.         *)
(***************************************************************************)
EXTENDS Integers

CONSTANT SeqHalf

ASSUME SeqHalfAssumption == SeqHalf \in Nat \ {0}

SeqMod == 2 * SeqHalf
SeqNums == 0 .. SeqMod - 1

(* The comparisons: a number is neither smaller nor greater than the one   *)
(* exactly half the space away.                                            *)
SeqLt(a, b) == \/ a < b /\ b - a < SeqHalf
               \/ a > b /\ a - b > SeqHalf

SeqGt(a, b) == \/ a < b /\ b - a > SeqHalf
               \/ a > b /\ a - b < SeqHalf

(* ge() of reorderqueue.c. *)
SeqGe(a, b) == a = b \/ SeqGt(a, b)

(* Unsigned addition at the width of the number. *)
SeqAdd(a, n) == (a + n) % SeqMod

(* How far b is ahead of a: the number of increments from a to b. *)
SeqDist(a, b) == (b - a) % SeqMod
=============================================================================
