---------------------------- MODULE SeqNumProofs ----------------------------
(***************************************************************************)
(* Facts about serial-number arithmetic: comparisons and additions in      *)
(* terms of the distance between two numbers.                              *)
(***************************************************************************)
EXTENDS SeqNum, WellFoundedInduction, TLAPS

(* A set of numbers that is not empty has a smallest element. *)
LEMMA SmallestNumber ==
  ASSUME NEW T \in SUBSET Nat, T # {}
  PROVE  \E x \in T : \A y \in T : x <= y
  <1>1. PICK x \in T : \A y \in T : ~(<<y, x>> \in OpToRel(<, Nat))
    BY NatLessThanWellFounded, WFMin
  <1>2. ASSUME NEW y \in T PROVE x <= y
    <2>1. ~(y < x)
      BY <1>1 DEF OpToRel
    <2> QED
      BY <2>1
  <1> QED
    BY <1>2

(* A number below the modulus is its own remainder. *)
LEMMA ModSmall == ASSUME NEW m \in Nat \ {0}, NEW x \in 0 .. m - 1 PROVE x % m = x
  OBVIOUS

(* A sum that overflows once loses one modulus. *)
LEMMA ModWrap == ASSUME NEW m \in Nat \ {0}, NEW x \in m .. 2 * m - 1 PROVE x % m = x - m
  OBVIOUS

(* A difference that underflows gains one modulus. *)
LEMMA ModNegative == ASSUME NEW m \in Nat \ {0}, NEW x \in (-m) .. (-1) PROVE x % m = x + m
  OBVIOUS

(* The number space is twice its positive half. *)
LEMMA SeqModFacts == /\ SeqMod \in Nat \ {0}
                     /\ SeqHalf \in Nat \ {0}
                     /\ SeqMod = SeqHalf + SeqHalf
  BY SeqHalfAssumption DEF SeqMod

(* seq_num_add wraps at most once for an increment within the space. *)
LEMMA AddValue ==
  ASSUME NEW a \in SeqNums, NEW n \in 0 .. SeqMod
  PROVE  SeqAdd(a, n) = IF a + n < SeqMod THEN a + n ELSE a + n - SeqMod
  <1> USE SeqModFacts DEF SeqNums, SeqAdd
  <1>1. CASE a + n < SeqMod
    <2>1. a + n \in 0 .. SeqMod - 1
      BY <1>1
    <2> QED
      BY <1>1, <2>1, ModSmall
  <1>2. CASE ~(a + n < SeqMod)
    <2>1. a + n \in SeqMod .. 2 * SeqMod - 1
      BY <1>2
    <2> QED
      BY <1>2, <2>1, ModWrap
  <1> QED
    BY <1>1, <1>2

(* The distance between two numbers, without the modulus. *)
LEMMA DistValue ==
  ASSUME NEW a \in SeqNums, NEW b \in SeqNums
  PROVE  SeqDist(a, b) = IF a <= b THEN b - a ELSE b - a + SeqMod
  <1> USE SeqModFacts DEF SeqNums, SeqDist
  <1>1. CASE a <= b
    <2>1. b - a \in 0 .. SeqMod - 1
      BY <1>1
    <2> QED
      BY <1>1, <2>1, ModSmall
  <1>2. CASE ~(a <= b)
    <2>1. b - a \in (-SeqMod) .. (-1)
      BY <1>2
    <2> QED
      BY <1>2, <2>1, ModNegative
  <1> QED
    BY <1>1, <1>2

(* Addition stays within the number space. *)
LEMMA AddType == ASSUME NEW a \in SeqNums, NEW n \in 0 .. SeqMod PROVE SeqAdd(a, n) \in SeqNums
  BY AddValue, SeqModFacts DEF SeqNums

(* A distance is smaller than the number space. *)
LEMMA DistType == ASSUME NEW a \in SeqNums, NEW b \in SeqNums PROVE SeqDist(a, b) \in 0 .. SeqMod - 1
  BY DistValue, SeqModFacts DEF SeqNums

(* lt holds for the numbers less than half the space ahead. *)
LEMMA LtByDist ==
  ASSUME NEW a \in SeqNums, NEW b \in SeqNums
  PROVE  SeqLt(a, b) <=> SeqDist(a, b) \in 1 .. SeqHalf - 1
  BY DistValue, SeqModFacts DEF SeqLt, SeqNums

(* ge holds for a number and those less than half the space behind. *)
LEMMA GeByDist ==
  ASSUME NEW a \in SeqNums, NEW b \in SeqNums
  PROVE  SeqGe(a, b) <=> SeqDist(b, a) < SeqHalf
  BY DistValue, SeqModFacts DEF SeqGe, SeqGt, SeqNums

(* The distances there and back add up to the whole space. *)
LEMMA DistBack ==
  ASSUME NEW a \in SeqNums, NEW b \in SeqNums
  PROVE  SeqDist(b, a) = IF a = b THEN 0 ELSE SeqMod - SeqDist(a, b)
  BY DistValue, SeqModFacts DEF SeqNums

(* Only a number itself is at distance zero. *)
LEMMA DistZero ==
  ASSUME NEW a \in SeqNums, NEW b \in SeqNums
  PROVE  SeqDist(a, b) = 0 <=> a = b
  BY DistValue, SeqModFacts DEF SeqNums

(* Distances from a common origin subtract, with one wrap at most. *)
LEMMA DistSplit ==
  ASSUME NEW a \in SeqNums, NEW b \in SeqNums, NEW c \in SeqNums
  PROVE  SeqDist(b, c) = IF SeqDist(a, b) <= SeqDist(a, c)
                           THEN SeqDist(a, c) - SeqDist(a, b)
                           ELSE SeqDist(a, c) - SeqDist(a, b) + SeqMod
  BY DistValue, SeqModFacts DEF SeqNums

(* Adding n leads n numbers ahead. *)
LEMMA DistOfAdd ==
  ASSUME NEW a \in SeqNums, NEW n \in 0 .. SeqMod - 1
  PROVE  SeqDist(a, SeqAdd(a, n)) = n
  <1> DEFINE b == SeqAdd(a, n)
  <1>1. n \in 0 .. SeqMod /\ n \in Int /\ a \in Int
    BY SeqModFacts DEF SeqNums
  <1>2. b \in SeqNums /\ b = IF a + n < SeqMod THEN a + n ELSE a + n - SeqMod
    BY <1>1, AddValue, AddType
  <1>3. SeqDist(a, b) = IF a <= b THEN b - a ELSE b - a + SeqMod
    BY <1>2, DistValue
  <1> HIDE DEF b
  <1>4. SeqDist(a, b) = n
    BY <1>1, <1>2, <1>3, SeqModFacts DEF SeqNums
  <1> QED
    BY <1>4 DEF b

(* Adding the distance to a number leads to it. *)
LEMMA AddOfDist ==
  ASSUME NEW a \in SeqNums, NEW b \in SeqNums
  PROVE  SeqAdd(a, SeqDist(a, b)) = b
  <1> DEFINE n == SeqDist(a, b)
  <1>1. n \in 0 .. SeqMod - 1 /\ n = IF a <= b THEN b - a ELSE b - a + SeqMod
    BY DistType, DistValue
  <1>2. n \in 0 .. SeqMod
    BY <1>1, SeqModFacts
  <1>3. SeqAdd(a, n) = IF a + n < SeqMod THEN a + n ELSE a + n - SeqMod
    BY <1>2, AddValue
  <1> HIDE DEF n
  <1>4. SeqAdd(a, n) = b
    BY <1>1, <1>3, SeqModFacts DEF SeqNums
  <1> QED
    BY <1>4 DEF n

(* Two additions within the space are one. *)
LEMMA AddTwice ==
  ASSUME NEW a \in SeqNums, NEW m \in Nat, NEW n \in Nat, m + n <= SeqMod
  PROVE  SeqAdd(SeqAdd(a, m), n) = SeqAdd(a, m + n)
  <1> DEFINE b == SeqAdd(a, m)
  <1>1. m \in 0 .. SeqMod /\ n \in 0 .. SeqMod /\ m + n \in 0 .. SeqMod
    BY SeqModFacts
  <1>2. b \in SeqNums /\ b = IF a + m < SeqMod THEN a + m ELSE a + m - SeqMod
    BY <1>1, AddValue, AddType
  <1>3. SeqAdd(b, n) = IF b + n < SeqMod THEN b + n ELSE b + n - SeqMod
    BY <1>1, <1>2, AddValue
  <1>4. SeqAdd(a, m + n) = IF a + (m + n) < SeqMod THEN a + (m + n)
                                                    ELSE a + (m + n) - SeqMod
    BY <1>1, AddValue
  <1> HIDE DEF b
  <1>5. SeqAdd(b, n) = SeqAdd(a, m + n)
    BY <1>1, <1>2, <1>3, <1>4, SeqModFacts DEF SeqNums
  <1> QED
    BY <1>5 DEF b

-----------------------------------------------------------------------------
(* Things that are counted without wrapping, and their numbers.            *)
NumOf(n) == n % SeqMod

(* Division and remainder, as a product and a sum. *)
LEMMA Division ==
  ASSUME NEW m \in Nat \ {0}, NEW x \in Nat
  PROVE  /\ x \div m \in Nat
         /\ x % m \in 0 .. m - 1
         /\ x = (m * (x \div m)) + (x % m)
  OBVIOUS

(* The number of a thing is a number, and the first ones are their own.    *)
LEMMA NumOfType ==
  ASSUME NEW n \in Nat
  PROVE  NumOf(n) \in SeqNums /\ NumOf(n) <= n /\ (n < SeqMod => NumOf(n) = n)
  <1>1. n % SeqMod \in 0 .. SeqMod - 1 /\ n = (SeqMod * (n \div SeqMod)) + (n % SeqMod) /\ n \div SeqMod \in Nat
    BY SeqModFacts, Division
  <1>2. SeqMod * (n \div SeqMod) >= 0
    BY <1>1, SeqModFacts
  <1>3. n < SeqMod => n % SeqMod = n
    BY SeqModFacts, ModSmall
  <1> QED
    BY <1>1, <1>2, <1>3, SeqModFacts DEF NumOf, SeqNums

(* Things less than the space apart have numbers that far apart.           *)
LEMMA NumOfDist ==
  ASSUME NEW a \in Nat, NEW b \in Nat, a <= b, b - a < SeqMod
  PROVE  SeqDist(NumOf(a), NumOf(b)) = b - a
  <1> USE SeqModFacts
  <1>1. /\ NumOf(a) \in 0 .. SeqMod - 1 /\ NumOf(b) \in 0 .. SeqMod - 1
    BY NumOfType DEF SeqNums
  <1>2. PICK q \in Nat : a = (SeqMod * q) + NumOf(a)
    BY Division DEF NumOf
  <1>3. PICK r \in Nat : b = (SeqMod * r) + NumOf(b)
    BY Division DEF NumOf
  <1>4. r = q \/ r = q + 1
    <2>1. CASE r < q
      <3>1. PICK d \in Nat : q = r + 1 + d
        <4>1. q - (r + 1) \in Nat /\ q = r + 1 + (q - (r + 1))
          BY <2>1
        <4> QED
          BY <4>1
      <3>2. SeqMod * q = (SeqMod * r) + SeqMod + SeqMod * d /\ SeqMod * d >= 0
        BY <3>1
      <3> QED
        BY <1>1, <1>2, <1>3, <3>2
    <2>2. CASE r > q + 1
      <3>1. PICK d \in Nat : r = q + 2 + d
        <4>1. r - (q + 2) \in Nat /\ r = q + 2 + (r - (q + 2))
          BY <2>2
        <4> QED
          BY <4>1
      <3>2. SeqMod * r = (SeqMod * q) + SeqMod + SeqMod + SeqMod * d /\ SeqMod * d >= 0
        BY <3>1
      <3> QED
        BY <1>1, <1>2, <1>3, <3>2
    <2> QED
      BY <2>1, <2>2
  <1>5. CASE r = q
    BY <1>1, <1>2, <1>3, <1>5, DistValue, SMTT(30) DEF SeqNums
  <1>6. CASE r = q + 1
    <2>1. SeqMod * r = SeqMod * q + SeqMod
      BY <1>6
    <2>2. b - a = NumOf(b) - NumOf(a) + SeqMod /\ NumOf(a) > NumOf(b)
      BY <1>1, <1>2, <1>3, <2>1
    <2>3. SeqDist(NumOf(a), NumOf(b)) = IF NumOf(a) <= NumOf(b) THEN NumOf(b) - NumOf(a) ELSE NumOf(b) - NumOf(a) + SeqMod
      BY <1>1, DistValue DEF SeqNums
    <2> QED
      BY <1>1, <2>2, <2>3
  <1> QED
    BY <1>4, <1>5, <1>6

(* Things less than half the space apart are ordered as their numbers are. *)
LEMMA NumOfOrder ==
  ASSUME NEW a \in Nat, NEW b \in Nat, a - b < SeqHalf, b - a < SeqHalf
  PROVE  /\ SeqLt(NumOf(a), NumOf(b)) <=> a < b
         /\ SeqGt(NumOf(a), NumOf(b)) <=> a > b
         /\ NumOf(a) = NumOf(b) <=> a = b
  <1> USE SeqModFacts
  <1>1. NumOf(a) \in SeqNums /\ NumOf(b) \in SeqNums
    BY NumOfType
  <1>2. CASE a <= b
    <2>1. SeqDist(NumOf(a), NumOf(b)) = b - a /\ b - a \in 0 .. SeqHalf - 1
      BY <1>2, NumOfDist
    <2>2. SeqDist(NumOf(a), NumOf(b)) =
            IF NumOf(a) <= NumOf(b) THEN NumOf(b) - NumOf(a) ELSE NumOf(b) - NumOf(a) + SeqMod
      BY <1>1, DistValue
    <2> QED
      BY <1>1, <1>2, <2>1, <2>2 DEF SeqLt, SeqGt, SeqNums
  <1>3. CASE b <= a
    <2>1. SeqDist(NumOf(b), NumOf(a)) = a - b /\ a - b \in 0 .. SeqHalf - 1
      BY <1>3, NumOfDist
    <2>2. SeqDist(NumOf(b), NumOf(a)) =
            IF NumOf(b) <= NumOf(a) THEN NumOf(a) - NumOf(b) ELSE NumOf(a) - NumOf(b) + SeqMod
      BY <1>1, DistValue
    <2> QED
      BY <1>1, <1>3, <2>1, <2>2 DEF SeqLt, SeqGt, SeqNums
  <1> QED
    BY <1>2, <1>3

(* Adding k to the number of a thing gives that of the k-th after it.      *)
LEMMA NumOfLater ==
  ASSUME NEW n \in Nat, NEW k \in Nat, k < SeqMod
  PROVE  SeqAdd(NumOf(n), k) = NumOf(n + k)
  <1>1. SeqDist(NumOf(n), NumOf(n + k)) = k
    <2>1. n + k \in Nat /\ n <= n + k /\ (n + k) - n = k
      OBVIOUS
    <2> QED
      BY <2>1, NumOfDist
  <1>2. SeqAdd(NumOf(n), SeqDist(NumOf(n), NumOf(n + k))) = NumOf(n + k)
    <2>1. NumOf(n) \in SeqNums /\ NumOf(n + k) \in SeqNums
      BY NumOfType
    <2> QED
      BY <2>1, AddOfDist
  <1> QED
    BY <1>1, <1>2
=============================================================================
