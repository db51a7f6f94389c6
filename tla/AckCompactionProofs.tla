------------------------ MODULE AckCompactionProofs ------------------------
(***************************************************************************)
(* What an acknowledgement leaves in the array: the packets that are not   *)
(* acknowledged, each once and in their order, for any array, any width    *)
(* of the numbers and any pattern of gaps.                                 *)
(*                                                                         *)
(* The pass over the array is a recursive function.  That it exists, and   *)
(* what it has done after n packets, is shown for the smallest n for which *)
(* it would be otherwise.                                                  *)
(***************************************************************************)
EXTENDS AckCompaction, Integers, TLAPS

Serial == INSTANCE SeqNumProofs WITH SeqHalf <- AckHalf

-----------------------------------------------------------------------------
(* The pass. *)
Untouched(b) == [slots |-> b.slots, start |-> 0, shift |-> 0]
IsPass(c, b, s, m) ==
  c = [n \in 0 .. m |-> IF n = 0 THEN Untouched(b) ELSE AckStep(c[n - 1], n - 1, s)]
HasPass(b, s, m) == \E c : IsPass(c, b, s, m)

(* A pass over m packets is continued by its next step. *)
LEMMA PassGoesOn ==
  ASSUME NEW b, NEW s, NEW m \in Nat, HasPass(b, s, m)
  PROVE  HasPass(b, s, m + 1)
  <1>1. PICK c : IsPass(c, b, s, m)
    BY DEF HasPass
  <1> DEFINE d == [n \in 0 .. m + 1 |-> IF n <= m THEN c[n] ELSE AckStep(c[m], m, s)]
  <1>2. ASSUME NEW n \in 0 .. m + 1
        PROVE  d[n] = IF n = 0 THEN Untouched(b) ELSE AckStep(d[n - 1], n - 1, s)
    <2>1. CASE n = 0
      <3>1. d[n] = c[0] /\ c[0] = Untouched(b)
        BY <1>1, <2>1 DEF IsPass
      <3> QED
        BY <2>1, <3>1
    <2>2. CASE n \in 1 .. m
      <3>1. n \in 0 .. m /\ n - 1 \in 0 .. m /\ n # 0 /\ n <= m /\ n - 1 <= m
        BY <2>2
      <3>2. d[n] = c[n] /\ d[n - 1] = c[n - 1]
        BY <3>1
      <3>3. c[n] = AckStep(c[n - 1], n - 1, s)
        BY <1>1, <3>1 DEF IsPass
      <3> HIDE DEF d
      <3> QED
        BY <3>1, <3>2, <3>3
    <2>3. CASE n = m + 1
      <3>1. n # 0 /\ n - 1 = m /\ d[m] = c[m] /\ d[n] = AckStep(c[m], m, s)
        BY <2>3
      <3> HIDE DEF d
      <3> QED
        BY <3>1
    <2> QED
      BY <2>1, <2>2, <2>3
  <1> DEFINE e == [n \in 0 .. m + 1 |-> IF n = 0 THEN Untouched(b) ELSE AckStep(d[n - 1], n - 1, s)]
  <1>3. d = e
    <2>1. \A n \in 0 .. m + 1 : d[n] = e[n]
      BY <1>2
    <2>2. d = [n \in 0 .. m + 1 |-> d[n]] /\ e = [n \in 0 .. m + 1 |-> e[n]]
      OBVIOUS
    <2> HIDE DEF d, e
    <2> QED
      BY <2>1, <2>2
  <1>4. IsPass(d, b, s, m + 1)
    BY <1>3 DEF IsPass
  <1> HIDE DEF d
  <1> QED
    BY <1>4 DEF HasPass

(* There is a pass over any number of packets. *)
LEMMA PassExists ==
  ASSUME NEW b, NEW s
  PROVE  \A m \in Nat : HasPass(b, s, m)
  <1>1. HasPass(b, s, 0)
    <2> DEFINE c == [n \in 0 .. 0 |-> Untouched(b)]
    <2>1. c = [n \in 0 .. 0 |-> IF n = 0 THEN Untouched(b) ELSE AckStep(c[n - 1], n - 1, s)]
      OBVIOUS
    <2>2. IsPass(c, b, s, 0)
      BY <2>1 DEF IsPass
    <2> QED
      BY <2>2 DEF HasPass
  <1> DEFINE T == {m \in Nat : ~HasPass(b, s, m)}
  <1>2. T \in SUBSET Nat
    OBVIOUS
  <1>3. SUFFICES ASSUME T # {} PROVE FALSE
    OBVIOUS
  <1>4. PICK m \in T : \A y \in T : m <= y
    BY <1>2, <1>3, Serial!SmallestNumber, AckAssumption
  <1>5. m \in Nat /\ m # 0
    BY <1>1
  <1>6. m - 1 \in Nat /\ ~(m <= m - 1)
    BY <1>5
  <1>7. HasPass(b, s, m - 1)
    BY <1>4, <1>6
  <1>8. HasPass(b, s, m)
    <2>1. (m - 1) + 1 = m
      BY <1>5
    <2> QED
      BY <1>6, <1>7, <2>1, PassGoesOn
  <1> QED
    BY <1>8

(* The loop of the code is one. *)
LEMMA LoopIsPass ==
  ASSUME NEW b, NEW s, b.count \in Nat
  PROVE  \E c : IsPass(c, b, s, b.count) /\ AckLoop(b, s) = c[b.count]
  <1> DEFINE c == CHOOSE c : c = [n \in 0 .. b.count |->
                IF n = 0 THEN [slots |-> b.slots, start |-> 0, shift |-> 0]
                         ELSE AckStep(c[n - 1], n - 1, s)]
  <1>1. HasPass(b, s, b.count)
    BY PassExists
  <1>2. IsPass(c, b, s, b.count)
    BY <1>1 DEF HasPass, IsPass, Untouched
  <1>3. AckLoop(b, s) = c[b.count]
    BY DEF AckLoop
  <1> QED
    BY <1>2, <1>3

-----------------------------------------------------------------------------
(* After n packets: e names, in their order, the packets kept so far before *)
(* the gap that is open.  Those after it are still in their places, and    *)
(* none of them has been acknowledged.                                     *)
Kepts(b, s, n) == {i \in 0 .. n - 1 : ~Acked(b.slots[i].seq, s)}
Chooses(e, k, b, s, n) ==
  /\ e \in [0 .. k - 1 -> 0 .. n - 1]
  /\ \A i, j \in 0 .. k - 1 : i < j => e[i] < e[j]
  /\ Kepts(b, s, n) = {e[i] : i \in 0 .. k - 1}
Passed(c, e, b, s, n, size, R) ==
  /\ c = [slots |-> c.slots, start |-> c.start, shift |-> c.shift]
  /\ c.slots \in [0 .. size - 1 -> R] /\ c.start \in Nat /\ c.shift \in Nat
  /\ c.start + c.shift <= n /\ (c.shift = 0 => c.start = 0)
  /\ Chooses(e, c.start, b, s, c.start + c.shift)
  /\ \A j \in 0 .. c.start - 1 : c.slots[j] = b.slots[e[j]]
  /\ \A j \in c.start + c.shift .. size - 1 : c.slots[j] = b.slots[j]
  /\ \A j \in c.start + c.shift .. n - 1 : ~Acked(b.slots[j].seq, s)

(* Before the first round nothing is compacted. *)
LEMMA PassBegins ==
  ASSUME NEW size \in Nat, NEW R, NEW b, NEW s, b.slots \in [0 .. size - 1 -> R]
  PROVE  \E e : Passed(Untouched(b), e, b, s, 0, size, R)
  <1> DEFINE e == [j \in 0 .. -1 |-> 0]
  <1>1. e \in [0 .. 0 - 1 -> 0 .. 0 - 1] /\ 0 .. 0 - 1 = {}
    OBVIOUS
  <1>2. Chooses(e, 0, b, s, 0)
    BY <1>1 DEF Chooses, Kepts
  <1> QED
    BY <1>1, <1>2 DEF Passed, Untouched

(* A packet that is not acknowledged stays where it is for now. *)
LEMMA PassKeeps ==
  ASSUME NEW size \in Nat, NEW R, NEW b, NEW s, NEW n \in Nat, n < size, NEW c, NEW e,
         Passed(c, e, b, s, n, size, R), ~Acked(c.slots[n].seq, s)
  PROVE  \E d : Passed(AckStep(c, n, s), d, b, s, n + 1, size, R)
  <1>1. AckStep(c, n, s) = c
    BY DEF AckStep
  <1>2. c.slots[n] = b.slots[n]
    BY DEF Passed
  <1>3. Passed(c, e, b, s, n + 1, size, R)
    <2>1. \A j \in c.start + c.shift .. (n + 1) - 1 : ~Acked(b.slots[j].seq, s)
      <3> SUFFICES ASSUME NEW j \in c.start + c.shift .. (n + 1) - 1
                   PROVE  ~Acked(b.slots[j].seq, s)
        OBVIOUS
      <3>1. c.start \in Nat /\ c.shift \in Nat
        BY DEF Passed
      <3>2. j = n \/ j \in c.start + c.shift .. n - 1
        BY <3>1
      <3> QED
        BY <1>2, <3>2 DEF Passed
    <2>2. c.start + c.shift <= n + 1
      BY DEF Passed
    <2> QED
      BY <2>1, <2>2 DEF Passed
  <1> QED
    BY <1>1, <1>3

(* The first acknowledged packet opens the gap: all before it are kept. *)
LEMMA PassOpens ==
  ASSUME NEW size \in Nat, NEW R, NEW b, NEW s, NEW n \in Nat, n < size, NEW c, NEW e,
         Passed(c, e, b, s, n, size, R), Acked(c.slots[n].seq, s), c.shift = 0
  PROVE  \E d : Passed(AckStep(c, n, s), d, b, s, n + 1, size, R)
  <1>0. c.start = 0 /\ c.shift = 0 /\ c.start + c.shift = 0
    BY DEF Passed
  <1>1. AckStep(c, n, s) = [slots |-> c.slots, start |-> n, shift |-> 1]
    <2>1. AckStep(c, n, s) = [c EXCEPT !.start = n, !.shift = 1]
      BY DEF AckStep
    <2>2. c = [slots |-> c.slots, start |-> c.start, shift |-> c.shift]
      BY DEF Passed
    <2> QED
      BY <2>1, <2>2
  <1>2. /\ \A j \in 0 .. size - 1 : c.slots[j] = b.slots[j]
        /\ \A j \in 0 .. n - 1 : ~Acked(b.slots[j].seq, s)
    BY <1>0 DEF Passed
  <1>3. Acked(b.slots[n].seq, s)
    BY <1>2
  <1> DEFINE d == [j \in 0 .. n - 1 |-> j]
  <1>4. Kepts(b, s, n + 1) = 0 .. n - 1
    <2>1. ASSUME NEW i \in Kepts(b, s, n + 1) PROVE i \in 0 .. n - 1
      <3>1. i \in 0 .. n /\ i # n
        BY <1>3 DEF Kepts
      <3> QED
        BY <3>1
    <2>2. ASSUME NEW i \in 0 .. n - 1 PROVE i \in Kepts(b, s, n + 1)
      BY <1>2 DEF Kepts
    <2> QED
      BY <2>1, <2>2
  <1>5. Chooses(d, n, b, s, n + 1)
    BY <1>4 DEF Chooses
  <1>6. \A j \in 0 .. n - 1 : c.slots[j] = b.slots[d[j]]
    BY <1>2
  <1> HIDE DEF d
  <1> DEFINE g == [slots |-> c.slots, start |-> n, shift |-> 1]
  <1>7. g.slots = c.slots /\ g.start = n /\ g.shift = 1
        /\ g = [slots |-> g.slots, start |-> g.start, shift |-> g.shift]
    OBVIOUS
  <1> HIDE DEF g
  <1>8. g.start + g.shift = n + 1 /\ g.start \in Nat /\ g.shift \in Nat /\ g.shift # 0
    BY <1>7
  <1>9. /\ g.slots \in [0 .. size - 1 -> R] /\ n + 1 .. (n + 1) - 1 = {}
        /\ \A j \in n + 1 .. size - 1 : g.slots[j] = b.slots[j]
    <2>1. c.slots \in [0 .. size - 1 -> R]
      BY DEF Passed
    <2>2. \A j \in n + 1 .. size - 1 : j \in 0 .. size - 1
      OBVIOUS
    <2>3. n + 1 .. (n + 1) - 1 = {}
      OBVIOUS
    <2> QED
      BY <1>2, <1>7, <2>1, <2>2, <2>3
  <1>10. Passed(g, d, b, s, n + 1, size, R)
    <2>1. Chooses(d, g.start, b, s, g.start + g.shift)
      BY <1>5, <1>7, <1>8
    <2>2. /\ \A j \in 0 .. g.start - 1 : g.slots[j] = b.slots[d[j]]
          /\ \A j \in g.start + g.shift .. size - 1 : g.slots[j] = b.slots[j]
          /\ \A j \in g.start + g.shift .. (n + 1) - 1 : ~Acked(b.slots[j].seq, s)
      BY <1>6, <1>7, <1>8, <1>9
    <2>3. g.start + g.shift <= n + 1 /\ (g.shift = 0 => g.start = 0)
      BY <1>8
    <2> QED
      BY <1>7, <1>8, <1>9, <2>1, <2>2, <2>3 DEF Passed
  <1> QED
    BY <1>1, <1>10 DEF g

(* An acknowledged packet right behind the gap makes it wider. *)
LEMMA PassWidens ==
  ASSUME NEW size \in Nat, NEW R, NEW b, NEW s, NEW n \in Nat, n < size, NEW c, NEW e,
         Passed(c, e, b, s, n, size, R), Acked(c.slots[n].seq, s),
         c.shift # 0, c.start + c.shift = n
  PROVE  \E d : Passed(AckStep(c, n, s), d, b, s, n + 1, size, R)
  <1>0. c.start \in Nat /\ c.shift \in Nat
    BY DEF Passed
  <1> DEFINE g == [slots |-> c.slots, start |-> c.start, shift |-> c.shift + 1]
  <1>1. AckStep(c, n, s) = g
    <2>1. AckStep(c, n, s) = [c EXCEPT !.shift = c.shift + 1]
      BY DEF AckStep
    <2>2. c = [slots |-> c.slots, start |-> c.start, shift |-> c.shift]
      BY DEF Passed
    <2> QED
      BY <2>1, <2>2
  <1>2. g.slots = c.slots /\ g.start = c.start /\ g.shift = c.shift + 1
        /\ g = [slots |-> g.slots, start |-> g.start, shift |-> g.shift]
    OBVIOUS
  <1> HIDE DEF g
  <1>3. Acked(b.slots[n].seq, s)
    BY DEF Passed
  <1>4. Kepts(b, s, n + 1) = Kepts(b, s, n)
    <2>1. \A i : i \in 0 .. (n + 1) - 1 <=> (i \in 0 .. n - 1 \/ i = n)
      OBVIOUS
    <2> QED
      BY <1>3, <2>1 DEF Kepts
  <1>5. Chooses(e, g.start, b, s, n + 1)
    <2>1. Chooses(e, c.start, b, s, n)
      BY DEF Passed
    <2>2. e \in [0 .. c.start - 1 -> 0 .. n] /\ (n + 1) - 1 = n
      BY <2>1 DEF Chooses
    <2> QED
      BY <1>2, <1>4, <2>1, <2>2 DEF Chooses
  <1>6. g.start + g.shift = n + 1 /\ g.start \in Nat /\ g.shift \in Nat /\ g.shift # 0
    BY <1>0, <1>2
  <1>7. \A j \in n + 1 .. size - 1 : g.slots[j] = b.slots[j]
    <2> SUFFICES ASSUME NEW j \in n + 1 .. size - 1 PROVE g.slots[j] = b.slots[j]
      OBVIOUS
    <2>1. j \in c.start + c.shift .. size - 1
      OBVIOUS
    <2> QED
      BY <1>2, <2>1 DEF Passed
  <1>8. /\ g.slots \in [0 .. size - 1 -> R]
        /\ \A j \in 0 .. g.start - 1 : g.slots[j] = b.slots[e[j]]
        /\ n + 1 .. (n + 1) - 1 = {}
    BY <1>2 DEF Passed
  <1>9. Passed(g, e, b, s, n + 1, size, R)
    BY <1>2, <1>5, <1>6, <1>7, <1>8 DEF Passed
  <1> QED
    BY <1>1, <1>9

(* memmove, where it stays within the array. *)
IsMoved(g, a, dst, shift, k, size) ==
  \A j \in 0 .. size - 1 : g[j] = IF j \in dst .. dst + k - 1 THEN a[j + shift] ELSE a[j]
(* What memmove leaves, read at each index. *)
LEMMA Moved ==
  ASSUME NEW size \in Nat, NEW R, NEW a \in [0 .. size - 1 -> R],
         NEW dst \in Nat, NEW shift \in Nat, NEW k \in Nat, dst + shift + k <= size
  PROVE  /\ MemMove(a, dst, dst + shift, k) \in [0 .. size - 1 -> R]
         /\ IsMoved(MemMove(a, dst, dst + shift, k), a, dst, shift, k, size)
  <1> DEFINE g == MemMove(a, dst, dst + shift, k)
  <1>1. g = [j \in 0 .. size - 1 |-> IF dst <= j /\ j < dst + k THEN a[dst + shift + (j - dst)] ELSE a[j]]
    BY DEF MemMove
  <1>2. ASSUME NEW j \in 0 .. size - 1
        PROVE  /\ g[j] = IF j \in dst .. dst + k - 1 THEN a[j + shift] ELSE a[j]
               /\ g[j] \in R
    <2>1. g[j] = IF dst <= j /\ j < dst + k THEN a[dst + shift + (j - dst)] ELSE a[j]
      BY <1>1
    <2>2. CASE j \in dst .. dst + k - 1
      <3>1. dst <= j /\ j < dst + k /\ dst + shift + (j - dst) = j + shift /\ j + shift \in 0 .. size - 1
        BY <2>2
      <3> HIDE DEF g
      <3> QED
        BY <2>1, <2>2, <3>1
    <2>3. CASE j \notin dst .. dst + k - 1
      <3>1. ~(dst <= j /\ j < dst + k)
        BY <2>3
      <3> HIDE DEF g
      <3> QED
        BY <2>1, <2>3, <3>1
    <2> QED
      BY <2>2, <2>3
  <1>3. g = [j \in 0 .. size - 1 |-> g[j]]
    BY <1>1
  <1> HIDE DEF g
  <1>4. g \in [0 .. size - 1 -> R]
    BY <1>2, <1>3
  <1>5. (g \in [0 .. size - 1 -> R]) /\ IsMoved(g, a, dst, shift, k, size)
    BY <1>2, <1>4 DEF IsMoved
  <1> QED
    BY <1>5 DEF g

(* Moving what follows the gap closes it: all kept so far are in front. *)
Closed(g, d, k, b, s, n, size, R) ==
  /\ g \in [0 .. size - 1 -> R] /\ k \in 0 .. n
  /\ Chooses(d, k, b, s, n)
  /\ \A j \in 0 .. k - 1 : g[j] = b.slots[d[j]]
  /\ \A j \in n .. size - 1 : g[j] = b.slots[j]

(* A memmove closes the gap behind what is compacted. *)
LEMMA GapCloses ==
  ASSUME NEW size \in Nat, NEW R, NEW b, NEW s, NEW n \in Nat, n <= size, NEW c, NEW e,
         Passed(c, e, b, s, n, size, R)
  PROVE  \E d : Closed(MemMove(c.slots, c.start, c.start + c.shift, n - (c.start + c.shift)),
                       d, n - c.shift, b, s, n, size, R)
  <1> DEFINE st == c.start
             sh == c.shift
             k == n - sh
             g == MemMove(c.slots, st, st + sh, n - (st + sh))
             d == [j \in 0 .. k - 1 |-> IF j < st THEN e[j] ELSE j + sh]
  <1>1. st \in Nat /\ sh \in Nat /\ st + sh <= n
    BY DEF Passed
  <1>2. Chooses(e, st, b, s, st + sh)
    BY DEF Passed
  <1>3. c.slots \in [0 .. size - 1 -> R]
    BY DEF Passed
  <1>4. \A j \in 0 .. st - 1 : c.slots[j] = b.slots[e[j]]
    BY DEF Passed
  <1>5. \A j \in st + sh .. size - 1 : c.slots[j] = b.slots[j]
    BY DEF Passed
  <1>6. \A j \in st + sh .. n - 1 : ~Acked(b.slots[j].seq, s)
    BY DEF Passed
  <1> HIDE DEF st, sh
  <1>7. k \in 0 .. n /\ st <= k /\ n - (st + sh) \in Nat /\ (st + (n - (st + sh))) - 1 = k - 1
        /\ (st + sh) + (n - (st + sh)) <= size
    BY <1>1
  <1>8. /\ g \in [0 .. size - 1 -> R]
        /\ \A j \in 0 .. size - 1 : g[j] = IF j \in st .. k - 1 THEN c.slots[j + sh] ELSE c.slots[j]
    <2> DEFINE w == n - (st + sh)
    <2>1. w \in Nat /\ st + sh + w <= size /\ st + w - 1 = k - 1
      BY <1>1, <1>7
    <2>2. g = MemMove(c.slots, st, st + sh, w)
      OBVIOUS
    <2> HIDE DEF w, g, k
    <2>3. /\ MemMove(c.slots, st, st + sh, w) \in [0 .. size - 1 -> R]
          /\ IsMoved(MemMove(c.slots, st, st + sh, w), c.slots, st, sh, w, size)
      BY <1>1, <1>3, <2>1, Moved
    <2> QED
      BY <2>1, <2>2, <2>3 DEF IsMoved
  <1> HIDE DEF g
  <1>9. \A j \in 0 .. k - 1 : d[j] = IF j < st THEN e[j] ELSE j + sh
    OBVIOUS
  <1>10. d = [j \in 0 .. k - 1 |-> d[j]]
    OBVIOUS
  <1> HIDE DEF d
  <1>11. \A j \in 0 .. st - 1 : e[j] \in 0 .. (st + sh) - 1
    BY <1>2 DEF Chooses
  <1>12. \A j \in 0 .. k - 1 : d[j] \in 0 .. n - 1 /\ (j < st => d[j] < st + sh) /\ (j >= st => d[j] >= st + sh)
    <2> SUFFICES ASSUME NEW j \in 0 .. k - 1
                 PROVE  d[j] \in 0 .. n - 1 /\ (j < st => d[j] < st + sh) /\ (j >= st => d[j] >= st + sh)
      OBVIOUS
    <2>1. CASE j < st
      <3>1. j \in 0 .. st - 1
        BY <1>1, <2>1
      <3>2. e[j] \in 0 .. (st + sh) - 1 /\ d[j] = e[j]
        BY <1>9, <1>11, <2>1, <3>1
      <3> QED
        BY <1>1, <2>1, <3>2
    <2>2. CASE ~(j < st)
      <3>1. d[j] = j + sh
        BY <1>9, <2>2
      <3> QED
        BY <1>1, <2>2, <3>1
    <2> QED
      BY <2>1, <2>2
  <1>13. ASSUME NEW i \in 0 .. k - 1, NEW j \in 0 .. k - 1, i < j PROVE d[i] < d[j]
    <2>1. CASE j < st
      <3>1. i \in 0 .. st - 1 /\ j \in 0 .. st - 1 /\ i < st
        BY <1>1, <1>13, <2>1
      <3>2. e[i] < e[j]
        BY <1>2, <1>13, <3>1 DEF Chooses
      <3> QED
        BY <1>9, <2>1, <3>1, <3>2
    <2>2. CASE i < st /\ ~(j < st)
      <3>1. d[i] < st + sh /\ d[j] >= st + sh /\ d[i] \in Int /\ d[j] \in Int
        BY <1>1, <1>12, <2>2
      <3> QED
        BY <1>1, <3>1
    <2>3. CASE ~(i < st)
      <3>1. d[i] = i + sh /\ d[j] = j + sh
        BY <1>1, <1>9, <1>13, <2>3
      <3> QED
        BY <1>1, <1>13, <3>1
    <2> QED
      BY <1>1, <1>13, <2>1, <2>2, <2>3
  <1>14. Kepts(b, s, n) = {d[i] : i \in 0 .. k - 1}
    <2>1. ASSUME NEW i \in Kepts(b, s, n) PROVE \E j \in 0 .. k - 1 : d[j] = i
      <3>1. i \in 0 .. n - 1 /\ ~Acked(b.slots[i].seq, s)
        BY DEF Kepts
      <3>2. CASE i < st + sh
        <4>1. i \in Kepts(b, s, st + sh)
          BY <1>1, <3>1, <3>2 DEF Kepts
        <4>2. PICK j \in 0 .. st - 1 : e[j] = i
          BY <1>2, <4>1 DEF Chooses
        <4>3. j \in 0 .. k - 1 /\ j < st
          BY <1>1, <1>7
        <4> QED
          BY <1>9, <4>2, <4>3
      <3>3. CASE ~(i < st + sh)
        <4>1. i - sh \in 0 .. k - 1 /\ ~(i - sh < st) /\ (i - sh) + sh = i
          BY <1>1, <3>1, <3>3
        <4>2. d[i - sh] = (i - sh) + sh
          BY <1>9, <4>1
        <4> QED
          BY <4>1, <4>2
      <3> QED
        BY <3>2, <3>3
    <2>2. ASSUME NEW j \in 0 .. k - 1 PROVE d[j] \in Kepts(b, s, n)
      <3>1. d[j] \in 0 .. n - 1
        BY <1>12
      <3>2. CASE j < st
        <4>1. j \in 0 .. st - 1 /\ d[j] = e[j]
          BY <1>1, <1>9, <3>2
        <4>2. e[j] \in Kepts(b, s, st + sh)
          BY <1>2, <4>1 DEF Chooses
        <4>3. ~Acked(b.slots[e[j]].seq, s)
          BY <4>2 DEF Kepts
        <4> QED
          BY <3>1, <4>1, <4>3 DEF Kepts
      <3>3. CASE ~(j < st)
        <4>1. d[j] \in st + sh .. n - 1
          BY <1>1, <1>12, <3>1, <3>3
        <4> QED
          BY <1>6, <3>1, <4>1 DEF Kepts
      <3> QED
        BY <3>2, <3>3
    <2> QED
      BY <2>1, <2>2
  <1>15. d \in [0 .. k - 1 -> 0 .. n - 1]
    BY <1>10, <1>12
  <1>16. Chooses(d, k, b, s, n)
    BY <1>13, <1>14, <1>15 DEF Chooses
  <1>17. ASSUME NEW j \in 0 .. k - 1 PROVE g[j] = b.slots[d[j]]
    <2>1. j \in 0 .. size - 1
      BY <1>1
    <2>2. CASE j < st
      <3>1. j \in 0 .. st - 1 /\ j \notin st .. k - 1
        BY <1>1, <2>2
      <3> QED
        BY <1>4, <1>8, <1>9, <2>1, <2>2, <3>1
    <2>3. CASE ~(j < st)
      <3>1. j \in st .. k - 1 /\ j + sh \in st + sh .. size - 1
        BY <1>1, <2>3
      <3>2. g[j] = c.slots[j + sh] /\ c.slots[j + sh] = b.slots[j + sh]
        BY <1>5, <1>8, <2>1, <3>1
      <3> QED
        BY <1>9, <2>3, <3>2
    <2> QED
      BY <2>2, <2>3
  <1>18. ASSUME NEW j \in n .. size - 1 PROVE g[j] = b.slots[j]
    <2>1. j \in 0 .. size - 1 /\ j \notin st .. k - 1 /\ j \in st + sh .. size - 1
      BY <1>1, <1>7
    <2> QED
      BY <1>5, <1>8, <2>1
  <1>19. Closed(g, d, k, b, s, n, size, R)
    BY <1>7, <1>8, <1>16, <1>17, <1>18 DEF Closed
  <1> QED
    BY <1>19 DEF g, st, sh

(* An acknowledged packet further on closes the gap and opens the next. *)
LEMMA PassMoves ==
  ASSUME NEW size \in Nat, NEW R, NEW b, NEW s, NEW n \in Nat, n < size, NEW c, NEW e,
         Passed(c, e, b, s, n, size, R), Acked(c.slots[n].seq, s),
         c.shift # 0, c.start + c.shift # n
  PROVE  \E d : Passed(AckStep(c, n, s), d, b, s, n + 1, size, R)
  <1> DEFINE h == MemMove(c.slots, c.start, c.start + c.shift, n - (c.start + c.shift))
             g == [slots |-> h, start |-> n - c.shift, shift |-> c.shift + 1]
  <1>1. AckStep(c, n, s) = g
    BY DEF AckStep
  <1>2. PICK d : Closed(h, d, n - c.shift, b, s, n, size, R)
    BY GapCloses
  <1>3. c.shift \in Nat /\ Acked(b.slots[n].seq, s)
    BY SMTT(30) DEF Passed
  <1> HIDE DEF h
  <1>4. g.slots = h /\ g.start = n - c.shift /\ g.shift = c.shift + 1
        /\ g = [slots |-> g.slots, start |-> g.start, shift |-> g.shift]
    OBVIOUS
  <1> HIDE DEF g
  <1>5. g.start \in Nat /\ g.shift \in Nat /\ g.shift # 0 /\ g.start + g.shift = n + 1
    BY <1>2, <1>3, <1>4 DEF Closed
  <1>6. Chooses(d, g.start, b, s, g.start + g.shift)
    <2>1. Chooses(d, g.start, b, s, n)
      BY <1>2, <1>4 DEF Closed
    <2>2. Kepts(b, s, n + 1) = Kepts(b, s, n)
      <3>1. \A i : i \in 0 .. (n + 1) - 1 <=> (i \in 0 .. n - 1 \/ i = n)
        OBVIOUS
      <3> QED
        BY <1>3, <3>1 DEF Kepts
    <2>3. d \in [0 .. g.start - 1 -> 0 .. (n + 1) - 1]
      <3>1. d \in [0 .. g.start - 1 -> 0 .. n - 1]
        BY <2>1 DEF Chooses
      <3> QED
        BY <3>1
    <2> QED
      BY <1>5, <2>1, <2>2, <2>3 DEF Chooses
  <1>7. /\ g.slots \in [0 .. size - 1 -> R]
        /\ \A j \in 0 .. g.start - 1 : g.slots[j] = b.slots[d[j]]
    BY <1>2, <1>4 DEF Closed
  <1>8. \A j \in g.start + g.shift .. size - 1 : g.slots[j] = b.slots[j]
    BY <1>2, <1>4, <1>5 DEF Closed
  <1>9. g.start + g.shift <= n + 1 /\ g.start + g.shift .. (n + 1) - 1 = {}
    BY <1>5
  <1>10. Passed(g, d, b, s, n + 1, size, R)
    BY <1>4, <1>5, <1>6, <1>7, <1>8, <1>9 DEF Passed
  <1> QED
    BY <1>1, <1>10

(* Each round of the loop takes one slot more into the pass. *)
LEMMA PassStep ==
  ASSUME NEW size \in Nat, NEW R, NEW b, NEW s, NEW n \in Nat, n < size, NEW c,
         \E e : Passed(c, e, b, s, n, size, R)
  PROVE  \E d : Passed(AckStep(c, n, s), d, b, s, n + 1, size, R)
  <1>1. PICK e : Passed(c, e, b, s, n, size, R)
    OBVIOUS
  <1>2. CASE ~Acked(c.slots[n].seq, s)
    BY <1>1, <1>2, PassKeeps
  <1>3. CASE Acked(c.slots[n].seq, s) /\ c.shift = 0
    BY <1>1, <1>3, PassOpens
  <1>4. CASE Acked(c.slots[n].seq, s) /\ c.shift # 0 /\ c.start + c.shift = n
    BY <1>1, <1>4, PassWidens
  <1>5. CASE Acked(c.slots[n].seq, s) /\ c.shift # 0 /\ c.start + c.shift # n
    BY <1>1, <1>5, PassMoves
  <1> QED
    BY <1>2, <1>3, <1>4, <1>5

(* So the whole pass does what it should, whatever the array holds. *)
LEMMA PassIsRight ==
  ASSUME NEW size \in Nat, NEW R, NEW b, NEW s, b.slots \in [0 .. size - 1 -> R],
         NEW m \in 0 .. size, NEW c, IsPass(c, b, s, m)
  PROVE  \E e : Passed(c[m], e, b, s, m, size, R)
  <1> DEFINE Right(n) == \E e : Passed(c[n], e, b, s, n, size, R)
             T == {n \in 0 .. m : ~Right(n)}
  <1>1. SUFFICES ASSUME T # {} PROVE FALSE
    OBVIOUS
  <1>2. T \in SUBSET Nat
    OBVIOUS
  <1>3. PICK n \in T : \A y \in T : n <= y
    BY <1>1, <1>2, Serial!SmallestNumber, AckAssumption
  <1>4. n \in 0 .. m /\ ~Right(n)
    OBVIOUS
  <1>5. c[n] = IF n = 0 THEN Untouched(b) ELSE AckStep(c[n - 1], n - 1, s)
    BY <1>4 DEF IsPass
  <1>6. CASE n = 0
    <2>1. c[n] = Untouched(b)
      BY <1>5, <1>6
    <2> QED
      BY <1>4, <1>6, <2>1, PassBegins
  <1>7. CASE n # 0
    <2>1. n - 1 \in 0 .. m /\ n - 1 \in Nat /\ n - 1 < size /\ (n - 1) + 1 = n /\ ~(n <= n - 1)
      BY <1>4, <1>7
    <2>2. Right(n - 1)
      BY <1>3, <2>1
    <2>3. \E d : Passed(AckStep(c[n - 1], n - 1, s), d, b, s, (n - 1) + 1, size, R)
      BY <2>1, <2>2, PassStep
    <2>4. Right(n)
      BY <1>5, <1>7, <2>1, <2>3
    <2> QED
      BY <1>4, <2>4
  <1> QED
    BY <1>6, <1>7

-----------------------------------------------------------------------------
(* What chiaki_takion_send_buffer_ack leaves: all packets that are not     *)
(* acknowledged and no others, in their order.                             *)
Compacted(a, d, b, s, size, R) ==
  /\ a = [slots |-> a.slots, count |-> a.count]
  /\ a.slots \in [0 .. size - 1 -> R] /\ a.count \in 0 .. b.count
  /\ Chooses(d, a.count, b, s, b.count)
  /\ \A j \in 0 .. a.count - 1 : a.slots[j] = b.slots[d[j]]

(* The whole pass is a compaction of the array. *)
LEMMA RemoveAckedCompacts ==
  ASSUME NEW size \in Nat, NEW R, NEW b, NEW s,
         b.slots \in [0 .. size - 1 -> R], b.count \in 0 .. size
  PROVE  \E d : Compacted(RemoveAcked(b, s), d, b, s, size, R)
  <1> DEFINE c == AckLoop(b, s)
             n == b.count
             a == RemoveAcked(b, s)
  <1>1. n \in Nat /\ n <= size
    OBVIOUS
  <1>2. PICK e : Passed(c, e, b, s, n, size, R)
    <2>1. PICK f : IsPass(f, b, s, b.count) /\ AckLoop(b, s) = f[b.count]
      BY <1>1, LoopIsPass
    <2> QED
      BY <2>1, PassIsRight
  <1>3. a = [slots |-> IF c.shift > 0 /\ c.start + c.shift < n
                         THEN MemMove(c.slots, c.start, c.start + c.shift, n - (c.start + c.shift))
                         ELSE c.slots,
             count |-> n - c.shift]
    BY DEF RemoveAcked
  <1> HIDE DEF c, a
  <1>4. c.start \in Nat /\ c.shift \in Nat /\ c.start + c.shift <= n
    BY <1>2 DEF Passed
  <1>5. a.count = n - c.shift /\ a.count \in 0 .. n /\ a = [slots |-> a.slots, count |-> a.count]
    BY <1>1, <1>3, <1>4
  <1>6. CASE c.shift > 0 /\ c.start + c.shift < n
    <2>1. a.slots = MemMove(c.slots, c.start, c.start + c.shift, n - (c.start + c.shift))
      BY <1>3, <1>6
    <2>2. PICK d : Closed(a.slots, d, n - c.shift, b, s, n, size, R)
      BY <1>1, <1>2, <2>1, GapCloses
    <2>3. Compacted(a, d, b, s, size, R)
      BY <1>5, <2>2 DEF Compacted, Closed
    <2> QED
      BY <2>3 DEF a
  <1>7. CASE c.shift > 0 /\ c.start + c.shift = n
    <2>1. a.slots = c.slots /\ a.count = c.start
      BY <1>3, <1>4, <1>5, <1>7
    <2>2. Compacted(a, e, b, s, size, R)
      BY <1>2, <1>5, <1>7, <2>1 DEF Compacted, Passed
    <2> QED
      BY <2>2 DEF a
  <1>8. CASE c.shift = 0
    <2> DEFINE d == [j \in 0 .. n - 1 |-> j]
    <2>0. c.start = 0
      BY <1>2, <1>8 DEF Passed
    <2>1. a.slots = c.slots /\ a.count = n /\ c.start = 0 /\ c.start + c.shift = 0
      <3>1. a.slots = c.slots
        BY <1>3, <1>8
      <3>2. a.count = n /\ c.start + c.shift = 0
        BY <1>1, <1>5, <1>8, <2>0
      <3> QED
        BY <2>0, <3>1, <3>2
    <2>2. /\ \A j \in 0 .. size - 1 : c.slots[j] = b.slots[j]
          /\ \A j \in 0 .. n - 1 : ~Acked(b.slots[j].seq, s)
          /\ c.slots \in [0 .. size - 1 -> R]
      BY <1>2, <2>1 DEF Passed
    <2>3. Kepts(b, s, n) = 0 .. n - 1
      BY <2>2 DEF Kepts
    <2>4. Chooses(d, n, b, s, n)
      BY <2>3 DEF Chooses
    <2>5. \A j \in 0 .. n - 1 : a.slots[j] = b.slots[d[j]]
      BY <1>1, <2>1, <2>2
    <2> HIDE DEF d
    <2>6. Compacted(a, d, b, s, size, R)
      BY <1>5, <2>1, <2>2, <2>4, <2>5 DEF Compacted
    <2> QED
      BY <2>6 DEF a
  <1> QED
    BY <1>4, <1>6, <1>7, <1>8

(* The same for those who only ask which packets are there: none is new,   *)
(* and none is gone that is not acknowledged.                              *)
OnlyAckedGo(a, b, s, size, R) ==
  /\ a = [slots |-> a.slots, count |-> a.count]
  /\ a.slots \in [0 .. size - 1 -> R] /\ a.count \in 0 .. b.count
  /\ \A j \in 0 .. a.count - 1 : \E i \in 0 .. b.count - 1 : a.slots[j] = b.slots[i]
  /\ \A i \in 0 .. b.count - 1 :
       ~Acked(b.slots[i].seq, s) => \E j \in 0 .. a.count - 1 : a.slots[j] = b.slots[i]

(* The pass leaves exactly the packets that are not acknowledged.          *)
LEMMA RemoveAckedLeaves ==
  ASSUME NEW size \in Nat, NEW R, NEW b, NEW s,
         b.slots \in [0 .. size - 1 -> R], b.count \in 0 .. size
  PROVE  OnlyAckedGo(RemoveAcked(b, s), b, s, size, R)
  <1> DEFINE a == RemoveAcked(b, s)
  <1>1. PICK d : Compacted(a, d, b, s, size, R)
    BY RemoveAckedCompacts
  <1> HIDE DEF a
  <1>2. /\ d \in [0 .. a.count - 1 -> 0 .. b.count - 1]
        /\ Kepts(b, s, b.count) = {d[j] : j \in 0 .. a.count - 1}
        /\ \A j \in 0 .. a.count - 1 : a.slots[j] = b.slots[d[j]]
        /\ a.slots \in [0 .. size - 1 -> R] /\ a.count \in 0 .. b.count
        /\ a = [slots |-> a.slots, count |-> a.count]
    BY <1>1 DEF Compacted, Chooses
  <1>3. ASSUME NEW i \in 0 .. b.count - 1, ~Acked(b.slots[i].seq, s)
        PROVE  \E j \in 0 .. a.count - 1 : a.slots[j] = b.slots[i]
    <2>1. i \in Kepts(b, s, b.count)
      BY <1>3 DEF Kepts
    <2>2. PICK j \in 0 .. a.count - 1 : d[j] = i
      BY <1>2, <2>1
    <2> QED
      BY <1>2, <2>2
  <1>4. ASSUME NEW j \in 0 .. a.count - 1
        PROVE  \E i \in 0 .. b.count - 1 : a.slots[j] = b.slots[i]
    BY <1>2, <1>4
  <1> QED
    BY <1>2, <1>3, <1>4 DEF a, OnlyAckedGo
=============================================================================
