---------------------------- MODULE PartsProofs ----------------------------
(***************************************************************************)
(* Safety of the parts that MCParts checks, for every value of their       *)
(* constants.                                                              *)
(***************************************************************************)
EXTENDS KeyBuffer, Senkusha, Rudp, VideoReceiver, FeedbackSender, AudioReceiver, DiscoveryService, AckClient,
        AckCompactionProofs, SeqNumProofs, Integers, FiniteSetTheorems, SequenceTheorems, TLAPS

-----------------------------------------------------------------------------
(***************************************************************************)
(* Packets get back their positions and their part of the key stream, and  *)
(* no request is slept over: for every size of the position space, of the  *)
(* ring and of its chunks, and for packets of every length.                *)
(***************************************************************************)


(* Division and remainder, as a product and a sum. *)
LEMMA DivMod ==
  ASSUME NEW m \in Nat \ {0}, NEW x \in Nat
  PROVE  /\ x \div m \in Nat
         /\ x % m \in 0 .. m - 1
         /\ x = (m * (x \div m)) + (x % m)
  OBVIOUS

(* Factors that differ by two or more make products that differ by two or more times the number. *)
LEMMA FarFactors ==
  ASSUME NEW m \in Nat, NEW a \in Nat, NEW b \in Nat, a >= b + 2
  PROVE  m * a >= (m * b) + 2 * m
  <1>1. PICK d \in Nat : a = (b + 2) + d
    <2>1. a - (b + 2) \in Nat /\ a = (b + 2) + (a - (b + 2))
      OBVIOUS
    <2> QED
      BY <2>1
  <1>2. m * a = ((m * b) + (2 * m)) + (m * d)
    BY <1>1
  <1>3. m * d \in Nat /\ m * b \in Nat
    OBVIOUS
  <1> QED
    BY <1>2, <1>3

(* chiaki_key_state_request_pos gives back any position less than half the  *)
(* space before or after the previous one.                                  *)
LEMMA RequestPosRestores ==
  ASSUME NEW q \in Nat, NEW p \in Nat, p - q < KeyHalf, q - p < KeyHalf
  PROVE  RequestPos(q, p % Low!SeqMod) = p
  <1> DEFINE m == Low!SeqMod
             a == p \div m
             r == p % m
             b == q \div m
             s == q % m
  <1>1. m \in Nat \ {0} /\ KeyHalf \in Nat \ {0} /\ m = KeyHalf + KeyHalf
    BY KeyAssumption DEF Low!SeqMod
  <1> HIDE DEF m
  <1>2. a \in Nat /\ r \in 0 .. m - 1 /\ p = (m * a) + r
    BY <1>1, DivMod
  <1>3. b \in Nat /\ s \in 0 .. m - 1 /\ q = (m * b) + s
    BY <1>1, DivMod
  <1>4. RequestPos(q, p % m) =
          (IF Low!SeqGt(r, s) /\ r < s THEN b + 1
           ELSE IF Low!SeqLt(r, s) /\ r > s /\ b > 0 THEN b - 1 ELSE b) * m + r
    BY DEF RequestPos, m
  <1>5. /\ Low!SeqGt(r, s) <=> (r < s /\ s - r > KeyHalf) \/ (r > s /\ r - s < KeyHalf)
        /\ Low!SeqLt(r, s) <=> (r < s /\ s - r < KeyHalf) \/ (r > s /\ r - s > KeyHalf)
    BY DEF Low!SeqGt, Low!SeqLt
  <1> HIDE DEF a, b, r, s
  <1> DEFINE ma == m * a
             mb == m * b
  <1>6. ma \in Nat /\ mb \in Nat
    BY <1>1, <1>2, <1>3
  <1>7. ~(a >= b + 2)
    <2>1. SUFFICES ASSUME a >= b + 2 PROVE FALSE
      OBVIOUS
    <2>2. ma >= mb + 2 * m
      BY <1>1, <1>2, <1>3, <2>1, FarFactors
    <2> HIDE DEF ma, mb
    <2>3. p = ma + r /\ q = mb + s
      BY <1>2, <1>3 DEF ma, mb
    <2> QED
      BY <1>1, <1>2, <1>3, <1>6, <2>2, <2>3
  <1>8. ~(b >= a + 2)
    <2>1. SUFFICES ASSUME b >= a + 2 PROVE FALSE
      OBVIOUS
    <2>2. mb >= ma + 2 * m
      BY <1>1, <1>2, <1>3, <2>1, FarFactors
    <2> HIDE DEF ma, mb
    <2>3. p = ma + r /\ q = mb + s
      BY <1>2, <1>3 DEF ma, mb
    <2> QED
      BY <1>1, <1>2, <1>3, <1>6, <2>2, <2>3
  <1>9. a = b \/ a = b + 1 \/ b = a + 1
    BY <1>2, <1>3, <1>7, <1>8
  <1>10. CASE a = b
    <2>1. p - q = r - s
      BY <1>1, <1>2, <1>3, <1>10
    <2>2. RequestPos(q, p % m) = (b * m) + r
      BY <1>1, <1>2, <1>3, <1>4, <1>5, <2>1
    <2> QED
      BY <1>1, <1>2, <1>3, <1>10, <2>2 DEF m
  <1>11. CASE a = b + 1
    <2>1. ma = mb + m
      BY <1>1, <1>3, <1>11
    <2>2. p - q = (m + r) - s
      BY <1>1, <1>2, <1>3, <1>6, <2>1
    <2>3. r < s /\ s - r > KeyHalf
      BY <1>1, <1>2, <1>3, <2>2
    <2>4. RequestPos(q, p % m) = ((b + 1) * m) + r
      BY <1>4, <1>5, <2>3
    <2> QED
      BY <1>1, <1>2, <1>3, <1>11, <2>4 DEF m
  <1>12. CASE b = a + 1
    <2>1. mb = ma + m
      BY <1>1, <1>2, <1>12
    <2>2. q - p = (m + s) - r
      BY <1>1, <1>2, <1>3, <1>6, <2>1
    <2>3. r > s /\ r - s > KeyHalf /\ b > 0
      BY <1>1, <1>2, <1>3, <1>12, <2>2
    <2>4. RequestPos(q, p % m) = ((b - 1) * m) + r
      BY <1>2, <1>3, <1>4, <1>5, <2>3
    <2> QED
      BY <1>1, <1>2, <1>3, <1>12, <2>4 DEF m
  <1> QED
    BY <1>9, <1>10, <1>11, <1>12

-----------------------------------------------------------------------------
(* The last position and the positions in the queue are close to the newest. *)
PositionsInv ==
  /\ prev \in Nat /\ newest \in Nat /\ held \subseteq Nat
  /\ newest - MaxLag <= prev /\ prev <= newest

(* Every packet that can arrive has its own position restored: the last one *)
(* was at most MaxLag behind the newest.                                    *)
LEMMA PositionsNear == PositionsInv => PositionsAreRestored
  <1> SUFFICES ASSUME PositionsInv, NEW p \in newest - MaxLag .. newest + MaxJump, p \in Nat
               PROVE  RequestPos(prev, p % Low!SeqMod) = p
    BY DEF PositionsAreRestored
  <1>1. p - prev < KeyHalf /\ prev - p < KeyHalf
    BY KeyAssumption DEF PositionsInv
  <1> QED
    BY <1>1, RequestPosRestores DEF PositionsInv

(* Each step of the receiver and of the generator keeps them close. *)
LEMMA PositionsStep == PositionsInv /\ [KeyNext]_keyVars => PositionsInv'
  <1> SUFFICES ASSUME PositionsInv, [KeyNext]_keyVars PROVE PositionsInv'
    OBVIOUS
  <1>1. ASSUME NEW p \in KeyPositions, PacketArrives(p) PROVE PositionsInv'
    <2>1. /\ p \in Nat /\ MaxLag \in Nat /\ MaxJump \in Nat
          /\ p \in newest - MaxLag .. newest + MaxJump
          /\ prev' = p /\ newest' = IF p > newest THEN p ELSE newest
      BY <1>1, KeyAssumption DEF PacketArrives, KeyPositions
    <2>2. held' = held \/ held' = held \cup {p}
      BY <1>1, Zenon DEF PacketArrives
    <2>3. newest \in Nat /\ newest - MaxLag <= p
      BY <2>1 DEF PositionsInv
    <2>4. prev' \in Nat /\ newest' \in Nat /\ newest' - MaxLag <= prev' /\ prev' <= newest'
      BY <2>1, <2>3
    <2> QED
      BY <2>1, <2>2, <2>4 DEF PositionsInv
  <1>2. ASSUME NEW p \in KeyPositions, PacketPulled(p) PROVE PositionsInv'
    BY <1>2 DEF PacketPulled, PositionsInv
  <1>3. CASE SignalNext \/ FiniStops \/ GeneratorNext \/ UNCHANGED keyVars
    BY <1>3 DEF SignalNext, Signals, FiniSignals, FiniStops, GeneratorNext, GeneratorChecks, GeneratorFills,
                GeneratorEncrypts, GeneratorFails, GeneratorLocks, keyVars, PositionsInv
  <1> QED
    BY <1>1, <1>2, <1>3 DEF KeyNext

(* chiaki_key_state_request_pos gives every packet that the console may have *)
(* under way its own position, for every width of the position.             *)
THEOREM AllPositionsRestored == KeySpec => []PositionsAreRestored
  <1>1. KeyInit => PositionsInv
    BY KeyAssumption DEF KeyInit, PositionsInv
  <1> QED
    BY <1>1, PositionsStep, PositionsNear, PTL DEF KeySpec

-----------------------------------------------------------------------------
(* Places in a ring of m, without the remainder. *)
LEMMA PlaceValue ==
  ASSUME NEW m \in Nat \ {0}, NEW s \in 0 .. m - 1, NEW n \in 0 .. m
  PROVE  (s + n) % m = IF s + n < m THEN s + n ELSE (s + n) - m
  <1>1. CASE s + n < m
    <2>1. ASSUME NEW x \in 0 .. m - 1 PROVE x % m = x
      OBVIOUS
    <2>2. s + n \in 0 .. m - 1
      BY <1>1
    <2> QED
      BY <1>1, <2>1, <2>2
  <1>2. CASE ~(s + n < m)
    <2>1. ASSUME NEW x \in m .. 2 * m - 1 PROVE x % m = x - m
      OBVIOUS
    <2>2. s + n \in m .. 2 * m - 1
      BY <1>2
    <2> QED
      BY <1>2, <2>1, <2>2
  <1> QED
    BY <1>1, <1>2

(* The way from one place back to another. *)
LEMMA WayValue ==
  ASSUME NEW m \in Nat \ {0}, NEW a \in 0 .. m - 1, NEW b \in 0 .. m - 1
  PROVE  (b - a) % m = IF a <= b THEN b - a ELSE (b - a) + m
  <1>1. CASE a <= b
    <2>1. ASSUME NEW x \in 0 .. m - 1 PROVE x % m = x
      OBVIOUS
    <2>2. b - a \in 0 .. m - 1
      BY <1>1
    <2> QED
      BY <1>1, <2>1, <2>2
  <1>2. CASE ~(a <= b)
    <2>1. ASSUME NEW x \in (-m) .. (-1) PROVE x % m = x + m
      OBVIOUS
    <2>2. b - a \in (-m) .. (-1)
      BY <1>2
    <2> QED
      BY <1>2, <2>1, <2>2
  <1> QED
    BY <1>1, <1>2

(* Two ways one after the other are one. *)
LEMMA PlaceTwice ==
  ASSUME NEW m \in Nat \ {0}, NEW s \in 0 .. m - 1, NEW a \in Nat, NEW b \in Nat, a + b <= m
  PROVE  (((s + a) % m) + b) % m = (s + (a + b)) % m
  <1> DEFINE t == (s + a) % m
  <1>1. a \in 0 .. m /\ b \in 0 .. m /\ a + b \in 0 .. m
    OBVIOUS
  <1>2. t = IF s + a < m THEN s + a ELSE (s + a) - m
    BY <1>1, PlaceValue
  <1>3. (s + (a + b)) % m = IF s + (a + b) < m THEN s + (a + b) ELSE (s + (a + b)) - m
    BY <1>1, PlaceValue
  <1>4. t \in 0 .. m - 1
    BY <1>1, <1>2
  <1> HIDE DEF t
  <1>5. (t + b) % m = IF t + b < m THEN t + b ELSE (t + b) - m
    BY <1>1, <1>4, PlaceValue
  <1>6. (t + b) % m = (s + (a + b)) % m
    BY <1>1, <1>2, <1>3, <1>5
  <1> QED
    BY <1>6 DEF t

(* How far the place after j steps is from the one after n steps. *)
LEMMA WayBetween ==
  ASSUME NEW m \in Nat \ {0}, NEW s \in 0 .. m - 1, NEW j \in 0 .. m - 1, NEW n \in 0 .. m - 1
  PROVE  (((s + j) % m) - ((s + n) % m)) % m = IF n <= j THEN j - n ELSE (j - n) + m
  <1> DEFINE t == (s + j) % m
             u == (s + n) % m
  <1>1. j \in 0 .. m /\ n \in 0 .. m
    OBVIOUS
  <1>2. /\ t = IF s + j < m THEN s + j ELSE (s + j) - m
        /\ u = IF s + n < m THEN s + n ELSE (s + n) - m
    BY <1>1, PlaceValue
  <1>3. t \in 0 .. m - 1 /\ u \in 0 .. m - 1
    BY <1>1, <1>2
  <1> HIDE DEF t, u
  <1>4. (t - u) % m = IF u <= t THEN t - u ELSE (t - u) + m
    BY <1>3, WayValue
  <1>5. (t - u) % m = IF n <= j THEN j - n ELSE (j - n) + m
    BY <1>1, <1>2, <1>3, <1>4
  <1> QED
    BY <1>5 DEF t, u

(* What the ring holds: whole chunks. *)
Filled == {ChunkBlocks * k : k \in 0 .. Chunks}

(* Whole chunks: nothing, everything, or room for another one. *)
LEMMA FilledFacts ==
  /\ RingSize \in Nat \ {0} /\ ChunkBlocks \in Nat \ {0} /\ ChunkBlocks <= RingSize
  /\ Filled \subseteq 0 .. RingSize /\ 0 \in Filled
  /\ RingSize - ChunkBlocks \in Filled
  /\ \A n \in Filled : n = RingSize \/ (n + ChunkBlocks \in Filled /\ n + ChunkBlocks <= RingSize)
  <1>1. ChunkBlocks \in Nat \ {0} /\ Chunks \in Nat \ {0}
    BY KeyAssumption
  <1>2. RingSize \in Nat \ {0} /\ ChunkBlocks <= RingSize /\ RingSize = ChunkBlocks * Chunks
    BY <1>1 DEF RingSize
  <1>3. 0 = ChunkBlocks * 0 /\ RingSize - ChunkBlocks = ChunkBlocks * (Chunks - 1)
    BY <1>1, <1>2
  <1>4. 0 \in Filled /\ RingSize - ChunkBlocks \in Filled
    <2>1. 0 \in 0 .. Chunks /\ Chunks - 1 \in 0 .. Chunks
      BY <1>1
    <2>2. \A k \in 0 .. Chunks : ChunkBlocks * k \in Filled
      BY DEF Filled
    <2>3. ChunkBlocks * 0 \in Filled /\ ChunkBlocks * (Chunks - 1) \in Filled
      BY <2>1, <2>2
    <2> QED
      BY <1>3, <2>3
  <1>5. ASSUME NEW k \in 0 .. Chunks
        PROVE  /\ ChunkBlocks * k \in 0 .. RingSize
               /\ k # Chunks => /\ ChunkBlocks * k + ChunkBlocks = ChunkBlocks * (k + 1)
                                /\ ChunkBlocks * (k + 1) \in 0 .. RingSize
    <2>1. ASSUME NEW i \in 0 .. Chunks PROVE ChunkBlocks * i \in 0 .. RingSize
      <3>1. Chunks - i \in Nat /\ i \in Nat
        BY <1>1
      <3>2. RingSize = (ChunkBlocks * i) + (ChunkBlocks * (Chunks - i))
        BY <1>1, <1>2, <3>1
      <3>3. ChunkBlocks * i \in Nat /\ ChunkBlocks * (Chunks - i) \in Nat
        BY <1>1, <3>1
      <3> DEFINE x == ChunkBlocks * i
                 y == ChunkBlocks * (Chunks - i)
      <3>4. RingSize = x + y /\ x \in Nat /\ y \in Nat
        BY <3>2, <3>3
      <3> HIDE DEF x, y
      <3>5. x \in 0 .. RingSize
        BY <1>2, <3>4
      <3> QED
        BY <3>5 DEF x
    <2>2. k # Chunks => k + 1 \in 0 .. Chunks
      BY <1>1
    <2>3. ChunkBlocks * k + ChunkBlocks = ChunkBlocks * (k + 1)
      BY <1>1
    <2> QED
      BY <2>1, <2>2, <2>3
  <1>6. Filled \subseteq 0 .. RingSize
    BY <1>5 DEF Filled
  <1>7. ASSUME NEW n \in Filled PROVE n = RingSize \/ (n + ChunkBlocks \in Filled /\ n + ChunkBlocks <= RingSize)
    <2>1. PICK k \in 0 .. Chunks : n = ChunkBlocks * k
      BY DEF Filled
    <2>2. CASE k = Chunks
      BY <1>2, <2>1, <2>2
    <2>3. CASE k # Chunks
      <3>1. k + 1 \in 0 .. Chunks
        BY <1>1, <2>3
      <3>2. n + ChunkBlocks = ChunkBlocks * (k + 1) /\ n + ChunkBlocks \in 0 .. RingSize
        BY <1>5, <2>1, <2>3
      <3> QED
        BY <1>2, <3>1, <3>2 DEF Filled
    <2> QED
      BY <2>2, <2>3
  <1> QED
    BY <1>1, <1>2, <1>4, <1>6, <1>7

-----------------------------------------------------------------------------
(* The types of the buffer's state. *)
BufferTypes ==
  /\ ring \in [0 .. RingSize - 1 -> Int]
  /\ kb \in [min : Nat, start : 0 .. RingSize - 1, populated : Filled, last : Nat, stop : BOOLEAN]
  /\ gen \in [at : {"check", "asleep", "fill", "encrypt", "lock", "ended"}, pos : Nat, offset : 0 .. RingSize - 1]

(* The filled part of the ring holds the stream from key_buf_key_pos_min on. *)
StreamIn(r, k) == \A i \in 0 .. RingSize - 1 : i < k.populated => r[(k.start + i) % RingSize] = k.min + i

(* While it works without the mutex, the generator has the chunk behind the filled part. *)
ChunkIsFree ==
  gen.at \in {"fill", "encrypt", "lock"} =>
    /\ gen.pos = kb.min + kb.populated
    /\ gen.offset = (kb.start + kb.populated) % RingSize
    /\ kb.populated + ChunkBlocks \in Filled

(* A chunk that is about to be added holds its part of the stream. *)
ChunkIn(r) == \A j \in 0 .. ChunkBlocks - 1 : r[(gen.offset + j) % RingSize] = gen.pos + j

BufferInv ==
  /\ PositionsInv /\ BufferTypes /\ StreamIn(ring, kb) /\ ChunkIsFree
  /\ gen.at = "lock" => ChunkIn(ring)
  /\ KeyStreamIsRight

(* The initial ring is empty. *)
LEMMA BufferInit == KeyInit => BufferInv
  <1> SUFFICES ASSUME KeyInit PROVE BufferInv
    OBVIOUS
  <1>1. PositionsInv
    BY KeyAssumption DEF KeyInit, PositionsInv
  <1>2. BufferTypes
    BY FilledFacts DEF KeyInit, BufferTypes, Garbage
  <1>3. StreamIn(ring, kb)
    BY FilledFacts DEF KeyInit, StreamIn
  <1>4. ChunkIsFree /\ gen.at # "lock" /\ KeyStreamIsRight
    BY DEF KeyInit, ChunkIsFree, KeyStreamIsRight
  <1> QED
    BY <1>1, <1>2, <1>3, <1>4 DEF BufferInv

(* chiaki_gkcrypt_get_key_stream: what lies in the filled part is the stream *)
(* of the position, wherever the ring begins.                               *)
LEMMA ReadIsRight ==
  ASSUME NEW r, NEW k \in [min : Nat, start : 0 .. RingSize - 1, populated : Filled, last : Nat, stop : BOOLEAN],
         StreamIn(r, k), NEW pos \in Nat, NEW n \in Nat, InBuffer(k, pos, n), NEW i \in 1 .. n
  PROVE  Read(r, k, pos, n)[i] = pos + (i - 1)
  <1> DEFINE j == (pos - k.min) + (i - 1)
  <1>1. k.min \in Nat /\ k.start \in Nat /\ k.populated \in 0 .. RingSize /\ RingSize \in Nat
    <2>1. k.min \in Nat /\ k.start \in 0 .. RingSize - 1 /\ k.populated \in Filled
      OBVIOUS
    <2>2. RingSize \in Nat /\ k.populated \in 0 .. RingSize
      BY <2>1, FilledFacts, Zenon
    <2> QED
      BY <2>1, <2>2
  <1>2. j \in 0 .. RingSize - 1 /\ j < k.populated
    BY <1>1 DEF InBuffer
  <1>3. r[(k.start + j) % RingSize] = k.min + j
    BY <1>2 DEF StreamIn
  <1>4. (pos - k.min + k.start + (i - 1)) = k.start + j /\ k.min + j = pos + (i - 1)
    BY <1>1
  <1>5. Read(r, k, pos, n)[i] = r[(pos - k.min + k.start + (i - 1)) % RingSize]
    BY DEF Read
  <1> QED
    BY <1>3, <1>4, <1>5

(* A request moves only last_key_pos, and is answered rightly. *)
LEMMA RequestStep ==
  ASSUME BufferInv, NEW p \in Nat, NEW n \in 1 .. MaxRequest, GetsKeyStream(p, p, n)
  PROVE  /\ kb' = [kb EXCEPT !.last = IF p + n > @ THEN p + n ELSE @]
         /\ UNCHANGED <<ring, gen>>
         /\ KeyStreamIsRight'
  <1> DEFINE k == [kb EXCEPT !.last = IF p + n > @ THEN p + n ELSE @]
             blocks == IF InBuffer(k, p, n) THEN Read(ring, k, p, n) ELSE [i \in 1 .. n |-> p + (i - 1)]
  <1>1. kb' = k /\ given' = [i \in 1 .. n |-> blocks[i] - (p + (i - 1))] /\ UNCHANGED <<ring, gen>>
    BY DEF GetsKeyStream
  <1>2. n \in Nat
    BY KeyAssumption
  <1>3. k \in [min : Nat, start : 0 .. RingSize - 1, populated : Filled, last : Nat, stop : BOOLEAN]
    BY <1>2 DEF BufferInv, BufferTypes
  <1>4. StreamIn(ring, k)
    BY DEF BufferInv, BufferTypes, StreamIn
  <1> HIDE DEF k
  <1>5. ASSUME NEW i \in 1 .. n PROVE blocks[i] = p + (i - 1)
    BY <1>2, <1>3, <1>4, ReadIsRight
  <1> HIDE DEF blocks
  <1>6. KeyStreamIsRight'
    BY <1>1, <1>2, <1>5 DEF KeyStreamIsRight
  <1> QED
    BY <1>1, <1>6 DEF k

(* Steps that leave the ring, the generator and what kb says of the ring. *)
LEMMA BufferKept ==
  ASSUME BufferInv, PositionsInv', KeyStreamIsRight', ring' = ring,
         gen' = gen \/ (gen.at = "asleep" /\ gen' = [gen EXCEPT !.at = "check"]),
         kb' \in [min : Nat, start : 0 .. RingSize - 1, populated : Filled, last : Nat, stop : BOOLEAN],
         kb'.min = kb.min, kb'.start = kb.start, kb'.populated = kb.populated
  PROVE  BufferInv'
  <1>1. BufferTypes'
    BY DEF BufferInv, BufferTypes
  <1>2. StreamIn(ring, kb)'
    BY DEF BufferInv, StreamIn
  <1>3. ChunkIsFree' /\ (gen'.at = "lock" => ChunkIn(ring)')
    BY DEF BufferInv, BufferTypes, ChunkIsFree, ChunkIn
  <1> QED
    BY <1>1, <1>2, <1>3 DEF BufferInv

(* GeneratorChecks makes room: the buffer moves to the requests, or drops its first chunk. *)
LEMMA RoomStep == ASSUME BufferInv, GeneratorChecks PROVE BufferInv'
  <1> DEFINE kbs == [min : Nat, start : 0 .. RingSize - 1, populated : Filled, last : Nat, stop : BOOLEAN]
  <1>1. /\ RingSize \in Nat \ {0} /\ ChunkBlocks \in Nat \ {0} /\ ChunkBlocks <= RingSize
        /\ kb.min \in Nat /\ kb.start \in 0 .. RingSize - 1 /\ kb.populated \in Filled
        /\ kb.populated \in 0 .. RingSize /\ kb.last \in Nat /\ kb \in kbs /\ kb.stop \in BOOLEAN
    <2>1. kb \in kbs
      BY DEF BufferInv, BufferTypes
    <2>2. kb.min \in Nat /\ kb.start \in 0 .. RingSize - 1 /\ kb.populated \in Filled /\ kb.last \in Nat /\ kb.stop \in BOOLEAN
      BY <2>1
    <2> QED
      BY <2>1, <2>2, FilledFacts
  <1>2. PositionsInv' /\ KeyStreamIsRight' /\ UNCHANGED <<ring, given>>
    BY DEF GeneratorChecks, BufferInv, PositionsInv, KeyStreamIsRight
  <1>3. CASE UNCHANGED kb /\ gen' \in {[gen EXCEPT !.at = "asleep"], [gen EXCEPT !.at = "ended"]}
    <2>1. BufferTypes' /\ gen'.at \notin {"fill", "encrypt", "lock"}
      BY <1>2, <1>3 DEF BufferInv, BufferTypes
    <2>2. StreamIn(ring, kb)'
      BY <1>2, <1>3 DEF BufferInv, StreamIn
    <2> QED
      BY <1>2, <2>1, <2>2 DEF BufferInv, ChunkIsFree
  <1>4. CASE /\ kb' = WithRoom(kb)
             /\ gen' = [at |-> "fill", pos |-> kb'.min + kb'.populated, offset |-> (kb'.start + kb'.populated) % RingSize]
    <2>1. kb' \in kbs /\ kb'.populated + ChunkBlocks \in Filled /\ StreamIn(ring, kb)'
      <3>1. CASE kb.last > kb.min + kb.populated
        <4> DEFINE min == (kb.last \div ChunkBlocks) * ChunkBlocks
        <4>1. kb' = [kb EXCEPT !.min = min, !.start = 0, !.populated = 0]
          BY <1>4, <3>1 DEF WithRoom
        <4>2. min \in Nat
          <5>1. kb.last \div ChunkBlocks \in Nat
            BY <1>1, DivMod
          <5> QED
            BY <1>1, <5>1
        <4> HIDE DEF min
        <4>3. 0 \in Filled /\ 0 \in 0 .. RingSize - 1 /\ ChunkBlocks \in Filled
          <5>1. 0 + ChunkBlocks \in Filled
            BY <1>1, FilledFacts
          <5> QED
            BY <1>1, <5>1, FilledFacts
        <4>4. kb' \in kbs /\ kb'.populated = 0
          BY <1>1, <4>1, <4>2, <4>3
        <4>5. StreamIn(ring, kb)'
          BY <1>1, <4>4 DEF StreamIn
        <4>6. kb'.populated + ChunkBlocks \in Filled
          BY <1>1, <4>3, <4>4
        <4> QED
          BY <4>4, <4>5, <4>6
      <3>2. CASE ~(kb.last > kb.min + kb.populated) /\ kb.populated = RingSize
        <4> DEFINE start == (kb.start + ChunkBlocks) % RingSize
        <4>1. kb' = [kb EXCEPT !.start = start, !.min = @ + ChunkBlocks, !.populated = @ - ChunkBlocks]
          BY <1>4, <3>2 DEF WithRoom
        <4>2. start \in 0 .. RingSize - 1
          BY <1>1
        <4>3. kb'.populated = RingSize - ChunkBlocks /\ kb'.min = kb.min + ChunkBlocks /\ kb'.start = start
          BY <1>1, <3>2, <4>1
        <4>4. RingSize - ChunkBlocks \in Filled /\ (RingSize - ChunkBlocks) + ChunkBlocks = RingSize /\ RingSize \in Filled
          BY <1>1, <3>2, FilledFacts
        <4>5. kb' \in kbs
          <5>1. kb.populated - ChunkBlocks \in Filled /\ kb.min + ChunkBlocks \in Nat
            BY <1>1, <3>2, <4>4
          <5> HIDE DEF start
          <5> QED
            BY <1>1, <4>1, <4>2, <5>1
        <4>6. ASSUME NEW i \in 0 .. RingSize - 1, i < RingSize - ChunkBlocks
              PROVE  ring[(start + i) % RingSize] = (kb.min + ChunkBlocks) + i
          <5>1. ChunkBlocks + i \in 0 .. RingSize - 1 /\ ChunkBlocks + i < kb.populated /\ ChunkBlocks + i <= RingSize
            BY <1>1, <3>2, <4>6
          <5>2. (start + i) % RingSize = (kb.start + (ChunkBlocks + i)) % RingSize
            BY <1>1, <5>1, PlaceTwice
          <5>3. ring[(kb.start + (ChunkBlocks + i)) % RingSize] = kb.min + (ChunkBlocks + i)
            BY <5>1 DEF BufferInv, StreamIn
          <5> HIDE DEF start
          <5> QED
            BY <1>1, <5>2, <5>3
        <4> HIDE DEF start
        <4>7. StreamIn(ring, kb)'
          BY <1>2, <4>3, <4>6 DEF StreamIn
        <4> QED
          BY <4>3, <4>4, <4>5, <4>7
      <3>3. CASE ~(kb.last > kb.min + kb.populated) /\ kb.populated # RingSize
        <4>1. kb' = kb
          BY <1>4, <3>3 DEF WithRoom
        <4>2. kb.populated + ChunkBlocks \in Filled
          BY <1>1, <3>3, FilledFacts
        <4> QED
          BY <1>1, <1>2, <4>1, <4>2 DEF BufferInv, StreamIn
      <3> QED
        BY <3>1, <3>2, <3>3
    <2>2. /\ kb'.min + kb'.populated \in Nat /\ (kb'.start + kb'.populated) % RingSize \in 0 .. RingSize - 1
      <3>1. kb'.min \in Nat /\ kb'.start \in 0 .. RingSize - 1 /\ kb'.populated \in Filled
        BY <2>1
      <3>2. kb'.populated \in 0 .. RingSize
        BY <3>1, FilledFacts
      <3> QED
        BY <1>1, <3>1, <3>2
    <2>3. BufferTypes'
      BY <1>2, <1>4, <2>1, <2>2 DEF BufferInv, BufferTypes
    <2>4. ChunkIsFree' /\ gen'.at # "lock"
      BY <1>4, <2>1 DEF ChunkIsFree
    <2> QED
      BY <1>2, <2>1, <2>3, <2>4 DEF BufferInv
  <1> QED
    BY <1>3, <1>4 DEF GeneratorChecks

(* What the steps of the generator outside the mutex find. *)
LEMMA ChunkPlaces ==
  ASSUME BufferInv, gen.at \in {"fill", "encrypt", "lock"}
  PROVE  /\ RingSize \in Nat \ {0} /\ ChunkBlocks \in Nat \ {0}
         /\ kb.min \in Nat /\ kb.start \in 0 .. RingSize - 1 /\ kb.populated \in 0 .. RingSize - 1
         /\ kb.populated + ChunkBlocks <= RingSize
         /\ gen.pos = kb.min + kb.populated /\ gen.offset = (kb.start + kb.populated) % RingSize
         /\ gen.offset \in 0 .. RingSize - 1
  <1>1. /\ gen.pos = kb.min + kb.populated /\ gen.offset = (kb.start + kb.populated) % RingSize
        /\ kb.populated + ChunkBlocks \in Filled
    BY DEF BufferInv, ChunkIsFree
  <1>2. kb.min \in Nat /\ kb.start \in 0 .. RingSize - 1 /\ kb.populated \in Filled /\ gen.offset \in 0 .. RingSize - 1
    BY DEF BufferInv, BufferTypes
  <1>3. kb.populated + ChunkBlocks \in 0 .. RingSize /\ kb.populated \in 0 .. RingSize
    BY <1>1, <1>2, FilledFacts, Zenon
  <1>4. RingSize \in Nat \ {0} /\ ChunkBlocks \in Nat \ {0}
    BY FilledFacts
  <1> QED
    BY <1>1, <1>2, <1>3, <1>4

(* The chunk that is written lies outside the filled part. *)
LEMMA FilledIsOutside ==
  ASSUME BufferInv, gen.at \in {"fill", "encrypt", "lock"}, NEW i \in 0 .. RingSize - 1, i < kb.populated
  PROVE  (kb.start + i) % RingSize \in 0 .. RingSize - 1 /\ ~InChunk((kb.start + i) % RingSize)
  <1>1. /\ RingSize \in Nat \ {0} /\ ChunkBlocks \in Nat \ {0}
        /\ kb.start \in 0 .. RingSize - 1 /\ kb.populated \in 0 .. RingSize - 1
        /\ kb.populated + ChunkBlocks <= RingSize
        /\ gen.offset = (kb.start + kb.populated) % RingSize
    BY ChunkPlaces
  <1>2. (((kb.start + i) % RingSize) - gen.offset) % RingSize = (i - kb.populated) + RingSize
    BY <1>1, WayBetween
  <1>3. ~((i - kb.populated) + RingSize < ChunkBlocks)
    BY <1>1
  <1>4. (kb.start + i) % RingSize \in 0 .. RingSize - 1
    BY <1>1
  <1> QED
    BY <1>2, <1>3, <1>4 DEF InChunk

(* Place j of the chunk. *)
LEMMA PlaceInChunk ==
  ASSUME BufferInv, gen.at \in {"fill", "encrypt", "lock"}, NEW j \in 0 .. ChunkBlocks - 1
  PROVE  /\ (gen.offset + j) % RingSize \in 0 .. RingSize - 1
         /\ InChunk((gen.offset + j) % RingSize)
         /\ (((gen.offset + j) % RingSize) - gen.offset) % RingSize = j
         /\ (gen.offset + j) % RingSize = (kb.start + (kb.populated + j)) % RingSize
  <1>1. /\ RingSize \in Nat \ {0} /\ ChunkBlocks \in Nat \ {0}
        /\ kb.start \in 0 .. RingSize - 1 /\ kb.populated \in 0 .. RingSize - 1
        /\ kb.populated + ChunkBlocks <= RingSize
        /\ gen.offset = (kb.start + kb.populated) % RingSize /\ gen.offset \in 0 .. RingSize - 1
    BY ChunkPlaces
  <1>2. j \in 0 .. RingSize - 1 /\ 0 \in 0 .. RingSize - 1 /\ kb.populated + j <= RingSize /\ j \in Nat /\ kb.populated \in Nat
    BY <1>1
  <1>3. (((gen.offset + j) % RingSize) - ((gen.offset + 0) % RingSize)) % RingSize = j
    <2>1. (((gen.offset + j) % RingSize) - ((gen.offset + 0) % RingSize)) % RingSize
            = IF 0 <= j THEN j - 0 ELSE (j - 0) + RingSize
      BY <1>1, <1>2, WayBetween
    <2> QED
      BY <1>2, <2>1
  <1>4. (gen.offset + 0) % RingSize = gen.offset
    BY <1>1, <1>2, PlaceValue
  <1>5. (((gen.offset + j) % RingSize) - gen.offset) % RingSize = j
    BY <1>3, <1>4
  <1>6. (gen.offset + j) % RingSize \in 0 .. RingSize - 1
    BY <1>1, <1>2
  <1>7. (gen.offset + j) % RingSize = (kb.start + (kb.populated + j)) % RingSize
    <2>1. (((kb.start + kb.populated) % RingSize) + j) % RingSize = (kb.start + (kb.populated + j)) % RingSize
      BY <1>1, <1>2, PlaceTwice, ZenonT(40)
    <2> QED
      BY <1>1, <2>1, Zenon
  <1>8. j < ChunkBlocks
    BY <1>1
  <1> QED
    BY <1>5, <1>6, <1>7, <1>8 DEF InChunk

(* Counters and stream are written behind the filled part. *)
LEMMA FillStep == ASSUME BufferInv, GeneratorFills PROVE BufferInv'
  <1>1. /\ gen.at = "fill" /\ gen' = [gen EXCEPT !.at = "encrypt"] /\ UNCHANGED <<prev, newest, held, kb, user, given>>
        /\ ring' = [i \in 0 .. RingSize - 1 |-> IF InChunk(i) THEN Garbage ELSE ring[i]]
    BY DEF GeneratorFills
  <1>2. PositionsInv' /\ KeyStreamIsRight'
    BY <1>1 DEF BufferInv, PositionsInv, KeyStreamIsRight
  <1>3. BufferTypes'
    <2>1. ring' \in [0 .. RingSize - 1 -> Int]
      BY <1>1 DEF BufferInv, BufferTypes, Garbage
    <2> QED
      BY <1>1, <2>1 DEF BufferInv, BufferTypes
  <1>4. StreamIn(ring, kb)'
    <2> SUFFICES ASSUME NEW i \in 0 .. RingSize - 1, i < kb.populated
                 PROVE  ring'[(kb.start + i) % RingSize] = kb.min + i
      BY <1>1 DEF StreamIn
    <2>1. (kb.start + i) % RingSize \in 0 .. RingSize - 1 /\ ~InChunk((kb.start + i) % RingSize)
      BY <1>1, FilledIsOutside
    <2>2. ring[(kb.start + i) % RingSize] = kb.min + i
      BY DEF BufferInv, StreamIn
    <2> QED
      BY <1>1, <2>1, <2>2
  <1>5. ChunkIsFree' /\ gen'.at # "lock"
    BY <1>1 DEF BufferInv, BufferTypes, ChunkIsFree
  <1> QED
    BY <1>2, <1>3, <1>4, <1>5 DEF BufferInv

(* The stream itself is written in its place. *)
LEMMA EncryptStep == ASSUME BufferInv, GeneratorEncrypts PROVE BufferInv'
  <1>1. /\ gen.at = "encrypt" /\ gen' = [gen EXCEPT !.at = "lock"] /\ UNCHANGED <<prev, newest, held, kb, user, given>>
        /\ ring' = [i \in 0 .. RingSize - 1 |-> IF InChunk(i) THEN gen.pos + ((i - gen.offset) % RingSize) ELSE ring[i]]
    BY DEF GeneratorEncrypts
  <1>2. PositionsInv' /\ KeyStreamIsRight'
    BY <1>1 DEF BufferInv, PositionsInv, KeyStreamIsRight
  <1>3. gen.pos \in Nat /\ gen.offset \in 0 .. RingSize - 1 /\ RingSize \in Nat \ {0}
    BY FilledFacts DEF BufferInv, BufferTypes
  <1>4. BufferTypes'
    <2>1. ring' \in [0 .. RingSize - 1 -> Int]
      <3>1. ASSUME NEW i \in 0 .. RingSize - 1 PROVE gen.pos + ((i - gen.offset) % RingSize) \in Int
        BY <1>3
      <3>2. ASSUME NEW i \in 0 .. RingSize - 1 PROVE ring[i] \in Int
        BY DEF BufferInv, BufferTypes
      <3> QED
        BY <1>1, <3>1, <3>2
    <2> QED
      BY <1>1, <2>1 DEF BufferInv, BufferTypes
  <1>5. StreamIn(ring, kb)'
    <2> SUFFICES ASSUME NEW i \in 0 .. RingSize - 1, i < kb.populated
                 PROVE  ring'[(kb.start + i) % RingSize] = kb.min + i
      BY <1>1 DEF StreamIn
    <2>1. (kb.start + i) % RingSize \in 0 .. RingSize - 1 /\ ~InChunk((kb.start + i) % RingSize)
      BY <1>1, FilledIsOutside
    <2>2. ring[(kb.start + i) % RingSize] = kb.min + i
      BY DEF BufferInv, StreamIn
    <2> QED
      BY <1>1, <2>1, <2>2
  <1>6. ChunkIn(ring)'
    <2> SUFFICES ASSUME NEW j \in 0 .. ChunkBlocks - 1
                 PROVE  ring'[(gen.offset + j) % RingSize] = gen.pos + j
      BY <1>1 DEF BufferInv, BufferTypes, ChunkIn
    <2> DEFINE x == (gen.offset + j) % RingSize
    <2>1. x \in 0 .. RingSize - 1 /\ InChunk(x) /\ (x - gen.offset) % RingSize = j
      BY <1>1, PlaceInChunk
    <2> HIDE DEF x
    <2>2. ring'[x] = gen.pos + j
      BY <1>1, <2>1
    <2> QED
      BY <2>2 DEF x
  <1>7. ChunkIsFree'
    BY <1>1 DEF BufferInv, BufferTypes, ChunkIsFree
  <1> QED
    BY <1>2, <1>4, <1>5, <1>6, <1>7 DEF BufferInv

(* The chunk is added to the filled part. *)
LEMMA LockStep == ASSUME BufferInv, GeneratorLocks PROVE BufferInv'
  <1>1. /\ gen.at = "lock" /\ gen' = [gen EXCEPT !.at = "check"] /\ UNCHANGED <<prev, newest, held, ring, user, given>>
        /\ kb' = [kb EXCEPT !.populated = @ + ChunkBlocks]
    BY DEF GeneratorLocks
  <1>2. PositionsInv' /\ KeyStreamIsRight'
    BY <1>1 DEF BufferInv, PositionsInv, KeyStreamIsRight
  <1>3. kb.populated + ChunkBlocks \in Filled
    BY <1>1 DEF BufferInv, ChunkIsFree
  <1>4. BufferTypes' /\ gen'.at = "check"
    BY <1>1, <1>3 DEF BufferInv, BufferTypes
  <1>5. kb'.populated = kb.populated + ChunkBlocks /\ kb'.min = kb.min /\ kb'.start = kb.start
    BY <1>1 DEF BufferInv, BufferTypes
  <1>6. StreamIn(ring, kb)'
    <2> SUFFICES ASSUME NEW i \in 0 .. RingSize - 1, i < kb.populated + ChunkBlocks
                 PROVE  ring[(kb.start + i) % RingSize] = kb.min + i
      BY <1>1, <1>5 DEF StreamIn
    <2>1. CASE i < kb.populated
      BY <2>1 DEF BufferInv, StreamIn
    <2>2. CASE ~(i < kb.populated)
      <3> DEFINE j == i - kb.populated
      <3>1. /\ kb.min \in Nat /\ kb.populated \in 0 .. RingSize - 1 /\ ChunkBlocks \in Nat /\ RingSize \in Nat
            /\ gen.pos = kb.min + kb.populated
        BY <1>1, ChunkPlaces
      <3>2. j \in 0 .. ChunkBlocks - 1 /\ kb.populated + j = i /\ gen.pos + j = kb.min + i
        BY <2>2, <3>1
      <3> HIDE DEF j
      <3>3. (gen.offset + j) % RingSize = (kb.start + (kb.populated + j)) % RingSize
        BY <1>1, <3>2, PlaceInChunk
      <3>4. ring[(gen.offset + j) % RingSize] = gen.pos + j
        BY <1>1, <3>2 DEF BufferInv, ChunkIn
      <3> QED
        BY <3>2, <3>3, <3>4
    <2> QED
      BY <2>1, <2>2
  <1> QED
    BY <1>2, <1>4, <1>6 DEF BufferInv, ChunkIsFree

(* Every step keeps the buffer's invariant. *)
LEMMA BufferStep == BufferInv /\ [KeyNext]_keyVars => BufferInv'
  <1> SUFFICES ASSUME BufferInv, [KeyNext]_keyVars PROVE BufferInv'
    OBVIOUS
  <1> DEFINE kbs == [min : Nat, start : 0 .. RingSize - 1, populated : Filled, last : Nat, stop : BOOLEAN]
  <1>1. PositionsInv'
    BY PositionsStep DEF BufferInv
  <1>2. kb \in kbs
    BY DEF BufferInv, BufferTypes
  <1>3. ASSUME NEW p \in Nat, NEW n \in 1 .. MaxRequest, GetsKeyStream(p, p, n) PROVE BufferInv'
    <2>1. /\ kb' = [kb EXCEPT !.last = IF p + n > @ THEN p + n ELSE @]
          /\ UNCHANGED <<ring, gen>> /\ KeyStreamIsRight'
      BY <1>3, RequestStep
    <2>2. p + n \in Nat
      BY KeyAssumption
    <2>3. kb' \in kbs /\ kb'.min = kb.min /\ kb'.start = kb.start /\ kb'.populated = kb.populated
      BY <1>2, <2>1, <2>2
    <2> QED
      BY <1>1, <2>1, <2>3, BufferKept
  <1>4. ASSUME UNCHANGED <<ring, kb, gen, given>> PROVE BufferInv'
    BY <1>1, <1>2, <1>4, BufferKept DEF BufferInv, KeyStreamIsRight
  <1>5. ASSUME NEW p \in KeyPositions, PacketArrives(p) PROVE BufferInv'
    <2>1. p \in Nat /\ prev' = p
      BY <1>5, KeyAssumption DEF PacketArrives, KeyPositions
    <2>2. (\E n \in 1 .. MaxRequest : GetsKeyStream(p, prev', n)) \/ UNCHANGED <<ring, kb, gen, given>>
      BY <1>5 DEF PacketArrives
    <2>3. (\E n \in 1 .. MaxRequest : GetsKeyStream(p, p, n)) \/ UNCHANGED <<ring, kb, gen, given>>
      BY <2>1, <2>2 DEF GetsKeyStream
    <2> QED
      BY <1>3, <1>4, <2>1, <2>3
  <1>6. ASSUME NEW p \in KeyPositions, PacketPulled(p) PROVE BufferInv'
    BY <1>3, <1>6, KeyAssumption DEF PacketPulled, KeyPositions
  <1>7. CASE SignalNext
    <2>1. UNCHANGED <<ring, kb, given>> /\ Woken
      BY <1>7 DEF SignalNext, Signals, FiniSignals
    <2>2. gen' = gen \/ (gen.at = "asleep" /\ gen' = [gen EXCEPT !.at = "check"])
      BY <2>1 DEF Woken
    <2> QED
      BY <1>1, <1>2, <2>1, <2>2, BufferKept DEF BufferInv, KeyStreamIsRight
  <1>8. CASE FiniStops
    <2>1. UNCHANGED <<ring, gen, given>> /\ kb' = [kb EXCEPT !.stop = TRUE]
      BY <1>8 DEF FiniStops
    <2>2. kb' \in kbs /\ kb'.min = kb.min /\ kb'.start = kb.start /\ kb'.populated = kb.populated
      BY <1>2, <2>1
    <2> QED
      BY <1>1, <2>1, <2>2, BufferKept DEF BufferInv, KeyStreamIsRight
  <1>9. CASE GeneratorFails
    <2>1. gen' = [gen EXCEPT !.at = "ended"] /\ UNCHANGED <<ring, kb, given>>
      BY <1>9 DEF GeneratorFails
    <2>2. BufferTypes' /\ gen'.at = "ended"
      BY <2>1 DEF BufferInv, BufferTypes
    <2> QED
      BY <1>1, <2>1, <2>2 DEF BufferInv, StreamIn, ChunkIsFree, KeyStreamIsRight
  <1>10. CASE UNCHANGED keyVars
    BY <1>4, <1>10 DEF keyVars
  <1> QED
    BY <1>5, <1>6, <1>7, <1>8, <1>9, <1>10, RoomStep, FillStep, EncryptStep, LockStep DEF KeyNext, GeneratorNext

(* Every packet is decrypted with the stream of its own position, whatever the *)
(* generator is doing to the ring, for every size of the ring and its chunks.  *)
THEOREM StreamAlwaysRight == KeySpec => []KeyStreamIsRight
  <1>1. BufferInv => KeyStreamIsRight
    BY DEF BufferInv
  <1> QED
    BY <1>1, BufferInit, BufferStep, PTL DEF KeySpec

-----------------------------------------------------------------------------
(* A request keeps a generator asleep that has nothing to do, or sees to its signal. *)
LEMMA RequestWakes ==
  ASSUME NEW p, NEW n, GetsKeyStream(p, p, n), user = "idle", NoRequestIsSleptOver, BufferTypes
  PROVE  NoRequestIsSleptOver'
  <1> DEFINE k == [kb EXCEPT !.last = IF p + n > @ THEN p + n ELSE @]
  <1>1. kb' = k /\ gen' = gen /\ user' = IF ShouldGenerate(k) THEN "signal" ELSE "idle"
    BY DEF GetsKeyStream, SignalDue
  <1>2. k.stop = kb.stop /\ k.populated = kb.populated
    BY DEF BufferTypes
  <1> HIDE DEF k
  <1> QED
    BY <1>1, <1>2 DEF NoRequestIsSleptOver, MayGoOn

(* The generator never sleeps over a request, however its steps and those of *)
(* the receiver interleave: the request is noted before the signal is decided. *)
THEOREM NeverSleepsOver == KeySpec => []NoRequestIsSleptOver
  <1>1. KeyInit => NoRequestIsSleptOver
    BY DEF KeyInit, NoRequestIsSleptOver
  <1>2. BufferInv /\ NoRequestIsSleptOver /\ [KeyNext]_keyVars => NoRequestIsSleptOver'
    <2> SUFFICES ASSUME BufferInv, NoRequestIsSleptOver, [KeyNext]_keyVars PROVE NoRequestIsSleptOver'
      OBVIOUS
    <2>1. BufferTypes
      BY DEF BufferInv
    <2>2. ASSUME UNCHANGED <<kb, gen, user>> PROVE NoRequestIsSleptOver'
      BY <2>2 DEF NoRequestIsSleptOver, MayGoOn, ShouldGenerate
    <2>3. ASSUME NEW p \in KeyPositions, PacketArrives(p) PROVE NoRequestIsSleptOver'
      <3>1. user = "idle" /\ prev' = p
        BY <2>3 DEF PacketArrives
      <3>2. (\E n \in 1 .. MaxRequest : GetsKeyStream(p, prev', n)) \/ UNCHANGED <<kb, gen, user>>
        BY <2>3 DEF PacketArrives
      <3>3. (\E n \in 1 .. MaxRequest : GetsKeyStream(p, p, n)) \/ UNCHANGED <<kb, gen, user>>
        BY <3>1, <3>2 DEF GetsKeyStream
      <3> QED
        BY <2>1, <2>2, <3>1, <3>3, RequestWakes
    <2>4. ASSUME NEW p \in KeyPositions, PacketPulled(p) PROVE NoRequestIsSleptOver'
      BY <2>1, <2>4, RequestWakes DEF PacketPulled
    <2>5. CASE SignalNext
      <3>1. Woken /\ UNCHANGED kb
        BY <2>5 DEF SignalNext, Signals, FiniSignals
      <3>2. gen'.at # "asleep"
        BY <2>1, <3>1 DEF Woken, BufferTypes
      <3> QED
        BY <3>2 DEF NoRequestIsSleptOver
    <2>6. CASE FiniStops
      BY <2>6 DEF FiniStops, NoRequestIsSleptOver
    <2>7. CASE GeneratorNext
      <3>1. CASE GeneratorChecks
        <4>1. gen'.at # "asleep" \/ (~MayGoOn(kb) /\ UNCHANGED kb)
          BY <2>1, <3>1 DEF GeneratorChecks, BufferTypes
        <4> QED
          BY <4>1 DEF NoRequestIsSleptOver, MayGoOn, ShouldGenerate
      <3>2. CASE GeneratorFills \/ GeneratorEncrypts \/ GeneratorFails \/ GeneratorLocks
        <4>1. gen'.at # "asleep"
          BY <2>1, <3>2 DEF GeneratorFills, GeneratorEncrypts, GeneratorFails, GeneratorLocks, BufferTypes
        <4> QED
          BY <4>1 DEF NoRequestIsSleptOver
      <3> QED
        BY <2>7, <3>1, <3>2 DEF GeneratorNext
    <2>8. CASE UNCHANGED keyVars
      BY <2>2, <2>8 DEF keyVars
    <2> QED
      BY <2>3, <2>4, <2>5, <2>6, <2>7, <2>8 DEF KeyNext
  <1> QED
    BY <1>1, <1>2, BufferInit, BufferStep, PTL DEF KeySpec

-----------------------------------------------------------------------------
(***************************************************************************)
(* The packet sizes that a successful run reports are those the network    *)
(* passes, for every range of sizes, number of attempts and network.       *)
(***************************************************************************)


SkTypes == [state : SkStates, finished : BOOLEAN, index : Nat]
TestTypes == [pongs : Nat, min : Sizes, max : Sizes, cur : Sizes]
ResultTypes == [err : {"none", "success", "error"}, in : Sizes, out : Sizes]
AnswerTypes == [kind : SkStates, index : Nat, fresh : BOOLEAN]

SearchTypes ==
  /\ sk \in SkTypes /\ test \in TestTypes /\ result \in ResultTypes
  /\ link \in [in : Links, out : Links] /\ answers \subseteq AnswerTypes
  /\ missed \subseteq {"in", "out"}

(* The awaited answer has come, or can come, only if the size passes. *)
OnlyPassing(kind, passes) ==
  /\ sk.state = kind
  /\ sk.finished \/ (\E a \in answers : a.kind = kind /\ a.fresh) => passes

(* Inward: the smallest size passes; the largest does not, once it was tried. *)
InSearch ==
  /\ OnlyPassing("MTU", test.cur <= link.in)
  /\ test.min < test.cur /\ test.cur <= test.max /\ test.min <= link.in
  /\ test.cur = test.max => test.max = MtuMax
  /\ "in" \notin missed => test.cur = MtuMax \/ link.in < test.max

(* Outward, where the first size is the one found inward. *)
OutSearch ==
  /\ OnlyPassing("PONG", test.cur <= link.out)
  /\ test.min <= test.cur /\ test.cur <= test.max /\ test.min <= link.out /\ test.min < test.max
  /\ GoesOn(test)
  /\ result.in # MtuMax => test.cur < MtuMax
  /\ "out" \notin missed =>
       \/ link.out < test.max
       \/ test.max = MtuMax /\ (result.in = MtuMax => test.cur = MtuMax)

InFound ==
  /\ result.in <= link.in
  /\ "in" \notin missed => result.in = Smaller(link.in, MtuMax)
OutFound ==
  /\ result.out <= link.out
  /\ "out" \notin missed =>
       result.out = Smaller(link.out, IF result.in = MtuMax THEN MtuMax ELSE MtuMax - 1)

SearchInv ==
  /\ SearchTypes
  /\ result.err = "success" => spc \in {"close", "done"}
  /\ spc = "mtuIn" => InSearch
  /\ spc = "mtuOut" => OutSearch
  /\ spc \in {"clientMtu", "mtuOut", "final"} \/ result.err = "success" => InFound
  /\ spc = "final" \/ result.err = "success" => OutFound

-----------------------------------------------------------------------------
(* The sizes are numbers, and the largest is well above the smallest. *)
LEMMA SizeFacts ==
  /\ MtuMin \in Nat /\ MtuMax \in Nat /\ MtuMin + 1 < MtuMax
  /\ MtuMin \in Sizes /\ MtuMax \in Sizes /\ Sizes \subseteq Nat
  /\ Links \subseteq Nat /\ \A l \in Links : MtuMin <= l
  BY SenkushaAssumption DEF Sizes

(* The next size lies between two that are not neighbours. *)
LEMMA Middle ==
  ASSUME NEW min \in Nat, NEW max \in Nat, max - min > 1
  PROVE  min < min + ((max - min) \div 2) /\ min + ((max - min) \div 2) < max
  <1> DEFINE d == max - min
             h == d \div 2
  <1>1. d \in Nat /\ d > 1
    OBVIOUS
  <1> HIDE DEF d
  <1>2. h \in Nat /\ 0 < h /\ h < d
    BY <1>1
  <1> HIDE DEF h
  <1>3. max = min + d
    BY DEF d
  <1>4. min < min + h /\ min + h < max
    BY <1>1, <1>2, <1>3
  <1> QED
    BY <1>4 DEF d, h

(* A command leaves the types alone. *)
LEMMA AsksTypes ==
  ASSUME SearchTypes, NEW kind \in SkStates, NEW index \in Nat, NEW passes \in BOOLEAN, Asks(kind, index, passes)
  PROVE  sk' \in SkTypes /\ answers' \subseteq AnswerTypes
  <1>1. sk' \in SkTypes
    BY DEF Asks, SkTypes
  <1>2. ASSUME NEW a \in answers PROVE (IF a.kind = kind THEN [a EXCEPT !.fresh = FALSE] ELSE a) \in AnswerTypes
    BY DEF SearchTypes, AnswerTypes
  <1>3. [kind |-> kind, index |-> index, fresh |-> TRUE] \in AnswerTypes
    BY DEF AnswerTypes
  <1> QED
    BY <1>1, <1>2, <1>3 DEF Asks

(* After a command, only its own answer is fresh, and there is one only if it passes. *)
LEMMA AsksOnlyPassing ==
  ASSUME SearchTypes, NEW kind \in SkStates, NEW index \in Nat, NEW passes \in BOOLEAN, Asks(kind, index, passes)
  PROVE  /\ sk'.state = kind /\ ~sk'.finished
         /\ \A a \in answers' : a.kind = kind /\ a.fresh => passes
  <1>1. sk'.state = kind /\ ~sk'.finished
    BY DEF Asks
  <1>2. ASSUME NEW a \in answers', a.kind = kind, a.fresh PROVE passes
    <2>1. CASE \E b \in answers : a = IF b.kind = kind THEN [b EXCEPT !.fresh = FALSE] ELSE b
      <3>1. PICK b \in answers : a = IF b.kind = kind THEN [b EXCEPT !.fresh = FALSE] ELSE b
        BY <2>1
      <3>2. b \in AnswerTypes
        BY DEF SearchTypes
      <3>3. b.kind # kind => a = b
        BY <3>1
      <3>4. b.kind = kind => ~a.fresh
        BY <3>1, <3>2 DEF AnswerTypes
      <3> QED
        BY <1>2, <3>3, <3>4
    <2>2. CASE ~\E b \in answers : a = IF b.kind = kind THEN [b EXCEPT !.fresh = FALSE] ELSE b
      BY <1>2, <2>2 DEF Asks
    <2> QED
      BY <2>1, <2>2
  <1> QED
    BY <1>1, <1>2

(* The types of what a step of the search reads. *)
LEMMA SearchNumbers ==
  ASSUME SearchTypes
  PROVE  /\ test.min \in Sizes /\ test.max \in Sizes /\ test.cur \in Sizes /\ test.pongs \in Nat
         /\ result.in \in Sizes /\ result.out \in Sizes
         /\ link.in \in Links /\ link.out \in Links
         /\ sk.finished \in BOOLEAN /\ sk.index \in Nat
  BY DEF SearchTypes, SkTypes, TestTypes, ResultTypes

(* The number between two sizes is a size. *)
LEMMA MiddleIsSize ==
  ASSUME NEW min \in Sizes, NEW max \in Sizes, min <= max
  PROVE  min + ((max - min) \div 2) \in Sizes
  <1> DEFINE d == max - min
             h == d \div 2
  <1>1. min \in Nat /\ max \in Nat
    BY SizeFacts
  <1>2. d \in Nat
    BY <1>1
  <1>3. h \in Nat /\ h <= d
    BY <1>2
  <1>4. max = min + d
    BY <1>1
  <1> HIDE DEF d, h
  <1>5. min + h \in Sizes
    BY <1>1, <1>2, <1>3, <1>4, SizeFacts DEF Sizes
  <1> QED
    BY <1>5 DEF d, h

(* A size has passed, or all attempts have failed: inward. *)
LEMMA InNarrows ==
  ASSUME SearchInv, spc = "mtuIn", GivenUp("in", test.cur <= link.in),
         NEW t, t = Narrowed(sk.finished)
  PROVE  /\ t \in TestTypes /\ t.min <= link.in
         /\ GoesOn(t) => /\ t.min < t.cur /\ t.cur < t.max
                         /\ "in" \notin missed' => link.in < t.max
         /\ ~GoesOn(t) => ("in" \notin missed' => t.min = Smaller(link.in, MtuMax))
  <1> DEFINE min == IF sk.finished THEN test.cur ELSE test.min
             max == IF sk.finished THEN test.max ELSE test.cur
  <1>1. SearchTypes /\ InSearch
    BY DEF SearchInv
  <1>2. /\ test.min \in Sizes /\ test.max \in Sizes /\ test.cur \in Sizes /\ test.pongs \in Nat
        /\ link.in \in Links /\ sk.finished \in BOOLEAN
    BY <1>1, SearchNumbers
  <1>3. test.min \in Nat /\ test.max \in Nat /\ test.cur \in Nat /\ link.in \in Nat
        /\ MtuMax \in Nat /\ test.max <= MtuMax
    <2>1. link.in \in Nat
      BY <1>2, SizeFacts, Zenon
    <2> QED
      BY <1>2, <2>1, SizeFacts DEF Sizes
  <1>4. t = [pongs |-> test.pongs, min |-> min, max |-> max, cur |-> min + ((max - min) \div 2)]
    BY DEF Narrowed, Search
  <1>5. min \in Sizes /\ max \in Sizes /\ min \in Nat /\ max \in Nat /\ min <= max
    BY <1>1, <1>2, <1>3 DEF InSearch
  <1>6. min <= link.in /\ ("in" \notin missed' => "in" \notin missed /\ (sk.finished \/ link.in < test.cur))
    BY <1>1, <1>2, <1>3 DEF InSearch, OnlyPassing, GivenUp
  <1>7. max - min > 1 => ("in" \notin missed' => link.in < max)
    BY <1>1, <1>2, <1>3, <1>6 DEF InSearch
  <1>8. ~(max - min > 1) => ("in" \notin missed' => min = Smaller(link.in, MtuMax))
    <2> SUFFICES ASSUME ~(max - min > 1), "in" \notin missed' PROVE min = Smaller(link.in, MtuMax)
      OBVIOUS
    <2>1. CASE sk.finished /\ test.cur = MtuMax
      BY <1>3, <1>6, <2>1 DEF Smaller
    <2>2. CASE sk.finished /\ test.cur # MtuMax
      <3>1. link.in < test.max
        BY <1>1, <1>6, <2>2 DEF InSearch
      <3> QED
        BY <1>3, <1>6, <2>2, <3>1 DEF Smaller
    <2>3. CASE ~sk.finished
      BY <1>1, <1>3, <1>6, <2>3 DEF InSearch, Smaller
    <2> QED
      BY <1>2, <2>1, <2>2, <2>3
  <1> DEFINE cur == min + ((max - min) \div 2)
  <1>9. cur \in Sizes /\ (max - min > 1 => min < cur /\ cur < max)
    BY <1>5, Middle, MiddleIsSize
  <1> HIDE DEF min, max, cur
  <1>10. t = [pongs |-> test.pongs, min |-> min, max |-> max, cur |-> cur]
    BY <1>4 DEF cur
  <1> QED
    BY <1>2, <1>5, <1>6, <1>7, <1>8, <1>9, <1>10 DEF TestTypes, GoesOn

(* Outward. *)
LEMMA OutNarrows ==
  ASSUME SearchInv, spc = "mtuOut", GivenUp("out", test.cur <= link.out),
         NEW t, t = Narrowed(sk.finished)
  PROVE  /\ t \in TestTypes /\ t.min <= link.out
         /\ GoesOn(t) => /\ t.min < t.cur /\ t.cur < t.max
                         /\ "out" \notin missed' => link.out < t.max \/ (t.max = MtuMax /\ result.in # MtuMax)
         /\ ~GoesOn(t) =>
              ("out" \notin missed' => t.min = Smaller(link.out, IF result.in = MtuMax THEN MtuMax ELSE MtuMax - 1))
  <1> DEFINE min == IF sk.finished THEN test.cur ELSE test.min
             max == IF sk.finished THEN test.max ELSE test.cur
  <1>1. SearchTypes /\ OutSearch
    BY DEF SearchInv
  <1>2. /\ test.min \in Sizes /\ test.max \in Sizes /\ test.cur \in Sizes /\ test.pongs \in Nat
        /\ link.out \in Links /\ sk.finished \in BOOLEAN
    BY <1>1, SearchNumbers
  <1>3. test.min \in Nat /\ test.max \in Nat /\ test.cur \in Nat /\ link.out \in Nat
        /\ MtuMax \in Nat /\ test.max <= MtuMax
    <2>1. link.out \in Nat
      BY <1>2, SizeFacts, Zenon
    <2> QED
      BY <1>2, <2>1, SizeFacts DEF Sizes
  <1>4. t = [pongs |-> test.pongs, min |-> min, max |-> max, cur |-> min + ((max - min) \div 2)]
    BY DEF Narrowed, Search
  <1>5. min \in Sizes /\ max \in Sizes /\ min \in Nat /\ max \in Nat /\ min <= max
    BY <1>1, <1>2, <1>3 DEF OutSearch
  <1>6. min <= link.out /\ ("out" \notin missed' => "out" \notin missed /\ (sk.finished \/ link.out < test.cur))
    BY <1>1, <1>2, <1>3 DEF OutSearch, OnlyPassing, GivenUp
  <1>7. max - min > 1 => ("out" \notin missed' => link.out < max \/ (max = MtuMax /\ result.in # MtuMax))
    <2> SUFFICES ASSUME max - min > 1, "out" \notin missed'
                 PROVE  link.out < max \/ (max = MtuMax /\ result.in # MtuMax)
      OBVIOUS
    <2>1. CASE sk.finished
      BY <1>1, <1>3, <1>6, <2>1 DEF OutSearch
    <2>2. CASE ~sk.finished
      BY <1>3, <1>6, <2>2
    <2> QED
      BY <2>1, <2>2
  <1>8. ~(max - min > 1) =>
          ("out" \notin missed' => min = Smaller(link.out, IF result.in = MtuMax THEN MtuMax ELSE MtuMax - 1))
    <2> SUFFICES ASSUME ~(max - min > 1), "out" \notin missed'
                 PROVE  min = Smaller(link.out, IF result.in = MtuMax THEN MtuMax ELSE MtuMax - 1)
      OBVIOUS
    <2>1. CASE sk.finished /\ result.in = MtuMax
      BY <1>1, <1>3, <1>6, <2>1 DEF OutSearch, Smaller
    <2>2. CASE sk.finished /\ result.in # MtuMax
      BY <1>1, <1>3, <1>6, <2>2 DEF OutSearch, Smaller
    <2>3. CASE ~sk.finished
      BY <1>1, <1>3, <1>6, <2>3 DEF OutSearch, Smaller
    <2> QED
      BY <1>2, <2>1, <2>2, <2>3
  <1> DEFINE cur == min + ((max - min) \div 2)
  <1>9. cur \in Sizes /\ (max - min > 1 => min < cur /\ cur < max)
    BY <1>5, Middle, MiddleIsSize
  <1> HIDE DEF min, max, cur
  <1>10. t = [pongs |-> test.pongs, min |-> min, max |-> max, cur |-> cur]
    BY <1>4 DEF cur
  <1> QED
    BY <1>2, <1>5, <1>6, <1>7, <1>8, <1>9, <1>10 DEF TestTypes, GoesOn

-----------------------------------------------------------------------------
(* What the search inward and outward begins or goes on with. *)
InReady(t) ==
  /\ t \in TestTypes /\ t.min <= link.in /\ t.min < t.cur /\ t.cur <= t.max
  /\ t.cur = t.max => t.max = MtuMax
  /\ "in" \notin missed' => t.cur = MtuMax \/ link.in < t.max

OutReady(t) ==
  /\ t \in TestTypes /\ t.min <= link.out
  /\ GoesOn(t) => /\ t.min <= t.cur /\ t.cur <= t.max
                  /\ result.in # MtuMax => t.cur < MtuMax
                  /\ "out" \notin missed' =>
                       \/ link.out < t.max
                       \/ t.max = MtuMax /\ (result.in = MtuMax => t.cur = MtuMax)
  /\ ~GoesOn(t) =>
       ("out" \notin missed' => t.min = Smaller(link.out, IF result.in = MtuMax THEN MtuMax ELSE MtuMax - 1))

(* A step of the early waits. *)
LEMMA EarlyStep ==
  ASSUME SearchInv, spc \in Waits, spc' \in {"version", "bang", "echoOn", "ping", "echoOff"},
         NEW kind \in SkStates, NEW index \in Nat, Asks(kind, index, TRUE),
         test' \in TestTypes, UNCHANGED <<link, missed, result>>
  PROVE  SearchInv'
  <1>1. SearchTypes'
    <2>1. sk' \in SkTypes /\ answers' \subseteq AnswerTypes
      BY AsksTypes DEF SearchInv
    <2> QED
      BY <2>1 DEF SearchInv, SearchTypes
  <1>2. result'.err # "success"
    BY DEF SearchInv, Waits
  <1> QED
    BY <1>1, <1>2 DEF SearchInv

(* A size is tried inward. *)
LEMMA InCommandStep ==
  ASSUME SearchInv, spc \in Waits, NEW t, NEW attempt \in Nat, InReady(t), SendsMtuCommand(t, attempt),
         missed' \subseteq {"in", "out"}, UNCHANGED <<link, result>>
  PROVE  SearchInv'
  <1>1. (t.cur <= link.in) \in BOOLEAN /\ "MTU" \in SkStates /\ SearchTypes /\ Asks("MTU", attempt, t.cur <= link.in)
        /\ test' = t /\ spc' = "mtuIn"
    BY DEF SkStates, SearchInv, SendsMtuCommand
  <1> DEFINE passes == t.cur <= link.in
  <1>2. /\ sk'.state = "MTU" /\ ~sk'.finished
        /\ \A a \in answers' : a.kind = "MTU" /\ a.fresh => passes
    BY <1>1, AsksOnlyPassing
  <1>3. SearchTypes'
    <2>1. sk' \in SkTypes /\ answers' \subseteq AnswerTypes
      BY <1>1, AsksTypes
    <2> QED
      BY <1>1, <2>1 DEF SearchTypes, InReady
  <1>4. result'.err # "success"
    BY DEF SearchInv, Waits
  <1>5. InSearch'
    BY <1>1, <1>2 DEF InSearch, OnlyPassing, InReady
  <1> QED
    BY <1>1, <1>3, <1>4, <1>5 DEF SearchInv

(* A size is tried outward. *)
LEMMA OutPingStep ==
  ASSUME SearchInv, spc \in Waits, NEW t, NEW attempt \in Nat, OutReady(t), GoesOn(t), SendsOutPing(t, attempt),
         InFound, missed' = missed \/ missed' = missed \cup {"out"}, UNCHANGED <<link, result>>
  PROVE  SearchInv'
  <1>1. (t.cur <= link.out) \in BOOLEAN /\ "PONG" \in SkStates /\ SearchTypes /\ Asks("PONG", attempt, t.cur <= link.out)
        /\ test' = t /\ spc' = "mtuOut"
    BY DEF SkStates, SearchInv, SendsOutPing
  <1> DEFINE passes == t.cur <= link.out
  <1>2. /\ sk'.state = "PONG" /\ ~sk'.finished
        /\ \A a \in answers' : a.kind = "PONG" /\ a.fresh => passes
    BY <1>1, AsksOnlyPassing
  <1>3. SearchTypes'
    <2>1. sk' \in SkTypes /\ answers' \subseteq AnswerTypes
      BY <1>1, AsksTypes
    <2> QED
      BY <1>1, <2>1 DEF SearchTypes, OutReady
  <1>4. result'.err # "success"
    BY DEF SearchInv, Waits
  <1>5. t.min \in Nat /\ t.max \in Nat
    BY SizeFacts DEF OutReady, TestTypes
  <1>6. t.min < t.max
    BY <1>5 DEF GoesOn
  <1>7. OutSearch'
    BY <1>1, <1>2, <1>6 DEF OutSearch, OnlyPassing, OutReady, GoesOn
  <1>8. InFound'
    BY DEF InFound
  <1> QED
    BY <1>1, <1>3, <1>4, <1>7, <1>8 DEF SearchInv

(* The next size outward, or the last command. *)
LEMMA OutStep ==
  ASSUME SearchInv, spc \in Waits, NEW t, OutReady(t), SearchesOutward(t),
         InFound, missed' = missed \/ missed' = missed \cup {"out"}, UNCHANGED link
  PROVE  SearchInv'
  <1>1. CASE GoesOn(t) /\ SendsOutPing(t, 0) /\ UNCHANGED result
    BY <1>1, OutPingStep
  <1>2. CASE /\ ~GoesOn(t) /\ result' = [result EXCEPT !.out = t.min]
             /\ test' = t /\ Asks("DATA_ACK", 0, TRUE) /\ spc' = "final"
    <2>1. SearchTypes /\ result \in ResultTypes /\ result.err # "success" /\ "DATA_ACK" \in SkStates
      BY DEF SearchInv, SearchTypes, Waits, SkStates
    <2>2. t.min \in Sizes
      BY DEF OutReady, TestTypes
    <2>3. result' \in ResultTypes /\ result'.err = result.err /\ result'.in = result.in /\ result'.out = t.min
      BY <1>2, <2>1, <2>2 DEF ResultTypes
    <2>4. sk' \in SkTypes /\ answers' \subseteq AnswerTypes
      BY <1>2, <2>1, AsksTypes
    <2>5. SearchTypes'
      BY <1>2, <2>1, <2>3, <2>4 DEF SearchTypes, OutReady
    <2>6. InFound' /\ OutFound'
      BY <1>2, <2>3 DEF InFound, OutFound, OutReady
    <2> QED
      BY <1>2, <2>1, <2>3, <2>5, <2>6 DEF SearchInv
  <1> QED
    BY <1>1, <1>2 DEF SearchesOutward

-----------------------------------------------------------------------------
(* Before anything is asked. *)
LEMMA InvInit == SenkushaInit => SearchInv
  <1> SUFFICES ASSUME SenkushaInit PROVE SearchInv
    OBVIOUS
  <1>1. sk \in SkTypes /\ test \in TestTypes /\ result \in ResultTypes
    BY SizeFacts DEF SenkushaInit, SkTypes, SkStates, TestTypes, ResultTypes
  <1>2. link \in [in : Links, out : Links] /\ answers = {} /\ missed = {}
    BY DEF SenkushaInit
  <1>3. spc = "start" /\ result.err = "none"
    BY DEF SenkushaInit
  <1> QED
    BY <1>1, <1>2, <1>3 DEF SearchInv, SearchTypes

(* The waits before the search, and its begin. *)
LEMMA BeginStep ==
  ASSUME SearchInv,
         Connects \/ ConnectWaitEnds \/ VersionWaitEnds \/ BangWaitEnds \/ EchoOnWaitEnds \/ PingWaitEnds \/ EchoOffWaitEnds
  PROVE  SearchInv'
  <1>1. SearchTypes /\ sk \in SkTypes /\ test \in TestTypes /\ result \in ResultTypes
    BY DEF SearchInv, SearchTypes
  <1>2. CASE Connects
    <2>1. sk' \in SkTypes
      BY <1>1, <1>2 DEF Connects, SkTypes, SkStates
    <2>2. result' \in ResultTypes /\ result'.err # "success" /\ spc' \in {"connect", "done"}
      BY <1>1, <1>2 DEF Connects, SearchInv, ResultTypes
    <2>3. SearchTypes'
      BY <1>1, <1>2, <2>1, <2>2 DEF Connects, SearchTypes
    <2> QED
      BY <2>2, <2>3 DEF SearchInv
  <1>3. CASE ConnectWaitEnds
    BY <1>1, <1>3, EarlyStep DEF ConnectWaitEnds, Succeeds, Waits, SkStates
  <1>4. CASE VersionWaitEnds
    BY <1>1, <1>4, EarlyStep DEF VersionWaitEnds, Succeeds, Waits, SkStates
  <1>5. CASE BangWaitEnds
    BY <1>1, <1>5, EarlyStep DEF BangWaitEnds, Succeeds, Waits, SkStates
  <1>6. CASE EchoOnWaitEnds
    BY <1>1, <1>6, EarlyStep DEF EchoOnWaitEnds, Succeeds, Waits, SkStates
  <1>7. CASE PingWaitEnds
    <2>1. test' \in TestTypes
      BY <1>1, <1>7 DEF PingWaitEnds, TestTypes
    <2>2. sk.index + 1 \in Nat /\ "PONG" \in SkStates /\ "DATA_ACK" \in SkStates /\ spc \in Waits
      BY <1>1, <1>7 DEF PingWaitEnds, SkTypes, SkStates, Waits
    <2>3. CASE Asks("PONG", sk.index + 1, TRUE) /\ UNCHANGED spc
      BY <1>7, <2>1, <2>2, <2>3, EarlyStep DEF PingWaitEnds
    <2>4. CASE Asks("DATA_ACK", 0, TRUE) /\ spc' = "echoOff"
      BY <1>7, <2>1, <2>2, <2>4, EarlyStep DEF PingWaitEnds
    <2> QED
      BY <1>7, <2>3, <2>4 DEF PingWaitEnds
  <1>8. CASE EchoOffWaitEnds
    <2> DEFINE t == Search(MtuMin, MtuMax, MtuMax)
    <2>1. t = [pongs |-> test.pongs, min |-> MtuMin, max |-> MtuMax, cur |-> MtuMax]
      BY DEF Search
    <2>2. link.in \in Links /\ MtuMin <= link.in /\ test.pongs \in Nat
      BY <1>1, SearchNumbers, SizeFacts
    <2> HIDE DEF t
    <2>3. InReady(t)
      BY <2>1, <2>2, SizeFacts DEF InReady, TestTypes
    <2>4. spc \in Waits /\ SendsMtuCommand(t, 0) /\ UNCHANGED <<link, missed, result>> /\ missed' \subseteq {"in", "out"}
      BY <1>1, <1>8 DEF EchoOffWaitEnds, Waits, SearchTypes, t
    <2> QED
      BY <2>3, <2>4, InCommandStep
  <1> QED
    BY <1>2, <1>3, <1>4, <1>5, <1>6, <1>7, <1>8

(* The same size again keeps the search as it is. *)
LEMMA MtuInStep == ASSUME SearchInv, MtuInWaitEnds PROVE SearchInv'
  <1> DEFINE t == Narrowed(sk.finished)
  <1>1. SearchTypes /\ result \in ResultTypes /\ spc = "mtuIn" /\ spc \in Waits /\ UNCHANGED link /\ sk.index + 1 \in Nat
    BY SearchNumbers DEF MtuInWaitEnds, SearchInv, SearchTypes, SkTypes, Waits
  <1>2. CASE SendsMtuCommand(test, sk.index + 1) /\ UNCHANGED <<missed, result>>
    <2>1. InReady(test)
      BY <1>1, <1>2 DEF SearchInv, SearchTypes, InSearch, InReady
    <2> QED
      BY <1>1, <1>2, <2>1, InCommandStep DEF SearchTypes
  <1>3. CASE /\ GivenUp("in", test.cur <= link.in)
             /\ \/ GoesOn(t) /\ SendsMtuCommand(t, 0) /\ UNCHANGED result
                \/ /\ ~GoesOn(t) /\ result' = [result EXCEPT !.in = t.min]
                   /\ test' = t /\ Asks("CLIENT_MTU_COMMAND", 0, TRUE) /\ spc' = "clientMtu"
    <2>1. /\ t \in TestTypes /\ t.min <= link.in
          /\ GoesOn(t) => /\ t.min < t.cur /\ t.cur < t.max
                          /\ "in" \notin missed' => link.in < t.max
          /\ ~GoesOn(t) => ("in" \notin missed' => t.min = Smaller(link.in, MtuMax))
      BY <1>1, <1>3, InNarrows
    <2>2. missed' \subseteq {"in", "out"}
      BY <1>1, <1>3 DEF GivenUp, SearchTypes
    <2> HIDE DEF t
    <2>3. CASE GoesOn(t) /\ SendsMtuCommand(t, 0) /\ UNCHANGED result
      <3>1. t.min \in Nat /\ t.cur \in Nat /\ t.max \in Nat
        BY <2>1, SizeFacts DEF TestTypes
      <3>2. InReady(t)
        BY <2>1, <2>3, <3>1 DEF InReady
      <3> QED
        BY <1>1, <2>2, <2>3, <3>2, InCommandStep
    <2>4. CASE /\ ~GoesOn(t) /\ result' = [result EXCEPT !.in = t.min]
               /\ test' = t /\ Asks("CLIENT_MTU_COMMAND", 0, TRUE) /\ spc' = "clientMtu"
      <3>1. t.min \in Sizes /\ "CLIENT_MTU_COMMAND" \in SkStates
        BY <2>1 DEF TestTypes, SkStates
      <3>2. result' \in ResultTypes /\ result'.err # "success" /\ result'.in = t.min
        BY <1>1, <2>4, <3>1 DEF ResultTypes, SearchInv
      <3>3. sk' \in SkTypes /\ answers' \subseteq AnswerTypes
        BY <1>1, <2>4, <3>1, AsksTypes
      <3>4. SearchTypes'
        BY <1>1, <2>1, <2>2, <2>4, <3>2, <3>3 DEF SearchTypes
      <3>5. InFound'
        BY <1>1, <2>1, <2>4, <3>2 DEF InFound
      <3> QED
        BY <2>4, <3>2, <3>4, <3>5 DEF SearchInv
    <2> QED
      BY <1>3, <2>3, <2>4
  <1> QED
    BY <1>2, <1>3 DEF MtuInWaitEnds

(* The search outward begins with the size found inward. *)
LEMMA ClientMtuStep == ASSUME SearchInv, ClientMtuWaitEnds PROVE SearchInv'
  <1> DEFINE t == Search(MtuMin, MtuMax, result.in)
  <1>1. SearchTypes /\ spc = "clientMtu" /\ spc \in Waits /\ SearchesOutward(t) /\ UNCHANGED <<link, missed>> /\ InFound
    BY DEF ClientMtuWaitEnds, SearchInv, Waits
  <1>2. t = [pongs |-> test.pongs, min |-> MtuMin, max |-> MtuMax, cur |-> result.in]
    BY DEF Search
  <1>3. link.out \in Links /\ MtuMin <= link.out /\ link.out \in Nat /\ test.pongs \in Nat /\ result.in \in Sizes
    <2>1. link.out \in Links /\ test.pongs \in Nat /\ result.in \in Sizes
      BY <1>1, SearchNumbers
    <2> QED
      BY <2>1, SizeFacts, Zenon
  <1> HIDE DEF t
  <1>4. MtuMin <= result.in /\ result.in <= MtuMax /\ result.in \in Nat
    BY <1>3, SizeFacts DEF Sizes
  <1>5. GoesOn(t)
    BY <1>2, SizeFacts DEF GoesOn
  <1>6. OutReady(t)
    BY <1>1, <1>2, <1>3, <1>4, <1>5, SizeFacts DEF OutReady, TestTypes
  <1> QED
    BY <1>1, <1>6, OutStep

(* The next size outward. *)
LEMMA MtuOutStep == ASSUME SearchInv, MtuOutWaitEnds PROVE SearchInv'
  <1> DEFINE t == Narrowed(sk.finished)
  <1>1. /\ SearchTypes /\ spc = "mtuOut" /\ spc \in Waits /\ UNCHANGED link /\ sk.index + 1 \in Nat
        /\ InFound /\ OutSearch /\ test \in TestTypes
    BY SearchNumbers DEF MtuOutWaitEnds, SearchInv, SearchTypes, SkTypes, Waits
  <1>2. CASE SendsOutPing(test, sk.index + 1) /\ UNCHANGED <<missed, result>>
    <2>1. OutReady(test) /\ GoesOn(test)
      BY <1>1, <1>2 DEF OutSearch, OutReady
    <2> QED
      BY <1>1, <1>2, <2>1, OutPingStep
  <1>3. CASE GivenUp("out", test.cur <= link.out) /\ SearchesOutward(t)
    <2>1. /\ t \in TestTypes /\ t.min <= link.out
          /\ GoesOn(t) => /\ t.min < t.cur /\ t.cur < t.max
                          /\ "out" \notin missed' => link.out < t.max \/ (t.max = MtuMax /\ result.in # MtuMax)
          /\ ~GoesOn(t) =>
               ("out" \notin missed' => t.min = Smaller(link.out, IF result.in = MtuMax THEN MtuMax ELSE MtuMax - 1))
      BY <1>1, <1>3, OutNarrows
    <2>2. missed' = missed \/ missed' = missed \cup {"out"}
      BY <1>3 DEF GivenUp
    <2> HIDE DEF t
    <2>3. t.min \in Nat /\ t.cur \in Nat /\ t.max \in Nat /\ t.max <= MtuMax /\ MtuMax \in Nat
      BY <2>1, SizeFacts DEF TestTypes, Sizes
    <2>4. OutReady(t)
      BY <2>1, <2>3 DEF OutReady
    <2> QED
      BY <1>1, <1>3, <2>2, <2>4, OutStep
  <1> QED
    BY <1>2, <1>3 DEF MtuOutWaitEnds

(* The ways out, and what the Takion thread does meanwhile. *)
LEMMA OtherStep ==
  ASSUME SearchInv,
         \/ FinalWaitEnds \/ WaitFails \/ Closes \/ TakionConnects \/ TakionEnds
         \/ \E a \in answers : AnswerArrives(a)
         \/ UNCHANGED senkushaVars
  PROVE  SearchInv'
  <1>1. SearchTypes /\ sk \in SkTypes /\ result \in ResultTypes
    BY DEF SearchInv, SearchTypes
  <1>2. CASE FinalWaitEnds
    <2>1. result' \in ResultTypes /\ result'.in = result.in /\ result'.out = result.out /\ spc' = "close"
      BY <1>1, <1>2 DEF FinalWaitEnds, Leaves, ResultTypes
    <2>2. SearchTypes' /\ InFound' /\ OutFound'
      BY <1>1, <1>2, <2>1 DEF FinalWaitEnds, SearchInv, SearchTypes, InFound, OutFound
    <2> QED
      BY <2>1, <2>2 DEF SearchInv
  <1>3. CASE WaitFails
    <2>1. result' \in ResultTypes /\ result'.err # "success" /\ spc' = "close"
      BY <1>1, <1>3 DEF WaitFails, Leaves, ResultTypes
    <2>2. SearchTypes'
      BY <1>1, <1>3, <2>1 DEF WaitFails, SearchTypes
    <2> QED
      BY <2>1, <2>2 DEF SearchInv
  <1>4. CASE Closes
    <2>1. spc' = "done" /\ UNCHANGED <<sk, test, answers, link, missed, result>>
      BY <1>4 DEF Closes
    <2>2. SearchTypes' /\ (InFound => InFound') /\ (OutFound => OutFound')
      BY <1>1, <2>1 DEF SearchTypes, InFound, OutFound
    <2> QED
      BY <2>1, <2>2 DEF SearchInv
  <1>5. ASSUME UNCHANGED <<spc, test, answers, link, missed, result>>, sk' \in SkTypes, sk'.state = sk.state,
               sk.state \in {"MTU", "PONG"} => (sk'.finished => sk.finished \/ \E a \in answers : a.kind = sk.state /\ a.fresh)
        PROVE  SearchInv'
    <2>1. SearchTypes' /\ (InFound => InFound') /\ (OutFound => OutFound')
      BY <1>1, <1>5 DEF SearchTypes, InFound, OutFound
    <2>2. InSearch => InSearch'
      BY <1>5 DEF InSearch, OnlyPassing
    <2>3. OutSearch => OutSearch'
      BY <1>5 DEF OutSearch, OnlyPassing, GoesOn
    <2> QED
      BY <1>5, <2>1, <2>2, <2>3 DEF SearchInv
  <1>6. CASE TakionConnects
    <2>1. sk' = [sk EXCEPT !.finished = @ \/ sk.state = "TAKION_CONNECT"]
          /\ UNCHANGED <<spc, test, answers, link, missed, result>>
      BY <1>6 DEF TakionConnects
    <2>2. sk.finished \in BOOLEAN
      BY <1>1 DEF SkTypes
    <2>3. sk' \in SkTypes /\ sk'.state = sk.state /\ sk'.finished = (sk.finished \/ sk.state = "TAKION_CONNECT")
      BY <1>1, <2>1, <2>2 DEF SkTypes
    <2> QED
      BY <1>5, <2>1, <2>3
  <1>7. CASE TakionEnds
    <2>1. sk' = [sk EXCEPT !.finished = @ /\ sk.state # "TAKION_CONNECT"]
          /\ UNCHANGED <<spc, test, answers, link, missed, result>>
      BY <1>7 DEF TakionEnds
    <2>2. sk.finished \in BOOLEAN
      BY <1>1 DEF SkTypes
    <2>3. sk' \in SkTypes /\ sk'.state = sk.state /\ sk'.finished = (sk.finished /\ sk.state # "TAKION_CONNECT")
      BY <1>1, <2>1, <2>2 DEF SkTypes
    <2> QED
      BY <1>5, <2>1, <2>3
  <1>8. ASSUME NEW a \in answers, AnswerArrives(a) PROVE SearchInv'
    <2>1. /\ sk' = [sk EXCEPT !.finished = TRUE] /\ UNCHANGED <<spc, test, answers, link, missed, result>>
          /\ a.kind = sk.state /\ a.fresh
      BY <1>8 DEF AnswerArrives, IsAwaited
    <2>2. sk' \in SkTypes /\ sk'.state = sk.state
      BY <1>1, <2>1 DEF SkTypes
    <2> QED
      BY <1>5, <2>1, <2>2
  <1>9. CASE UNCHANGED senkushaVars
    BY <1>1, <1>5, <1>9 DEF senkushaVars
  <1> QED
    BY <1>2, <1>3, <1>4, <1>6, <1>7, <1>8, <1>9

(* The packet sizes of a successful run are the ones that pass, whatever answers *)
(* are lost, late or repeated, for every range of sizes and number of attempts.  *)
THEOREM MtuAlwaysPasses == SenkushaSpec => []MtuIsWhatTheLinkPasses
  <1>1. SearchInv /\ [SenkushaNext]_senkushaVars => SearchInv'
    BY BeginStep, MtuInStep, ClientMtuStep, MtuOutStep, OtherStep DEF SenkushaNext, RunNext
  <1>2. SearchInv => MtuIsWhatTheLinkPasses
    BY DEF SearchInv, MtuIsWhatTheLinkPasses, InFound, OutFound
  <1> QED
    BY <1>1, <1>2, InvInit, PTL DEF SenkushaSpec

-----------------------------------------------------------------------------
(***************************************************************************)
(* Of the client of the acknowledgements: a pass takes out what was        *)
(* acknowledged and leaves the others in their order.                      *)
(***************************************************************************)

(* The array holds packets of the type the pass needs. *)
ArrayPackets == [seq : Nums!SeqNums \union {0}]
ArrayIsRight ==
  ackBuffer.slots \in [0 .. AckSize - 1 -> ArrayPackets] /\ ackBuffer.count \in 0 .. AckSize

Firsts(d, k) == {d[j] : j \in 0 .. k - 1}
Differ(d, m) == \A i, j \in 0 .. m - 1 : i < j => d[i] # d[j]

(* The first k of an increasing sequence of numbers are k numbers. *)
LEMMA FirstOnes ==
  ASSUME NEW m \in Nat, NEW d, Differ(d, m), NEW k \in 0 .. m
  PROVE  IsFiniteSet(Firsts(d, k)) /\ Cardinality(Firsts(d, k)) = k
  <1> DEFINE T == {d[j] : j \in 0 .. k - 1}
             f == [j \in 0 .. k - 1 |-> d[j]]
  <1>1. k \in Nat /\ \A j \in 0 .. k - 1 : j \in 0 .. m - 1
    OBVIOUS
  <1>2. \A i, j \in 0 .. k - 1 : f[i] = f[j] => i = j
    <2>1. \A i, j \in 0 .. k - 1 : i < j \/ j < i \/ i = j
      OBVIOUS
    <2> QED
      BY <1>1, <2>1 DEF Differ
  <1>3. f \in Bijection(0 .. k - 1, T)
    BY <1>2 DEF Bijection, Injection, Surjection, IsInjective
  <1>4. ExistsBijection(0 .. k - 1, T)
    BY <1>3 DEF ExistsBijection
  <1>5. IsFiniteSet(0 .. k - 1) /\ Cardinality(0 .. k - 1) = k
    <2>1. 0 \in Int /\ k - 1 \in Int
      BY <1>1
    <2>2. IsFiniteSet(0 .. k - 1) /\ Cardinality(0 .. k - 1) = IF 0 > k - 1 THEN 0 ELSE (k - 1) - 0 + 1
      BY <2>1, FS_Interval
    <2> QED
      BY <1>1, <2>2
  <1> HIDE DEF T, f
  <1>6. IsFiniteSet(T) /\ Cardinality(T) = k
    BY <1>4, <1>5, FS_Bijection
  <1> QED
    BY <1>6 DEF T, Firsts

(* What is compacted is the sequence of what is kept. *)
LEMMA CompactedIsKept ==
  ASSUME NEW size \in Nat, NEW R, NEW a, NEW d, NEW b, NEW s, b.count \in 0 .. size,
         Compacted(a, d, b, s, size, R)
  PROVE  Packets(a) = Kept(b, s)
  <1> DEFINE left == {i \in 0 .. b.count - 1 : ~Acked(b.slots[i].seq, s)}
             before(i) == {j \in left : j < i}
             nth(n) == CHOOSE i \in left : Cardinality(before(i)) = n - 1
             m == a.count
  <1>1. /\ m \in Nat /\ m \in 0 .. m /\ d \in [0 .. m - 1 -> 0 .. b.count - 1]
        /\ \A i, j \in 0 .. m - 1 : i < j => d[i] < d[j]
        /\ left = {d[i] : i \in 0 .. m - 1}
        /\ \A j \in 0 .. m - 1 : a.slots[j] = b.slots[d[j]]
    BY DEF Compacted, Chooses, Kepts
  <1>2. \A i \in 0 .. m - 1 : d[i] \in Int
    BY <1>1
  <1>3. Differ(d, m)
    BY <1>1, <1>2 DEF Differ
  <1> HIDE DEF m, left
  <1>4. Cardinality(left) = m
    <2>1. left = Firsts(d, m)
      BY <1>1 DEF Firsts
    <2>2. m \in Nat /\ m \in 0 .. m
      BY <1>1
    <2>3. Cardinality(Firsts(d, m)) = m
      BY <1>3, <2>2, FirstOnes
    <2> QED
      BY <2>1, <2>3
  <1>5. ASSUME NEW k \in 0 .. m - 1
        PROVE  Cardinality(before(d[k])) = k
    <2>1. k \in 0 .. m /\ \A j \in 0 .. k - 1 : j \in 0 .. m - 1 /\ j < k
      BY <1>1
    <2>2. \A j \in 0 .. m - 1 : d[j] < d[k] => j \in 0 .. k - 1
      <3>1. \A j \in 0 .. m - 1 : j \in 0 .. k - 1 \/ j = k \/ k < j
        BY <1>1
      <3> QED
        BY <1>1, <1>2, <3>1
    <2>3. before(d[k]) = Firsts(d, k)
      BY <1>1, <2>1, <2>2 DEF Firsts
    <2> HIDE DEF before
    <2> QED
      BY <1>1, <1>3, <2>1, <2>3, FirstOnes
  <1>6. ASSUME NEW n \in 1 .. m
        PROVE  nth(n) = d[n - 1]
    <2>1. n - 1 \in 0 .. m - 1
      BY <1>1
    <2>2. d[n - 1] \in left /\ Cardinality(before(d[n - 1])) = n - 1
      BY <1>1, <1>5, <2>1
    <2>3. \A i \in left : Cardinality(before(i)) = n - 1 => i = d[n - 1]
      <3>1. ASSUME NEW i \in left, Cardinality(before(i)) = n - 1 PROVE i = d[n - 1]
        <4>1. PICK k \in 0 .. m - 1 : i = d[k]
          BY <1>1
        <4>2. Cardinality(before(d[k])) = k
          BY <1>5
        <4> HIDE DEF before
        <4> QED
          BY <3>1, <4>1, <4>2
      <3> QED
        BY <3>1
    <2> HIDE DEF before
    <2> QED
      BY <2>2, <2>3
  <1>7. Packets(a) = [n \in 1 .. m |-> a.slots[n - 1]]
    BY DEF Packets, m
  <1>8. Kept(b, s) = [n \in 1 .. m |-> b.slots[nth(n)]]
    BY <1>4 DEF Kept, left
  <1>9. \A n \in 1 .. m : a.slots[n - 1] = b.slots[nth(n)]
    <2>1. \A n \in 1 .. m : n - 1 \in 0 .. m - 1
      BY <1>1
    <2> HIDE DEF nth
    <2> QED
      BY <1>1, <1>6, <2>1
  <1> HIDE DEF nth
  <1> QED
    BY <1>7, <1>8, <1>9

(* An acknowledgement leaves packets, and in their order. *)
LEMMA AckStepIsRight ==
  ASSUME ArrayIsRight, NEW s, Acknowledges(s)
  PROVE  ArrayIsRight' /\ Packets(ackBuffer') = Kept(ackBuffer, s)
  <1>1. AckSize \in Nat /\ AckHalf \in Nat \ {0}
    BY AckClientAssumption, AckAssumption
  <1>2. \E d : Compacted(RemoveAcked(ackBuffer, s), d, ackBuffer, s, AckSize, ArrayPackets)
    BY <1>1, RemoveAckedCompacts DEF ArrayIsRight
  <1>3. PICK d : Compacted(ackBuffer', d, ackBuffer, s, AckSize, ArrayPackets)
    BY <1>2 DEF Acknowledges
  <1>4. Packets(ackBuffer') = Kept(ackBuffer, s)
    BY <1>1, <1>3, CompactedIsKept DEF ArrayIsRight
  <1>5. ArrayIsRight'
    BY <1>1, <1>3 DEF Compacted, ArrayIsRight
  <1> QED
    BY <1>4, <1>5

(* The pass with its memmoves keeps exactly the packets that are not        *)
(* acknowledged, in their order, for arrays of any length and content.      *)
THEOREM AckKeepsTheOthers == AckInit /\ [][AckNext]_ackBuffer => AckKeepsTheOthersInOrder
  <1>1. AckInit => ArrayIsRight
    <2> SUFFICES ASSUME AckInit PROVE ArrayIsRight
      OBVIOUS
    <2>1. PICK o \in Orders : ackBuffer = [slots |-> Array(o), count |-> Cardinality(DOMAIN o)]
      BY DEF AckInit
    <2>2. PICK n \in 0 .. AckSize : o \in [0 .. n - 1 -> AckNumbers]
      BY <2>1 DEF Orders
    <2>3. Cardinality(DOMAIN o) = n
      <3>1. 0 \in Int /\ n - 1 \in Int /\ n \in Nat
        BY AckClientAssumption
      <3>2. Cardinality(0 .. n - 1) = IF 0 > n - 1 THEN 0 ELSE (n - 1) - 0 + 1
        BY <3>1, FS_Interval
      <3>3. Cardinality(0 .. n - 1) = n
        BY <3>1, <3>2
      <3> QED
        BY <2>2, <3>3
    <2>4. Array(o) \in [0 .. AckSize - 1 -> ArrayPackets]
      BY <2>2, AckClientAssumption DEF Array, ArrayPackets
    <2> QED
      BY <2>1, <2>3, <2>4 DEF ArrayIsRight
  <1>2. ArrayIsRight /\ [AckNext]_ackBuffer => ArrayIsRight'
    BY AckStepIsRight DEF AckNext, ArrayIsRight
  <1>3. ArrayIsRight /\ [AckNext]_ackBuffer =>
          [ackBuffer.count > 0 =>
             \A s \in AckNumbers : Acknowledges(s) => Packets(ackBuffer') = Kept(ackBuffer, s)]_ackBuffer
    BY AckStepIsRight
  <1> QED
    BY <1>1, <1>2, <1>3, PTL DEF AckKeepsTheOthersInOrder

-----------------------------------------------------------------------------
(***************************************************************************)
(* No message that was accepted is lost from the buffer of the reliable    *)
(* UDP messages before the other side has it or the tries are used up.     *)
(***************************************************************************)

RudpSerial == INSTANCE SeqNumProofs WITH SeqHalf <- RudpHalf
RingCompaction == INSTANCE AckCompactionProofs WITH AckHalf <- RudpHalf

(* The number of the n-th message; a message is kept under the number of a *)
(* later one.                                                              *)
Nth(n) == Later(FirstCounter, n)
KeptUnder(msg, key) ==
  \E m \in 0 .. MaxMessages, k \in 0 .. MaxMessages : m < k /\ msg = Nth(m) /\ key = Nth(k)

CounterIsNext == \E n \in 0 .. MaxMessages : counter = Nth(n)

SendersAreAhead ==
  \A t \in Senders :
    /\ sending[t].at = "counted" => KeptUnder(sending[t].msg, counter)
    /\ sending[t].at \in {"keyed", "sent"} => KeptUnder(sending[t].msg, sending[t].key)
    /\ sending[t].at = "sent" => sending[t].msg \in onWay

StoredAreAhead ==
  \A i \in 0 .. kept.count - 1 :
    KeptUnder(kept.slots[i].msg, kept.slots[i].seq) /\ kept.slots[i].msg \in onWay

(* The two parts of the buffer; the numbers the messages have. *)
KeptTyped ==
  /\ kept = [slots |-> kept.slots, count |-> kept.count] /\ kept.count \in 0 .. RudpSize
  /\ kept.slots \in [0 .. RudpSize - 1 -> [seq : Counters, msg : Counters, tries : 0 .. RudpTries]]
OthersTyped ==
  /\ counter \in Counters
  /\ sending \in [Senders -> [at : {"idle", "counted", "keyed", "sent"}, msg : Counters, key : Counters]]
  /\ giving \in [at : {"no", "read", "ack"}, slot : 0 .. RudpSize - 1, key : Counters]
  /\ reached \subseteq onWay /\ onWay \subseteq MessageCounters
  /\ sentOk \subseteq onWay /\ givenUp \subseteq onWay

RudpInv ==
  /\ KeptTyped /\ OthersTyped /\ CounterIsNext /\ SendersAreAhead /\ StoredAreAhead
  /\ AcceptedMessagesAreKept

-----------------------------------------------------------------------------
RudpPackets == [seq : Counters, msg : Counters, tries : 0 .. RudpTries]

(* The counter of RUDP is a serial number. *)
LEMMA CounterFacts ==
  /\ RudpHalf \in Nat \ {0} /\ RudpSize \in Nat \ {0} /\ RudpTries \in Nat /\ MaxMessages \in Nat
  /\ FirstCounter \in RudpSerial!SeqNums /\ MaxMessages < RudpHalf
  /\ Counters = RudpSerial!SeqNums /\ RudpSerial!SeqMod = 2 * RudpHalf /\ RudpSerial!SeqMod \in Nat
  /\ \A c, n : Later(c, n) = RudpSerial!SeqAdd(c, n)
  BY RudpAssumption DEF Counters, Later, RudpSerial!SeqNums, RudpSerial!SeqMod, RudpSerial!SeqAdd

(* The numbers of the messages are as far apart as the messages. *)
LEMMA NthFacts ==
  ASSUME NEW n \in 0 .. MaxMessages
  PROVE  Nth(n) \in Counters /\ RudpSerial!SeqDist(FirstCounter, Nth(n)) = n
  <1>1. n \in 0 .. RudpSerial!SeqMod - 1 /\ n \in 0 .. RudpSerial!SeqMod
    BY CounterFacts
  <1> QED
    BY <1>1, CounterFacts, RudpAssumption, RudpSerial!AddType, RudpSerial!DistOfAdd DEF Nth

(* No two messages have one number, and one follows the other. *)
LEMMA NthDiffer ==
  ASSUME NEW n \in 0 .. MaxMessages, NEW k \in 0 .. MaxMessages, Nth(n) = Nth(k)
  PROVE  n = k
  BY NthFacts

(* The number after that of a message is that of the next. *)
LEMMA NthIsFollowed ==
  ASSUME NEW n \in 0 .. MaxMessages, n < MaxMessages
  PROVE  Later(Nth(n), 1) = Nth(n + 1)
  <1>1. n \in Nat /\ 1 \in Nat /\ n + 1 <= RudpSerial!SeqMod
    BY CounterFacts
  <1> QED
    BY <1>1, CounterFacts, RudpAssumption, RudpSerial!AddTwice DEF Nth

(* What is acknowledged up to n is not after n. *)
LEMMA AckedIsNotLater ==
  ASSUME NEW k \in 0 .. MaxMessages, NEW n \in 0 .. MaxMessages,
         RingCompaction!Acked(Nth(k), Nth(n))
  PROVE  k <= n
  <1>1. Nth(k) = Nth(n) \/ RudpSerial!SeqLt(Nth(k), Nth(n))
    BY DEF RingCompaction!Acked, RingCompaction!Nums!SeqLt, RudpSerial!SeqLt
  <1>2. CASE Nth(k) = Nth(n)
    BY <1>2, NthDiffer
  <1>3. CASE RudpSerial!SeqLt(Nth(k), Nth(n))
    <2> DEFINE e == RudpSerial!SeqDist(Nth(k), Nth(n))
    <2>1. e \in 1 .. RudpHalf - 1
      BY <1>3, NthFacts, CounterFacts, RudpAssumption, RudpSerial!LtByDist
    <2>2. /\ Nth(k) \in RudpSerial!SeqNums /\ Nth(n) \in RudpSerial!SeqNums
          /\ RudpSerial!SeqDist(FirstCounter, Nth(k)) = k /\ RudpSerial!SeqDist(FirstCounter, Nth(n)) = n
          /\ FirstCounter \in RudpSerial!SeqNums
      BY NthFacts, CounterFacts
    <2>3. e = IF RudpSerial!SeqDist(FirstCounter, Nth(k)) <= RudpSerial!SeqDist(FirstCounter, Nth(n))
                THEN RudpSerial!SeqDist(FirstCounter, Nth(n)) - RudpSerial!SeqDist(FirstCounter, Nth(k))
                ELSE RudpSerial!SeqDist(FirstCounter, Nth(n)) - RudpSerial!SeqDist(FirstCounter, Nth(k))
                       + RudpSerial!SeqMod
      BY ONLY <2>2, RudpAssumption, RudpSerial!DistSplit
    <2>4. e = IF k <= n THEN n - k ELSE n - k + RudpSerial!SeqMod
      BY <2>2, <2>3
    <2> HIDE DEF e
    <2> QED
      BY <2>1, <2>4, CounterFacts
  <1> QED
    BY <1>1, <1>2, <1>3

(* What an acknowledgement leaves of the buffer. *)
LEMMA RudpAckLeaves ==
  ASSUME KeptTyped, NEW s, kept' = Ring!RemoveAcked(kept, s)
  PROVE  /\ KeptTyped' /\ kept'.count \in 0 .. kept.count
         /\ \A j \in 0 .. kept'.count - 1 : \E i \in 0 .. kept.count - 1 : kept'.slots[j] = kept.slots[i]
         /\ \A i \in 0 .. kept.count - 1 :
              ~RingCompaction!Acked(kept.slots[i].seq, s) =>
                \E j \in 0 .. kept'.count - 1 : kept'.slots[j] = kept.slots[i]
  <1>1. kept' = RingCompaction!RemoveAcked(kept, s)
    BY DEF Ring!RemoveAcked, Ring!AckLoop, Ring!AckStep, Ring!MemMove, Ring!Acked, Ring!Nums!SeqLt,
           RingCompaction!RemoveAcked, RingCompaction!AckLoop, RingCompaction!AckStep,
           RingCompaction!MemMove, RingCompaction!Acked, RingCompaction!Nums!SeqLt
  <1>2. RudpSize \in Nat /\ kept.slots \in [0 .. RudpSize - 1 -> RudpPackets] /\ kept.count \in 0 .. RudpSize
    BY CounterFacts DEF KeptTyped, RudpPackets
  <1>3. /\ kept' = [slots |-> kept'.slots, count |-> kept'.count]
        /\ kept'.slots \in [0 .. RudpSize - 1 -> RudpPackets] /\ kept'.count \in 0 .. kept.count
        /\ \A j \in 0 .. kept'.count - 1 : \E i \in 0 .. kept.count - 1 : kept'.slots[j] = kept.slots[i]
        /\ \A i \in 0 .. kept.count - 1 :
             ~RingCompaction!Acked(kept.slots[i].seq, s) =>
               \E j \in 0 .. kept'.count - 1 : kept'.slots[j] = kept.slots[i]
    <2> DEFINE a == RingCompaction!RemoveAcked(kept, s)
    <2>1. RudpHalf \in Nat \ {0}
      BY CounterFacts
    <2>2. RingCompaction!OnlyAckedGo(a, kept, s, RudpSize, RudpPackets)
      BY <1>2, <2>1, CounterFacts, RingCompaction!RemoveAckedLeaves
    <2> HIDE DEF a
    <2>3. /\ a = [slots |-> a.slots, count |-> a.count]
          /\ a.slots \in [0 .. RudpSize - 1 -> RudpPackets] /\ a.count \in 0 .. kept.count
          /\ \A j \in 0 .. a.count - 1 : \E i \in 0 .. kept.count - 1 : a.slots[j] = kept.slots[i]
          /\ \A i \in 0 .. kept.count - 1 :
               ~RingCompaction!Acked(kept.slots[i].seq, s) =>
                 \E j \in 0 .. a.count - 1 : a.slots[j] = kept.slots[i]
      BY <2>2 DEF RingCompaction!OnlyAckedGo
    <2>4. kept' = a
      BY <1>1 DEF a
    <2> QED
      BY <2>3, <2>4
  <1>4. kept'.count \in 0 .. RudpSize
    BY <1>2, <1>3
  <1> QED
    BY <1>3, <1>4 DEF KeptTyped, RudpPackets
-----------------------------------------------------------------------------
(* Nothing is sent yet. *)
LEMMA RudpBegins == ASSUME RudpInit PROVE RudpInv
  <1> USE RudpAssumption DEF RudpInit
  <1>1. 0 \in Counters /\ FirstCounter \in Counters /\ 0 \in 0 .. RudpSize - 1 /\ 0 \in 0 .. RudpTries
        /\ 0 \in 0 .. RudpSize /\ 0 \in 0 .. MaxMessages
    BY DEF Counters
  <1>2. KeptTyped
    <2>1. EmptySlot \in RudpPackets
      BY <1>1 DEF EmptySlot, RudpPackets
    <2>2. kept.slots = [i \in 0 .. RudpSize - 1 |-> EmptySlot] /\ kept.count = 0
          /\ kept = [slots |-> kept.slots, count |-> kept.count]
      OBVIOUS
    <2> QED
      BY <1>1, <2>1, <2>2 DEF KeptTyped, RudpPackets
  <1>3. OthersTyped
    BY <1>1 DEF OthersTyped
  <1>4. CounterIsNext
    <2>1. FirstCounter = Nth(0)
      BY DEF Nth, Later
    <2> QED
      BY <1>1, <2>1 DEF CounterIsNext
  <1>5. SendersAreAhead /\ StoredAreAhead /\ AcceptedMessagesAreKept
    BY DEF SendersAreAhead, StoredAreAhead, AcceptedMessagesAreKept
  <1> QED
    BY <1>2, <1>3, <1>4, <1>5 DEF RudpInv

(* A thread takes its counter; what another has taken stays behind. *)
LEMMA TakesCounterKeeps ==
  ASSUME RudpInv, NEW t \in Senders, TakesCounter(t)
  PROVE  RudpInv'
  <1> USE DEF RudpInv, TakesCounter
  <1>1. PICK n \in 0 .. MaxMessages : counter = Nth(n)
    BY DEF CounterIsNext
  <1>2. n < MaxMessages
    <2>1. PICK k \in 0 .. MaxMessages - 1 : counter = Nth(k)
      BY DEF MessageCounters, Nth
    <2>2. k \in 0 .. MaxMessages /\ k < MaxMessages
      BY CounterFacts
    <2> QED
      BY <1>1, <2>1, <2>2, NthDiffer
  <1>3. n + 1 \in 0 .. MaxMessages /\ n < n + 1
    BY <1>2, CounterFacts
  <1>4. counter' = Nth(n + 1)
    BY <1>1, <1>2, NthIsFollowed
  <1>5. counter' \in Counters /\ 0 \in Counters
    BY <1>3, <1>4, NthFacts, RudpAssumption DEF Counters
  <1>6. OthersTyped'
    BY <1>5 DEF OthersTyped
  <1>7. KeptUnder(counter, counter')
    BY <1>1, <1>3, <1>4 DEF KeptUnder
  <1>8. ASSUME NEW msg, KeptUnder(msg, counter) PROVE KeptUnder(msg, counter')
    <2>1. PICK m \in 0 .. MaxMessages, k \in 0 .. MaxMessages : m < k /\ msg = Nth(m) /\ counter = Nth(k)
      BY <1>8 DEF KeptUnder
    <2>2. k = n
      BY <1>1, <2>1, NthDiffer
    <2>3. m < n + 1
      BY <2>1, <2>2, CounterFacts
    <2> QED
      BY <1>3, <1>4, <2>1, <2>3 DEF KeptUnder
  <1>9. SendersAreAhead'
    BY <1>7, <1>8 DEF SendersAreAhead, OthersTyped
  <1> QED
    BY <1>1, <1>3, <1>4, <1>6, <1>9
    DEF KeptTyped, CounterIsNext, StoredAreAhead, AcceptedMessagesAreKept, Messages

(* It reads the counter again, and sends. *)
LEMMA SendingKeeps ==
  ASSUME RudpInv, NEW t \in Senders, ReadsKey(t) \/ SendsRaw(t)
  PROVE  RudpInv'
  <1> USE DEF RudpInv
  <1>1. CASE ReadsKey(t)
    <2> USE <1>1 DEF ReadsKey, Key
    <2>1. OthersTyped'
      BY DEF OthersTyped
    <2>2. SendersAreAhead'
      BY DEF SendersAreAhead, OthersTyped
    <2> QED
      BY <2>1, <2>2 DEF KeptTyped, CounterIsNext, StoredAreAhead, AcceptedMessagesAreKept, Messages
  <1>2. CASE SendsRaw(t)
    <2> USE <1>2 DEF SendsRaw
    <2>1. sending[t].msg \in MessageCounters
      <3>1. PICK m \in 0 .. MaxMessages, k \in 0 .. MaxMessages : m < k /\ sending[t].msg = Nth(m)
        BY DEF SendersAreAhead, KeptUnder
      <3>2. m \in 0 .. MaxMessages - 1
        BY <3>1, CounterFacts
      <3> QED
        BY <3>1, <3>2 DEF MessageCounters, Nth
    <2>2. onWay \subseteq onWay' /\ onWay' \subseteq MessageCounters
      BY <2>1 DEF OthersTyped
    <2>3. OthersTyped'
      BY <2>2 DEF OthersTyped
    <2>4. SendersAreAhead'
      BY <2>2 DEF SendersAreAhead, OthersTyped
    <2> QED
      BY <2>2, <2>3, <2>4 DEF KeptTyped, CounterIsNext, StoredAreAhead, AcceptedMessagesAreKept, Messages
  <1> QED
    BY <1>1, <1>2

(* It keeps its message, or is refused. *)
LEMMA KeepsKeeps ==
  ASSUME RudpInv, NEW t \in Senders, Keeps(t)
  PROVE  RudpInv'
  <1> USE DEF RudpInv
  <1>1. sending[t].at = "sent" /\ sending' = [sending EXCEPT ![t].at = "idle"]
        /\ UNCHANGED <<counter, giving, reached, onWay, givenUp>>
    BY DEF Keeps
  <1>2. SendersAreAhead'
    BY <1>1 DEF SendersAreAhead, OthersTyped
  <1>3. KeptUnder(sending[t].msg, sending[t].key) /\ sending[t].msg \in onWay
        /\ sending[t].msg \in Counters /\ sending[t].key \in Counters
    BY <1>1 DEF SendersAreAhead, OthersTyped
  <1>4. CASE UNCHANGED <<kept, sentOk>>
    BY <1>1, <1>2, <1>4 DEF KeptTyped, OthersTyped, CounterIsNext, StoredAreAhead, AcceptedMessagesAreKept, Messages
  <1>5. CASE ~UNCHANGED <<kept, sentOk>>
    <2> DEFINE packet == [seq |-> sending[t].key, msg |-> sending[t].msg, tries |-> 0]
    <2>1. /\ kept.count < RudpSize
          /\ kept' = [slots |-> [kept.slots EXCEPT ![kept.count] = packet], count |-> kept.count + 1]
          /\ sentOk' = sentOk \union {sending[t].msg}
      BY <1>5, CounterFacts DEF Keeps, KeptTyped
    <2>2. packet \in RudpPackets
      BY <1>3, CounterFacts DEF RudpPackets
    <2>3. packet.seq = sending[t].key /\ packet.msg = sending[t].msg
      OBVIOUS
    <2> HIDE DEF packet
    <2>4. /\ kept.count \in 0 .. RudpSize - 1 /\ kept.count + 1 \in 0 .. RudpSize /\ kept.count \in Nat
          /\ kept.count \in 0 .. kept.count + 1 - 1
          /\ \A i \in 0 .. kept.count + 1 - 1 : i = kept.count \/ i \in 0 .. kept.count - 1
          /\ \A i \in 0 .. kept.count - 1 : i # kept.count /\ i \in 0 .. kept.count + 1 - 1
                                             /\ i \in 0 .. RudpSize - 1
      BY <2>1, CounterFacts, SMTT(30) DEF KeptTyped
    <2>5. kept.slots \in [0 .. RudpSize - 1 -> RudpPackets]
      BY DEF KeptTyped, RudpPackets
    <2>6. /\ kept'.slots \in [0 .. RudpSize - 1 -> RudpPackets]
          /\ kept'.slots[kept.count] = packet
          /\ \A i \in 0 .. kept.count - 1 : kept'.slots[i] = kept.slots[i]
          /\ kept' = [slots |-> kept'.slots, count |-> kept'.count] /\ kept'.count = kept.count + 1
      BY <2>1, <2>2, <2>4, <2>5
    <2>7. KeptTyped'
      BY <2>4, <2>6 DEF KeptTyped, RudpPackets
    <2>8. StoredAreAhead'
      BY <1>1, <1>3, <2>3, <2>4, <2>6 DEF StoredAreAhead
    <2>9. Messages(kept) \union {sending[t].msg} \subseteq Messages(kept')
      BY <2>3, <2>4, <2>6 DEF Messages
    <2> QED
      BY <1>1, <1>2, <1>3, <2>1, <2>7, <2>8, <2>9 DEF OthersTyped, CounterIsNext, AcceptedMessagesAreKept
  <1> QED
    BY <1>4, <1>5

(* The resend thread counts a try, or begins to give up. *)
LEMMA ResendsKeeps ==
  ASSUME RudpInv, Resends \/ GiveUpReads
  PROVE  RudpInv'
  <1> USE DEF RudpInv
  <1>1. UNCHANGED <<counter, sending, reached, sentOk, onWay, givenUp>>
    BY DEF Resends, GiveUpReads
  <1>2. SendersAreAhead' /\ CounterIsNext'
    BY <1>1 DEF SendersAreAhead, CounterIsNext
  <1>3. \A i \in 0 .. kept.count - 1 : i \in 0 .. RudpSize - 1
    BY CounterFacts DEF KeptTyped
  <1>4. 0 \in Counters
    BY RudpAssumption DEF Counters
  <1>5. CASE UNCHANGED kept
    <2>1. giving' \in [at : {"no", "read", "ack"}, slot : 0 .. RudpSize - 1, key : Counters]
      <3>1. kept.slots[giving.slot].seq \in Counters
        BY DEF KeptTyped, OthersTyped
      <3>2. CASE GiveUpReads
        BY <3>1, <3>2 DEF GiveUpReads, OthersTyped
      <3>3. CASE Resends /\ ~UNCHANGED giving
        <4>1. PICK i \in 0 .. kept.count - 1 : giving' = [at |-> "read", slot |-> i, key |-> 0]
          BY <3>3 DEF Resends
        <4> QED
          BY <1>3, <1>4, <4>1
      <3> QED
        BY <3>2, <3>3 DEF OthersTyped
    <2> QED
      BY <1>1, <1>2, <1>5, <2>1 DEF KeptTyped, OthersTyped, StoredAreAhead, AcceptedMessagesAreKept, Messages
  <1>6. CASE ~UNCHANGED kept
    <2>1. PICK i \in 0 .. kept.count - 1 :
             kept.slots[i].tries < RudpTries /\ kept' = [kept EXCEPT !.slots[i].tries = @ + 1]
      BY <1>6 DEF Resends, GiveUpReads
    <2>2. UNCHANGED giving
      BY <1>6 DEF Resends, GiveUpReads
    <2> DEFINE p == [kept.slots[i] EXCEPT !.tries = @ + 1]
    <2>3. kept.slots \in [0 .. RudpSize - 1 -> RudpPackets] /\ i \in 0 .. RudpSize - 1
      BY <1>3 DEF KeptTyped, RudpPackets
    <2>4. kept.slots[i] \in RudpPackets
      BY <2>3
    <2>5. p \in RudpPackets /\ p.seq = kept.slots[i].seq /\ p.msg = kept.slots[i].msg
      BY <2>1, <2>4, CounterFacts DEF RudpPackets
    <2>6. kept' = [slots |-> [kept.slots EXCEPT ![i] = p], count |-> kept.count]
      BY <2>1, <2>3 DEF KeptTyped
    <2> HIDE DEF p
    <2>7. /\ kept'.slots \in [0 .. RudpSize - 1 -> RudpPackets] /\ kept'.count = kept.count
          /\ \A j \in 0 .. kept.count - 1 :
                kept'.slots[j].seq = kept.slots[j].seq /\ kept'.slots[j].msg = kept.slots[j].msg
      BY <1>3, <2>3, <2>5, <2>6
    <2>8. KeptTyped'
      BY <2>6, <2>7 DEF KeptTyped, RudpPackets
    <2>9. StoredAreAhead' /\ Messages(kept') = Messages(kept)
      BY <1>1, <2>7 DEF StoredAreAhead, Messages
    <2> QED
      BY <1>1, <1>2, <2>2, <2>8, <2>9 DEF OthersTyped, AcceptedMessagesAreKept
  <1> QED
    BY <1>5, <1>6

(* What is given up is counted as given up. *)
LEMMA GiveUpKeeps ==
  ASSUME RudpInv, GiveUpAcks
  PROVE  RudpInv'
  <1> USE DEF RudpInv
  <1>1. /\ giving' = [at |-> "no", slot |-> 0, key |-> 0] /\ kept' = Ring!RemoveAcked(kept, giving.key)
        /\ givenUp' = givenUp \union (Messages(kept) \ Messages(kept'))
        /\ UNCHANGED <<counter, sending, reached, sentOk, onWay>>
    BY DEF GiveUpAcks
  <1>2. /\ KeptTyped' /\ kept'.count \in 0 .. kept.count
        /\ \A j \in 0 .. kept'.count - 1 : \E i \in 0 .. kept.count - 1 : kept'.slots[j] = kept.slots[i]
    BY <1>1, RudpAckLeaves
  <1>3. StoredAreAhead'
    BY <1>1, <1>2 DEF StoredAreAhead
  <1>4. Messages(kept) \subseteq onWay
    BY DEF StoredAreAhead, Messages
  <1>5. 0 \in Counters /\ 0 \in 0 .. RudpSize - 1
    BY RudpAssumption DEF Counters
  <1>6. OthersTyped'
    BY <1>1, <1>4, <1>5 DEF OthersTyped
  <1> QED
    BY <1>1, <1>2, <1>3, <1>6 DEF CounterIsNext, SendersAreAhead, AcceptedMessagesAreKept

(* What the console acknowledges it has: a message is kept under the number *)
(* of a later one.                                                          *)
LEMMA AckArrivesKeeps ==
  ASSUME RudpInv, NEW n \in 1 .. MaxMessages, AckArrives(n)
  PROVE  RudpInv'
  <1> USE DEF RudpInv
  <1>1. /\ Acknowledgeable(n) /\ kept' = Ring!RemoveAcked(kept, Nth(n))
        /\ UNCHANGED <<counter, sending, giving, reached, sentOk, onWay, givenUp>>
    BY DEF AckArrives, Nth
  <1>2. /\ KeptTyped' /\ kept'.count \in 0 .. kept.count
        /\ \A j \in 0 .. kept'.count - 1 : \E i \in 0 .. kept.count - 1 : kept'.slots[j] = kept.slots[i]
        /\ \A i \in 0 .. kept.count - 1 :
             ~RingCompaction!Acked(kept.slots[i].seq, Nth(n)) =>
               \E j \in 0 .. kept'.count - 1 : kept'.slots[j] = kept.slots[i]
    BY <1>1, RudpAckLeaves
  <1>3. StoredAreAhead'
    BY <1>1, <1>2 DEF StoredAreAhead
  <1>4. ASSUME NEW i \in 0 .. kept.count - 1
        PROVE  kept.slots[i].msg \in reached \union Messages(kept')
    <2>1. CASE RingCompaction!Acked(kept.slots[i].seq, Nth(n))
      <3>1. PICK m \in 0 .. MaxMessages, k \in 0 .. MaxMessages :
               m < k /\ kept.slots[i].msg = Nth(m) /\ kept.slots[i].seq = Nth(k)
        BY <1>4 DEF StoredAreAhead, KeptUnder
      <3>2. n \in 0 .. MaxMessages
        BY CounterFacts
      <3>3. k <= n
        BY <2>1, <3>1, <3>2, AckedIsNotLater
      <3>4. m \in 0 .. n - 1
        BY <3>1, <3>2, <3>3, CounterFacts
      <3> QED
        BY <1>1, <3>1, <3>4 DEF Acknowledgeable, Nth
    <2>2. CASE ~RingCompaction!Acked(kept.slots[i].seq, Nth(n))
      <3>1. PICK j \in 0 .. kept'.count - 1 : kept'.slots[j] = kept.slots[i]
        BY <1>2, <1>4, <2>2
      <3> QED
        BY <3>1 DEF Messages
    <2> QED
      BY <2>1, <2>2
  <1>5. Messages(kept) \subseteq reached \union Messages(kept')
    BY <1>4 DEF Messages
  <1> QED
    BY <1>1, <1>2, <1>3, <1>5 DEF OthersTyped, CounterIsNext, SendersAreAhead, AcceptedMessagesAreKept

(* Every step keeps the invariant. *)
LEMMA RudpStep == ASSUME RudpInv, [RudpNext]_rudpVars PROVE RudpInv'
  <1>1. CASE UNCHANGED rudpVars
    BY <1>1 DEF rudpVars, RudpInv, KeptTyped, OthersTyped, CounterIsNext, SendersAreAhead, StoredAreAhead,
                AcceptedMessagesAreKept, Messages
  <1>2. CASE \E c \in MessageCounters : MessageReaches(c)
    BY <1>2 DEF MessageReaches, RudpInv, KeptTyped, OthersTyped, CounterIsNext, SendersAreAhead,
                StoredAreAhead, AcceptedMessagesAreKept, Messages
  <1> QED
    BY <1>1, <1>2, TakesCounterKeeps, SendingKeeps, KeepsKeeps, ResendsKeeps, GiveUpKeeps, AckArrivesKeeps
    DEF RudpNext

(* A message whose sending succeeded is sent again until the console has    *)
(* it, or it is given up, for any number of threads and any width of the    *)
(* counter.                                                                 *)
THEOREM AcceptedMessagesStay == RudpSpec => []AcceptedMessagesAreKept
  <1>1. RudpInv => AcceptedMessagesAreKept
    BY DEF RudpInv
  <1> QED
    BY <1>1, RudpBegins, RudpStep, PTL DEF RudpSpec

-----------------------------------------------------------------------------
(***************************************************************************)
(* Frames of video go out once and in their order, and every gap is        *)
(* reported, for every number of frames and units and every width of the   *)
(* frame index.                                                            *)
(***************************************************************************)

(* Of the receiver and the console's view of it: what the frame index is    *)
(* the index of, and that a frame that was not flushed did not go out.      *)
ReceiverIs(v) == v = [cur |-> v.cur, prev |-> v.prev, complete |-> v.complete, waiting |-> v.waiting, refs |-> v.refs]
StreamIs(s) == s = [n |-> s.n, complete |-> s.complete, out |-> s.out, again |-> s.again, owed |-> s.owed]

InOrder(v, s) ==
  /\ ReceiverIs(v) /\ StreamIs(s)
  /\ s.n \in 0 .. MaxFrame /\ s.complete \in 0 .. s.n /\ s.out \in 0 .. s.n
  /\ v.complete = Index(s.complete)
  /\ IF s.n = 0 THEN v.cur = -1 /\ v.prev = -1
     ELSE v.cur = Index(s.n) /\ (Unflushed(v) => s.out < s.n)
  /\ s.again = FALSE
  /\ s.owed \subseteq {s.n} \ {s.complete}

VideoInv == InOrder(vr, stream)

-----------------------------------------------------------------------------
(* The index of a frame, as an addition.                                    *)
LEMMA IndexFacts ==
  /\ SeqMod \in Nat \ {0} /\ SeqHalf \in Nat \ {0} /\ SeqMod = SeqHalf + SeqHalf
  /\ MaxFrame \in Nat
  /\ \A n \in Nat : Index(n) \in SeqNums
  <1>1. \A n \in Nat, m \in Nat \ {0} : n % m \in 0 .. m - 1
    OBVIOUS
  <1> QED
    BY <1>1, SeqModFacts, VideoAssumption DEF Index, SeqNums

(* Frames less than the index space apart have indices that far apart.      *)
LEMMA IndexDist ==
  ASSUME NEW a \in Nat, NEW b \in Nat, a <= b, b - a < SeqMod
  PROVE  SeqDist(Index(a), Index(b)) = b - a
  BY NumOfDist DEF Index, NumOf

(* The number after that of a frame is that of the next frame.              *)
LEMMA NextIndex ==
  ASSUME NEW n \in Nat
  PROVE  SeqAdd(Index(n), 1) = Index(n + 1)
  <1>1. 1 \in Nat /\ 1 < SeqMod
    BY IndexFacts
  <1> QED
    BY <1>1, NumOfLater DEF Index, NumOf

(* gt holds exactly for what is less than half the space ahead.             *)
LEMMA GtByDist ==
  ASSUME NEW a \in SeqNums, NEW b \in SeqNums
  PROVE  SeqGt(a, b) <=> SeqDist(b, a) \in 1 .. SeqHalf - 1
  BY DistValue, SeqModFacts DEF SeqGt, SeqNums

-----------------------------------------------------------------------------
(* A flush keeps the order: a frame that goes out did not go out before.    *)
LEMMA FlushKeepsOrder ==
  ASSUME NEW x, InOrder(x.v, x.s), x.s.n # 0, Unflushed(x.v), NEW y \in Flushed(x)
  PROVE  /\ InOrder(y.v, y.s) /\ y.s.n = x.s.n /\ y.s.complete >= x.s.complete /\ y.v.cur = x.v.cur
  <1> USE IndexFacts
  <1>1. /\ x.v.cur = Index(x.s.n) /\ x.s.out < x.s.n /\ x.s.n \in 0 .. MaxFrame
        /\ x.s.complete \in 0 .. x.s.n
    BY DEF InOrder
  <1>2. CASE \E idr \in BOOLEAN : y = FecFails(x, idr)
    <2>1. /\ y.v.cur = x.v.cur /\ y.v.prev = x.v.cur /\ y.v.complete = x.v.complete /\ ReceiverIs(y.v)
          /\ y.s.n = x.s.n /\ y.s.complete = x.s.complete /\ y.s.out = x.s.out /\ y.s.again = x.s.again
          /\ y.s.owed \subseteq x.s.owed /\ StreamIs(y.s)
      <3>1. PICK idr \in BOOLEAN : y = FecFails(x, idr)
        BY <1>2
      <3> DEFINE w == x.v.waiting \/ idr
      <3> HIDE DEF w
      <3>2. y.v = [x.v EXCEPT !.prev = x.v.cur, !.waiting = w] /\ y.s = Reports(x.v, x.s, x.v.cur)
        BY <3>1, Zenon DEF FecFails, w
      <3>3. /\ y.v.cur = x.v.cur /\ y.v.prev = x.v.cur /\ y.v.complete = x.v.complete /\ ReceiverIs(y.v)
        BY <3>2 DEF InOrder, ReceiverIs
      <3>4. PICK owed \in SUBSET x.s.owed : y.s = [x.s EXCEPT !.owed = owed]
        BY <3>2 DEF Reports
      <3>5. /\ y.s.n = x.s.n /\ y.s.complete = x.s.complete /\ y.s.out = x.s.out /\ y.s.again = x.s.again
            /\ y.s.owed = owed /\ StreamIs(y.s)
        BY <3>4 DEF InOrder, StreamIs
      <3> QED
        BY <3>3, <3>5
    <2> QED
      BY <1>1, <2>1 DEF InOrder, Unflushed
  <1>3. CASE y = NotShown(x)
    <2>1. /\ y.v.cur = x.v.cur /\ y.v.prev = x.v.cur /\ y.v.complete = x.v.complete /\ ReceiverIs(y.v)
          /\ y.s = x.s
      BY <1>3 DEF NotShown, InOrder, ReceiverIs
    <2> QED
      BY <1>1, <2>1 DEF InOrder, Unflushed
  <1>4. CASE \E slice \in Slices, taken \in BOOLEAN : y = Shown(x, slice, taken)
    <2>1. PICK slice \in Slices, taken \in BOOLEAN : y = Shown(x, slice, taken)
      BY <1>4
    <2>2. /\ y.v.cur = x.v.cur /\ y.v.prev = x.v.cur /\ ReceiverIs(y.v) /\ StreamIs(y.s)
          /\ y.s.n = x.s.n /\ y.s.out = x.s.n /\ y.s.again = (x.s.again \/ x.s.n <= x.s.out)
      BY <2>1 DEF Shown, InOrder, ReceiverIs, StreamIs
    <2>3. /\ y.v.complete = IF taken THEN x.v.cur ELSE x.v.complete
          /\ y.s.complete = IF taken THEN x.s.n ELSE x.s.complete
          /\ y.s.owed = IF taken THEN x.s.owed \ {x.s.n} ELSE x.s.owed
      BY <2>1 DEF Shown, InOrder, ReceiverIs, StreamIs
    <2>4. y.s.again = FALSE
      <3>1. x.s.again = FALSE /\ ~(x.s.n <= x.s.out)
        BY <1>1 DEF InOrder
      <3> QED
        BY <2>2, <3>1, Zenon
    <2> QED
      BY <1>1, <2>2, <2>3, <2>4 DEF InOrder, Unflushed
  <1> QED
    BY <1>2, <1>3, <1>4 DEF Flushed

(* A frame that begins finds the frame before complete or reported, and the *)
(* frames between are reported.                                             *)
LEMMA BeginKeepsOrder ==
  ASSUME NEW x, InOrder(x.v, x.s), NEW n \in 0 .. MaxFrame, n > x.s.n, n - x.s.complete <= SeqHalf
  PROVE  InOrder(Begins(x, n).v, Begins(x, n).s) /\ Begins(x, n).s.n = n
  <1> DEFINE c == x.s.complete
             went == [x.s EXCEPT !.n = n, !.owed = @ \union (x.s.n + 1 .. n)]
             y == Begins(x, n)
  <1>1. c \in Nat /\ x.s.n \in Nat /\ c <= x.s.n /\ c + 1 <= n /\ c + 1 \in Nat /\ n \in Nat /\ n - 1 \in Nat
        /\ x.s.out \in 0 .. x.s.n
    BY IndexFacts DEF InOrder
  <1>2. FirstCorrupt(x.v) = Index(c + 1)
    BY <1>1, IndexFacts, NextIndex DEF FirstCorrupt, InOrder
  <1>3. /\ Index(n) \in SeqNums /\ Index(c + 1) \in SeqNums
        /\ SeqDist(Index(c + 1), Index(n)) = n - (c + 1)
    <2>1. c + 1 <= n /\ n - (c + 1) < SeqMod
      BY <1>1, IndexFacts
    <2> QED
      BY <1>1, IndexFacts, <2>1, IndexDist
  <1>4. SeqGt(Index(n), FirstCorrupt(x.v)) <=> n # c + 1
    BY <1>1, IndexFacts, <1>2, <1>3, GtByDist
  <1>5. went = [n |-> n, complete |-> c, out |-> x.s.out, again |-> x.s.again, owed |-> x.s.owed \union (x.s.n + 1 .. n)]
    <2> DEFINE owed == x.s.owed \union (x.s.n + 1 .. n)
    <2>1. went = [x.s EXCEPT !.n = n, !.owed = owed]
      OBVIOUS
    <2> HIDE DEF owed, went
    <2>2. went = [n |-> n, complete |-> c, out |-> x.s.out, again |-> x.s.again, owed |-> owed]
      BY <2>1 DEF InOrder, StreamIs
    <2> QED
      BY <2>2 DEF owed
  <1>6. /\ y.v.cur = Index(n) /\ y.v.prev = x.v.prev /\ y.v.complete = x.v.complete /\ ReceiverIs(y.v)
    BY DEF Begins, InOrder, ReceiverIs
  <1>7. y.s = IF n # c + 1 THEN Reports(x.v, went, Index(n - 1)) ELSE went
    BY <1>4 DEF Begins
  <1> HIDE DEF y, went
  <1>8. /\ StreamIs(y.s) /\ y.s.n = n /\ y.s.complete = c /\ y.s.out = x.s.out /\ y.s.again = x.s.again
    <2>1. PICK owed : y.s = [went EXCEPT !.owed = owed] \/ y.s = went
      BY <1>7 DEF Reports
    <2> QED
      BY <1>5, <2>1 DEF StreamIs
  <1>9. y.s.owed \subseteq {n}
    <2>1. CASE n = c + 1
      <3>1. x.s.n = c
        <4>1. \A i, j, k \in Int : i <= j /\ j < k /\ k = i + 1 => j = i
          OBVIOUS
        <4>2. c \in Int /\ x.s.n \in Int /\ n \in Int /\ c <= x.s.n /\ x.s.n < n
          BY <1>1
        <4> HIDE DEF c
        <4> QED
          BY ONLY <2>1, <4>1, <4>2
      <3>2. x.s.owed = {}
        BY <3>1 DEF InOrder
      <3>3. x.s.n + 1 .. n = {n}
        <4>1. \A k \in Int : k .. k = {k}
          OBVIOUS
        <4> QED
          BY <1>1, <2>1, <3>1, <4>1
      <3> QED
        BY <1>5, <1>7, <2>1, <3>2, <3>3
    <2>2. CASE n # c + 1
      <3>1. SUFFICES ASSUME NEW f \in y.s.owed, f # n PROVE FALSE
        OBVIOUS
      <3>2. f \in x.s.owed \union (x.s.n + 1 .. n)
            /\ SeqDist(Index(c + 1), Index(f)) > SeqDist(Index(c + 1), Index(n - 1))
        BY <1>2, <1>5, <1>7, <2>2, <3>1 DEF Reports
      <3>3. f \in Nat /\ c + 1 <= f /\ f <= n - 1
        BY <1>1, IndexFacts, <3>1, <3>2 DEF InOrder
      <3>4. SeqDist(Index(c + 1), Index(f)) = f - (c + 1)
        <4>1. f - (c + 1) < SeqMod
          BY <1>1, IndexFacts, <3>3
        <4> QED
          BY <1>1, IndexFacts, <3>3, <4>1, IndexDist
      <3>5. SeqDist(Index(c + 1), Index(n - 1)) = (n - 1) - (c + 1)
        <4>1. c + 1 <= n - 1 /\ (n - 1) - (c + 1) < SeqMod
          BY <1>1, IndexFacts, <3>3
        <4> QED
          BY <1>1, IndexFacts, <4>1, IndexDist
      <3> QED
        BY <1>1, IndexFacts, <3>2, <3>3, <3>4, <3>5
    <2> QED
      BY <2>1, <2>2
  <1>10. InOrder(y.v, y.s)
    BY <1>1, IndexFacts, <1>6, <1>8, <1>9 DEF InOrder
  <1> QED
    BY <1>8, <1>10 DEF y

-----------------------------------------------------------------------------
(* The handler of a packet: a flush of the frame before, the beginning of a *)
(* frame and a flush of it.                                                 *)
LEMMA AvPacketKeepsOrder ==
  ASSUME VideoInv, NEW n \in Arriving, NEW u \in Units, AvPacket(n, u)
  PROVE  VideoInv'
  <1> USE IndexFacts
  <1> DEFINE now == [v |-> vr, p |-> fp, s |-> stream]
             isNew == vr.cur < 0 \/ SeqGt(Index(n), vr.cur)
  <1>1. PICK before \in (IF isNew /\ Unflushed(vr) THEN Flushed(now) ELSE {now}) :
          LET x == IF isNew THEN Begins(before, n) ELSE before
              filled == [x EXCEPT !.p = PutUnit(@, u)]
          IN \E after \in (IF Unflushed(filled.v) /\ (FlushPossible(filled.p) \/ u = LastUnit)
                           THEN Flushed(filled) ELSE {filled}) :
               vr' = after.v /\ fp' = after.p /\ stream' = after.s
    BY DEF AvPacket
  <1>2. InOrder(vr, stream) /\ stream.n \in 0 .. MaxFrame /\ stream.complete \in 0 .. stream.n
    BY DEF VideoInv, InOrder
  <1>3. n \in 1 .. MaxFrame /\ n \in stream.n - 1 .. stream.n + 2 /\ n - stream.complete <= SeqHalf
    BY <1>2 DEF Arriving
  <1>4. now.v = vr /\ now.s = stream
    OBVIOUS
  <1>5. ~isNew => stream.n # 0
    BY <1>2 DEF InOrder
  <1>6. isNew => n > stream.n
    <2>1. CASE stream.n = 0
      BY <1>3, <2>1
    <2>2. CASE stream.n # 0 /\ isNew
      <3>1. vr.cur = Index(stream.n) /\ vr.cur \in SeqNums /\ stream.n \in Nat /\ n \in Nat /\ Index(n) \in SeqNums
        BY <1>2, <1>3, <2>2 DEF InOrder
      <3>2. SeqDist(Index(stream.n), Index(n)) \in 1 .. SeqHalf - 1
        BY <2>2, <3>1, GtByDist DEF SeqNums
      <3>3. n # stream.n
        BY <3>1, <3>2, DistZero
      <3>4. n # stream.n - 1
        <4>1. SUFFICES ASSUME n = stream.n - 1 PROVE FALSE
          OBVIOUS
        <4>2. SeqDist(Index(n), Index(stream.n)) = 1
          BY <3>1, <4>1, IndexDist
        <4>3. SeqDist(Index(stream.n), Index(n)) = SeqMod - 1
          BY <3>1, <3>3, <4>2, DistBack, DistZero
        <4> QED
          BY <3>2, <4>3
      <3> QED
        BY <1>3, <3>1, <3>3, <3>4
    <2> QED
      BY <2>1, <2>2
  <1>7. /\ InOrder(before.v, before.s) /\ before.s.n = stream.n /\ before.s.complete >= stream.complete
    <2>1. CASE isNew /\ Unflushed(vr)
      <3>1. stream.n # 0
        BY <1>2, <2>1 DEF InOrder, Unflushed
      <3>2. before \in Flushed(now)
        BY <1>1, <2>1
      <3> HIDE DEF now
      <3> QED
        BY <1>2, <1>4, <2>1, <3>1, <3>2, FlushKeepsOrder
    <2>2. CASE ~(isNew /\ Unflushed(vr))
      BY <1>1, <1>2, <1>4, <2>2
    <2> QED
      BY <2>1, <2>2
  <1> DEFINE x == IF isNew THEN Begins(before, n) ELSE before
             filled == [x EXCEPT !.p = PutUnit(@, u)]
  <1>8. PICK after \in (IF Unflushed(filled.v) /\ (FlushPossible(filled.p) \/ u = LastUnit)
                        THEN Flushed(filled) ELSE {filled}) :
          vr' = after.v /\ fp' = after.p /\ stream' = after.s
    BY <1>1
  <1> HIDE DEF isNew
  <1>9. InOrder(x.v, x.s) /\ x.s.n # 0
    <2>1. CASE isNew
      <3>1. n \in 0 .. MaxFrame /\ n > before.s.n /\ n - before.s.complete <= SeqHalf /\ n # 0
        BY <1>2, <1>3, <1>6, <1>7, <2>1 DEF InOrder
      <3> QED
        BY <1>7, <2>1, <3>1, BeginKeepsOrder
    <2>2. CASE ~isNew
      BY <1>5, <1>7, <2>2
    <2> QED
      BY <2>1, <2>2
  <1>10. filled.v = x.v /\ filled.s = x.s
    <2>1. before = [v |-> before.v, p |-> before.p, s |-> before.s]
      <3>1. CASE before = now
        BY <3>1
      <3>2. CASE before \in Flushed(now)
        <4>1. \A idr : FecFails(now, idr) = [v |-> FecFails(now, idr).v, p |-> FecFails(now, idr).p, s |-> FecFails(now, idr).s]
          BY DEF FecFails
        <4>2. NotShown(now) = [v |-> NotShown(now).v, p |-> NotShown(now).p, s |-> NotShown(now).s]
          BY DEF NotShown
        <4>3. \A slice, taken : Shown(now, slice, taken) =
                [v |-> Shown(now, slice, taken).v, p |-> Shown(now, slice, taken).p, s |-> Shown(now, slice, taken).s]
          BY DEF Shown
        <4> HIDE DEF now
        <4> QED
          BY <3>2, <4>1, <4>2, <4>3 DEF Flushed
      <3> HIDE DEF now
      <3> QED
        BY <1>1, <3>1, <3>2
    <2>2. x = [v |-> x.v, p |-> x.p, s |-> x.s]
      BY <2>1 DEF Begins
    <2> HIDE DEF x
    <2> QED
      BY <2>2
  <1>11. InOrder(after.v, after.s)
    <2> HIDE DEF filled, x
    <2>1. CASE Unflushed(filled.v) /\ (FlushPossible(filled.p) \/ u = LastUnit)
      BY <1>8, <1>9, <1>10, <2>1, FlushKeepsOrder
    <2>2. CASE ~(Unflushed(filled.v) /\ (FlushPossible(filled.p) \/ u = LastUnit))
      BY <1>8, <1>9, <1>10, <2>2
    <2> QED
      BY <2>1, <2>2
  <1> QED
    BY <1>8, <1>11 DEF VideoInv

(* The invariant of the video receiver.                                     *)
THEOREM VideoStaysInOrder == VideoSpec => []VideoInv
  <1>1. VideoInit => VideoInv
    <2>1. Index(0) = 0
      BY IndexFacts, ModSmall DEF Index
    <2> QED
      BY <2>1, IndexFacts DEF VideoInit, VideoInv, InOrder, ReceiverIs, StreamIs
  <1>2. VideoInv /\ [VideoNext]_videoVars => VideoInv'
    <2> SUFFICES ASSUME VideoInv, [VideoNext]_videoVars PROVE VideoInv'
      OBVIOUS
    <2>1. CASE RequestsIdr
      BY <2>1 DEF RequestsIdr, VideoInv, InOrder, ReceiverIs, StreamIs, Unflushed
    <2>2. CASE UNCHANGED videoVars
      BY <2>2 DEF videoVars, VideoInv, InOrder, ReceiverIs, StreamIs, Unflushed
    <2> QED
      BY <2>1, <2>2, AvPacketKeepsOrder DEF VideoNext
  <1> QED
    BY <1>1, <1>2, PTL DEF VideoSpec

(* A frame is given to the decoder at most once, and never after a later    *)
(* one, for frames of any shape and indices of any width.                   *)
THEOREM FramesGoOutOnce == VideoSpec => []FramesGoOutOnceInOrder
  <1>1. VideoInv => FramesGoOutOnceInOrder
    BY DEF VideoInv, InOrder, FramesGoOutOnceInOrder
  <1> QED
    BY <1>1, VideoStaysInOrder, PTL

(* When a frame begins, every frame before it is complete or was reported   *)
(* to the console.                                                          *)
THEOREM GapsAreReported == VideoSpec => []EveryGapIsReported
  <1>1. VideoInv => EveryGapIsReported
    BY DEF VideoInv, InOrder, EveryGapIsReported
  <1> QED
    BY <1>1, VideoStaysInOrder, PTL

-----------------------------------------------------------------------------
(***************************************************************************)
(* No event of the controller is lost between the feedback sender and the  *)
(* packets, while the queue does not overflow, but the oldest of a change  *)
(* with more events than the history holds.                                *)
(***************************************************************************)

FeedbackRecords ==
  [stick : Sticks, changed : BOOLEAN, stop : BOOLEAN, overflow : BOOLEAN, recorded : Nat,
   len : 0 .. BufferSize, begin : 0 .. PacketQueue - 1, queued : 0 .. PacketQueue,
   packets : [0 .. PacketQueue - 1 -> SUBSET Nat], forgotten : SUBSET Nat]
SenderRecords ==
  [pc : {"wait", "send", "relock", "done"}, prev : Sticks, now : Sticks, due : BOOLEAN, packet : SUBSET Nat]
SentRecords == [stick : Sticks, events : SUBSET Nat]

(* The slot of the i-th queued packet, and what the queued packets hold.    *)
Slot(f, i) == (f.begin + i) % PacketQueue
Holds(f, e) == \E i \in 0 .. f.queued - 1 : e \in f.packets[Slot(f, i)]

FeedbackInv ==
  /\ fb \in FeedbackRecords /\ sender \in SenderRecords /\ sent \in SentRecords
  /\ sender.pc # "send" => sender.packet = {}
  /\ ~fb.overflow =>
       \A e \in (1 .. fb.recorded) \ fb.forgotten :
          e \in sent.events \/ e \in sender.packet \/ Holds(fb, e)

-----------------------------------------------------------------------------
(* Around the ring, with one wrap at most.                                  *)
LEMMA SlotValue ==
  ASSUME NEW f \in FeedbackRecords, NEW i \in 0 .. PacketQueue
  PROVE  /\ Slot(f, i) = IF f.begin + i < PacketQueue THEN f.begin + i ELSE f.begin + i - PacketQueue
         /\ Slot(f, i) \in 0 .. PacketQueue - 1
  <1>1. /\ PacketQueue \in Nat \ {0} /\ f.begin \in 0 .. PacketQueue - 1 /\ f.begin + i \in 0 .. 2 * PacketQueue - 1
    BY FeedbackAssumption DEF FeedbackRecords
  <1>2. CASE f.begin + i < PacketQueue
    <2>1. f.begin + i \in 0 .. PacketQueue - 1
      BY <1>1, <1>2
    <2> QED
      BY <1>1, <1>2, <2>1, ModSmall DEF Slot
  <1>3. CASE ~(f.begin + i < PacketQueue)
    <2>1. f.begin + i \in PacketQueue .. 2 * PacketQueue - 1
      BY <1>1, <1>3
    <2>2. Slot(f, i) = f.begin + i - PacketQueue
      BY <1>1, <2>1, ModWrap, SMTT(30) DEF Slot
    <2> QED
      BY <1>1, <1>3, <2>1, <2>2
  <1> QED
    BY <1>2, <1>3

(* Queueing a packet in a ring with a free place adds it to what is queued. *)
LEMMA QueuedHolds ==
  ASSUME NEW f \in FeedbackRecords
  PROVE  /\ Queued(f) \in FeedbackRecords
         /\ Queued(f).recorded = f.recorded /\ Queued(f).forgotten = f.forgotten
         /\ ~Queued(f).overflow =>
              /\ ~f.overflow
              /\ \A e \in Nat : Holds(f, e) \/ e \in History(f.len, f.recorded) => Holds(Queued(f), e)
  <1> DEFINE g == Queued(f)
             packet == History(f.len, f.recorded)
  <1>1. /\ PacketQueue \in Nat \ {0} /\ ResendEvents \in 0 .. BufferSize /\ BufferSize \in Nat
        /\ f.begin \in 0 .. PacketQueue - 1 /\ f.queued \in 0 .. PacketQueue /\ f.len \in 0 .. BufferSize
        /\ f.recorded \in Nat /\ f.packets \in [0 .. PacketQueue - 1 -> SUBSET Nat] /\ f.overflow \in BOOLEAN
        /\ f.forgotten \in SUBSET Nat
    BY FeedbackAssumption DEF FeedbackRecords
  <1>2. packet \in SUBSET Nat
    BY <1>1 DEF History
  <1> HIDE DEF packet
  <1>3. /\ g.packets = [f.packets EXCEPT ![PacketIndex(f)] = packet]
        /\ g.queued = QueueLength(f)
        /\ g.begin = IF f.queued < PacketQueue THEN f.begin ELSE (f.begin + 1) % PacketQueue
        /\ g.len = IF f.len > ResendEvents THEN ResendEvents ELSE f.len
        /\ g.overflow = (f.overflow \/ f.queued = PacketQueue)
        /\ g.stick = f.stick /\ g.changed = f.changed /\ g.stop = f.stop /\ g.recorded = f.recorded
        /\ g.forgotten = f.forgotten
        /\ g = [stick |-> g.stick, changed |-> g.changed, stop |-> g.stop, overflow |-> g.overflow,
                recorded |-> g.recorded, len |-> g.len, begin |-> g.begin, queued |-> g.queued,
                packets |-> g.packets, forgotten |-> g.forgotten]
    <2> DEFINE b == IF f.queued < PacketQueue THEN f.begin ELSE (f.begin + 1) % PacketQueue
               o == f.overflow \/ f.queued = PacketQueue
               l == IF f.len > ResendEvents THEN ResendEvents ELSE f.len
    <2> HIDE DEF b, o, l
    <2>1. f = [stick |-> f.stick, changed |-> f.changed, stop |-> f.stop, overflow |-> f.overflow,
               recorded |-> f.recorded, len |-> f.len, begin |-> f.begin, queued |-> f.queued,
               packets |-> f.packets, forgotten |-> f.forgotten]
      BY DEF FeedbackRecords
    <2>2. g = [f EXCEPT !.packets[PacketIndex(f)] = packet, !.queued = QueueLength(f), !.begin = b,
                        !.overflow = o, !.len = l]
      BY DEF Queued, packet, b, o, l
    <2> HIDE DEF g
    <2>3. g = [stick |-> f.stick, changed |-> f.changed, stop |-> f.stop, overflow |-> o,
               recorded |-> f.recorded, len |-> l, begin |-> b, queued |-> QueueLength(f),
               packets |-> [f.packets EXCEPT ![PacketIndex(f)] = packet], forgotten |-> f.forgotten]
      BY <2>1, <2>2
    <2> QED
      BY <2>3 DEF b, o, l
  <1> HIDE DEF g
  <1>4. PacketIndex(f) = Slot(f, f.queued) /\ PacketIndex(f) \in 0 .. PacketQueue - 1
    BY <1>1, SlotValue DEF PacketIndex, Slot
  <1>5. g \in FeedbackRecords
    <2>1. g.packets \in [0 .. PacketQueue - 1 -> SUBSET Nat]
      BY <1>1, <1>2, <1>3, <1>4
    <2>2. g.begin \in 0 .. PacketQueue - 1
      <3>1. 1 \in 0 .. PacketQueue
        BY <1>1
      <3> QED
        BY <1>1, <1>3, <3>1, SlotValue DEF Slot
    <2>3. g.queued \in 0 .. PacketQueue /\ g.len \in 0 .. BufferSize
      BY <1>1, <1>3 DEF QueueLength
    <2>4. g.stick \in Sticks /\ g.changed \in BOOLEAN /\ g.stop \in BOOLEAN /\ g.overflow \in BOOLEAN /\ g.recorded \in Nat
          /\ g.forgotten \in SUBSET Nat
      BY <1>1, <1>3 DEF FeedbackRecords
    <2> QED
      BY <1>3, <2>1, <2>2, <2>3, <2>4 DEF FeedbackRecords
  <1>6. ASSUME ~g.overflow
        PROVE  /\ ~f.overflow
               /\ \A e \in Nat : Holds(f, e) \/ e \in packet => Holds(g, e)
    <2>1. ~f.overflow /\ f.queued # PacketQueue
      BY <1>3, <1>6
    <2>2. f.queued < PacketQueue /\ f.queued \in Nat /\ g.queued = f.queued + 1 /\ g.begin = f.begin
      BY <1>1, <1>3, <2>1 DEF QueueLength
    <2>3. ASSUME NEW i \in 0 .. f.queued - 1
          PROVE  /\ i \in 0 .. g.queued - 1
                 /\ g.packets[Slot(g, i)] = f.packets[Slot(f, i)]
      <3>1. i \in 0 .. PacketQueue /\ f.queued \in 0 .. PacketQueue /\ i < f.queued /\ i \in 0 .. g.queued - 1
        BY <1>1, <2>2
      <3>2. Slot(g, i) = Slot(f, i) /\ Slot(f, i) \in 0 .. PacketQueue - 1
        BY <2>2, <3>1, SlotValue DEF Slot
      <3>3. Slot(f, i) # Slot(f, f.queued)
        <4>1. /\ Slot(f, i) = IF f.begin + i < PacketQueue THEN f.begin + i ELSE f.begin + i - PacketQueue
              /\ Slot(f, f.queued) = IF f.begin + f.queued < PacketQueue THEN f.begin + f.queued
                                     ELSE f.begin + f.queued - PacketQueue
          BY <3>1, SlotValue
        <4> QED
          BY <1>1, <2>2, <3>1, <4>1
      <3> QED
        BY <1>1, <1>3, <1>4, <3>1, <3>2, <3>3
    <2>4. g.packets[Slot(g, f.queued)] = packet /\ f.queued \in 0 .. g.queued - 1
      <3>1. Slot(g, f.queued) = Slot(f, f.queued)
        BY <2>2 DEF Slot
      <3> QED
        BY <1>1, <1>2, <1>3, <1>4, <2>2, <3>1
    <2> QED
      BY <2>1, <2>3, <2>4 DEF Holds
  <1> QED
    BY <1>3, <1>5, <1>6 DEF g, packet

(* The first queued packet is taken, or there is none. *)
LEMMA TakenHolds ==
  ASSUME NEW f \in FeedbackRecords, NEW g \in FeedbackRecords, f.queued > 0,
         g.packets = f.packets, g.queued = f.queued - 1, g.begin = (f.begin + 1) % PacketQueue
  PROVE  \A e \in Nat : Holds(f, e) => e \in f.packets[f.begin] \/ Holds(g, e)
  <1>1. /\ PacketQueue \in Nat \ {0} /\ f.begin \in 0 .. PacketQueue - 1 /\ f.queued \in 1 .. PacketQueue
    BY FeedbackAssumption DEF FeedbackRecords
  <1>2. SUFFICES ASSUME NEW e \in Nat, NEW i \in 0 .. f.queued - 1, e \in f.packets[Slot(f, i)]
                 PROVE  e \in f.packets[f.begin] \/ Holds(g, e)
    BY DEF Holds
  <1>3. i \in 0 .. PacketQueue
    BY <1>1
  <1>4. CASE i = 0
    <2>1. Slot(f, i) = f.begin
      BY <1>1, <1>3, <1>4, SlotValue
    <2> QED
      BY <1>2, <2>1
  <1>5. CASE i # 0
    <2>1. i - 1 \in 0 .. g.queued - 1 /\ i - 1 \in 0 .. PacketQueue /\ 1 \in 0 .. PacketQueue
      BY <1>1, <1>5
    <2>2. g.begin = Slot(f, 1)
      BY DEF Slot
    <2>3. /\ Slot(f, 1) = IF f.begin + 1 < PacketQueue THEN f.begin + 1 ELSE f.begin + 1 - PacketQueue
          /\ Slot(f, i) = IF f.begin + i < PacketQueue THEN f.begin + i ELSE f.begin + i - PacketQueue
          /\ Slot(g, i - 1) = IF g.begin + (i - 1) < PacketQueue THEN g.begin + (i - 1)
                              ELSE g.begin + (i - 1) - PacketQueue
      BY <1>3, <2>1, SlotValue
    <2>4. Slot(g, i - 1) = Slot(f, i)
      BY <1>1, <1>3, <1>5, <2>2, <2>3
    <2> QED
      BY <1>2, <2>1, <2>4 DEF Holds
  <1> QED
    BY <1>4, <1>5

-----------------------------------------------------------------------------
(* Events that are recorded come into the history, or are among those that *)
(* a change with too many of them makes it forget.                         *)
LEMMA RecordedKeeps ==
  ASSUME NEW f \in FeedbackRecords, NEW k \in Nat
  PROVE  LET r == Recorded(f, k)
         IN  /\ r \in FeedbackRecords /\ f.forgotten \subseteq r.forgotten
             /\ r.overflow = f.overflow /\ r.queued = f.queued /\ r.begin = f.begin
             /\ r.packets = f.packets
             /\ \A e \in 1 .. r.recorded :
                  e \in 1 .. f.recorded \/ e \in r.forgotten \/ e \in History(r.len, r.recorded)
  <1> DEFINE r == Recorded(f, k)
             l == IF f.len + k < BufferSize THEN f.len + k ELSE BufferSize
             o == f.forgotten \union
                    {e \in f.recorded + 1 .. f.recorded + k : e + BufferSize <= f.recorded + k}
  <1>1. /\ BufferSize \in Nat \ {0} /\ f.len \in 0 .. BufferSize /\ f.recorded \in Nat
        /\ f.forgotten \in SUBSET Nat
    BY FeedbackAssumption DEF FeedbackRecords
  <1>2. r = [f EXCEPT !.recorded = f.recorded + k, !.len = l, !.forgotten = o]
    BY DEF Recorded, Forgets, FeedbackRecords
  <1>3. l \in 0 .. BufferSize /\ f.recorded + k \in Nat /\ o \in SUBSET Nat
    BY <1>1
  <1>4. \A e \in 1 .. f.recorded + k : e \in 1 .. f.recorded \/ e \in o \/ e \in History(l, f.recorded + k)
    BY <1>1 DEF History
  <1>5. f.forgotten \subseteq o
    OBVIOUS
  <1> HIDE DEF l, o, r
  <1>6. /\ r.recorded = f.recorded + k /\ r.len = l /\ r.forgotten = o
        /\ r.overflow = f.overflow /\ r.queued = f.queued /\ r.begin = f.begin /\ r.packets = f.packets
        /\ r \in FeedbackRecords
    BY <1>2, <1>3 DEF FeedbackRecords
  <1>7. \A e \in 1 .. r.recorded :
           e \in 1 .. f.recorded \/ e \in r.forgotten \/ e \in History(r.len, r.recorded)
    BY <1>4, <1>6
  <1> QED
    BY <1>5, <1>6, <1>7 DEF r

(* What is recorded is in the packet that is queued with it. *)
LEMMA SetsKeeps ==
  ASSUME FeedbackInv, NEW stick \in Sticks, NEW k \in 0 .. MaxBatch, SetsControllerState(stick, k)
  PROVE  FeedbackInv'
  <1> DEFINE f == [fb EXCEPT !.stick = stick, !.changed = TRUE]
             r == Recorded(f, k)
  <1>1. UNCHANGED <<sender, sent>> /\ fb' = IF k = 0 THEN f ELSE Queued(r)
    BY DEF SetsControllerState
  <1>2. fb \in FeedbackRecords /\ sender \in SenderRecords /\ sent \in SentRecords
        /\ (sender.pc # "send" => sender.packet = {})
    BY DEF FeedbackInv
  <1>3. /\ f \in FeedbackRecords /\ f.overflow = fb.overflow /\ f.recorded = fb.recorded
        /\ f.queued = fb.queued /\ f.begin = fb.begin /\ f.packets = fb.packets /\ f.len = fb.len
        /\ f.forgotten = fb.forgotten
    BY <1>2 DEF FeedbackRecords
  <1> HIDE DEF f
  <1>4. \A e : Holds(f, e) <=> Holds(fb, e)
    BY <1>3 DEF Holds, Slot
  <1>5. CASE k = 0
    BY <1>1, <1>2, <1>3, <1>4, <1>5 DEF FeedbackInv
  <1>6. CASE k # 0
    <2>1. k \in Nat
      BY FeedbackAssumption
    <2>2. /\ r \in FeedbackRecords /\ f.forgotten \subseteq r.forgotten
          /\ r.overflow = f.overflow /\ r.queued = f.queued /\ r.begin = f.begin /\ r.packets = f.packets
          /\ \A e \in 1 .. r.recorded :
               e \in 1 .. f.recorded \/ e \in r.forgotten \/ e \in History(r.len, r.recorded)
      BY <1>3, <2>1, RecordedKeeps
    <2> HIDE DEF r
    <2>3. \A e : Holds(r, e) <=> Holds(f, e)
      BY <2>2 DEF Holds, Slot
    <2>4. /\ fb' \in FeedbackRecords /\ fb'.recorded = r.recorded /\ fb'.forgotten = r.forgotten
          /\ ~fb'.overflow => /\ ~r.overflow
                              /\ \A e \in Nat : Holds(r, e) \/ e \in History(r.len, r.recorded) => Holds(fb', e)
      BY <1>1, <1>6, <2>2, QueuedHolds
    <2>5. ASSUME ~fb'.overflow, NEW e \in (1 .. fb'.recorded) \ fb'.forgotten
          PROVE  e \in sent.events \/ e \in sender.packet \/ Holds(fb', e)
      <3>1. /\ ~fb.overflow /\ e \in Nat /\ e \in 1 .. r.recorded
            /\ e \notin fb.forgotten /\ e \notin r.forgotten
        BY <1>3, <2>2, <2>4, <2>5
      <3>2. CASE e \in 1 .. fb.recorded
        BY <1>4, <2>3, <2>4, <2>5, <3>1, <3>2 DEF FeedbackInv
      <3>3. CASE e \in History(r.len, r.recorded)
        BY <2>4, <2>5, <3>1, <3>3
      <3> QED
        BY <1>3, <2>2, <3>1, <3>2, <3>3
    <2> QED
      BY <1>1, <1>2, <2>4, <2>5 DEF FeedbackInv
  <1> QED
    BY <1>5, <1>6

(* What the sender takes from the ring it has in its hand. *)
LEMMA CollectsKeeps ==
  ASSUME FeedbackInv, NEW due \in BOOLEAN, Collects(due)
  PROVE  FeedbackInv'
  <1>1. fb \in FeedbackRecords /\ sender \in SenderRecords /\ sent \in SentRecords /\ sender.pc = "wait"
        /\ sender.packet = {} /\ UNCHANGED sent
    BY DEF FeedbackInv, Collects
  <1>2. CASE fb.stop
    <2>1. sender' = [sender EXCEPT !.pc = "done"] /\ UNCHANGED fb
      BY <1>2 DEF Collects
    <2>2. sender' \in SenderRecords /\ sender'.packet = {}
      BY <1>1, <2>1 DEF SenderRecords
    <2> QED
      BY <1>1, <2>1, <2>2 DEF FeedbackInv, Holds, Slot
  <1>3. CASE ~fb.stop
    <2> DEFINE d == IF fb.changed THEN fb.stick # sender.prev ELSE due
               packet == IF fb.queued > 0 THEN fb.packets[fb.begin] ELSE {}
               q == IF fb.queued > 0 THEN fb.queued - 1 ELSE fb.queued
               b == IF fb.queued > 0 THEN (fb.begin + 1) % PacketQueue ELSE fb.begin
    <2>1. /\ sender' = [sender EXCEPT !.pc = "send", !.now = fb.stick, !.due = d, !.packet = packet]
          /\ fb' = [fb EXCEPT !.changed = FALSE, !.queued = q, !.begin = b]
      BY <1>3 DEF Collects
    <2>2. /\ PacketQueue \in Nat \ {0} /\ fb.begin \in 0 .. PacketQueue - 1 /\ fb.queued \in 0 .. PacketQueue
          /\ fb.packets \in [0 .. PacketQueue - 1 -> SUBSET Nat] /\ fb.stick \in Sticks
      BY <1>1, FeedbackAssumption DEF FeedbackRecords
    <2>3. d \in BOOLEAN /\ packet \in SUBSET Nat /\ q \in 0 .. PacketQueue
      <3>1. packet \in SUBSET Nat /\ q \in 0 .. PacketQueue
        BY <2>2
      <3>2. d \in BOOLEAN
        OBVIOUS
      <3> QED
        BY <3>1, <3>2
    <2>4. b \in 0 .. PacketQueue - 1
      <3>1. 1 \in 0 .. PacketQueue
        BY <2>2
      <3> QED
        BY <1>1, <2>2, <3>1, SlotValue DEF Slot
    <2> HIDE DEF d, packet, q, b
    <2>5. /\ sender' \in SenderRecords /\ sender'.packet = packet /\ sender'.pc = "send"
      BY <1>1, <2>1, <2>2, <2>3 DEF SenderRecords
    <2>6. /\ fb' \in FeedbackRecords /\ fb'.packets = fb.packets /\ fb'.recorded = fb.recorded
          /\ fb'.overflow = fb.overflow /\ fb'.queued = q /\ fb'.begin = b /\ fb'.forgotten = fb.forgotten
      BY <1>1, <2>1, <2>3, <2>4 DEF FeedbackRecords
    <2>7. \A e \in Nat : Holds(fb, e) => e \in packet \/ Holds(fb', e)
      <3>1. CASE fb.queued > 0
        <4>1. packet = fb.packets[fb.begin] /\ q = fb.queued - 1 /\ b = (fb.begin + 1) % PacketQueue
          BY <3>1 DEF packet, q, b
        <4>2. \A e \in Nat : Holds(fb, e) => e \in fb.packets[fb.begin] \/ Holds(fb', e)
          BY <1>1, <2>6, <3>1, <4>1, TakenHolds
        <4> QED
          BY <4>1, <4>2
      <3>2. CASE ~(fb.queued > 0)
        BY <2>2, <3>2 DEF Holds
      <3> QED
        BY <3>1, <3>2
    <2>8. ASSUME ~fb'.overflow, NEW e \in (1 .. fb'.recorded) \ fb'.forgotten
          PROVE  e \in sent.events \/ e \in packet \/ Holds(fb', e)
      <3>1. ~fb.overflow /\ e \in (1 .. fb.recorded) \ fb.forgotten /\ e \in Nat
        BY <2>6, <2>8
      <3> QED
        BY <1>1, <2>7, <3>1 DEF FeedbackInv
    <2> QED
      BY <1>1, <2>5, <2>6, <2>8 DEF FeedbackInv
  <1> QED
    BY <1>2, <1>3

(* Every step keeps the invariant. *)
LEMMA FeedbackStep == ASSUME FeedbackInv, [FeedbackNext]_feedbackVars PROVE FeedbackInv'
  <1>0. fb \in FeedbackRecords /\ sender \in SenderRecords /\ sent \in SentRecords
    BY DEF FeedbackInv
  <1>1. CASE UNCHANGED feedbackVars
    BY <1>1 DEF feedbackVars, FeedbackInv, Holds, Slot
  <1>2. CASE StopsFeedback
    <2>1. /\ fb' \in FeedbackRecords /\ fb'.packets = fb.packets /\ fb'.recorded = fb.recorded
          /\ fb'.overflow = fb.overflow /\ fb'.queued = fb.queued /\ fb'.begin = fb.begin
          /\ fb'.forgotten = fb.forgotten
      BY <1>0, <1>2 DEF StopsFeedback, FeedbackRecords
    <2> QED
      BY <1>2, <2>1 DEF StopsFeedback, FeedbackInv, Holds, Slot
  <1>3. CASE Sends
    <2>1. /\ sender' \in SenderRecords /\ sender'.packet = {}
      BY <1>0, <1>3 DEF Sends, SenderRecords
    <2>2. /\ sent' \in SentRecords /\ sent'.events = sent.events \union sender.packet
      BY <1>0, <1>3 DEF Sends, SentRecords, SenderRecords
    <2> QED
      BY <1>3, <2>1, <2>2 DEF Sends, FeedbackInv, Holds, Slot
  <1>4. CASE Relocks
    <2>1. /\ sender' \in SenderRecords /\ sender'.packet = sender.packet /\ sender.pc # "send"
      BY <1>0, <1>4 DEF Relocks, SenderRecords
    <2> QED
      BY <1>4, <2>1 DEF Relocks, FeedbackInv, Holds, Slot
  <1> QED
    BY <1>1, <1>2, <1>3, <1>4, SetsKeeps, CollectsKeeps DEF FeedbackNext

(* feedbacksender.c: no button or touch event gets lost between the         *)
(* recording and Takion unless the ring overflowed or the event was among   *)
(* the oldest of one change with more events than the history holds, for    *)
(* changes, rings and histories of any size.                                *)
THEOREM EventsAreNotLost == FeedbackSpec => []EventsAreKept
  <1>1. FeedbackInit => FeedbackInv
    <2> SUFFICES ASSUME FeedbackInit PROVE FeedbackInv
      OBVIOUS
    <2>1. 0 \in 0 .. BufferSize /\ 0 \in 0 .. PacketQueue - 1 /\ 0 \in 0 .. PacketQueue /\ 0 \in Sticks /\ 0 \in Nat
      BY FeedbackAssumption DEF Sticks
    <2>2. fb \in FeedbackRecords /\ fb.recorded = 0
      BY <2>1 DEF FeedbackInit, FeedbackRecords
    <2>3. sender \in SenderRecords /\ sender.packet = {} /\ sent \in SentRecords
      BY <2>1 DEF FeedbackInit, SenderRecords, SentRecords
    <2> QED
      BY <2>2, <2>3 DEF FeedbackInv
  <1>2. FeedbackInv => EventsAreKept
    <2> SUFFICES ASSUME FeedbackInv, ~fb.overflow, NEW e \in (1 .. fb.recorded) \ fb.forgotten
                 PROVE  e \in sent.events \union sender.packet \union UNION QueuedPackets
      BY DEF EventsAreKept
    <2> QED
      BY DEF FeedbackInv, QueuedPackets, Holds, Slot
  <1> QED
    BY <1>1, <1>2, FeedbackStep, PTL DEF FeedbackSpec

-----------------------------------------------------------------------------
(***************************************************************************)
(* Frames of audio go out once and in their order, and none stays behind,  *)
(* for packets of every shape and jitter buffers of every size.            *)
(***************************************************************************)

AudioSerial == INSTANCE SeqNumProofs WITH SeqHalf <- AudioHalf

(* The frames that may wait in the current packet: not long ago sent, less  *)
(* than half the index space ahead of what was heard and of what is kept.   *)
Fits(n, frames, h) ==
  /\ n >= h.sent - 2 - AudioFec /\ n <= h.sent + AudioSource - 1 /\ n - h.last < AudioHalf
  /\ \A k \in frames : n - k < AudioHalf
Fitting(frames, h) == {n \in Nat : Fits(n, frames, h)}

Close(frames) == \A m, n \in frames : m - n < AudioHalf

(* What remains of a packet; the first is StoredUnit when it was stored. *)
NoStoredUnit == units # <<>> => Head(units) # StoredUnit
Remaining(u, S) == u = <<>> \/ /\ Head(u) \in S \union {StoredUnit}
                               /\ Tail(u) \in Seq(S)

(* Before playback, while it goes on, and for the haptics. *)
Waiting(frames, h) == h.last = -1 /\ Cardinality(frames) < Prefill /\ Close(frames)
Playing(a, frames, h) ==
  \E n \in 0 .. h.sent + AudioSource :
    /\ a.next = FrameIndex(n) /\ h.last < n
    /\ \A k \in frames : n <= k /\ k - n < AudioHalf
Vibrates ==
  /\ jitter = {} /\ ~audio.started /\ NoStoredUnit
  /\ audio.prev = FrameIndex(IF heard.last = -1 THEN 0 ELSE heard.last)

AudioRecords ==
  [haptics : BOOLEAN, prev : Frame!SeqNums, next : Frame!SeqNums, started : BOOLEAN, startup : BOOLEAN]
HeardTyped(h) ==
  /\ h = [last |-> h.last, sent |-> h.sent, info |-> h.info, wrong |-> FALSE]
  /\ h.sent \in Nat /\ h.last \in Nat \union {-1} /\ h.last < h.sent + AudioSource

AudioInv ==
  /\ audio \in AudioRecords /\ HeardTyped(heard)
  /\ ~audio.startup => heard.sent > AudioHalf
  /\ jitter \in SUBSET (0 .. heard.sent + AudioSource - 1)
  /\ Remaining(units, Fitting(jitter, heard))
  /\ IF audio.haptics THEN Vibrates
     ELSE IF audio.started THEN Playing(audio, jitter, heard) /\ (NoStoredUnit => jitter = {})
     ELSE Waiting(jitter, heard) /\ NoStoredUnit

-----------------------------------------------------------------------------
(* What the constants are. *)
LEMMA AudioBounds ==
  /\ AudioHalf \in Nat \ {0} /\ AudioSource \in Nat \ {0} /\ AudioFec \in Nat
  /\ AudioSource + AudioFec + 2 < AudioHalf
  /\ JitterSize \in Nat \ {0} /\ Prefill \in Nat \ {0} /\ Prefill <= JitterSize
  BY AudioAssumption

(* Frames less than half the index space apart are ordered as their indices. *)
LEMMA FrameOrder ==
  ASSUME NEW a \in Nat, NEW b \in Nat, a - b < AudioHalf, b - a < AudioHalf
  PROVE  /\ Frame!SeqLt(FrameIndex(a), FrameIndex(b)) <=> a < b
         /\ Frame!SeqGt(FrameIndex(a), FrameIndex(b)) <=> a > b
         /\ FrameIndex(a) = FrameIndex(b) <=> a = b
  <1>1. /\ AudioSerial!SeqLt(AudioSerial!NumOf(a), AudioSerial!NumOf(b)) <=> a < b
        /\ AudioSerial!SeqGt(AudioSerial!NumOf(a), AudioSerial!NumOf(b)) <=> a > b
        /\ AudioSerial!NumOf(a) = AudioSerial!NumOf(b) <=> a = b
    BY AudioBounds, AudioSerial!NumOfOrder
  <1>2. \A n : AudioSerial!NumOf(n) = FrameIndex(n)
    BY DEF AudioSerial!NumOf, AudioSerial!SeqMod, FrameIndex
  <1> QED
    BY <1>1, <1>2 DEF Frame!SeqLt, Frame!SeqGt, AudioSerial!SeqLt, AudioSerial!SeqGt

(* The index of a frame and of the k-th after it. *)
LEMMA FrameLater ==
  ASSUME NEW n \in Nat
  PROVE  /\ FrameIndex(n) \in Frame!SeqNums /\ FrameIndex(n) <= n
         /\ \A k \in Nat : k < AudioHalf => Frame!SeqAdd(FrameIndex(n), k) = FrameIndex(n + k)
  <1>1. \A m : AudioSerial!NumOf(m) = FrameIndex(m)
    BY DEF AudioSerial!NumOf, AudioSerial!SeqMod, FrameIndex
  <1>2. FrameIndex(n) \in Frame!SeqNums /\ FrameIndex(n) <= n
    <2>1. AudioSerial!NumOf(n) \in AudioSerial!SeqNums /\ AudioSerial!NumOf(n) <= n
      BY AudioBounds, AudioSerial!NumOfType
    <2> QED
      BY <1>1, <2>1 DEF AudioSerial!SeqNums, AudioSerial!SeqMod, Frame!SeqNums, Frame!SeqMod
  <1>3. ASSUME NEW k \in Nat, k < AudioHalf
        PROVE  Frame!SeqAdd(FrameIndex(n), k) = FrameIndex(n + k)
    <2>1. k < AudioSerial!SeqMod
      BY <1>3, AudioBounds DEF AudioSerial!SeqMod
    <2>2. AudioSerial!SeqAdd(AudioSerial!NumOf(n), k) = AudioSerial!NumOf(n + k)
      BY <2>1, AudioBounds, AudioSerial!NumOfLater
    <2> QED
      BY <1>1, <2>2 DEF Frame!SeqAdd, AudioSerial!SeqAdd, Frame!SeqMod, AudioSerial!SeqMod
  <1> QED
    BY <1>2, <1>3


(* The oldest of the frames is the smallest, *)
LEMMA OldestIsFirst ==
  ASSUME NEW frames \in SUBSET Nat, frames # {}, Close(frames)
  PROVE  OldestOf(frames) \in frames /\ \A k \in frames : OldestOf(frames) <= k
  <1>1. PICK x \in frames : \A y \in frames : x <= y
    BY AudioBounds, AudioSerial!SmallestNumber
  <1>2. \A m, n \in frames : Frame!SeqLt(FrameIndex(m), FrameIndex(n)) <=> m < n
    BY FrameOrder DEF Close
  <1>3. \A n \in frames : (\A o \in frames \ {n} : ~Frame!SeqLt(FrameIndex(o), FrameIndex(n))) <=> n = x
    <2>1. \A n \in frames : (\A o \in frames \ {n} : ~(o < n)) <=> n = x
      BY <1>1
    <2> QED
      BY <1>2, <2>1
  <1>4. OldestOf(frames) = x
    BY <1>1, <1>3 DEF OldestOf
  <1> QED
    BY <1>1, <1>4

(* and the newest is the greatest. *)
LEMMA NewestIsLast ==
  ASSUME NEW top \in Nat, NEW frames \in SUBSET (0 .. top), frames # {}, Close(frames)
  PROVE  NewestOf(frames) \in frames /\ \A k \in frames : k <= NewestOf(frames)
  <1>1. PICK x \in frames : \A y \in frames : y <= x
    <2> DEFINE below == {top - k : k \in frames}
    <2>0. \A k \in frames : top - k \in Nat
      OBVIOUS
    <2>1. below \in SUBSET Nat /\ below # {}
      BY <2>0
    <2> HIDE DEF below
    <2>2. PICK b \in below : \A c \in below : b <= c
      BY <2>1, AudioBounds, AudioSerial!SmallestNumber
    <2>3. PICK x \in frames : b = top - x
      BY DEF below
    <2>4. \A y \in frames : top - x <= top - y
      BY <2>2, <2>3 DEF below
    <2> QED
      BY <2>3, <2>4
  <1>2. \A m, n \in frames : Frame!SeqGt(FrameIndex(m), FrameIndex(n)) <=> m > n
    BY FrameOrder DEF Close
  <1>3. \A n \in frames : (\A o \in frames \ {n} : ~Frame!SeqGt(FrameIndex(o), FrameIndex(n))) <=> n = x
    <2>1. \A n \in frames : (\A o \in frames \ {n} : ~(o > n)) <=> n = x
      BY <1>1
    <2> QED
      BY <1>2, <2>1
  <1>4. NewestOf(frames) = x
    BY <1>1, <1>3 DEF NewestOf
  <1> QED
    BY <1>1, <1>4

(* When the awaited frame is missing and others are there, it is concealed: *)
(* Prefill frames cannot all be among the next Prefill - 1.                 *)
LEMMA Conceals ==
  ASSUME NEW top \in Nat, NEW frames \in SUBSET (0 .. top), frames # {}, NEW n \in Nat, NEW a,
         a.next = FrameIndex(n), \A k \in frames : n < k /\ k - n < AudioHalf
  PROVE  CanConceal(a, frames)
  <1>1. Close(frames) /\ frames \in SUBSET Nat
    BY AudioBounds DEF Close
  <1> DEFINE old == OldestOf(frames)
             new == NewestOf(frames)
  <1>2. old \in frames /\ new \in frames /\ \A k \in frames : k <= new
    BY <1>1, OldestIsFirst, NewestIsLast
  <1> HIDE DEF old, new
  <1>3. Frame!SeqGt(FrameIndex(old), a.next)
    <2>1. old \in Nat /\ n < old /\ old - n < AudioHalf /\ n - old < AudioHalf
      BY <1>2, AudioBounds
    <2> QED
      BY <2>1, FrameOrder
  <1>4. ASSUME Cardinality(frames) >= Prefill
        PROVE  Frame!SeqGt(FrameIndex(new), Frame!SeqAdd(a.next, Prefill - 1))
    <2>1. new \in Nat /\ n < new /\ new - n < AudioHalf
      BY <1>2
    <2>2. frames \in SUBSET (n + 1 .. new)
      BY <1>1, <1>2, <2>1
    <2>3. IsFiniteSet(n + 1 .. new) /\ Cardinality(n + 1 .. new) = new - n
      <3>1. n + 1 \in Int /\ new \in Int
        BY <2>1
      <3>2. Cardinality(n + 1 .. new) = IF n + 1 > new THEN 0 ELSE new - (n + 1) + 1
        BY <3>1, FS_Interval
      <3>3. IsFiniteSet(n + 1 .. new)
        BY <3>1, FS_Interval
      <3> QED
        BY <2>1, <3>2, <3>3
    <2>4. Cardinality(frames) <= new - n /\ Cardinality(frames) \in Nat
      BY <2>2, <2>3, FS_Subset, FS_CardinalityType, ZenonT(40)
    <2>5. n + (Prefill - 1) < new /\ Prefill - 1 \in Nat /\ Prefill - 1 < AudioHalf
      BY <1>4, <2>1, <2>4, AudioBounds
    <2>6. Frame!SeqAdd(a.next, Prefill - 1) = FrameIndex(n + (Prefill - 1))
      BY <2>5, FrameLater
    <2>7. n + (Prefill - 1) \in Nat /\ new - (n + (Prefill - 1)) < AudioHalf /\ (n + (Prefill - 1)) - new < AudioHalf
      BY <2>1, <2>5, AudioBounds
    <2> HIDE DEF new
    <2> QED
      BY <2>1, <2>5, <2>6, <2>7, FrameOrder
  <1> QED
    BY <1>3, <1>4 DEF CanConceal, old, new

-----------------------------------------------------------------------------
(* Sequences that begin with a given element. *)
LEMMA PutFirst ==
  ASSUME NEW S, NEW t \in Seq(S), NEW x
  PROVE  /\ <<x>> \o t # <<>> /\ Head(<<x>> \o t) = x /\ Tail(<<x>> \o t) = t
  <1> DEFINE T == S \union {x}
             s == <<x>> \o t
  <1>1. t \in Seq(T) /\ <<x>> \in Seq(T)
    BY SeqMonotonic
  <1>2. Len(<<x>>) = 1 /\ <<x>>[1] = x
    OBVIOUS
  <1>3. /\ s \in Seq(T) /\ Len(s) = 1 + Len(t)
        /\ \A i \in 1 .. 1 + Len(t) : s[i] = IF i <= 1 THEN <<x>>[i] ELSE t[i - 1]
    BY <1>1, <1>2, ConcatProperties
  <1>4. Len(t) \in Nat /\ t = [i \in 1 .. Len(t) |-> t[i]]
    BY <1>1, LenProperties
  <1> HIDE DEF s, T
  <1>5. s # <<>> /\ Head(s) = x
    BY <1>2, <1>3, <1>4, EmptySeq
  <1>6. /\ Tail(s) \in Seq(T) /\ Len(Tail(s)) = Len(t)
        /\ \A i \in 1 .. Len(t) : Tail(s)[i] = s[i + 1]
    BY <1>3, <1>4, <1>5, HeadTailProperties
  <1>7. \A i \in 1 .. Len(t) : Tail(s)[i] = t[i]
    <2>1. \A i \in 1 .. Len(t) : i + 1 \in 1 .. 1 + Len(t) /\ ~(i + 1 <= 1) /\ (i + 1) - 1 = i
      BY <1>4
    <2> QED
      BY <1>3, <1>6, <2>1
  <1>8. Tail(s) = [i \in 1 .. Len(t) |-> Tail(s)[i]]
    BY <1>6, LenProperties
  <1>9. Tail(s) = t
    BY <1>4, <1>7, <1>8
  <1> QED
    BY <1>5, <1>9 DEF s

(* What is left of a packet without a stored unit. *)
LEMMA RestRemains ==
  ASSUME NEW S \in SUBSET Nat, NEW u \in Seq(S)
  PROVE  Remaining(u, S) /\ (u # <<>> => Head(u) # StoredUnit)
  BY HeadTailProperties DEF Remaining, StoredUnit

(* The same with a stored unit put first. *)
LEMMA StoredRemains ==
  ASSUME NEW S \in SUBSET Nat, NEW t \in Seq(S)
  PROVE  /\ Remaining(<<StoredUnit>> \o t, S)
         /\ <<StoredUnit>> \o t # <<>> /\ Head(<<StoredUnit>> \o t) = StoredUnit
  BY PutFirst DEF Remaining

(* Arithmetic of frames. *)
LEMMA FrameAfter ==
  ASSUME NEW n \in Int, NEW k \in Int, NEW h \in Int, n <= k, k # n, k - n < h
  PROVE  n + 1 <= k /\ k - (n + 1) < h
  OBVIOUS

(* A frame after the last and up to the end is close to one close to both. *)
LEMMA FrameBetween ==
  ASSUME NEW l \in Int, NEW n \in Int, NEW f \in Int, NEW e \in Int, NEW h \in Int,
         l < n, n <= e, e - f < h, f - l < h
  PROVE  n - f < h /\ f - n < h
  OBVIOUS

(* The invariant by its parts. *)
LEMMA AudioParts ==
  AudioInv <=> /\ audio \in AudioRecords /\ HeardTyped(heard)
               /\ ~audio.startup => heard.sent > AudioHalf
               /\ jitter \in SUBSET (0 .. heard.sent + AudioSource - 1)
               /\ Remaining(units, Fitting(jitter, heard))
               /\ IF audio.haptics THEN Vibrates
                  ELSE IF audio.started THEN Playing(audio, jitter, heard) /\ (NoStoredUnit => jitter = {})
                  ELSE Waiting(jitter, heard) /\ NoStoredUnit
  BY DEF AudioInv

(* The next time around. *)
LEMMA AudioPartsLater ==
  AudioInv' <=> /\ audio' \in AudioRecords /\ HeardTyped(heard')
                /\ ~audio'.startup => heard'.sent > AudioHalf
                /\ jitter' \in SUBSET (0 .. heard'.sent + AudioSource - 1)
                /\ Remaining(units', Fitting(jitter', heard'))
                /\ IF audio'.haptics THEN Vibrates'
                   ELSE IF audio'.started THEN Playing(audio', jitter', heard') /\ (NoStoredUnit' => jitter' = {})
                   ELSE Waiting(jitter', heard') /\ NoStoredUnit'
  BY DEF AudioInv, AudioRecords, HeardTyped, Remaining, Playing, Waiting, Close, Fitting, Fits

-----------------------------------------------------------------------------
(* A frame that may be stored fits to those that are kept. *)
LEMMA FitsClose ==
  ASSUME HeardTyped(heard), jitter \in SUBSET (0 .. heard.sent + AudioSource - 1), NEW n \in Fitting(jitter, heard)
  PROVE  /\ n \in Nat /\ n \in 0 .. heard.sent + AudioSource - 1 /\ n - heard.last < AudioHalf
         /\ \A k \in jitter : k - n < AudioHalf /\ n - k < AudioHalf
         /\ Fitting(jitter, heard) \subseteq Fitting(jitter \union {n}, heard)
         /\ heard.sent + AudioSource - n < AudioHalf
  <1>1. /\ heard.sent \in Nat /\ heard.last \in Nat \union {-1}
        /\ n \in Nat /\ n >= heard.sent - 2 - AudioFec /\ n <= heard.sent + AudioSource - 1 /\ n - heard.last < AudioHalf
        /\ \A k \in jitter : n - k < AudioHalf
    BY DEF HeardTyped, Fitting, Fits
  <1>2. \A k \in jitter : k \in Nat /\ k <= heard.sent + AudioSource - 1
    BY <1>1, AudioBounds
  <1>3. \A k \in jitter : k - n < AudioHalf
    BY <1>1, <1>2, AudioBounds
  <1>4. \A m \in Fitting(jitter, heard) : m \in Nat /\ m - n < AudioHalf
    BY <1>1, AudioBounds DEF Fitting, Fits
  <1>5. Fitting(jitter, heard) \subseteq Fitting(jitter \union {n}, heard)
    BY <1>4 DEF Fitting, Fits
  <1>6. n \in 0 .. heard.sent + AudioSource - 1 /\ heard.sent + AudioSource - n < AudioHalf
    BY <1>1, AudioBounds
  <1> QED
    BY <1>1, <1>3, <1>5, <1>6

(* Storing a frame, or going on after one was stored. *)
LEMMA StoringKeeps ==
  ASSUME AudioInv, units # <<>>, ~audio.haptics,
         Head(units) # StoredUnit => ~TooLate(Head(units)) /\ CanStore(Head(units)),
         NEW frames, frames = IF Head(units) = StoredUnit THEN jitter ELSE WithStored(Head(units)),
         NEW a, a = StartedWith(frames)
  PROVE  /\ frames \in SUBSET (0 .. heard.sent + AudioSource - 1)
         /\ a \in AudioRecords /\ ~a.haptics /\ a.startup = audio.startup
         /\ Tail(units) \in Seq(Fitting(frames, heard))
         /\ IF a.started THEN Playing(a, frames, heard) ELSE Waiting(frames, heard)
  <1> DEFINE first == Head(units)
             top == heard.sent + AudioSource - 1
  <1>0. /\ audio \in AudioRecords /\ HeardTyped(heard) /\ jitter \in SUBSET (0 .. top)
        /\ first \in Fitting(jitter, heard) \union {StoredUnit} /\ Tail(units) \in Seq(Fitting(jitter, heard))
        /\ IF audio.started THEN Playing(audio, jitter, heard) /\ (NoStoredUnit => jitter = {})
           ELSE Waiting(jitter, heard) /\ NoStoredUnit
    BY AudioParts DEF Remaining
  <1>1. heard.sent \in Nat /\ heard.last \in Nat \union {-1} /\ top \in Nat
    BY <1>0, AudioBounds, SMTT(30) DEF HeardTyped
  <1>2. audio.started => a = audio
    BY DEF StartedWith
  <1>3. CASE first = StoredUnit
    <2>1. audio.started /\ frames = jitter
      BY <1>0, <1>3 DEF NoStoredUnit
    <2> QED
      BY <1>0, <1>2, <2>1
  <1>4. CASE first # StoredUnit
    <2>1. first \in Fitting(jitter, heard) /\ NoStoredUnit
      BY <1>0, <1>4 DEF NoStoredUnit
    <2>2. /\ first \in Nat /\ first \in 0 .. top /\ first - heard.last < AudioHalf
          /\ \A k \in jitter : k - first < AudioHalf /\ first - k < AudioHalf
          /\ Fitting(jitter, heard) \subseteq Fitting(jitter \union {first}, heard)
          /\ heard.sent + AudioSource - first < AudioHalf
      BY <1>0, <2>1, FitsClose
    <2>3. ~TooLate(first)
      BY <1>4
    <2>4. IsFiniteSet(jitter) /\ Cardinality(jitter) \in Nat
      <3>1. IsFiniteSet(0 .. top)
        BY <1>1, FS_Interval
      <3> QED
        BY <1>0, <3>1, FS_Subset, FS_CardinalityType
    <2>5. Cardinality(jitter) # JitterSize
      <3>1. CASE audio.started
        <4>1. jitter = {}
          BY <1>0, <2>1, <3>1
        <4> QED
          BY <4>1, AudioBounds, FS_EmptySet
      <3>2. CASE ~audio.started
        BY <1>0, <2>4, <3>2, AudioBounds DEF Waiting
      <3> QED
        BY <3>1, <3>2
    <2>6. frames = jitter \union {first}
      BY <1>4, <2>5 DEF WithStored
    <2>7. frames \in SUBSET (0 .. top)
      BY <1>0, <2>2, <2>6
    <2>8. Tail(units) \in Seq(Fitting(frames, heard))
      BY <1>0, <2>2, <2>6, SeqMonotonic
    <2>9. CASE audio.started
      <3>1. jitter = {} /\ a = audio /\ frames = {first}
        BY <1>0, <1>2, <2>1, <2>6, <2>9
      <3>2. PICK n \in 0 .. heard.sent + AudioSource : audio.next = FrameIndex(n) /\ heard.last < n
        BY <1>0, <2>9 DEF Playing
      <3>3. n \in Nat /\ n - first < AudioHalf /\ first - n < AudioHalf
        <4> DEFINE e == heard.sent + AudioSource
        <4>1. n \in Int /\ 0 <= n /\ n <= e /\ e \in Int /\ heard.last \in Int /\ heard.last < n
          BY <1>1, <3>2, AudioBounds
        <4> HIDE DEF first
        <4>2. /\ first \in Int /\ AudioHalf \in Int
              /\ heard.sent + AudioSource - first < AudioHalf /\ first - heard.last < AudioHalf
          <5>1. first \in Int
            BY <2>2
          <5>2. AudioHalf \in Int
            BY AudioBounds
          <5>3. heard.sent + AudioSource - first < AudioHalf
            BY <2>2, Zenon
          <5>4. first - heard.last < AudioHalf
            BY <2>2, Zenon
          <5> QED
            BY <5>1, <5>2, <5>3, <5>4
        <4>3. n - first < AudioHalf /\ first - n < AudioHalf
          <5>1. e - first < AudioHalf
            BY <1>1, <4>2, AudioBounds
          <5> HIDE DEF e
          <5> QED
            BY <4>1, <4>2, <5>1, FrameBetween
        <4> QED
          BY <4>1, <4>3
      <3>4. ~(first < n)
        BY <2>2, <2>3, <2>9, <3>2, <3>3, FrameOrder DEF TooLate
      <3>5. Playing(a, frames, heard)
        BY <2>2, <3>1, <3>2, <3>3, <3>4 DEF Playing
      <3> QED
        BY <1>0, <2>7, <2>8, <2>9, <3>1, <3>5
    <2>10. CASE ~audio.started
      <3>1. Waiting(jitter, heard)
        BY <1>0, <2>10
      <3>2. Close(frames)
        BY <2>2, <2>6, <3>1, AudioBounds DEF Waiting, Close
      <3>3. CASE Cardinality(frames) >= Prefill
        <4> DEFINE old == OldestOf(frames)
        <4>1. old \in frames /\ \A k \in frames : old <= k
          <5>1. frames \in SUBSET Nat /\ frames # {}
            <6>1. 0 .. top \subseteq Nat /\ first \in frames
              BY <1>1, <2>6
            <6> QED
              BY <2>7, <6>1
          <5> QED
            BY <3>2, <5>1, OldestIsFirst
        <4>2. a = [audio EXCEPT !.next = FrameIndex(old), !.started = TRUE]
          BY <2>10, <3>3 DEF StartedWith
        <4> HIDE DEF old
        <4>3. old \in Nat /\ old \in 0 .. heard.sent + AudioSource
          BY <1>1, <2>7, <4>1, AudioBounds
        <4>4. a \in AudioRecords /\ a.next = FrameIndex(old) /\ a.started /\ a.haptics = audio.haptics
              /\ a.startup = audio.startup
          BY <1>0, <4>2, <4>3, FrameLater DEF AudioRecords
        <4>5. Playing(a, frames, heard)
          <5>1. heard.last < old
            BY <3>1, <4>3 DEF Waiting
          <5> QED
            BY <3>2, <4>1, <4>3, <4>4, <5>1 DEF Playing, Close
        <4> QED
          BY <2>7, <2>8, <4>4, <4>5
      <3>4. CASE ~(Cardinality(frames) >= Prefill)
        <4>1. a = audio
          BY <3>4 DEF StartedWith
        <4>2. Cardinality(frames) \in Nat
          BY <2>4, <2>6, FS_AddElement, FS_CardinalityType
        <4>3. Waiting(frames, heard)
          BY <3>1, <3>2, <3>4, <4>2, AudioBounds DEF Waiting
        <4> QED
          BY <1>0, <2>7, <2>8, <2>10, <4>1, <4>3
      <3> QED
        BY <3>3, <3>4
    <2> QED
      BY <2>9, <2>10
  <1> QED
    BY <1>3, <1>4

(* A round of the receiver: a frame is played, or concealed, or the packet  *)
(* goes on.                                                                 *)
LEMMA PlaysKeeps == ASSUME AudioInv, Plays PROVE AudioInv'
  <1> DEFINE first == Head(units)
             rest == Tail(units)
             top == heard.sent + AudioSource - 1
  <1>1. units # <<>> /\ ~audio.haptics /\ (first # StoredUnit => ~TooLate(first) /\ CanStore(first))
    BY DEF Plays
  <1>2. PICK frames : frames = IF first = StoredUnit THEN jitter ELSE WithStored(first)
    OBVIOUS
  <1>3. PICK a : a = StartedWith(frames)
    OBVIOUS
  <1>4. /\ HeardTyped(heard) /\ (~audio.startup => heard.sent > AudioHalf)
        /\ frames \in SUBSET (0 .. top)
        /\ a \in AudioRecords /\ ~a.haptics /\ a.startup = audio.startup
        /\ rest \in Seq(Fitting(frames, heard))
        /\ IF a.started THEN Playing(a, frames, heard) ELSE Waiting(frames, heard)
    BY <1>1, <1>2, <1>3, AudioParts, StoringKeeps
  <1>5. /\ heard.sent \in Nat /\ heard.last \in Nat \union {-1} /\ heard.last \in Int /\ top \in Nat
        /\ heard.wrong = FALSE
        /\ heard = [last |-> heard.last, sent |-> heard.sent, info |-> heard.info, wrong |-> heard.wrong]
    BY <1>4, AudioBounds, SMTT(30) DEF HeardTyped
  <1>6. \/ /\ a.started
           /\ \E n \in WithIndex(frames, a.next) : jitter' = frames \ {n} /\ Hears(n)
           /\ audio' = Advanced(a) /\ units' = <<StoredUnit>> \o rest
        \/ /\ a.started /\ WithIndex(frames, a.next) = {} /\ CanConceal(a, frames)
           /\ jitter' = frames /\ audio' = Advanced(a) /\ units' = <<StoredUnit>> \o rest
           /\ UNCHANGED heard
        \/ /\ a.started => WithIndex(frames, a.next) = {} /\ ~CanConceal(a, frames)
           /\ jitter' = frames /\ audio' = a /\ units' = rest
           /\ UNCHANGED heard
    BY <1>2, <1>3 DEF Plays
  <1> HIDE DEF first, rest
  <1>7. ASSUME a.started, NEW n \in 0 .. heard.sent + AudioSource, n <= top, a.next = FrameIndex(n),
               audio' = Advanced(a)
        PROVE  /\ audio' \in AudioRecords /\ ~audio'.haptics /\ audio'.startup = a.startup /\ audio'.started
               /\ audio'.next = FrameIndex(n + 1) /\ n \in Nat /\ n + 1 \in 0 .. heard.sent + AudioSource
    <2>1. n \in Nat /\ n + 1 \in Nat /\ n + 1 \in 0 .. heard.sent + AudioSource /\ 1 \in Nat /\ 1 < AudioHalf
      BY <1>5, <1>7, AudioBounds
    <2>2. Frame!SeqAdd(a.next, 1) = FrameIndex(n + 1) /\ FrameIndex(n + 1) \in Frame!SeqNums
      BY <1>7, <2>1, FrameLater
    <2>3. audio' = [a EXCEPT !.prev = a.next, !.next = FrameIndex(n + 1)]
      BY <1>7, <2>2 DEF Advanced
    <2> QED
      BY <1>4, <1>7, <2>1, <2>2, <2>3 DEF AudioRecords
  <1>8. Fitting(frames, heard) \in SUBSET Nat
    BY DEF Fitting
  <1>9. CASE a.started /\ (\E n \in WithIndex(frames, a.next) : jitter' = frames \ {n} /\ Hears(n))
             /\ audio' = Advanced(a) /\ units' = <<StoredUnit>> \o rest
    <2>1. PICK m \in frames : FrameIndex(m) = a.next /\ jitter' = frames \ {m} /\ Hears(m)
      BY <1>9 DEF WithIndex
    <2>2. PICK n \in 0 .. heard.sent + AudioSource :
             a.next = FrameIndex(n) /\ heard.last < n /\ \A k \in frames : n <= k /\ k - n < AudioHalf
      BY <1>4, <1>9 DEF Playing
    <2>3. m = n
      <3>1. m \in Nat /\ n \in Nat /\ n <= m /\ m - n < AudioHalf /\ n - m < AudioHalf
        BY <1>4, <1>5, <2>1, <2>2, AudioBounds, SMTT(30)
      <3> QED
        BY <2>1, <2>2, <3>1, FrameOrder
    <2>4. n <= top /\ n \in Nat
      BY <1>4, <1>5, <2>1, <2>3
    <2>5. /\ audio' \in AudioRecords /\ ~audio'.haptics /\ audio'.startup = a.startup /\ audio'.started
          /\ audio'.next = FrameIndex(n + 1) /\ n \in Nat /\ n + 1 \in 0 .. heard.sent + AudioSource
      BY <1>7, <1>9, <2>2, <2>4
    <2>6. heard' = [last |-> n, sent |-> heard.sent, info |-> heard.info, wrong |-> FALSE]
      <3>1. heard' = [heard EXCEPT !.last = n, !.wrong = (heard.wrong \/ n <= heard.last)]
        BY <2>1, <2>3 DEF Hears
      <3>2. (heard.wrong \/ n <= heard.last) = FALSE
        <4>1. ~(n <= heard.last)
          BY <1>5, <2>2, <2>4
        <4> QED
          BY <1>5, <4>1
      <3> QED
        BY <1>5, <3>1, <3>2
    <2>7. HeardTyped(heard') /\ heard'.sent = heard.sent /\ heard'.last = n
      BY <1>5, <2>4, <2>6, AudioBounds DEF HeardTyped
    <2>8. \A k \in frames \ {n} : k \in Int /\ n + 1 <= k /\ k - (n + 1) < AudioHalf
      <3>1. \A k \in frames : k \in Int
        BY <1>4, <1>5
      <3>2. AudioHalf \in Int /\ n \in Int
        BY <2>4, AudioBounds
      <3> QED
        BY <2>2, <3>1, <3>2, FrameAfter
    <2>9. Playing(audio', jitter', heard')
      BY <2>1, <2>3, <2>4, <2>5, <2>7, <2>8 DEF Playing
    <2>10. Fitting(frames, heard) \subseteq Fitting(jitter', heard')
      BY <1>5, <2>1, <2>2, <2>4, <2>7, AudioBounds DEF Fitting, Fits
    <2>11. rest \in Seq(Fitting(jitter', heard')) /\ Fitting(jitter', heard') \in SUBSET Nat
      BY <1>4, <2>10, SeqMonotonic DEF Fitting
    <2>12. Remaining(units', Fitting(jitter', heard')) /\ ~NoStoredUnit'
      BY <1>9, <2>11, StoredRemains DEF NoStoredUnit
    <2>13. jitter' \in SUBSET (0 .. heard'.sent + AudioSource - 1)
      BY <1>4, <2>1, <2>7
    <2> QED
      BY <1>4, <2>5, <2>7, <2>9, <2>12, <2>13, AudioPartsLater
  <1>10. CASE a.started /\ WithIndex(frames, a.next) = {} /\ CanConceal(a, frames)
              /\ jitter' = frames /\ audio' = Advanced(a) /\ units' = <<StoredUnit>> \o rest
              /\ UNCHANGED heard
    <2>1. PICK n \in 0 .. heard.sent + AudioSource :
             a.next = FrameIndex(n) /\ heard.last < n /\ \A k \in frames : n <= k /\ k - n < AudioHalf
      BY <1>4, <1>10 DEF Playing
    <2>2. n \notin frames
      BY <1>10, <2>1 DEF WithIndex
    <2>3. \A k \in frames : k \in Int /\ n + 1 <= k /\ k - (n + 1) < AudioHalf /\ n <= top
      <3>1. \A k \in frames : k \in Int /\ k <= top
        BY <1>4, <1>5
      <3>2. AudioHalf \in Int /\ n \in Int /\ top \in Int
        BY <1>5, AudioBounds
      <3>3. \A k \in frames : n + 1 <= k /\ k - (n + 1) < AudioHalf
        BY <2>1, <2>2, <3>1, <3>2, FrameAfter
      <3> HIDE DEF top
      <3> QED
        BY <2>1, <3>1, <3>2, <3>3
    <2>4. n <= top
      BY <1>10, <2>3 DEF CanConceal
    <2>5. /\ audio' \in AudioRecords /\ ~audio'.haptics /\ audio'.startup = a.startup /\ audio'.started
          /\ audio'.next = FrameIndex(n + 1) /\ n \in Nat /\ n + 1 \in 0 .. heard.sent + AudioSource
      BY <1>7, <1>10, <2>1, <2>4
    <2>6. heard.last < n + 1
      BY <1>5, <2>1, <2>5
    <2>7. Playing(audio', jitter', heard')
      BY <1>10, <2>3, <2>5, <2>6 DEF Playing
    <2>8. Remaining(units', Fitting(jitter', heard')) /\ ~NoStoredUnit'
      BY <1>4, <1>8, <1>10, StoredRemains DEF NoStoredUnit
    <2> QED
      BY <1>4, <1>10, <2>5, <2>7, <2>8, AudioPartsLater
  <1>11. CASE (a.started => WithIndex(frames, a.next) = {} /\ ~CanConceal(a, frames))
              /\ jitter' = frames /\ audio' = a /\ units' = rest /\ UNCHANGED heard
    <2>1. Remaining(units', Fitting(jitter', heard')) /\ NoStoredUnit'
      BY <1>4, <1>8, <1>11, RestRemains DEF NoStoredUnit
    <2>2. ASSUME a.started PROVE frames = {}
      <3>1. PICK n \in 0 .. heard.sent + AudioSource :
               a.next = FrameIndex(n) /\ \A k \in frames : n <= k /\ k - n < AudioHalf
        BY <1>4, <2>2 DEF Playing
      <3>2. n \notin frames /\ n \in Nat
        BY <1>5, <1>11, <2>2, <3>1, AudioBounds DEF WithIndex
      <3>3. \A k \in frames : n < k /\ k - n < AudioHalf
        BY <1>4, <1>5, <3>1, <3>2
      <3>4. ~CanConceal(a, frames)
        BY <1>11, <2>2
      <3> HIDE DEF top
      <3> QED
        BY <1>4, <1>5, <3>1, <3>2, <3>3, <3>4, Conceals
    <2> QED
      BY <1>4, <1>11, <2>1, <2>2, AudioPartsLater
  <1> QED
    BY <1>6, <1>9, <1>10, <1>11

(* What an assignment to fields of the history makes of it. *)
LEMMA HeardFields ==
  ASSUME NEW h, HeardTyped(h), NEW s, NEW i
  PROVE  /\ [h EXCEPT !.sent = s] = [last |-> h.last, sent |-> s, info |-> h.info, wrong |-> FALSE]
         /\ [h EXCEPT !.info = i, !.last = s] = [last |-> s, sent |-> h.sent, info |-> i, wrong |-> FALSE]
  <1>1. h = [last |-> h.last, sent |-> h.sent, info |-> h.info, wrong |-> FALSE]
    BY DEF HeardTyped
  <1>2. h.wrong = FALSE
    BY <1>1
  <1>3. h = [last |-> h.last, sent |-> h.sent, info |-> h.info, wrong |-> h.wrong]
    BY <1>1, <1>2, Zenon
  <1>4. ASSUME NEW g, g = [h EXCEPT !.sent = s]
        PROVE  g = [last |-> h.last, sent |-> s, info |-> h.info, wrong |-> h.wrong]
    BY <1>3, <1>4
  <1>5. ASSUME NEW g, g = [h EXCEPT !.info = i, !.last = s]
        PROVE  g = [last |-> s, sent |-> h.sent, info |-> i, wrong |-> h.wrong]
    BY <1>3, <1>5
  <1> QED
    BY <1>2, <1>4, <1>5, Zenon

(* A copy lies between the FEC units before a packet and its last unit. *)
LEMMA CopiesAreNear ==
  ASSUME NEW p \in Int, NEW fec \in Int, NEW source \in Int, NEW skip \in Int, NEW j \in Int,
         source >= 1, skip >= 0, j >= 0, j + skip < fec, (p - fec) + skip >= 0
  PROVE  /\ ((p - fec) + skip) + j \in Nat
         /\ ((p - fec) + skip) + j >= p - fec
         /\ ((p - fec) + skip) + j < p + source
  OBVIOUS

(* A packet brings frames that fit. *)
LEMMA PacketFits ==
  ASSUME AudioInv, NEW p \in AudioArriving, units = <<>>,
         heard' = [heard EXCEPT !.sent = IF p > heard.sent THEN p ELSE heard.sent]
  PROVE  /\ HeardTyped(heard') /\ heard'.last = heard.last /\ heard'.sent >= heard.sent
         /\ ~Startup(p) => heard'.sent > AudioHalf
         /\ [i \in 1 .. AudioSource |-> p + (i - 1)] \in Seq(Fitting(jitter, heard'))
         /\ Copies(p) \in Seq(Fitting(jitter, heard'))
  <1>1. /\ HeardTyped(heard) /\ (~audio.startup => heard.sent > AudioHalf)
        /\ jitter \in SUBSET (0 .. heard.sent + AudioSource - 1)
    BY AudioParts
  <1>2. /\ heard.sent \in Nat /\ heard.last \in Int /\ AudioSource \in Int /\ AudioFec \in Int /\ AudioHalf \in Int
        /\ heard.last \in Nat \union {-1} /\ heard.last < heard.sent + AudioSource
        /\ heard = [last |-> heard.last, sent |-> heard.sent, info |-> heard.info, wrong |-> FALSE]
    BY <1>1, AudioBounds DEF HeardTyped
  <1>3. /\ p \in Nat /\ p >= heard.sent - 2
        /\ \A n \in jitter \union {heard.last} : (p + AudioSource) - n <= AudioHalf
    BY <1>2, AudioAssumption DEF AudioArriving
  <1> DEFINE sentNow == IF p > heard.sent THEN p ELSE heard.sent
  <1>4. sentNow \in Nat /\ sentNow >= p /\ sentNow >= heard.sent /\ p >= sentNow - 2
    BY <1>2, <1>3
  <1>2a. heard' = [heard EXCEPT !.sent = sentNow]
    OBVIOUS
  <1> HIDE DEF sentNow
  <1>5. heard' = [last |-> heard.last, sent |-> sentNow, info |-> heard.info, wrong |-> FALSE]
    BY <1>1, <1>2a, HeardFields
  <1>6. /\ HeardTyped(heard') /\ heard'.last = heard.last /\ heard'.sent >= heard.sent /\ heard'.sent = sentNow
    <2>1. heard.last < sentNow + AudioSource
      BY <1>2, <1>4
    <2>1a. heard'.last = heard.last /\ heard'.sent = sentNow /\ heard'.info = heard.info
      BY <1>5
    <2>2. /\ heard'.last = heard.last /\ heard'.sent = sentNow /\ heard'.info = heard.info
          /\ heard' = [last |-> heard'.last, sent |-> heard'.sent, info |-> heard'.info, wrong |-> FALSE]
      BY <1>5, <2>1a, Zenon
    <2>3. heard'.last < heard'.sent + AudioSource /\ heard'.sent \in Nat /\ heard'.last \in Nat \union {-1}
      BY <1>2, <1>4, <2>1, <2>2
    <2> QED
      BY <1>4, <2>2, <2>3 DEF HeardTyped
  <1>7. ~Startup(p) => sentNow > AudioHalf
    <2>1. FrameIndex(p) <= p /\ FrameIndex(p) \in Int
      BY <1>3, FrameLater, AudioBounds DEF Frame!SeqNums
    <2> QED
      BY <1>1, <1>2, <1>3, <1>4, <2>1 DEF Startup
  <1>8. ASSUME NEW n \in Nat, n >= p - AudioFec, n < p + AudioSource
        PROVE  n \in Fitting(jitter, heard')
    <2>1. \A k \in jitter : k \in Int
      BY <1>1, <1>2
    <2>2. n >= (sentNow - 2) - AudioFec /\ n <= (sentNow + AudioSource) - 1
      BY <1>2, <1>3, <1>4, <1>8, SMTT(30)
    <2>3. \A k \in jitter \union {heard.last} : n - k < AudioHalf
      BY <1>2, <1>3, <1>8, <2>1
    <2> QED
      BY <1>2, <1>4, <1>6, <2>2, <2>3, SMTT(30) DEF Fitting, Fits
  <1>9. [i \in 1 .. AudioSource |-> p + (i - 1)] \in Seq(Fitting(jitter, heard'))
    <2>1. AudioSource \in Nat /\ p \in Nat /\ p - AudioFec <= p
      BY <1>2, <1>3, AudioBounds
    <2>2. ASSUME NEW i \in 1 .. AudioSource PROVE p + (i - 1) \in Fitting(jitter, heard')
      <3>1. PICK j \in Nat : j = i - 1 /\ j < AudioSource
        BY <2>1
      <3>2. p + j \in Nat /\ p + j >= p - AudioFec /\ p + j < p + AudioSource
        BY <1>2, <2>1, <3>1
      <3> QED
        BY <1>8, <3>1, <3>2
    <2> DEFINE S == Fitting(jitter, heard')
    <2>3. \A i \in 1 .. AudioSource : p + (i - 1) \in S
      BY <2>2
    <2> HIDE DEF S
    <2>4. [i \in 1 .. AudioSource |-> p + (i - 1)] \in Seq(S)
      BY <2>1, <2>3
    <2> QED
      BY <2>4 DEF S
  <1>10. Copies(p) \in Seq(Fitting(jitter, heard'))
    <2> DEFINE skip == FirstCopy(p)
               copy(i) == (p - AudioFec) + skip + (i - 1)
    <2>1. FrameIndex(p) \in Nat /\ FrameIndex(p) <= p
      BY <1>3, FrameLater, AudioBounds DEF Frame!SeqNums, Frame!SeqMod
    <2>2. skip \in Nat /\ skip <= AudioFec + 1
      BY <1>2, <2>1, AudioBounds DEF FirstCopy
    <2>3. (p - AudioFec) + skip >= 0
      <3>1. CASE Startup(p) /\ FrameIndex(p) <= AudioFec
        BY <1>2, <1>3, <2>1, <3>1 DEF FirstCopy
      <3>2. CASE FrameIndex(p) > AudioFec
        BY <1>2, <1>3, <2>1, <2>2, <3>2
      <3>3. CASE ~Startup(p)
        <4>1. sentNow > AudioHalf
          BY <1>7, <3>3
        <4>2. p > AudioFec /\ p \in Int /\ AudioFec \in Int
          BY <1>2, <1>3, <1>4, <4>1, AudioBounds, SMTT(30)
        <4> HIDE DEF skip
        <4> QED
          BY <2>2, <4>2, SMTT(30)
      <3> QED
        BY <1>2, <2>1, <3>1, <3>2, <3>3
    <2> HIDE DEF skip
    <2>4. ASSUME NEW i \in 1 .. AudioFec - skip PROVE copy(i) \in Fitting(jitter, heard')
      <3>1. i \in Int /\ 1 <= i /\ i <= AudioFec - skip /\ skip \in Int /\ p \in Int
        BY <1>2, <1>3, <2>2, <2>4
      <3>2. i - 1 \in Int /\ i - 1 >= 0 /\ (i - 1) + skip < AudioFec
        BY <1>2, <3>1
      <3>3. AudioSource \in Int /\ AudioSource >= 1 /\ skip >= 0
        BY <2>2, AudioBounds
      <3>4. copy(i) = ((p - AudioFec) + skip) + (i - 1) /\ AudioFec \in Int
        BY <1>2, <3>1
      <3>5. copy(i) \in Nat /\ copy(i) >= p - AudioFec /\ copy(i) < p + AudioSource
        BY <2>3, <3>1, <3>2, <3>3, <3>4, CopiesAreNear
      <3> HIDE DEF copy
      <3> QED
        BY <1>8, <3>5
    <2>5. Copies(p) = [i \in 1 .. AudioFec - skip |-> copy(i)]
      BY DEF Copies, skip
    <2> HIDE DEF copy
    <2>6. CASE skip <= AudioFec
      <3>1. AudioFec - skip \in Nat
        BY <1>2, <2>2, <2>6
      <3> QED
        BY <2>4, <2>5, <3>1
    <2>7. CASE skip = AudioFec + 1
      <3>1. \A i \in 1 .. AudioFec - skip : FALSE
        BY <1>2, <2>7
      <3>2. 1 .. AudioFec - skip = {}
        BY <3>1
      <3>3. Copies(p) = <<>>
        BY <2>5, <3>2
      <3> QED
        BY <3>3
    <2> QED
      BY <1>2, <2>2, <2>6, <2>7
  <1> QED
    BY <1>6, <1>7, <1>9, <1>10

(* A packet that arrives. *)
LEMMA PacketKeeps == ASSUME AudioInv, NEW p \in AudioArriving, AudioPacket(p) PROVE AudioInv'
  <1>1. /\ audio \in AudioRecords /\ HeardTyped(heard)
        /\ jitter \in SUBSET (0 .. heard.sent + AudioSource - 1)
        /\ IF audio.haptics THEN Vibrates
           ELSE IF audio.started THEN Playing(audio, jitter, heard) /\ (NoStoredUnit => jitter = {})
           ELSE Waiting(jitter, heard) /\ NoStoredUnit
    BY AudioParts
  <1>2. /\ units = <<>> /\ units' = [i \in 1 .. AudioSource |-> p + (i - 1)] \o Copies(p)
        /\ audio' = [audio EXCEPT !.startup = Startup(p)] /\ UNCHANGED jitter
        /\ heard' = [heard EXCEPT !.sent = IF p > heard.sent THEN p ELSE heard.sent]
    BY DEF AudioPacket
  <1>3. /\ HeardTyped(heard') /\ heard'.last = heard.last /\ heard'.sent >= heard.sent
        /\ ~Startup(p) => heard'.sent > AudioHalf
        /\ [i \in 1 .. AudioSource |-> p + (i - 1)] \in Seq(Fitting(jitter, heard'))
        /\ Copies(p) \in Seq(Fitting(jitter, heard'))
    BY <1>2, PacketFits
  <1>4. /\ audio' \in AudioRecords /\ audio'.haptics = audio.haptics /\ audio'.started = audio.started
        /\ audio'.prev = audio.prev /\ audio'.next = audio.next /\ audio'.startup = Startup(p)
    <2>1. Startup(p) \in BOOLEAN
      BY <1>1 DEF Startup, AudioRecords
    <2> QED
      BY <1>1, <1>2, <2>1 DEF AudioRecords
  <1>5. /\ heard.sent \in Nat /\ heard'.sent \in Nat /\ AudioSource \in Nat /\ heard'.sent >= heard.sent
    BY <1>1, <1>3, AudioBounds DEF HeardTyped
  <1>6. jitter' \in SUBSET (0 .. heard'.sent + AudioSource - 1)
    BY <1>1, <1>2, <1>5
  <1>7. Remaining(units', Fitting(jitter', heard')) /\ NoStoredUnit'
    <2>1. units' \in Seq(Fitting(jitter', heard'))
      BY <1>2, <1>3, ConcatProperties
    <2>2. Fitting(jitter', heard') \in SUBSET Nat
      BY DEF Fitting
    <2> QED
      BY <2>1, <2>2, RestRemains DEF NoStoredUnit
  <1>8. NoStoredUnit
    BY <1>2 DEF NoStoredUnit
  <1>9. CASE audio.haptics
    BY <1>1, <1>2, <1>3, <1>4, <1>6, <1>7, <1>9, AudioPartsLater DEF Vibrates
  <1>10. CASE ~audio.haptics /\ audio.started
    <2>1. jitter = {} /\ Playing(audio, jitter, heard)
      BY <1>1, <1>8, <1>10
    <2>2. Playing(audio', jitter', heard')
      <3>1. 0 .. heard.sent + AudioSource \subseteq 0 .. heard'.sent + AudioSource
        BY <1>5
      <3> QED
        BY <1>2, <1>3, <1>4, <2>1, <3>1 DEF Playing
    <2> QED
      BY <1>2, <1>3, <1>4, <1>6, <1>7, <1>10, <2>1, <2>2, AudioPartsLater
  <1>11. CASE ~audio.haptics /\ ~audio.started
    <2>1. Waiting(jitter', heard')
      BY <1>1, <1>2, <1>3, <1>11 DEF Waiting
    <2> QED
      BY <1>3, <1>4, <1>6, <1>7, <1>11, <2>1, AudioPartsLater
  <1> QED
    BY <1>9, <1>10, <1>11

(* A frame that is late, or there already, is refused. *)
LEMMA RefusesKeeps == ASSUME AudioInv, Refuses PROVE AudioInv'
  <1>1. /\ units # <<>> /\ ~audio.haptics /\ Head(units) # StoredUnit /\ units' = Tail(units)
        /\ UNCHANGED <<audio, jitter, heard>>
    BY DEF Refuses
  <1>2. Tail(units) \in Seq(Fitting(jitter, heard)) /\ NoStoredUnit
    BY <1>1, AudioParts DEF Remaining, NoStoredUnit
  <1>3. Remaining(units', Fitting(jitter', heard')) /\ NoStoredUnit'
    <2>1. Fitting(jitter, heard) \in SUBSET Nat
      BY DEF Fitting
    <2> QED
      BY <1>1, <1>2, <2>1, RestRemains DEF NoStoredUnit
  <1> QED
    BY <1>1, <1>2, <1>3, AudioParts, AudioPartsLater

(* A frame of haptics goes out when it is the newest. *)
LEMMA HapticsKeeps == ASSUME AudioInv, PlaysHaptics PROVE AudioInv'
  <1> DEFINE n == Head(units)
  <1>1. units # <<>> /\ audio.haptics /\ units' = Tail(units) /\ UNCHANGED jitter
    BY DEF PlaysHaptics
  <1>2. /\ audio \in AudioRecords /\ HeardTyped(heard) /\ (~audio.startup => heard.sent > AudioHalf)
        /\ jitter \in SUBSET (0 .. heard.sent + AudioSource - 1)
        /\ Vibrates /\ n \in Fitting(jitter, heard) /\ Tail(units) \in Seq(Fitting(jitter, heard))
    BY <1>1, AudioParts DEF Remaining, Vibrates, NoStoredUnit
  <1>3. \A h : Fitting(jitter, h) \in SUBSET Nat
    BY DEF Fitting
  <1>4. /\ heard.sent \in Nat /\ heard.last \in Nat \union {-1} /\ heard.last < heard.sent + AudioSource
        /\ heard = [last |-> heard.last, sent |-> heard.sent, info |-> heard.info, wrong |-> FALSE]
        /\ heard.last \in Int /\ AudioSource \in Int /\ AudioHalf \in Int
    BY <1>2, AudioBounds DEF HeardTyped
  <1>5. /\ n \in Nat /\ n \in 0 .. heard.sent + AudioSource - 1 /\ n - heard.last < AudioHalf
        /\ heard.sent + AudioSource - n < AudioHalf
    BY <1>2, FitsClose
  <1> HIDE DEF n
  <1>6. CASE UNCHANGED <<audio, heard>>
    <2>1. Remaining(units', Fitting(jitter', heard')) /\ NoStoredUnit'
      BY <1>1, <1>2, <1>3, <1>6, RestRemains DEF NoStoredUnit
    <2> QED
      BY <1>1, <1>2, <1>6, <2>1, AudioPartsLater DEF Vibrates
  <1>7. CASE /\ Frame!SeqGt(FrameIndex(n), audio.prev)
             /\ audio' = [audio EXCEPT !.prev = FrameIndex(n)] /\ Hears(n)
    <2> DEFINE l == IF heard.last = -1 THEN 0 ELSE heard.last
    <2>1. l \in Nat /\ l >= heard.last /\ n - l < AudioHalf /\ l - n < AudioHalf
      BY <1>4, <1>5, AudioBounds
    <2>2. audio.prev = FrameIndex(l)
      BY <1>2 DEF Vibrates
    <2> HIDE DEF l
    <2>3. n > l
      BY <1>5, <1>7, <2>1, <2>2, FrameOrder
    <2>4. n > heard.last /\ n < heard.sent + AudioSource
      BY <1>4, <1>5, <2>1, <2>3
    <2>5. heard' = [last |-> n, sent |-> heard.sent, info |-> heard.info, wrong |-> FALSE]
      <3>1. heard' = [heard EXCEPT !.last = n, !.wrong = (heard.wrong \/ n <= heard.last)]
        BY <1>7 DEF Hears
      <3>2. (heard.wrong \/ n <= heard.last) = FALSE
        <4>1. ~(n <= heard.last) /\ heard.wrong = FALSE
          BY <1>4, <1>5, <2>4
        <4> QED
          BY <4>1
      <3> QED
        BY <1>4, <3>1, <3>2
    <2>6. HeardTyped(heard') /\ heard'.last = n /\ heard'.sent = heard.sent /\ n # -1
      BY <1>4, <1>5, <2>4, <2>5 DEF HeardTyped
    <2>7. /\ audio' \in AudioRecords /\ audio'.prev = FrameIndex(n) /\ audio'.haptics /\ audio'.started = audio.started
          /\ audio'.startup = audio.startup
      BY <1>1, <1>2, <1>5, <1>7, FrameLater DEF AudioRecords
    <2>8. Fitting(jitter, heard) \subseteq Fitting(jitter', heard')
      BY <1>1, <1>4, <1>5, <2>4, <2>6, SMTT(30) DEF Fitting, Fits
    <2>9. Tail(units) \in Seq(Fitting(jitter', heard'))
      BY <1>2, <2>8, SeqMonotonic
    <2>10. Remaining(units', Fitting(jitter', heard')) /\ NoStoredUnit'
      BY <1>1, <1>3, <2>9, RestRemains DEF NoStoredUnit
    <2> QED
      BY <1>1, <1>2, <2>6, <2>7, <2>10, AudioPartsLater DEF Vibrates
  <1> QED
    BY <1>6, <1>7 DEF PlaysHaptics, n

(* Every step keeps the invariant. *)
LEMMA AudioStep == ASSUME AudioInv, [AudioNext]_audioVars PROVE AudioInv'
  <1>1. CASE UNCHANGED audioVars
    BY <1>1, AudioParts, AudioPartsLater DEF audioVars, NoStoredUnit, Vibrates
  <1>2. CASE StreamInfo
    <2>1. /\ units = <<>> /\ UNCHANGED units /\ jitter' = {} /\ audio' = NewReceiver(FALSE)
          /\ heard' = [heard EXCEPT !.info = TRUE, !.last = -1]
      BY <1>2 DEF StreamInfo
    <2>2. HeardTyped(heard)
      BY AudioParts
    <2>3. HeardTyped(heard') /\ heard'.last = -1
      <3>1. heard' = [last |-> -1, sent |-> heard.sent, info |-> TRUE, wrong |-> FALSE]
        BY <2>1, <2>2, HeardFields, ZenonT(40)
      <3>2. heard.sent \in Nat /\ AudioSource \in Nat \ {0}
        BY <2>2, AudioBounds DEF HeardTyped
      <3>3. -1 < heard.sent + AudioSource
        BY <3>2
      <3> QED
        BY <3>1, <3>2, <3>3 DEF HeardTyped
    <2>4. audio' \in AudioRecords /\ audio'.startup /\ ~audio'.started /\ ~audio'.haptics
      <3>1. 0 \in Frame!SeqNums
        BY AudioBounds DEF Frame!SeqNums, Frame!SeqMod
      <3> QED
        BY <2>1, <3>1 DEF NewReceiver, AudioRecords
    <2>5. Waiting(jitter', heard')
      BY <2>1, <2>3, AudioBounds, FS_EmptySet DEF Waiting, Close
    <2>6. Remaining(units', Fitting(jitter', heard')) /\ NoStoredUnit'
      BY <2>1 DEF Remaining, NoStoredUnit
    <2> QED
      BY <2>1, <2>3, <2>4, <2>5, <2>6, AudioPartsLater
  <1> QED
    BY <1>1, <1>2, PacketKeeps, RefusesKeeps, PlaysKeeps, HapticsKeeps DEF AudioNext

(* The sink gets each frame once and in order, and when the frames of a     *)
(* packet are handled none stays behind, for packets of any shape and       *)
(* jitter buffers of any size.                                              *)
THEOREM AudioGoesOn == AudioSpec => []AudioGoesOnInOrder
  <1>1. AudioInit => AudioInv
    <2> SUFFICES ASSUME AudioInit PROVE AudioInv
      OBVIOUS
    <2>1. jitter = {} /\ units = <<>> /\ heard = [last |-> -1, sent |-> 0, info |-> FALSE, wrong |-> FALSE]
      BY DEF AudioInit
    <2>2. 0 \in Frame!SeqNums /\ FrameIndex(0) = 0
      BY AudioBounds, FrameLater DEF Frame!SeqNums, Frame!SeqMod
    <2>3. audio \in AudioRecords /\ audio.startup /\ ~audio.started /\ audio.prev = 0
      <3>1. PICK haptics \in BOOLEAN : audio = NewReceiver(haptics)
        BY DEF AudioInit
      <3> QED
        BY <2>2, <3>1 DEF NewReceiver, AudioRecords
    <2>4. HeardTyped(heard) /\ Waiting(jitter, heard) /\ NoStoredUnit /\ Remaining(units, Fitting(jitter, heard))
      BY <2>1, AudioBounds, FS_EmptySet DEF HeardTyped, Waiting, NoStoredUnit, Remaining, Close
    <2>5. Vibrates
      BY <2>1, <2>2, <2>3 DEF Vibrates, NoStoredUnit
    <2> QED
      BY <2>1, <2>3, <2>4, <2>5, AudioParts
  <1>2. AudioInv => AudioGoesOnInOrder
    <2> SUFFICES ASSUME AudioInv PROVE AudioGoesOnInOrder
      OBVIOUS
    <2>1. heard.wrong = FALSE
      BY AudioParts DEF HeardTyped
    <2>2. ASSUME audio.started, units = <<>> PROVE jitter = {}
      BY <2>2, AudioParts DEF NoStoredUnit, Vibrates
    <2> QED
      BY <2>1, <2>2 DEF AudioGoesOnInOrder
  <1> QED
    BY <1>1, <1>2, AudioStep, PTL DEF AudioSpec

-----------------------------------------------------------------------------
(***************************************************************************)
(* Discovery: hosts that do not answer leave the list.                     *)
(***************************************************************************)

(* Hosts; one that may be in front, one that may be anywhere; a list of     *)
(* them.                                                                    *)
HostRecords == [id : HostIds, state : HostStates, last : Nat]
Recent(h, ping) == h.last + DropPings + 1 >= ping
AllRecent(hs, ping) ==
  /\ Len(hs) # 0 => Recent(hs[1], ping)
  /\ \A i \in 2 .. Len(hs) : Fresh(hs[i], ping)

HostsInv == hosts \in Seq(HostRecords) /\ pings \in Nat /\ AllRecent(hosts, pings)

-----------------------------------------------------------------------------
(* The loop over the first m hosts. *)
SweepStep(q, hs, k, ping) == IF Stays(hs, k, ping) THEN Append(q, hs[k]) ELSE q
IsSweep(c, hs, ping, m) ==
  c = [k \in 0 .. m |-> IF k = 0 THEN <<>> ELSE SweepStep(c[k - 1], hs, k, ping)]
HasSweep(hs, ping, m) == \E c : IsSweep(c, hs, ping, m)

(* A loop over m hosts goes on with the next. *)
LEMMA SweepGoesOn ==
  ASSUME NEW hs, NEW ping, NEW m \in Nat, HasSweep(hs, ping, m)
  PROVE  HasSweep(hs, ping, m + 1)
  <1>1. PICK c : IsSweep(c, hs, ping, m)
    BY DEF HasSweep
  <1> DEFINE d == [k \in 0 .. m + 1 |-> IF k <= m THEN c[k] ELSE SweepStep(c[m], hs, m + 1, ping)]
             e == [k \in 0 .. m + 1 |-> IF k = 0 THEN <<>> ELSE SweepStep(d[k - 1], hs, k, ping)]
  <1>2. ASSUME NEW k \in 0 .. m + 1
        PROVE  d[k] = IF k = 0 THEN <<>> ELSE SweepStep(d[k - 1], hs, k, ping)
    <2>1. CASE k = 0
      <3>1. d[k] = c[0] /\ c[0] = <<>>
        BY <1>1, <2>1 DEF IsSweep
      <3> QED
        BY <2>1, <3>1
    <2>2. CASE k \in 1 .. m
      <3>1. k \in 0 .. m /\ k - 1 \in 0 .. m /\ k # 0 /\ k <= m /\ k - 1 <= m
        BY <2>2
      <3>2. d[k] = c[k] /\ d[k - 1] = c[k - 1]
        BY <3>1
      <3>3. c[k] = SweepStep(c[k - 1], hs, k, ping)
        BY <1>1, <3>1 DEF IsSweep
      <3> HIDE DEF d
      <3> QED
        BY <3>1, <3>2, <3>3
    <2>3. CASE k = m + 1
      <3>1. k # 0 /\ k - 1 = m /\ d[m] = c[m] /\ d[k] = SweepStep(c[m], hs, m + 1, ping)
        BY <2>3
      <3> HIDE DEF d
      <3> QED
        BY <2>3, <3>1
    <2> QED
      BY <2>1, <2>2, <2>3
  <1>3. d = e
    <2>1. \A k \in 0 .. m + 1 : d[k] = e[k]
      BY <1>2
    <2>2. d = [k \in 0 .. m + 1 |-> d[k]] /\ e = [k \in 0 .. m + 1 |-> e[k]]
      OBVIOUS
    <2> HIDE DEF d, e
    <2> QED
      BY <2>1, <2>2
  <1>4. IsSweep(d, hs, ping, m + 1)
    BY <1>3 DEF IsSweep
  <1> HIDE DEF d
  <1> QED
    BY <1>4 DEF HasSweep

(* There is a loop over any number of hosts. *)
LEMMA SweepExists ==
  ASSUME NEW hs, NEW ping
  PROVE  \A m \in Nat : HasSweep(hs, ping, m)
  <1>1. HasSweep(hs, ping, 0)
    <2> DEFINE c == [k \in 0 .. 0 |-> <<>>]
    <2>1. c = [k \in 0 .. 0 |-> IF k = 0 THEN <<>> ELSE SweepStep(c[k - 1], hs, k, ping)]
      OBVIOUS
    <2>2. IsSweep(c, hs, ping, 0)
      BY <2>1 DEF IsSweep
    <2> QED
      BY <2>2 DEF HasSweep
  <1> DEFINE T == {m \in Nat : ~HasSweep(hs, ping, m)}
  <1>2. T \in SUBSET Nat
    OBVIOUS
  <1>3. SUFFICES ASSUME T # {} PROVE FALSE
    OBVIOUS
  <1>4. PICK m \in T : \A y \in T : m <= y
    BY <1>2, <1>3, SmallestNumber
  <1>5. m \in Nat /\ m # 0
    BY <1>1
  <1>6. m - 1 \in Nat /\ ~(m <= m - 1)
    BY <1>5
  <1>7. HasSweep(hs, ping, m - 1)
    BY <1>4, <1>6
  <1>8. HasSweep(hs, ping, m)
    <2>1. (m - 1) + 1 = m
      BY <1>5
    <2> QED
      BY <1>6, <1>7, <2>1, SweepGoesOn
  <1> QED
    BY <1>8

(* What is swept is the last of a loop over all of them. *)
LEMMA SweptIsSweep ==
  ASSUME NEW hs, NEW ping, Len(hs) \in Nat
  PROVE  \E c : IsSweep(c, hs, ping, Len(hs)) /\ Swept(hs, ping) = c[Len(hs)]
  <1> DEFINE c == CHOOSE c : c = [k \in 0 .. Len(hs) |->
                IF k = 0 THEN <<>>
                ELSE IF Stays(hs, k, ping) THEN Append(c[k - 1], hs[k]) ELSE c[k - 1]]
  <1>1. HasSweep(hs, ping, Len(hs))
    BY SweepExists
  <1>2. IsSweep(c, hs, ping, Len(hs))
    BY <1>1 DEF HasSweep, IsSweep, SweepStep
  <1>3. Swept(hs, ping) = c[Len(hs)]
    BY DEF Swept
  <1> QED
    BY <1>2, <1>3

-----------------------------------------------------------------------------
(* A fresh host is recent; and it may be put behind others.                 *)
LEMMA FreshIsRecent ==
  ASSUME NEW h \in HostRecords, NEW ping \in Nat
  PROVE  /\ Fresh(h, ping) => Recent(h, ping)
         /\ Fresh(h, ping) => Recent(h, ping + 1)
         /\ Recent(h, ping + 1) <=> Fresh(h, ping)
  BY DiscoveryAssumption DEF HostRecords, Fresh, Recent

(* A recent host may be appended; behind another one it must be fresh. *)
LEMMA RecentAppended ==
  ASSUME NEW q \in Seq(HostRecords), NEW h \in HostRecords, NEW ping \in Nat,
         AllRecent(q, ping), Recent(h, ping), q # <<>> => Fresh(h, ping)
  PROVE  Append(q, h) \in Seq(HostRecords) /\ AllRecent(Append(q, h), ping)
  <1> DEFINE a == Append(q, h)
  <1>1. /\ a \in Seq(HostRecords) /\ Len(a) = Len(q) + 1 /\ a[Len(q) + 1] = h
        /\ \A i \in 1 .. Len(q) : a[i] = q[i]
        /\ Len(q) \in Nat
    BY AppendProperties, LenProperties
  <1> HIDE DEF a
  <1>2. Recent(a[1], ping)
    <2>1. CASE Len(q) = 0
      BY <1>1, <2>1
    <2>2. CASE Len(q) # 0
      BY <1>1, <2>2 DEF AllRecent
    <2> QED
      BY <2>1, <2>2
  <1>3. ASSUME NEW i \in 2 .. Len(a) PROVE Fresh(a[i], ping)
    <2>1. CASE i = Len(q) + 1
      <3>1. q # <<>>
        BY <1>1, <1>3, <2>1, EmptySeq
      <3> QED
        BY <1>1, <2>1, <3>1
    <2>2. CASE i # Len(q) + 1
      <3>1. i \in 2 .. Len(q) /\ i \in 1 .. Len(q)
        BY <1>1, <1>3, <2>2
      <3> QED
        BY <1>1, <3>1 DEF AllRecent
    <2> QED
      BY <2>1, <2>2
  <1> QED
    BY <1>1, <1>2, <1>3 DEF AllRecent, a

(* What the sweep for the next ping leaves is recent. *)
LEMMA SweepIsRight ==
  ASSUME NEW hs \in Seq(HostRecords), NEW ping \in Nat, AllRecent(hs, ping),
         NEW c, IsSweep(c, hs, ping + 1, Len(hs)), NEW m \in 0 .. Len(hs)
  PROVE  c[m] \in Seq(HostRecords) /\ AllRecent(c[m], ping + 1)
  <1> DEFINE Right(k) == /\ c[k] \in Seq(HostRecords) /\ AllRecent(c[k], ping + 1)
                         /\ (k = 1 /\ ~Fresh(hs[1], ping + 1)) => c[k] = <<>>
             T == {k \in 0 .. Len(hs) : ~Right(k)}
  <1>1. SUFFICES ASSUME T # {} PROVE FALSE
    OBVIOUS
  <1>a. Len(hs) \in Nat /\ \A k \in 1 .. Len(hs) : hs[k] \in HostRecords
    BY LenProperties, ElementOfSeq
  <1>2. T \in SUBSET Nat
    BY <1>a
  <1>3. PICK n \in T : \A y \in T : n <= y
    BY <1>1, <1>2, SmallestNumber
  <1>4. n \in 0 .. Len(hs) /\ ~Right(n)
    OBVIOUS
  <1>5. c[n] = IF n = 0 THEN <<>> ELSE SweepStep(c[n - 1], hs, n, ping + 1)
    BY <1>4 DEF IsSweep
  <1>6. CASE n = 0
    <2>1. c[n] = <<>> /\ Len(<<>>) = 0 /\ <<>> \in Seq(HostRecords)
      BY <1>5, <1>6
    <2>2. AllRecent(c[n], ping + 1)
      BY <2>1 DEF AllRecent
    <2> QED
      BY <1>4, <1>6, <2>1, <2>2
  <1>7. CASE n # 0
    <2>1. n - 1 \in 0 .. Len(hs) /\ n \in 1 .. Len(hs) /\ ~(n <= n - 1) /\ n \in Nat /\ ping + 1 \in Nat
      BY <1>4, <1>7, <1>a
    <2>2. Right(n - 1)
      BY <1>3, <2>1
    <2>3. c[n] = IF Stays(hs, n, ping + 1) THEN Append(c[n - 1], hs[n]) ELSE c[n - 1]
      BY <1>5, <1>7 DEF SweepStep
    <2>4. hs[n] \in HostRecords
      BY <1>a, <2>1
    <2>5. n = 1 => c[n - 1] = <<>>
      BY <2>1 DEF IsSweep
    <2>6. CASE Fresh(hs[n], ping + 1)
      <3>1. Recent(hs[n], ping + 1) /\ c[n] = Append(c[n - 1], hs[n])
        BY <2>1, <2>3, <2>4, <2>6, FreshIsRecent DEF Stays
      <3>2. c[n] \in Seq(HostRecords) /\ AllRecent(c[n], ping + 1)
        BY <2>1, <2>2, <2>4, <2>6, <3>1, RecentAppended
      <3>3. ~(n = 1 /\ ~Fresh(hs[1], ping + 1))
        BY <2>6
      <3> QED
        BY <1>4, <3>2, <3>3
    <2>7. CASE ~Fresh(hs[n], ping + 1) /\ n = 2 /\ ~Fresh(hs[1], ping + 1)
      <3>1. c[n - 1] = <<>> /\ c[n] = Append(c[n - 1], hs[n])
        BY <2>2, <2>3, <2>7 DEF Stays
      <3>2. Recent(hs[n], ping + 1)
        <4>1. Fresh(hs[n], ping)
          BY <2>1, <2>7, <1>a DEF AllRecent
        <4> QED
          BY <2>4, <4>1, FreshIsRecent
      <3>3. c[n] \in Seq(HostRecords) /\ AllRecent(c[n], ping + 1)
        BY <2>1, <2>2, <2>4, <3>1, <3>2, RecentAppended
      <3> QED
        BY <1>4, <2>7, <3>3
    <2>8. CASE ~Fresh(hs[n], ping + 1) /\ ~(n = 2 /\ ~Fresh(hs[1], ping + 1))
      <3>1. c[n] = c[n - 1]
        BY <2>3, <2>8 DEF Stays
      <3> QED
        BY <1>4, <2>2, <2>5, <3>1
    <2> QED
      BY <2>6, <2>7, <2>8
  <1> QED
    BY <1>6, <1>7

(* What a step leaves of the list is recent. *)
LEMMA SweptIsRecent ==
  ASSUME NEW hs \in Seq(HostRecords), NEW ping \in Nat, AllRecent(hs, ping)
  PROVE  Swept(hs, ping + 1) \in Seq(HostRecords) /\ AllRecent(Swept(hs, ping + 1), ping + 1)
  <1>1. Len(hs) \in Nat /\ Len(hs) \in 0 .. Len(hs)
    BY LenProperties
  <1>2. PICK c : IsSweep(c, hs, ping + 1, Len(hs)) /\ Swept(hs, ping + 1) = c[Len(hs)]
    BY <1>1, SweptIsSweep
  <1> QED
    BY <1>1, <1>2, SweepIsRight

(* An answer makes its host fresh and leaves the others. *)
LEMMA AnswerIsRecent ==
  ASSUME HostsInv, NEW id \in HostIds, NEW state \in HostStates, HostAnswers(id, state)
  PROVE  HostsInv'
  <1> DEFINE h == [id |-> id, state |-> state, last |-> pings]
  <1>1. h \in HostRecords /\ Fresh(h, pings) /\ Recent(h, pings) /\ pings' = pings
    <2>1. h \in HostRecords /\ h.last = pings
      BY DEF HostsInv, HostRecords
    <2> QED
      BY <2>1, DiscoveryAssumption DEF HostsInv, HostAnswers, Fresh, Recent
  <1>2. CASE \E i \in Known(id) : hosts' = [hosts EXCEPT ![i] = h]
    <2>1. PICK i \in 1 .. Len(hosts) : hosts' = [hosts EXCEPT ![i] = h]
      BY <1>2 DEF Known
    <2> HIDE DEF h
    <2>2. /\ hosts' \in Seq(HostRecords) /\ Len(hosts') = Len(hosts) /\ Len(hosts) \in Nat
          /\ \A j \in 1 .. Len(hosts) : hosts'[j] = IF j = i THEN h ELSE hosts[j]
      BY <1>1, <2>1, ExceptSeq, LenProperties DEF HostsInv
    <2>3. AllRecent(hosts', pings)
      BY <1>1, <2>2 DEF HostsInv, AllRecent
    <2> QED
      BY <1>1, <2>2, <2>3 DEF HostsInv
  <1>3. CASE hosts' = Append(hosts, h)
    <2> HIDE DEF h
    <2> QED
      BY <1>1, <1>3, RecentAppended DEF HostsInv
  <1> QED
    BY <1>2, <1>3 DEF HostAnswers

(* A console that stopped answering leaves the list of discovered hosts at  *)
(* the latest one ping after its time, for any number of hosts and pings.   *)
THEOREM StaleHostsAlwaysLeave == DiscoverySpec => []StaleHostsLeave
  <1>1. DiscoveryInit => HostsInv
    BY DEF DiscoveryInit, HostsInv, AllRecent
  <1>2. HostsInv /\ [DiscoveryNext]_discoveryVars => HostsInv'
    <2> SUFFICES ASSUME HostsInv, [DiscoveryNext]_discoveryVars PROVE HostsInv'
      OBVIOUS
    <2>1. CASE Pings
      <3>1. pings' = pings + 1 /\ hosts' = Swept(hosts, pings + 1) /\ pings + 1 \in Nat
        BY <2>1 DEF Pings, HostsInv
      <3> QED
        BY <3>1, SweptIsRecent DEF HostsInv
    <2>2. CASE UNCHANGED <<hosts, pings>>
      BY <2>2 DEF HostsInv
    <2> QED
      BY <2>1, <2>2, AnswerIsRecent DEF DiscoveryNext, StopsDiscovery, DiscoveryEnds, discoveryVars
  <1>3. HostsInv => StaleHostsLeave
    <2> SUFFICES ASSUME HostsInv, NEW i \in 1 .. Len(hosts) PROVE Recent(hosts[i], pings)
      BY DEF StaleHostsLeave, Recent
    <2>1. Len(hosts) \in Nat /\ hosts[i] \in HostRecords
      BY LenProperties, ElementOfSeq DEF HostsInv
    <2>2. i = 1 \/ i \in 2 .. Len(hosts)
      BY <2>1
    <2>3. Len(hosts) # 0
      BY <2>1
    <2> QED
      BY <2>1, <2>2, <2>3, FreshIsRecent DEF HostsInv, AllRecent
  <1> QED
    BY <1>1, <1>2, <1>3, PTL DEF DiscoverySpec
=============================================================================
