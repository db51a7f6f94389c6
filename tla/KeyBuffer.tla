----------------------------- MODULE KeyBuffer ------------------------------
(***************************************************************************)
(* How a received packet gets its part of the key stream: the 64 bit key   *)
(* position is restored from the 32 bits in the packet (ChiakiKeyState),   *)
(* and the stream is read from a ring that a thread of its own fills ahead *)
(* of the requests (gkcrypt.c).  Positions are counted in cipher blocks,   *)
(* and block k of the stream is the number k.                              *)
(***************************************************************************)
EXTENDS Integers, Sequences, FiniteSets

CONSTANTS
  KeyHalf,      \* half the space of the position in a packet (2^31 bytes)
  ChunkBlocks,  \* KEY_BUF_CHUNK_SIZE
  Chunks,       \* key_buf_chunks (0x40)
  MaxRequest,   \* bound: blocks of one packet
  MaxLag,       \* how far behind the newest position a packet can be that still arrives
  MaxJump,      \* how far the console can go ahead while packets are lost
  MaxHeld,      \* bound: packets that wait in the video queue before they are decrypted
  MaxPos        \* bound: positions

\* The packets under way span less than half the space.
ASSUME KeyAssumption ==
  /\ KeyHalf \in Nat \ {0} /\ ChunkBlocks \in Nat \ {0} /\ Chunks \in Nat \ {0}
  /\ MaxRequest \in Nat \ {0} /\ MaxLag \in Nat /\ MaxJump \in Nat /\ MaxHeld \in Nat /\ MaxPos \in Nat
  /\ MaxLag + MaxJump < KeyHalf

Low == INSTANCE SeqNum WITH SeqHalf <- KeyHalf

RingSize == ChunkBlocks * Chunks
Garbage == -1

VARIABLES
  prev,     \* ChiakiKeyState: the position of the last packet whose MAC was right
  newest,   \* the newest position the console has used in an arrived packet
  held,     \* positions of packets in the video queue
  ring,     \* key_buf
  kb,       \* key_buf_key_pos_min, key_buf_start_offset, key_buf_populated, last_key_pos, key_buf_thread_stop
  gen,      \* the generator thread: where it is, the stream position and the place in the ring of its chunk
  user,     \* the receiving thread: "idle", or "signal" when it has yet to signal; "fini" likewise
  given     \* for each block last handed out, how far it is from the one the packet was encrypted with

keyVars == <<prev, newest, held, ring, kb, gen, user, given>>

KeyPositions == 0 .. MaxPos
Blocks == 0 .. MaxPos + MaxRequest + 2 * RingSize

KeyTypeOK ==
  /\ prev \in KeyPositions /\ newest \in KeyPositions /\ held \subseteq KeyPositions
  /\ ring \in [0 .. RingSize - 1 -> Blocks \cup {Garbage}]
  /\ kb.min \in Blocks /\ kb.start \in 0 .. RingSize - 1 /\ kb.populated \in 0 .. RingSize
  /\ kb.last \in Blocks /\ kb.stop \in BOOLEAN
  /\ gen.at \in {"check", "asleep", "fill", "encrypt", "lock", "ended"}
  /\ gen.pos \in Blocks /\ gen.offset \in 0 .. RingSize - 1
  /\ user \in {"idle", "signal", "fini", "join"}
  /\ Len(given) <= MaxRequest

KeyInit ==
  /\ prev = 0 /\ newest = 0 /\ held = {}
  /\ ring = [i \in 0 .. RingSize - 1 |-> Garbage]
  /\ kb = [min |-> 0, start |-> 0, populated |-> 0, last |-> 0, stop |-> FALSE]
  /\ gen = [at |-> "check", pos |-> 0, offset |-> 0]
  /\ user = "idle"
  /\ given = <<>>

-----------------------------------------------------------------------------
\* Slip: a number below the previous one that was still before the turn of the space is not put back.
RequestPosSlip(p, low) ==
  LET high == IF Low!SeqGt(low, p % Low!SeqMod) /\ low < p % Low!SeqMod
              THEN p \div Low!SeqMod + 1 ELSE p \div Low!SeqMod
  IN high * Low!SeqMod + low

\* chiaki_key_state_request_pos
RequestPos(p, low) ==
  LET prevLow == p % Low!SeqMod
      prevHigh == p \div Low!SeqMod
      high == IF Low!SeqGt(low, prevLow) /\ low < prevLow THEN prevHigh + 1
              ELSE IF Low!SeqLt(low, prevLow) /\ low > prevLow /\ prevHigh > 0 THEN prevHigh - 1
              ELSE prevHigh
  IN high * Low!SeqMod + low

\* gkcrypt_key_buf_should_generate
ShouldGenerate(k) == k.last > k.min + k.populated \div 2

InBuffer(k, pos, n) == pos >= k.min /\ pos + n < k.min + k.populated

\* Slip: the stream is read as if it began at the start of the ring.
ReadSlip(r, k, pos, n) == [i \in 1 .. n |-> r[(pos - k.min + (i - 1)) % RingSize]]
Read(r, k, pos, n) == [i \in 1 .. n |-> r[(pos - k.min + k.start + (i - 1)) % RingSize]]

\* Slip: whether to wake the generator is decided before the request is noted.
SignalDueSlip(before, after) == ShouldGenerate(before)
SignalDue(before, after) == ShouldGenerate(after)

\* chiaki_gkcrypt_get_key_stream up to the signal: what is not in the ring is generated at once.
GetsKeyStream(packet, pos, n) ==
  LET k == [kb EXCEPT !.last = IF pos + n > @ THEN pos + n ELSE @]
  IN /\ kb' = k
     /\ LET blocks == IF InBuffer(k, pos, n) THEN Read(ring, k, pos, n) ELSE [i \in 1 .. n |-> pos + (i - 1)]
        IN given' = [i \in 1 .. n |-> blocks[i] - (packet + (i - 1))]
     /\ user' = IF SignalDue(kb, k) THEN "signal" ELSE "idle"
     /\ UNCHANGED <<ring, gen>>

\* A packet whose MAC, which depends on the position, is right: takion_handle_packet_mac
\* and av_packet_parse.  Audio is decrypted at once, video goes through the queue.
PacketArrives(p) ==
  /\ user = "idle" /\ p \in newest - MaxLag .. newest + MaxJump
  /\ RequestPos(prev, p % Low!SeqMod) = p
  /\ prev' = p /\ newest' = IF p > newest THEN p ELSE newest
  /\ \/ \E n \in 1 .. MaxRequest : GetsKeyStream(p, prev', n) /\ UNCHANGED held
     \/ Cardinality(held) < MaxHeld /\ held' = held \cup {p} /\ UNCHANGED <<ring, kb, gen, user, given>>

PacketPulled(p) ==
  /\ user = "idle" /\ p \in held /\ held' = held \ {p}
  /\ \E n \in 1 .. MaxRequest : GetsKeyStream(p, p, n)
  /\ UNCHANGED <<prev, newest>>

\* chiaki_cond_signal, after the mutex was unlocked; a thread that is not waiting does not notice.
Woken == gen' = IF gen.at = "asleep" THEN [gen EXCEPT !.at = "check"] ELSE gen
Signals == user = "signal" /\ user' = "idle" /\ Woken /\ UNCHANGED <<prev, newest, held, ring, kb, given>>

\* chiaki_gkcrypt_fini, when the Takion thread has been joined.
FiniStops ==
  /\ user = "idle" /\ user' = "fini" /\ kb' = [kb EXCEPT !.stop = TRUE]
  /\ UNCHANGED <<prev, newest, held, ring, gen, given>>
FiniSignals == user = "fini" /\ user' = "join" /\ Woken /\ UNCHANGED <<prev, newest, held, ring, kb, given>>

-----------------------------------------------------------------------------
\* key_buf_mutex_pred
MayGoOn(k) == k.stop \/ k.populated < RingSize \/ ShouldGenerate(k)

\* Room for the next chunk: past the buffer, go where the requests are; when it is full, drop the oldest chunk.
WithRoom(k) ==
  IF k.last > k.min + k.populated
  THEN [k EXCEPT !.min = (k.last \div ChunkBlocks) * ChunkBlocks, !.start = 0, !.populated = 0]
  ELSE IF k.populated = RingSize
  THEN [k EXCEPT !.start = (@ + ChunkBlocks) % RingSize, !.min = @ + ChunkBlocks, !.populated = @ - ChunkBlocks]
  ELSE k

\* gkcrypt_thread_func with key_buf_mutex, up to the unlock in gkcrypt_generate_next_chunk.
GeneratorChecks ==
  /\ gen.at = "check"
  /\ \/ ~MayGoOn(kb) /\ gen' = [gen EXCEPT !.at = "asleep"] /\ UNCHANGED kb
     \/ kb.stop /\ gen' = [gen EXCEPT !.at = "ended"] /\ UNCHANGED kb
     \/ /\ MayGoOn(kb) /\ ~kb.stop
        /\ kb' = WithRoom(kb)
        /\ gen' = [at |-> "fill", pos |-> kb'.min + kb'.populated, offset |-> (kb'.start + kb'.populated) % RingSize]
  /\ UNCHANGED <<prev, newest, held, ring, user, given>>

InChunk(i) == (i - gen.offset) % RingSize < ChunkBlocks

\* chiaki_gkcrypt_gen_key_stream writes the counters and encrypts them in place, without the mutex.
GeneratorFills ==
  /\ gen.at = "fill" /\ gen' = [gen EXCEPT !.at = "encrypt"]
  /\ ring' = [i \in 0 .. RingSize - 1 |-> IF InChunk(i) THEN Garbage ELSE ring[i]]
  /\ UNCHANGED <<prev, newest, held, kb, user, given>>
GeneratorEncrypts ==
  /\ gen.at = "encrypt" /\ gen' = [gen EXCEPT !.at = "lock"]
  /\ ring' = [i \in 0 .. RingSize - 1 |-> IF InChunk(i) THEN gen.pos + ((i - gen.offset) % RingSize) ELSE ring[i]]
  /\ UNCHANGED <<prev, newest, held, kb, user, given>>
GeneratorFails ==
  /\ gen.at \in {"fill", "encrypt"} /\ gen' = [gen EXCEPT !.at = "ended"]
  /\ UNCHANGED <<prev, newest, held, ring, kb, user, given>>
GeneratorLocks ==
  /\ gen.at = "lock" /\ gen' = [gen EXCEPT !.at = "check"]
  /\ kb' = [kb EXCEPT !.populated = @ + ChunkBlocks]
  /\ UNCHANGED <<prev, newest, held, ring, user, given>>

GeneratorNext == GeneratorChecks \/ GeneratorFills \/ GeneratorEncrypts \/ GeneratorFails \/ GeneratorLocks

SignalNext == Signals \/ FiniSignals

KeyNext ==
  \/ \E p \in KeyPositions : PacketArrives(p) \/ PacketPulled(p)
  \/ SignalNext
  \/ FiniStops
  \/ GeneratorNext

KeySpec == KeyInit /\ [][KeyNext]_keyVars

-----------------------------------------------------------------------------
\* Whatever the generator is doing, a packet is decrypted with the stream of its own position.
KeyStreamIsRight == \A i \in DOMAIN given : given[i] = 0

\* Any packet the console may have under way gets back its own position, across the
\* turn of the 32 bits in both directions and whatever was reordered before.
PositionsAreRestored ==
  \A p \in newest - MaxLag .. newest + MaxJump : p \in Nat => RequestPos(prev, p % Low!SeqMod) = p

\* The generator sleeps only while it has nothing to do, or while someone is
\* about to signal: no request past the middle of the buffer is slept over.
NoRequestIsSleptOver == gen.at = "asleep" => ~MayGoOn(kb) \/ user \in {"signal", "fini"}
=============================================================================
