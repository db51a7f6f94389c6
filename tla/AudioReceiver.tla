---------------------------- MODULE AudioReceiver ----------------------------
(***************************************************************************)
(* The audio receiver: packets carry the frames they are numbered for and, *)
(* as FEC units, copies of the frames before; frames wait in a jitter      *)
(* buffer until enough are there to start, and then go to the sink one     *)
(* after the other, with an empty frame for each that is missing.  Frames  *)
(* of haptics go out as they come.  All of it runs in the Takion thread.   *)
(***************************************************************************)
EXTENDS Integers, FiniteSets, Sequences

CONSTANTS
  AudioHalf,      \* half of the frame index space (2^15)
  AudioSource,    \* source units of a packet
  AudioFec,       \* FEC units of a packet
  JitterSize,     \* CHIAKI_AUDIO_JITTER_BUFFER_SIZE (8)
  Prefill,        \* CHIAKI_AUDIO_JITTER_PREFILL (3)
  MaxAudioFrame   \* bound: number of frames the console sends

ASSUME AudioAssumption ==
  /\ AudioHalf \in Nat \ {0} /\ AudioSource \in Nat \ {0} /\ AudioFec \in Nat
  /\ AudioSource + AudioFec + 2 < AudioHalf  \* at most 15 units of each kind, and 2^15
  /\ JitterSize \in Nat \ {0} /\ Prefill \in 1 .. JitterSize /\ MaxAudioFrame \in Nat

Frame == INSTANCE SeqNum WITH SeqHalf <- AudioHalf

VARIABLES
  audio,    \* the receiver: whether it is that of the haptics, frame_index_prev, next_frame_index,
            \* playback_started, frame_index_startup
  jitter,   \* the frames in the jitter buffer, counted without wrapping
  units,    \* the frames of the current packet still to be handled; StoredUnit stands for one that was stored
  heard     \* the last frame the sink was given, the last one the console has sent, whether a stream
            \* info was handled, and whether a frame came twice or after a later one

audioVars == <<audio, jitter, units, heard>>

StoredUnit == -1
FrameIndex(n) == n % (2 * AudioHalf)
Frames == 0 .. MaxAudioFrame + AudioSource

AudioTypeOK ==
  /\ audio \in [haptics : BOOLEAN, prev : Frame!SeqNums, next : Frame!SeqNums, started : BOOLEAN, startup : BOOLEAN]
  /\ jitter \subseteq Frames /\ Cardinality(jitter) <= JitterSize
  /\ units \in Seq(Frames \union {StoredUnit}) /\ Len(units) <= AudioSource + AudioFec
  /\ heard \in [last : Frames \union {-1}, sent : 0 .. MaxAudioFrame, info : BOOLEAN, wrong : BOOLEAN]

NewReceiver(haptics) == [haptics |-> haptics, prev |-> 0, next |-> 0, started |-> FALSE, startup |-> TRUE]

AudioInit ==
  /\ audio \in {NewReceiver(haptics) : haptics \in BOOLEAN}
  /\ jitter = {} /\ units = <<>>
  /\ heard = [last |-> -1, sent |-> 0, info |-> FALSE, wrong |-> FALSE]

\* chiaki_audio_receiver_stream_info: once per stream, packets may have come
\* before; the receiver of the haptics is not told.
StreamInfo ==
  /\ units = <<>> /\ ~heard.info /\ ~audio.haptics
  /\ audio' = NewReceiver(FALSE) /\ jitter' = {}
  /\ heard' = [heard EXCEPT !.info = TRUE, !.last = -1]
  /\ UNCHANGED units

-----------------------------------------------------------------------------
\* chiaki_audio_receiver_av_packet: which frames the packet numbered p brings.
\* Before the index has passed half its space, copies of frames from before
\* the first one are left out, and with them those of frame 0.
Startup(p) == audio.startup /\ FrameIndex(p) <= AudioHalf
FirstCopy(p) == IF Startup(p) /\ FrameIndex(p) <= AudioFec THEN AudioFec + 1 - FrameIndex(p) ELSE 0
Copies(p) == [i \in 1 .. AudioFec - FirstCopy(p) |-> (p - AudioFec) + FirstCopy(p) + (i - 1)]

AudioPacket(p) ==
  /\ units = <<>>
  /\ units' = [i \in 1 .. AudioSource |-> p + (i - 1)] \o Copies(p)
  /\ audio' = [audio EXCEPT !.startup = Startup(p)]
  /\ heard' = [heard EXCEPT !.sent = IF p > @ THEN p ELSE @]
  /\ UNCHANGED jitter

-----------------------------------------------------------------------------
\* The rounds of chiaki_audio_receiver_frame, each with the mutex held once.

OldestOf(frames) == CHOOSE n \in frames : \A o \in frames \ {n} : ~Frame!SeqLt(FrameIndex(o), FrameIndex(n))
NewestOf(frames) == CHOOSE n \in frames : \A o \in frames \ {n} : ~Frame!SeqGt(FrameIndex(o), FrameIndex(n))
WithIndex(frames, i) == {n \in frames : FrameIndex(n) = i}

\* chiaki_audio_receiver_store_audio_frame_locked: a full buffer gives up
\* its newest frame for an older one, which no packet brings about while Prefill < JitterSize.
CanStore(n) ==
  /\ WithIndex(jitter, FrameIndex(n)) = {}
  /\ Cardinality(jitter) = JitterSize => Frame!SeqLt(FrameIndex(n), FrameIndex(NewestOf(jitter)))
WithStored(n) ==
  (IF Cardinality(jitter) = JitterSize THEN jitter \ {NewestOf(jitter)} ELSE jitter) \union {n}

\* Slip: a frame that is late is stored.
TooLateSlip(n) == FALSE
TooLate(n) == audio.started /\ Frame!SeqLt(FrameIndex(n), audio.next)

Refuses ==
  /\ units # <<>> /\ ~audio.haptics /\ Head(units) # StoredUnit
  /\ TooLate(Head(units)) \/ ~CanStore(Head(units))
  /\ units' = Tail(units) /\ UNCHANGED <<audio, jitter, heard>>

\* Playback starts with the oldest frame as soon as Prefill frames are there.
StartedWith(frames) ==
  IF ~audio.started /\ Cardinality(frames) >= Prefill
  THEN [audio EXCEPT !.next = FrameIndex(OldestOf(frames)), !.started = TRUE] ELSE audio

CanConceal(a, frames) ==
  /\ frames # {} /\ Frame!SeqGt(FrameIndex(OldestOf(frames)), a.next)
  /\ Cardinality(frames) >= Prefill =>
       Frame!SeqGt(FrameIndex(NewestOf(frames)), Frame!SeqAdd(a.next, Prefill - 1))

Advanced(a) == [a EXCEPT !.prev = a.next, !.next = Frame!SeqAdd(@, 1)]
Hears(n) == heard' = [heard EXCEPT !.last = n, !.wrong = @ \/ n <= heard.last]

Plays ==
  /\ units # <<>> /\ ~audio.haptics
  /\ Head(units) # StoredUnit => ~TooLate(Head(units)) /\ CanStore(Head(units))
  /\ LET frames == IF Head(units) = StoredUnit THEN jitter ELSE WithStored(Head(units))
         a == StartedWith(frames)
         awaited == WithIndex(frames, a.next)
     IN \/ /\ a.started /\ awaited # {}
           /\ \E n \in awaited : jitter' = frames \ {n} /\ Hears(n)
           /\ audio' = Advanced(a) /\ units' = <<StoredUnit>> \o Tail(units)
        \/ /\ a.started /\ awaited = {} /\ CanConceal(a, frames)
           /\ jitter' = frames /\ audio' = Advanced(a) /\ units' = <<StoredUnit>> \o Tail(units)
           /\ UNCHANGED heard
        \/ /\ a.started => awaited = {} /\ ~CanConceal(a, frames)
           /\ jitter' = frames /\ audio' = a /\ units' = Tail(units)
           /\ UNCHANGED heard

PlaysHaptics ==
  /\ units # <<>> /\ audio.haptics
  /\ IF Frame!SeqGt(FrameIndex(Head(units)), audio.prev)
     THEN audio' = [audio EXCEPT !.prev = FrameIndex(Head(units))] /\ Hears(Head(units))
     ELSE UNCHANGED <<audio, heard>>
  /\ units' = Tail(units) /\ UNCHANGED jitter

\* Packets are lost, repeated and come late by two; the console never is half
\* the index space ahead of what the receiver has or awaits.
AudioArriving ==
  {p \in heard.sent - 2 .. heard.sent + 3 :
     /\ p \in 0 .. MaxAudioFrame
     /\ \A n \in jitter \union {heard.last} : (p + AudioSource) - n <= AudioHalf}

AudioNext ==
  \/ \E p \in AudioArriving : AudioPacket(p)
  \/ StreamInfo
  \/ Refuses \/ Plays \/ PlaysHaptics

AudioSpec == AudioInit /\ [][AudioNext]_audioVars

-----------------------------------------------------------------------------
\* The sink gets each frame once and in order, although every frame comes in
\* several packets, and once playback has started no frame stays behind in
\* the buffer when its packet was handled: one that was stored late would be
\* the oldest for ever, and with it there nothing is played or concealed.
AudioGoesOnInOrder == ~heard.wrong /\ (audio.started /\ units = <<>> => jitter = {})
=============================================================================
