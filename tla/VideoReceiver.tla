---------------------------- MODULE VideoReceiver ----------------------------
(***************************************************************************)
(* The video receiver with its frame processor: units of frames come in,   *)
(* a frame is flushed as soon as it can be, when its last unit arrives or  *)
(* when the next frame begins; frames go out to the decoder, and what does *)
(* not is reported to the console as corrupt.  All of it runs in the       *)
(* Takion thread; only waiting_for_idr is set from outside.                *)
(***************************************************************************)
EXTENDS SeqNum, FiniteSets, Sequences

CONSTANTS
  UnitsSource,   \* data units of a frame
  UnitsFec,      \* FEC units of a frame
  RefFrames,     \* length of reference_frames (16)
  MaxFrame       \* bound: number of frames the console sends

ASSUME VideoAssumption ==
  /\ UnitsSource \in Nat \ {0} /\ UnitsFec \in Nat
  /\ RefFrames \in Nat \ {0} /\ MaxFrame \in Nat

VARIABLES
  vr,       \* the receiver: frame_index_cur, _prev, _prev_complete, waiting_for_idr, reference_frames
  fp,       \* the frame processor: slots that have data, units counted, source units counted
  stream    \* the console's view, frames counted without wrapping: the frame being received, the last one
            \* complete, the last one given to the decoder and whether one was given twice or late,
            \* and the frames sent that are neither complete nor reported corrupt

videoVars == <<vr, fp, stream>>

Units == 0 .. UnitsSource + UnitsFec - 1
LastUnit == UnitsSource + UnitsFec - 1
\* units_fec_expected is at least 1, so a frame without FEC has a slot too many.
Slots == 0 .. UnitsSource + (IF UnitsFec = 0 THEN 1 ELSE UnitsFec) - 1
Index(n) == n % SeqMod

VideoTypeOK ==
  /\ vr.cur \in -1 .. SeqMod - 1 /\ vr.prev \in -1 .. SeqMod - 1 /\ vr.complete \in SeqNums
  /\ vr.waiting \in BOOLEAN /\ vr.refs \in Seq(SeqNums) /\ Len(vr.refs) <= RefFrames
  /\ fp.data \subseteq Slots /\ fp.received \in 0 .. Cardinality(fp.data)
  /\ fp.source \in 0 .. UnitsSource /\ fp.source <= fp.received
  /\ stream.n \in 0 .. MaxFrame /\ stream.complete \in 0 .. stream.n /\ stream.out \in stream.complete .. stream.n
  /\ stream.again \in BOOLEAN /\ stream.owed \subseteq 1 .. stream.n

NoUnits == [data |-> {}, received |-> 0, source |-> 0]

VideoInit ==
  /\ vr = [cur |-> -1, prev |-> -1, complete |-> 0, waiting |-> FALSE, refs |-> <<>>]
  /\ fp = NoUnits
  /\ stream = [n |-> 0, complete |-> 0, out |-> 0, again |-> FALSE, owed |-> {}]

-----------------------------------------------------------------------------
\* The frame processor.

PutUnit(p, u) ==
  IF u \in p.data THEN p
  ELSE [data |-> p.data \union {u}, received |-> p.received + 1,
        source |-> IF u < UnitsSource THEN p.source + 1 ELSE p.source]

FlushPossible(p) == p.received >= UnitsSource

\* Missing source units are repaired as long as no more units are missing than
\* there are FEC units; the repaired slots then have data, but do not count.
Complete(p) == p.source = UnitsSource
Repaired(p) == IF Complete(p) THEN p ELSE [p EXCEPT !.data = @ \union (0 .. UnitsSource - 1)]

-----------------------------------------------------------------------------
\* The slice header of a flushed frame: not parsed, an I slice, a P slice that
\* refers to the frame `back' before it, or one that needs no reference.
Slices == [type : {"unparsed", "I", "other"}, back : {0}] \union [type : {"P"}, back : 1 .. RefFrames]

Refers(v, back) == \E i \in 1 .. Len(v.refs) : v.refs[i] = SeqAdd(v.cur, -back)
AddRef(refs, f) == SubSeq(<<f>> \o refs, 1, IF Len(refs) < RefFrames THEN Len(refs) + 1 ELSE RefFrames)

\* A P slice whose reference is missing is made to refer to an older frame the
\* receiver has, if the bits of the slice allow it.
Decodable(v, slice, changed) ==
  \/ slice.type # "P"
  \/ Refers(v, slice.back)
  \/ changed /\ \E back \in slice.back + 1 .. RefFrames : Refers(v, back)
Skipped(v, slice) == v.waiting /\ slice.type \in {"P", "other"}

\* stream_connection_send_corrupt_frame, from the frame after the last complete one.
\* Slip: from the frame after the last one flushed.
FirstCorruptSlip(v) == SeqAdd(v.prev, 1)
FirstCorrupt(v) == SeqAdd(v.complete, 1)
Reports(v, s, last) ==
  [s EXCEPT !.owed = {f \in @ : SeqDist(FirstCorrupt(v), Index(f)) > SeqDist(FirstCorrupt(v), last)}]

\* chiaki_video_receiver_flush_frame.  x is the receiver, the processor and
\* the stream; the slice, whether its reference could be changed, whether an
\* IDR frame is asked for and what the callback says are left open.
FecFails(x, idr) ==
  [v |-> [x.v EXCEPT !.prev = x.v.cur, !.waiting = @ \/ idr], p |-> x.p, s |-> Reports(x.v, x.s, x.v.cur)]
NotShown(x) == [v |-> [x.v EXCEPT !.prev = x.v.cur], p |-> Repaired(x.p), s |-> x.s]
Shown(x, slice, taken) ==
  LET v == [x.v EXCEPT !.prev = x.v.cur, !.waiting = @ /\ slice.type # "I"]
      s == [x.s EXCEPT !.out = x.s.n, !.again = @ \/ x.s.n <= x.s.out]
  IN [v |-> IF taken THEN [v EXCEPT !.complete = v.cur, !.refs = AddRef(@, v.cur)] ELSE v,
      p |-> Repaired(x.p),
      s |-> IF taken THEN [s EXCEPT !.complete = s.n, !.owed = @ \ {s.n}] ELSE s]
Flushed(x) ==
  IF Complete(x.p) \/ FlushPossible(x.p)
  THEN {IF Skipped(x.v, slice) \/ ~Decodable(x.v, slice, changed) THEN NotShown(x) ELSE Shown(x, slice, taken)
        : slice \in Slices, changed \in BOOLEAN, taken \in BOOLEAN}
  ELSE {FecFails(x, idr) : idr \in BOOLEAN}

-----------------------------------------------------------------------------
\* chiaki_video_receiver_av_packet with a unit of the console's frame n.

\* Slip: forgets that the current frame was flushed.
UnflushedSlip(v) == v.cur >= 0
Unflushed(v) == v.cur # v.prev

Begins(x, n) ==
  LET sent == [x.s EXCEPT !.n = n, !.owed = @ \union (x.s.n + 1 .. n)]
  IN [v |-> [x.v EXCEPT !.cur = Index(n)],
      p |-> NoUnits,
      s |-> IF SeqGt(Index(n), FirstCorrupt(x.v)) THEN Reports(x.v, sent, Index(n - 1)) ELSE sent]

AvPacket(n, u) ==
  LET now == [v |-> vr, p |-> fp, s |-> stream]
      isNew == vr.cur < 0 \/ SeqGt(Index(n), vr.cur)
  IN /\ ~(vr.cur >= 0 /\ SeqLt(Index(n), vr.cur))
     /\ \E before \in (IF isNew /\ Unflushed(vr) THEN Flushed(now) ELSE {now}) :
          LET x == IF isNew THEN Begins(before, n) ELSE before
              filled == [x EXCEPT !.p = PutUnit(@, u)]
          IN \E after \in (IF Unflushed(filled.v) /\ (FlushPossible(filled.p) \/ u = LastUnit)
                           THEN Flushed(filled) ELSE {filled}) :
               /\ vr' = after.v
               /\ fp' = after.p
               /\ stream' = after.s

\* The user interface asks the console for an IDR frame and sets waiting_for_idr.
RequestsIdr == vr' = [vr EXCEPT !.waiting = TRUE] /\ UNCHANGED <<fp, stream>>

\* The console sends frames in order; units are lost, repeated and come late by
\* a frame, and a frame may be lost as a whole.  It never is half the index
\* space ahead of the last complete frame.
Arriving == {n \in stream.n - 1 .. stream.n + 2 : n >= 1 /\ n <= MaxFrame /\ n - stream.complete <= SeqHalf}

VideoNext ==
  \/ \E n \in Arriving, u \in Units : AvPacket(n, u)
  \/ RequestsIdr

VideoSpec == VideoInit /\ [][VideoNext]_videoVars

-----------------------------------------------------------------------------
\* A frame is given to the decoder at most once, and never after a later
\* frame, although three places flush and units keep coming after a flush.
FramesGoOutOnceInOrder == ~stream.again

\* Whatever happened to a frame (lost as a whole, not repaired, skipped while
\* waiting for an IDR frame, without its reference, refused by the decoder),
\* it is complete or reported to the console by the time the next one begins.
EveryGapIsReported == stream.owed \subseteq {stream.n}
=============================================================================
