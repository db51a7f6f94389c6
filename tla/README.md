# A TLA+ model of horizonstream

Horizon Stream is a fork of chiaki-ng, a Remote Play client for PlayStation
consoles, extended by an app for Meta Quest headsets. Its core is the C library
in `src/lib`; the Qt client (`src/gui`), the Quest app (`src/android`), and the
Switch, Steam Deck and command line front ends sit on top of it. This directory
models the parts whose correctness depends on order, interleaving, loss and
wrap-around, checks them with TLC, and proves central results with TLAPS.

## 1. Inventory

Paths without a directory are relative to `src/lib/src`.

| Component | State | Operations | Interacts with |
|---|---|---|---|
| Sequence numbers (`seqnum.h`) | none | compare and add at 16 and 32 bits | all queues |
| Reorder queue (`reorderqueue.c`) | begin, count, slot array, drop strategy | init, push, pull, peek, drop, fini | owned by the Takion thread: 16-entry data queue (32 bit, drops the new packet at the end), 64-entry video queue (16 bit, drops from the begin) |
| Takion send buffer (`takionsendbuffer.c`) | packet array, stop flag, mutex and condition | push (application threads), ack and fini (Takion thread), resend (own thread) | network, Takion |
| Takion (`takion.c`) | socket, sequence numbers, keys, postponed packets, both queues, head-of-line timer | handshake with retries, receive loop, send, close | stream connection and senkusha, by callback |
| Session (`session.c`) | state mutex and condition, flags set by others, quit reason | thread, stop, login PIN | ctrl, registration, senkusha, stream connection, hole punching |
| Ctrl (`ctrl.c`) | socket, notification pipe and mutex, message queue | thread, messages, login PIN | session (`ctrl_failed`, session id) |
| Stream connection (`streamconnection.c`) | state, finished and failed flags, feedback sender | run, stop, Takion callbacks | Takion, receivers, congestion control |
| Senkusha (`senkusha.c`) | state, awaited answers | RTT and MTU measurement | Takion |
| Packet statistics, congestion control | counters | count, report and reset every 200 ms | Takion thread, receivers |
| Video receiver, frame processor | current, previous and last complete frame, reference frames, units | packet, flush | Takion thread; corrupt-frame and IDR requests |
| Feedback sender (`feedbacksender.c`, `feedback.c`) | controller state, history, packet ring | set state, thread | Takion, input threads |
| GKCrypt (`gkcrypt.c`) | key-stream ring, last position | get key stream, generator thread | Takion, receivers |
| Discovery service (`discoveryservice.c`) | host table with ping indices | host received, ping and age, fini | user interface |
| RUDP (`remote/rudp.c`, `remote/rudpsendbuffer.c`) | counter, send buffer with its thread | send, acknowledge, request-answer exchanges | session and ctrl thread of a remote session |
| Hole punching (`remote/holepunch.c`) | session flags, notification queue, offers, sockets | create, start, punch, cancel, fini, websocket thread | PSN, session, user interface |
| Quest app: controller input (`StreamInput.kt`, `QuestInputReleaseGate.kt`, `VRStreamActivity.kt`) | states per source, suppression, pulses, gesture, open panel | samples on the render thread, Bluetooth events, timers and panels on the main thread | native session |
| Quest app: session handle (`StreamSession.kt`, `NativeSessionHandle.kt`, `chiaki-jni.c`) | published session, native pointer and its lock | resume, shutdown, calls of other threads, native callbacks | library |
| Quest app: decoders and renderer | MediaCodec, Oboe, OpenXR | frames, samples | Android |
| Desktop client session (`src/gui/src/qmlbackend.cpp`, `streamsession.cpp`, QML views) | session pointer, connect info, wakeup, auto connect, reconnect and resume flags | connect, stop, sleep and resume, timers, discovery, PSN worker | library, discovery, settings |
| Audio receiver (`audioreceiver.c`) | jitter buffer, next frame, last units | packet, conceal, play | Takion thread, audio sink |
| Registration, HTTP, RPCrypt, ECDH, FEC, bitstream, codecs, utilities; windows, settings, Switch, CLI | local | encoding, wrappers, exchanges, user interface | |

What makes them correct, and what is hard about it:

* **Queues and send buffers**: bounded windows over wrapping numbers, reused
  slots, packets freed exactly once, delivery in order; wakeups that must not be
  lost, a scan that unlocks in the middle, compaction in any order.
* **Takion thread, stream connection**: everything arrives late, twice or never;
  the callback runs inside the thread; helper threads start and stop on every
  exit path while input threads use them.
* **Session and ctrl**: two threads, two mutexes, flags tested in a fixed order
  after one shared condition, joins while a mutex is held.
* **Key stream, video and audio frames, MTU search, host table**: rare branches
  (wrap-around, gaps, late answers, removal while iterating) that tests hardly reach.
* **Hole punching**: notifications of PSN that are repeated, late or for the
  other hole; a mutex that error paths keep; a cancel at any point.
* **Quest app**: two threads that share gesture and panel state without a lock;
  pulses and gates that outlive what started them; a native pointer that is
  freed while others call.
* **Desktop client**: handlers of one thread, but with results, quit events,
  token refreshes and timers that come after the session they were meant for.

`PROJECT.json` lists each hazard at its line with the properties that cover it.

## 2. Plan

| Step | State |
|---|---|
| 1. Sequence numbers, reorder queue, their proofs | done |
| 2. Send buffer; data channel refining `OrderedDelivery`; video queue | done |
| 3. Session with Ctrl | done |
| 4. Stream connection, Takion thread, its promise `TakionEvents` | done |
| 5. Key positions, MTU search, discovery service, video receiver | done; statistics counters left |
| 6. Feedback sender, key-stream ring, audio buffering | done |
| 7. RUDP, hole punching, Quest input and session handle, desktop session | done, each with what section 6 leaves out |
| 8. Proofs: queue; key stream; senkusha; data channel and its refinement; Quest and desktop session | done |
| 9. Proofs of every other safety property a run checks: pull order, send buffer, session, stream connection and its promise, video, audio, feedback, RUDP, compaction, discovery, hole punching, Quest input | done |
| 10. Candidate checks of hole punching, registration exchange, packet statistics | open |

## 3. Modules

| Module | Content |
|---|---|
| `SeqNum` | Serial-number arithmetic of any width (`SeqHalf` = 2^15, 2^31 in C) |
| `ReorderQueue`, `ReorderQueueClient`, `ReorderQueueDrop` | Queue operations as operators; a queue in use; the same with `drop` |
| `TakionSendBuffer` | Send buffer, sending threads, resend thread, fini |
| `AckCompaction`, `AckClient` | The in-place removal of acknowledged packets, shared by Takion and RUDP; an array that receives acknowledgements |
| `OrderedDelivery` | Abstract: a FIFO channel of messages |
| `TakionData`, `TakionAVQueue` | Data queue, flush and acknowledgements; video queue and head-of-line timer |
| `TakionEvents` | Abstract: what Takion promises to its callback |
| `TakionThread`, `StreamConnection` | Takion thread from handshake to end; the stream connection with all threads around it |
| `SessionState`, `Ctrl`, `Session` | What the threads of a session share; ctrl thread; session thread, registration thread and application |
| `VideoReceiver`, `AudioReceiver`, `FeedbackSender`, `DiscoveryService`, `Senkusha` | One component each |
| `KeyBuffer` | Key positions, key-stream ring and generator thread |
| `Rudp` | Counters, sending threads and send buffer of a remote session |
| `Holepunch` | Hole punching: steps, notification queue, websocket thread, cancel, fini |
| `QuestInput`, `QuestSession` | Quest app: controller input; native session |
| `DesktopSession` | Qt client: the session as its user interface makes and ends it |
| `MCReorderQueue`, `MCTakionSendBuffer`, `MCSession` | TLC instances |
| `MCStreamConnection`, `MCParts`, `MCRemote` | Several state machines in one instance; each behaviour runs one of them |
| `*Proofs` | Lemmas and theorems (section 5) |

`MCStreamConnection` puts the stream connection and the two receiving queues of
its Takion thread in one instance, `MCParts` nine smaller parts, `MCRemote` the
hole punching and the desktop client. The parts share no state; an instance
with a variable `part` checks each of them as if it were alone.

How they correspond to the code:

* **ReorderQueue.** A queue is the C struct as a record. Slots are an array
  indexed by masking the sequence number, and keep stale `set` flags and pointers
  outside of the window, as in C. The two loops of `push` run a number of rounds
  that is known in advance (`ShedCount`, `FillCount`) and are written in closed
  form; the order of the branches is kept in `Rejected` and `Push`.
* **ReorderQueueClient.** Any client: it opens a queue at any number under either
  strategy, pushes any number, pulls, skips a missing head as
  `takion_av_queue_flush_with_timeout` does, and closes. `outstanding` and
  `seqOf` are history: which packets are with the queue, and under which number.
* **TakionSendBuffer.** `AllocateSeqNum`, `SendSucceeds`/`SendFails` and `Push`
  are the places of `chiaki_takion_send_message_data` between which other
  threads run. The resend thread has a step for each point where it holds or
  gives up the mutex. Time is in units of the 100 ms wakeup timeout; a packet's
  age saturates. `AckStep` is one round of the loop of
  `chiaki_takion_send_buffer_ack`, memmove included.
* **TakionData.** `DataArrives` is `takion_handle_packet_message_data` up to the
  flush; `FlushPulls`, `FlushAcks`, `FlushEnds` are the rounds and the end of
  `takion_flush_data_queue`. The console numbers messages upwards and
  retransmits what is not acknowledged.
* **TakionAVQueue.** `PacketArrives` is the video branch of
  `takion_handle_packet_av` with the lazy initialisation; the `Flush*` actions
  are the branches of the flush in their order.
* **TakionThread, StreamConnection.** Each callback is a step of the Takion
  thread that needs the mutexes the running thread may hold; the running thread
  steps from wait to wait. Events are kinds. The end of the Takion thread is
  `chiaki_takion_send_buffer_fini`: it tells the resend thread (`TellsResend`),
  signals (`SignalsResend`) and waits for its end (`Ends`). Of the resend thread
  (`rpc`) the module keeps the steps between predicate and wait without timeout, as in
  `TakionSendBuffer`, so that a stop can be missed (`ResendThreadMissedStop`).
  `KeepsTakionPromise` says that what the callback sees is a behaviour of
  `TakionEvents`, where such a connection is "hung". An input thread reads
  `feedback_sender_active` under its mutex and uses the sender.
* **Session, Ctrl.** A mutex is the name of its holder; a step of a thread is
  what it does between two points at which another can take a mutex it had.
  HTTP exchanges and message contents are results and kinds. The registration
  thread exists for remote sessions with automatic registration.
* **VideoReceiver.** `AvPacket` is the whole handler: flush of the previous
  frame, report of a gap, new frame, unit, and flush if possible. What the
  parser and the decoder find in a frame is open.
* **AudioReceiver.** A packet is its list of frames, source units first. The mutex
  of the receiver is held for one frame (`chiaki_audio_receiver_frame`), which is a
  step. Frames are counted without wrapping and compared by their wrapped index.
* **FeedbackSender.** Events are numbered as recorded, so that the history is
  the newest few numbers; a history packet is a set of events. One change records
  up to `MaxBatch` events, which may be more than the history holds: `forgotten` keeps
  those that are gone before they are queued. The sender's unlock while it sends is a
  step boundary.
* **KeyBuffer.** Block k of the key stream is the number k, and `given` is the
  difference to what a request should have had. The generator's chunk is
  written in two steps, between which requests read.
* **Senkusha.** Every answer may be lost, late or repeated; `fresh` tells whether
  an answer matches the awaited tag. Time is a failed wait.
* **Rudp.** A thread takes a counter, reads it again for the key, and pushes
  (`rudp.c:210-277`); other threads run between. The wait of the resend thread is
  that of `TakionSendBuffer` and not repeated.
* **Holepunch.** `main` is the thread that runs create, start and punch_hole;
  each wait takes the first fitting notification of the queue (`FirstOf`).
  `hmutex` records a step that returned with the mutex locked. PSN answers what
  was posted, and may repeat an offer until the console has accepted.
* **QuestInput.** A frame of the render thread is three steps: it passes the gate;
  it operates an open panel or reads the gesture; it tells the session. Gesture
  timers on the main thread are two steps. `told` is what the session was last told.
* **QuestSession.** The owner is whoever is in resume or shutdown; callers find
  the published session, enter through the handle's lock, and return.
* **DesktopSession.** A handler of the main thread is one step. `desk` holds the
  fields of `QmlBackend`, `ses` the session it points to, `posted` the queued
  signals. The user acts through the page shown (`view`) with its timers. A user
  who cancels when there is no session to cancel ends the program, as in the
  code (section 6).

A definition marked "Slip" is a wrong variant of the one after it, of the kind a
plausible mistake in the code would give. Nothing uses it; each property has one
that breaks it when it takes the place of the right one.

## 4. Runs

| Run | What it shows | Bounds |
|---|---|---|
| `reorder_queue` | Entries in position, one owner per packet; pulls in order, and a data queue that passes over nothing | 16 numbers, 4 slots, 5 packets (one more than slots, so that full windows meet a new packet); any start and any pushed number, both strategies; packets symmetric |
| `send_buffer` | No lost wakeup while packets wait, every packet leaves in the end | 2 senders, 3 packets into 2 slots (overflow occurs), 8 numbers with wrap-around, 1 try, scans that last up to one unit |
| `session` | A PIN is there when it is forwarded; no work waits unsignalled in the ctrl thread; a stop ends the session, or takes it into one of the two lock cycles or three calls named in the property; the reported reason is final | local and remote sessions, 2 PINs, 1 stop, 1 queued message at a time |
| `stream_connection` | Connection: an early streaminfo is kept, input uses a live sender, Takion keeps its promise, a stop ends the run unless the resend thread has missed it. Data channel: acknowledgements cover only what was taken, refinement of `OrderedDelivery`, every message is taken. Video queue: the timer is not renewed without progress, queued packets leave | 2 tries, 1 postponed packet; 16 numbers, 4 slots, 5 messages (the queue overflows and wraps) of which one is of unknown type; timeout of 1 unit, unit index up to 2 |
| `parts` | Video: each frame out once in order, each gap reported. Feedback: no event lost but by a full ring or as the oldest of too many in one change, the latest state is sent. Discovery: stale hosts leave. Keys: right stream, right positions, no request slept over. Senkusha: reported sizes pass the link, the run ends if its Takion does. RUDP: accepted messages are kept. Compaction equals its definition. Audio: each frame at most once, in order, and none left behind that plays on. Quest session: no call into a freed session, shutdown ends if the stopped session does | see below |
| `hole_punching` | Each hole uses its own offer; a cancel ends the steps. Desktop: a session being connected is kept until its result is handled; a stopped session goes away unless its worker or its thread is still out | both holes, 1 cancel; 2 consoles, 2 sessions, 1 sleep, 1 restart, 2 tries to reconnect, 1 refresh under way of each kind |
| `quest_input` | No button stays pressed at the console; what operates a panel does not reach the game | no counters: four buttons (Menu, one that plays, a chord, a Bluetooth key) |
| `reorder_queue_drop`, `giveup_other_packet`, `fini_lost_wakeup`, `holepunch_fini`, `long_press_options` (violations) | below | 1 sender and 2 packets, 2 slots; otherwise as above |

Bounds of `parts`: video 8 numbers with wrap-around up to the 9th frame, 2 source units and 1
FEC unit, 2 reference frames; feedback a history of 2, a ring of 2 packets and 3
inputs of up to 3 events each, more than the history holds, as 20 are more than 16 in the code; 3 hosts for 2 places and 4 pings; 8 key positions, 2 chunks of 2
blocks, packets up to position 8; MTU range 1 to 6, 2 tries, 2 pings, links
from below to above the range in both directions; 5 packets of 6 numbers across the wrap-around, any
acknowledgement (two inner gaps and a tail need 5); audio 16 numbers, 1 source unit
and 2 FEC units, a buffer of 4 that starts at 3, 20 frames; RUDP 3 messages of 2
threads into 2 slots, 16 numbers; 2 callers and 2 native sessions.

Why small widths are enough: the code uses a width only through comparison and
addition modulo 2^bits, and a capacity only as a power of two below half of it.
16 numbers with 4 slots have every relation a push can have to a window: inside,
behind, ahead within and beyond the capacity, and exactly half the space away.
The model of the video queue is the same under every number, so that liveness
follows a few of them (`Watched`). The proofs of section 5 remove the bounds for all
safety properties of the runs that pass; for liveness they stay.

Violations, each a disagreement between the code and its own text (`findings` in
`PROJECT.json`): `chiaki_reorder_queue_drop` does not remove the element; the
give-up branch of the resend scan may free another packet than it logs;
`chiaki_takion_send_buffer_fini` may wait for ever; `chiaki_holepunch_session_fini`
blocks after a step that was canceled while it worked on a notification; a long press of the Menu
button sends no Options press, which the manual says it does.

`CHECK_DEADLOCK FALSE` stands where the program really ends: threads that
were joined, sessions that have quit, windows that are closed. `quest_input` has
no end and is checked for deadlock.

### Fairness

* `send_buffer`: weak fairness of the resend thread's steps, of time and of fini
  once begun: threads are scheduled. Strong fairness of the timeout of a timed
  wait: `chiaki_cond_timedwait_pred` computes an absolute end once, so wakeups
  before it cannot postpone it. None for senders, acknowledgements, or the start of
  fini.
* `session`: weak fairness of the steps of the four threads; strong fairness of
  `Stop` and of the steps that need `notif_mutex`, which others take and release
  for ever. None for the return of hole punching, senkusha and the stream
  (`session.c:582`, `626`, `682`): the wait of the first for an acknowledgement has no
  timeout (`holepunch.c:5222`), and the other two close a Takion that may wait for its
  resend thread for ever (`takionsendbuffer.c:71`). `StopEndsTheSession` names these calls
  as the places where a stopped session may stay; from a call that does return it goes on.
* `stream_connection`, connection: weak fairness of each thread; strong fairness
  where a step competes for a mutex or with packets (`StopsCongestionControl`,
  `FeedbackLocks`, `RecvCanceled`). Data channel: weak fairness of the flush;
  strong fairness of the arrival of the message whose turn it is, as long as it
  is not acknowledged: it is sent again, and not every copy is lost. Video
  queue: weak fairness of the flush, strong fairness of time and of the receive
  timeout, since the timeout given to `select` shrinks to zero however many
  packets arrive. None for arrivals, nor for what would wake a resend thread that
  has missed the stop: a push may never come, and spurious wakeups are no promise.
* `parts`: the feedback sender's thread; senkusha's running thread; the owner of a native
  session, and the return of native calls. Two more are premises about other components,
  which these do not keep in every case: that the Takion of senkusha ends once it is closed
  (it may miss its end, `FiniCompletes`), and that a native session ends once it is stopped (but for
  what `StopEndsTheSession` excepts). `SenkushaEnds` and `ShutdownEnds` say what
  senkusha and the app owe if the others do their part.
* `hole_punching`: the thread of the steps, of fini and of the websocket; the
  main thread's queued events and single-shot timers, and the begin of a session's
  thread. None for the return of the PSN worker, which waits without timeout for the
  websocket (`holepunch.c:918`) and for an acknowledgement (`holepunch.c:5222`) and which a stop does
  not cancel (`qmlbackend.cpp:1260`, `1657`), nor for the end of a session's thread:
  `StoppedSessionGoes` allows a stopped session to stay while one of the two is out,
  and no longer. None for the user, PSN, discovery, token refreshes or the console.

## 5. Proofs

Every safety property of a passing run, state invariant or action property, is a
theorem for all values of the constants.

| Module | About | Theorems | For every |
|---|---|---|---|
| `ReorderQueueClientProofs` (with `ReorderQueueProofs`, `SeqNumProofs`) | Reorder queue | `InvHolds`, `TypeCorrect`, `PositionsCorrect`, `OwnershipCorrect`, `TailCorrect`, `PullsAreOrdered`, `EndStrategySkipsNothing` | width, capacity that divides the number space and is below half of it, set of packets |
| `TakionDataProofs` | Data channel | `AcksAlwaysCoverOnlyTaken`, `DataChannelIsOrdered` | width, capacity, stream of messages |
| | Video queue | `BudgetStays` | width, capacity, timeout, unit numbers |
| `TakionProofs` | Send buffer | `SendBufferInvHolds`, `PacketsAreWatched` | width, size, senders, packets, tries, ages |
| | Stream connection | `StreamInvHolds`, `StreaminfoIsNeverMissed`, `InputAlwaysHasItsSender`, `TakionImplementsItsEvents` | tries, postponed packets |
| `SessionProofs` | Session and ctrl | `SessionInvHolds`, `PinIsAlwaysThere`, `WorkIsAlwaysSignalled`, `ReportedReasonStays` | number of messages |
| | Quest app | `FreedSessionIsNotCalled`; `ButtonsAreReleased`, `PanelKeepsItsInput` | callers, sessions; no constants |
| | Desktop client | `ConnectingSessionStays` | consoles, numbers of sessions, sleeps, restarts, reconnects |
| | Hole punching | `HolesHaveTheirOffers` | number of cancels |
| `PartsProofs` | Keys | `AllPositionsRestored`, `StreamAlwaysRight`, `NeverSleepsOver` | position width, ring, chunk, packet length, lateness below half the width |
| | Senkusha | `MtuAlwaysPasses` | range of sizes, attempts, pings, link |
| | Compaction (with `AckCompactionProofs`) | `AckKeepsTheOthers` | width, size of the array, acknowledged set |
| | RUDP | `AcceptedMessagesStay` | width, size, tries, number of messages below half the width |
| | Video receiver | `VideoStaysInOrder`, `FramesGoOutOnce`, `GapsAreReported` | width, units, reference frames |
| | Feedback sender | `EventsAreNotLost` | history, ring, packets, events |
| | Audio receiver | `AudioGoesOn` | width, units of a packet, buffer, prefill |
| | Discovery | `StaleHostsAlwaysLeave` | hosts, places, limit, number of pings |

The assumptions are those named at the constants of each module
(`QueueSizeAssumption`: the code's powers of two, 2^4 of 2^32 and 2^6 of 2^16,
are of this kind; `KeyAssumption` and the like); TLC evaluates them in the runs.
Three deserve a word. The send buffers are proved for connections that number fewer
packets than half of the number space (2^31 in Takion, 2^15 in RUDP): no
number comes twice. `AudioAssumption` wants a packet with its FEC units to be much
shorter than half the frame index space: the counts have four bits
(`include/chiaki/takion.h:56`), the index sixteen. `HolepunchSpec` rests on what
PSN may push (`MayPush`), an assumption about a service, not about a constant.

None of the properties is inductive alone. The arguments:

* **Reorder queue.** A push that
  moves the end clears only the slots that enter the window, so positions depend
  on the bound on the count (two offsets of a window no longer than the array
  have different slots); ownership after an eviction needs positions, because
  two slots with the same packet would have it returned twice; the tail needs to
  know that a skip stops at a packet. `IInv` is the conjunction of the four with
  `ClosedIsEmpty`. `SeqNumProofs` keeps modular arithmetic away from the solver;
  `ReorderQueueProofs` says for each operator what it does to the number, slot
  and content at each offset. Pulls are ordered because a pull takes the head,
  and no number of a window shorter than half of the numbers is before its head.
* **Data channel.** `DataInv`: the queue reaches at most to what was sent, and
  the message at each offset of the window is the one whose turn that is; so
  what is pulled next is the next message, and the refinement mapping (`taken`,
  what the callback has seen) turns a pull into a `Take` and every other step into
  a stutter. The acknowledged number is that of the last one pulled.
* **Video queue.** `AVInv`: a wait that goes on is for the present head or one the
  queue has passed since. So the branch for a "genuinely new gap"
  (`takion.c:976`), the only one that could renew the timeout, is never taken (`NoNewGap`).
* **Send buffer.** `SendBufferInv`: who enters or sleeps in the wait without a timeout
  found the buffer empty under the mutex it gives up in the wait, and every push
  signals. That the scan and the acknowledgement leave an array of packets comes
  from `AckCompactionProofs`.
* **Stream connection.** `StreamInv`: where the running thread is says which
  threads exist, what the state variable is and what the Takion thread can have
  delivered. A streaminfo handled before its wait is in `early` (`EarlyIsKept`); the feedback
  sender lives as long as its flag is set, and the flag is cleared under the mutex
  that the input thread holds (`SenderLives`). The promise follows from the
  Takion thread's places: `TakionImplementsItsEvents` maps each of its steps to a
  step of `TakionEvents` or a stutter. It is the safety part of
  `KeepsTakionPromise`; that the run checks with the fairness of both.
* **Session.** `SessionInv`: `CtrlWithinSession` and `RegistWithinSession` say
  when the other threads exist, `MutexesFollowThreads` who holds what,
  `QueueIsCounted` that a queued message was counted. A PIN or message is put
  there with the mutex held and the pipe is written after it: in between somebody is
  about to write, which is what `NoWorkWaitsUnsignalled` allows.
* **Key stream.** `BufferInv`: positions stay near the newest one, the filled
  part of the ring holds the stream, the chunk the generator writes lies outside of the
  filled part, and whole chunks only are filled. So a request that finds its
  position in the filled part reads the stream, whatever the generator does
  beside it. That positions are restored is a case analysis on the quotients of
  the old and the new position. A request past the middle signals or meets a
  generator that is awake, hence nothing is slept over.
* **Senkusha.** `SearchInv`: only answers to the current command are fresh, and
  the lower bound of the search is a size that has passed.
* **Compaction.** The loop is a recursive function, about which the provers can
  only reason through a function that satisfies its equation; that one exists is
  shown by a smallest number for which it would not (`HasPass`, `GoesOn`). Then, by the
  same argument, each round keeps: what was passed is compacted, the gap behind it
  is where the next packet goes. The sweep of the discovery service is proved in this way too.
* **RUDP.** `RudpInv`: a message is kept under the number of a later one, since its
  thread reads the counter again for the key (`KeptUnder`). An acknowledged number
  says that the console has every message before it, so the keys it covers belong
  to messages that have arrived.
* **Video receiver.** `VideoInv`: the two indices are those of the newest and the newest complete
  frame, a frame that was not flushed has not gone out, and what is owed to the
  console is the newest frame at most: the next one reports it before it begins.
* **Feedback sender.** `FeedbackInv`: while no overflow was seen each recorded event
  was sent, is in the packet being sent, or in a slot of the ring's filled part, unless
  its own change recorded more events than the history holds and it was among the oldest
  of them (`RecordedKeeps`). Nothing is assumed of the number of events of a change.
* **Audio receiver.** `AudioInv`: every frame in the buffer or left of the packet
  is within half the index space of the next one, so that the wrapped
  comparison is the true one; nothing below the next one was left; before playback there are
  fewer frames than it starts at; haptics never store a frame.
* **Discovery.** `HostsInv`: every host but the first is within the limit, and the
  first within one more. The sweep passes over one host, which it has just moved to the front; at
  the next ping that one is looked at first.
* **Hole punching.** `HoleInv`: while the control hole waits for its offer nothing
  but that offer can be there, since the data hole's follows the accept, and the
  accept our own offer. In the queue no control offer comes behind an accept. Messages
  are taken in the order of the queue, and what is not wanted is cleared: when the accept is the
  first one no control offer is left, hence the data hole cannot find one.
* **Quest session.** `LifeInv`: who is inside a native call holds the lock of the
  handle it went through; a held lock means that the pointer is there; a session
  that is freed or about to be has no pointer any more.
* **Quest input.** `InputInv`: while the input is suppressed what was told last is
  remembered; what is down since a panel closed is behind the gate (a Bluetooth key:
  waited for); the one frame that was past the gate finds the Quest part of the
  input empty. The model has no constants and the run visits
  all its states; the proof says why.
* **Desktop session.** `PhaseInv`: the session is in one of five phases (none,
  waiting for its console, being connected by the worker, its result posted, its
  thread begun), and worker and posted events belong to the phase. A result
  therefore meets the session it was made for, although it carries no name.

Only model-checked, because fairness and `ENABLED` are out of the prover's reach:
`EveryPacketLeaves`, `StopEndsTheSession`, `StopEndsTheRun`, `EveryMessageIsTaken`,
`QueuedPacketLeaves`, `LatestStateIsSent`, `SenkushaEnds`, `ShutdownEnds`, `CancelEndsTheSteps`,
`StoppedSessionGoes`, and the fairness in `KeepsTakionPromise`. The violations are
counterexamples, for which an instance is enough.

## 6. Not modelled, and what was seen on the way

Components with status `not_modelled` in `PROJECT.json`: codecs, FEC, bitstream,
HTTP, launch specification, cryptographic primitives and key tables (pure
transformations of data, with nothing for a model checker to interleave);
decoders and renderer of the Quest app, the window of the Qt client, settings, Switch,
Steam Deck and command line front ends (platform and user interface code: most lines of
the repository, which is why the map covers a small share of all of them). Partly
modelled components name in their note what is left out: the candidate
gathering and checks of hole punching, STUN and UPnP; the request-answer
exchanges of RUDP and registration; packet statistics; message formats and
MACs. Within the modelled parts, failing allocations that end in an early
return are left out unless stated, and the use of the send buffer after fini by
a thread that is still sending, which has no defined outcome, is excluded by a
guard (`stop # "joined"`).

Behaviour that the models contain and that a maintainer may want to know, though no
text of the repository says otherwise:

* Session: stopping during an automatic registration can deadlock
  (`session.c:477`), as can forwarding a PIN (`session.c:558` with `ctrl.c:311`).
  While the data hole is punched (`session.c:582`) and while senkusha runs (`session.c:626`)
  a stop blocks on `state_mutex` and cancels nothing, and neither call need return.
  `StopEndsTheSession` excepts exactly these and a stopped stream that does not return. The reason of a failed
  registration is overwritten by STOPPED (`session.c:444`), a refused
  ctrl connection by CTRL_CONNECT_FAILED (`ctrl.c:418`).
* Stream connection: a Takion that dies after connecting is not noticed
  (`streamconnection.c:405`); a failed bang only by its timeout; congestion
  control goes on after a stop during connect (`streamconnection.c:231`).
* Takion: when its thread misses the resend thread in the end (`fini_lost_wakeup`), DISCONNECT
  does not come and who closes Takion, a stream or senkusha, stays in
  `chiaki_takion_close`, until a data packet happens to be pushed.
* Feedback sender: a change of the controller can record 20 events (16 buttons, 2
  triggers, 2 touches, `feedbacksender.c:194-265`) into a history of 16
  (`feedbacksender.c:11`); the oldest are forgotten (`feedback.c:201`) before a packet has them.
* Video receiver: `frames_lost` counts twice and turns negative at the wrap
  (`videoreceiver.c:232`); a lost IDR frame is not requested again.
* Senkusha: a DISCONNECT while connecting is noticed by the timeout only.
* RUDP: two threads can get the same number (`rudp.c:246`); the second push is refused
  and the session quits although the message was sent.
* Hole punching: create waits for ever if the websocket cannot connect
  (`holepunch.c:918`); the wait for an acknowledgement has no timeout
  (`holepunch.c:5222`); a failed offer for the data hole leaves a null pointer
  (`session.c:571`, `holepunch.c:1537`); a wrong console identifier makes start
  succeed (`holepunch.c:1144`); start's normal exit unlocks twice (`1210`).
* Quest app: a frame past the gate is told to the game when the main thread
  closes the panel under it; holding a Bluetooth button while pressing Options
  releases it until the next event; the end of an old session, posted late, sets the state to idle.
* Desktop client: `psnCancel` uses the session without a test, and the view
  offers it while there is none (waiting for the network, or just after a
  failure); auto connect that was called off still connects when its 5 s timer fires; a cancel in
  the wait for a console is lost when the console is found before the view
  closes; a stop while the worker connects waits for the worker, which it does not
  cancel; a stale wakeup name makes a session to another, ready console wait for the
  wakeup timeout; a resume while the old session is still there is lost; the frame
  thread follows the session pointer without synchronization.
* Video queue: the fresh timeout for a "genuinely new gap" (`takion.c:976`) is never
  reached, as section 5 shows; gaps of one burst share a timeout.
* Audio: with fewer than three buffered frames a missing one is concealed before the
  FEC unit of the same packet is looked at (`audioreceiver.c:181`); the buffer never holds
  more than the frames playback starts at, so eviction is not reached; the haptics receiver is
  not told the stream info (`streamconnection.c:952`).
