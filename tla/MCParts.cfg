SPECIFICATION Spec
CONSTANTS
  SeqHalf = 4
  UnitsSource = 2
  UnitsFec = 1
  RefFrames = 2
  MaxFrame = 9
  BufferSize = 2
  ResendEvents = 1
  PacketQueue = 2
  MaxBatch = 3
  MaxInputs = 3
  HostIds = {a, b, c}
  HostsMax = 2
  DropPings = 1
  MaxPings = 4
  KeyHalf = 4
  ChunkBlocks = 2
  Chunks = 2
  MaxRequest = 2
  MaxLag = 1
  MaxJump = 2
  MaxHeld = 1
  MaxPos = 8
  MtuMin = 1
  MtuMax = 6
  Retries = 2
  PingCount = 2
  Links = {1, 3, 4, 6, 8}
  AckHalf = 8
  AckSize = 5
  AckNumbers = {13, 14, 15, 0, 1, 2}
  RudpHalf = 8
  RudpSize = 2
  RudpTries = 1
  Senders = {"ctrl", "session"}
  FirstCounter = 14
  MaxMessages = 3
  Callers = {c1, c2}
  MaxSessions = 2
  AudioHalf = 8
  AudioSource = 1
  AudioFec = 2
  JitterSize = 4
  Prefill = 3
  MaxAudioFrame = 20
INVARIANTS
  FramesGoOutOnceInOrder
  EveryGapIsReported
  EventsAreKept
  StaleHostsLeave
  KeyStreamIsRight
  PositionsAreRestored
  NoRequestIsSleptOver
  MtuIsWhatTheLinkPasses
  AcceptedMessagesAreKept
  NoCallReachesAFreedSession
  AudioGoesOnInOrder
PROPERTIES
  LatestStateIsSent
  AckKeepsTheOthersInOrder
  SenkushaEnds
  ShutdownEnds
CHECK_DEADLOCK FALSE
