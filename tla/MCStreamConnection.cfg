SPECIFICATION MCSpec
CONSTANTS
  MaxTries = 2
  MaxPostponed = 1
  SeqHalf = 8
  QueueSize = 4
  Packets = {0, 1, 2, 3, 4}
  NoPacket = NoPacket
  FirstRemote = 14
  MaxMessages = 5
  UnknownTypes = {1}
  Timeout = 1
  MaxUnit = 2
  Watched = {15}
INVARIANTS
  StreaminfoIsNotMissed
  InputUsesALiveSender
  AcksCoverOnlyTaken
PROPERTIES
  KeepsTakionPromise
  StopEndsTheRun
  ImplementsOrderedDelivery
  EveryMessageIsTaken
  BudgetIsNotRenewed
  QueuedPacketLeaves
CHECK_DEADLOCK FALSE
