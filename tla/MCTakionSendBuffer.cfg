CONSTANTS
  Senders = {t1, t2}
  SeqHalf = 4
  Size = 2
  TriesMax = 1
  ResendAge = 1
  MaxLag = 1
  FirstSeq = 6
  MaxSends = 3
SPECIFICATION SendBufferSpec
INVARIANTS
  NoPacketsWhileSleepingUntimed
PROPERTIES
  EveryPacketLeaves
CHECK_DEADLOCK FALSE
