CONSTANTS
  Senders = {t1}
  SeqHalf = 3
  Size = 2
  TriesMax = 1
  ResendAge = 1
  MaxLag = 1
  FirstSeq = 5
  MaxSends = 2
SPECIFICATION SendBufferSpec
INVARIANTS
  GivesUpTheLoggedPacket
CHECK_DEADLOCK FALSE
