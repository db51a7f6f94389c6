CONSTANTS
  SeqHalf = 4
  QueueSize = 2
  Packets = {p1, p2}
  NoPacket = NoPacket
SPECIFICATION DropSpec
PROPERTIES
  DroppedPacketIsGone
