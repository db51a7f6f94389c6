CONSTANTS
  SeqHalf = 8
  QueueSize = 4
  Packets = {p1, p2, p3, p4, p5}
  NoPacket = NoPacket
SPECIFICATION Spec
SYMMETRY PacketSymmetry
INVARIANTS
  EntriesInPosition
  EachPacketHasOneOwner
PROPERTIES
  PullsInOrder
  EndStrategyPassesOverNothing
