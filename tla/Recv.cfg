SPECIFICATION FairSpec
CONSTANTS
  BufferSize = 4
  BufferCount = 3
  HeaderSize = 2
  PacketSizes <- MCPacketSizes
  StreamLen = 13
INVARIANTS RoomForFullRead MoveDisjoint NoPacketLeftBehind RecvInv
PROPERTIES PacketSpec EventuallyDelivered
CHECK_DEADLOCK FALSE
