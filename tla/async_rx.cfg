CONSTANTS
  NoPacket = NoPacket
  NumSlots = 3
  Packets = {p1}
  MaxFrames = 0
  DropsFrames = TRUE
SPECIFICATION AsyncSpec
INVARIANT PendingIsRegistered
