CONSTANTS
  NumSlots = 3
  Packets = {p, q}
  NoPacket = NoPacket
  MaxFrames = 2
  DropsFrames = FALSE
SPECIFICATION Spec
PROPERTY HeldFramesStable
