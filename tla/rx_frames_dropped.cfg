CONSTANTS
  NumSlots = 4
  Packets = {p, q}
  NoPacket = NoPacket
  MaxFrames = 8
  DropsFrames = TRUE
SPECIFICATION Spec
INVARIANTS
  RxTypeOK
  RxOwnership
  FramesReleased
PROPERTIES
  HeldFramesStable
  ImplementsRxQueue
