CONSTANTS
  small = small
  large = large
  jumbo = jumbo
  NumSlots = 4
  Length <- MCLength
  BufSize = 2
  LenModulus = 3
  Reservations = {r1}
  NoPacket = NoPacket
  Discipline = {"one_batch", "fits_buffer"}
SPECIFICATION Spec
PROPERTY FullRingRefuses
