CONSTANTS
  small = small
  large = large
  jumbo = jumbo
  NumSlots = 3
  Length <- MCLength
  BufSize = 2
  LenModulus = 3
  Reservations = {r1, r2}
  NoPacket = NoPacket
  Discipline = {"checks_space", "fits_buffer"}
SPECIFICATION Spec
PROPERTY CommitMovesHeadByWritten
