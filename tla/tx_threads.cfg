CONSTANTS
  small = small
  other = other
  large = large
  NumSlots = 4
  Length <- MCLength
  BufSize = 1
  LenModulus = 2
  Reservations = {r1}
  NoPacket = NoPacket
  Discipline = {"one_batch", "checks_space", "fits_buffer"}
SPECIFICATION ThreadsSpec
SYMMETRY PacketSymmetry
INVARIANTS
  ThreadsTypeOK
  GivenIsVisible
  CurAheadOfHead
PROPERTY CallsAreAtomic
