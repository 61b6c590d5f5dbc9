CONSTANTS
  small = small
  large = large
  jumbo = jumbo
  NumSlots = 4
  Length <- MCLength
  BufSize = 2
  LenModulus = 3
  Reservations = {r1}
  NoPacket = NoPacket
  Discipline = {"one_batch", "checks_space", "fits_buffer"}
SPECIFICATION Spec
INVARIANTS
  TypeOK
  Ownership
  PayloadFits
PROPERTIES
  InFlightUntouched
  CommitMovesHeadByWritten
  ImplementsQueue
