CONSTANTS
  empty = empty
  full = full
  jumbo = jumbo
  NumSlots = 4
  Length <- MCLength
  BufSize = 1
  LenModulus = 2
  Reservations = {}
  NoPacket = NoPacket
  Discipline = {"one_batch", "checks_space", "fits_buffer"}
SPECIFICATION FairAsyncSpec
INVARIANTS
  AsyncTypeOK
  NoLostWakeup
PROPERTIES
  KeepsRingRules
  WriteReturns
