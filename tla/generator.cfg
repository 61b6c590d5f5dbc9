CONSTANTS
  NumSlots = 5
  Headers = 7
  Batches = 6
  Length <- MCLength
  BufSize = 2
  LenModulus = 3
  Reservations = {b}
  batchId = b
  NoPacket = NoPacket
  Discipline = {"one_batch", "checks_space", "fits_buffer"}
SPECIFICATION FairGenSpec
INVARIANTS
  GenTypeOK
  SuccessiveHeaders
  OneBatchWaits
PROPERTIES
  KeepsDiscipline
  Terminates
CHECK_DEADLOCK FALSE
