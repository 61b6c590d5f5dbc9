CONSTANTS
  Names <- MCNames
  Nifs <- MCNifs
  Requests <- MCRequests
  RingModulus = 2
  Flags <- MCFlags
  Indices = {0, 1, 2}
  Handles = {h1, h2}
SPECIFICATION Spec
SYMMETRY HandleSymmetry
INVARIANTS
  PortTypeOK
  OpenWhileUsed
  CountsWhatItRegistered
  HandlesReachRings
  HandlesDoNotMeet
