CONSTANTS
  FileLen = 9
  DataSize = 2
SPECIFICATION Spec
INVARIANTS
  TypeOK
  IInv
  PrefixDelivered
  EofAfterDelivery
  ForgottenIsDelivered
  BufferIsEarly
  HeadExists
PROPERTIES
  WaitsAdvance
  Refinement
