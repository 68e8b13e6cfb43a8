CONSTANTS
  Sessions <- MCSessions
  ControlPorts <- MCControlPorts
  ClosedPorts = {2021}
  MaxDescriptors = 2
  Blocks = 2
  MaxTransfers = 2
  None = None
  Old = Old
  Hole = Hole
  End = End
SPECIFICATION FairSpec
INVARIANTS
  ReceivedIntact
  FileIntact
PROPERTIES
  MeetsItsClient
  TransfersEnd
