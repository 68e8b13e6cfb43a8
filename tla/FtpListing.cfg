CONSTANTS
  Sessions <- MCSessions
  ControlPorts <- MCControlPorts
  ClosedPorts = {2021}
  MaxDescriptors = 2
  Blocks = 1
  MaxTransfers = 2
  None = None
  Old = Old
  Hole = Hole
  End = End
SPECIFICATION Spec
INVARIANTS
  ListsOwnDirectory
