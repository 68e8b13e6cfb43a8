CONSTANTS
  FileLen = 5
  DataSize = 2
SPECIFICATION HFairSpec
PROPERTIES
  SampleUnambiguous
  SenderFinishes
