CONSTANTS
  FileLen = 5
  DataSize = 2
SPECIFICATION HSpec
PROPERTIES
  ResentAfterExpiry
