CONSTANTS
  FileLen = 3
  DataSize = 2
SPECIFICATION FairSpec
PROPERTIES
  ReceiverCloses
