CONSTANTS
  FileLen = 3
  BlockLen = 2
  Uninitialized <- MCUninitialized
  MarkedFiles <- MCMarkedFiles
SPECIFICATION FairSpec
PROPERTIES
  CopyInStep
  BothEnd
