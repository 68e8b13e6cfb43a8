CONSTANTS
  MaxWindow = 72
  ControlPorts = {1024, 32768, 60999, 65535}
  LastTransfer = 255
  Nodes = {n1, n2, n3, n4}
  Values = {1, 2, 3}
  NULL = NULL
  Users <- MCUsers
  Dirs <- MCDirs
  Entries <- MCEntries
  Home <- MCHome
  MaxTransfers = 2
  MaxPath = 3
SPECIFICATION Spec
INVARIANTS
  OnePerWindow
  PortIsFresh
  ChainSound
  WalksBack
  SessionConsistent
PROPERTIES
  KeepsContents
  OneTransferPerPort
  CwdAsAnswered
