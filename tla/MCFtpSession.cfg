CONSTANTS
  Users <- MCUsers
  Dirs <- MCDirs
  Entries <- MCEntries
  Home <- MCHome
  ControlPorts = {65515}
  MaxTransfers = 2
  MaxPath = 3
SPECIFICATION FairSpec
INVARIANTS
  TypeOK
  LockStep
  AtMostOneMessage
  TransfersPaired
  TransferUsesSentPort
PROPERTIES
  SameTransfers
  AnsweredWhileServed
