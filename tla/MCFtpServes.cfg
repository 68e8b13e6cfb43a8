CONSTANTS
  Users <- MCUsers
  Dirs <- MCDirs
  Entries <- MCEntries
  Home <- MCHome
  ControlPorts = {65515}
  MaxTransfers = 1
  MaxPath = 3
SPECIFICATION FairSpec
PROPERTIES
  PromptReturns
