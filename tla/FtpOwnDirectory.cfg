CONSTANTS
  Users <- MCUsers
  Dirs <- MCDirs
  Entries <- MCEntries
  Home <- MCHome
  MaxTransfers = 2
  MaxPath = 3
SPECIFICATION ServiceSpec
INVARIANTS
  OwnDirectory
