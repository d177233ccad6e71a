CONSTANTS
  Nodes <- MCNodes
  Files <- MCFiles
  Contacts <- MCContacts
  Junk = 99
  MaxCommands = 2
  MaxFaults = 1
SPECIFICATION FairSpec
INVARIANTS TypeOK EntriesAccounted JunkHasCause StarUnlessEarly
PROPERTIES JoinCompletes
CHECK_DEADLOCK FALSE
