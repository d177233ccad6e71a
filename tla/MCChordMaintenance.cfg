\* Three nodes and no commands: what the nodes do by themselves is enough to see
\* that they form no ring.
CONSTANTS
  Nodes <- MCNodes
  Files <- MCFiles
  Contacts <- MCContacts
  Junk = 99
  None = None
  NumFingers = 2
  MaxCommands = 0
  MaxFaults = 0
SPECIFICATION MFairSpec
PROPERTIES RingForms
CHECK_DEADLOCK FALSE
