\* Two publishers and a third peer, a file of two pieces whose last is short,
\* three commands, one fault.  Nothing is left to do in the end: no check for
\* deadlock.
CONSTANTS
  p1 = p1
  p2 = p2
  p3 = p3
  None = None
  Peers = {p1, p2, p3}
  NumPieces = 2
  LastShort = TRUE
  Others <- MCOthers
  Found <- MCFound
  Local <- MCLocal
  MaxRetries = 2
  MaxFaults = 1
  MaxCommands = 3
SPECIFICATION FairSpec
INVARIANTS TypeOK SeedsAreExact OnlySpoiledAreKilled NoPartialLeft CleanDownloadIsExact
PROPERTIES DownloadsEnd
CHECK_DEADLOCK FALSE
