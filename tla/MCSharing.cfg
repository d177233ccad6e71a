\* 2 connections, 2 peers, 2 groups, 1 file of 2 pieces.
CONSTANTS
  Fds = {c1, c2}
  Peers = {p1, p2}
  Groups = {g1, g2}
  Files = {f1}
  Numbers = {0, 1}
  Versions = {v1}
  Endpoints = {e1}
  None = None
  MaxPieces = 2
SYMMETRY Symmetry
CONSTRAINT OneDownload
SPECIFICATION Spec
INVARIANTS TypeOK NoDuplicatePiece NoUnlistedPieces KeptListsHaveSource
PROPERTIES OthersSourcesKept CreditStays
