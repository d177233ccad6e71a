\* 2 descriptors, 2 peers, 1 endpoint, 1 group, 1 file of 1 piece.
CONSTANTS
  Fds = {c1, c2}
  Peers = {p1, p2}
  Passwords = {w1}
  Endpoints = {e1}
  Groups = {g1}
  Files = {f1}
  Numbers = {0}
  Versions = {v1}
  None = None
  Blank = Blank
  MaxPieces = 1
SYMMETRY Symmetry
SPECIFICATION Spec
CONSTRAINTS PartsOverlap OneDownload
INVARIANTS NamesHaveAccounts
PROPERTIES RefinesMembership RefinesSharing ListedByMember
