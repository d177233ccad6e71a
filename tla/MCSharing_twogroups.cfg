\* Requests one at a time, a file shared through two groups.
CONSTANTS
  Fds = {c1}
  Peers = {p1, p2}
  Groups = {g1, g2}
  Files = {f1}
  Numbers = {0}
  Versions = {v1}
  Endpoints = {e1}
  None = None
  MaxPieces = 1
SPECIFICATION Spec
INVARIANTS SharableFilesHaveSource
