\* 2 connections, 3 peers, 1 group (no handler touches two): any number of
\* commands of one connection fit between two steps of the other.
CONSTANTS
  Fds = {c1, c2}
  Peers = {p1, p2, p3}
  Groups = {g1}
  None = None
  Blank = Blank
SYMMETRY Symmetry
SPECIFICATION Spec
INVARIANTS TypeOK OwnerIsMember OnlyFounderDoublyListed NobodyUnasked
PROPERTIES MembersAdmitted RequestsKept OwnershipToMember
