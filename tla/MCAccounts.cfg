\* 3 descriptors, 2 peers, 2 passwords.
CONSTANTS
  Fds = {c1, c2, c3}
  Peers = {p1, p2}
  Passwords = {w1, w2}
  Endpoints = {e1}
  None = None
SYMMETRY Symmetry
SPECIFICATION Spec
INVARIANTS TypeOK SessionIndex SessionsHaveAccounts
PROPERTY PasswordsKept
