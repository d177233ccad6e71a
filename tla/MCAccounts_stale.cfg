\* A connection ends while its peer is logged in.
CONSTANTS
  Fds = {c1, c2}
  Peers = {p1}
  Passwords = {w1}
  Endpoints = {e1}
  None = None
SPECIFICATION Spec
INVARIANTS LoggedInIsConnected
