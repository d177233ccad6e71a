\* Two logins of one peer interleave.
CONSTANTS
  Fds = {c1, c2}
  Peers = {p1}
  Passwords = {w1}
  Endpoints = {e1}
  None = None
SPECIFICATION Spec
INVARIANTS OneConnectionPerPeer
