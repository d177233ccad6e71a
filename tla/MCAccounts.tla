----------------------------- MODULE MCAccounts -----------------------------
EXTENDS Accounts, TLC

Symmetry == Permutations(Fds) \cup Permutations(Peers) \cup Permutations(Passwords)
=============================================================================
