---------------------------- MODULE MCMembership ----------------------------
EXTENDS Membership, TLC

Symmetry == Permutations(Fds) \cup Permutations(Peers)
=============================================================================
