----------------------------- MODULE MCSharing -----------------------------
EXTENDS Sharing, FiniteSetsExt, TLC

Symmetry == Permutations(Fds) \cup Permutations(Peers) \cup Permutations(Groups)

\* Bound: states with more than one download on record are not explored
\* further.
OneDownload == Cardinality(UNION {{p} \X downloads[p] : p \in Peers}) <= 1
=============================================================================
