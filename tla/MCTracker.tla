----------------------------- MODULE MCTracker -----------------------------
EXTENDS Tracker, TLC

Symmetry == Permutations(Fds) \cup Permutations(Peers)

LoggingIn(c) == Accounts!InProgress(c) /\ areq[c].op = "login"

\* The bound of the run: handlers that overlap are of different parts, or two
\* logins, which put one peer on two connections.  Other handlers of one part
\* overlap in the runs of Accounts, Membership and Sharing.
PartsOverlap ==
  \A c, d \in Fds : c # d =>
    /\ Accounts!InProgress(c) /\ Accounts!InProgress(d) => LoggingIn(c) /\ LoggingIn(d)
    /\ ~(Membership!InProgress(c) /\ Membership!InProgress(d))
    /\ ~(   (freq[c] # Untested \/ Sharing!InProgress(c))
         /\ (freq[d] # Untested \/ Sharing!InProgress(d)))

\* No other handler reads downloads, so one entry there is enough.
OneDownload == \A p, q \in Peers : downloads[p] # {} /\ downloads[q] # {} => p = q
=============================================================================
