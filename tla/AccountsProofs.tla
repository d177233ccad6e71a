--------------------------- MODULE AccountsProofs ---------------------------
(***************************************************************************)
(* What holds of the tracker's accounts and sessions for every set of      *)
(* descriptors, peers, passwords and endpoints.                            *)
(***************************************************************************)
EXTENDS Accounts, TLAPS

\* The history variable is a flag, and once up it stays up until a restart; a
\* request that is taken up with the flag staying down finds no other.
LEMMA History ==
  ASSUME overlapped \in BOOLEAN
  PROVE  Begin => /\ overlapped' \in BOOLEAN
                  /\ ~overlapped' => ~overlapped /\ \A d \in Fds : ~InProgress(d)
<1>1. CASE \E d \in Fds : InProgress(d)
  BY <1>1 DEF Begin
<1>2. CASE ~\E d \in Fds : InProgress(d)
  BY <1>2 DEF Begin
<1> QED
  BY <1>1, <1>2

\* Every step sets the history variable to a flag.
LEMMA HistoryType == TypeOK /\ [Next]_vars => overlapped' \in BOOLEAN
<1> SUFFICES ASSUME TypeOK, [Next]_vars
             PROVE  overlapped' \in BOOLEAN
  OBVIOUS
<1>1. CASE Begin
  BY <1>1, History DEF TypeOK
<1>2. CASE UNCHANGED overlapped
  BY <1>2 DEF TypeOK
<1>3. CASE Restart
  BY <1>3 DEF Restart
<1> QED
  BY <1>1, <1>2, <1>3
  DEF Next, vars, Command, Accept, Announce, HelloLost, Disconnect, CreatePeer, CreatePeerInsert,
      Login, LoginInsert, Logout

\* Every variable keeps to its type, whatever the schedule of the handlers.
THEOREM AccountsTypeOK == Spec => []TypeOK
<1>1. Init => TypeOK
  BY DEF Init, TypeOK, Idle
<1>2. TypeOK /\ [Next]_vars => TypeOK'
  <2> SUFFICES ASSUME TypeOK, [Next]_vars, overlapped' \in BOOLEAN
               PROVE  TypeOK'
    BY HistoryType
  <2> USE AccountsAssumption DEF TypeOK, Start, Finish, Command, Idle, Hello, Requests
  <2>1. CASE UNCHANGED vars
    BY <2>1 DEF vars
  <2>2. CASE Restart
    BY <2>2 DEF Restart
  <2>3. ASSUME NEW c \in Fds, Accept(c)
        PROVE  TypeOK'
    BY <2>3 DEF Accept
  <2>4. ASSUME NEW c \in Fds, NEW e \in Endpoints, Announce(c, e)
        PROVE  TypeOK'
    BY <2>4 DEF Announce
  <2>5. ASSUME NEW c \in Fds, HelloLost(c)
        PROVE  TypeOK'
    BY <2>5 DEF HelloLost
  <2>6. ASSUME NEW c \in Fds, Disconnect(c)
        PROVE  TypeOK'
    BY <2>6 DEF Disconnect
  <2>7. ASSUME NEW c \in Fds, NEW p \in Peers, NEW w \in Passwords,
               CreatePeer(c, p, w) \/ Login(c, p, w)
        PROVE  TypeOK'
    <3>1. CASE CreatePeer(c, p, w)
      BY <3>1 DEF CreatePeer
    <3>2. CASE Login(c, p, w)
      BY <3>2 DEF Login
    <3> QED
      BY <2>7, <3>1, <3>2
  <2>8. ASSUME NEW c \in Fds, CreatePeerInsert(c)
        PROVE  TypeOK'
    BY <2>8 DEF CreatePeerInsert, InProgress, Insert
  <2>9. ASSUME NEW c \in Fds, LoginInsert(c)
        PROVE  TypeOK'
    BY <2>9 DEF LoginInsert, InProgress, Insert
  <2>10. ASSUME NEW c \in Fds, Logout(c)
         PROVE  TypeOK'
    BY <2>10 DEF Logout
  <2> QED
    BY <2>1, <2>2, <2>3, <2>4, <2>5, <2>6, <2>7, <2>8, <2>9, <2>10 DEF Next
<1> QED
  BY <1>1, <1>2, PTL DEF Spec

-----------------------------------------------------------------------------
\* The type invariant with what is known of a login between its tests and
\* its writes: the account it names was found, and accounts never go away.
AccountInv == TypeOK /\ LoginsHaveAccounts /\ SessionsHaveAccounts

\* AccountInv is inductive whether or not handlers overlap.
LEMMA AccountInvStep == AccountInv /\ TypeOK' /\ [Next]_vars => AccountInv'
<1> SUFFICES ASSUME AccountInv, TypeOK', [Next]_vars
             PROVE  LoginsHaveAccounts' /\ SessionsHaveAccounts'
  BY DEF AccountInv
<1> USE AccountsAssumption
    DEF AccountInv, TypeOK, LoginsHaveAccounts, SessionsHaveAccounts, InProgress,
        Start, Finish, Idle, Hello, Requests
<1>1. CASE UNCHANGED vars
  BY <1>1 DEF vars
<1>2. CASE Restart
  BY <1>2 DEF Restart
<1>3. ASSUME NEW c \in Fds, Accept(c)
      PROVE  LoginsHaveAccounts' /\ SessionsHaveAccounts'
  BY <1>3 DEF Accept
<1>4. ASSUME NEW c \in Fds, NEW e \in Endpoints, Announce(c, e)
      PROVE  LoginsHaveAccounts' /\ SessionsHaveAccounts'
  BY <1>4 DEF Announce
<1>5. ASSUME NEW c \in Fds, HelloLost(c)
      PROVE  LoginsHaveAccounts' /\ SessionsHaveAccounts'
  BY <1>5 DEF HelloLost
<1>6. ASSUME NEW c \in Fds, Disconnect(c)
      PROVE  LoginsHaveAccounts' /\ SessionsHaveAccounts'
  BY <1>6 DEF Disconnect
<1>7. ASSUME NEW c \in Fds, NEW p \in Peers, NEW w \in Passwords, CreatePeer(c, p, w)
      PROVE  LoginsHaveAccounts' /\ SessionsHaveAccounts'
  BY <1>7 DEF CreatePeer
<1>8. ASSUME NEW c \in Fds, NEW p \in Peers, NEW w \in Passwords, Login(c, p, w)
      PROVE  LoginsHaveAccounts' /\ SessionsHaveAccounts'
  BY <1>8 DEF Login
<1>9. ASSUME NEW c \in Fds, CreatePeerInsert(c)
      PROVE  LoginsHaveAccounts' /\ SessionsHaveAccounts'
  BY <1>9 DEF CreatePeerInsert, Insert
<1>10. ASSUME NEW c \in Fds, LoginInsert(c)
       PROVE  LoginsHaveAccounts' /\ SessionsHaveAccounts'
  BY <1>10 DEF LoginInsert, Insert
<1>11. ASSUME NEW c \in Fds, Logout(c)
       PROVE  LoginsHaveAccounts' /\ SessionsHaveAccounts'
  BY <1>11 DEF Logout
<1> QED
  BY <1>1, <1>2, <1>3, <1>4, <1>5, <1>6, <1>7, <1>8, <1>9, <1>10, <1>11 DEF Next

\* Every session is that of a registered account, on every schedule.
THEOREM SessionsAreRegistered == Spec => []SessionsHaveAccounts
<1>1. Init => LoginsHaveAccounts /\ SessionsHaveAccounts
  BY DEF Init, LoginsHaveAccounts, SessionsHaveAccounts, InProgress, Requests, Idle
<1>2. AccountInv => SessionsHaveAccounts
  BY DEF AccountInv
<1>3. AccountInv <=> TypeOK /\ LoginsHaveAccounts /\ SessionsHaveAccounts
  BY DEF AccountInv
<1> QED
  BY <1>1, <1>2, <1>3, AccountsTypeOK, AccountInvStep, PTL DEF Spec

\* A stored password is never overwritten while the process lives, even by
\* two registrations of one name that both found it free.
THEOREM PasswordsAreKept == Spec => PasswordsKept
<1>1. ASSUME TypeOK, [Next]_vars
      PROVE  [\/ \A p \in Peers : user[p] # None => user'[p] = user[p]
              \/ user' = [p \in Peers |-> None]]_vars
  <2>1. CASE UNCHANGED vars
    BY <2>1
  <2>2. CASE Restart
    BY <2>2 DEF Restart
  <2>3. ASSUME NEW c \in Fds, CreatePeerInsert(c)
        PROVE  \A p \in Peers : user[p] # None => user'[p] = user[p]
    BY <1>1, <2>3 DEF CreatePeerInsert, Insert, TypeOK, InProgress, Requests
  <2>4. CASE UNCHANGED user
    BY <2>4
  <2> QED
    BY <1>1, <2>1, <2>2, <2>3, <2>4
    DEF Next, Accept, Announce, HelloLost, Disconnect, CreatePeer, Login, LoginInsert, Logout
<1> QED
  BY <1>1, AccountsTypeOK, PTL DEF Spec, PasswordsKept

-----------------------------------------------------------------------------
\* The invariant of the serial schedule: until two requests overlap, what
\* the tests of a login found still holds when its writes are made, which is
\* what keeps loggedIn and logmap in step.
LEMMA SerialInvStep == SerialInv /\ TypeOK' /\ [Next]_vars => SerialInv'
<1> SUFFICES ASSUME SerialInv, TypeOK', [Next]_vars, ~overlapped'
             PROVE  AtMostOneInProgress' /\ TestsStillHold' /\ SessionIndex'
  BY DEF SerialInv, AtMostOneInProgress, TestsStillHold, SessionIndex
<1> DEFINE Goal == AtMostOneInProgress' /\ TestsStillHold' /\ SessionIndex'
<1> USE AccountsAssumption
    DEF SerialInv, TypeOK, AtMostOneInProgress, TestsStillHold, SessionIndex,
        InProgress, Command, Begin, Start, Finish, Idle, Hello, Requests
<1>1. CASE UNCHANGED vars
  BY <1>1 DEF vars
<1>2. CASE Restart
  BY <1>2 DEF Restart
<1>3. ASSUME NEW c \in Fds, Accept(c)
      PROVE  Goal
  BY <1>3 DEF Accept
<1>4. ASSUME NEW c \in Fds, NEW e \in Endpoints, Announce(c, e)
      PROVE  Goal
  BY <1>4 DEF Announce
<1>5. ASSUME NEW c \in Fds, HelloLost(c)
      PROVE  Goal
  BY <1>5 DEF HelloLost
<1>6. ASSUME NEW c \in Fds, Disconnect(c)
      PROVE  Goal
  BY <1>6 DEF Disconnect
<1>7. ASSUME NEW c \in Fds, NEW p \in Peers, NEW w \in Passwords, CreatePeer(c, p, w)
      PROVE  Goal
  BY <1>7 DEF CreatePeer
<1>8. ASSUME NEW c \in Fds, NEW p \in Peers, NEW w \in Passwords, Login(c, p, w)
      PROVE  Goal
  BY <1>8 DEF Login
<1>9. ASSUME NEW c \in Fds, CreatePeerInsert(c)
      PROVE  Goal
  BY <1>9 DEF CreatePeerInsert
<1>10. ASSUME NEW c \in Fds, LoginInsert(c)
       PROVE  Goal
  <2> DEFINE p == areq[c].peer
  <2>0. ~overlapped
    BY <1>10 DEF LoginInsert
  <2>1. p \in Peers /\ logmap[c] = None /\ ~loggedIn[p]
    BY <2>0, <1>10 DEF LoginInsert
  <2>2. \A d \in Fds : logmap[d] # p
    BY <2>0, <2>1
  <2>3. /\ loggedIn' = [loggedIn EXCEPT ![p] = TRUE]
        /\ logmap' = [logmap EXCEPT ![c] = p]
    BY <2>1, <1>10 DEF LoginInsert, Insert
  <2>4. SessionIndex'
    BY <2>0, <2>1, <2>2, <2>3
  <2>5. AtMostOneInProgress' /\ TestsStillHold'
    BY <1>10 DEF LoginInsert
  <2> QED
    BY <2>4, <2>5
<1>11. ASSUME NEW c \in Fds, Logout(c)
       PROVE  Goal
  BY <1>11 DEF Logout
<1> QED
  BY <1>1, <1>2, <1>3, <1>4, <1>5, <1>6, <1>7, <1>8, <1>9, <1>10, <1>11 DEF Next

\* Until two requests overlap, a peer's flag is up exactly while one
\* descriptor maps to it, and never two.
THEOREM SessionsAreIndexed == Spec => []SessionIndex
<1>1. Init => AtMostOneInProgress /\ TestsStillHold /\ SessionIndex
  BY AccountsAssumption
  DEF Init, AtMostOneInProgress, TestsStillHold, SessionIndex, InProgress, Requests, Idle
<1>2. Init /\ TypeOK => SerialInv
  BY <1>1 DEF SerialInv
<1>3. SerialInv => SessionIndex
  BY DEF SerialInv
<1> QED
  BY <1>2, <1>3, AccountsTypeOK, SerialInvStep, PTL DEF Spec
=============================================================================
