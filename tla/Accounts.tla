------------------------------ MODULE Accounts ------------------------------
(***************************************************************************)
(* Connections, accounts and login sessions of the tracker process         *)
(* (src/src/tracker.cpp and the head of src/src/helper_tracker.cpp).       *)
(*                                                                         *)
(* The tracker starts one detached thread per accepted connection.  The    *)
(* threads share the maps user, loggedIn, logmap and listenmap and hold no *)
(* lock.  A handler that tests a map and then writes it is therefore two   *)
(* steps here, one for the tests and one for the writes, and the steps of  *)
(* different connections interleave.  The tests of one request, and its    *)
(* writes, need no steps of their own: only the thread of a descriptor     *)
(* touches its logmap entry, an entry of user never changes, and loggedIn, *)
(* which others do change, is tested once and written once.  What is       *)
(* promised only as long as each request is answered before the next one   *)
(* starts is stated under ~overlapped.                                     *)
(*                                                                         *)
(* Descriptors outlive connections: the kernel hands a closed descriptor   *)
(* to a later connection, and the maps are keyed by descriptor.            *)
(***************************************************************************)
CONSTANTS
  Fds,         \* socket descriptors the kernel can return from accept()
  Peers,       \* peer ids that can be registered
  Passwords,
  Endpoints,   \* ip:port pairs on which peers serve pieces
  None         \* "no such key" in a map

ASSUME AccountsAssumption == None \notin Peers \cup Passwords \cup Endpoints

VARIABLES
  open,        \* descriptors with a live connection
  listenmap,   \* descriptor -> endpoint announced on it
  user,        \* peer id -> password
  loggedIn,    \* peer id -> flag; an absent key reads as FALSE
  logmap,      \* descriptor -> peer logged in on it
  areq,        \* descriptor -> what its thread is in the middle of
  overlapped   \* history: has a request started while another was in progress?

vars == <<open, listenmap, user, loggedIn, logmap, areq, overlapped>>

Idle     == [op |-> "idle"]     \* blocked in recv(), waiting for a command
Hello    == [op |-> "hello"]    \* waiting for the first message, "ip:port"
Requests == [op : {"create_peer", "login"}, peer : Peers, pass : Passwords]

InProgress(c) == areq[c] \in Requests

\* A request is taken up; history notes whether another one is under way.
Begin == overlapped' = IF \E d \in Fds : InProgress(d) THEN TRUE ELSE overlapped

\* The thread of c takes its next command.
Command(c) ==
  /\ c \in open
  /\ areq[c] = Idle
  /\ Begin

Start(c, r) == areq' = [areq EXCEPT ![c] = r]
Finish(c)   == areq' = [areq EXCEPT ![c] = Idle]

\* The slip of writing map[key] = value instead.
InsertOrAssign(map, key, value) == [map EXCEPT ![key] = value]

\* unordered_map::insert leaves an existing entry alone.
Insert(map, key, value) == [map EXCEPT ![key] = IF @ = None THEN value ELSE @]
Init ==
  /\ open = {}
  /\ listenmap = [c \in Fds |-> None]
  /\ user = [p \in Peers |-> None]
  /\ loggedIn = [p \in Peers |-> FALSE]
  /\ logmap = [c \in Fds |-> None]
  /\ areq = [c \in Fds |-> Idle]
  /\ overlapped = FALSE

(***************************************************************************)
(* Connections                                                             *)
(***************************************************************************)
Accept(c) ==
  /\ c \notin open
  /\ open' = open \cup {c}
  /\ Start(c, Hello)
  /\ UNCHANGED <<listenmap, user, loggedIn, logmap, overlapped>>

\* The first message of a peer process is its own listening address.  The recv()
\* may take the first command with it, which is dropped and changes nothing here;
\* who then waits for whom is the subject of module CommandStream.
Announce(c, e) ==
  /\ areq[c] = Hello
  /\ listenmap' = [listenmap EXCEPT ![c] = e]
  /\ Finish(c)
  /\ UNCHANGED <<open, user, loggedIn, logmap, overlapped>>

\* The peer closes before announcing itself: the uninitialised buffer is
\* parsed.  Either it parses as some address and the next recv() ends the
\* thread, as here, or stoi throws and the process ends: Restart.
HelloLost(c) ==
  /\ areq[c] = Hello
  /\ \E e \in Endpoints : listenmap' = [listenmap EXCEPT ![c] = e]
  /\ open' = open \ {c}
  /\ Finish(c)
  /\ UNCHANGED <<user, loggedIn, logmap, overlapped>>

\* What a careless clean-up in handleClient would do: drop the session of
\* the descriptor but forget the flag of the peer.
DisconnectHalfClean(c) ==
  /\ c \in open
  /\ areq[c] = Idle
  /\ open' = open \ {c}
  /\ logmap' = [logmap EXCEPT ![c] = None]
  /\ UNCHANGED <<listenmap, user, loggedIn, areq, overlapped>>

\* recv() <= 0: the thread closes the descriptor and ends.  The session maps
\* are not touched.
Disconnect(c) ==
  /\ c \in open
  /\ areq[c] = Idle
  /\ open' = open \ {c}
  /\ UNCHANGED <<listenmap, user, loggedIn, logmap, areq, overlapped>>

\* The process ends ("quit" on its console, an exception thrown in a client
\* thread, a container corrupted by a data race) and is started again.  It
\* persists nothing.
Restart ==
  /\ open' = {}
  /\ listenmap' = [c \in Fds |-> None]
  /\ user' = [p \in Peers |-> None]
  /\ loggedIn' = [p \in Peers |-> FALSE]
  /\ logmap' = [c \in Fds |-> None]
  /\ areq' = [c \in Fds |-> Idle]
  /\ overlapped' = FALSE

(***************************************************************************)
(* Accounts and sessions                                                   *)
(***************************************************************************)
CreatePeer(c, p, w) ==
  /\ Command(c)
  /\ user[p] = None
  /\ Start(c, [op |-> "create_peer", peer |-> p, pass |-> w])
  /\ UNCHANGED <<open, listenmap, user, loggedIn, logmap>>

\* loggedIn.insert({peer, false}) never changes what a lookup returns.
CreatePeerInsert(c) ==
  /\ InProgress(c)
  /\ areq[c].op = "create_peer"
  /\ user' = Insert(user, areq[c].peer, areq[c].pass)
  /\ Finish(c)
  /\ UNCHANGED <<open, listenmap, loggedIn, logmap, overlapped>>

\* A look-up that takes an absent account for one without a password.
LoginUnregistered(c, p, w) ==
  /\ Command(c)
  /\ logmap[c] = None
  /\ ~loggedIn[p]
  /\ user[p] \in {w, None}
  /\ Start(c, [op |-> "login", peer |-> p, pass |-> w])
  /\ UNCHANGED <<open, listenmap, user, loggedIn, logmap>>

Login(c, p, w) ==
  /\ Command(c)
  /\ logmap[c] = None
  /\ ~loggedIn[p]
  /\ user[p] = w
  /\ Start(c, [op |-> "login", peer |-> p, pass |-> w])
  /\ UNCHANGED <<open, listenmap, user, loggedIn, logmap>>

LoginInsert(c) ==
  /\ InProgress(c)
  /\ areq[c].op = "login"
  /\ loggedIn' = [loggedIn EXCEPT ![areq[c].peer] = TRUE]
  /\ logmap' = Insert(logmap, c, areq[c].peer)
  /\ Finish(c)
  /\ UNCHANGED <<open, listenmap, user, overlapped>>

\* logmap[c] = "" where the entry should be erased.
LogoutEmptyName(c) ==
  /\ Command(c)
  /\ logmap[c] # None
  /\ loggedIn' = [loggedIn EXCEPT ![logmap[c]] = FALSE]
  /\ logmap' = [logmap EXCEPT ![c] = ""]
  /\ UNCHANGED <<open, listenmap, user, areq>>

Logout(c) ==
  /\ Command(c)
  /\ logmap[c] # None
  /\ loggedIn' = [loggedIn EXCEPT ![logmap[c]] = FALSE]
  /\ logmap' = [logmap EXCEPT ![c] = None]
  /\ UNCHANGED <<open, listenmap, user, areq>>

Next ==
  \/ Restart
  \/ \E c \in Fds :
       \/ Accept(c)
       \/ \E e \in Endpoints : Announce(c, e)
       \/ HelloLost(c)
       \/ Disconnect(c)
       \/ \E p \in Peers, w \in Passwords : CreatePeer(c, p, w) \/ Login(c, p, w)
       \/ CreatePeerInsert(c)
       \/ LoginInsert(c)
       \/ Logout(c)

Spec == Init /\ [][Next]_vars

-----------------------------------------------------------------------------
TypeOK ==
  /\ open \subseteq Fds
  /\ listenmap \in [Fds -> Endpoints \cup {None}]
  /\ user \in [Peers -> Passwords \cup {None}]
  /\ loggedIn \in [Peers -> BOOLEAN]
  /\ logmap \in [Fds -> Peers \cup {None}]
  /\ areq \in [Fds -> Requests \cup {Idle, Hello}]
  /\ overlapped \in BOOLEAN

\* The two session maps agree across logins, logouts, disconnections and
\* reuse of descriptors: a peer's flag is up exactly while one descriptor,
\* live or closed, maps to it, and never two.  It is what makes the answer
\* "someone else is logged in" right, and what keeps a second login from
\* being accepted.  It holds until two requests overlap.
SessionIndex ==
  ~overlapped =>
    /\ \A p \in Peers : loggedIn[p] <=> \E c \in Fds : logmap[c] = p
    /\ \A c, d \in Fds : logmap[c] # None /\ logmap[c] = logmap[d] => c = d

\* Every session is that of a registered account, whatever the schedule:
\* no chain of requests gets a name into logmap that create_peer did not add.
SessionsHaveAccounts ==
  \A c \in Fds : logmap[c] # None => user[logmap[c]] # None

\* A registration is never overwritten, even when two connections both found
\* the name free: as long as the process lives, a password once stored stays.
PasswordsKept ==
  [][\/ \A p \in Peers : user[p] # None => user'[p] = user[p]
     \/ user' = [p \in Peers |-> None]]_vars

\* A peer counts as logged in only while a connection of its is open, so that
\* login's refusal "someone else is logged in as" is true when it is given.
LoggedInIsConnected ==
  \A p \in Peers : loggedIn[p] => \E c \in open : logmap[c] = p

\* At no time are two live connections logged in as the same peer: login
\* refuses with "someone else is logged in as".
OneConnectionPerPeer ==
  \A c, d \in open : logmap[c] # None /\ logmap[c] = logmap[d] => c = d

(***************************************************************************)
(* Strengthening used by the proofs: until two requests overlap, the tests *)
(* of the request in progress still hold when its writes are done.         *)
(***************************************************************************)
AtMostOneInProgress ==
  ~overlapped => \A c, d \in Fds : InProgress(c) /\ InProgress(d) => c = d

TestsStillHold ==
  ~overlapped =>
    \A c \in Fds : InProgress(c) /\ areq[c].op = "login" =>
      /\ logmap[c] = None
      /\ ~loggedIn[areq[c].peer]

LoginsHaveAccounts ==
  \A c \in Fds : InProgress(c) /\ areq[c].op = "login" => user[areq[c].peer] # None

SerialInv ==
  /\ TypeOK
  /\ AtMostOneInProgress
  /\ TestsStillHold
  /\ SessionIndex
=============================================================================
