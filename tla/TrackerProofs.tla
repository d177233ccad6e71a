--------------------------- MODULE TrackerProofs ---------------------------
(***************************************************************************)
(* What the tracker's three parts keep to when they run in one process,    *)
(* for every set of descriptors, peers, groups, files and the rest, and    *)
(* for every schedule of the handlers.                                     *)
(***************************************************************************)
EXTENDS Tracker, SequenceTheorems, TLAPS

-----------------------------------------------------------------------------
(***************************************************************************)
(* The invariants.                                                         *)
(***************************************************************************)
\* Connections and sessions: an open connection is waiting for its first
\* message or has announced where its peer serves; a session, and a login
\* about to be entered, is that of a registered account.
Sessions ==
  /\ open \subseteq Fds
  /\ listenmap \in [Fds -> Endpoints \cup {None}]
  /\ user \in [Peers -> Passwords \cup {None}]
  /\ logmap \in [Fds -> Peers \cup {None}]
  /\ areq \in [Fds -> Accounts!Requests \cup {Accounts!Idle, Accounts!Hello}]
  /\ \A c \in open : areq[c] = Accounts!Hello \/ listenmap[c] \in Endpoints
  /\ \A c \in Fds : areq[c] = Accounts!Hello => c \in open
  /\ \A c \in Fds : logmap[c] # None => user[logmap[c]] # None
  /\ \A c \in Fds : areq[c] \in Accounts!Requests /\ areq[c].op = "login" =>
                      user[areq[c].peer] # None

\* The thread of c is in a handler of the groups or of the files.
Engaged(c) ==
  Membership!InProgress(c) \/ Sharing!InProgress(c) \/ freq[c] # Untested

\* A thread is in one handler at a time, its connection stays open and logged
\* in meanwhile, and an upload is on behalf of the peer logged in there.
SeatedAt(c) ==
  /\ Engaged(c) => c \in open /\ areq[c] = Accounts!Idle /\ logmap[c] \in Registered
  /\ Membership!InProgress(c) => ~Sharing!InProgress(c) /\ freq[c] = Untested
  /\ Sharing!InProgress(c) => freq[c] = Untested
  /\ sreq[c].at \in Sharing!UploadSteps => sreq[c].cr.peer = logmap[c] /\ sreq[c].e = listenmap[c]

Seated ==
  /\ freq \in [Fds -> Tests \cup {Untested}]
  /\ \A c \in Fds : SeatedAt(c)

-----------------------------------------------------------------------------
(***************************************************************************)
(* Connections and sessions.                                               *)
(***************************************************************************)
\* What a step about connections and sessions does: it keeps to the
\* invariant, to its own descriptor and to the accounts there are.
AccountsMove(c) ==
  /\ Sessions'
  /\ \A d \in Fds \ {c} : /\ d \in open' <=> d \in open
                          /\ areq'[d] = areq[d]
                          /\ logmap'[d] = logmap[d]
                          /\ listenmap'[d] = listenmap[d]
  /\ \A p \in Peers : user[p] # None => user'[p] # None

LEMMA AccountEffects ==
  ASSUME Sessions, NEW c \in Fds, Connection(c) \/ AccountCommand(c)
  PROVE  AccountsMove(c)
<1> USE TrackerAssumption
    DEF AccountsMove, Sessions, Accounts!Start, Accounts!Finish, Accounts!Idle, Accounts!Hello,
        Accounts!Requests
<1>1. CASE Accounts!Accept(c)
  BY <1>1 DEF Accounts!Accept
<1>2. ASSUME NEW e \in Endpoints, Accounts!Announce(c, e)
      PROVE  AccountsMove(c)
  BY <1>2 DEF Accounts!Announce
<1>3. CASE Accounts!HelloLost(c)
  BY <1>3 DEF Accounts!HelloLost
<1>4. CASE Accounts!Disconnect(c)
  BY <1>4 DEF Accounts!Disconnect
<1>5. ASSUME NEW p \in Peers, NEW w \in Passwords, Accounts!CreatePeer(c, p, w)
      PROVE  AccountsMove(c)
  BY <1>5 DEF Accounts!CreatePeer, Accounts!Command
<1>6. ASSUME NEW p \in Peers, NEW w \in Passwords, Accounts!Login(c, p, w)
      PROVE  AccountsMove(c)
  BY <1>6 DEF Accounts!Login, Accounts!Command
<1>7. CASE Accounts!Logout(c)
  BY <1>7 DEF Accounts!Logout, Accounts!Command
<1>8. CASE Accounts!CreatePeerInsert(c)
  BY <1>8 DEF Accounts!CreatePeerInsert, Accounts!InProgress, Accounts!Insert
<1>9. CASE Accounts!LoginInsert(c)
  BY <1>9 DEF Accounts!LoginInsert, Accounts!InProgress, Accounts!Insert
<1> QED
  BY <1>1, <1>2, <1>3, <1>4, <1>5, <1>6, <1>7, <1>8, <1>9 DEF Connection, AccountCommand

\* Such a step is never that of a thread in a handler of another part.
LEMMA AccountsApart ==
  ASSUME Sessions, Seated, NEW c \in Fds, Connection(c) \/ AccountCommand(c)
  PROVE  ~Engaged(c)
<1> SUFFICES ASSUME Engaged(c) PROVE FALSE
  OBVIOUS
<1>1. c \in open /\ areq[c] = Accounts!Idle /\ Handling(c)
  BY DEF Seated, SeatedAt, Engaged, Handling
<1>2. ~Accounts!InProgress(c)
  BY <1>1 DEF Accounts!InProgress, Accounts!Idle, Accounts!Requests
<1> QED
  BY <1>1, <1>2 DEF Connection, AccountCommand, Commanded, AsPeer, Accounts!Accept,
        Accounts!Announce, Accounts!HelloLost, Accounts!CreatePeerInsert, Accounts!LoginInsert,
        Accounts!Idle, Accounts!Hello

-----------------------------------------------------------------------------
(***************************************************************************)
(* Groups.                                                                 *)
(***************************************************************************)
GroupTypes ==
  /\ group \in [Groups -> Peers \cup {None, Blank}]
  /\ group_members \in [Groups -> SUBSET Peers]
  /\ pending \in [Groups -> SUBSET Peers]
  /\ asked \in [Groups -> SUBSET Peers]
  /\ mreq \in [Fds -> Membership!Requests \cup {Membership!Idle}]

\* Whoever is in a group, waits for it, owns it or is about to be entered has
\* asked, and whoever has asked has an account.
GroupRecords ==
  /\ GroupTypes
  /\ Membership!AskedInv
  /\ \A g \in Groups : asked[g] \subseteq Registered

\* What a step of a handler of groups does, c's thread being the one that
\* moves and r the peers that have an account.
GroupsMove(c, r) ==
  /\ GroupTypes'
  /\ \A d \in Fds \ {c} : mreq'[d] = mreq[d]
  /\ \A g \in Groups : asked[g] \subseteq asked'[g] /\ asked'[g] \subseteq asked[g] \cup r

\* A command only takes up a request, asking or not.
LEMMA GroupCommandKeeps ==
  ASSUME NEW c, NEW me, NEW g, NEW p,
         \/ Membership!CreateGroup(c, me, g) \/ Membership!JoinGroup(c, me, g) \/ Membership!LeaveGroup(c, me, g)
         \/ Membership!AcceptRequest(c, me, g, p)
  PROVE  /\ mreq[c] = Membership!Idle
         /\ UNCHANGED <<group, group_members, pending>>
         /\ asked' = asked \/ asked' = Membership!AddTo(asked, g, me)
         /\ \/ Membership!Start(c, "create_insert", me, g, me) /\ asked' = Membership!AddTo(asked, g, me)
            \/ Membership!Start(c, "join_count", me, g, me) /\ asked' = Membership!AddTo(asked, g, me)
            \/ Membership!Start(c, "leave_find", me, g, me)
            \/ Membership!Start(c, "accept_find", me, g, p)
BY DEF Membership!CreateGroup, Membership!JoinGroup, Membership!LeaveGroup,
   Membership!AcceptRequest, Membership!Command, Membership!maps

\* A thread that goes on with its request was in the middle of it.
LEMMA GroupContinueKeeps ==
  ASSUME GroupTypes, NEW c \in Fds, Membership!Continue(c)
  PROVE  /\ UNCHANGED asked
         /\ mreq[c] \in Membership!Requests /\ mreq[c] # Membership!Idle
<1>1. UNCHANGED asked /\ mreq[c].at # "idle"
  BY DEF Membership!Continue,
         Membership!CreateGroupInsert, Membership!CreateGroupMember, Membership!JoinGroupCount,
         Membership!JoinGroupInsert,
         Membership!AcceptRequestFind, Membership!AcceptRequestOwner,
         Membership!AcceptRequestInsert, Membership!AcceptRequestErase,
         Membership!LeaveGroupFind, Membership!LeaveGroupOwner, Membership!LeaveGroupSize,
         Membership!LeaveGroupHeir,
         Membership!LeaveGroupAppoint, Membership!LeaveGroupErase, Membership!DissolveGroup,
         Membership!DissolveMembers
<1>2. mreq[c] \in Membership!Requests \cup {Membership!Idle}
  BY DEF GroupTypes
<1> QED
  BY <1>1, <1>2 DEF Membership!Idle

Stops == Membership!CreateSteps \cup Membership!JoinSteps \cup Membership!AcceptSteps \cup Membership!LeaveSteps

\* Starting a request keeps the requests in order.
LEMMA GroupStarting ==
  ASSUME GroupTypes, NEW c \in Fds, NEW at \in Stops,
         NEW me \in Peers, NEW g \in Groups, NEW p \in Peers, Membership!Start(c, at, me, g, p)
  PROVE  /\ mreq' \in [Fds -> Membership!Requests \cup {Membership!Idle}]
         /\ \A d \in Fds \ {c} : mreq'[d] = mreq[d]
         /\ mreq'[c] = [at |-> at, me |-> me, g |-> g, peer |-> p]
<1> DEFINE r == [at |-> at, me |-> me, g |-> g, peer |-> p]
<1>1. r \in Membership!Requests
  BY DEF Membership!Requests, Stops
<1> QED
  BY <1>1 DEF Membership!Start, GroupTypes

\* So does moving on within it.
LEMMA GroupMoving ==
  ASSUME GroupTypes, NEW c \in Fds, mreq[c] \in Membership!Requests,
         Membership!Finish(c) \/ \E at \in Stops : Membership!Goto(c, at)
  PROVE  /\ mreq' \in [Fds -> Membership!Requests \cup {Membership!Idle}]
         /\ \A d \in Fds \ {c} : mreq'[d] = mreq[d]
BY DEF GroupTypes, Membership!Finish, Membership!Goto, Membership!Requests, Stops

LEMMA GroupStarts ==
  ASSUME GroupTypes, Membership!AskedInv, NEW c \in Fds, NEW me \in Peers, Membership!Commands(c, me)
  PROVE  /\ GroupsMove(c, {me}) /\ Membership!AskedInv'
         /\ UNCHANGED group_members
<1>0. PICK g \in Groups, p \in Peers :
        \/ Membership!CreateGroup(c, me, g) \/ Membership!JoinGroup(c, me, g) \/ Membership!LeaveGroup(c, me, g)
        \/ Membership!AcceptRequest(c, me, g, p)
  BY DEF Membership!Commands
<1>1. /\ UNCHANGED <<group, group_members, pending>>
      /\ asked' = asked \/ asked' = Membership!AddTo(asked, g, me)
      /\ \/ Membership!Start(c, "create_insert", me, g, me) /\ asked' = Membership!AddTo(asked, g, me)
         \/ Membership!Start(c, "join_count", me, g, me) /\ asked' = Membership!AddTo(asked, g, me)
         \/ Membership!Start(c, "leave_find", me, g, me)
         \/ Membership!Start(c, "accept_find", me, g, p)
  BY <1>0, GroupCommandKeeps, Zenon
<1>2. PICK at \in {"create_insert", "join_count", "leave_find", "accept_find"}, q \in Peers :
        /\ Membership!Start(c, at, me, g, q)
        /\ at \in {"create_insert", "join_count"} => q = me /\ asked' = Membership!AddTo(asked, g, me)
  BY <1>1
<1>3. at \in Stops
  BY DEF Stops, Membership!CreateSteps, Membership!JoinSteps, Membership!AcceptSteps,
     Membership!LeaveSteps
<1>4. /\ mreq' \in [Fds -> Membership!Requests \cup {Membership!Idle}]
      /\ \A d \in Fds \ {c} : mreq'[d] = mreq[d]
      /\ mreq'[c] = [at |-> at, me |-> me, g |-> g, peer |-> q]
  BY <1>2, <1>3, GroupStarting
<1>5. /\ asked' \in [Groups -> SUBSET Peers]
      /\ \A h \in Groups : asked[h] \subseteq asked'[h] /\ asked'[h] \subseteq asked[h] \cup {me}
      /\ at \in {"create_insert", "join_count"} => me \in asked'[g]
  BY <1>1, <1>2 DEF GroupTypes, Membership!AddTo
<1>6. GroupsMove(c, {me})
  BY <1>1, <1>4, <1>5 DEF GroupsMove, GroupTypes
<1>7. Membership!NobodyUnasked'
  BY <1>1, <1>5 DEF Membership!AskedInv, Membership!NobodyUnasked
<1>8. \A d \in Fds \ {c} : mreq[d].at # "idle" => mreq[d].g \in Groups
  BY DEF GroupTypes, Membership!Requests, Membership!Idle
<1> QED
  BY <1>1, <1>2, <1>4, <1>5, <1>6, <1>7, <1>8 DEF Membership!AskedInv, Membership!CreateSteps,
     Membership!JoinSteps

LEMMA GroupContinues ==
  ASSUME GroupTypes, Membership!AskedInv, NEW c \in Fds, Membership!Continue(c)
  PROVE  GroupsMove(c, {}) /\ Membership!AskedInv'
<1>1. mreq[c] \in Membership!Requests /\ asked' = asked
  BY GroupContinueKeeps
<1>2. /\ group' \in [Groups -> Peers \cup {None, Blank}]
      /\ group_members' \in [Groups -> SUBSET Peers]
      /\ pending' \in [Groups -> SUBSET Peers]
  BY <1>1 DEF GroupTypes, Membership!Requests, Membership!Continue, Membership!maps,
     Membership!AddTo, Membership!RemoveFrom, Membership!Touch,
         Membership!CreateGroupInsert, Membership!CreateGroupMember, Membership!JoinGroupCount,
         Membership!JoinGroupInsert,
         Membership!AcceptRequestFind, Membership!AcceptRequestOwner,
         Membership!AcceptRequestInsert, Membership!AcceptRequestErase,
         Membership!LeaveGroupFind, Membership!LeaveGroupOwner, Membership!LeaveGroupSize,
         Membership!LeaveGroupHeir,
         Membership!LeaveGroupAppoint, Membership!LeaveGroupErase, Membership!DissolveGroup,
         Membership!DissolveMembers
<1>3. mreq' \in [Fds -> Membership!Requests \cup {Membership!Idle}] /\ \A d \in Fds \ {c} : mreq'[d] = mreq[d]
  <2>1. CASE Membership!LeaveGroupHeir(c)
    <3>1. \/ \E heir \in group_members[mreq[c].g] :
               Membership!Start(c, "leave_appoint", mreq[c].me, mreq[c].g, heir)
          \/ Membership!Goto(c, "leave_erase")
      BY <2>1 DEF Membership!LeaveGroupHeir
    <3>2. PICK me \in Peers, g \in Groups : me = mreq[c].me /\ g = mreq[c].g
      BY <1>1 DEF Membership!Requests
    <3>3. group_members[g] \subseteq Peers
      BY DEF GroupTypes
    <3>4. "leave_appoint" \in Stops /\ "leave_erase" \in Stops
      BY DEF Stops, Membership!LeaveSteps
    <3> QED
      BY <1>1, <3>1, <3>2, <3>3, <3>4, GroupStarting, GroupMoving
  <2>2. CASE ~Membership!LeaveGroupHeir(c)
    <3>1. Membership!Finish(c) \/ \E at \in Stops : Membership!Goto(c, at)
      BY <2>2 DEF Membership!Continue, Stops, Membership!CreateSteps, Membership!JoinSteps,
         Membership!AcceptSteps, Membership!LeaveSteps,
             Membership!CreateGroupInsert, Membership!CreateGroupMember,
             Membership!JoinGroupCount, Membership!JoinGroupInsert,
             Membership!AcceptRequestFind, Membership!AcceptRequestOwner,
             Membership!AcceptRequestInsert,
             Membership!AcceptRequestErase, Membership!LeaveGroupFind, Membership!LeaveGroupOwner,
             Membership!LeaveGroupSize,
             Membership!LeaveGroupHeir, Membership!LeaveGroupAppoint, Membership!LeaveGroupErase,
             Membership!DissolveGroup,
             Membership!DissolveMembers
    <3> QED
      BY <1>1, <3>1, GroupMoving
  <2> QED
    BY <2>1, <2>2
<1>4. GroupsMove(c, {})
  BY <1>1, <1>2, <1>3 DEF GroupsMove, GroupTypes
<1>5. Membership!AskedInv'
  <2> USE <1>1, TrackerAssumption
      DEF Membership!AskedInv, Membership!NobodyUnasked, GroupTypes, Membership!Requests,
      Membership!AddTo, Membership!RemoveFrom, Membership!Touch, Membership!Goto,
          Membership!Finish, Membership!Start, Membership!Idle, Membership!maps,
          Membership!CreateSteps, Membership!JoinSteps
  <2>1. CASE Membership!CreateGroupInsert(c)
    BY <2>1 DEF Membership!CreateGroupInsert
  <2>2. CASE Membership!CreateGroupMember(c)
    BY <2>2 DEF Membership!CreateGroupMember
  <2>3. CASE Membership!JoinGroupCount(c)
    BY <2>3 DEF Membership!JoinGroupCount
  <2>4. CASE Membership!JoinGroupInsert(c)
    BY <2>4 DEF Membership!JoinGroupInsert
  <2>5. CASE Membership!AcceptRequestFind(c)
    BY <2>5 DEF Membership!AcceptRequestFind
  <2>6. CASE Membership!AcceptRequestOwner(c)
    BY <2>6 DEF Membership!AcceptRequestOwner
  <2>7. CASE Membership!AcceptRequestInsert(c)
    BY <2>7 DEF Membership!AcceptRequestInsert
  <2>8. CASE Membership!AcceptRequestErase(c)
    BY <2>8 DEF Membership!AcceptRequestErase
  <2>9. CASE Membership!LeaveGroupFind(c)
    BY <2>9 DEF Membership!LeaveGroupFind
  <2>10. CASE Membership!LeaveGroupOwner(c)
    BY <2>10 DEF Membership!LeaveGroupOwner
  <2>11. CASE Membership!LeaveGroupSize(c)
    BY <2>11 DEF Membership!LeaveGroupSize
  <2>12. CASE Membership!LeaveGroupHeir(c)
    BY <2>12 DEF Membership!LeaveGroupHeir
  <2>13. CASE Membership!LeaveGroupAppoint(c)
    BY <2>13 DEF Membership!LeaveGroupAppoint
  <2>14. CASE Membership!LeaveGroupErase(c)
    BY <2>14 DEF Membership!LeaveGroupErase
  <2>15. CASE Membership!DissolveGroup(c)
    BY <2>15 DEF Membership!DissolveGroup
  <2>16. CASE Membership!DissolveMembers(c)
    BY <2>16 DEF Membership!DissolveMembers
  <2> QED
    BY <2>1, <2>2, <2>3, <2>4, <2>5, <2>6, <2>7, <2>8, <2>9,
       <2>10, <2>11, <2>12, <2>13, <2>14, <2>15, <2>16
       DEF Membership!Continue
<1> QED
  BY <1>4, <1>5

-----------------------------------------------------------------------------
(***************************************************************************)
(* Files.  R stands for the peers that have an account; the types of the   *)
(* catalogue with R in place of all peers say whose names it holds.        *)
(***************************************************************************)
CreditOf(R)  == [peer : R, version : Versions]
PiecesOf(R)  == [number : Numbers, sources : [Endpoints -> CreditOf(R) \cup {None}]]
UploadsOf(R) == [at : Sharing!UploadSteps, cr : CreditOf(R), e : Endpoints, g : Groups,
                 f : Files, n : Numbers]
OthersOf(R)  == [at : Sharing!StopSteps \cup Sharing!DownloadSteps, me : R, g : Groups, f : Files]

FileTypes(R) ==
  /\ group_file \in [Groups -> SUBSET Files]
  /\ downloads \in [Peers -> SUBSET (Files \X Groups)]
  /\ \A p \in Peers : downloads[p] # {} => p \in R
  /\ sreq \in [Fds -> UploadsOf(R) \cup OthersOf(R) \cup {Sharing!Idle}]

FileRecords(R) ==
  /\ FileTypes(R)
  /\ file_pieces \in [Files -> Seq(PiecesOf(R)) \cup {None}]

\* Somebody is credited with a piece of the list at e.
HasCredit(list, e) ==
  \E k \in DOMAIN list : list[k].number \in Numbers /\ list[k].sources[e] # None

\* What is said of some accounts is said of more.
LEMMA MoreAccounts ==
  ASSUME NEW R, NEW Q, R \subseteq Q, FileRecords(R)
  PROVE  FileRecords(Q)
<1>1. /\ CreditOf(R) \subseteq CreditOf(Q)
      /\ UploadsOf(R) \subseteq UploadsOf(Q)
      /\ OthersOf(R) \subseteq OthersOf(Q)
  BY DEF CreditOf, UploadsOf, OthersOf
<1>2. PiecesOf(R) \subseteq PiecesOf(Q)
  BY <1>1 DEF PiecesOf
<1>3. Seq(PiecesOf(R)) \subseteq Seq(PiecesOf(Q))
  BY <1>2
<1> QED
  BY <1>1, <1>3 DEF FileRecords, FileTypes

\* None is no list.
LEMMA NoneIsNoList == ASSUME NEW R \in SUBSET Peers PROVE None \notin Seq(PiecesOf(R))
<1>1. PiecesOf(R) \subseteq Sharing!Pieces
  BY DEF PiecesOf, CreditOf, Sharing!Pieces, Sharing!Sources, Sharing!Credit
<1>2. Seq(PiecesOf(R)) \subseteq Seq(Sharing!Pieces)
  BY <1>1
<1> QED
  BY <1>2, TrackerAssumption

LEMMA ListOf ==
  ASSUME NEW R, FileRecords(R), NEW f \in Files
  PROVE  Sharing!List(f) \in Seq(PiecesOf(R))
BY EmptySeq DEF FileRecords, Sharing!List

\* Storing a list of that kind.
LEMMA PutKeeps ==
  ASSUME NEW R \in SUBSET Peers, FileRecords(R), NEW f \in Files, NEW list \in Seq(PiecesOf(R)),
         Sharing!Put(f, list)
  PROVE  /\ file_pieces' \in [Files -> Seq(PiecesOf(R)) \cup {None}]
         /\ Sharing!List(f)' = list
BY NoneIsNoList DEF FileRecords, Sharing!Put, Sharing!List

\* Adding a source of one's own leaves lists of that kind, and a credit.
LEMMA SourceAdded ==
  ASSUME NEW R \in SUBSET Peers, NEW list \in Seq(PiecesOf(R)), NEW k \in DOMAIN list,
         NEW e \in Endpoints, NEW cr \in CreditOf(R)
  PROVE  /\ Sharing!WithSource(list, k, e, cr) \in Seq(PiecesOf(R))
         /\ HasCredit(Sharing!WithSource(list, k, e, cr), e)
<1> DEFINE sources == Sharing!AddSource(list[k].sources, e, cr)
           piece   == [list[k] EXCEPT !.sources = sources]
           new     == Sharing!WithSource(list, k, e, cr)
<1>1. list[k] \in PiecesOf(R)
  OBVIOUS
<1>2. cr # None
  BY TrackerAssumption DEF CreditOf, Sharing!Credit
<1>3. sources \in [Endpoints -> CreditOf(R) \cup {None}] /\ sources[e] # None
  BY <1>1, <1>2 DEF PiecesOf, Sharing!AddSource
<1> HIDE DEF sources
<1>4. piece \in PiecesOf(R) /\ piece.sources = sources /\ piece.number \in Numbers
  BY <1>1, <1>3 DEF PiecesOf
<1> HIDE DEF piece
<1>5. new = [list EXCEPT ![k] = piece]
  BY DEF Sharing!WithSource, sources, piece
<1>6. new \in Seq(PiecesOf(R)) /\ k \in DOMAIN new /\ new[k] = piece
  BY <1>4, <1>5
<1> HIDE DEF new
<1> QED
  BY <1>3, <1>4, <1>6 DEF HasCredit, new

\* So does appending a piece with a source.
LEMMA PieceAppended ==
  ASSUME NEW R \in SUBSET Peers, NEW list \in Seq(PiecesOf(R)), NEW r \in UploadsOf(R)
  PROVE  /\ Append(list, Sharing!NewPiece(r)) \in Seq(PiecesOf(R))
         /\ HasCredit(Append(list, Sharing!NewPiece(r)), r.e)
<1> DEFINE piece == Sharing!NewPiece(r)
           new   == Append(list, piece)
<1>1. r.e \in Endpoints /\ r.cr \in CreditOf(R) /\ r.n \in Numbers
  BY DEF UploadsOf
<1>2. r.cr # None
  BY <1>1, TrackerAssumption DEF CreditOf, Sharing!Credit
<1>3. piece \in PiecesOf(R) /\ piece.number \in Numbers /\ piece.sources[r.e] # None
  BY <1>1, <1>2 DEF Sharing!NewPiece, Sharing!NoSource, PiecesOf
<1> HIDE DEF piece
<1>4. /\ new \in Seq(PiecesOf(R))
      /\ Len(list) + 1 \in DOMAIN new /\ new[Len(list) + 1] = piece
  BY <1>3, AppendProperties
<1> HIDE DEF new
<1> QED
  BY <1>3, <1>4 DEF HasCredit, new, piece

\* Taking sources away leaves names that were there.
LEMMA SourcesTaken ==
  ASSUME NEW R, NEW list \in Seq(PiecesOf(R)), NEW p
  PROVE  Sharing!Without(list, p) \in Seq(PiecesOf(R))
<1>1. ASSUME NEW k \in 1 .. Len(list)
      PROVE  Sharing!Without(list, p)[k] \in PiecesOf(R)
  <2> DEFINE left == [e \in Endpoints |->
                        IF list[k].sources[e] # None /\ list[k].sources[e].peer = p
                        THEN None ELSE list[k].sources[e]]
  <2>1. list[k] \in PiecesOf(R) /\ k \in DOMAIN list
    OBVIOUS
  <2>2. left \in [Endpoints -> CreditOf(R) \cup {None}]
    BY <2>1 DEF PiecesOf
  <2>3. Sharing!Without(list, p) = [j \in DOMAIN list |->
          [list[j] EXCEPT !.sources =
             [e \in Endpoints |-> IF list[j].sources[e] # None /\ list[j].sources[e].peer = p
                                  THEN None ELSE list[j].sources[e]]]]
    BY Zenon DEF Sharing!Without
  <2>4. Sharing!Without(list, p)[k] = [list[k] EXCEPT !.sources = left]
    BY <2>1, <2>3, Zenon
  <2> HIDE DEF left
  <2> QED
    BY <2>1, <2>2, <2>4 DEF PiecesOf
<1>2. Sharing!Without(list, p) = [k \in 1 .. Len(list) |-> Sharing!Without(list, p)[k]]
  BY DEF Sharing!Without
<1>3. Sharing!Without(list, p) \in [1 .. Len(list) -> PiecesOf(R)]
  BY <1>1, <1>2
<1> QED
  BY <1>3

-----------------------------------------------------------------------------
\* A thread that goes on with its request was in the middle of it.
LEMMA FileContinueKeeps ==
  ASSUME NEW R, FileTypes(R), NEW c \in Fds, Sharing!Continue(c)
  PROVE  \/ sreq[c] \in UploadsOf(R) /\ sreq[c].at \in Sharing!UploadSteps
         \/ sreq[c] \in OthersOf(R) /\ sreq[c].at \in Sharing!StopSteps \cup Sharing!DownloadSteps
<1>1. sreq[c].at # "idle"
  BY DEF Sharing!Continue, Sharing!UploadCreate, Sharing!UploadScan, Sharing!UploadAppend,
     Sharing!UploadList, Sharing!StopShareFind,
         Sharing!StopShareLoop, Sharing!StopShareUnlist, Sharing!StopShareErase,
         Sharing!DownloadEnter, Sharing!DownloadDetails,
         Sharing!DownloadPieces
<1>2. sreq[c] \in UploadsOf(R) \cup OthersOf(R) \cup {Sharing!Idle}
  BY DEF FileTypes
<1>3. sreq[c] # Sharing!Idle
  BY <1>1 DEF Sharing!Idle
<1> QED
  BY <1>1, <1>2, <1>3 DEF UploadsOf, OthersOf

\* Only its own thread moves, and on within the request.
FilesMove(R, c) ==
  /\ sreq' \in [Fds -> UploadsOf(R) \cup OthersOf(R) \cup {Sharing!Idle}]
  /\ \A d \in Fds \ {c} : sreq'[d] = sreq[d]

LEMMA FileContinueMoves ==
  ASSUME NEW R, FileTypes(R), NEW c \in Fds, Sharing!Continue(c)
  PROVE  /\ FilesMove(R, c)
         /\ \/ sreq'[c] = Sharing!Idle
            \/ sreq[c] \in UploadsOf(R) /\ \E at \in Sharing!UploadSteps : sreq'[c] = [sreq[c] EXCEPT !.at = at]
            \/ /\ sreq[c] \in OthersOf(R)
               /\ \E at \in Sharing!StopSteps \cup Sharing!DownloadSteps : sreq'[c] = [sreq[c] EXCEPT !.at = at]
<1>0. /\ sreq \in [Fds -> UploadsOf(R) \cup OthersOf(R) \cup {Sharing!Idle}]
      /\ \/ sreq[c] \in UploadsOf(R) /\ sreq[c].at \in Sharing!UploadSteps
         \/ sreq[c] \in OthersOf(R) /\ sreq[c].at \in Sharing!StopSteps \cup Sharing!DownloadSteps
  BY FileContinueKeeps DEF FileTypes
<1>1. ASSUME Sharing!Finish(c)
      PROVE  FilesMove(R, c) /\ sreq'[c] = Sharing!Idle
  BY <1>0, <1>1 DEF Sharing!Finish, FilesMove
<1>2. ASSUME NEW at \in Sharing!UploadSteps, Sharing!Goto(c, at), sreq[c].at \in Sharing!UploadSteps
      PROVE  /\ FilesMove(R, c)
             /\ sreq[c] \in UploadsOf(R) /\ sreq'[c] = [sreq[c] EXCEPT !.at = at]
  <2>1. sreq[c] \in UploadsOf(R)
    BY <1>0, <1>2 DEF Sharing!UploadSteps, Sharing!StopSteps, Sharing!DownloadSteps
  <2>2. [sreq[c] EXCEPT !.at = at] \in UploadsOf(R)
    BY <2>1 DEF UploadsOf
  <2> QED
    BY <1>0, <1>2, <2>1, <2>2 DEF Sharing!Goto, FilesMove
<1>3. ASSUME NEW at \in Sharing!StopSteps \cup Sharing!DownloadSteps, Sharing!Goto(c, at),
             sreq[c].at \in Sharing!StopSteps \cup Sharing!DownloadSteps
      PROVE  /\ FilesMove(R, c)
             /\ sreq[c] \in OthersOf(R) /\ sreq'[c] = [sreq[c] EXCEPT !.at = at]
  <2>1. sreq[c] \in OthersOf(R)
    BY <1>0, <1>3 DEF Sharing!UploadSteps, Sharing!StopSteps, Sharing!DownloadSteps
  <2>2. [sreq[c] EXCEPT !.at = at] \in OthersOf(R)
    BY <2>1 DEF OthersOf
  <2> QED
    BY <1>0, <1>3, <2>1, <2>2 DEF Sharing!Goto, FilesMove
<1>4. \/ Sharing!Finish(c)
      \/ \E at \in Sharing!UploadSteps : Sharing!Goto(c, at) /\ sreq[c].at \in Sharing!UploadSteps
      \/ \E at \in Sharing!StopSteps \cup Sharing!DownloadSteps :
           Sharing!Goto(c, at) /\ sreq[c].at \in Sharing!StopSteps \cup Sharing!DownloadSteps
  BY DEF Sharing!Continue, Sharing!UploadCreate, Sharing!UploadScan, Sharing!UploadAppend,
     Sharing!UploadList, Sharing!StopShareFind,
         Sharing!StopShareLoop, Sharing!StopShareUnlist, Sharing!StopShareErase,
         Sharing!DownloadEnter, Sharing!DownloadDetails,
         Sharing!DownloadPieces, Sharing!UploadSteps, Sharing!StopSteps, Sharing!DownloadSteps
<1> QED
  BY <1>1, <1>2, <1>3, <1>4

\* Going on with a request keeps the catalogue to the names there are, lists a
\* file only at the end of an upload, and comes there only with the source on
\* record.
LEMMA FileContinues ==
  ASSUME NEW R \in SUBSET Peers, FileRecords(R), NEW c \in Fds, Sharing!Continue(c)
  PROVE  /\ FileRecords(R)'
         /\ sreq'[c].at = "upload_list" =>
              \A f \in Files, e \in Endpoints :
                f = sreq[c].f /\ e = sreq[c].e => HasCredit(Sharing!List(f)', e)
         /\ \A g \in Groups : \A f \in group_file'[g] \ group_file[g] :
              sreq[c].at = "upload_list" /\ sreq[c].g = g /\ sreq[c].f = f
<1> DEFINE Moved == file_pieces' \in [Files -> Seq(PiecesOf(R)) \cup {None}]
           Credited == sreq'[c].at = "upload_list" =>
                         \A f \in Files, e \in Endpoints :
                           f = sreq[c].f /\ e = sreq[c].e => HasCredit(Sharing!List(f)', e)
<1>0. FileTypes(R)
  BY DEF FileRecords
<1>1. \/ sreq[c] \in UploadsOf(R) /\ sreq[c].at \in Sharing!UploadSteps
      \/ sreq[c] \in OthersOf(R) /\ sreq[c].at \in Sharing!StopSteps \cup Sharing!DownloadSteps
  BY <1>0, FileContinueKeeps
<1>2. FilesMove(R, c)
  BY <1>0, FileContinueMoves
<1>3. PICK f \in Files, g \in Groups : f = sreq[c].f /\ g = sreq[c].g
  BY <1>1 DEF UploadsOf, OthersOf
<1>4. /\ group_file' \in [Groups -> SUBSET Files]
      /\ \A q \in Groups : \A h \in group_file'[q] \ group_file[q] :
           sreq[c].at = "upload_list" /\ q = g /\ h = f
  BY <1>0, <1>3 DEF FileTypes, Sharing!Continue, Sharing!UploadCreate, Sharing!UploadScan,
     Sharing!UploadAppend, Sharing!UploadList,
     Sharing!StopShareFind, Sharing!StopShareLoop, Sharing!StopShareUnlist,
     Sharing!StopShareErase, Sharing!DownloadEnter,
     Sharing!DownloadDetails, Sharing!DownloadPieces, Sharing!maps
<1>5. downloads' \in [Peers -> SUBSET (Files \X Groups)] /\ \A p \in Peers : downloads'[p] # {} => p \in R
  <2>1. CASE Sharing!DownloadEnter(c)
    <3>1. sreq[c] \in OthersOf(R)
      BY <1>1, <2>1 DEF Sharing!DownloadEnter, Sharing!UploadSteps
    <3>2. PICK me \in R : me = sreq[c].me
      BY <3>1 DEF OthersOf
    <3>3. downloads' = [downloads EXCEPT ![me] = @ \cup {<<f, g>>}]
      BY <1>3, <2>1, <3>2 DEF Sharing!DownloadEnter
    <3> QED
      BY <1>0, <3>2, <3>3 DEF FileTypes
  <2>2. CASE UNCHANGED downloads
    BY <1>0, <2>2 DEF FileTypes
  <2> QED
    BY <2>1, <2>2 DEF Sharing!Continue, Sharing!UploadCreate, Sharing!UploadScan,
       Sharing!UploadAppend, Sharing!UploadList,
       Sharing!StopShareFind, Sharing!StopShareLoop, Sharing!StopShareUnlist,
       Sharing!StopShareErase,
       Sharing!DownloadDetails, Sharing!DownloadPieces, Sharing!maps
<1>6. FileTypes(R)'
  BY <1>2, <1>4, <1>5 DEF FileTypes, FilesMove
<1>7. Sharing!List(f) \in Seq(PiecesOf(R)) /\ Len(Sharing!List(f)) \in Nat
  BY ListOf
<1>8. ASSUME sreq[c] \in UploadsOf(R)
      PROVE  /\ sreq[c].e \in Endpoints /\ sreq[c].cr \in CreditOf(R)
             /\ \A at : Sharing!Goto(c, at) => sreq'[c].at = at
  BY <1>0, <1>8 DEF UploadsOf, FileTypes, Sharing!Goto
<1>9. ASSUME sreq[c].at \notin Sharing!UploadSteps
      PROVE  Credited
  <2>1. sreq[c] \notin UploadsOf(R)
    BY <1>9 DEF UploadsOf
  <2>2. \/ sreq'[c] = Sharing!Idle
        \/ /\ sreq[c] \in OthersOf(R)
           /\ \E at \in Sharing!StopSteps \cup Sharing!DownloadSteps : sreq'[c] = [sreq[c] EXCEPT !.at = at]
    BY <1>0, <2>1, FileContinueMoves
  <2>3. sreq'[c].at # "upload_list"
    BY <2>2 DEF OthersOf, Sharing!Idle, Sharing!StopSteps, Sharing!DownloadSteps
  <2> QED
    BY <2>3
<1>10. CASE Sharing!UploadCreate(c)
  <2>1. sreq[c] \in UploadsOf(R)
    BY <1>1, <1>10 DEF Sharing!UploadCreate, Sharing!StopSteps, Sharing!DownloadSteps
  <2>2. sreq'[c].at = "upload_scan"
    BY <1>8, <1>10, <2>1 DEF Sharing!UploadCreate
  <2>3. Sharing!Put(f, <<>>) /\ <<>> \in Seq(PiecesOf(R))
    BY <1>3, <1>10 DEF Sharing!UploadCreate
  <2> QED
    BY <1>3, <1>4, <1>6, <2>2, <2>3, PutKeeps DEF FileRecords
<1>11. CASE Sharing!UploadScan(c)
  <2>1. sreq[c] \in UploadsOf(R)
    BY <1>1, <1>11 DEF Sharing!UploadScan, Sharing!StopSteps, Sharing!DownloadSteps
  <2>2. PICK e \in Endpoints, cr \in CreditOf(R) : e = sreq[c].e /\ cr = sreq[c].cr
    BY <1>8, <2>1
  <2>3. \/ \E k \in DOMAIN Sharing!List(f) : Sharing!Put(f, Sharing!WithSource(Sharing!List(f), k, e, cr))
        \/ Sharing!Put(f, Sharing!List(f)) /\ Sharing!Goto(c, "upload_append")
    BY <1>3, <1>11, <2>2 DEF Sharing!UploadScan
  <2>4. CASE \E k \in DOMAIN Sharing!List(f) : Sharing!Put(f, Sharing!WithSource(Sharing!List(f), k, e, cr))
    <3>1. PICK k \in DOMAIN Sharing!List(f) : Sharing!Put(f, Sharing!WithSource(Sharing!List(f), k, e, cr))
      BY <2>4
    <3>2. PICK new : new = Sharing!WithSource(Sharing!List(f), k, e, cr)
      OBVIOUS
    <3>3. new \in Seq(PiecesOf(R)) /\ HasCredit(new, e)
      BY <1>7, <3>2, SourceAdded
    <3>4. Moved /\ Sharing!List(f)' = new
      BY <3>1, <3>2, <3>3, PutKeeps
    <3> QED
      BY <1>3, <1>4, <1>6, <2>2, <3>3, <3>4 DEF FileRecords
  <2>5. CASE Sharing!Put(f, Sharing!List(f)) /\ Sharing!Goto(c, "upload_append")
    <3>1. sreq'[c].at = "upload_append"
      BY <1>8, <2>1, <2>5
    <3>2. PICK list : list = Sharing!List(f)
      OBVIOUS
    <3>3. Moved
      BY <1>7, <2>5, <3>2, PutKeeps
    <3> QED
      BY <1>3, <1>4, <1>6, <3>1, <3>3 DEF FileRecords
  <2> QED
    BY <2>3, <2>4, <2>5
<1>12. CASE Sharing!UploadAppend(c)
  <2>1. sreq[c] \in UploadsOf(R)
    BY <1>1, <1>12 DEF Sharing!UploadAppend, Sharing!StopSteps, Sharing!DownloadSteps
  <2>2. PICK r \in UploadsOf(R) : r = sreq[c]
    BY <2>1
  <2>3. PICK new : new = Append(Sharing!List(f), Sharing!NewPiece(r))
    OBVIOUS
  <2>4. new \in Seq(PiecesOf(R)) /\ HasCredit(new, r.e)
    BY <1>7, <2>2, <2>3, PieceAppended
  <2>5. Sharing!Put(f, new)
    BY <1>3, <1>12, <2>2, <2>3 DEF Sharing!UploadAppend
  <2>6. Moved /\ Sharing!List(f)' = new
    BY <2>4, <2>5, PutKeeps
  <2> QED
    BY <1>3, <1>4, <1>6, <2>2, <2>4, <2>6 DEF FileRecords
<1>13. CASE Sharing!UploadList(c)
  <2>1. sreq'[c] = Sharing!Idle /\ UNCHANGED file_pieces
    BY <1>0, <1>13 DEF Sharing!UploadList, Sharing!Finish, FileTypes
  <2> QED
    BY <1>3, <1>4, <1>6, <2>1 DEF FileRecords, Sharing!Idle
<1>14. CASE Sharing!StopShareLoop(c)
  <2>1. PICK left : left = Sharing!Without(Sharing!List(f), sreq[c].me)
    OBVIOUS
  <2>2. Sharing!Put(f, left) /\ left \in Seq(PiecesOf(R))
    BY <1>3, <1>7, <1>14, <2>1, SourcesTaken DEF Sharing!StopShareLoop
  <2>3. Credited
    BY <1>9, <1>14 DEF Sharing!StopShareLoop, Sharing!UploadSteps
  <2> QED
    BY <1>3, <1>4, <1>6, <2>2, <2>3, PutKeeps DEF FileRecords
<1>15. CASE Sharing!StopShareErase(c)
  <2>1. Moved
    BY <1>3, <1>15 DEF Sharing!StopShareErase, Sharing!Put, FileRecords
  <2>2. Credited
    BY <1>9, <1>15 DEF Sharing!StopShareErase, Sharing!UploadSteps
  <2> QED
    BY <1>3, <1>4, <1>6, <2>1, <2>2 DEF FileRecords
<1>16. CASE Sharing!DownloadPieces(c)
  <2>1. PICK list : list = Sharing!List(f)
    OBVIOUS
  <2>2. Sharing!Put(f, list) /\ list \in Seq(PiecesOf(R))
    BY <1>3, <1>7, <1>16, <2>1 DEF Sharing!DownloadPieces
  <2>3. Credited
    BY <1>9, <1>16 DEF Sharing!DownloadPieces, Sharing!UploadSteps
  <2> QED
    BY <1>3, <1>4, <1>6, <2>2, <2>3, PutKeeps DEF FileRecords
<1>17. CASE \/ Sharing!StopShareFind(c) \/ Sharing!StopShareUnlist(c) \/ Sharing!DownloadEnter(c) \/ Sharing!DownloadDetails(c)
  <2>1. UNCHANGED file_pieces
    BY <1>17 DEF Sharing!StopShareFind, Sharing!StopShareUnlist, Sharing!DownloadEnter,
       Sharing!DownloadDetails, Sharing!maps
  <2>2. Credited
    BY <1>9, <1>17 DEF Sharing!StopShareFind, Sharing!StopShareUnlist, Sharing!DownloadEnter,
       Sharing!DownloadDetails,
       Sharing!UploadSteps
  <2> QED
    BY <1>3, <1>4, <1>6, <2>1, <2>2 DEF FileRecords
<1> QED
  BY <1>10, <1>11, <1>12, <1>13, <1>14, <1>15, <1>16, <1>17 DEF Sharing!Continue

-----------------------------------------------------------------------------
\* Taking up a request about a file after its tests.
LEMMA FileOpens ==
  ASSUME NEW R \in SUBSET Peers, FileRecords(R), NEW c \in Fds, freq[c] \in Tests, OpenFile(c),
         sreq[c] = Sharing!Idle, logmap[c] \in R, listenmap[c] \in Endpoints
  PROVE  /\ FileRecords(R)' /\ FilesMove(R, c)
         /\ UNCHANGED <<group_file, file_pieces>>
         /\ sreq'[c].at \in Sharing!UploadSteps =>
              /\ freq[c].op = "upload_file" /\ sreq'[c].at # "upload_list"
              /\ sreq'[c].g = freq[c].g
              /\ sreq'[c].cr.peer = logmap[c] /\ sreq'[c].e = listenmap[c]
<1>1. PICK me \in R, e \in Endpoints, g \in Groups :
        me = logmap[c] /\ e = listenmap[c] /\ g = freq[c].g
  BY DEF Tests
<1>2. sreq \in [Fds -> UploadsOf(R) \cup OthersOf(R) \cup {Sharing!Idle}]
  BY DEF FileRecords, FileTypes
<1>3. ASSUME NEW r \in UploadsOf(R) \cup OthersOf(R), Sharing!Start(c, r)
      PROVE  FilesMove(R, c) /\ sreq'[c] = r
  BY <1>2, <1>3 DEF Sharing!Start, FilesMove
<1>4. ASSUME UNCHANGED <<group_file, file_pieces, downloads>>, FilesMove(R, c)
      PROVE  FileRecords(R)'
  BY <1>4 DEF FileRecords, FileTypes, FilesMove
<1>5. CASE freq[c].op = "upload_file" /\
           \E v \in Versions, f \in Files, n \in Numbers :
             Sharing!Upload(c, [peer |-> me, version |-> v], e, g, f, n)
  <2>1. PICK v \in Versions, f \in Files, n \in Numbers :
          Sharing!Upload(c, [peer |-> me, version |-> v], e, g, f, n)
    BY <1>5
  <2>2. PICK at \in {"upload_create", "upload_scan"}, cr \in CreditOf(R) :
          /\ cr = [peer |-> me, version |-> v]
          /\ Sharing!Start(c, [at |-> at, cr |-> cr, e |-> e, g |-> g, f |-> f, n |-> n])
    BY <2>1 DEF Sharing!Upload, CreditOf
  <2>3. PICK r : r = [at |-> at, cr |-> cr, e |-> e, g |-> g, f |-> f, n |-> n]
    OBVIOUS
  <2>4. r \in UploadsOf(R)
    BY <2>3 DEF UploadsOf, Sharing!UploadSteps
  <2>5. FilesMove(R, c) /\ sreq'[c] = r
    BY <1>3, <2>2, <2>3, <2>4
  <2>6. UNCHANGED <<group_file, file_pieces, downloads>>
    BY <2>1 DEF Sharing!Upload, Sharing!maps
  <2> QED
    BY <1>1, <1>4, <1>5, <2>2, <2>3, <2>5, <2>6
<1>6. CASE \E f \in Files : Sharing!DownloadFile(c, me, g, f) \/ Sharing!StopShare(c, me, g, f)
  <2>1. PICK f \in Files, at \in {"stop_find", "download_enter"} :
          /\ Sharing!Start(c, [at |-> at, me |-> me, g |-> g, f |-> f])
          /\ UNCHANGED <<group_file, file_pieces, downloads>>
    BY <1>6 DEF Sharing!DownloadFile, Sharing!StopShare, Sharing!maps
  <2>2. PICK r : r = [at |-> at, me |-> me, g |-> g, f |-> f]
    OBVIOUS
  <2>3. r \in OthersOf(R) /\ r.at \notin Sharing!UploadSteps
    BY <2>2 DEF OthersOf, Sharing!StopSteps, Sharing!DownloadSteps, Sharing!UploadSteps
  <2>4. FilesMove(R, c) /\ sreq'[c] = r
    BY <1>3, <2>1, <2>2, <2>3
  <2> QED
    BY <1>4, <2>1, <2>3, <2>4
<1>7. CASE UNCHANGED fileVars
  <2>1. UNCHANGED <<group_file, file_pieces, downloads, sreq>>
    BY <1>7 DEF fileVars
  <2>2. FilesMove(R, c)
    BY <1>2, <2>1 DEF FilesMove
  <2> QED
    BY <1>4, <2>1, <2>2 DEF Sharing!Idle, Sharing!UploadSteps
<1> QED
  BY <1>1, <1>5, <1>6, <1>7 DEF OpenFile

\* The commands about files that are one step.
LEMMA FileNotes ==
  ASSUME NEW R \in SUBSET Peers, FileRecords(R), NEW c \in Fds, FileNote(c), logmap[c] \in R
  PROVE  /\ FileRecords(R)'
         /\ UNCHANGED <<group_file, file_pieces, sreq, freq>>
<1> DEFINE Named == /\ downloads' \in [Peers -> SUBSET (Files \X Groups)]
                    /\ \A p \in Peers : downloads'[p] # {} => p \in R
<1>1. PICK me \in R : me = logmap[c]
  OBVIOUS
<1>2. UNCHANGED <<group_file, file_pieces, sreq, freq>>
  BY DEF FileNote, Sharing!DownloadCompleted, Sharing!FileDetails
<1>3. Named
  <2>1. CASE UNCHANGED downloads
    BY <2>1 DEF FileRecords, FileTypes
  <2>2. ASSUME NEW g \in Groups, NEW f \in Files, Sharing!DownloadCompleted(c, me, g, f)
        PROVE  Named
    <3>1. PICK gone : downloads' = [downloads EXCEPT ![me] = (@ \ gone) \cup {<<f, g>>}]
      BY <2>2 DEF Sharing!DownloadCompleted
    <3> QED
      BY <3>1 DEF FileRecords, FileTypes
  <2> QED
    BY <1>1, <2>1, <2>2 DEF FileNote, Sharing!FileDetails
<1> QED
  BY <1>2, <1>3 DEF FileRecords, FileTypes

-----------------------------------------------------------------------------
(***************************************************************************)
(* The three parts together.                                               *)
(***************************************************************************)
\* Whoever uploads has asked for the group.
AskerAt(c) ==
  /\ freq[c].at = "test_file" /\ freq[c].op = "upload_file" => logmap[c] \in asked[freq[c].g]
  /\ sreq[c].at \in Sharing!UploadSteps => logmap[c] \in asked[sreq[c].g]

\* Until two commands overlap, whoever uploads is a member of the group, and
\* when it comes to list the file its source is on record.
ListingAt(c) ==
  /\ freq[c].at = "test_file" /\ freq[c].op = "upload_file" =>
       logmap[c] \in group_members[freq[c].g]
  /\ sreq[c].at \in Sharing!UploadSteps => logmap[c] \in group_members[sreq[c].g]
  /\ sreq[c].at = "upload_list" => HasCredit(Sharing!List(sreq[c].f), sreq[c].e)

AtMostOneHandling == \A c, d \in Fds : Handling(c) /\ Handling(d) => c = d

Serial == ~overlapped => AtMostOneHandling /\ \A c \in Fds : ListingAt(c)

TrackerInv ==
  /\ Sessions
  /\ GroupRecords
  /\ FileRecords(Registered)
  /\ Seated
  /\ \A c \in Fds : AskerAt(c)
  /\ Serial
  /\ overlapped \in BOOLEAN

\* A thread that is in no handler of groups or files satisfies what is said of
\* those that are.
LEMMA Disengaged ==
  ASSUME NEW c
  PROVE  /\ ~Engaged(c) => SeatedAt(c) /\ AskerAt(c) /\ ListingAt(c)
         /\ ~Engaged(c)' => SeatedAt(c)' /\ AskerAt(c)' /\ ListingAt(c)'
BY DEF Engaged, SeatedAt, AskerAt, ListingAt, Sharing!InProgress, Sharing!Idle, Untested,
   Sharing!UploadSteps

\* A command taken up with the history variable staying down finds no handler
\* in progress.
LEMMA CommandHistory ==
  ASSUME overlapped \in BOOLEAN, Begin
  PROVE  /\ overlapped' \in BOOLEAN
         /\ ~overlapped' => ~overlapped /\ \A d \in Fds : ~Handling(d)
<1>1. CASE \E d \in Fds : Handling(d)
  BY <1>1 DEF Begin
<1>2. CASE ~\E d \in Fds : Handling(d)
  BY <1>2 DEF Begin
<1> QED
  BY <1>1, <1>2

\* The accounts of the next state, whichever way they are written.
LEMMA RecordsOfRegistered ==
  /\ \A R : R = Registered /\ FileRecords(Registered) => FileRecords(R)
  /\ \A Q : Q = Registered' /\ FileRecords(Q)' => FileRecords(Registered)'
BY DEF FileRecords, FileTypes, UploadsOf, OthersOf, PiecesOf, CreditOf

\* Steps about connections and sessions.
LEMMA AccountsKeep ==
  ASSUME TrackerInv, NEW c \in Fds, Connection(c) \/ AccountCommand(c),
         UNCHANGED <<groupVars, fileVars, freq>>
  PROVE  TrackerInv'
<1>0. Sessions /\ Seated /\ Serial /\ overlapped \in BOOLEAN
  BY DEF TrackerInv
<1>1. AccountsMove(c)
  BY <1>0, AccountEffects
<1>2. ~Engaged(c)
  BY <1>0, AccountsApart
<1>3. UNCHANGED <<group, group_members, pending, asked, mreq, group_file, file_pieces, downloads,
                  sreq, freq>>
  BY DEF groupVars, fileVars
<1>4. Registered \subseteq Registered' /\ Registered' \subseteq Peers
  BY <1>1 DEF AccountsMove, Registered
<1>5. \A d \in Fds : Engaged(d)' <=> Engaged(d)
  BY <1>3 DEF Engaged, Membership!InProgress, Sharing!InProgress
<1>6. \A d \in Fds : SeatedAt(d)' /\ AskerAt(d)'
  <2>1. SeatedAt(c)' /\ AskerAt(c)'
    BY <1>2, <1>5, Disengaged
  <2>2. ASSUME NEW d \in Fds, d # c
        PROVE  SeatedAt(d)' /\ AskerAt(d)'
    <3>1. /\ d \in open' <=> d \in open
          /\ areq'[d] = areq[d] /\ logmap'[d] = logmap[d] /\ listenmap'[d] = listenmap[d]
      BY <1>1, <2>2 DEF AccountsMove
    <3>2. SeatedAt(d) /\ AskerAt(d)
      BY DEF TrackerInv, Seated
    <3> QED
      BY <1>3, <1>4, <1>5, <3>1, <3>2 DEF SeatedAt, AskerAt, Membership!InProgress,
         Sharing!InProgress
  <2> QED
    BY <2>1, <2>2
<1>7. GroupRecords'
  BY <1>3, <1>4 DEF TrackerInv, GroupRecords, GroupTypes, Membership!AskedInv,
                    Membership!NobodyUnasked
<1>8. FileRecords(Registered)'
  <2>1. PICK R, Q : R = Registered /\ Q = Registered'
    OBVIOUS
  <2>2. FileRecords(R)
    BY <2>1, RecordsOfRegistered DEF TrackerInv
  <2>3. FileRecords(Q)
    BY <1>4, <2>1, <2>2, MoreAccounts
  <2>4. FileRecords(Q)'
    BY <1>3, <2>3 DEF FileRecords, FileTypes
  <2> QED
    BY <2>1, <2>4, RecordsOfRegistered
<1>9. \/ Begin
      \/ /\ overlapped' = overlapped
         /\ Accounts!InProgress(c)' => Accounts!InProgress(c)
  <2>1. CASE Connection(c)
    <3>1. ASSUME Accounts!InProgress(c)'
          PROVE  Accounts!InProgress(c)
      BY <1>0, <2>1, <3>1 DEF Connection, Accounts!Accept, Accounts!Announce, Accounts!HelloLost,
         Accounts!Disconnect, Accounts!InProgress, Accounts!Start, Accounts!Finish, Accounts!Idle,
         Accounts!Hello, Accounts!Requests, Sessions
    <3> QED
      BY <2>1, <3>1 DEF Connection
  <2>2. CASE AccountCommand(c)
    BY <2>2 DEF AccountCommand, Commanded, AsPeer, Accounts!CreatePeerInsert, Accounts!LoginInsert
  <2> QED
    BY <2>1, <2>2
<1>10. \A d \in Fds \ {c} : Handling(d)' <=> Handling(d)
  BY <1>1, <1>3 DEF AccountsMove, Handling, Accounts!InProgress, Membership!InProgress,
                    Sharing!InProgress
<1>11. ASSUME ~overlapped'
       PROVE  AtMostOneHandling' /\ ~overlapped
  <2>1. CASE Begin
    BY <1>0, <1>10, <1>11, <2>1, CommandHistory DEF AtMostOneHandling
  <2>2. CASE overlapped' = overlapped /\ (Accounts!InProgress(c)' => Accounts!InProgress(c))
    <3>1. Handling(c)' => Handling(c)
      BY <1>3, <2>2 DEF Handling, Membership!InProgress, Sharing!InProgress
    <3> QED
      BY <1>0, <1>10, <1>11, <2>2, <3>1 DEF Serial, AtMostOneHandling
  <2> QED
    BY <1>9, <2>1, <2>2
<1>12. Serial'
  <2> SUFFICES ASSUME ~overlapped', NEW d \in Fds
               PROVE  ListingAt(d)'
    BY <1>11 DEF Serial
  <2>1. CASE d = c
    BY <1>2, <1>5, <2>1, Disengaged
  <2>2. CASE d # c
    <3>1. logmap'[d] = logmap[d]
      BY <1>1, <2>2 DEF AccountsMove
    <3>2. ListingAt(d)
      BY <1>0, <1>11 DEF Serial
    <3> QED
      BY <1>3, <3>1, <3>2 DEF ListingAt, HasCredit, Sharing!List
  <2> QED
    BY <2>1, <2>2
<1>13. overlapped' \in BOOLEAN
  BY <1>0, <1>9, CommandHistory
<1> QED
  BY <1>1, <1>3, <1>6, <1>7, <1>8, <1>12, <1>13 DEF TrackerInv, AccountsMove, Seated

\* Steps about groups: a command ...
LEMMA GroupCommandsKeep ==
  ASSUME TrackerInv, NEW c \in Fds, AsPeer(c), Membership!Commands(c, logmap[c]),
         UNCHANGED <<accountVars, fileVars, freq>>
  PROVE  TrackerInv'
<1>0. /\ Sessions /\ Seated /\ Serial /\ GroupRecords /\ overlapped \in BOOLEAN
      /\ c \in open /\ areq[c] = Accounts!Idle /\ ~Handling(c) /\ Begin /\ logmap[c] # None
  BY DEF TrackerInv, AsPeer, Commanded
<1>1. PICK me \in Peers : me = logmap[c] /\ me \in Registered
  BY <1>0 DEF Sessions, Registered
<1>2. GroupsMove(c, {me}) /\ Membership!AskedInv' /\ UNCHANGED group_members
  BY <1>0, <1>1, GroupStarts DEF GroupRecords
<1>3. /\ UNCHANGED <<open, areq, user, logmap, listenmap, group_file, file_pieces, downloads,
                     sreq, freq>>
      /\ Registered' = Registered
  BY DEF accountVars, fileVars, Registered
<1>4. /\ \A d \in Fds \ {c} : mreq'[d] = mreq[d]
      /\ \A g \in Groups : asked[g] \subseteq asked'[g] /\ asked'[g] \subseteq asked[g] \cup {me}
  BY <1>2 DEF GroupsMove
<1>5. sreq[c] = Sharing!Idle /\ freq[c] = Untested
  BY <1>0 DEF Handling, Sharing!InProgress
<1>6. GroupRecords'
  BY <1>0, <1>1, <1>2, <1>3, <1>4 DEF GroupRecords, GroupsMove
<1>7. FileRecords(Registered)'
  BY <1>3 DEF TrackerInv, FileRecords, FileTypes, UploadsOf, OthersOf, PiecesOf, CreditOf
<1>8. \A d \in Fds : freq[d] \in Tests \cup {Untested} /\ sreq[d] \in
        UploadsOf(Registered) \cup OthersOf(Registered) \cup {Sharing!Idle}
  BY <1>0 DEF TrackerInv, Seated, FileRecords, FileTypes
<1>9. ASSUME NEW d \in Fds
      PROVE  SeatedAt(d)' /\ AskerAt(d)'
  <2>1. CASE d = c
    BY <1>0, <1>1, <1>3, <1>5, <2>1 DEF SeatedAt, AskerAt, Engaged, Sharing!InProgress,
       Sharing!Idle,
       Untested, Sharing!UploadSteps
  <2>2. CASE d # c
    <3>1. SeatedAt(d) /\ AskerAt(d)
      BY DEF TrackerInv, Seated
    <3>2. /\ freq[d].at = "test_file" => freq[d].g \in Groups
          /\ sreq[d].at \in Sharing!UploadSteps => sreq[d].g \in Groups
      BY <1>8 DEF Tests, Untested, UploadsOf, OthersOf, Sharing!Idle, Sharing!UploadSteps
    <3> QED
      BY <1>3, <1>4, <2>2, <3>1, <3>2 DEF SeatedAt, AskerAt, Engaged, Membership!InProgress,
         Sharing!InProgress
  <2> QED
    BY <2>1, <2>2
<1>10. Serial'
  <2> SUFFICES ASSUME ~overlapped'
               PROVE  AtMostOneHandling' /\ \A d \in Fds : ListingAt(d)'
    BY DEF Serial
  <2>1. ~overlapped /\ \A d \in Fds : ~Handling(d)
    BY <1>0, CommandHistory
  <2>2. \A d \in Fds \ {c} : ~Handling(d)'
    BY <1>3, <1>4, <2>1 DEF Handling, Accounts!InProgress, Membership!InProgress,
       Sharing!InProgress
  <2>3. \A d \in Fds : ListingAt(d)'
    BY <1>2, <1>3, <2>1 DEF TrackerInv, Serial, ListingAt, HasCredit, Sharing!List
  <2> QED
    BY <2>2, <2>3 DEF AtMostOneHandling
<1>11. Sessions' /\ freq' \in [Fds -> Tests \cup {Untested}]
  BY <1>0, <1>3 DEF Sessions, Seated
<1>12. overlapped' \in BOOLEAN
  BY <1>0, CommandHistory
<1> QED
  BY <1>6, <1>7, <1>9, <1>10, <1>11, <1>12 DEF TrackerInv, Seated

\* ... or going on with a request.
LEMMA GroupRequestsKeep ==
  ASSUME TrackerInv, NEW c \in Fds, Membership!Continue(c),
         UNCHANGED <<accountVars, fileVars, freq, overlapped>>
  PROVE  TrackerInv'
<1>0. Sessions /\ Seated /\ Serial /\ GroupRecords /\ overlapped \in BOOLEAN
  BY DEF TrackerInv
<1>1. Membership!InProgress(c) /\ UNCHANGED asked
  BY <1>0, GroupContinueKeeps DEF GroupRecords, Membership!InProgress
<1>2. GroupsMove(c, {}) /\ Membership!AskedInv'
  BY <1>0, GroupContinues DEF GroupRecords
<1>3. /\ UNCHANGED <<open, areq, user, logmap, listenmap, group_file, file_pieces, downloads,
                     sreq, freq, overlapped>>
      /\ Registered' = Registered
  BY DEF accountVars, fileVars, Registered
<1>4. \A d \in Fds \ {c} : mreq'[d] = mreq[d]
  BY <1>2 DEF GroupsMove
<1>5. /\ c \in open /\ areq[c] = Accounts!Idle /\ logmap[c] \in Registered
      /\ sreq[c] = Sharing!Idle /\ freq[c] = Untested
  BY <1>0, <1>1 DEF Seated, SeatedAt, Engaged, Sharing!InProgress
<1>6. GroupRecords'
  BY <1>0, <1>1, <1>2, <1>3 DEF GroupRecords, GroupsMove
<1>7. FileRecords(Registered)'
  BY <1>3 DEF TrackerInv, FileRecords, FileTypes, UploadsOf, OthersOf, PiecesOf, CreditOf
<1>8. ASSUME NEW d \in Fds
      PROVE  SeatedAt(d)' /\ AskerAt(d)'
  <2>1. CASE d = c
    BY <1>3, <1>5, <2>1 DEF SeatedAt, AskerAt, Engaged, Sharing!InProgress, Sharing!Idle,
       Untested, Sharing!UploadSteps
  <2>2. CASE d # c
    <3>1. SeatedAt(d) /\ AskerAt(d)
      BY DEF TrackerInv, Seated
    <3> QED
      BY <1>1, <1>3, <1>4, <2>2, <3>1 DEF SeatedAt, AskerAt, Engaged, Membership!InProgress,
         Sharing!InProgress
  <2> QED
    BY <2>1, <2>2
<1>9. Serial'
  <2> SUFFICES ASSUME ~overlapped
               PROVE  AtMostOneHandling' /\ \A d \in Fds : ListingAt(d)'
    BY <1>3 DEF Serial
  <2>1. \A d \in Fds \ {c} : ~Handling(d)
    BY <1>0, <1>1 DEF Serial, AtMostOneHandling, Handling
  <2>2. \A d \in Fds \ {c} : ~Handling(d)'
    BY <1>3, <1>4, <2>1 DEF Handling, Accounts!InProgress, Membership!InProgress,
       Sharing!InProgress
  <2>3. \A d \in Fds : sreq[d] = Sharing!Idle /\ freq[d] = Untested
    BY <1>5, <2>1 DEF Handling, Sharing!InProgress
  <2>4. \A d \in Fds : ListingAt(d)'
    BY <1>3, <2>3 DEF ListingAt, Sharing!Idle, Untested, Sharing!UploadSteps
  <2> QED
    BY <2>2, <2>4 DEF AtMostOneHandling
<1>10. Sessions' /\ freq' \in [Fds -> Tests \cup {Untested}]
  BY <1>0, <1>3 DEF Sessions, Seated
<1> QED
  BY <1>0, <1>3, <1>6, <1>7, <1>8, <1>9, <1>10 DEF TrackerInv, Seated

\* Steps about files.  They all leave sessions and groups alone, and the
\* threads of other connections; what has to be seen of each is that its own
\* thread is in order afterwards.
LEMMA FilesKeep ==
  ASSUME TrackerInv, NEW c \in Fds, UNCHANGED <<accountVars, groupVars>>,
         FileRecords(Registered)',
         \A d \in Fds \ {c} : sreq'[d] = sreq[d] /\ freq'[d] = freq[d],
         freq' \in [Fds -> Tests \cup {Untested}],
         SeatedAt(c)' /\ AskerAt(c)',
         Begin \/ (overlapped' = overlapped /\ Handling(c)),
         ~overlapped => ListingAt(c)'
  PROVE  TrackerInv'
<1>0. Sessions /\ Seated /\ Serial /\ GroupRecords /\ overlapped \in BOOLEAN
  BY DEF TrackerInv
<1>1. /\ UNCHANGED <<open, areq, user, logmap, listenmap, group, group_members, pending, asked, mreq>>
      /\ Registered' = Registered
  BY DEF accountVars, groupVars, Registered
<1>2. GroupRecords'
  BY <1>0, <1>1 DEF GroupRecords, GroupTypes, Membership!AskedInv, Membership!NobodyUnasked
<1>3. ASSUME NEW d \in Fds
      PROVE  SeatedAt(d)' /\ AskerAt(d)'
  <2>1. CASE d = c
    BY <2>1
  <2>2. CASE d # c
    <3>1. SeatedAt(d) /\ AskerAt(d)
      BY DEF TrackerInv, Seated
    <3> QED
      BY <1>1, <2>2, <3>1 DEF SeatedAt, AskerAt, Engaged, Membership!InProgress,
         Sharing!InProgress
  <2> QED
    BY <2>1, <2>2
<1>4. Serial'
  <2> SUFFICES ASSUME ~overlapped'
               PROVE  AtMostOneHandling' /\ \A d \in Fds : ListingAt(d)'
    BY DEF Serial
  <2>1. ~overlapped /\ \A d \in Fds \ {c} : ~Handling(d)
    <3>1. CASE Begin
      BY <1>0, <3>1, CommandHistory
    <3>2. CASE overlapped' = overlapped /\ Handling(c)
      BY <1>0, <3>2 DEF Serial, AtMostOneHandling
    <3> QED
      BY <3>1, <3>2
  <2>2. \A d \in Fds \ {c} : ~Handling(d)'
    BY <1>1, <2>1 DEF Handling, Accounts!InProgress, Membership!InProgress, Sharing!InProgress
  <2>3. \A d \in Fds \ {c} : ListingAt(d)'
    BY <2>1, <2>2, Disengaged DEF Handling, Engaged
  <2> QED
    BY <2>1, <2>2, <2>3 DEF AtMostOneHandling
<1>5. Sessions' /\ overlapped' \in BOOLEAN
  <2>1. Sessions'
    BY <1>0, <1>1 DEF Sessions
  <2>2. overlapped' \in BOOLEAN
    BY <1>0, CommandHistory
  <2> QED
    BY <2>1, <2>2
<1> QED
  BY <1>2, <1>3, <1>4, <1>5 DEF TrackerInv, Seated

\* What is known of a connection on which a file command is taken up.
LEMMA FileCommandTaken ==
  ASSUME TrackerInv, NEW c \in Fds, AsPeer(c)
  PROVE  /\ Begin /\ sreq[c] = Sharing!Idle /\ freq[c] = Untested /\ mreq[c] = Membership!Idle
         /\ c \in open /\ areq[c] = Accounts!Idle /\ logmap[c] \in Registered
BY DEF AsPeer, Commanded, Handling, Sharing!InProgress, Membership!InProgress, TrackerInv,
   Sessions,
       Registered

LEMMA FindGroupKeeps ==
  ASSUME TrackerInv, NEW c \in Fds, FindGroup(c), UNCHANGED <<accountVars, groupVars>>
  PROVE  TrackerInv'
<1>1. /\ Begin /\ sreq[c] = Sharing!Idle /\ freq[c] = Untested /\ mreq[c] = Membership!Idle
      /\ c \in open /\ areq[c] = Accounts!Idle /\ logmap[c] \in Registered
  BY FileCommandTaken DEF FindGroup
<1>2. PICK r \in Tests : /\ freq' = [freq EXCEPT ![c] = r]
                         /\ r.at = IF r.op = "stop_share" THEN "test_file" ELSE "test_member"
                         /\ UNCHANGED fileVars
  BY DEF FindGroup, Test
<1>3. /\ freq' \in [Fds -> Tests \cup {Untested}]
      /\ freq'[c] = r /\ \A d \in Fds \ {c} : freq'[d] = freq[d]
  BY <1>2 DEF TrackerInv, Seated
<1>4. UNCHANGED <<open, areq, user, logmap, listenmap, group_members, asked, mreq,
                  group_file, file_pieces, downloads, sreq>>
  BY <1>2 DEF accountVars, groupVars, fileVars
<1>5. FileRecords(Registered)'
  BY <1>4 DEF TrackerInv, FileRecords, FileTypes, UploadsOf, OthersOf, PiecesOf, CreditOf,
     Registered
<1>6. SeatedAt(c)' /\ AskerAt(c)' /\ ListingAt(c)'
  BY <1>1, <1>2, <1>3, <1>4 DEF SeatedAt, AskerAt, ListingAt, Engaged, Membership!InProgress,
     Sharing!InProgress, Sharing!Idle, Sharing!UploadSteps, Registered
<1>7. \A d \in Fds \ {c} : sreq'[d] = sreq[d] /\ freq'[d] = freq[d]
  BY <1>3, <1>4
<1> QED
  BY <1>1, <1>3, <1>5, <1>6, <1>7, FilesKeep

\* A thread that is in the tests has a peer logged in that has an account.
LEMMA Tested ==
  ASSUME TrackerInv, NEW c \in Fds, freq[c].at \in {"test_member", "test_file"}
  PROVE  /\ freq[c] \in Tests /\ Handling(c)
         /\ sreq[c] = Sharing!Idle /\ mreq[c] = Membership!Idle
         /\ c \in open /\ areq[c] = Accounts!Idle
         /\ logmap[c] \in Registered /\ listenmap[c] \in Endpoints
<1>1. freq[c] \in Tests /\ freq[c] # Untested
  BY DEF TrackerInv, Seated, Untested
<1>2. Engaged(c) /\ Handling(c)
  BY <1>1 DEF Engaged, Handling
<1>3. SeatedAt(c)
  BY DEF TrackerInv, Seated
<1>4. /\ c \in open /\ areq[c] = Accounts!Idle /\ logmap[c] \in Registered
      /\ sreq[c] = Sharing!Idle /\ mreq[c] = Membership!Idle
  BY <1>1, <1>2, <1>3 DEF SeatedAt, Sharing!InProgress, Membership!InProgress
<1>5. listenmap[c] \in Endpoints
  BY <1>4 DEF TrackerInv, Sessions, Accounts!Idle, Accounts!Hello
<1> QED
  BY <1>1, <1>2, <1>4, <1>5

LEMMA TestMemberKeeps ==
  ASSUME TrackerInv, NEW c \in Fds, TestMember(c), UNCHANGED <<accountVars, groupVars>>
  PROVE  TrackerInv'
<1>1. /\ freq[c] \in Tests /\ Handling(c)
      /\ sreq[c] = Sharing!Idle /\ mreq[c] = Membership!Idle
      /\ c \in open /\ areq[c] = Accounts!Idle /\ logmap[c] \in Registered
  BY Tested DEF TestMember
<1>2. PICK g \in Groups : g = freq[c].g
  BY <1>1 DEF Tests
<1>3. UNCHANGED <<open, areq, user, logmap, listenmap, group_members, asked, mreq,
                  group_file, file_pieces, downloads, sreq, overlapped>>
  BY DEF accountVars, groupVars, fileVars, TestMember
<1>4. PICK r \in Tests \cup {Untested} :
        /\ freq' = [freq EXCEPT ![c] = r]
        /\ \/ r = Untested
           \/ r.g = g /\ logmap[c] \in group_members[g]
  <2>1. CASE logmap[c] \in group_members[g] /\ Test(c, [freq[c] EXCEPT !.at = "test_file"])
    <3>1. PICK r : r = [freq[c] EXCEPT !.at = "test_file"]
      OBVIOUS
    <3>2. r \in Tests /\ r.g = g
      BY <1>1, <1>2, <3>1 DEF Tests
    <3> QED
      BY <2>1, <3>1, <3>2 DEF Test
  <2>2. CASE Test(c, Untested)
    BY <2>2 DEF Test
  <2> QED
    BY <1>2, <2>1, <2>2 DEF TestMember
<1>5. /\ freq' \in [Fds -> Tests \cup {Untested}]
      /\ freq'[c] = r /\ \A d \in Fds \ {c} : freq'[d] = freq[d]
  BY <1>4 DEF TrackerInv, Seated
<1>6. FileRecords(Registered)'
  BY <1>3 DEF TrackerInv, FileRecords, FileTypes, UploadsOf, OthersOf, PiecesOf, CreditOf,
     Registered
<1>7. group_members[g] \subseteq asked[g]
  BY DEF TrackerInv, GroupRecords, Membership!AskedInv, Membership!NobodyUnasked
<1>8. SeatedAt(c)' /\ AskerAt(c)' /\ ListingAt(c)'
  BY <1>1, <1>3, <1>4, <1>5, <1>7 DEF SeatedAt, AskerAt, ListingAt, Engaged,
     Membership!InProgress,
     Sharing!InProgress, Sharing!Idle, Sharing!UploadSteps, Registered, Untested
<1> QED
  BY <1>1, <1>3, <1>5, <1>6, <1>8, FilesKeep

LEMMA OpenFileKeeps ==
  ASSUME TrackerInv, NEW c \in Fds, OpenFile(c), UNCHANGED <<accountVars, groupVars>>
  PROVE  TrackerInv'
<1>1. /\ freq[c] \in Tests /\ freq[c].at = "test_file" /\ Handling(c)
      /\ sreq[c] = Sharing!Idle /\ mreq[c] = Membership!Idle
      /\ c \in open /\ areq[c] = Accounts!Idle
      /\ logmap[c] \in Registered /\ listenmap[c] \in Endpoints
  BY Tested DEF OpenFile
<1>2. PICK R \in SUBSET Peers : R = Registered
  BY DEF Registered
<1>3. FileRecords(R)
  BY <1>2, RecordsOfRegistered DEF TrackerInv
<1>4. /\ FileRecords(R)' /\ FilesMove(R, c)
      /\ UNCHANGED <<group_file, file_pieces>>
      /\ sreq'[c].at \in Sharing!UploadSteps =>
           /\ freq[c].op = "upload_file" /\ sreq'[c].at # "upload_list"
           /\ sreq'[c].g = freq[c].g
           /\ sreq'[c].cr.peer = logmap[c] /\ sreq'[c].e = listenmap[c]
  BY <1>1, <1>2, <1>3, FileOpens
<1>5. /\ UNCHANGED <<open, areq, user, logmap, listenmap, group_members, asked, mreq, overlapped>>
      /\ Registered' = Registered
  BY DEF accountVars, groupVars, OpenFile, Registered
<1>6. /\ freq' \in [Fds -> Tests \cup {Untested}]
      /\ freq'[c] = Untested
      /\ \A d \in Fds \ {c} : freq'[d] = freq[d] /\ sreq'[d] = sreq[d]
  BY <1>4 DEF TrackerInv, Seated, OpenFile, Test, FilesMove
<1>7. FileRecords(Registered)'
  BY <1>2, <1>4, <1>5, RecordsOfRegistered
<1>8. AskerAt(c) /\ (~overlapped => ListingAt(c))
  BY DEF TrackerInv, Serial
<1>9. SeatedAt(c)'
  BY <1>1, <1>4, <1>5, <1>6 DEF SeatedAt, Engaged, Membership!InProgress, Sharing!InProgress
<1>10. AskerAt(c)' /\ (~overlapped => ListingAt(c)')
  BY <1>1, <1>4, <1>5, <1>6, <1>8 DEF AskerAt, ListingAt, Untested, Sharing!UploadSteps
<1> QED
  BY <1>1, <1>5, <1>6, <1>7, <1>9, <1>10, FilesKeep

LEMMA FileNoteKeeps ==
  ASSUME TrackerInv, NEW c \in Fds, AsPeer(c), FileNote(c), UNCHANGED <<accountVars, groupVars>>
  PROVE  TrackerInv'
<1>1. /\ Begin /\ sreq[c] = Sharing!Idle /\ freq[c] = Untested /\ mreq[c] = Membership!Idle
      /\ logmap[c] \in Registered
  BY FileCommandTaken
<1>2. PICK R \in SUBSET Peers : R = Registered
  BY DEF Registered
<1>3. FileRecords(R)
  BY <1>2, RecordsOfRegistered DEF TrackerInv
<1>4. FileRecords(R)' /\ UNCHANGED <<sreq, freq>>
  BY <1>1, <1>2, <1>3, FileNotes
<1>5. Registered' = Registered /\ UNCHANGED mreq
  BY DEF accountVars, groupVars, Registered
<1>6. FileRecords(Registered)'
  BY <1>2, <1>4, <1>5, RecordsOfRegistered
<1>7. ~Engaged(c)'
  BY <1>1, <1>4, <1>5 DEF Engaged, Membership!InProgress, Sharing!InProgress
<1>8. /\ freq' \in [Fds -> Tests \cup {Untested}]
      /\ \A d \in Fds \ {c} : sreq'[d] = sreq[d] /\ freq'[d] = freq[d]
  BY <1>4 DEF TrackerInv, Seated
<1>9. SeatedAt(c)' /\ AskerAt(c)' /\ ListingAt(c)'
  BY <1>7, Disengaged
<1> QED
  BY <1>1, <1>6, <1>8, <1>9, FilesKeep

LEMMA FileRequestsKeep ==
  ASSUME TrackerInv, NEW c \in Fds, Sharing!Continue(c), UNCHANGED <<accountVars, groupVars, freq, overlapped>>
  PROVE  TrackerInv'
<1>1. PICK R \in SUBSET Peers : R = Registered
  BY DEF Registered
<1>2. FileRecords(R) /\ FileTypes(R)
  BY <1>1, RecordsOfRegistered DEF TrackerInv, FileRecords
<1>3. \/ sreq[c] \in UploadsOf(R) /\ sreq[c].at \in Sharing!UploadSteps
      \/ sreq[c] \in OthersOf(R) /\ sreq[c].at \in Sharing!StopSteps \cup Sharing!DownloadSteps
  BY <1>2, FileContinueKeeps
<1>4. /\ FileRecords(R)'
      /\ sreq'[c].at = "upload_list" =>
           \A f \in Files, e \in Endpoints :
             f = sreq[c].f /\ e = sreq[c].e => HasCredit(Sharing!List(f)', e)
  BY <1>2, FileContinues
<1>5. /\ FilesMove(R, c)
      /\ \/ sreq'[c] = Sharing!Idle
         \/ sreq[c] \in UploadsOf(R) /\ \E at \in Sharing!UploadSteps : sreq'[c] = [sreq[c] EXCEPT !.at = at]
         \/ /\ sreq[c] \in OthersOf(R)
            /\ \E at \in Sharing!StopSteps \cup Sharing!DownloadSteps : sreq'[c] = [sreq[c] EXCEPT !.at = at]
  BY <1>2, FileContinueMoves
<1>6. /\ UNCHANGED <<open, areq, user, logmap, listenmap, group_members, asked, mreq>>
      /\ Registered' = Registered
  BY DEF accountVars, groupVars, Registered
<1>7. FileRecords(Registered)'
  BY <1>1, <1>4, <1>6, RecordsOfRegistered
<1>8. Sharing!InProgress(c)
  BY <1>3 DEF Sharing!InProgress, Sharing!Idle, Sharing!UploadSteps, Sharing!StopSteps,
     Sharing!DownloadSteps
<1>9. SeatedAt(c) /\ AskerAt(c) /\ (~overlapped => ListingAt(c)) /\ Handling(c)
  BY <1>8 DEF TrackerInv, Seated, Serial, Handling
<1>10. sreq'[c].at \in Sharing!UploadSteps =>
         /\ sreq[c] \in UploadsOf(R) /\ sreq[c].at \in Sharing!UploadSteps
         /\ sreq'[c].cr = sreq[c].cr /\ sreq'[c].e = sreq[c].e
         /\ sreq'[c].g = sreq[c].g /\ sreq'[c].f = sreq[c].f
  BY <1>3, <1>5 DEF UploadsOf, OthersOf, Sharing!Idle, Sharing!UploadSteps, Sharing!StopSteps,
     Sharing!DownloadSteps
<1>11. SeatedAt(c)'
  BY <1>6, <1>8, <1>9, <1>10 DEF SeatedAt, Engaged, Sharing!InProgress, Membership!InProgress
<1>12. AskerAt(c)'
  BY <1>6, <1>9, <1>10 DEF AskerAt
<1>13. ASSUME ~overlapped
       PROVE  ListingAt(c)'
  <2>1. sreq'[c].at = "upload_list" => HasCredit(Sharing!List(sreq[c].f), sreq[c].e)'
    <3> SUFFICES ASSUME sreq'[c].at = "upload_list"
                 PROVE  HasCredit(Sharing!List(sreq[c].f), sreq[c].e)'
      OBVIOUS
    <3>1. PICK f \in Files, e \in Endpoints : f = sreq[c].f /\ e = sreq[c].e
      BY <1>10 DEF UploadsOf, Sharing!UploadSteps
    <3>2. HasCredit(Sharing!List(f)', e) /\ sreq'[c].f = f /\ sreq'[c].e = e
      BY <1>4, <1>10, <3>1 DEF Sharing!UploadSteps
    <3> QED
      BY <3>2 DEF HasCredit, Sharing!List
  <2> QED
    BY <1>6, <1>9, <1>10, <1>13, <2>1 DEF ListingAt
<1>14. freq' \in [Fds -> Tests \cup {Untested}]
  BY DEF TrackerInv, Seated
<1> QED
  BY <1>5, <1>7, <1>9, <1>11, <1>12, <1>13, <1>14, FilesKeep DEF FilesMove

-----------------------------------------------------------------------------
(***************************************************************************)
(* The invariant holds in every behaviour.                                 *)
(***************************************************************************)
LEMMA TrackerInvInit == Init => TrackerInv
<1> SUFFICES ASSUME Init PROVE TrackerInv
  OBVIOUS
<1> USE DEF Init
<1>1. Sessions
  BY TrackerAssumption DEF Sessions, Accounts!Init, Accounts!Idle, Accounts!Hello,
     Accounts!Requests
<1>2. \A c \in Fds : mreq[c] = Membership!Idle /\ sreq[c] = Sharing!Idle /\ freq[c] = Untested
  BY DEF Membership!Init, Sharing!Init
<1>3. \A c \in Fds : ~Engaged(c) /\ ~Handling(c)
  BY <1>2 DEF Engaged, Handling, Membership!InProgress, Sharing!InProgress, Accounts!InProgress,
     Accounts!Init, Accounts!Idle, Accounts!Requests
<1>4. GroupRecords
  BY TrackerAssumption DEF GroupRecords, GroupTypes, Membership!AskedInv,
     Membership!NobodyUnasked,
     Membership!Init, Membership!Idle, Membership!CreateSteps, Membership!JoinSteps
<1>5. FileRecords(Registered)
  BY DEF FileRecords, FileTypes, Sharing!Init
<1>6. \A c \in Fds : SeatedAt(c) /\ AskerAt(c) /\ ListingAt(c)
  BY <1>3, Disengaged
<1>7. overlapped \in BOOLEAN
  <2>1. overlapped = FALSE
    OBVIOUS
  <2> QED
    BY <2>1
<1> QED
  BY <1>1, <1>3, <1>4, <1>5, <1>6, <1>7 DEF TrackerInv, Seated, Serial, AtMostOneHandling

\* The process starts again as it started.
LEMMA RestartIsInit == Restart => TrackerInv'
<1> SUFFICES ASSUME Restart PROVE TrackerInv'
  OBVIOUS
<1> USE DEF Restart
<1>1. Sessions'
  BY TrackerAssumption DEF Sessions, Accounts!Restart, Accounts!Idle, Accounts!Hello,
     Accounts!Requests
<1>2. \A c \in Fds : mreq'[c] = Membership!Idle /\ sreq'[c] = Sharing!Idle /\ freq'[c] = Untested
  BY DEF Membership!Restart, Sharing!Restart
<1>3. \A c \in Fds : ~Engaged(c)' /\ ~Handling(c)'
  BY <1>2 DEF Engaged, Handling, Membership!InProgress, Sharing!InProgress, Accounts!InProgress,
     Accounts!Restart, Accounts!Idle, Accounts!Requests
<1>4. GroupRecords'
  BY TrackerAssumption DEF GroupRecords, GroupTypes, Membership!AskedInv,
     Membership!NobodyUnasked,
     Membership!Restart, Membership!Idle, Membership!CreateSteps, Membership!JoinSteps
<1>5. FileRecords(Registered)'
  BY DEF FileRecords, FileTypes, Sharing!Restart
<1>6. \A c \in Fds : SeatedAt(c)' /\ AskerAt(c)' /\ ListingAt(c)'
  BY <1>3, Disengaged
<1>7. overlapped' \in BOOLEAN
  <2>1. overlapped' = FALSE
    OBVIOUS
  <2> QED
    BY <2>1
<1> QED
  BY <1>1, <1>3, <1>4, <1>5, <1>6, <1>7 DEF TrackerInv, Seated, Serial, AtMostOneHandling

LEMMA TrackerInvStep == TrackerInv /\ [Next]_vars => TrackerInv'
<1> SUFFICES ASSUME TrackerInv, [Next]_vars PROVE TrackerInv'
  OBVIOUS
<1>1. CASE UNCHANGED vars
  <2>1. /\ UNCHANGED <<open, areq, user, logmap, listenmap, group, group_members, pending, asked,
                       mreq, group_file, file_pieces, downloads, sreq, freq, overlapped>>
        /\ Registered' = Registered
    BY <1>1 DEF vars, accountVars, groupVars, fileVars, Registered
  <2>2. Sessions'
    BY <2>1 DEF TrackerInv, Sessions
  <2>3. GroupRecords'
    BY <2>1 DEF TrackerInv, GroupRecords, GroupTypes, Membership!AskedInv,
       Membership!NobodyUnasked
  <2>4. FileRecords(Registered)'
    BY <2>1 DEF TrackerInv, FileRecords, FileTypes, UploadsOf, OthersOf, PiecesOf, CreditOf
  <2>5. Seated'
    BY <2>1 DEF TrackerInv, Seated, SeatedAt, Engaged, Membership!InProgress, Sharing!InProgress
  <2>6. \A c \in Fds : AskerAt(c)'
    BY <2>1 DEF TrackerInv, AskerAt
  <2>7. Serial'
    BY <2>1 DEF TrackerInv, Serial, AtMostOneHandling, Handling, Accounts!InProgress,
       Membership!InProgress, Sharing!InProgress, ListingAt, HasCredit, Sharing!List
  <2> QED
    BY <2>1, <2>2, <2>3, <2>4, <2>5, <2>6, <2>7 DEF TrackerInv
<1>2. CASE Restart
  BY <1>2, RestartIsInit
<1>3. ASSUME NEW c \in Fds, Connection(c) \/ AccountCommand(c),
             UNCHANGED <<groupVars, fileVars, freq>>
      PROVE  TrackerInv'
  BY <1>3, AccountsKeep
<1>4. ASSUME NEW c \in Fds, GroupCommand(c), UNCHANGED <<accountVars, fileVars, freq>>
      PROVE  TrackerInv'
  BY <1>4, GroupCommandsKeep, GroupRequestsKeep DEF GroupCommand
<1>5. ASSUME NEW c \in Fds, FileCommand(c), UNCHANGED <<accountVars, groupVars>>
      PROVE  TrackerInv'
  BY <1>5, FindGroupKeeps, TestMemberKeeps, OpenFileKeeps, FileNoteKeeps, FileRequestsKeep
     DEF FileCommand
<1> QED
  BY <1>1, <1>2, <1>3, <1>4, <1>5 DEF Next

LEMMA TrackerInvHolds == Spec => []TrackerInv
  BY TrackerInvInit, TrackerInvStep, PTL DEF Spec

-----------------------------------------------------------------------------
\* To the groups, every step of the tracker is a step of module Membership or
\* nothing, with a peer that exists acting.
THEOREM GroupsKeepToMembership == Spec => RefinesMembership
<1>1. Init => Membership!Init
  BY DEF Init
<1>2. TrackerInv /\ [Next]_vars => [Membership!Next]_Membership!vars
  <2> SUFFICES ASSUME TrackerInv, [Next]_vars
               PROVE  Membership!Next \/ UNCHANGED groupVars
    BY DEF groupVars, Membership!vars, Membership!maps
  <2>1. ASSUME NEW c \in Fds, GroupCommand(c)
        PROVE  Membership!Next
    <3>1. CASE AsPeer(c) /\ Membership!Commands(c, logmap[c])
      <4>1. logmap[c] \in Peers
        BY <3>1 DEF AsPeer, TrackerInv, Sessions
      <4> QED
        BY <3>1, <4>1 DEF Membership!Next
    <3>2. CASE Membership!Continue(c)
      BY <3>2 DEF Membership!Next
    <3> QED
      BY <2>1, <3>1, <3>2 DEF GroupCommand
  <2>2. CASE Restart
    BY <2>2 DEF Restart, Membership!Next
  <2> QED
    BY <2>1, <2>2 DEF Next, vars
<1> QED
  BY <1>1, <1>2, TrackerInvHolds, PTL DEF Spec, RefinesMembership, Membership!Spec

\* To the catalogue, every step of the tracker is a step of module Sharing or
\* nothing, with a peer that exists acting at an endpoint it announced.
THEOREM FilesKeepToSharing == Spec => RefinesSharing
<1>1. Init => Sharing!Init
  BY DEF Init
<1>2. TrackerInv /\ [Next]_vars => [Sharing!Next]_Sharing!vars
  <2> SUFFICES ASSUME TrackerInv, [Next]_vars
               PROVE  Sharing!Next \/ UNCHANGED fileVars
    BY DEF fileVars, Sharing!vars, Sharing!maps
  <2>1. ASSUME NEW c \in Fds, OpenFile(c)
        PROVE  Sharing!Next \/ UNCHANGED fileVars
    <3>1. PICK me \in Peers, e \in Endpoints, g \in Groups :
            me = logmap[c] /\ e = listenmap[c] /\ g = freq[c].g
      BY <2>1, Tested DEF OpenFile, Registered, Tests
    <3>2. \/ \E v \in Versions, f \in Files, n \in Numbers :
               Sharing!Upload(c, [peer |-> me, version |-> v], e, g, f, n)
          \/ \E f \in Files : Sharing!DownloadFile(c, me, g, f)
          \/ \E f \in Files : Sharing!StopShare(c, me, g, f)
          \/ UNCHANGED fileVars
      BY <2>1, <3>1 DEF OpenFile
    <3>3. (\E v \in Versions, f \in Files, n \in Numbers :
             Sharing!Upload(c, [peer |-> me, version |-> v], e, g, f, n)) => Sharing!Uploading(c, me, e)
      BY DEF Sharing!Uploading
    <3>4. (\E f \in Files : Sharing!DownloadFile(c, me, g, f) \/ Sharing!StopShare(c, me, g, f)) => Sharing!Commands(c, me)
      BY DEF Sharing!Commands
    <3> QED
      BY <3>2, <3>3, <3>4 DEF Sharing!Next
  <2>2. ASSUME NEW c \in Fds, AsPeer(c), FileNote(c)
        PROVE  Sharing!Next
    <3>1. PICK me \in Peers : me = logmap[c]
      BY <2>2 DEF AsPeer, TrackerInv, Sessions
    <3>2. Sharing!Commands(c, me)
      BY <2>2, <3>1 DEF FileNote, Sharing!Commands
    <3> QED
      BY <3>2 DEF Sharing!Next
  <2>3. ASSUME NEW c \in Fds, Sharing!Continue(c)
        PROVE  Sharing!Next
    BY <2>3 DEF Sharing!Next
  <2>4. ASSUME NEW c \in Fds, FindGroup(c) \/ TestMember(c)
        PROVE  UNCHANGED fileVars
    BY <2>4 DEF FindGroup, TestMember
  <2>5. CASE Restart
    BY <2>5 DEF Restart, Sharing!Next
  <2> QED
    BY <2>1, <2>2, <2>3, <2>4, <2>5 DEF Next, vars, FileCommand
<1> QED
  BY <1>1, <1>2, TrackerInvHolds, PTL DEF Spec, RefinesSharing, Sharing!Spec

\* Every name the tracker keeps is that of a registered account, whatever the
\* schedule.
THEOREM NamesAreAccounts == Spec => []NamesHaveAccounts
<1>1. TrackerInv => NamesHaveAccounts
  <2> SUFFICES ASSUME TrackerInv
               PROVE  NamesHaveAccounts
    OBVIOUS
  <2>1. ASSUME NEW g \in Groups
        PROVE  /\ group[g] \in Registered \cup {None, Blank}
               /\ group_members[g] \cup pending[g] \subseteq Registered
    <3>1. group_members[g] \cup pending[g] \cup ({group[g]} \ {None, Blank}) \subseteq asked[g]
      BY DEF TrackerInv, GroupRecords, Membership!AskedInv, Membership!NobodyUnasked
    <3>2. asked[g] \subseteq Registered
      BY DEF TrackerInv, GroupRecords
    <3> QED
      BY <3>1, <3>2
  <2>2. PICK R \in SUBSET Peers : R = Registered
    BY DEF Registered
  <2>3. FileRecords(R)
    BY <2>2, RecordsOfRegistered DEF TrackerInv
  <2>4. \A p \in Peers : downloads[p] # {} => p \in R
    BY <2>3 DEF FileRecords, FileTypes
  <2>5. ASSUME NEW f \in Files, NEW k \in DOMAIN Sharing!List(f), NEW e \in Endpoints
        PROVE  LET cr == file_pieces[f][k].sources[e]
               IN cr = None \/ cr.peer \in R
    <3>1. Sharing!List(f) \in Seq(PiecesOf(R))
      BY <2>3, ListOf
    <3>2. Sharing!List(f)[k] \in PiecesOf(R)
      BY <3>1
    <3>3. file_pieces[f] = Sharing!List(f)
      BY DEF Sharing!List
    <3> QED
      BY <3>2, <3>3 DEF PiecesOf, CreditOf
  <2> QED
    BY <2>1, <2>2, <2>4, <2>5 DEF NamesHaveAccounts
<1> QED
  BY <1>1, TrackerInvHolds, PTL

\* A file comes into a group's list only by the upload of the peer logged in on
\* that connection, one that asked for the group; and until two commands
\* overlap one that is a member, with its source on record.
THEOREM FilesAreListedByMembers == Spec => ListedByMember
<1> DEFINE Listing(c, g, f) ==
      /\ sreq[c].at = "upload_list" /\ sreq[c].g = g /\ sreq[c].f = f
      /\ sreq[c].cr.peer = logmap[c]
      /\ logmap[c] \in asked[g]
      /\ \/ overlapped
         \/ /\ logmap[c] \in group_members[g]
            /\ \E n \in Numbers : Sharing!Credited(f, n, listenmap[c]) # {}
<1>1. TrackerInv /\ [Next]_vars =>
        \A g \in Groups : \A f \in group_file'[g] \ group_file[g] : \E c \in Fds : Listing(c, g, f)
  <2> SUFFICES ASSUME TrackerInv, [Next]_vars, NEW g \in Groups, NEW f \in group_file'[g] \ group_file[g]
               PROVE  \E c \in Fds : Listing(c, g, f)
    OBVIOUS
  <2> HIDE DEF Listing
  <2>1. ASSUME NEW c \in Fds, Sharing!Continue(c)
        PROVE  Listing(c, g, f)
    <3>1. PICK R \in SUBSET Peers : R = Registered
      BY DEF Registered
    <3>2. FileRecords(R)
      BY <3>1, RecordsOfRegistered DEF TrackerInv
    <3>3. sreq[c].at = "upload_list" /\ sreq[c].g = g /\ sreq[c].f = f
      BY <2>1, <3>2, FileContinues
    <3>4. SeatedAt(c) /\ AskerAt(c) /\ (~overlapped => ListingAt(c))
      BY DEF TrackerInv, Seated, Serial
    <3>5. /\ sreq[c].cr.peer = logmap[c] /\ sreq[c].e = listenmap[c]
          /\ logmap[c] \in asked[g]
          /\ ~overlapped => logmap[c] \in group_members[g] /\ HasCredit(Sharing!List(f), listenmap[c])
      BY <3>3, <3>4 DEF SeatedAt, AskerAt, ListingAt, Sharing!UploadSteps
    <3>6. ASSUME HasCredit(Sharing!List(f), listenmap[c])
          PROVE  \E n \in Numbers : Sharing!Credited(f, n, listenmap[c]) # {}
      <4>1. PICK k \in DOMAIN Sharing!List(f) :
              Sharing!List(f)[k].number \in Numbers /\ Sharing!List(f)[k].sources[listenmap[c]] # None
        BY <3>6 DEF HasCredit
      <4>2. Sharing!List(f)[k].sources[listenmap[c]]
              \in Sharing!Credited(f, Sharing!List(f)[k].number, listenmap[c])
        BY <4>1 DEF Sharing!Credited
      <4> QED
        BY <4>1, <4>2
    <3> QED
      BY <3>3, <3>5, <3>6 DEF Listing
  <2>2. ASSUME NEW c \in Fds, FindGroup(c) \/ TestMember(c) \/ OpenFile(c) \/ FileNote(c)
        PROVE  UNCHANGED group_file
    BY <2>2 DEF FindGroup, TestMember, OpenFile, FileNote, fileVars, Sharing!Upload,
       Sharing!DownloadFile,
       Sharing!StopShare, Sharing!DownloadCompleted, Sharing!FileDetails, Sharing!maps
  <2>3. ~Restart
    BY DEF Restart, Sharing!Restart
  <2>4. \E c \in Fds : Sharing!Continue(c)
    BY <2>2, <2>3 DEF Next, FileCommand, vars, fileVars
  <2> QED
    BY <2>1, <2>4
<1>2. TrackerInv /\ [Next]_vars =>
        [\A g \in Groups : \A f \in group_file'[g] \ group_file[g] : \E c \in Fds : Listing(c, g, f)]_vars
  BY <1>1
<1> QED
  BY <1>2, TrackerInvHolds, PTL DEF Spec, ListedByMember
=============================================================================
