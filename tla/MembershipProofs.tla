-------------------------- MODULE MembershipProofs --------------------------
(***************************************************************************)
(* What holds of the tracker's groups for every set of descriptors, peers  *)
(* and groups.                                                             *)
(***************************************************************************)
EXTENDS Membership, TLAPS

\* A request taken up with the history variable staying down finds no other.
LEMMA History ==
  ASSUME overlapped \in BOOLEAN, Begin
  PROVE  /\ overlapped' \in BOOLEAN
         /\ ~overlapped' => ~overlapped /\ \A d \in Fds : ~InProgress(d)
<1>1. CASE \E d \in Fds : InProgress(d)
  BY <1>1 DEF Begin
<1>2. CASE ~\E d \in Fds : InProgress(d)
  BY <1>2 DEF Begin
<1> QED
  BY <1>1, <1>2

\* What a command leaves alone: it only takes up a request, asking or not.
LEMMA CommandKeeps ==
  ASSUME NEW c, NEW me, NEW g, NEW p,
         \/ CreateGroup(c, me, g) \/ JoinGroup(c, me, g) \/ LeaveGroup(c, me, g)
         \/ AcceptRequest(c, me, g, p)
  PROVE  /\ Begin
         /\ mreq[c] = Idle
         /\ UNCHANGED <<maps, founder>>
         /\ asked' = asked \/ asked' = AddTo(asked, g, me)
BY DEF CreateGroup, JoinGroup, LeaveGroup, AcceptRequest, Command

\* A thread that goes on with its request was in the middle of it, and leaves
\* the histories of overlaps and of askers alone.
LEMMA ContinueKeeps ==
  ASSUME TypeOK, NEW c \in Fds, Continue(c)
  PROVE  /\ UNCHANGED <<asked, overlapped>>
         /\ mreq[c] \in Requests
<1>1. UNCHANGED <<asked, overlapped>> /\ mreq[c].at # "idle"
  BY DEF Continue,
         CreateGroupInsert, CreateGroupMember, JoinGroupCount, JoinGroupInsert,
         AcceptRequestFind, AcceptRequestOwner, AcceptRequestInsert, AcceptRequestErase,
         LeaveGroupFind, LeaveGroupOwner, LeaveGroupSize, LeaveGroupHeir, LeaveGroupAppoint,
         LeaveGroupErase, DissolveGroup, DissolveMembers
<1>2. mreq[c] \in Requests \cup {Idle}
  BY DEF TypeOK
<1> QED
  BY <1>1, <1>2 DEF Idle

LEMMA HistoryType == TypeOK /\ [Next]_vars => overlapped' \in BOOLEAN
<1> SUFFICES ASSUME TypeOK, [Next]_vars
             PROVE  overlapped' \in BOOLEAN
  OBVIOUS
<1>1. overlapped \in BOOLEAN
  BY DEF TypeOK
<1>2. CASE UNCHANGED vars
  BY <1>1, <1>2 DEF vars
<1>3. CASE Restart
  <2>1. overlapped' = FALSE
    BY <1>3 DEF Restart
  <2> QED
    BY <2>1
<1>4. ASSUME NEW c \in Fds, NEW me \in Peers, Commands(c, me)
      PROVE  overlapped' \in BOOLEAN
  <2>1. Begin
    BY <1>4, CommandKeeps DEF Commands
  <2> QED
    BY <1>1, <2>1, History
<1>5. ASSUME NEW c \in Fds, Continue(c)
      PROVE  overlapped' \in BOOLEAN
  BY <1>1, <1>5, ContinueKeeps
<1> QED
  BY <1>2, <1>3, <1>4, <1>5 DEF Next

Stops == CreateSteps \cup JoinSteps \cup AcceptSteps \cup LeaveSteps

\* Moving a thread within its request keeps the requests in order.
LEMMA Moving ==
  ASSUME mreq \in [Fds -> Requests \cup {Idle}], NEW c \in Fds, mreq[c] \in Requests,
         \/ mreq' = mreq
         \/ Finish(c)
         \/ \E at \in Stops : Goto(c, at)
  PROVE  mreq' \in [Fds -> Requests \cup {Idle}]
BY DEF Finish, Goto, Requests, Stops

\* So does starting one.
LEMMA Starting ==
  ASSUME mreq \in [Fds -> Requests \cup {Idle}], NEW c \in Fds, NEW at \in Stops,
         NEW me \in Peers, NEW g \in Groups, NEW p \in Peers, Start(c, at, me, g, p)
  PROVE  mreq' \in [Fds -> Requests \cup {Idle}]
<1> DEFINE r == [at |-> at, me |-> me, g |-> g, peer |-> p]
<1>1. r \in Requests
  BY DEF Requests, Stops
<1> QED
  BY <1>1 DEF Start

\* Every variable keeps to its type, whatever the schedule of the handlers.
THEOREM MembershipTypeOK == Spec => []TypeOK
<1>1. Init => TypeOK
  BY DEF Init, TypeOK, Idle
<1>2. TypeOK /\ [Next]_vars => TypeOK'
  <2> SUFFICES ASSUME TypeOK, [Next]_vars, overlapped' \in BOOLEAN
               PROVE  TypeOK'
    BY HistoryType
  <2>1. CASE UNCHANGED vars
    BY <2>1 DEF TypeOK, vars, maps
  <2>2. CASE Restart
    BY <2>2 DEF TypeOK, Restart
  <2>3. ASSUME NEW c \in Fds, NEW me \in Peers, NEW g \in Groups, NEW p \in Peers,
               \/ CreateGroup(c, me, g) \/ JoinGroup(c, me, g) \/ LeaveGroup(c, me, g)
               \/ AcceptRequest(c, me, g, p)
        PROVE  TypeOK'
    <3>1. UNCHANGED <<maps, founder>> /\ asked' \in [Groups -> SUBSET Peers]
      <4>1. UNCHANGED <<maps, founder>> /\ (asked' = asked \/ asked' = AddTo(asked, g, me))
        BY <2>3, CommandKeeps
      <4> QED
        BY <4>1 DEF TypeOK, AddTo
    <3>2. \E at \in Stops, q \in Peers : Start(c, at, me, g, q)
      <4>1. /\ CreateGroup(c, me, g) => Start(c, "create_insert", me, g, me)
            /\ JoinGroup(c, me, g) => Start(c, "join_count", me, g, me)
            /\ LeaveGroup(c, me, g) => Start(c, "leave_find", me, g, me)
            /\ AcceptRequest(c, me, g, p) => Start(c, "accept_find", me, g, p)
        BY DEF CreateGroup, JoinGroup, LeaveGroup, AcceptRequest
      <4>2. {"create_insert", "join_count", "leave_find", "accept_find"} \subseteq Stops
        BY DEF Stops, CreateSteps, JoinSteps, AcceptSteps, LeaveSteps
      <4> QED
        BY <2>3, <4>1, <4>2, Zenon
    <3>3. mreq' \in [Fds -> Requests \cup {Idle}]
      BY <3>2, Starting DEF TypeOK
    <3> QED
      BY <3>1, <3>3 DEF TypeOK, maps
  <2>4. ASSUME NEW c \in Fds, Continue(c)
        PROVE  TypeOK'
    <3>1. mreq[c] \in Requests /\ asked' = asked
      BY <2>4, ContinueKeeps
    <3>2. /\ group' \in [Groups -> Peers \cup {None, Blank}]
          /\ group_members' \in [Groups -> SUBSET Peers]
          /\ pending' \in [Groups -> SUBSET Peers]
          /\ founder' \in [Groups -> Peers \cup {None}]
      BY <2>4, <3>1 DEF TypeOK, Requests, Continue, maps, AddTo, RemoveFrom, Touch,
             CreateGroupInsert, CreateGroupMember, JoinGroupCount, JoinGroupInsert,
             AcceptRequestFind, AcceptRequestOwner, AcceptRequestInsert, AcceptRequestErase,
             LeaveGroupFind, LeaveGroupOwner, LeaveGroupSize, LeaveGroupHeir,
             LeaveGroupAppoint, LeaveGroupErase, DissolveGroup, DissolveMembers
    <3>3. CASE LeaveGroupHeir(c)
      BY <3>1, <3>2, <3>3, Moving DEF TypeOK, LeaveGroupHeir, Start, Requests, LeaveSteps, Stops
    <3>4. CASE ~LeaveGroupHeir(c)
      <4>1. \/ Finish(c)
            \/ \E at \in Stops : Goto(c, at)
        BY <2>4, <3>4 DEF Continue, Stops, CreateSteps, JoinSteps, AcceptSteps, LeaveSteps,
                 CreateGroupInsert, CreateGroupMember, JoinGroupCount, JoinGroupInsert,
                 AcceptRequestFind, AcceptRequestOwner, AcceptRequestInsert,
                 AcceptRequestErase, LeaveGroupFind, LeaveGroupOwner, LeaveGroupSize,
                 LeaveGroupHeir, LeaveGroupAppoint, LeaveGroupErase, DissolveGroup,
                 DissolveMembers
      <4> QED
        BY <3>1, <3>2, <4>1, Moving DEF TypeOK
    <3> QED
      BY <3>3, <3>4
  <2> QED
    BY <2>1, <2>2, <2>3, <2>4 DEF Next, Commands
<1> QED
  BY <1>1, <1>2, PTL DEF Spec

-----------------------------------------------------------------------------
\* Whoever is in a group, waits for it, owns it or is about to be entered by a
\* request in progress has asked; on every schedule.
LEMMA AskedInvStep == TypeOK /\ AskedInv /\ [Next]_vars => AskedInv'
<1> SUFFICES ASSUME TypeOK, AskedInv, [Next]_vars
             PROVE  AskedInv'
  OBVIOUS
<1> USE MembershipAssumption DEF AskedInv, NobodyUnasked
<1>1. CASE UNCHANGED vars
  BY <1>1 DEF vars, maps
<1>2. CASE Restart
  BY <1>2 DEF Restart, Idle, CreateSteps, JoinSteps
<1>3. ASSUME NEW c \in Fds, NEW me \in Peers, NEW g \in Groups, NEW p \in Peers,
             \/ CreateGroup(c, me, g) \/ JoinGroup(c, me, g) \/ LeaveGroup(c, me, g)
             \/ AcceptRequest(c, me, g, p)
      PROVE  AskedInv'
  <2>1. UNCHANGED <<maps, founder>> /\ (asked' = asked \/ asked' = AddTo(asked, g, me))
    BY <1>3, CommandKeeps
  <2>2. \A h \in Groups : asked[h] \subseteq asked'[h]
    BY <2>1 DEF TypeOK, AddTo
  <2>3. NobodyUnasked'
    BY <2>1, <2>2 DEF maps
  <2>4. /\ mreq'[c].at \in CreateSteps \cup JoinSteps => mreq'[c].me \in asked'[mreq'[c].g]
        /\ mreq'[c].at \notin {"accept_owner", "accept_insert", "leave_appoint"}
    BY <1>3 DEF TypeOK, AddTo, CreateGroup, JoinGroup, LeaveGroup, AcceptRequest, Start,
                CreateSteps, JoinSteps
  <2>5. \A d \in Fds \ {c} : mreq'[d] = mreq[d] /\ mreq[d] \in Requests \cup {Idle}
    BY <1>3 DEF TypeOK, CreateGroup, JoinGroup, LeaveGroup, AcceptRequest, Start
  <2>6. \A d \in Fds \ {c} : mreq[d].at # "idle" => mreq[d].g \in Groups
    BY <2>5 DEF Requests, Idle
  <2> QED
    BY <2>2, <2>3, <2>4, <2>5, <2>6 DEF CreateSteps, JoinSteps
<1>4. ASSUME NEW c \in Fds, Continue(c)
      PROVE  AskedInv'
  <2>1. mreq[c] \in Requests /\ asked' = asked
    BY <1>4, ContinueKeeps
  <2> USE <2>1 DEF TypeOK, Requests, AddTo, RemoveFrom, Touch, Goto, Finish, Start, Idle, maps,
                   CreateSteps, JoinSteps
  <2>2. CASE CreateGroupInsert(c)
    BY <2>2 DEF CreateGroupInsert
  <2>3. CASE CreateGroupMember(c)
    BY <2>3 DEF CreateGroupMember
  <2>4. CASE JoinGroupCount(c)
    BY <2>4 DEF JoinGroupCount
  <2>5. CASE JoinGroupInsert(c)
    BY <2>5 DEF JoinGroupInsert
  <2>6. CASE AcceptRequestFind(c)
    BY <2>6 DEF AcceptRequestFind
  <2>7. CASE AcceptRequestOwner(c)
    BY <2>7 DEF AcceptRequestOwner
  <2>8. CASE AcceptRequestInsert(c)
    BY <2>8 DEF AcceptRequestInsert
  <2>9. CASE AcceptRequestErase(c)
    BY <2>9 DEF AcceptRequestErase
  <2>10. CASE LeaveGroupFind(c)
    BY <2>10 DEF LeaveGroupFind
  <2>11. CASE LeaveGroupOwner(c)
    BY <2>11 DEF LeaveGroupOwner
  <2>12. CASE LeaveGroupSize(c)
    BY <2>12 DEF LeaveGroupSize
  <2>13. CASE LeaveGroupHeir(c)
    BY <2>13 DEF LeaveGroupHeir
  <2>14. CASE LeaveGroupAppoint(c)
    BY <2>14 DEF LeaveGroupAppoint
  <2>15. CASE LeaveGroupErase(c)
    BY <2>15 DEF LeaveGroupErase
  <2>16. CASE DissolveGroup(c)
    BY <2>16 DEF DissolveGroup
  <2>17. CASE DissolveMembers(c)
    BY <2>17 DEF DissolveMembers
  <2> QED
    BY <1>4, <2>2, <2>3, <2>4, <2>5, <2>6, <2>7, <2>8, <2>9, <2>10, <2>11, <2>12, <2>13, <2>14,
       <2>15, <2>16, <2>17 DEF Continue
<1> QED
  BY <1>1, <1>2, <1>3, <1>4 DEF Next, Commands

\* Whoever is a member, waits to become one or owns a group has asked for it;
\* on every schedule.
THEOREM NobodyIsUnasked == Spec => []NobodyUnasked
<1>1. Init => AskedInv
  BY DEF Init, AskedInv, NobodyUnasked, Idle, CreateSteps, JoinSteps
<1>2. AskedInv => NobodyUnasked
  BY DEF AskedInv
<1> QED
  BY <1>1, <1>2, AskedInvStep, MembershipTypeOK, PTL DEF Spec

-----------------------------------------------------------------------------
\* The invariant of the serial schedule: what a request's tests found still
\* holds at its next visit, and with it the maps stay in step.
LEMMA SerialInvStep == SerialInv /\ TypeOK' /\ [Next]_vars => SerialInv'
<1> DEFINE Goal == AtMostOneInProgress' /\ TestsStillHold' /\ MapsInStep' /\ FoundersOnBoth'
<1> SUFFICES ASSUME SerialInv, TypeOK', [Next]_vars, ~overlapped'
             PROVE  Goal
  BY DEF SerialInv, AtMostOneInProgress, TestsStillHold, MapsInStep, FoundersOnBoth
<1> USE DEF SerialInv
<1>1. CASE UNCHANGED vars
  BY <1>1 DEF vars, maps, AtMostOneInProgress, TestsStillHold, MapsInStep, FoundersOnBoth,
              InProgress, Found, InStep, OnlyFounderOnBoth, Founding, Dissolving, Admitting
<1>2. CASE Restart
  BY <1>2 DEF Restart, AtMostOneInProgress, TestsStillHold, MapsInStep, FoundersOnBoth,
              InProgress, InStep, OnlyFounderOnBoth
<1>3. ASSUME NEW c \in Fds, NEW me \in Peers, NEW g \in Groups, NEW p \in Peers,
             \/ CreateGroup(c, me, g) \/ JoinGroup(c, me, g) \/ LeaveGroup(c, me, g)
             \/ AcceptRequest(c, me, g, p)
      PROVE  Goal
  <2>1. Begin /\ UNCHANGED <<maps, founder>>
    BY <1>3, CommandKeeps
  <2>2. ~overlapped /\ \A d \in Fds : ~InProgress(d)
    BY <2>1, History DEF TypeOK
  <2>3. \A d \in Fds \ {c} : ~InProgress(d)'
    BY <1>3, <2>2 DEF TypeOK, InProgress, CreateGroup, JoinGroup, LeaveGroup, AcceptRequest, Start
  <2>4. Found(mreq[c])'
    BY <1>3 DEF TypeOK, CreateGroup, JoinGroup, LeaveGroup, AcceptRequest, Start, Found, maps,
                Founding, Dissolving, Admitting, JoinSteps, AcceptSteps, LeaveSteps
  <2>5. \A h \in Groups : InStep(h)' /\ OnlyFounderOnBoth(h)'
    BY <2>1, <2>2 DEF MapsInStep, FoundersOnBoth, InStep, OnlyFounderOnBoth, maps
  <2> QED
    BY <2>3, <2>4, <2>5 DEF AtMostOneInProgress, TestsStillHold, MapsInStep, FoundersOnBoth
<1>4. ASSUME NEW c \in Fds, Continue(c)
      PROVE  Goal
  <2>1. mreq[c] \in Requests /\ ~overlapped
    BY <1>4, ContinueKeeps
  <2>2. InProgress(c)
    BY <2>1 DEF InProgress, Requests, Idle
  <2>3. Found(mreq[c]) /\ \A d \in Fds \ {c} : ~InProgress(d)
    BY <2>1, <2>2 DEF TestsStillHold, AtMostOneInProgress
  <2>4. PICK me \in Peers, g \in Groups, p \in Peers :
          mreq[c].me = me /\ mreq[c].g = g /\ mreq[c].peer = p
    BY <2>1 DEF Requests
  <2>5. \A h \in Groups : h # g => InStep(h) /\ OnlyFounderOnBoth(h)
    BY <2>1, <2>2, <2>3, <2>4 DEF MapsInStep, FoundersOnBoth
  <2>6. /\ InStep(g) \/ Founding(mreq[c]) \/ Dissolving(mreq[c])
        /\ OnlyFounderOnBoth(g) \/ Admitting(mreq[c])
    BY <2>1, <2>2, <2>3, <2>4 DEF MapsInStep, FoundersOnBoth
  <2>7. /\ \A d \in Fds \ {c} : mreq'[d] = mreq[d]
        /\ InProgress(c)' => mreq'[c].me = me /\ mreq'[c].g = g
        /\ \A h \in Groups : h # g =>
             /\ group'[h] = group[h] /\ group_members'[h] = group_members[h]
             /\ pending'[h] = pending[h] /\ founder'[h] = founder[h]
    <3> USE <2>1, <2>4 DEF TypeOK, Requests, Goto, Finish, Start, Idle, InProgress, maps, AddTo,
                           RemoveFrom, Touch
    <3>1. CASE CreateGroupInsert(c)
      BY <3>1 DEF CreateGroupInsert
    <3>2. CASE CreateGroupMember(c)
      BY <3>2 DEF CreateGroupMember
    <3>3. CASE JoinGroupCount(c)
      BY <3>3 DEF JoinGroupCount
    <3>4. CASE JoinGroupInsert(c)
      BY <3>4 DEF JoinGroupInsert
    <3>5. CASE AcceptRequestFind(c)
      BY <3>5 DEF AcceptRequestFind
    <3>6. CASE AcceptRequestOwner(c)
      BY <3>6 DEF AcceptRequestOwner
    <3>7. CASE AcceptRequestInsert(c)
      BY <3>7 DEF AcceptRequestInsert
    <3>8. CASE AcceptRequestErase(c)
      BY <3>8 DEF AcceptRequestErase
    <3>9. CASE LeaveGroupFind(c)
      BY <3>9 DEF LeaveGroupFind
    <3>10. CASE LeaveGroupOwner(c)
      BY <3>10 DEF LeaveGroupOwner
    <3>11. CASE LeaveGroupSize(c)
      BY <3>11 DEF LeaveGroupSize
    <3>12. CASE LeaveGroupHeir(c)
      BY <3>12 DEF LeaveGroupHeir
    <3>13. CASE LeaveGroupAppoint(c)
      BY <3>13 DEF LeaveGroupAppoint
    <3>14. CASE LeaveGroupErase(c)
      BY <3>14 DEF LeaveGroupErase
    <3>15. CASE DissolveGroup(c)
      BY <3>15 DEF DissolveGroup
    <3>16. CASE DissolveMembers(c)
      BY <3>16 DEF DissolveMembers
    <3> QED
      BY <1>4, <3>1, <3>2, <3>3, <3>4, <3>5, <3>6, <3>7, <3>8, <3>9, <3>10, <3>11, <3>12, <3>13,
         <3>14, <3>15, <3>16 DEF Continue
  <2>8. /\ InProgress(c)' => Found(mreq[c])'
        /\ InStep(g)' \/ (InProgress(c)' /\ (Founding(mreq[c])' \/ Dissolving(mreq[c])'))
        /\ OnlyFounderOnBoth(g)' \/ (InProgress(c)' /\ Admitting(mreq[c])')
    <3>a. Blank # None /\ Blank \notin Peers /\ None \notin Peers
      BY MembershipAssumption
    <3> DEFINE Next_(at) == InProgress(c)' /\ mreq'[c].at = at
               Same == /\ group'[g] = group[g] /\ group_members'[g] = group_members[g]
                       /\ pending'[g] = pending[g] /\ founder'[g] = founder[g]
    <3>1. CASE CreateGroupInsert(c)
      <4>1. /\ mreq[c].at = "create_insert"
            /\ Next_("create_member") /\ group'[g] = IF group[g] = None THEN me ELSE group[g]
            /\ founder'[g] = IF group[g] = None THEN me ELSE founder[g]
            /\ group_members'[g] = group_members[g] /\ pending'[g] = pending[g]
        BY <2>1, <2>4, <3>1 DEF CreateGroupInsert, TypeOK, Requests, Goto, Finish, Start, Idle, InProgress, maps,
                                 AddTo, RemoveFrom, Touch
      <4> QED
        BY <2>3, <2>4, <2>6, <2>7, <3>a, <4>1
        DEF Found, Founding, Dissolving, Admitting, InStep, OnlyFounderOnBoth, JoinSteps, AcceptSteps,
            LeaveSteps
    <3>2. CASE CreateGroupMember(c)
      <4>1. /\ mreq[c].at = "create_member"
            /\ ~InProgress(c)' /\ group_members'[g] = group_members[g] \cup {me}
            /\ group'[g] = group[g] /\ pending'[g] = pending[g] /\ founder'[g] = founder[g]
        BY <2>1, <2>4, <3>2 DEF CreateGroupMember, TypeOK, Requests, Goto, Finish, Start, Idle, InProgress, maps,
                                 AddTo, RemoveFrom, Touch
      <4> QED
        BY <2>3, <2>4, <2>6, <2>7, <3>a, <4>1
        DEF Found, Founding, Dissolving, Admitting, InStep, OnlyFounderOnBoth, JoinSteps, AcceptSteps,
            LeaveSteps
    <3>3. CASE JoinGroupCount(c)
      <4>1. /\ mreq[c].at = "join_count"
            /\ ~InProgress(c)' \/ (Next_("join_insert") /\ me \notin group_members[g])
            /\ Same
        BY <2>1, <2>4, <3>3 DEF JoinGroupCount, TypeOK, Requests, Goto, Finish, Start, Idle, InProgress, maps,
                                 AddTo, RemoveFrom, Touch
      <4> QED
        BY <2>3, <2>4, <2>6, <2>7, <3>a, <4>1
        DEF Found, Founding, Dissolving, Admitting, InStep, OnlyFounderOnBoth, JoinSteps, AcceptSteps,
            LeaveSteps
    <3>4. CASE JoinGroupInsert(c)
      <4>1. /\ mreq[c].at = "join_insert"
            /\ ~InProgress(c)' /\ pending'[g] = pending[g] \cup {me}
            /\ group'[g] = group[g] /\ group_members'[g] = group_members[g] /\ founder'[g] = founder[g]
        BY <2>1, <2>4, <3>4 DEF JoinGroupInsert, TypeOK, Requests, Goto, Finish, Start, Idle, InProgress, maps,
                                 AddTo, RemoveFrom, Touch
      <4> QED
        BY <2>3, <2>4, <2>6, <2>7, <3>a, <4>1
        DEF Found, Founding, Dissolving, Admitting, InStep, OnlyFounderOnBoth, JoinSteps, AcceptSteps,
            LeaveSteps
    <3>5. CASE AcceptRequestFind(c)
      <4>1. /\ mreq[c].at = "accept_find"
            /\ ~InProgress(c)' \/ (Next_("accept_owner") /\ mreq'[c].peer = p /\ p \in pending[g])
            /\ Same
        BY <2>1, <2>4, <3>5 DEF AcceptRequestFind, TypeOK, Requests, Goto, Finish, Start, Idle, InProgress, maps,
                                 AddTo, RemoveFrom, Touch
      <4> QED
        BY <2>3, <2>4, <2>6, <2>7, <3>a, <4>1
        DEF Found, Founding, Dissolving, Admitting, InStep, OnlyFounderOnBoth, JoinSteps, AcceptSteps,
            LeaveSteps
    <3>6. CASE AcceptRequestOwner(c)
      <4>1. /\ mreq[c].at = "accept_owner"
            /\ ~InProgress(c)' \/ (Next_("accept_insert") /\ mreq'[c].peer = p /\ group[g] = me)
            /\ group'[g] = IF group[g] = None THEN Blank ELSE group[g]
            /\ group_members'[g] = group_members[g] /\ pending'[g] = pending[g] /\ founder'[g] = founder[g]
        BY <2>1, <2>4, <3>6 DEF AcceptRequestOwner, TypeOK, Requests, Goto, Finish, Start, Idle, InProgress, maps,
                                 AddTo, RemoveFrom, Touch
      <4> QED
        BY <2>3, <2>4, <2>6, <2>7, <3>a, <4>1
        DEF Found, Founding, Dissolving, Admitting, InStep, OnlyFounderOnBoth, JoinSteps, AcceptSteps,
            LeaveSteps
    <3>7. CASE AcceptRequestInsert(c)
      <4>1. /\ mreq[c].at = "accept_insert"
            /\ Next_("accept_erase") /\ mreq'[c].peer = p /\ group_members'[g] = group_members[g] \cup {p}
            /\ group'[g] = group[g] /\ pending'[g] = pending[g] /\ founder'[g] = founder[g]
        BY <2>1, <2>4, <3>7 DEF AcceptRequestInsert, TypeOK, Requests, Goto, Finish, Start, Idle, InProgress, maps,
                                 AddTo, RemoveFrom, Touch
      <4> QED
        BY <2>3, <2>4, <2>6, <2>7, <3>a, <4>1
        DEF Found, Founding, Dissolving, Admitting, InStep, OnlyFounderOnBoth, JoinSteps, AcceptSteps,
            LeaveSteps
    <3>8. CASE AcceptRequestErase(c)
      <4>1. /\ mreq[c].at = "accept_erase"
            /\ ~InProgress(c)' /\ pending'[g] = pending[g] \ {p}
            /\ group'[g] = group[g] /\ group_members'[g] = group_members[g] /\ founder'[g] = founder[g]
        BY <2>1, <2>4, <3>8 DEF AcceptRequestErase, TypeOK, Requests, Goto, Finish, Start, Idle, InProgress, maps,
                                 AddTo, RemoveFrom, Touch
      <4> QED
        BY <2>3, <2>4, <2>6, <2>7, <3>a, <4>1
        DEF Found, Founding, Dissolving, Admitting, InStep, OnlyFounderOnBoth, JoinSteps, AcceptSteps,
            LeaveSteps
    <3>9. CASE LeaveGroupFind(c)
      <4>1. /\ mreq[c].at = "leave_find"
            /\ ~InProgress(c)' \/ (Next_("leave_owner") /\ me \in group_members[g])
            /\ Same
        BY <2>1, <2>4, <3>9 DEF LeaveGroupFind, TypeOK, Requests, Goto, Finish, Start, Idle, InProgress, maps,
                                 AddTo, RemoveFrom, Touch
      <4> QED
        BY <2>3, <2>4, <2>6, <2>7, <3>a, <4>1
        DEF Found, Founding, Dissolving, Admitting, InStep, OnlyFounderOnBoth, JoinSteps, AcceptSteps,
            LeaveSteps
    <3>10. CASE LeaveGroupOwner(c)
      <4>1. /\ mreq[c].at = "leave_owner"
            /\ \/ Next_("leave_size") /\ group[g] = me
               \/ Next_("leave_erase") /\ group[g] # me
            /\ group'[g] = IF group[g] = None THEN Blank ELSE group[g]
            /\ group_members'[g] = group_members[g] /\ pending'[g] = pending[g] /\ founder'[g] = founder[g]
        BY <2>1, <2>4, <3>10 DEF LeaveGroupOwner, TypeOK, Requests, Goto, Finish, Start, Idle, InProgress, maps,
                                 AddTo, RemoveFrom, Touch
      <4> QED
        BY <2>3, <2>4, <2>6, <2>7, <3>a, <4>1
        DEF Found, Founding, Dissolving, Admitting, InStep, OnlyFounderOnBoth, JoinSteps, AcceptSteps,
            LeaveSteps
    <3>11. CASE LeaveGroupSize(c)
      <4>1. /\ mreq[c].at = "leave_size"
            /\ \/ Next_("leave_heir") /\ Several(group_members[g])
               \/ Next_("dissolve_group") /\ ~Several(group_members[g])
            /\ Same
        BY <2>1, <2>4, <3>11 DEF LeaveGroupSize, TypeOK, Requests, Goto, Finish, Start, Idle, InProgress, maps,
                                 AddTo, RemoveFrom, Touch
      <4> QED
        BY <2>3, <2>4, <2>6, <2>7, <3>a, <4>1
        DEF Found, Founding, Dissolving, Admitting, InStep, OnlyFounderOnBoth, JoinSteps, AcceptSteps,
            LeaveSteps, Several
    <3>12. CASE LeaveGroupHeir(c)
      <4>1. /\ mreq[c].at = "leave_heir"
            /\ \/ Next_("leave_appoint") /\ mreq'[c].peer \in group_members[g] \ {me}
               \/ group_members[g] \ {me} = {}
            /\ Same
        BY <2>1, <2>4, <3>12 DEF LeaveGroupHeir, TypeOK, Requests, Goto, Finish, Start, Idle, InProgress, maps,
                                 AddTo, RemoveFrom, Touch
      <4> QED
        BY <2>3, <2>4, <2>6, <2>7, <3>a, <4>1
        DEF Found, Founding, Dissolving, Admitting, InStep, OnlyFounderOnBoth, JoinSteps, AcceptSteps,
            LeaveSteps
    <3>13. CASE LeaveGroupAppoint(c)
      <4>1. /\ mreq[c].at = "leave_appoint"
            /\ Next_("leave_erase") /\ group'[g] = p
            /\ group_members'[g] = group_members[g] /\ pending'[g] = pending[g] /\ founder'[g] = founder[g]
        BY <2>1, <2>4, <3>13 DEF LeaveGroupAppoint, TypeOK, Requests, Goto, Finish, Start, Idle, InProgress, maps,
                                 AddTo, RemoveFrom, Touch
      <4> QED
        BY <2>3, <2>4, <2>6, <2>7, <3>a, <4>1
        DEF Found, Founding, Dissolving, Admitting, InStep, OnlyFounderOnBoth, JoinSteps, AcceptSteps,
            LeaveSteps
    <3>14. CASE LeaveGroupErase(c)
      <4>1. /\ mreq[c].at = "leave_erase"
            /\ ~InProgress(c)' /\ group_members'[g] = group_members[g] \ {me}
            /\ group'[g] = group[g] /\ pending'[g] = pending[g] /\ founder'[g] = founder[g]
        BY <2>1, <2>4, <3>14 DEF LeaveGroupErase, TypeOK, Requests, Goto, Finish, Start, Idle, InProgress, maps,
                                 AddTo, RemoveFrom, Touch
      <4> QED
        BY <2>3, <2>4, <2>6, <2>7, <3>a, <4>1
        DEF Found, Founding, Dissolving, Admitting, InStep, OnlyFounderOnBoth, JoinSteps, AcceptSteps,
            LeaveSteps
    <3>15. CASE DissolveGroup(c)
      <4>1. /\ mreq[c].at = "dissolve_group"
            /\ Next_("dissolve_members") /\ group'[g] = None
            /\ group_members'[g] = group_members[g] /\ pending'[g] = pending[g] /\ founder'[g] = founder[g]
        BY <2>1, <2>4, <3>15 DEF DissolveGroup, TypeOK, Requests, Goto, Finish, Start, Idle, InProgress, maps,
                                 AddTo, RemoveFrom, Touch
      <4> QED
        BY <2>3, <2>4, <2>6, <2>7, <3>a, <4>1
        DEF Found, Founding, Dissolving, Admitting, InStep, OnlyFounderOnBoth, JoinSteps, AcceptSteps,
            LeaveSteps
    <3>16. CASE DissolveMembers(c)
      <4>1. /\ mreq[c].at = "dissolve_members"
            /\ ~InProgress(c)' /\ group_members'[g] = {}
            /\ group'[g] = group[g] /\ pending'[g] = pending[g] /\ founder'[g] = founder[g]
        BY <2>1, <2>4, <3>16 DEF DissolveMembers, TypeOK, Requests, Goto, Finish, Start, Idle, InProgress, maps,
                                 AddTo, RemoveFrom, Touch
      <4> QED
        BY <2>3, <2>4, <2>6, <2>7, <3>a, <4>1
        DEF Found, Founding, Dissolving, Admitting, InStep, OnlyFounderOnBoth, JoinSteps, AcceptSteps,
            LeaveSteps
    <3> QED
      BY <1>4, <3>1, <3>2, <3>3, <3>4, <3>5, <3>6, <3>7, <3>8, <3>9, <3>10, <3>11, <3>12, <3>13,
         <3>14, <3>15, <3>16 DEF Continue
  <2>9. \A d \in Fds : InProgress(d)' => d = c /\ Found(mreq[d])'
    BY <2>3, <2>7, <2>8 DEF InProgress
  <2>10. MapsInStep' /\ FoundersOnBoth'
    <3>1. \A h \in Groups : h # g => InStep(h)' /\ OnlyFounderOnBoth(h)'
      BY <2>5, <2>7 DEF InStep, OnlyFounderOnBoth
    <3> QED
      BY <2>7, <2>8, <3>1 DEF MapsInStep, FoundersOnBoth
  <2> QED
    BY <2>9, <2>10 DEF AtMostOneInProgress, TestsStillHold
<1> QED
  BY <1>1, <1>2, <1>3, <1>4 DEF Next, Commands

\* SerialInv holds throughout.
LEMMA SerialInvHolds == Spec => []SerialInv
<1>1. Init => AtMostOneInProgress /\ TestsStillHold /\ MapsInStep /\ FoundersOnBoth
  BY DEF Init, AtMostOneInProgress, TestsStillHold, MapsInStep, FoundersOnBoth, InProgress,
         InStep, OnlyFounderOnBoth
<1>2. Init /\ TypeOK => SerialInv
  BY <1>1 DEF SerialInv
<1> QED
  BY <1>2, MembershipTypeOK, SerialInvStep, PTL DEF Spec

\* Between two requests, until two overlap, an existing group is owned by one
\* of its members and a group that does not exist has none.
THEOREM OwnersAreMembers == Spec => []OwnerIsMember
<1>1. SerialInv => OwnerIsMember
  BY DEF SerialInv, MapsInStep, OwnerIsMember, Busy
<1> QED
  BY <1>1, SerialInvHolds, PTL

\* Between two requests, until two overlap, only the founder of a group can be
\* a member of it and waiting for it at once.
THEOREM OnlyFoundersAreDoublyListed == Spec => []OnlyFounderDoublyListed
<1>1. SerialInv => OnlyFounderDoublyListed
  BY DEF SerialInv, FoundersOnBoth, OnlyFounderDoublyListed, Busy
<1> QED
  BY <1>1, SerialInvHolds, PTL

-----------------------------------------------------------------------------
\* Which handlers write which map: every other step leaves it alone.
LEMMA Writers ==
  ASSUME [Next]_vars
  PROVE  /\ \/ Restart \/ UNCHANGED group
            \/ \E c \in Fds : \/ CreateGroupInsert(c) \/ AcceptRequestOwner(c)
                              \/ LeaveGroupOwner(c) \/ LeaveGroupAppoint(c) \/ DissolveGroup(c)
         /\ \/ Restart \/ UNCHANGED pending
            \/ \E c \in Fds : JoinGroupInsert(c) \/ AcceptRequestErase(c)
         /\ \/ Restart \/ UNCHANGED group_members
            \/ \E c \in Fds : \/ CreateGroupMember(c) \/ AcceptRequestInsert(c)
                              \/ LeaveGroupErase(c) \/ DissolveMembers(c)
<1>1. CASE UNCHANGED vars
  BY <1>1 DEF vars, maps
<1>2. ASSUME NEW c \in Fds, NEW me \in Peers, Commands(c, me)
      PROVE  UNCHANGED maps
  BY <1>2, CommandKeeps DEF Commands
<1>3. ASSUME NEW c \in Fds, Continue(c)
      PROVE  /\ \/ UNCHANGED group
                \/ CreateGroupInsert(c) \/ AcceptRequestOwner(c)
                \/ LeaveGroupOwner(c) \/ LeaveGroupAppoint(c) \/ DissolveGroup(c)
             /\ UNCHANGED pending \/ JoinGroupInsert(c) \/ AcceptRequestErase(c)
             /\ \/ UNCHANGED group_members
                \/ CreateGroupMember(c) \/ AcceptRequestInsert(c)
                \/ LeaveGroupErase(c) \/ DissolveMembers(c)
  <2>1. CreateGroupInsert(c) => UNCHANGED <<pending, group_members>>
    BY DEF CreateGroupInsert, maps
  <2>2. CreateGroupMember(c) => UNCHANGED <<group, pending>>
    BY DEF CreateGroupMember, maps
  <2>3. JoinGroupCount(c) => UNCHANGED <<group, pending, group_members>>
    BY DEF JoinGroupCount, maps
  <2>4. JoinGroupInsert(c) => UNCHANGED <<group, group_members>>
    BY DEF JoinGroupInsert, maps
  <2>5. AcceptRequestFind(c) => UNCHANGED <<group, pending, group_members>>
    BY DEF AcceptRequestFind, maps
  <2>6. AcceptRequestOwner(c) => UNCHANGED <<pending, group_members>>
    BY DEF AcceptRequestOwner, maps
  <2>7. AcceptRequestInsert(c) => UNCHANGED <<group, pending>>
    BY DEF AcceptRequestInsert, maps
  <2>8. AcceptRequestErase(c) => UNCHANGED <<group, group_members>>
    BY DEF AcceptRequestErase, maps
  <2>9. LeaveGroupFind(c) => UNCHANGED <<group, pending, group_members>>
    BY DEF LeaveGroupFind, maps
  <2>10. LeaveGroupOwner(c) => UNCHANGED <<pending, group_members>>
    BY DEF LeaveGroupOwner, maps
  <2>11. LeaveGroupSize(c) => UNCHANGED <<group, pending, group_members>>
    BY DEF LeaveGroupSize, maps
  <2>12. LeaveGroupHeir(c) => UNCHANGED <<group, pending, group_members>>
    BY DEF LeaveGroupHeir, maps
  <2>13. LeaveGroupAppoint(c) => UNCHANGED <<pending, group_members>>
    BY DEF LeaveGroupAppoint, maps
  <2>14. LeaveGroupErase(c) => UNCHANGED <<group, pending>>
    BY DEF LeaveGroupErase, maps
  <2>15. DissolveGroup(c) => UNCHANGED <<pending, group_members>>
    BY DEF DissolveGroup, maps
  <2>16. DissolveMembers(c) => UNCHANGED <<group, pending>>
    BY DEF DissolveMembers, maps
  <2> QED
    BY <1>3, <2>1, <2>2, <2>3, <2>4, <2>5, <2>6, <2>7, <2>8, <2>9, <2>10, <2>11, <2>12, <2>13, <2>14,
       <2>15, <2>16 DEF Continue
<1> QED
  BY <1>1, <1>2, <1>3 DEF Next, maps

\* Until two requests overlap, a request to join disappears only when its
\* sender is a member, or with the process.
THEOREM RequestsAreKept == Spec => RequestsKept
<1> DEFINE A == \/ overlapped
                \/ \A g \in Groups : pending[g] \ pending'[g] \subseteq group_members[g]
                \/ Restarted
<1>1. ASSUME SerialInv, [Next]_vars
      PROVE  A
  <2>1. CASE Restart
    BY <2>1 DEF Restart, Restarted
  <2>2. CASE UNCHANGED pending
    BY <2>2
  <2>3. ASSUME NEW c \in Fds, JoinGroupInsert(c)
        PROVE  A
    BY <1>1, <2>3 DEF JoinGroupInsert, AddTo, SerialInv, TypeOK
  <2>4. ASSUME NEW c \in Fds, AcceptRequestErase(c), ~overlapped
        PROVE  A
    <3>1. mreq[c] \in Requests /\ InProgress(c) /\ Admitting(mreq[c])
      BY <1>1, <2>4 DEF AcceptRequestErase, SerialInv, TypeOK, Idle, InProgress, Admitting
    <3>2. mreq[c].peer \in group_members[mreq[c].g]
      BY <1>1, <2>4, <3>1 DEF SerialInv, TestsStillHold, Found
    <3> QED
      BY <1>1, <2>4, <3>1, <3>2 DEF AcceptRequestErase, RemoveFrom, SerialInv, TypeOK, Requests
  <2> QED
    BY <1>1, <2>1, <2>2, <2>3, <2>4, Writers
<1> QED
  BY <1>1, SerialInvHolds, PTL DEF Spec, RequestsKept

\* Ownership of an existing group passes only by a departure, on every
\* schedule, and to a member of the moment until two requests overlap.
THEOREM OwnershipGoesToMember == Spec => OwnershipToMember
<1> DEFINE A == \A g \in Groups :
                  group[g] # None /\ group'[g] \notin {group[g], None} =>
                    /\ \E c \in Fds : /\ mreq[c].at = "leave_appoint"
                                      /\ mreq[c].g = g
                                      /\ mreq[c].peer = group'[g]
                    /\ overlapped \/ group'[g] \in group_members[g]
<1>1. ASSUME SerialInv, [Next]_vars
      PROVE  A
  <2>1. CASE Restart
    BY <2>1 DEF Restart
  <2>2. CASE UNCHANGED group
    BY <2>2
  <2>3. ASSUME NEW c \in Fds, CreateGroupInsert(c)
        PROVE  A
    BY <1>1, <2>3 DEF CreateGroupInsert, SerialInv, TypeOK
  <2>4. ASSUME NEW c \in Fds, AcceptRequestOwner(c) \/ LeaveGroupOwner(c)
        PROVE  A
    BY <1>1, <2>4 DEF AcceptRequestOwner, LeaveGroupOwner, Touch, SerialInv, TypeOK
  <2>5. ASSUME NEW c \in Fds, DissolveGroup(c)
        PROVE  A
    BY <1>1, <2>5 DEF DissolveGroup, SerialInv, TypeOK
  <2>6. ASSUME NEW c \in Fds, LeaveGroupAppoint(c)
        PROVE  A
    <3>1. mreq[c] \in Requests /\ InProgress(c) /\ mreq[c].at = "leave_appoint"
      BY <1>1, <2>6 DEF LeaveGroupAppoint, SerialInv, TypeOK, Idle, InProgress
    <3>2. overlapped \/ mreq[c].peer \in group_members[mreq[c].g]
      BY <1>1, <3>1 DEF SerialInv, TestsStillHold, Found
    <3> QED
      BY <1>1, <2>6, <3>1, <3>2 DEF LeaveGroupAppoint, SerialInv, TypeOK, Requests
  <2> QED
    BY <1>1, <2>1, <2>2, <2>3, <2>4, <2>5, <2>6, Writers
<1> QED
  BY <1>1, SerialInvHolds, PTL DEF Spec, OwnershipToMember

\* Until two requests overlap, a peer gets into a group only by founding it
\* or by being accepted, on its own request, by the owner of the moment.
THEOREM MembersAreAdmitted == Spec => MembersAdmitted
<1> DEFINE A == ~overlapped => \A g \in Groups : \A p \in group_members'[g] \ group_members[g] :
                  \/ group_members[g] = {} /\ group[g] = p
                  \/ /\ p \in pending[g]
                     /\ \E c \in Fds : /\ mreq[c].at = "accept_insert"
                                       /\ mreq[c].me = group[g]
                                       /\ mreq[c].peer = p
<1>1. ASSUME SerialInv, [Next]_vars
      PROVE  A
  <2>1. CASE Restart
    BY <2>1 DEF Restart
  <2>2. CASE UNCHANGED group_members
    BY <2>2
  <2>3. ASSUME NEW c \in Fds, CreateGroupMember(c) \/ AcceptRequestInsert(c), ~overlapped
        PROVE  A
    <3>1. mreq[c] \in Requests /\ InProgress(c)
      BY <1>1, <2>3 DEF CreateGroupMember, AcceptRequestInsert, SerialInv, TypeOK, Idle, InProgress
    <3>2. Found(mreq[c])
      BY <1>1, <2>3, <3>1 DEF SerialInv, TestsStillHold
    <3> QED
      BY <1>1, <2>3, <3>1, <3>2 DEF CreateGroupMember, AcceptRequestInsert, Found, Founding, AddTo,
                                    SerialInv, TypeOK, Requests
  <2>4. ASSUME NEW c \in Fds, LeaveGroupErase(c) \/ DissolveMembers(c)
        PROVE  A
    BY <1>1, <2>4 DEF LeaveGroupErase, DissolveMembers, RemoveFrom, SerialInv, TypeOK
  <2> QED
    BY <1>1, <2>1, <2>2, <2>3, <2>4, Writers
<1> QED
  BY <1>1, SerialInvHolds, PTL DEF Spec, MembersAdmitted
=============================================================================
