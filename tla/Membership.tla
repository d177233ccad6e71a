----------------------------- MODULE Membership -----------------------------
(***************************************************************************)
(* Groups of the tracker: ownership, members and pending requests          *)
(* (create_group, join_group, accept_request and leave_group of            *)
(* src/src/helper_tracker.cpp, shared maps group, group_members, pending). *)
(*                                                                         *)
(* Each handler runs on the thread of a connection, on behalf of the peer  *)
(* logged in there ("me" below; module Tracker says which peer that is).   *)
(* The threads hold no lock, so a step is one visit to one entry of one of *)
(* the maps; the steps of different connections interleave.  What is       *)
(* promised only until two requests overlap is stated under ~overlapped.   *)
(***************************************************************************)
CONSTANTS
  Fds,      \* descriptors of client connections
  Peers,    \* peer ids
  Groups,   \* group ids
  None,     \* "no such key"
  Blank     \* "", the owner operator[] gives a group that is not there

ASSUME MembershipAssumption == Blank # None /\ {Blank, None} \cap Peers = {}

VARIABLES
  group,          \* group id -> owner; None when the map has no such key
  group_members,  \* group id -> peers
  pending,        \* group id -> peers waiting to be accepted
  founder,        \* history: the peer whose create_group made the group
  asked,          \* history: the peers that asked to found or to join the group
  mreq,           \* descriptor -> where its thread is in which request
  overlapped      \* history: has a request started while another was in progress?

maps == <<group, group_members, pending>>
vars == <<maps, founder, asked, mreq, overlapped>>

\* What a thread does next, named after the visit to come.
CreateSteps == {"create_insert", "create_member"}
JoinSteps   == {"join_count", "join_insert"}
AcceptSteps == {"accept_find", "accept_owner", "accept_insert", "accept_erase"}
LeaveSteps  == {"leave_find", "leave_owner", "leave_size", "leave_heir", "leave_appoint",
                "leave_erase", "dissolve_group", "dissolve_members"}

Idle == [at |-> "idle"]
\* "peer" is the peer to accept, or the heir once there is one; me otherwise.
Requests == [at : CreateSteps \cup JoinSteps \cup AcceptSteps \cup LeaveSteps,
             me : Peers, g : Groups, peer : Peers]

InProgress(c) == mreq[c] # Idle

\* A request is taken up; history notes whether another one is under way.
Begin == overlapped' = IF \E d \in Fds : InProgress(d) THEN TRUE ELSE overlapped

\* The thread of c takes its next command.
Command(c) == mreq[c] = Idle /\ Begin

Start(c, at, me, g, p) ==
  mreq' = [mreq EXCEPT ![c] = [at |-> at, me |-> me, g |-> g, peer |-> p]]
Goto(c, at) == mreq' = [mreq EXCEPT ![c].at = at]
Finish(c)   == mreq' = [mreq EXCEPT ![c] = Idle]

\* set::insert and set::erase on one entry of a map of sets.
AddTo(map, key, elem)      == [map EXCEPT ![key] = @ \cup {elem}]
RemoveFrom(map, key, elem) == [map EXCEPT ![key] = @ \ {elem}]

Several(set) == \E p, q \in set : p # q

\* group[g] on the right of a comparison: operator[] inserts an empty owner
\* when another thread has erased the group.
Touch(g) == group' = [group EXCEPT ![g] = IF @ = None THEN Blank ELSE @]

Init ==
  /\ group = [g \in Groups |-> None]
  /\ group_members = [g \in Groups |-> {}]
  /\ pending = [g \in Groups |-> {}]
  /\ founder = [g \in Groups |-> None]
  /\ asked = [g \in Groups |-> {}]
  /\ mreq = [c \in Fds |-> Idle]
  /\ overlapped = FALSE

(***************************************************************************)
(* create_group                                                            *)
(***************************************************************************)
CreateGroup(c, me, g) ==
  /\ Command(c)
  /\ group[g] = None
  /\ asked' = AddTo(asked, g, me)
  /\ Start(c, "create_insert", me, g, me)
  /\ UNCHANGED <<maps, founder>>

\* The slip of writing group[name] = owner for group.insert({name, owner}).
CreateGroupAssign(c) ==
  /\ mreq[c].at = "create_insert"
  /\ group' = [group EXCEPT ![mreq[c].g] = mreq[c].me]
  /\ founder' = [founder EXCEPT ![mreq[c].g] = mreq[c].me]
  /\ Goto(c, "create_member")
  /\ UNCHANGED <<group_members, pending, asked, overlapped>>

\* group.insert keeps an owner stored in the meantime.
CreateGroupInsert(c) ==
  /\ mreq[c].at = "create_insert"
  /\ LET r == mreq[c] IN
       /\ group' = [group EXCEPT ![r.g] = IF @ = None THEN r.me ELSE @]
       /\ founder' = [founder EXCEPT ![r.g] = IF group[r.g] = None THEN r.me ELSE @]
  /\ Goto(c, "create_member")
  /\ UNCHANGED <<group_members, pending, asked, overlapped>>

\* The member is added whether or not the group is its own.
CreateGroupMember(c) ==
  /\ mreq[c].at = "create_member"
  /\ group_members' = AddTo(group_members, mreq[c].g, mreq[c].me)
  /\ Finish(c)
  /\ UNCHANGED <<group, pending, founder, asked, overlapped>>

(***************************************************************************)
(* join_group                                                              *)
(***************************************************************************)
JoinGroup(c, me, g) ==
  /\ Command(c)
  /\ group[g] # None
  /\ asked' = AddTo(asked, g, me)
  /\ Start(c, "join_count", me, g, me)
  /\ UNCHANGED <<maps, founder>>

\* join_group without the test that turns a member away.
JoinGroupUncounted(c) ==
  /\ mreq[c].at = "join_count"
  /\ Goto(c, "join_insert")
  /\ UNCHANGED <<maps, founder, asked, overlapped>>

JoinGroupCount(c) ==
  /\ mreq[c].at = "join_count"
  /\ \/ mreq[c].me \in group_members[mreq[c].g] /\ Finish(c)
     \/ mreq[c].me \notin group_members[mreq[c].g] /\ Goto(c, "join_insert")
  /\ UNCHANGED <<maps, founder, asked, overlapped>>

JoinGroupInsert(c) ==
  /\ mreq[c].at = "join_insert"
  /\ pending' = AddTo(pending, mreq[c].g, mreq[c].me)
  /\ Finish(c)
  /\ UNCHANGED <<group, group_members, founder, asked, overlapped>>

(***************************************************************************)
(* accept_request                                                          *)
(***************************************************************************)
AcceptRequest(c, me, g, p) ==
  /\ Command(c)
  /\ group[g] # None
  /\ Start(c, "accept_find", me, g, p)
  /\ UNCHANGED <<maps, founder, asked>>

\* accept_request without the look-up in pending.
AcceptAnyone(c) ==
  /\ mreq[c].at = "accept_find"
  /\ Goto(c, "accept_owner")
  /\ UNCHANGED <<maps, founder, asked, overlapped>>

AcceptRequestFind(c) ==
  /\ mreq[c].at = "accept_find"
  /\ \/ mreq[c].peer \in pending[mreq[c].g] /\ Goto(c, "accept_owner")
     \/ mreq[c].peer \notin pending[mreq[c].g] /\ Finish(c)
  /\ UNCHANGED <<maps, founder, asked, overlapped>>

AcceptRequestOwner(c) ==
  /\ mreq[c].at = "accept_owner"
  /\ Touch(mreq[c].g)
  /\ \/ group[mreq[c].g] = mreq[c].me /\ Goto(c, "accept_insert")
     \/ group[mreq[c].g] # mreq[c].me /\ Finish(c)
  /\ UNCHANGED <<group_members, pending, founder, asked, overlapped>>

\* The group where the peer belongs.
AcceptRequestInsertGroup(c) ==
  /\ mreq[c].at = "accept_insert"
  /\ group_members' = AddTo(group_members, mreq[c].g, mreq[c].g)
  /\ Goto(c, "accept_erase")
  /\ UNCHANGED <<group, pending, founder, asked, overlapped>>

AcceptRequestInsert(c) ==
  /\ mreq[c].at = "accept_insert"
  /\ group_members' = AddTo(group_members, mreq[c].g, mreq[c].peer)
  /\ Goto(c, "accept_erase")
  /\ UNCHANGED <<group, pending, founder, asked, overlapped>>

\* pending.erase(group_name) instead of pending[group_name].erase(peer_name).
AcceptRequestDropAll(c) ==
  /\ mreq[c].at = "accept_erase"
  /\ pending' = [pending EXCEPT ![mreq[c].g] = {}]
  /\ Finish(c)
  /\ UNCHANGED <<group, group_members, founder, asked, overlapped>>

AcceptRequestErase(c) ==
  /\ mreq[c].at = "accept_erase"
  /\ pending' = RemoveFrom(pending, mreq[c].g, mreq[c].peer)
  /\ Finish(c)
  /\ UNCHANGED <<group, group_members, founder, asked, overlapped>>

(***************************************************************************)
(* leave_group                                                             *)
(***************************************************************************)
LeaveGroup(c, me, g) ==
  /\ Command(c)
  /\ group[g] # None
  /\ Start(c, "leave_find", me, g, me)
  /\ UNCHANGED <<maps, founder, asked>>

LeaveGroupFind(c) ==
  /\ mreq[c].at = "leave_find"
  /\ \/ mreq[c].me \in group_members[mreq[c].g] /\ Goto(c, "leave_owner")
     \/ mreq[c].me \notin group_members[mreq[c].g] /\ Finish(c)
  /\ UNCHANGED <<maps, founder, asked, overlapped>>

LeaveGroupOwner(c) ==
  /\ mreq[c].at = "leave_owner"
  /\ Touch(mreq[c].g)
  /\ \/ group[mreq[c].g] = mreq[c].me /\ Goto(c, "leave_size")
     \/ group[mreq[c].g] # mreq[c].me /\ Goto(c, "leave_erase")
  /\ UNCHANGED <<group_members, pending, founder, asked, overlapped>>

\* size() >= 1 for size() > 1.
LeaveGroupSizeOne(c) ==
  /\ mreq[c].at = "leave_size"
  /\ \/ group_members[mreq[c].g] # {} /\ Goto(c, "leave_heir")
     \/ group_members[mreq[c].g] = {} /\ Goto(c, "dissolve_group")
  /\ UNCHANGED <<maps, founder, asked, overlapped>>

\* size() > 1
LeaveGroupSize(c) ==
  /\ mreq[c].at = "leave_size"
  /\ \/ Several(group_members[mreq[c].g]) /\ Goto(c, "leave_heir")
     \/ ~Several(group_members[mreq[c].g]) /\ Goto(c, "dissolve_group")
  /\ UNCHANGED <<maps, founder, asked, overlapped>>

\* The heir is the first other member in the set's order; which one that is
\* does not matter here.  When the loop finds no other member the owner
\* stays as it was.
LeaveGroupHeir(c) ==
  /\ mreq[c].at = "leave_heir"
  /\ LET r == mreq[c]
         others == group_members[r.g] \ {r.me}
     IN \/ \E heir \in others : Start(c, "leave_appoint", r.me, r.g, heir)
        \/ others = {} /\ Goto(c, "leave_erase")
  /\ UNCHANGED <<maps, founder, asked, overlapped>>

\* group[g] = heir, even if the group is gone by now.
LeaveGroupAppoint(c) ==
  /\ mreq[c].at = "leave_appoint"
  /\ group' = [group EXCEPT ![mreq[c].g] = mreq[c].peer]
  /\ Goto(c, "leave_erase")
  /\ UNCHANGED <<group_members, pending, founder, asked, overlapped>>

LeaveGroupErase(c) ==
  /\ mreq[c].at = "leave_erase"
  /\ group_members' = RemoveFrom(group_members, mreq[c].g, mreq[c].me)
  /\ Finish(c)
  /\ UNCHANGED <<group, pending, founder, asked, overlapped>>

\* Pending requests and shared files of a dissolved group are not erased.
DissolveGroup(c) ==
  /\ mreq[c].at = "dissolve_group"
  /\ group' = [group EXCEPT ![mreq[c].g] = None]
  /\ Goto(c, "dissolve_members")
  /\ UNCHANGED <<group_members, pending, founder, asked, overlapped>>

DissolveMembers(c) ==
  /\ mreq[c].at = "dissolve_members"
  /\ group_members' = [group_members EXCEPT ![mreq[c].g] = {}]
  /\ Finish(c)
  /\ UNCHANGED <<group, pending, founder, asked, overlapped>>

\* The tracker process ends and is started again, with empty maps.
Restart ==
  /\ group' = [g \in Groups |-> None]
  /\ group_members' = [g \in Groups |-> {}]
  /\ pending' = [g \in Groups |-> {}]
  /\ founder' = [g \in Groups |-> None]
  /\ asked' = [g \in Groups |-> {}]
  /\ mreq' = [c \in Fds |-> Idle]
  /\ overlapped' = FALSE

\* The commands the peer "me" can give on the connection of c.
Commands(c, me) ==
  \E g \in Groups :
    \/ CreateGroup(c, me, g)
    \/ JoinGroup(c, me, g)
    \/ LeaveGroup(c, me, g)
    \/ \E p \in Peers : AcceptRequest(c, me, g, p)

\* The thread of c goes on with its request.
Continue(c) ==
  \/ CreateGroupInsert(c) \/ CreateGroupMember(c)
  \/ JoinGroupCount(c) \/ JoinGroupInsert(c)
  \/ AcceptRequestFind(c) \/ AcceptRequestOwner(c)
  \/ AcceptRequestInsert(c) \/ AcceptRequestErase(c)
  \/ LeaveGroupFind(c) \/ LeaveGroupOwner(c) \/ LeaveGroupSize(c) \/ LeaveGroupHeir(c)
  \/ LeaveGroupAppoint(c) \/ LeaveGroupErase(c)
  \/ DissolveGroup(c) \/ DissolveMembers(c)

Next ==
  \/ Restart
  \/ \E c \in Fds :
       \/ \E me \in Peers : Commands(c, me)
       \/ Continue(c)

Spec == Init /\ [][Next]_vars

-----------------------------------------------------------------------------
TypeOK ==
  /\ group \in [Groups -> Peers \cup {None, Blank}]
  /\ group_members \in [Groups -> SUBSET Peers]
  /\ pending \in [Groups -> SUBSET Peers]
  /\ founder \in [Groups -> Peers \cup {None}]
  /\ asked \in [Groups -> SUBSET Peers]
  /\ mreq \in [Fds -> Requests \cup {Idle}]
  /\ overlapped \in BOOLEAN

\* A handler is between two visits to the entries of g.
Busy(g) == \E c \in Fds : InProgress(c) /\ mreq[c].g = g

\* The owner of a group that exists is a member of it, and a group that does
\* not exist has none.
InStep(g) ==
  /\ group[g] = None => group_members[g] = {}
  /\ group[g] # None => group[g] \in group_members[g]

OnlyFounderOnBoth(g) == pending[g] \cap group_members[g] \subseteq {founder[g]}

\* The maps group and group_members agree between two requests: a group that
\* exists is owned by one of its members, so somebody can always accept
\* requests and hand it on, and a group that does not exist has no members
\* left over.  It has to survive owners leaving, ownership passing on and
\* groups being dissolved and created again; it holds until two requests
\* overlap.
OwnerIsMember == ~overlapped => \A g \in Groups : Busy(g) \/ InStep(g)

\* A peer is both a member and waiting to become one only if it founded the
\* group: its request to an earlier group of that name outlived the group.
\* No other sequence of joins, acceptances and departures gets a peer on
\* both lists, until two requests overlap.
OnlyFounderDoublyListed == ~overlapped => \A g \in Groups : Busy(g) \/ OnlyFounderOnBoth(g)

\* The only ways into a group: found it, or be accepted on one's own request
\* by the peer that owns the group at that very moment; until two requests
\* overlap.  After that an owner that has just left can still complete its
\* acceptance.
MembersAdmitted ==
  [][~overlapped => \A g \in Groups : \A p \in group_members'[g] \ group_members[g] :
       \/ group_members[g] = {} /\ group[g] = p
       \/ /\ p \in pending[g]
          /\ \E c \in Fds : /\ mreq[c].at = "accept_insert"
                            /\ mreq[c].me = group[g]
                            /\ mreq[c].peer = p]_vars

\* Nobody is put in a group without having asked, even when handlers overlap:
\* whoever is a member, waits to become one or owns the group has given
\* create_group or join_group for a group of that name.
NobodyUnasked ==
  \A g \in Groups :
    group_members[g] \cup pending[g] \cup ({group[g]} \ {None, Blank}) \subseteq asked[g]

Restarted == asked' = [g \in Groups |-> {}]

\* A request to join is never lost: whatever else happens to the group (its
\* owner leaves, it is dissolved and created again, somebody else is
\* accepted), it disappears only when its sender is a member, or with the
\* process; until two requests overlap.  After that the sender can leave and
\* ask again between the two writes of accept_request, and the second one
\* takes the new request away.
RequestsKept ==
  [][\/ overlapped
     \/ \A g \in Groups : pending[g] \ pending'[g] \subseteq group_members[g]
     \/ Restarted]_vars

\* Ownership of an existing group passes only by an owner's departure, on
\* every schedule: two simultaneous create_group do not depose each other.
\* And it passes to a peer that is a member at that moment, until two
\* requests overlap; after that the heir can leave, or the group be
\* dissolved, between the choice and the appointment.
OwnershipToMember ==
  [][\A g \in Groups :
       group[g] # None /\ group'[g] \notin {group[g], None} =>
         /\ \E c \in Fds : /\ mreq[c].at = "leave_appoint"
                           /\ mreq[c].g = g
                           /\ mreq[c].peer = group'[g]
         /\ overlapped \/ group'[g] \in group_members[g]]_vars

(***************************************************************************)
(* Strengthening used by the proofs.  Until two requests overlap, what the *)
(* tests of the request in progress found still holds at its next visit.   *)
(***************************************************************************)
AtMostOneInProgress ==
  ~overlapped => \A c, d \in Fds : InProgress(c) /\ InProgress(d) => c = d

\* The two requests that put the maps out of step for a while, and the one
\* that lists the accepted peer twice for a while.
Founding(r)   == r.at = "create_member"
Dissolving(r) == r.at = "dissolve_members"
Admitting(r)  == r.at = "accept_erase"

Found(r) ==
  /\ r.at = "create_insert" => group[r.g] = None
  /\ Founding(r) => group[r.g] = r.me /\ group_members[r.g] = {} /\ founder[r.g] = r.me
  /\ r.at = "join_insert" => r.me \notin group_members[r.g]
  /\ r.at \in JoinSteps \cup AcceptSteps => group[r.g] # None
  /\ r.at \in {"accept_owner", "accept_insert"} => r.peer \in pending[r.g]
  /\ r.at = "accept_insert" => group[r.g] = r.me
  /\ Admitting(r) =>
       /\ r.peer \in group_members[r.g]
       /\ pending[r.g] \cap group_members[r.g] \subseteq {founder[r.g], r.peer}
  /\ r.at \in LeaveSteps \ {"dissolve_members"} => group[r.g] # None
  /\ r.at = "leave_owner" => r.me \in group_members[r.g]
  /\ r.at \in {"leave_size", "leave_heir", "leave_appoint", "dissolve_group"} =>
       group[r.g] = r.me /\ r.me \in group_members[r.g]
  /\ r.at = "leave_heir" => \E p \in group_members[r.g] : p # r.me
  /\ r.at = "leave_appoint" => r.peer \in group_members[r.g] /\ r.peer # r.me
  /\ r.at = "leave_erase" => group[r.g] # r.me
  /\ r.at = "dissolve_group" => group_members[r.g] = {r.me}
  /\ Dissolving(r) => group[r.g] = None /\ group_members[r.g] = {r.me}

TestsStillHold == ~overlapped => \A c \in Fds : InProgress(c) => Found(mreq[c])

MapsInStep ==
  ~overlapped => \A g \in Groups :
    \/ InStep(g)
    \/ \E c \in Fds : InProgress(c) /\ mreq[c].g = g /\ (Founding(mreq[c]) \/ Dissolving(mreq[c]))

FoundersOnBoth ==
  ~overlapped => \A g \in Groups :
    \/ OnlyFounderOnBoth(g)
    \/ \E c \in Fds : InProgress(c) /\ mreq[c].g = g /\ Admitting(mreq[c])

SerialInv ==
  /\ TypeOK
  /\ AtMostOneInProgress
  /\ TestsStillHold
  /\ MapsInStep
  /\ FoundersOnBoth

\* On every schedule: whoever a request in progress will enter has asked.
AskedInv ==
  /\ NobodyUnasked
  /\ \A c \in Fds :
       /\ mreq[c].at \in CreateSteps \cup JoinSteps => mreq[c].me \in asked[mreq[c].g]
       /\ mreq[c].at \in {"accept_owner", "accept_insert", "leave_appoint"} =>
            mreq[c].peer \in asked[mreq[c].g]
=============================================================================
