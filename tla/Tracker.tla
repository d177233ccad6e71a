------------------------------ MODULE Tracker ------------------------------
(***************************************************************************)
(* The whole tracker process: connections and sessions (module Accounts),  *)
(* groups (Membership) and the file catalogue (Sharing) as the dispatch of *)
(* handleClient in src/src/helper_tracker.cpp puts them together.  Every   *)
(* handler but create_peer and login is reached only on a descriptor that  *)
(* logmap knows, and acts for the peer found there; upload_file takes the  *)
(* endpoint from listenmap, and upload_file, download_file and stop_share  *)
(* consult group and group_members before they come to the files.          *)
(*                                                                         *)
(* The threads of the connections hold no lock: between any two visits of  *)
(* one to the maps the others go on with whatever they are at.             *)
(***************************************************************************)
EXTENDS Sequences, Naturals

CONSTANTS Fds, Peers, Passwords, Endpoints, Groups, Files, Numbers, Versions,
          None, Blank, MaxPieces

VARIABLES
  open, listenmap, user, loggedIn, logmap, areq, account_overlap,
  group, group_members, pending, founder, asked, mreq, group_overlap,
  group_file, file_pieces, filedetails, downloads, sreq, file_overlap,
  freq,            \* descriptor -> where its thread is in the tests that come
                   \* before a request about files
  overlapped       \* history: has a command been taken up while any handler was
                   \* in progress?  (The parts' own notes are about their handlers.)

accountVars == <<open, listenmap, user, loggedIn, logmap, areq, account_overlap>>
groupVars   == <<group, group_members, pending, founder, asked, mreq, group_overlap>>
fileVars    == <<group_file, file_pieces, filedetails, downloads, sreq, file_overlap>>
vars        == <<accountVars, groupVars, fileVars, freq, overlapped>>

Accounts   == INSTANCE Accounts   WITH overlapped <- account_overlap
Membership == INSTANCE Membership WITH overlapped <- group_overlap
Sharing    == INSTANCE Sharing    WITH overlapped <- file_overlap

ASSUME TrackerAssumption ==
  /\ None \notin Passwords \cup Versions \cup Endpoints
                 \cup Sharing!Credit \cup Seq(Sharing!Pieces)
  /\ Blank # None /\ {Blank, None} \cap Peers = {}
  /\ MaxPieces \in Nat

Untested == [at |-> "idle"]
Tests    == [at : {"test_member", "test_file"},
             op : {"upload_file", "download_file", "stop_share"}, g : Groups]

Init ==
  /\ Accounts!Init /\ Membership!Init /\ Sharing!Init
  /\ freq = [c \in Fds |-> Untested]
  /\ overlapped = FALSE

\* The thread of c is in the middle of a handler.
Handling(c) ==
  \/ Accounts!InProgress(c)
  \/ Membership!InProgress(c)
  \/ Sharing!InProgress(c)
  \/ freq[c] # Untested

\* A command is taken up; history notes whether any other is under way.
Begin == overlapped' = IF \E d \in Fds : Handling(d) THEN TRUE ELSE overlapped

\* The thread of c is at its recv() and takes a command.
Commanded(c) == c \in open /\ areq[c] = Accounts!Idle /\ ~Handling(c) /\ Begin

\* The dispatch: a command that needs a session, and has one.
AsPeer(c) == Commanded(c) /\ logmap[c] # None

\* accept, the first message and the disconnection.
Connection(c) ==
  /\ \/ Accounts!Accept(c)
     \/ \E e \in Endpoints : Accounts!Announce(c, e)
     \/ Accounts!HelloLost(c)
     \/ ~Handling(c) /\ Accounts!Disconnect(c)
  /\ UNCHANGED overlapped

AccountCommand(c) ==
  \/ /\ Commanded(c)
     /\ \E p \in Peers, w \in Passwords :
          Accounts!CreatePeer(c, p, w) \/ Accounts!Login(c, p, w)
  \/ AsPeer(c) /\ Accounts!Logout(c)
  \/ (Accounts!CreatePeerInsert(c) \/ Accounts!LoginInsert(c)) /\ UNCHANGED overlapped

\* The dispatch that forgets to look the descriptor up in logmap: operator[]
\* then yields no name.
GroupCommandNoLogin(c) ==
  \/ Commanded(c) /\ Membership!Commands(c, logmap[c])
  \/ Membership!Continue(c) /\ UNCHANGED overlapped

GroupCommand(c) ==
  \/ AsPeer(c) /\ Membership!Commands(c, logmap[c])
  \/ Membership!Continue(c) /\ UNCHANGED overlapped

(***************************************************************************)
(* upload_file, download_file and stop_share before they come to the file  *)
(***************************************************************************)
Test(c, r) == freq' = [freq EXCEPT ![c] = r]

\* Without looking the descriptor up in logmap.
FindGroupNoLogin(c) ==
  /\ Commanded(c)
  /\ \E r \in Tests :
       /\ group[r.g] # None
       /\ r.at = IF r.op = "stop_share" THEN "test_file" ELSE "test_member"
       /\ Test(c, r)
  /\ UNCHANGED fileVars

\* group.find; stop_share asks nothing else about the group.
FindGroup(c) ==
  /\ AsPeer(c)
  /\ \E r \in Tests :
       /\ group[r.g] # None
       /\ r.at = IF r.op = "stop_share" THEN "test_file" ELSE "test_member"
       /\ Test(c, r)
  /\ UNCHANGED fileVars

\* The membership test left out.
TestNoMember(c) ==
  /\ freq[c].at = "test_member"
  /\ Test(c, [freq[c] EXCEPT !.at = "test_file"])
  /\ UNCHANGED <<fileVars, overlapped>>

TestMember(c) ==
  /\ freq[c].at = "test_member"
  /\ \/ /\ logmap[c] \in group_members[freq[c].g]
        /\ Test(c, [freq[c] EXCEPT !.at = "test_file"])
     \/ logmap[c] \notin group_members[freq[c].g] /\ Test(c, Untested)
  /\ UNCHANGED <<fileVars, overlapped>>

\* From here on module Sharing has the request, unless the group's list does
\* not hold the file to download or to stop sharing.
OpenFile(c) ==
  /\ freq[c].at = "test_file"
  /\ LET g == freq[c].g IN
       \/ /\ freq[c].op = "upload_file"
          /\ \E v \in Versions, f \in Files, n \in Numbers :
               Sharing!Upload(c, [peer |-> logmap[c], version |-> v], listenmap[c], g, f, n)
       \/ /\ freq[c].op = "download_file"
          /\ \E f \in Files : Sharing!DownloadFile(c, logmap[c], g, f)
       \/ /\ freq[c].op = "stop_share"
          /\ \E f \in Files : Sharing!StopShare(c, logmap[c], g, f)
       \/ freq[c].op # "upload_file" /\ Files \ group_file[g] # {} /\ UNCHANGED fileVars
  /\ Test(c, Untested)
  /\ UNCHANGED overlapped

\* The commands about files that look at no group.
FileNote(c) ==
  /\ \/ \E g \in Groups, f \in Files : Sharing!DownloadCompleted(c, logmap[c], g, f)
     \/ \E f \in Files, v \in Versions : Sharing!FileDetails(c, f, v)
  /\ UNCHANGED freq

FileCommand(c) ==
  \/ FindGroup(c) \/ TestMember(c) \/ OpenFile(c)
  \/ AsPeer(c) /\ FileNote(c)
  \/ Sharing!Continue(c) /\ UNCHANGED <<freq, overlapped>>

\* All three parts live and die with the process.
Restart ==
  /\ Accounts!Restart /\ Membership!Restart /\ Sharing!Restart
  /\ freq' = [c \in Fds |-> Untested]
  /\ overlapped' = FALSE

Next ==
  \/ Restart
  \/ \E c \in Fds :
       \/ (Connection(c) \/ AccountCommand(c)) /\ UNCHANGED <<groupVars, fileVars, freq>>
       \/ GroupCommand(c) /\ UNCHANGED <<accountVars, fileVars, freq>>
       \/ FileCommand(c) /\ UNCHANGED <<accountVars, groupVars>>

Spec == Init /\ [][Next]_vars

-----------------------------------------------------------------------------
\* Every step of the tracker is, to the groups and to the catalogue, a step
\* of the module about them or nothing, with one registered or unregistered
\* but always named peer acting: what these modules promise of peers that act
\* on any descriptor at will they promise in the program.
RefinesMembership == Membership!Spec
RefinesSharing    == Sharing!Spec

Registered == {p \in Peers : user[p] # None}

\* Every name the tracker stores, as owner, member, applicant, source or
\* downloader, is that of a registered account, however handlers overlap: no
\* path through sessions left behind, reused descriptors or handlers in
\* progress stores a name that create_peer never added.  The one exception is
\* the empty owner that operator[] gives a group dissolved meanwhile.
NamesHaveAccounts ==
  /\ \A g \in Groups :
       /\ group[g] \in Registered \cup {None, Blank}
       /\ group_members[g] \cup pending[g] \subseteq Registered
  /\ \A p \in Peers : downloads[p] # {} => p \in Registered
  /\ \A f \in Files : \A k \in DOMAIN Sharing!List(f), e \in Endpoints :
       LET cr == file_pieces[f][k].sources[e]
       IN cr = None \/ cr.peer \in Registered

\* A file enters a group's list only by the upload of the peer that is logged
\* in on that connection, and one that has asked for the group, on every
\* schedule.  Until two commands overlap it is moreover a member of the group
\* at that moment, and the endpoint announced on the connection is on record
\* for the piece.  After that it can have left the group since its test.
ListedByMember ==
  [][\A g \in Groups : \A f \in group_file'[g] \ group_file[g] :
       \E c \in Fds :
         /\ sreq[c].at = "upload_list" /\ sreq[c].g = g /\ sreq[c].f = f
         /\ sreq[c].cr.peer = logmap[c]
         /\ logmap[c] \in asked[g]
         /\ \/ overlapped
            \/ /\ logmap[c] \in group_members[g]
               /\ \E n \in Numbers : Sharing!Credited(f, n, listenmap[c]) # {}]_vars
=============================================================================
