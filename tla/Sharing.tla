------------------------------ MODULE Sharing ------------------------------
(***************************************************************************)
(* The tracker's catalogue of shared files (upload_file, download_file,    *)
(* stop_share, file_details and download_completed of                      *)
(* src/src/helper_tracker.cpp).                                            *)
(*                                                                         *)
(* group_file lists files per group; file_pieces and filedetails are keyed *)
(* by the file's name alone, whatever the group.  A source of a piece is   *)
(* identified by the endpoint that serves it and carries the name of the   *)
(* peer that uploaded it and the hash it gave.                             *)
(*                                                                         *)
(* The threads hold no lock, so a step is one visit to one entry of one of *)
(* the maps; the steps of different connections interleave.  What is       *)
(* promised only until two requests overlap is stated under ~overlapped.   *)
(* Whether a peer may give a command is not this module's subject: any     *)
(* peer may here, and module Tracker puts the tests of group and           *)
(* group_members in front.                                                 *)
(*                                                                         *)
(* Abstractions.  A version stands for the contents a file may have, and   *)
(* so for its length and hash and for the hashes of its pieces.  A peer    *)
(* process serves the files of one name from one path, so the path is part *)
(* of the endpoint.                                                        *)
(***************************************************************************)
EXTENDS Sequences, Naturals

CONSTANTS
  Fds,           \* descriptors of client connections
  Peers,
  Groups,
  Files,         \* file names
  Numbers,       \* piece numbers
  Versions,      \* contents a file may have
  Endpoints,     \* where pieces are served
  None,
  MaxPieces      \* bound on the length of a piece list

Credit  == [peer : Peers, version : Versions]
Sources == [Endpoints -> Credit \cup {None}]
Pieces  == [number : Numbers, sources : Sources]

ASSUME SharingAssumption ==
  /\ None \notin Versions \cup Endpoints \cup Credit \cup Seq(Pieces)
  /\ MaxPieces \in Nat

VARIABLES
  group_file,    \* group -> files listed there
  file_pieces,   \* file -> its list of pieces; None when there is no such key
  filedetails,   \* file -> version last announced; None when there is no such key
  downloads,     \* peer -> pairs <<file, group>> shown as complete
  sreq,          \* descriptor -> where its thread is in which request
  overlapped     \* history: has a request started while another was in progress?

maps == <<group_file, file_pieces, filedetails, downloads>>
vars == <<maps, sreq, overlapped>>

NoSource == [e \in Endpoints |-> None]
\* What operator[] makes of an absent key of filedetails: {0, ""}.
Undescribed == "undescribed"

\* What a thread does next, named after the visit to come.
UploadSteps   == {"upload_create", "upload_scan", "upload_append", "upload_list"}
StopSteps     == {"stop_find", "stop_loop", "stop_unlist", "stop_erase"}
DownloadSteps == {"download_enter", "download_details", "download_pieces"}

Idle    == [at |-> "idle"]
Uploads == [at : UploadSteps, cr : Credit, e : Endpoints, g : Groups, f : Files, n : Numbers]
Others  == [at : StopSteps \cup DownloadSteps, me : Peers, g : Groups, f : Files]

InProgress(c) == sreq[c] # Idle

\* A request is taken up; history notes whether another one is under way.
Begin == overlapped' = IF \E d \in Fds : InProgress(d) THEN TRUE ELSE overlapped

\* The thread of c takes its next command.
Command(c) == sreq[c] = Idle /\ Begin

Start(c, r)  == sreq' = [sreq EXCEPT ![c] = r]
Goto(c, at)  == sreq' = [sreq EXCEPT ![c].at = at]
Finish(c)    == sreq' = [sreq EXCEPT ![c] = Idle]

List(f) == IF file_pieces[f] = None THEN <<>> ELSE file_pieces[f]

\* file_pieces[f] = list; with List(f) for list, what operator[] alone does.
Put(f, list) == file_pieces' = [file_pieces EXCEPT ![f] = list]

\* The slip of overwriting the source.
SetSource(sources, e, cr) == [sources EXCEPT ![e] = cr]

\* set<file_info>::insert: file_info compares path, ip and port only, so a
\* source that is known already keeps the peer and the hash stored first.
AddSource(sources, e, cr) == [sources EXCEPT ![e] = IF @ = None THEN cr ELSE @]

WithSource(list, k, e, cr) == [list EXCEPT ![k].sources = AddSource(@, e, cr)]

\* The first piece with this number, as the scan of upload_file finds it.
IsFirst(list, k, n) ==
  /\ k \in DOMAIN list
  /\ list[k].number = n
  /\ \A j \in 1 .. k - 1 : list[j].number # n

Missing(list, n) == \A k \in DOMAIN list : list[k].number # n

Init ==
  /\ group_file = [g \in Groups |-> {}]
  /\ file_pieces = [f \in Files |-> None]
  /\ filedetails = [f \in Files |-> None]
  /\ downloads = [p \in Peers |-> {}]
  /\ sreq = [c \in Fds |-> Idle]
  /\ overlapped = FALSE

(***************************************************************************)
(* upload_file                                                             *)
(***************************************************************************)
Upload(c, cr, e, g, f, n) ==
  /\ Command(c)
  /\ \E at \in UploadSteps :
       /\ at = IF file_pieces[f] = None THEN "upload_create" ELSE "upload_scan"
       /\ Start(c, [at |-> at, cr |-> cr, e |-> e, g |-> g, f |-> f, n |-> n])
  /\ UNCHANGED maps

\* file_pieces[f] = vector(), also over a list that has come about since.
UploadCreate(c) ==
  /\ sreq[c].at = "upload_create"
  /\ Put(sreq[c].f, <<>>)
  /\ Goto(c, "upload_scan")
  /\ UNCHANGED <<group_file, filedetails, downloads, overlapped>>

\* A scan that stops short of the last piece (i < size() - 1).
UploadShortScan(c) ==
  /\ sreq[c].at = "upload_scan"
  /\ LET r == sreq[c]
         list == List(r.f)
     IN \/ \E k \in DOMAIN list \ {Len(list)} :
             /\ IsFirst(list, k, r.n)
             /\ Put(r.f, WithSource(list, k, r.e, r.cr))
             /\ Goto(c, "upload_list")
        \/ /\ \A k \in DOMAIN list \ {Len(list)} : list[k].number # r.n
           /\ Put(r.f, list)
           /\ Goto(c, "upload_append")
  /\ UNCHANGED <<group_file, filedetails, downloads, overlapped>>

\* The scan, which adds the source in place when the piece is there.
UploadScan(c) ==
  /\ sreq[c].at = "upload_scan"
  /\ LET r == sreq[c]
         list == List(r.f)
     IN \/ \E k \in DOMAIN list :
             /\ IsFirst(list, k, r.n)
             /\ Put(r.f, WithSource(list, k, r.e, r.cr))
             /\ Goto(c, "upload_list")
        \/ /\ Missing(list, r.n)
           /\ Put(r.f, list)
           /\ Goto(c, "upload_append")
  /\ UNCHANGED <<group_file, filedetails, downloads, overlapped>>

NewPiece(r) == [number |-> r.n, sources |-> [NoSource EXCEPT ![r.e] = r.cr]]

\* push_back when the scan found nothing.
UploadAppend(c) ==
  /\ sreq[c].at = "upload_append"
  /\ LET r == sreq[c] IN
       /\ Len(List(r.f)) < MaxPieces
       /\ Put(r.f, Append(List(r.f), NewPiece(r)))
  /\ Goto(c, "upload_list")
  /\ UNCHANGED <<group_file, filedetails, downloads, overlapped>>

UploadList(c) ==
  /\ sreq[c].at = "upload_list"
  /\ group_file' = [group_file EXCEPT ![sreq[c].g] = @ \cup {sreq[c].f}]
  /\ Finish(c)
  /\ UNCHANGED <<file_pieces, filedetails, downloads, overlapped>>

(***************************************************************************)
(* stop_share                                                              *)
(***************************************************************************)
\* Anyone may ask, member or not.
StopShare(c, me, g, f) ==
  /\ Command(c)
  /\ f \in group_file[g]
  /\ Start(c, [at |-> "stop_find", me |-> me, g |-> g, f |-> f])
  /\ UNCHANGED maps

\* Nothing happens when the file has no piece list.
StopShareFind(c) ==
  /\ sreq[c].at = "stop_find"
  /\ \/ file_pieces[sreq[c].f] = None /\ Finish(c)
     \/ file_pieces[sreq[c].f] # None /\ Goto(c, "stop_loop")
  /\ UNCHANGED <<maps, overlapped>>

\* The pieces once every source credited to p is removed.
Without(list, p) ==
  [k \in DOMAIN list |->
     [list[k] EXCEPT !.sources =
        [e \in Endpoints |-> IF @[e] # None /\ @[e].peer = p THEN None ELSE @[e]]]]

HasNone(list) == \A k \in DOMAIN list : list[k].sources = NoSource

\* flag, decided by the last piece alone instead of by all of them.
StopShareLastPiece(c) ==
  /\ sreq[c].at = "stop_loop"
  /\ LET left == Without(List(sreq[c].f), sreq[c].me)
         flag == \A k \in DOMAIN left : k = Len(left) => left[k].sources = NoSource
     IN /\ Put(sreq[c].f, left)
        /\ \/ flag /\ Goto(c, "stop_unlist")
           \/ ~flag /\ Finish(c)
  /\ UNCHANGED <<group_file, filedetails, downloads, overlapped>>

\* A flag that never comes out true: nothing is ever erased.
StopShareNeverErase(c) ==
  /\ sreq[c].at = "stop_loop"
  /\ Put(sreq[c].f, Without(List(sreq[c].f), sreq[c].me))
  /\ Finish(c)
  /\ UNCHANGED <<group_file, filedetails, downloads, overlapped>>

\* The loop over the pieces; flag says that none has a source left.
StopShareLoop(c) ==
  /\ sreq[c].at = "stop_loop"
  /\ LET left == Without(List(sreq[c].f), sreq[c].me) IN
       /\ Put(sreq[c].f, left)
       /\ \/ HasNone(left) /\ Goto(c, "stop_unlist")
          \/ ~HasNone(left) /\ Finish(c)
  /\ UNCHANGED <<group_file, filedetails, downloads, overlapped>>

\* The name leaves this group's list only ...
StopShareUnlist(c) ==
  /\ sreq[c].at = "stop_unlist"
  /\ group_file' = [group_file EXCEPT ![sreq[c].g] = @ \ {sreq[c].f}]
  /\ Goto(c, "stop_erase")
  /\ UNCHANGED <<file_pieces, filedetails, downloads, overlapped>>

\* The piece list is forgotten here.
StopShareKeepPieces(c) ==
  /\ sreq[c].at = "stop_erase"
  /\ Finish(c)
  /\ UNCHANGED <<maps, overlapped>>

\* ... and the piece list is gone for all.
StopShareErase(c) ==
  /\ sreq[c].at = "stop_erase"
  /\ Put(sreq[c].f, None)
  /\ Finish(c)
  /\ UNCHANGED <<group_file, filedetails, downloads, overlapped>>

(***************************************************************************)
(* download_file, file_details and download_completed                      *)
(***************************************************************************)
DownloadFile(c, me, g, f) ==
  /\ Command(c)
  /\ f \in group_file[g]
  /\ Start(c, [at |-> "download_enter", me |-> me, g |-> g, f |-> f])
  /\ UNCHANGED maps

\* The download is entered in the peer's list as complete ("C") here, before
\* any piece is fetched.
DownloadEnter(c) ==
  /\ sreq[c].at = "download_enter"
  /\ LET r == sreq[c] IN downloads' = [downloads EXCEPT ![r.me] = @ \cup {<<r.f, r.g>>}]
  /\ Goto(c, "download_details")
  /\ UNCHANGED <<group_file, file_pieces, filedetails, overlapped>>

\* operator[] creates the entries that are missing.
DownloadDetails(c) ==
  /\ sreq[c].at = "download_details"
  /\ filedetails' = [filedetails EXCEPT ![sreq[c].f] = IF @ = None THEN Undescribed ELSE @]
  /\ Goto(c, "download_pieces")
  /\ UNCHANGED <<group_file, file_pieces, downloads, overlapped>>

DownloadPieces(c) ==
  /\ sreq[c].at = "download_pieces"
  /\ Put(sreq[c].f, List(sreq[c].f))
  /\ Finish(c)
  /\ UNCHANGED <<group_file, filedetails, downloads, overlapped>>

\* No test at all: whoever is logged in redefines the file of that name.
FileDetails(c, f, v) ==
  /\ Command(c)
  /\ filedetails' = [filedetails EXCEPT ![f] = v]
  /\ UNCHANGED <<group_file, file_pieces, downloads, sreq>>

\* The pair the wrong way round.
DownloadCompletedSwapped(c, me, g, f) ==
  /\ Command(c)
  /\ downloads[me] # {}
  /\ downloads' = [downloads EXCEPT ![me] = @ \cup {<<g, f>>}]
  /\ UNCHANGED <<group_file, file_pieces, filedetails, sreq>>

\* The loop inserts <<f, g>> once per element, so only into a list that is
\* not empty, and erases elements it is iterating over: any of the entries
\* for f may be gone afterwards (or the process is: Restart).
DownloadCompleted(c, me, g, f) ==
  /\ Command(c)
  /\ downloads[me] # {}
  /\ \E gone \in SUBSET {d \in downloads[me] : d[1] = f} :
       downloads' = [downloads EXCEPT ![me] = (@ \ gone) \cup {<<f, g>>}]
  /\ UNCHANGED <<group_file, file_pieces, filedetails, sreq>>

\* The tracker process ends and is started again, with empty maps.
Restart ==
  /\ group_file' = [g \in Groups |-> {}]
  /\ file_pieces' = [f \in Files |-> None]
  /\ filedetails' = [f \in Files |-> None]
  /\ downloads' = [p \in Peers |-> {}]
  /\ sreq' = [c \in Fds |-> Idle]
  /\ overlapped' = FALSE

\* The commands the peer "me", serving at e, can give on the connection of c.
Uploading(c, me, e) ==
  \E v \in Versions, g \in Groups, f \in Files, n \in Numbers :
    Upload(c, [peer |-> me, version |-> v], e, g, f, n)

Commands(c, me) ==
  \/ \E g \in Groups, f \in Files :
       \/ StopShare(c, me, g, f)
       \/ DownloadFile(c, me, g, f)
       \/ DownloadCompleted(c, me, g, f)
  \/ \E f \in Files, v \in Versions : FileDetails(c, f, v)

\* The thread of c goes on with its request.
Continue(c) ==
  \/ UploadCreate(c) \/ UploadScan(c) \/ UploadAppend(c) \/ UploadList(c)
  \/ StopShareFind(c) \/ StopShareLoop(c) \/ StopShareUnlist(c) \/ StopShareErase(c)
  \/ DownloadEnter(c) \/ DownloadDetails(c) \/ DownloadPieces(c)

Next ==
  \/ Restart
  \/ \E c \in Fds :
       \/ \E me \in Peers :
            \/ \E e \in Endpoints : Uploading(c, me, e)
            \/ Commands(c, me)
       \/ Continue(c)

Spec == Init /\ [][Next]_vars

-----------------------------------------------------------------------------
TypeOK ==
  /\ group_file \in [Groups -> SUBSET Files]
  /\ file_pieces \in [Files -> Seq(Pieces) \cup {None}]
  /\ \A f \in Files : Len(List(f)) <= MaxPieces
  /\ filedetails \in [Files -> Versions \cup {None, Undescribed}]
  /\ downloads \in [Peers -> SUBSET (Files \X Groups)]
  /\ sreq \in [Fds -> Uploads \cup Others \cup {Idle}]
  /\ overlapped \in BOOLEAN

\* A handler is between two visits to the entries of f.
Busy(f) == \E c \in Fds : InProgress(c) /\ sreq[c].f = f

\* Who is credited with serving piece n of f at endpoint e.
Credited(f, n, e) ==
  {List(f)[k].sources[e] : k \in {j \in DOMAIN List(f) : List(f)[j].number = n}} \ {None}

NumbersApart(f) ==
  \A j, k \in DOMAIN List(f) : List(f)[j].number = List(f)[k].number => j = k

Listed(f) == file_pieces[f] # None => \E g \in Groups : f \in group_file[g]

Sourced(f) == List(f) = <<>> \/ ~HasNone(List(f))

\* A file's list holds each piece number once, so the list a downloader gets
\* describes each piece once with all its sources, however uploads of several
\* peers, stops and downloads alternate, until two requests overlap.
NoDuplicatePiece == ~overlapped => \A f \in Files : NumbersApart(f)

\* Pieces are on record only for a file that some group lists: stopping,
\* downloading (which creates empty lists) and uploading of the same name
\* through different groups leave no list that no group leads to, until two
\* requests overlap.  After that a download can create a list again for a
\* file that was unlisted after its test.
NoUnlistedPieces == ~overlapped => \A f \in Files : Busy(f) \/ Listed(f)

\* A piece list that is kept leads somewhere: unless it is empty, as
\* download_file creates it, or a request for the file is under way, one of its
\* pieces has a source.  So stop_share never strands the pieces of a file, in
\* whatever groups and order it is uploaded and stopped, until two requests
\* overlap.
KeptListsHaveSource == ~overlapped => \A f \in Files : Busy(f) \/ Sourced(f)

\* A file that a group lists can be had from somebody: at least one piece of
\* it has a source.
SharableFilesHaveSource ==
  \A g \in Groups : \A f \in group_file[g] : Busy(f) \/ ~HasNone(List(f))

Restarted ==
  /\ group_file' = [g \in Groups |-> {}]
  /\ file_pieces' = [f \in Files |-> None]
  /\ downloads' = [p \in Peers |-> {}]

\* A source disappears only because its own peer stops sharing the file: one
\* peer's stop_share never takes away what another peer serves, not even when
\* it erases the whole list.  After an overlap an erasure decided earlier can
\* take away what was uploaded meanwhile, and so can an upload that found no
\* list and then stores an empty one.
OthersSourcesKept ==
  [][\/ Restarted
     \/ overlapped
     \/ \A f \in Files, n \in Numbers, e \in Endpoints :
          \A cr \in Credited(f, n, e) \ Credited(f, n, e)' :
            \E c \in Fds : /\ sreq[c].at = "stop_loop"
                           /\ sreq[c].me = cr.peer
                           /\ sreq[c].f = f]_vars

\* A credit is never passed on while it stands, even when handlers overlap: a
\* second upload of a piece at an endpoint, under another login or with
\* another hash, changes nothing.
CreditStays ==
  [][\A f \in Files, n \in Numbers, e \in Endpoints :
       \A k \in DOMAIN List(f) :
         LET old == List(f)[k].sources[e]
         IN old # None /\ k \in DOMAIN List(f)'
              => List(f)'[k].sources[e] \in {old, None}]_vars

(***************************************************************************)
(* Strengthening used by the proofs: until two requests overlap, what the  *)
(* request in progress found out still holds at its next visit.            *)
(***************************************************************************)
AtMostOneInProgress ==
  ~overlapped => \A c, d \in Fds : InProgress(c) /\ InProgress(d) => c = d

Found(r) ==
  /\ r.at \in UploadSteps => Missing(List(r.f), r.n) \/ r.at \in {"upload_scan", "upload_list"}
  /\ r.at = "upload_create" => file_pieces[r.f] = None
  /\ r.at = "upload_list" => ~HasNone(List(r.f))
  /\ r.at \in {"stop_find", "stop_loop"} \cup DownloadSteps => r.f \in group_file[r.g]
  /\ r.at \in {"stop_unlist", "stop_erase"} => HasNone(List(r.f))

\* The requests that leave a list unlisted, or without a source, for a while.
Entering(r) == r.at \in {"upload_scan", "upload_append", "upload_list"}
Erasing(r)  == r.at \in {"stop_unlist", "stop_erase"}

TestsStillHold == ~overlapped => \A c \in Fds : InProgress(c) => Found(sreq[c])

Tidy ==
  ~overlapped => \A f \in Files :
    /\ NumbersApart(f)
    /\ \/ Listed(f)
       \/ \E c \in Fds : InProgress(c) /\ sreq[c].f = f /\ (Entering(sreq[c]) \/ Erasing(sreq[c]))
    /\ \/ Sourced(f)
       \/ \E c \in Fds : InProgress(c) /\ sreq[c].f = f /\ Erasing(sreq[c])

SerialInv ==
  /\ TypeOK
  /\ AtMostOneInProgress
  /\ TestsStillHold
  /\ Tidy
=============================================================================
