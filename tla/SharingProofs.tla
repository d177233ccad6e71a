--------------------------- MODULE SharingProofs ---------------------------
(***************************************************************************)
(* What holds of the tracker's file catalogue for every set of descriptors,*)
(* peers, groups, files, piece numbers, versions and endpoints.            *)
(***************************************************************************)
EXTENDS Sharing, SequenceTheorems, TLAPS

-----------------------------------------------------------------------------
(***************************************************************************)
(* Lists of pieces.                                                        *)
(***************************************************************************)
\* The list a handler works on is a list of pieces, no longer than the bound.
LEMMA ListType ==
  ASSUME TypeOK, NEW f \in Files
  PROVE  List(f) \in Seq(Pieces) /\ Len(List(f)) <= MaxPieces
  BY SharingAssumption DEF TypeOK, List

\* The same pieces under the same numbers, and no source taken away.
Enriches(new, list) ==
  /\ DOMAIN new = DOMAIN list
  /\ \A k \in DOMAIN list :
       /\ new[k].number = list[k].number
       /\ \A a \in Endpoints : list[k].sources[a] # None => new[k].sources[a] = list[k].sources[a]

\* Adding a source to a piece that is there.
LEMMA WithSourceList ==
  ASSUME NEW list \in Seq(Pieces), NEW k \in DOMAIN list,
         NEW e \in Endpoints, NEW cr \in Credit
  PROVE  /\ WithSource(list, k, e, cr) \in Seq(Pieces)
         /\ Len(WithSource(list, k, e, cr)) = Len(list)
         /\ Enriches(WithSource(list, k, e, cr), list)
         /\ ~HasNone(WithSource(list, k, e, cr))
<1> DEFINE new == WithSource(list, k, e, cr)
           sources == AddSource(list[k].sources, e, cr)
<1>1. list[k] \in Pieces
  OBVIOUS
<1>2. /\ sources \in Sources
      /\ sources[e] # None
      /\ \A a \in Endpoints : list[k].sources[a] # None => sources[a] = list[k].sources[a]
  BY <1>1, SharingAssumption DEF AddSource, Pieces, Sources
<1>3. sources # NoSource
  BY <1>2 DEF NoSource
<1> HIDE DEF sources
<1>4. [list[k] EXCEPT !.sources = sources] \in Pieces
  BY <1>1, <1>2 DEF Pieces
<1>5. new = [list EXCEPT ![k] = [list[k] EXCEPT !.sources = sources]]
  BY DEF WithSource, sources
<1>6. new \in Seq(Pieces) /\ Len(new) = Len(list) /\ DOMAIN new = DOMAIN list
  BY <1>4, <1>5
<1>7. /\ new[k].number = list[k].number
      /\ new[k].sources = sources
      /\ \A j \in DOMAIN list \ {k} : new[j] = list[j]
  BY <1>1, <1>5 DEF Pieces
<1> HIDE DEF new
<1>8. Enriches(new, list)
  BY <1>2, <1>6, <1>7 DEF Enriches
<1>9. ~HasNone(new)
  BY <1>3, <1>6, <1>7 DEF HasNone
<1> QED
  BY <1>6, <1>8, <1>9 DEF new

\* Removing the sources of one peer.
LEMMA WithoutList ==
  ASSUME NEW list \in Seq(Pieces), NEW p
  PROVE  /\ Without(list, p) \in Seq(Pieces)
         /\ Len(Without(list, p)) = Len(list)
         /\ DOMAIN Without(list, p) = DOMAIN list
         /\ \A k \in DOMAIN list :
              /\ Without(list, p)[k].number = list[k].number
              /\ \A a \in Endpoints :
                   \/ Without(list, p)[k].sources[a] = list[k].sources[a]
                   \/ /\ Without(list, p)[k].sources[a] = None
                      /\ list[k].sources[a] # None
                      /\ list[k].sources[a].peer = p
<1>1. ASSUME NEW k \in 1 .. Len(list)
      PROVE  /\ Without(list, p)[k] \in Pieces
             /\ Without(list, p)[k].number = list[k].number
             /\ \A a \in Endpoints :
                  \/ Without(list, p)[k].sources[a] = list[k].sources[a]
                  \/ /\ Without(list, p)[k].sources[a] = None
                     /\ list[k].sources[a] # None
                     /\ list[k].sources[a].peer = p
  <2> DEFINE left == [e \in Endpoints |->
                        IF list[k].sources[e] # None /\ list[k].sources[e].peer = p
                        THEN None ELSE list[k].sources[e]]
  <2>1. list[k] \in Pieces
    OBVIOUS
  <2>2. left \in Sources
    BY <2>1 DEF Pieces, Sources
  <2>3. \A a \in Endpoints :
          \/ left[a] = list[k].sources[a]
          \/ left[a] = None /\ list[k].sources[a] # None /\ list[k].sources[a].peer = p
    OBVIOUS
  <2>4. Without(list, p) = [j \in DOMAIN list |->
          [list[j] EXCEPT !.sources =
             [e \in Endpoints |-> IF list[j].sources[e] # None /\ list[j].sources[e].peer = p
                                  THEN None ELSE list[j].sources[e]]]]
    BY Zenon DEF Without
  <2>5. k \in DOMAIN list
    OBVIOUS
  <2>6. Without(list, p)[k] = [list[k] EXCEPT !.sources = left]
    BY <2>4, <2>5, Zenon
  <2> HIDE DEF left
  <2> QED
    BY <2>1, <2>2, <2>3, <2>6 DEF Pieces
<1>2. Without(list, p) = [k \in 1 .. Len(list) |-> Without(list, p)[k]]
  BY DEF Without
<1>3. Without(list, p) \in [1 .. Len(list) -> Pieces]
  BY <1>1, <1>2
<1>4. Len(list) \in Nat /\ DOMAIN list = 1 .. Len(list)
  OBVIOUS
<1>5. /\ Without(list, p) \in Seq(Pieces)
      /\ Len(Without(list, p)) = Len(list)
      /\ DOMAIN Without(list, p) = DOMAIN list
  BY <1>3, <1>4
<1> QED
  BY <1>1, <1>4, <1>5

\* Appending a piece with a source.
LEMMA AppendList ==
  ASSUME NEW list \in Seq(Pieces), NEW r \in Uploads
  PROVE  LET new == Append(list, NewPiece(r))
         IN  /\ new \in Seq(Pieces)
             /\ Len(new) = Len(list) + 1
             /\ \A k \in DOMAIN list : k \in DOMAIN new /\ new[k] = list[k]
             /\ ~HasNone(new)
             /\ Missing(list, r.n) /\ (\A j, k \in DOMAIN list : list[j].number = list[k].number => j = k)
                  => \A j, k \in DOMAIN new : new[j].number = new[k].number => j = k
<1> DEFINE piece == NewPiece(r)
           new   == Append(list, piece)
<1>1. r.e \in Endpoints /\ r.cr \in Credit /\ r.n \in Numbers
  BY DEF Uploads
<1>2. piece \in Pieces /\ piece.number = r.n /\ piece.sources # NoSource
  BY <1>1, SharingAssumption DEF NewPiece, Pieces, Sources, NoSource
<1> HIDE DEF piece
<1>3. /\ new \in Seq(Pieces)
      /\ Len(new) = Len(list) + 1 /\ Len(list) \in Nat
      /\ DOMAIN list = 1 .. Len(list) /\ DOMAIN new = 1 .. Len(list) + 1
      /\ \A k \in DOMAIN list : new[k] = list[k]
      /\ new[Len(list) + 1] = piece
  BY <1>2, AppendProperties
<1> HIDE DEF new
<1>4. ~HasNone(new)
  BY <1>2, <1>3 DEF HasNone
<1>5. ASSUME Missing(list, r.n), \A j, k \in DOMAIN list : list[j].number = list[k].number => j = k,
             NEW j \in DOMAIN new, NEW k \in DOMAIN new, new[j].number = new[k].number
      PROVE  j = k
  BY <1>2, <1>3, <1>5 DEF Missing
<1> QED
  BY <1>3, <1>4, <1>5 DEF new, piece

-----------------------------------------------------------------------------
(***************************************************************************)
(* What the steps do.                                                      *)
(***************************************************************************)
\* Storing a list: the type of the map, the list, and the other files'.
Stored(f, list) ==
  /\ file_pieces' \in [Files -> Seq(Pieces) \cup {None}]
  /\ \A h \in Files : Len(List(h)') <= MaxPieces
  /\ file_pieces'[f] # None
  /\ List(f)' = list
  /\ \A h \in Files \ {f} : file_pieces'[h] = file_pieces[h] /\ List(h)' = List(h)

LEMMA PutStores ==
  ASSUME TypeOK, NEW f \in Files, NEW list \in Seq(Pieces), Len(list) <= MaxPieces,
         Put(f, list)
  PROVE  Stored(f, list)
<1>1. file_pieces' = [file_pieces EXCEPT ![f] = list]
  BY DEF Put
<1>2. /\ file_pieces' \in [Files -> Seq(Pieces) \cup {None}]
      /\ file_pieces'[f] = list /\ list # None
      /\ \A h \in Files \ {f} : file_pieces'[h] = file_pieces[h]
  BY <1>1, SharingAssumption DEF TypeOK
<1>3. List(f)' = list /\ \A h \in Files \ {f} : List(h)' = List(h)
  BY <1>2 DEF List
<1>4. \A h \in Files : Len(List(h)') <= MaxPieces
  BY <1>3, ListType
<1> QED
  BY <1>2, <1>3, <1>4 DEF Stored

\* A thread that goes on with its request was in the middle of it.
LEMMA ContinueKeeps ==
  ASSUME TypeOK, NEW c \in Fds, Continue(c)
  PROVE  /\ UNCHANGED overlapped
         /\ \/ sreq[c] \in Uploads /\ sreq[c].at \in UploadSteps
            \/ sreq[c] \in Others /\ sreq[c].at \in StopSteps \cup DownloadSteps
<1>1. UNCHANGED overlapped /\ sreq[c].at # "idle"
  BY DEF Continue, UploadCreate, UploadScan, UploadAppend, UploadList, StopShareFind,
         StopShareLoop, StopShareUnlist, StopShareErase, DownloadEnter, DownloadDetails,
         DownloadPieces
<1>2. sreq[c] \in Uploads \cup Others \cup {Idle}
  BY DEF TypeOK
<1>3. sreq[c] # Idle
  BY <1>1 DEF Idle
<1> QED
  BY <1>1, <1>2, <1>3 DEF Uploads, Others

\* Only its own thread moves, and on within the request for the same file.
LEMMA ContinueMoves ==
  ASSUME TypeOK, NEW c \in Fds, Continue(c)
  PROVE  /\ sreq' \in [Fds -> Uploads \cup Others \cup {Idle}]
         /\ \A d \in Fds \ {c} : sreq'[d] = sreq[d]
         /\ \/ sreq'[c] = Idle
            \/ sreq[c] \in Uploads /\ \E at \in UploadSteps : sreq'[c] = [sreq[c] EXCEPT !.at = at]
            \/ /\ sreq[c] \in Others
               /\ \E at \in StopSteps \cup DownloadSteps : sreq'[c] = [sreq[c] EXCEPT !.at = at]
<1>0. /\ sreq \in [Fds -> Uploads \cup Others \cup {Idle}]
      /\ \/ sreq[c] \in Uploads /\ sreq[c].at \in UploadSteps
         \/ sreq[c] \in Others /\ sreq[c].at \in StopSteps \cup DownloadSteps
  BY ContinueKeeps DEF TypeOK
<1>1. ASSUME Finish(c)
      PROVE  /\ sreq' \in [Fds -> Uploads \cup Others \cup {Idle}]
             /\ \A d \in Fds \ {c} : sreq'[d] = sreq[d]
             /\ sreq'[c] = Idle
  BY <1>0, <1>1 DEF Finish
<1>2. ASSUME NEW at \in UploadSteps, Goto(c, at), sreq[c].at \in UploadSteps
      PROVE  /\ sreq' \in [Fds -> Uploads \cup Others \cup {Idle}]
             /\ \A d \in Fds \ {c} : sreq'[d] = sreq[d]
             /\ sreq[c] \in Uploads /\ sreq'[c] = [sreq[c] EXCEPT !.at = at]
  <2>1. sreq[c] \in Uploads
    BY <1>0, <1>2 DEF UploadSteps, StopSteps, DownloadSteps
  <2>2. [sreq[c] EXCEPT !.at = at] \in Uploads
    BY <2>1 DEF Uploads
  <2> QED
    BY <1>0, <1>2, <2>1, <2>2 DEF Goto
<1>3. ASSUME NEW at \in StopSteps \cup DownloadSteps, Goto(c, at),
             sreq[c].at \in StopSteps \cup DownloadSteps
      PROVE  /\ sreq' \in [Fds -> Uploads \cup Others \cup {Idle}]
             /\ \A d \in Fds \ {c} : sreq'[d] = sreq[d]
             /\ sreq[c] \in Others /\ sreq'[c] = [sreq[c] EXCEPT !.at = at]
  <2>1. sreq[c] \in Others
    BY <1>0, <1>3 DEF UploadSteps, StopSteps, DownloadSteps
  <2>2. [sreq[c] EXCEPT !.at = at] \in Others
    BY <2>1 DEF Others
  <2> QED
    BY <1>0, <1>3, <2>1, <2>2 DEF Goto
<1>4. \/ Finish(c)
      \/ \E at \in UploadSteps : Goto(c, at) /\ sreq[c].at \in UploadSteps
      \/ \E at \in StopSteps \cup DownloadSteps :
           Goto(c, at) /\ sreq[c].at \in StopSteps \cup DownloadSteps
  BY DEF Continue, UploadCreate, UploadScan, UploadAppend, UploadList, StopShareFind,
         StopShareLoop, StopShareUnlist, StopShareErase, DownloadEnter, DownloadDetails,
         DownloadPieces, UploadSteps, StopSteps, DownloadSteps
<1> QED
  BY <1>1, <1>2, <1>3, <1>4

LEMMA CreateEffect ==
  ASSUME TypeOK, NEW c \in Fds, UploadCreate(c), NEW f \in Files, f = sreq[c].f
  PROVE  Stored(f, <<>>)
<1>1. Put(f, <<>>)
  BY DEF UploadCreate
<1>2. <<>> \in Seq(Pieces) /\ Len(<<>>) <= MaxPieces
  BY SharingAssumption
<1> QED
  BY <1>1, <1>2, PutStores

LEMMA ScanEffect ==
  ASSUME TypeOK, NEW c \in Fds, UploadScan(c), sreq[c] \in Uploads,
         NEW f \in Files, f = sreq[c].f, NEW n, n = sreq[c].n
  PROVE  \E new \in Seq(Pieces) :
           /\ Stored(f, new)
           /\ Enriches(new, List(f))
           /\ \/ ~HasNone(new) /\ Goto(c, "upload_list")
              \/ new = List(f) /\ Missing(List(f), n) /\ Goto(c, "upload_append")
<1>1. List(f) \in Seq(Pieces) /\ Len(List(f)) <= MaxPieces
  BY ListType
<1>2. PICK e \in Endpoints, cr \in Credit : e = sreq[c].e /\ cr = sreq[c].cr
  BY DEF Uploads
<1>3. CASE \E k \in DOMAIN List(f) :
             Put(f, WithSource(List(f), k, e, cr)) /\ Goto(c, "upload_list")
  <2>1. PICK k \in DOMAIN List(f) :
          Put(f, WithSource(List(f), k, e, cr)) /\ Goto(c, "upload_list")
    BY <1>3
  <2>2. PICK new : new = WithSource(List(f), k, e, cr)
    OBVIOUS
  <2>3. /\ new \in Seq(Pieces) /\ Len(new) = Len(List(f))
        /\ Enriches(new, List(f)) /\ ~HasNone(new)
    BY <1>1, <1>2, <2>2, WithSourceList
  <2> QED
    BY <1>1, <2>1, <2>2, <2>3, PutStores
<1>4. CASE Put(f, List(f)) /\ Missing(List(f), n) /\ Goto(c, "upload_append")
  <2>1. Stored(f, List(f))
    BY <1>1, <1>4, PutStores
  <2>2. Enriches(List(f), List(f))
    BY DEF Enriches
  <2> QED
    BY <1>1, <1>4, <2>1, <2>2
<1> QED
  BY <1>2, <1>3, <1>4 DEF UploadScan

LEMMA AppendEffect ==
  ASSUME TypeOK, NEW c \in Fds, UploadAppend(c), sreq[c] \in Uploads,
         NEW f \in Files, f = sreq[c].f
  PROVE  Stored(f, Append(List(f), NewPiece(sreq[c])))
<1>1. List(f) \in Seq(Pieces) /\ Len(List(f)) \in Nat
  BY ListType
<1>2. PICK r \in Uploads : r = sreq[c]
  OBVIOUS
<1>3. PICK new : new = Append(List(f), NewPiece(r))
  OBVIOUS
<1>4. new \in Seq(Pieces) /\ Len(new) = Len(List(f)) + 1
  BY <1>1, <1>2, <1>3, AppendList
<1>5. Put(f, new) /\ Len(List(f)) < MaxPieces
  BY <1>2, <1>3 DEF UploadAppend
<1>6. Len(new) <= MaxPieces
  BY <1>1, <1>4, <1>5, SharingAssumption
<1> QED
  BY <1>2, <1>3, <1>4, <1>5, <1>6, PutStores

LEMMA LoopEffect ==
  ASSUME TypeOK, NEW c \in Fds, StopShareLoop(c), NEW f \in Files, f = sreq[c].f
  PROVE  /\ Stored(f, Without(List(f), sreq[c].me))
         /\ \/ HasNone(List(f))' /\ Goto(c, "stop_unlist")
            \/ ~HasNone(List(f))' /\ Finish(c)
<1>1. List(f) \in Seq(Pieces) /\ Len(List(f)) <= MaxPieces
  BY ListType
<1>2. PICK left : left = Without(List(f), sreq[c].me)
  OBVIOUS
<1>3. left \in Seq(Pieces) /\ Len(left) = Len(List(f))
  BY <1>1, <1>2, WithoutList
<1>4. /\ Put(f, left)
      /\ \/ HasNone(left) /\ Goto(c, "stop_unlist")
         \/ ~HasNone(left) /\ Finish(c)
  BY <1>2 DEF StopShareLoop
<1>5. Stored(f, left)
  BY <1>1, <1>3, <1>4, PutStores
<1>6. List(f)' = left
  BY <1>5 DEF Stored
<1> QED
  BY <1>2, <1>4, <1>5, <1>6 DEF HasNone

LEMMA PiecesEffect ==
  ASSUME TypeOK, NEW c \in Fds, DownloadPieces(c), NEW f \in Files, f = sreq[c].f
  PROVE  Stored(f, List(f))
BY ListType, PutStores DEF DownloadPieces

LEMMA EraseEffect ==
  ASSUME TypeOK, NEW c \in Fds, StopShareErase(c), NEW f \in Files, f = sreq[c].f
  PROVE  /\ file_pieces' \in [Files -> Seq(Pieces) \cup {None}]
         /\ \A h \in Files : Len(List(h)') <= MaxPieces
         /\ file_pieces'[f] = None /\ List(f)' = <<>>
         /\ \A h \in Files \ {f} : file_pieces'[h] = file_pieces[h] /\ List(h)' = List(h)
<1>1. file_pieces' = [file_pieces EXCEPT ![f] = None]
  BY DEF StopShareErase, Put
<1>2. /\ file_pieces' \in [Files -> Seq(Pieces) \cup {None}]
      /\ file_pieces'[f] = None
      /\ \A h \in Files \ {f} : file_pieces'[h] = file_pieces[h]
  BY <1>1 DEF TypeOK
<1>3. List(f)' = <<>> /\ \A h \in Files \ {f} : List(h)' = List(h)
  BY <1>2 DEF List
<1>4. Len(<<>>) <= MaxPieces
  BY SharingAssumption
<1> QED
  BY <1>2, <1>3, <1>4, ListType

\* Nothing else of a request in progress writes the lists.
LEMMA OtherSteps ==
  ASSUME NEW c,
         \/ UploadList(c) \/ StopShareFind(c) \/ StopShareUnlist(c)
         \/ DownloadEnter(c) \/ DownloadDetails(c)
  PROVE  UNCHANGED file_pieces
BY DEF UploadList, StopShareFind, StopShareUnlist, DownloadEnter, DownloadDetails, maps

\* What a command leaves alone.
LEMMA CommandKeeps ==
  ASSUME NEW c, NEW me, Commands(c, me) \/ \E e \in Endpoints : Uploading(c, me, e)
  PROVE  Begin /\ sreq[c] = Idle /\ UNCHANGED <<group_file, file_pieces>>
BY DEF Commands, Uploading, Upload, StopShare, DownloadFile, FileDetails, DownloadCompleted,
       Command, maps

-----------------------------------------------------------------------------
(***************************************************************************)
(* The history variable and the types.                                     *)
(***************************************************************************)
\* A request taken up with the history variable staying down finds no other.
LEMMA History ==
  ASSUME overlapped \in BOOLEAN, Begin
  PROVE  /\ overlapped' \in BOOLEAN
         /\ ~overlapped' => ~overlapped /\ \A d \in Fds : ~InProgress(d)
<1>1. CASE \E d \in Fds : InProgress(d)
  BY <1>1 DEF Begin
<1>2. CASE ~\E d \in Fds : InProgress(d)
  BY <1>2 DEF Begin
<1> QED
  BY <1>1, <1>2

LEMMA HistoryType == TypeOK /\ [Next]_vars => overlapped' \in BOOLEAN
<1> SUFFICES ASSUME TypeOK, [Next]_vars
             PROVE  overlapped' \in BOOLEAN
  OBVIOUS
<1>1. overlapped \in BOOLEAN
  BY DEF TypeOK
<1>2. CASE UNCHANGED vars
  BY <1>1, <1>2 DEF vars
<1>3. CASE Restart
  <2>1. overlapped' = FALSE
    BY <1>3 DEF Restart
  <2> QED
    BY <2>1
<1>4. ASSUME NEW c \in Fds, NEW me \in Peers,
             Commands(c, me) \/ \E e \in Endpoints : Uploading(c, me, e)
      PROVE  overlapped' \in BOOLEAN
  BY <1>1, <1>4, CommandKeeps, History
<1>5. ASSUME NEW c \in Fds, Continue(c)
      PROVE  overlapped' \in BOOLEAN
  BY <1>1, <1>5, ContinueKeeps
<1> QED
  BY <1>2, <1>3, <1>4, <1>5 DEF Next

\* A request of the right form is taken up by the thread of c alone.
LEMMA Starting ==
  ASSUME TypeOK, NEW c \in Fds, NEW r \in Uploads \cup Others, Start(c, r)
  PROVE  /\ sreq' \in [Fds -> Uploads \cup Others \cup {Idle}]
         /\ sreq'[c] = r
         /\ \A d \in Fds \ {c} : sreq'[d] = sreq[d]
BY DEF TypeOK, Start

\* Every variable keeps to its type, whatever the schedule of the handlers.
THEOREM SharingTypeOK == Spec => []TypeOK
<1>1. Init => TypeOK
  <2> SUFFICES ASSUME Init
               PROVE  TypeOK
    OBVIOUS
  <2>1. overlapped \in BOOLEAN
    <3>1. overlapped = FALSE
      BY DEF Init
    <3> QED
      BY <3>1
  <2>2. \A f \in Files : List(f) = <<>>
    BY DEF Init, List
  <2>3. MaxPieces \in Nat
    BY SharingAssumption
  <2>4. \A f \in Files : Len(List(f)) <= MaxPieces
    BY <2>2, <2>3
  <2> QED
    BY <2>1, <2>4 DEF Init, TypeOK
<1>2. TypeOK /\ [Next]_vars => TypeOK'
  <2> SUFFICES ASSUME TypeOK, [Next]_vars, overlapped' \in BOOLEAN
               PROVE  TypeOK'
    BY HistoryType
  <2> DEFINE PiecesType == /\ file_pieces' \in [Files -> Seq(Pieces) \cup {None}]
                           /\ \A h \in Files : Len(List(h)') <= MaxPieces
  <2>0. UNCHANGED file_pieces => PiecesType
    BY DEF TypeOK, List
  <2>1. CASE UNCHANGED vars
    BY <2>1 DEF vars, maps, TypeOK, List
  <2>2. CASE Restart
    BY <2>2, SharingAssumption DEF Restart, TypeOK, List
  <2>3. ASSUME NEW c \in Fds, NEW me \in Peers, NEW g \in Groups, NEW f \in Files,
               StopShare(c, me, g, f) \/ DownloadFile(c, me, g, f)
        PROVE  TypeOK'
    <3>1. PICK at \in StopSteps \cup DownloadSteps :
            Start(c, [at |-> at, me |-> me, g |-> g, f |-> f])
      BY <2>3 DEF StopShare, DownloadFile, StopSteps, DownloadSteps
    <3>2. [at |-> at, me |-> me, g |-> g, f |-> f] \in Others
      BY DEF Others
    <3>3. sreq' \in [Fds -> Uploads \cup Others \cup {Idle}]
      BY <3>1, <3>2, Starting
    <3>4. UNCHANGED maps
      BY <2>3 DEF StopShare, DownloadFile
    <3> QED
      BY <2>0, <3>3, <3>4 DEF TypeOK, maps
  <2>4. ASSUME NEW c \in Fds, NEW cr \in Credit, NEW e \in Endpoints, NEW g \in Groups,
               NEW f \in Files, NEW n \in Numbers, Upload(c, cr, e, g, f, n)
        PROVE  TypeOK'
    <3>1. PICK at \in UploadSteps :
            Start(c, [at |-> at, cr |-> cr, e |-> e, g |-> g, f |-> f, n |-> n])
      BY <2>4 DEF Upload
    <3>2. [at |-> at, cr |-> cr, e |-> e, g |-> g, f |-> f, n |-> n] \in Uploads
      BY DEF Uploads
    <3>3. sreq' \in [Fds -> Uploads \cup Others \cup {Idle}]
      BY <3>1, <3>2, Starting
    <3>4. UNCHANGED maps
      BY <2>4 DEF Upload
    <3> QED
      BY <2>0, <3>3, <3>4 DEF TypeOK, maps
  <2>5. ASSUME NEW c \in Fds, NEW me \in Peers, NEW g \in Groups, NEW f \in Files,
               DownloadCompleted(c, me, g, f)
        PROVE  TypeOK'
    BY <2>0, <2>5 DEF DownloadCompleted, TypeOK
  <2>6. ASSUME NEW c \in Fds, NEW f \in Files, NEW v \in Versions, FileDetails(c, f, v)
        PROVE  TypeOK'
    BY <2>0, <2>6 DEF FileDetails, TypeOK
  <2>7. ASSUME NEW c \in Fds, Continue(c)
        PROVE  TypeOK'
    <3>1. \/ sreq[c] \in Uploads /\ sreq[c].at \in UploadSteps
          \/ sreq[c] \in Others /\ sreq[c].at \in StopSteps \cup DownloadSteps
      BY <2>7, ContinueKeeps
    <3>2. sreq' \in [Fds -> Uploads \cup Others \cup {Idle}]
      BY <2>7, ContinueMoves
    <3>3. PICK f \in Files, g \in Groups : f = sreq[c].f /\ g = sreq[c].g
      BY <3>1 DEF Uploads, Others
    <3>4. PiecesType
      <4>1. CASE UploadCreate(c)
        BY <3>3, <4>1, CreateEffect DEF Stored
      <4>2. CASE UploadScan(c)
        <5>1. sreq[c] \in Uploads
          BY <3>1, <4>2 DEF UploadScan, StopSteps, DownloadSteps
        <5> QED
          BY <3>3, <4>2, <5>1, ScanEffect DEF Stored
      <4>3. CASE UploadAppend(c)
        <5>1. sreq[c] \in Uploads
          BY <3>1, <4>3 DEF UploadAppend, StopSteps, DownloadSteps
        <5> QED
          BY <3>3, <4>3, <5>1, AppendEffect DEF Stored
      <4>4. CASE StopShareLoop(c)
        BY <3>3, <4>4, LoopEffect DEF Stored
      <4>5. CASE StopShareErase(c)
        BY <3>3, <4>5, EraseEffect
      <4>6. CASE DownloadPieces(c)
        BY <3>3, <4>6, PiecesEffect DEF Stored
      <4>7. CASE UNCHANGED file_pieces
        BY <2>0, <4>7
      <4> QED
        BY <2>7, <4>1, <4>2, <4>3, <4>4, <4>5, <4>6, <4>7, OtherSteps DEF Continue
    <3>5. group_file' \in [Groups -> SUBSET Files]
      BY <2>7, <3>3 DEF TypeOK, Continue, UploadCreate, UploadScan, UploadAppend, UploadList,
         StopShareFind, StopShareLoop, StopShareUnlist, StopShareErase, DownloadEnter,
         DownloadDetails, DownloadPieces, maps
    <3>6. filedetails' \in [Files -> Versions \cup {None, Undescribed}]
      BY <2>7, <3>3 DEF TypeOK, Continue, UploadCreate, UploadScan, UploadAppend, UploadList,
         StopShareFind, StopShareLoop, StopShareUnlist, StopShareErase, DownloadEnter,
         DownloadDetails, DownloadPieces, maps
    <3>7. downloads' \in [Peers -> SUBSET (Files \X Groups)]
      <4>1. CASE DownloadEnter(c)
        <5>1. sreq[c] \in Others
          BY <3>1, <4>1 DEF DownloadEnter, UploadSteps
        <5>2. PICK me \in Peers : me = sreq[c].me
          BY <5>1 DEF Others
        <5> QED
          BY <3>3, <4>1, <5>2 DEF DownloadEnter, TypeOK
      <4>2. CASE UNCHANGED downloads
        BY <4>2 DEF TypeOK
      <4> QED
        BY <2>7, <4>1, <4>2 DEF Continue, UploadCreate, UploadScan, UploadAppend, UploadList,
           StopShareFind, StopShareLoop, StopShareUnlist, StopShareErase,
           DownloadDetails, DownloadPieces, maps
    <3> QED
      BY <3>2, <3>4, <3>5, <3>6, <3>7 DEF TypeOK
  <2>8. ASSUME NEW c \in Fds, NEW me \in Peers, NEW e \in Endpoints, Uploading(c, me, e)
        PROVE  TypeOK'
    <3>1. PICK v \in Versions, g \in Groups, f \in Files, n \in Numbers :
            Upload(c, [peer |-> me, version |-> v], e, g, f, n)
      BY <2>8 DEF Uploading
    <3>2. [peer |-> me, version |-> v] \in Credit
      BY DEF Credit
    <3> QED
      BY <2>4, <3>1, <3>2
  <2>9. ASSUME NEW c \in Fds, NEW me \in Peers, Commands(c, me)
        PROVE  TypeOK'
    BY <2>3, <2>5, <2>6, <2>9 DEF Commands
  <2> QED
    BY <2>1, <2>2, <2>7, <2>8, <2>9 DEF Next
<1> QED
  BY <1>1, <1>2, PTL DEF Spec

-----------------------------------------------------------------------------
(***************************************************************************)
(* The invariant of the serial schedule.                                   *)
(***************************************************************************)
LEMMA GotoFacts ==
  ASSUME TypeOK, NEW c \in Fds, sreq[c] \in Uploads \cup Others, NEW at, at # "idle", Goto(c, at)
  PROVE  /\ InProgress(c)' /\ sreq'[c].at = at
         /\ sreq'[c].f = sreq[c].f /\ sreq'[c].g = sreq[c].g
         /\ sreq[c] \in Uploads => sreq'[c].n = sreq[c].n
<1>1. sreq'[c] = [sreq[c] EXCEPT !.at = at]
  BY DEF TypeOK, Goto
<1>2. /\ sreq'[c].at = at
      /\ sreq'[c].f = sreq[c].f /\ sreq'[c].g = sreq[c].g
      /\ sreq[c] \in Uploads => sreq'[c].n = sreq[c].n
  BY <1>1 DEF Uploads, Others
<1> QED
  BY <1>2 DEF InProgress, Idle

\* The lists of the other files, and where they are listed, stay as they are.
LEMMA OtherFiles ==
  ASSUME TypeOK, NEW c \in Fds, Continue(c), NEW f \in Files, f = sreq[c].f
  PROVE  \A h \in Files \ {f} :
           /\ file_pieces'[h] = file_pieces[h] /\ List(h)' = List(h)
           /\ \A q \in Groups : h \in group_file'[q] <=> h \in group_file[q]
<1>1. \A h \in Files \ {f} : \A q \in Groups : h \in group_file'[q] <=> h \in group_file[q]
  BY DEF TypeOK, Continue, UploadCreate, UploadScan, UploadAppend, UploadList,
         StopShareFind, StopShareLoop, StopShareUnlist, StopShareErase, DownloadEnter,
         DownloadDetails, DownloadPieces, maps
<1>2. file_pieces' = file_pieces \/ \E list : file_pieces' = [file_pieces EXCEPT ![f] = list]
  BY DEF TypeOK, Continue, UploadCreate, UploadScan, UploadAppend, UploadList,
         StopShareFind, StopShareLoop, StopShareUnlist, StopShareErase, DownloadEnter,
         DownloadDetails, DownloadPieces, maps, Put
<1>3. \A h \in Files \ {f} : file_pieces'[h] = file_pieces[h]
  BY <1>2 DEF TypeOK
<1> QED
  BY <1>1, <1>3 DEF List

\* Numbers stay apart when the numbers of the list do not change.
LEMMA SameNumbers ==
  ASSUME NEW f \in Files, NumbersApart(f), DOMAIN List(f)' = DOMAIN List(f),
         \A k \in DOMAIN List(f) : List(f)'[k].number = List(f)[k].number
  PROVE  NumbersApart(f)'
BY DEF NumbersApart

\* What a request found out still holds at its next visit, and with it the
\* lists stay in order.
LEMMA SerialInvStep == SerialInv /\ TypeOK' /\ [Next]_vars => SerialInv'
<1> DEFINE Goal == AtMostOneInProgress' /\ TestsStillHold' /\ Tidy'
<1> SUFFICES ASSUME SerialInv, TypeOK', [Next]_vars, ~overlapped'
             PROVE  Goal
  BY DEF SerialInv, AtMostOneInProgress, TestsStillHold, Tidy
<1>0. TypeOK
  BY DEF SerialInv
<1>1. CASE UNCHANGED vars
  BY <1>1 DEF SerialInv, vars, maps, AtMostOneInProgress, TestsStillHold, Tidy, InProgress, Found,
              NumbersApart, Listed, Sourced, List, Entering, Erasing, Missing, HasNone
<1>2. CASE Restart
  BY <1>2 DEF Restart, AtMostOneInProgress, TestsStillHold, Tidy, InProgress, NumbersApart, Listed,
              Sourced, List
<1>3. ASSUME NEW c \in Fds, NEW me \in Peers,
             Commands(c, me) \/ \E e \in Endpoints : Uploading(c, me, e)
      PROVE  Goal
  <2>1. Begin /\ UNCHANGED <<group_file, file_pieces>>
    BY <1>3, CommandKeeps
  <2>2. ~overlapped /\ \A d \in Fds : ~InProgress(d)
    BY <1>0, <2>1, History DEF TypeOK
  <2>3. \A f \in Files : List(f)' = List(f) /\ NumbersApart(f)' /\ Listed(f)' /\ Sourced(f)'
    BY <2>1, <2>2 DEF SerialInv, Tidy, NumbersApart, Listed, Sourced, List, HasNone
  <2>4. CASE UNCHANGED sreq
    BY <2>2, <2>3, <2>4 DEF AtMostOneInProgress, TestsStillHold, Tidy, InProgress
  <2>5. ASSUME NEW r \in Uploads \cup Others, Start(c, r), Found(r), r.f \in Files
        PROVE  Goal
    <3>1. sreq'[c] = r /\ \A d \in Fds \ {c} : ~InProgress(d)'
      BY <1>0, <2>2, <2>5, Starting DEF InProgress
    <3>2. Found(sreq[c])'
      BY <2>1, <2>3, <2>5, <3>1 DEF Found, HasNone, Missing
    <3> QED
      BY <2>3, <3>1, <3>2 DEF AtMostOneInProgress, TestsStillHold, Tidy
  <2>6. ASSUME NEW g \in Groups, NEW f \in Files, StopShare(c, me, g, f) \/ DownloadFile(c, me, g, f)
        PROVE  Goal
    <3>1. PICK at \in {"stop_find", "download_enter"} :
            Start(c, [at |-> at, me |-> me, g |-> g, f |-> f])
      BY <2>6 DEF StopShare, DownloadFile
    <3>2. PICK r : r = [at |-> at, me |-> me, g |-> g, f |-> f]
      OBVIOUS
    <3>3. r \in Others /\ r.at = at /\ r.f = f /\ r.g = g
      BY <3>2 DEF Others, StopSteps, DownloadSteps
    <3>4. Found(r)
      BY <2>6, <3>3 DEF StopShare, DownloadFile, Found, UploadSteps
    <3> QED
      BY <2>5, <3>1, <3>2, <3>3, <3>4
  <2>7. ASSUME NEW e \in Endpoints, Uploading(c, me, e)
        PROVE  Goal
    <3>1. PICK v \in Versions, g \in Groups, f \in Files, n \in Numbers :
            Upload(c, [peer |-> me, version |-> v], e, g, f, n)
      BY <2>7 DEF Uploading
    <3>2. PICK cr \in Credit : cr = [peer |-> me, version |-> v]
      BY DEF Credit
    <3>3. PICK at \in {"upload_create", "upload_scan"} :
            /\ at = "upload_create" => file_pieces[f] = None
            /\ Start(c, [at |-> at, cr |-> cr, e |-> e, g |-> g, f |-> f, n |-> n])
      BY <3>1, <3>2 DEF Upload
    <3>4. PICK r : r = [at |-> at, cr |-> cr, e |-> e, g |-> g, f |-> f, n |-> n]
      OBVIOUS
    <3>5. r \in Uploads /\ r.at = at /\ r.f = f /\ r.n = n
      BY <3>4 DEF Uploads, UploadSteps
    <3>6. Found(r)
      BY <3>3, <3>5 DEF Found, List, Missing, StopSteps, DownloadSteps
    <3> QED
      BY <2>5, <3>3, <3>4, <3>5, <3>6
  <2> QED
    BY <1>3, <2>4, <2>6, <2>7 DEF Commands, FileDetails, DownloadCompleted
<1>4. ASSUME NEW c \in Fds, Continue(c)
      PROVE  Goal
  <2>1. /\ \/ sreq[c] \in Uploads /\ sreq[c].at \in UploadSteps
           \/ sreq[c] \in Others /\ sreq[c].at \in StopSteps \cup DownloadSteps
        /\ ~overlapped
    BY <1>0, <1>4, ContinueKeeps
  <2>2. InProgress(c)
    BY <2>1 DEF InProgress, Uploads, Others, Idle, UploadSteps, StopSteps, DownloadSteps
  <2>3. Found(sreq[c]) /\ \A d \in Fds \ {c} : ~InProgress(d)
    BY <2>1, <2>2 DEF SerialInv, TestsStillHold, AtMostOneInProgress
  <2>4. PICK f \in Files, g \in Groups : sreq[c].f = f /\ sreq[c].g = g
    BY <2>1 DEF Uploads, Others
  <2>5. \A h \in Files \ {f} : NumbersApart(h) /\ Listed(h) /\ Sourced(h)
    BY <2>1, <2>3, <2>4 DEF SerialInv, Tidy
  <2>6. /\ NumbersApart(f)
        /\ Listed(f) \/ Entering(sreq[c]) \/ Erasing(sreq[c])
        /\ Sourced(f) \/ Erasing(sreq[c])
    BY <2>1, <2>3, <2>4 DEF SerialInv, Tidy
  <2>7. \A h \in Files \ {f} : NumbersApart(h)' /\ Listed(h)' /\ Sourced(h)'
    <3>1. \A h \in Files \ {f} :
           /\ file_pieces'[h] = file_pieces[h] /\ List(h)' = List(h)
           /\ \A q \in Groups : h \in group_file'[q] <=> h \in group_file[q]
      BY <1>0, <1>4, <2>4, OtherFiles
    <3> QED
      BY <2>5, <3>1 DEF NumbersApart, Listed, Sourced, HasNone
  <2>8. \A d \in Fds \ {c} : ~InProgress(d)'
    BY <1>0, <1>4, <2>3, ContinueMoves DEF InProgress
  <2>9. /\ InProgress(c)' => sreq'[c].f = f /\ Found(sreq[c])'
        /\ NumbersApart(f)'
        /\ Listed(f)' \/ (InProgress(c)' /\ (Entering(sreq[c])' \/ Erasing(sreq[c])'))
        /\ Sourced(f)' \/ (InProgress(c)' /\ Erasing(sreq[c])')
    <3> DEFINE Now(at) == InProgress(c)' /\ sreq'[c].at = at /\ sreq'[c].f = f /\ sreq'[c].g = g
    <3>a. \A at : at # "idle" /\ Goto(c, at) => Now(at) /\ (sreq[c] \in Uploads => sreq'[c].n = sreq[c].n)
      BY <1>0, <2>1, <2>4, GotoFacts
    <3>b. Finish(c) => ~InProgress(c)'
      BY <1>0 DEF Finish, InProgress, TypeOK
    <3>c. sreq[c].at \in UploadSteps => sreq[c] \in Uploads
      BY <2>1 DEF UploadSteps, StopSteps, DownloadSteps
    <3>d. List(f) \in Seq(Pieces)
      BY <1>0, ListType
    <3>1. CASE UploadCreate(c)
      <4>1. Now("upload_scan")
        BY <3>1, <3>a DEF UploadCreate
      <4>2. List(f)' = <<>>
        BY <1>0, <2>4, <3>1, CreateEffect DEF Stored
      <4>. HIDE DEF Now
      <4>. QED
        BY <4>1, <4>2 DEF Now, NumbersApart, Sourced, Entering, Found, StopSteps, DownloadSteps
    <3>2. CASE UploadScan(c)
      <4>1. sreq[c].at = "upload_scan" /\ sreq[c] \in Uploads
        BY <3>2, <3>c DEF UploadScan, UploadSteps
      <4>2. PICK n : n = sreq[c].n
        OBVIOUS
      <4>3. PICK new \in Seq(Pieces) :
              /\ Stored(f, new)
              /\ Enriches(new, List(f))
              /\ \/ ~HasNone(new) /\ Goto(c, "upload_list")
                 \/ new = List(f) /\ Missing(List(f), n) /\ Goto(c, "upload_append")
        BY <1>0, <2>4, <3>2, <4>1, <4>2, ScanEffect
      <4>4. List(f)' = new
        BY <4>3 DEF Stored
      <4>5. NumbersApart(f)'
        BY <2>6, <4>3, <4>4, SameNumbers DEF Enriches
      <4>6. CASE ~HasNone(new) /\ Goto(c, "upload_list")
        <5>1. Now("upload_list")
          BY <3>a, <4>6
        <5>2. ~HasNone(List(f))'
          BY <4>4, <4>6 DEF HasNone
        <5>. HIDE DEF Now
        <5>. QED
          BY <4>5, <5>1, <5>2 DEF Now, Sourced, Entering, Found, StopSteps, DownloadSteps, HasNone
      <4>7. CASE new = List(f) /\ Missing(List(f), n) /\ Goto(c, "upload_append")
        <5>1. Now("upload_append") /\ sreq'[c].n = n
          BY <3>a, <4>1, <4>2, <4>7
        <5>2. Missing(List(f), n)' /\ Sourced(f)
          BY <2>6, <4>1, <4>4, <4>7 DEF Missing, Erasing
        <5>3. Sourced(f)'
          BY <4>4, <4>7, <5>2 DEF Sourced, HasNone
        <5>. HIDE DEF Now
        <5>. QED
          BY <4>5, <5>1, <5>2, <5>3 DEF Now, Entering, Found, StopSteps, DownloadSteps, Missing
      <4>. QED
        BY <4>3, <4>6, <4>7
    <3>3. CASE UploadAppend(c)
      <4>1. sreq[c].at = "upload_append" /\ sreq[c] \in Uploads
        BY <3>3, <3>c DEF UploadAppend, UploadSteps
      <4>2. PICK r \in Uploads : r = sreq[c]
        BY <4>1
      <4>3. PICK new : new = Append(List(f), NewPiece(r))
        OBVIOUS
      <4>4. Missing(List(f), r.n)
        BY <2>3, <2>4, <4>1, <4>2 DEF Found, UploadSteps
      <4>5. /\ ~HasNone(new)
            /\ \A j, k \in DOMAIN new : new[j].number = new[k].number => j = k
        BY <2>6, <3>d, <4>3, <4>4, AppendList DEF NumbersApart
      <4>6. List(f)' = new
        BY <1>0, <2>4, <3>3, <4>1, <4>2, <4>3, AppendEffect DEF Stored
      <4>7. Now("upload_list")
        BY <3>3, <3>a DEF UploadAppend
      <4>. HIDE DEF Now
      <4>. QED
        BY <4>5, <4>6, <4>7
        DEF Now, NumbersApart, Sourced, Entering, Found, StopSteps, DownloadSteps, HasNone
    <3>4. CASE UploadList(c)
      <4>1. ~InProgress(c)' /\ List(f)' = List(f)
        BY <3>4, <3>b DEF UploadList, List
      <4>2. sreq[c].at = "upload_list" /\ f \in group_file'[g]
        BY <1>0, <2>4, <3>4 DEF UploadList, TypeOK
      <4>3. ~HasNone(List(f))
        BY <2>3, <2>4, <4>2 DEF Found
      <4>. QED
        BY <2>6, <4>1, <4>2, <4>3 DEF NumbersApart, Listed, Sourced, HasNone
    <3>5. CASE StopShareFind(c)
      <4>1. /\ List(f)' = List(f) /\ file_pieces'[f] = file_pieces[f] /\ group_file' = group_file
            /\ Finish(c) \/ Goto(c, "stop_loop")
            /\ sreq[c].at = "stop_find"
        BY <3>5 DEF StopShareFind, List, maps
      <4>2. f \in group_file[g]
        BY <2>3, <2>4, <4>1 DEF Found, StopSteps
      <4>3. ~InProgress(c)' \/ Now("stop_loop")
        BY <3>a, <3>b, <4>1
      <4>. HIDE DEF Now
      <4>. QED
        BY <2>6, <4>1, <4>2, <4>3
        DEF Now, NumbersApart, Listed, Sourced, HasNone, Erasing, Found, UploadSteps
    <3>6. CASE StopShareLoop(c)
      <4>1. PICK me : me = sreq[c].me
        OBVIOUS
      <4>2. /\ file_pieces'[f] # None /\ List(f)' = Without(List(f), me)
            /\ \/ HasNone(List(f))' /\ Goto(c, "stop_unlist")
               \/ ~HasNone(List(f))' /\ Finish(c)
        BY <1>0, <2>4, <3>6, <4>1, LoopEffect DEF Stored
      <4>3. NumbersApart(f)'
        BY <2>6, <3>d, <4>2, WithoutList, SameNumbers
      <4>4. f \in group_file[g] /\ group_file' = group_file
        BY <2>3, <2>4, <3>6 DEF Found, StopShareLoop
      <4>5. Goto(c, "stop_unlist") => Now("stop_unlist")
        BY <3>a
      <4>. HIDE DEF Now
      <4>. QED
        BY <3>b, <4>2, <4>3, <4>4, <4>5
        DEF Now, Listed, Sourced, Erasing, Found, UploadSteps, DownloadSteps
    <3>7. CASE StopShareUnlist(c)
      <4>1. List(f)' = List(f) /\ sreq[c].at = "stop_unlist" /\ Now("stop_erase")
        BY <3>7, <3>a DEF StopShareUnlist, List
      <4>2. HasNone(List(f))
        BY <2>3, <2>4, <4>1 DEF Found
      <4>. HIDE DEF Now
      <4>. QED
        BY <2>6, <4>1, <4>2
        DEF Now, NumbersApart, Erasing, Found, UploadSteps, DownloadSteps, HasNone
    <3>8. CASE StopShareErase(c)
      <4>1. ~InProgress(c)' /\ List(f)' = <<>> /\ file_pieces'[f] = None
        BY <1>0, <2>4, <3>8, <3>b, EraseEffect DEF StopShareErase
      <4>. QED
        BY <4>1 DEF NumbersApart, Listed, Sourced
    <3>9. CASE DownloadEnter(c) \/ DownloadDetails(c) \/ DownloadPieces(c)
      <4>1. sreq[c].at \in DownloadSteps /\ group_file' = group_file
        BY <3>9 DEF DownloadEnter, DownloadDetails, DownloadPieces, DownloadSteps
      <4>2. List(f)' = List(f)
        <5>1. CASE DownloadPieces(c)
          BY <1>0, <2>4, <5>1, PiecesEffect DEF Stored
        <5>2. CASE DownloadEnter(c) \/ DownloadDetails(c)
          BY <5>2 DEF DownloadEnter, DownloadDetails, List
        <5> QED
          BY <3>9, <5>1, <5>2
      <4>3. f \in group_file[g]
        BY <2>3, <2>4, <4>1 DEF Found
      <4>4. ~InProgress(c)' \/ Now("download_details") \/ Now("download_pieces")
        BY <3>9, <3>a, <3>b DEF DownloadEnter, DownloadDetails, DownloadPieces
      <4>. HIDE DEF Now
      <4>. QED
        BY <2>6, <4>1, <4>2, <4>3, <4>4
        DEF Now, NumbersApart, Listed, Sourced, HasNone, Erasing, Found, UploadSteps, DownloadSteps
    <3>. QED
      BY <1>4, <3>1, <3>2, <3>3, <3>4, <3>5, <3>6, <3>7, <3>8, <3>9 DEF Continue
  <2>10. \A d \in Fds : InProgress(d)' => d = c /\ Found(sreq[d])'
    BY <2>8, <2>9
  <2> QED
    BY <2>7, <2>9, <2>10 DEF AtMostOneInProgress, TestsStillHold, Tidy
<1> QED
  BY <1>1, <1>2, <1>3, <1>4 DEF Next

\* SerialInv holds throughout.
LEMMA SerialInvHolds == Spec => []SerialInv
<1>1. Init => AtMostOneInProgress /\ TestsStillHold /\ Tidy
  BY DEF Init, AtMostOneInProgress, TestsStillHold, Tidy, InProgress, NumbersApart, Listed, Sourced,
         List
<1>2. Init /\ TypeOK => SerialInv
  BY <1>1 DEF SerialInv
<1> QED
  BY <1>2, SharingTypeOK, SerialInvStep, PTL DEF Spec

\* Until two requests overlap, no piece number appears twice in a file's list.
THEOREM NoPieceIsDuplicated == Spec => []NoDuplicatePiece
<1>1. SerialInv => NoDuplicatePiece
  BY DEF SerialInv, Tidy, NoDuplicatePiece
<1> QED
  BY <1>1, SerialInvHolds, PTL

\* Between two requests, until two overlap, pieces are on record only for files
\* that some group lists.
THEOREM PiecesAreListed == Spec => []NoUnlistedPieces
<1>1. SerialInv => NoUnlistedPieces
  BY DEF SerialInv, Tidy, NoUnlistedPieces, Busy
<1> QED
  BY <1>1, SerialInvHolds, PTL

\* Between two requests, until two overlap, a piece list that is kept has a
\* piece with a source, unless it is empty.
THEOREM KeptListsLeadSomewhere == Spec => []KeptListsHaveSource
<1>1. SerialInv => KeptListsHaveSource
  BY DEF SerialInv, Tidy, KeptListsHaveSource, Busy
<1> QED
  BY <1>1, SerialInvHolds, PTL

-----------------------------------------------------------------------------
(***************************************************************************)
(* Sources.                                                                *)
(***************************************************************************)
\* No source of h goes or changes.
KeepsSources(h) ==
  \A k \in DOMAIN List(h), a \in Endpoints :
    /\ k \in DOMAIN List(h)'
    /\ List(h)'[k].number = List(h)[k].number
    /\ List(h)[k].sources[a] # None => List(h)'[k].sources[a] = List(h)[k].sources[a]

\* The steps that may take a source away: an upload that stores an empty list,
\* and stop_share's loop and erasure.  All others keep every source.
LEMMA SourcesGo ==
  ASSUME TypeOK, [Next]_vars, ~Restart,
         ~\E c \in Fds : UploadCreate(c) \/ StopShareLoop(c) \/ StopShareErase(c)
  PROVE  \A h \in Files : KeepsSources(h)
<1> USE DEF KeepsSources
<1>1. CASE UNCHANGED file_pieces
  BY <1>1 DEF List
<1>2. ASSUME NEW c \in Fds, Continue(c), ~UNCHANGED file_pieces
      PROVE  \A h \in Files : KeepsSources(h)
  <2>1. \/ sreq[c] \in Uploads /\ sreq[c].at \in UploadSteps
        \/ sreq[c] \in Others /\ sreq[c].at \in StopSteps \cup DownloadSteps
    BY <1>2, ContinueKeeps
  <2>2. PICK f \in Files : f = sreq[c].f
    BY <2>1 DEF Uploads, Others
  <2>3. \A h \in Files \ {f} : List(h)' = List(h)
    BY <1>2, <2>2, OtherFiles
  <2>4. \A h \in Files \ {f} : KeepsSources(h)
    BY <2>3
  <2>5. CASE UploadScan(c)
    <3>1. sreq[c] \in Uploads
      BY <2>1, <2>5 DEF UploadScan, StopSteps, DownloadSteps
    <3>2. PICK n : n = sreq[c].n
      OBVIOUS
    <3>3. PICK new \in Seq(Pieces) : Stored(f, new) /\ Enriches(new, List(f))
      BY <2>2, <2>5, <3>1, <3>2, ScanEffect
    <3>4. List(f)' = new
      BY <3>3 DEF Stored
    <3>. QED
      BY <2>4, <3>3, <3>4 DEF Enriches
  <2>6. CASE UploadAppend(c)
    <3>1. PICK r \in Uploads : r = sreq[c]
      BY <2>1, <2>6 DEF UploadAppend, StopSteps, DownloadSteps
    <3>2. PICK new : new = Append(List(f), NewPiece(r))
      OBVIOUS
    <3>3. List(f)' = new
      BY <2>2, <2>6, <3>1, <3>2, AppendEffect DEF Stored
    <3>4. \A k \in DOMAIN List(f) : k \in DOMAIN new /\ new[k] = List(f)[k]
      BY <3>2, ListType, AppendList
    <3>. QED
      BY <2>4, <3>3, <3>4
  <2>7. CASE DownloadPieces(c)
    <3>1. List(f)' = List(f)
      BY <2>2, <2>7, PiecesEffect DEF Stored
    <3>. QED
      BY <2>4, <3>1
  <2>. QED
    BY <1>2, <2>5, <2>6, <2>7, OtherSteps DEF Continue
<1>3. ASSUME NEW c \in Fds, NEW me \in Peers,
             Commands(c, me) \/ \E e \in Endpoints : Uploading(c, me, e)
      PROVE  UNCHANGED file_pieces
  BY <1>3, CommandKeeps
<1>. QED
  BY <1>1, <1>2, <1>3 DEF Next, vars, maps

\* A credit stays as it is until it is withdrawn, whatever the schedule.
THEOREM CreditsStay == Spec => CreditStays
<1> DEFINE A == \A f \in Files, n \in Numbers, e \in Endpoints :
                  \A k \in DOMAIN List(f) :
                    LET old == List(f)[k].sources[e]
                    IN old # None /\ k \in DOMAIN List(f)'
                         => List(f)'[k].sources[e] \in {old, None}
<1>1. ASSUME TypeOK, [Next]_vars
      PROVE  A
  <2>1. CASE \A h \in Files : List(h)' \in {List(h), <<>>}
    BY <2>1
  <2>2. CASE Restart
    BY <2>1, <2>2 DEF Restart, List
  <2>3. ASSUME NEW c \in Fds, UploadCreate(c) \/ StopShareErase(c)
        PROVE  A
    <3>1. Continue(c)
      BY <2>3 DEF Continue
    <3>2. PICK f \in Files : f = sreq[c].f
      BY <1>1, <3>1, ContinueKeeps DEF Uploads, Others
    <3>3. \A h \in Files \ {f} : List(h)' = List(h)
      BY <1>1, <3>1, <3>2, OtherFiles
    <3>4. List(f)' = <<>>
      BY <1>1, <2>3, <3>2, CreateEffect, EraseEffect DEF Stored
    <3>. QED
      BY <2>1, <3>3, <3>4
  <2>4. ASSUME NEW c \in Fds, StopShareLoop(c)
        PROVE  A
    <3>1. Continue(c)
      BY <2>4 DEF Continue
    <3>2. PICK f \in Files, me \in Peers : f = sreq[c].f /\ me = sreq[c].me
      BY <1>1, <2>4, <3>1, ContinueKeeps DEF Others, StopShareLoop, UploadSteps
    <3>3. \A h \in Files \ {f} : List(h)' = List(h)
      BY <1>1, <3>1, <3>2, OtherFiles
    <3>4. List(f)' = Without(List(f), me) /\ List(f) \in Seq(Pieces)
      BY <1>1, <2>4, <3>2, ListType, LoopEffect DEF Stored
    <3>5. \A k \in DOMAIN List(f), e \in Endpoints :
            List(f)'[k].sources[e] \in {List(f)[k].sources[e], None}
      BY <3>4, WithoutList
    <3>. QED
      BY <3>3, <3>5
  <2>5. CASE \A h \in Files : KeepsSources(h)
    BY <2>5 DEF KeepsSources
  <2>. QED
    BY <1>1, <2>2, <2>3, <2>4, <2>5, SourcesGo
<1>. QED
  BY <1>1, SharingTypeOK, PTL DEF Spec, CreditStays

\* Until two requests overlap, only stop_share on behalf of the very peer takes
\* its credit away.
THEOREM OnlyOwnSourcesGo == Spec => OthersSourcesKept
<1> DEFINE B == \A f \in Files, n \in Numbers, e \in Endpoints :
                  \A cr \in Credited(f, n, e) \ Credited(f, n, e)' :
                    \E c \in Fds : /\ sreq[c].at = "stop_loop"
                                   /\ sreq[c].me = cr.peer
                                   /\ sreq[c].f = f
<1>1. ASSUME SerialInv, [Next]_vars, ~overlapped, ~Restarted
      PROVE  B
  <2>0. TypeOK /\ ~Restart
    BY <1>1 DEF SerialInv, Restart, Restarted
  <2>1. ASSUME \A h \in Files : KeepsSources(h)
        PROVE  B
    <3>1. \A f \in Files, n \in Numbers, e \in Endpoints : Credited(f, n, e) \subseteq Credited(f, n, e)'
      BY <2>1 DEF Credited, KeepsSources
    <3>. QED
      BY <3>1
  <2>2. ASSUME NEW c \in Fds, UploadCreate(c) \/ StopShareErase(c)
        PROVE  B
    <3>1. Continue(c)
      BY <2>2 DEF Continue
    <3>2. PICK f \in Files : f = sreq[c].f
      BY <2>0, <3>1, ContinueKeeps DEF Uploads, Others
    <3>3. \A h \in Files \ {f} : List(h)' = List(h)
      BY <2>0, <3>1, <3>2, OtherFiles
    <3>4. Found(sreq[c]) /\ sreq[c].at \in {"upload_create", "stop_erase"}
      <4>1. sreq[c].at \in {"upload_create", "stop_erase"}
        BY <2>2 DEF UploadCreate, StopShareErase
      <4>. QED
        BY <1>1, <4>1 DEF SerialInv, TestsStillHold, InProgress, Idle
    <3>5. HasNone(List(f))
      BY <3>2, <3>4 DEF Found, List, HasNone
    <3>6. \A n \in Numbers, e \in Endpoints : Credited(f, n, e) = {}
      BY <3>5 DEF HasNone, Credited, NoSource
    <3>7. \A h \in Files \ {f}, n \in Numbers, e \in Endpoints : Credited(h, n, e)' = Credited(h, n, e)
      BY <3>3 DEF Credited
    <3>. QED
      BY <3>6, <3>7
  <2>3. ASSUME NEW c \in Fds, StopShareLoop(c)
        PROVE  B
    <3>1. Continue(c)
      BY <2>3 DEF Continue
    <3>2. PICK f \in Files, me \in Peers : f = sreq[c].f /\ me = sreq[c].me
      BY <2>0, <2>3, <3>1, ContinueKeeps DEF Others, StopShareLoop, UploadSteps
    <3>3. \A h \in Files \ {f} : List(h)' = List(h)
      BY <2>0, <3>1, <3>2, OtherFiles
    <3>4. List(f)' = Without(List(f), me) /\ List(f) \in Seq(Pieces)
      BY <2>0, <2>3, <3>2, ListType, LoopEffect DEF Stored
    <3>5. ASSUME NEW h \in Files, NEW n \in Numbers, NEW e \in Endpoints,
                 NEW cr \in Credited(h, n, e) \ Credited(h, n, e)'
          PROVE  h = f /\ cr.peer = me
      <4>1. PICK k \in DOMAIN List(h) : List(h)[k].number = n /\ cr = List(h)[k].sources[e] /\ cr # None
        BY <3>5 DEF Credited
      <4>2. ~(k \in DOMAIN List(h)' /\ List(h)'[k].number = n /\ List(h)'[k].sources[e] = cr)
        BY <3>5, <4>1 DEF Credited
      <4>3. h = f
        BY <3>3, <4>1, <4>2
      <4>. QED
        BY <3>4, <4>1, <4>2, <4>3, WithoutList
    <3>6. sreq[c].at = "stop_loop"
      BY <2>3 DEF StopShareLoop
    <3>. QED
      BY <3>2, <3>5, <3>6
  <2>. QED
    BY <1>1, <2>0, <2>1, <2>2, <2>3, SourcesGo
<1> DEFINE A == \/ Restarted
                \/ overlapped
                \/ B
<1>2. SerialInv /\ [Next]_vars => [A]_vars
  BY <1>1
<1>. QED
  BY <1>2, SerialInvHolds, PTL DEF Spec, OthersSourcesKept
=============================================================================
