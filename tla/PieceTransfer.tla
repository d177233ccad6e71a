--------------------------- MODULE PieceTransfer ---------------------------
(***************************************************************************)
(* Downloads between peers: the upload and download branches of main       *)
(* (src/src/peer.cpp) with download, piece_creation and the serving thread *)
(* handle_peer (src/src/helper_peer.cpp).  One file name; a peer keeps the *)
(* file under one path, both served from and downloaded to.                *)
(*                                                                         *)
(* A peer is one process: its console fetches piece after piece, from one  *)
(* source each, tests the hash of the whole file and, when that is right,  *)
(* announces the pieces to the tracker; its serving threads answer at any  *)
(* moment, from whatever is on the disk.  An attempt at a piece is the     *)
(* connection and then what becomes of it: served, ended by the exit of    *)
(* the source, lost half-way, or silent for ever.                          *)
(*                                                                         *)
(* Abstractions.  The file is one of the name: a piece on a disk is        *)
(* "right" if it is that of the file, and "wrong" if not.  The other files *)
(* of the name differ in their pieces and in the length of the last one,   *)
(* not in the number of pieces; none is the file less some bytes at its    *)
(* end.  A destination can be opened and written.  The tracker is what it  *)
(* records of the name, and talks to each peer in step; a request to it is *)
(* a scan and a push_back, as in module Sharing, and two may overlap.      *)
(***************************************************************************)
EXTENDS Naturals, Sequences, FiniteSets

CONSTANTS
  Peers,        \* peer processes
  None,         \* no such peer
  NumPieces,    \* pieces of the file
  LastShort,    \* is the last piece shorter than PIECE_SIZE?
  Others,       \* other files of that name
  Found,        \* Found[p]: what may be at the path of p to begin with
  Local,        \* Local[p, s]: whose file the path of s names on the machine of
                \* p: that of p, of s (the same machine), or nobody's (None)
  MaxRetries,   \* MAX_RETRIES
  MaxFaults,    \* bound on what users and the network do to the processes
  MaxCommands   \* bound on the commands typed on the consoles

Pieces == 0 .. NumPieces - 1
Last   == NumPieces - 1

Absent  == [data |-> <<>>, longer |-> FALSE]
Content == [data : [Pieces -> {"right", "wrong"}], longer : BOOLEAN]
Exact   == [data |-> [k \in Pieces |-> "right"], longer |-> FALSE]
Holes   == [data |-> [k \in Pieces |-> "wrong"], longer |-> FALSE]

ASSUME PieceTransferAssumption ==
  /\ None \notin Peers /\ IsFiniteSet(Peers)
  /\ NumPieces \in Nat \ {0} /\ LastShort \in BOOLEAN
  /\ Others \subseteq Content \ {Exact}
  /\ Found \in [Peers -> SUBSET ({Exact, Absent} \cup Others)]
  /\ Local \in [Peers \X Peers -> Peers \cup {None}]
  /\ MaxRetries \in Nat \ {0} /\ MaxFaults \in Nat /\ MaxCommands \in Nat

VARIABLES
  alive,      \* is the peer's process running?
  disk,       \* what is at the peer's path; "longer" than the file is
  list,       \* the tracker's file_pieces entry: numbers with sources
  listed,     \* is the name in the list of the group?
  details,    \* whose size and hash the tracker has: of "file" or of an "other"
  console,    \* peer -> what its main thread is in the middle of
  hung_up,    \* peers with a thread that may send to a connection that is gone
  faults, commands,
  touched,    \* history: the user, or the end of the process, left the file as it is
  rewritten,  \* history: a copy was downloaded over
  strays,     \* history: had, announced or downloaded another file of the name
  killed,     \* history: processes ended by the exit of a serving thread
  broken      \* history: has a process ended or a connection failed?

tracker == <<list, listed, details>>
history == <<touched, rewritten, strays, killed, broken>>
vars == <<alive, disk, tracker, console, hung_up, faults, commands, history>>

Plans == [Pieces -> SUBSET (Peers \cup {None})]
Idle       == [op |-> "idle"]
Seeding(k) == [op |-> "seed", next |-> k, append |-> FALSE]

Init ==
  /\ alive = [p \in Peers |-> TRUE]
  /\ disk \in {d \in [Peers -> {Exact, Absent} \cup Others] : \A p \in Peers : d[p] \in Found[p]}
  /\ list = <<>> /\ listed = FALSE /\ details = "file"
  /\ console = [p \in Peers |-> Idle]
  /\ hung_up = {}
  /\ faults = 0 /\ commands = 0
  /\ touched = {} /\ rewritten = {} /\ killed = {} /\ broken = FALSE
  /\ strays = {p \in Peers : disk[p] \in Others}

Up == {p \in Peers : alive[p]}

Sources == UNION {list[i].sources : i \in DOMAIN list}

\* A command is typed: the console is at its prompt.
Prompt(p) ==
  /\ alive[p] /\ console[p] = Idle
  /\ commands < MaxCommands
  /\ commands' = commands + 1

Turn(p, what) == console' = [console EXCEPT ![p] = what]

(***************************************************************************)
(* download_file: the details and the plan                                 *)
(***************************************************************************)
\* The file with d in place of piece k, and more behind its end when it grew.
Written(c, k, d, grown) ==
  [data |-> [c.data EXCEPT ![k] = d], longer |-> c.longer \/ grown]

\* The destination is created if need be, never truncated, and a byte is
\* written at the end of the size announced: that of the file, or another.
Presized(c, grown) ==
  Written(IF c = Absent THEN Holes ELSE c, Last, "wrong", grown)

\* Entries the parser takes for what they are: it skips the number of the
\* first one unseen and expects the others to count up from 1.
Aligned == {i \in DOMAIN list : \A j \in 2 .. i : list[j].number = j - 1}

\* piece_map.  Behind the aligned entries every line is taken for the field
\* before it, which yields sources that nobody can connect to.
PieceMap(bogus) ==
  [k \in Pieces |->
     IF k + 1 \in Aligned
     THEN list[k + 1].sources \cup IF bogus /\ k + 2 \notin Aligned THEN {None} ELSE {}
     ELSE {}]

Planned(plan) == {k \in Pieces : plan[k] # {}}

Fetching(want, plan, todo) ==
  IF todo = {}
  THEN [op |-> "verify", want |-> want, plan |-> plan]
  ELSE [op |-> "fetch", want |-> want, plan |-> plan, todo |-> todo,
        src |-> None, tries |-> 0, link |-> "none"]

Overwrite(p) ==
  /\ \E grown \in {FALSE, details = "other"} :
       disk' = [disk EXCEPT ![p] = Presized(@, grown)]
  /\ rewritten' = rewritten \cup {q \in {p} : disk[q] # Absent}
  /\ strays' = strays \cup {q \in {p} : details = "other"}

Download(p) ==
  /\ Prompt(p) /\ listed /\ list # <<>>
  /\ Overwrite(p)
  /\ \E bogus \in IF Aligned = DOMAIN list THEN {FALSE} ELSE BOOLEAN :
       Turn(p, Fetching(details, PieceMap(bogus), Planned(PieceMap(bogus))))
  /\ UNCHANGED <<alive, tracker, hung_up, faults, touched, killed, broken>>

(***************************************************************************)
(* The end of a process                                                    *)
(***************************************************************************)
\* A peer that p is connected to for a piece.
Connected(p, s) ==
  console[p].op = "fetch" /\ console[p].link = "open" /\ console[p].src = s

\* However it ends: who was connected to it loses the connection, and whom it
\* was connected to may be sending still.  A push_back under way is the
\* tracker's and is made all the same.
End(s) ==
  /\ alive[s]
  /\ console[s].op = "seed" => ~console[s].append
  /\ alive' = [alive EXCEPT ![s] = FALSE]
  /\ hung_up' = (hung_up \cup {q \in Peers : Connected(s, q)}) \ {s}
  /\ broken' = TRUE

\* The consoles then.
Without(s) ==
  [q \in Peers |->
     IF q = s THEN Idle
     ELSE IF Connected(q, s) THEN [console[q] EXCEPT !.link = "lost"]
     ELSE console[q]]

Interrupted(s) == {q \in {s} : console[q].op \in {"fetch", "verify"}}

\* stoi() throws on a line that is no number, and nothing catches it: on the
\* first line of the answer when no entry follows the hash, and perhaps when
\* the entries are not aligned.
DownloadAborts(p) ==
  /\ Prompt(p) /\ listed
  /\ list = <<>> \/ Aligned # DOMAIN list
  /\ Overwrite(p)
  /\ End(p) /\ console' = Without(p)
  /\ touched' = touched \cup {p}
  /\ UNCHANGED <<tracker, faults, killed>>

Fault(p) == faults < MaxFaults /\ faults' = faults + 1

\* The user quits, or ends the process in another way.
Quit(p) ==
  /\ Fault(p)
  /\ End(p) /\ console' = Without(p)
  /\ touched' = touched \cup Interrupted(p)
  /\ UNCHANGED <<disk, tracker, commands, rewritten, strays, killed>>

\* send() to a connection whose other end is gone raises SIGPIPE, which nobody
\* handles: in a serving thread, or on the console during its request.
SigPipe(p) ==
  /\ p \in hung_up \/ (console[p].op = "fetch" /\ console[p].link = "lost")
  /\ End(p) /\ console' = Without(p)
  /\ touched' = touched \cup Interrupted(p)
  /\ UNCHANGED <<disk, tracker, faults, commands, rewritten, strays, killed>>

Restart(p) ==
  /\ ~alive[p]
  /\ alive' = [alive EXCEPT ![p] = TRUE]
  /\ UNCHANGED <<disk, tracker, console, hung_up, faults, commands, history>>

(***************************************************************************)
(* download: the attempts at one piece                                     *)
(***************************************************************************)
\* The pieces with the fewest sources first.
Rarest(plan, todo) ==
  CHOOSE k \in todo : \A j \in todo :
    \/ Cardinality(plan[k]) < Cardinality(plan[j])
    \/ Cardinality(plan[k]) = Cardinality(plan[j]) /\ k <= j

Piece(p) == Rarest(console[p].plan, console[p].todo)

NextPiece(p) ==
  Fetching(console[p].want, console[p].plan, console[p].todo \ {Piece(p)})

\* The slip of a failed attempt that is not counted.
RetryUncounted(p) == [console[p] EXCEPT !.link = "none"]

Retry(p) ==
  IF console[p].tries + 1 = MaxRetries THEN NextPiece(p)
  ELSE [console[p] EXCEPT !.tries = @ + 1, !.link = "none"]

\* download is called with one source, picked at random, and keeps to it.
Asks(p, s) ==
  /\ console[p].op = "fetch" /\ console[p].link = "none"
  /\ s \in IF console[p].tries = 0 THEN console[p].plan[Piece(p)] ELSE {console[p].src}

Connect(p, s) ==
  /\ Asks(p, s) /\ s \in Up
  /\ Turn(p, [console[p] EXCEPT !.src = s, !.link = "open"])
  /\ UNCHANGED <<alive, disk, tracker, hung_up, faults, commands, history>>

\* No address, or nobody listens there: the piece is given up at once.
Refused(p, s) ==
  /\ Asks(p, s) /\ s \notin Up
  /\ Turn(p, NextPiece(p))
  /\ UNCHANGED <<alive, disk, tracker, hung_up, faults, commands, history>>

\* The serving thread cannot open the file: exit(1) ends the whole process of
\* the source.  To the downloader the connection just ends.
ServerExits(p, s) ==
  /\ Connected(p, s) /\ disk[s] = Absent
  /\ End(s) /\ console' = [Without(s) EXCEPT ![p] = Retry(p)]
  /\ killed' = killed \cup {s}
  /\ touched' = touched \cup Interrupted(s)
  /\ UNCHANGED <<disk, tracker, faults, commands, rewritten, strays>>

\* A source whose file is longer sends more than a short last piece.
Grows(s, k) == LastShort /\ k = Last /\ disk[s].longer

\* A file on this machine under the path of the source, hashed by shapiece.
Hashed(p, s, files) == Local[p, s] # None /\ files[Local[p, s]] # Absent

\* What was written counts as received if it has the size of a full piece and
\* its number's piece of that file has the hash the source announced: of a piece
\* of the file unless the source has announced another.
Genuine(p, s, k, files) ==
  ~(LastShort /\ k = Last) /\ files[Local[p, s]].data[k] = "right"

MayPass(p, s, k, files) ==
  Hashed(p, s, files) /\ (s \in strays \/ Grows(s, k) \/ Genuine(p, s, k, files))

MayFail(p, s, k, files) ==
  Hashed(p, s, files) => (s \in strays \/ Grows(s, k) \/ ~Genuine(p, s, k, files))

Tested(p, s, files) ==
  \/ MayPass(p, s, Piece(p), files) /\ Turn(p, NextPiece(p))
  \/ MayFail(p, s, Piece(p), files) /\ Turn(p, Retry(p))

\* open() with O_TRUNC for every piece.
ServeTruncating(p, s) ==
  /\ Connected(p, s) /\ disk[s] # Absent
  /\ disk' = [disk EXCEPT ![p] = [Holes EXCEPT !.data[Piece(p)] = disk[s].data[Piece(p)]]]
  /\ Tested(p, s, disk')
  /\ UNCHANGED <<alive, tracker, hung_up, faults, commands, history>>

\* The source sends what it has of the piece; it is written whatever it is.
Serve(p, s) ==
  /\ Connected(p, s) /\ disk[s] # Absent
  /\ disk' = [disk EXCEPT ![p] = Written(@, Piece(p), disk[s].data[Piece(p)],
                                          Grows(s, Piece(p)))]
  /\ Tested(p, s, disk')
  /\ UNCHANGED <<alive, tracker, hung_up, faults, commands, history>>

\* The connection is lost with the piece written in part or not at all.
Lost(p) ==
  /\ console[p].op = "fetch" /\ console[p].link = "lost"
  /\ LET s == console[p].src
         k == Piece(p)
     IN \E d \in {disk[p].data[k], IF disk[s] = Absent THEN "wrong" ELSE disk[s].data[k]},
          grown \in {FALSE, Grows(s, k)} :
            disk' = [disk EXCEPT ![p] = Written(@, k, d, grown)]
  /\ Turn(p, Retry(p))
  /\ UNCHANGED <<alive, tracker, hung_up, faults, commands, history>>

Attempt(p) ==
  \/ Lost(p)
  \/ \E s \in Peers \cup {None} :
       Connect(p, s) \/ Refused(p, s) \/ ServerExits(p, s) \/ Serve(p, s)

\* The network gives a connection up, at both ends.
Reset(p, s) ==
  /\ Fault(p) /\ Connected(p, s)
  /\ Turn(p, [console[p] EXCEPT !.link = "lost"])
  /\ hung_up' = hung_up \cup {s}
  /\ broken' = TRUE
  /\ UNCHANGED <<alive, disk, tracker, commands, touched, rewritten, strays, killed>>

\* The host of the source vanishes, or its thread stops sending: recv() has no
\* timeout.
Stall(p, s) ==
  /\ Fault(p) /\ Connected(p, s)
  /\ Turn(p, [console[p] EXCEPT !.link = "stalled"])
  /\ broken' = TRUE
  /\ UNCHANGED <<alive, disk, tracker, hung_up, commands, touched, rewritten, strays, killed>>

\* A peer that is up cannot be reached: connect() fails in the end.
Unreachable(p, s) ==
  /\ Fault(p) /\ Asks(p, s) /\ s \in Up
  /\ Turn(p, NextPiece(p))
  /\ broken' = TRUE
  /\ UNCHANGED <<alive, disk, tracker, hung_up, commands, touched, rewritten, strays, killed>>

Network(p) ==
  \E s \in Peers : Reset(p, s) \/ Stall(p, s) \/ Unreachable(p, s)

(***************************************************************************)
(* The hash test and piece_creation                                        *)
(***************************************************************************)
\* The hash is that of the details: of the file, or of another of the name.
Matches(p) ==
  IF console[p].want = "file" THEN disk[p] = Exact ELSE disk[p] # Exact

Differs(p) == console[p].want = "file" => disk[p] # Exact

\* The destination stays when the hash is wrong.
VerifyKeeping(p) ==
  /\ console[p].op = "verify"
  /\ \/ Matches(p) /\ Turn(p, Seeding(0))
     \/ Differs(p) /\ Turn(p, Idle)
  /\ UNCHANGED <<alive, disk, tracker, hung_up, faults, commands, history>>

\* Seeding whatever came of the download.
VerifySeedAlways(p) ==
  /\ console[p].op = "verify"
  /\ Turn(p, Seeding(0))
  /\ UNCHANGED <<alive, disk, tracker, hung_up, faults, commands, history>>

\* Announcing the pieces although the file has been unlinked.
VerifySeedUnlinked(p) ==
  /\ console[p].op = "verify"
  /\ \/ Matches(p) /\ UNCHANGED disk
     \/ Differs(p) /\ disk' = [disk EXCEPT ![p] = Absent]
  /\ Turn(p, Seeding(0))
  /\ UNCHANGED <<alive, tracker, hung_up, faults, commands, history>>

\* A file that fails the test is unlinked, and piece_creation, which is called
\* all the same, finds nothing to read.
Verify(p) ==
  /\ console[p].op = "verify"
  /\ \/ Matches(p) /\ Turn(p, Seeding(0)) /\ UNCHANGED disk
     \/ Differs(p) /\ Turn(p, Idle) /\ disk' = [disk EXCEPT ![p] = Absent]
  /\ UNCHANGED <<alive, tracker, hung_up, faults, commands, history>>

\* upload_file typed: whatever file is there is the one the details are of.
Upload(p) ==
  /\ Prompt(p) /\ disk[p] # Absent
  /\ \/ disk[p] = Exact /\ details' = "file" /\ UNCHANGED strays
     \/ disk[p] # Exact /\ details' = "other" /\ strays' = strays \cup {p}
  /\ Turn(p, Seeding(0))
  /\ UNCHANGED <<alive, disk, list, listed, hung_up, faults, touched, rewritten, killed, broken>>

\* A loop that announces one piece too many.
SeededTooFar(k) == IF k = NumPieces THEN Idle ELSE Seeding(k + 1)

Seeded(k) == IF k = Last THEN Idle ELSE Seeding(k + 1)

\* One upload_file of piece_creation at the tracker: the scan, and a source
\* more for the piece when it is there.
AnnounceScan(p) ==
  /\ console[p].op = "seed" /\ ~console[p].append
  /\ LET k     == console[p].next
         found == {i \in DOMAIN list : list[i].number = k}
     IN \/ \E i \in found :
             /\ \A j \in found : i <= j
             /\ list' = [list EXCEPT ![i].sources = @ \cup {p}]
             /\ listed' = TRUE
             /\ Turn(p, Seeded(k))
        \/ /\ found = {}
           /\ Turn(p, [console[p] EXCEPT !.append = TRUE])
           /\ UNCHANGED <<list, listed>>
  /\ UNCHANGED <<alive, disk, details, hung_up, faults, commands, history>>

AnnounceAppend(p) ==
  /\ console[p].op = "seed" /\ console[p].append
  /\ list' = Append(list, [number |-> console[p].next, sources |-> {p}])
  /\ listed' = TRUE
  /\ Turn(p, Seeded(console[p].next))
  /\ UNCHANGED <<alive, disk, details, hung_up, faults, commands, history>>

\* stop_share: a list without any source is erased; the name stays listed if
\* another group has it too.
StopShare(p) ==
  /\ Prompt(p) /\ listed /\ list # <<>>
  /\ LET left == [i \in DOMAIN list |-> [list[i] EXCEPT !.sources = @ \ {p}]]
     IN \/ /\ \A i \in DOMAIN list : left[i].sources = {}
           /\ list' = <<>> /\ listed' \in BOOLEAN
        \/ /\ \E i \in DOMAIN list : left[i].sources # {}
           /\ list' = left /\ UNCHANGED listed
  /\ UNCHANGED <<alive, disk, details, console, hung_up, faults, history>>

\* The file is removed or replaced between two commands.
Touch(p) ==
  /\ Fault(p) /\ console[p] = Idle
  /\ \E c \in {Absent} \cup Others : disk' = [disk EXCEPT ![p] = c]
  /\ touched' = touched \cup {p}
  /\ UNCHANGED <<alive, tracker, console, hung_up, commands, rewritten, strays, killed, broken>>

Next ==
  \E p \in Peers :
    \/ Upload(p) \/ StopShare(p) \/ Download(p) \/ DownloadAborts(p)
    \/ Attempt(p) \/ Verify(p) \/ AnnounceScan(p) \/ AnnounceAppend(p)
    \/ Network(p) \/ SigPipe(p) \/ Quit(p) \/ Restart(p) \/ Touch(p)

Spec == Init /\ [][Next]_vars

\* A console goes on with its download, a source that is connected answers, and
\* a connection that is lost is noticed; one that is stalled asks for nothing.
Fairness == \A p \in Peers : WF_vars(Attempt(p))

FairSpec == Spec /\ Fairness

-----------------------------------------------------------------------------
Hashes == {"file", "other"}

Fetches == [op : {"fetch"}, want : Hashes, plan : Plans, todo : (SUBSET Pieces) \ {{}},
            src : Peers \cup {None}, tries : 0 .. MaxRetries - 1,
            link : {"none", "open", "lost", "stalled"}]

Consoles == {Idle} \cup [op : {"verify"}, want : Hashes, plan : Plans] \cup Fetches
              \cup [op : {"seed"}, next : Pieces, append : BOOLEAN]

Entries == [number : Pieces, sources : SUBSET Peers]

TypeOK ==
  /\ alive \in [Peers -> BOOLEAN]
  /\ disk \in [Peers -> Content \cup {Absent}]
  /\ list \in Seq(Entries)
  /\ listed \in BOOLEAN /\ details \in Hashes
  /\ console \in [Peers -> Consoles]
  /\ faults \in 0 .. MaxFaults /\ commands \in 0 .. MaxCommands
  /\ hung_up \subseteq Peers
  /\ touched \subseteq Peers /\ rewritten \subseteq Peers /\ strays \subseteq Peers
  /\ killed \subseteq Peers /\ broken \in BOOLEAN

Spoiled == touched \cup rewritten \cup strays

\* The file spreads unmixed with others of its name: a peer that has had no other
\* file of the name, by publishing, downloading or replacing it, and has not
\* downloaded over its copy, is on record as a source only with the exact file,
\* although others publish other files under the name and serve their pieces.
SeedsAreExact ==
  \A p \in Sources : p \in Spoiled \/ disk[p] = Exact

\* The exit(1) of the serving thread hits only peers whose copy was removed,
\* left unfinished or downloaded over: no sequence of downloads by the others
\* makes it end a peer that has left its copy alone.  (SIGPIPE may: SigPipe.)
OnlySpoiledAreKilled == killed \subseteq touched \cup rewritten

\* When a console is not in the middle of a download, its destination holds
\* the file or nothing: neither given-up pieces nor sources that lied or left
\* leave a partial file, unless the process ended or the user had a hand in it,
\* or another file of the name was there or asked for.
NoPartialLeft ==
  \A p \in Peers \ (touched \cup strays) :
    console[p].op \notin {"fetch", "verify"} => disk[p] \in {Exact, Absent}

\* A download fails only for a reason: with every piece planned from sources
\* that have left the exact file alone, no process ended, no connection failed,
\* and a destination of its own, it gets the file, although a short last piece
\* never counts as received and a piece's hash is that of a file on this machine.
CleanDownloadIsExact ==
  \A p \in Peers \ (touched \cup strays) :
    LET c == console[p] IN
      /\ c.op = "verify" /\ ~broken
      /\ \A k \in Pieces : c.plan[k] # {} /\ c.plan[k] \cap (Spoiled \cup {None}) = {}
      => disk[p] = Exact

\* A download comes to its hash test, or its process ends, or it hangs on a
\* source that has gone silent, for recv() waits without a timeout: retries, lost
\* connections and pieces that never count as received do not hold it for ever.
DownloadsEnd ==
  \A p \in Peers :
    console[p].op = "fetch"
      ~> \/ console[p].op # "fetch"
         \/ console[p].op = "fetch" /\ console[p].link = "stalled"
=============================================================================
