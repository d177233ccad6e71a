--------------------------- MODULE CommandStream ---------------------------
(***************************************************************************)
(* The conversation of one peer's console (main of src/src/peer.cpp and    *)
(* piece_creation of src/src/helper_peer.cpp) with the tracker thread that *)
(* serves it (handleClient of src/src/helper_tracker.cpp).                 *)
(*                                                                         *)
(* Neither side marks where a message ends.  The thread takes whatever one *)
(* recv() returns for one command; the peer takes whatever one recv()      *)
(* returns for the answer.  Which answer belongs to which command is only  *)
(* a matter of counting, and commands are answered by no send, one or      *)
(* many.                                                                   *)
(*                                                                         *)
(* Abstractions.  A command is its kind, a sent answer is a chunk of it;   *)
(* both carry the number of the peer's send they belong to, which the      *)
(* program does not have.  TCP delivers in order; a recv() returns one or  *)
(* more of the sends that are under way (messages are too short to be      *)
(* split).  What the connection is to the tracker's maps, and its end, is  *)
(* the subject of module Accounts.                                         *)
(***************************************************************************)
EXTENDS Sequences, Naturals

CONSTANTS
  MaxSends,    \* bound on the messages the peer sends
  MaxLines,    \* bound on the sends that make up one answer
  MaxPieces    \* bound on the pieces of a file

ASSUME CommandStreamAssumption ==
  MaxSends \in Nat /\ MaxLines \in Nat \ {0} /\ MaxPieces \in Nat

VARIABLES
  peer,        \* where the peer's main thread is
  greeted,     \* has the thread received the peer's address, sent first?
  toTracker,   \* commands sent and not yet received
  toPeer,      \* answers sent and not yet received
  session,     \* is somebody logged in on the connection?
  sent,        \* number of messages sent by the peer
  silence,     \* history: what was last taken, if it got no answer
  slipped      \* history: has an answer been left for a later command?

vars == <<peer, greeted, toTracker, toPeer, session, sent, silence, slipped>>

\* Commands typed on the console, by how they are answered: "one" is every
\* command with a single answer, "list" stands for list_groups,
\* list_requests and list_files, "silent" for file_details and
\* download_completed, which the console passes on as well.
Typed == {"login", "logout", "one", "list", "show_downloads", "download", "silent"}
\* What an upload sends by itself: file_details, then upload_file per piece.
Kinds == Typed \cup {"details", "piece"}

Prompt     == [at |-> "prompt", left |-> 0]    \* blocked in getline()
Console    == [at |-> "console", left |-> 0]   \* blocked in recv() for an answer
Sending(n) == [at |-> "sending", left |-> n]   \* in piece_creation, n pieces left
Seeding(n) == [at |-> "seeding", left |-> n]   \* blocked in recv() there

Init ==
  /\ peer = Prompt
  /\ greeted = FALSE
  /\ toTracker = <<>>
  /\ toPeer = <<>>
  /\ session = FALSE
  /\ sent = 0
  /\ silence = "none"
  /\ slipped = FALSE

(***************************************************************************)
(* The peer                                                                *)
(***************************************************************************)
Send(kind) ==
  /\ sent < MaxSends
  /\ sent' = sent + 1
  /\ toTracker' = Append(toTracker, [kind |-> kind, n |-> sent + 1])

\* Any line but an empty one, upload_file and quit goes to the tracker as it
\* is, help included.
Type(kind) ==
  /\ peer = Prompt
  /\ Send(kind)
  /\ peer' = Console
  /\ UNCHANGED <<greeted, toPeer, session, silence, slipped>>

\* upload_file of a file with the given number of pieces: file_details goes
\* out first, and nothing is received for it.
UploadDetails(pieces) ==
  /\ peer = Prompt
  /\ Send("details")
  /\ peer' = Sending(pieces)
  /\ UNCHANGED <<greeted, toPeer, session, silence, slipped>>

\* A loop that reads after it has sent, so once too often.
SendPieceFirst ==
  /\ peer.at = "sending"
  /\ Send("piece")
  /\ peer' = Seeding(peer.left - 1)
  /\ UNCHANGED <<greeted, toPeer, session, silence, slipped>>

SendPiece ==
  /\ peer.at = "sending"
  /\ peer.left > 0
  /\ Send("piece")
  /\ peer' = Seeding(peer.left - 1)
  /\ UNCHANGED <<greeted, toPeer, session, silence, slipped>>

PiecesDone ==
  /\ peer = Sending(0)
  /\ peer' = Prompt
  /\ UNCHANGED <<greeted, toTracker, toPeer, session, sent, silence, slipped>>

\* One recv(): the first k chunks; what stays behind is for a later recv().
Receive(k) ==
  /\ toPeer' = SubSeq(toPeer, k + 1, Len(toPeer))
  /\ slipped' = IF k < Len(toPeer) THEN TRUE ELSE slipped

\* The console prints what it got, whatever it is.  If that begins with the
\* details of a download, the download runs and what came of it is seeded:
\* nothing when the hash test failed, since the file is unlinked then.
ConsoleRecv(k) ==
  /\ peer = Console
  /\ Receive(k)
  /\ \/ toPeer[1].chunk # "download" /\ peer' = Prompt
     \/ toPeer[1].chunk = "download" /\ \E n \in 0 .. MaxPieces : peer' = Sending(n)
  /\ UNCHANGED <<greeted, toTracker, session, sent, silence>>

\* The slip of not waiting for the answer to each piece.
PieceUnacknowledged(k) ==
  /\ peer.at = "seeding"
  /\ peer' = Sending(peer.left)
  /\ UNCHANGED <<greeted, toTracker, toPeer, session, sent, silence, slipped>>

\* piece_creation discards the answer to each piece.
PieceRecv(k) ==
  /\ peer.at = "seeding"
  /\ Receive(k)
  /\ peer' = Sending(peer.left)
  /\ UNCHANGED <<greeted, toTracker, session, sent, silence>>

(***************************************************************************)
(* The tracker thread                                                      *)
(***************************************************************************)
\* The first recv() returns the address alone or together with the first k
\* sends behind it.  Only the address is read, so these commands are dropped.
Greet(k) ==
  /\ ~greeted
  /\ greeted' = TRUE
  /\ toTracker' = SubSeq(toTracker, k + 1, Len(toTracker))
  /\ silence' = IF k > 0 THEN "hello" ELSE silence
  /\ UNCHANGED <<peer, toPeer, session, sent, slipped>>

Lines(n)   == [i \in 1 .. n |-> "line"]
Details(n) == [i \in 1 .. n |-> IF i = 1 THEN "download" ELSE "more"]

\* list_groups and the others when there is nothing to list: no answer.
AnswersWithoutEmpty ==
  [kind \in Kinds |->
     CASE kind \in {"list", "show_downloads"} -> {Lines(n) : n \in 0 .. MaxLines}
       [] kind = "download" ->
            {<<>>, Lines(1)} \cup {Details(n) : n \in 1 .. MaxLines}
       [] kind \in {"silent", "details"} -> {<<>>}
       [] OTHER -> {Lines(1)}]

\* The sends a command may be answered with when somebody is logged in.  A
\* list is one send per line, and one for "there is none"; but show_downloads
\* sends nothing when the peer has an entry in downloads that is empty, as
\* download_completed makes one.  download_file answers a peer that is not in
\* the group (-4) with nothing at all.
Answers ==
  [kind \in Kinds |->
     CASE kind = "list" -> {Lines(n) : n \in 1 .. MaxLines}
       [] kind = "show_downloads" -> {Lines(n) : n \in 0 .. MaxLines}
       [] kind = "download" ->
            {<<>>, Lines(1)} \cup {Details(n) : n \in 1 .. MaxLines}
       [] kind \in {"silent", "details"} -> {<<>>}
       [] OTHER -> {Lines(1)}]

\* Without a session every command but login (and create_peer, one of "one")
\* is answered with "Please login first".
Replies(kind) == IF session \/ kind = "login" THEN Answers[kind] ELSE {Lines(1)}

Reply(chunks, n) == [i \in DOMAIN chunks |-> [chunk |-> chunks[i], n |-> n]]

\* The first k sends of the peer arrive as one command.  The first word
\* decides; glued to others it has extra words and a garbled one, and an
\* error line is one more possible answer to those that count their words.
\* file_details without a session is answered although nothing waits for it.
Handle(k) ==
  /\ greeted
  /\ k \in 1 .. Len(toTracker)
  /\ toTracker' = SubSeq(toTracker, k + 1, Len(toTracker))
  /\ LET first == toTracker[1].kind
         error == IF k > 1 /\ first \notin {"silent", "details"} THEN {Lines(1)} ELSE {}
     IN /\ \E chunks \in Replies(first) \cup error :
             /\ toPeer' = toPeer \o Reply(chunks, toTracker[k].n)
             /\ silence' = IF chunks = <<>> THEN first ELSE "none"
        /\ slipped' = IF toTracker[k].kind = "details" /\ ~session THEN TRUE ELSE slipped
        /\ \/ UNCHANGED session
           \/ k = 1 /\ first = "login" /\ session' = TRUE
           \/ k = 1 /\ first = "logout" /\ session' = FALSE
  /\ UNCHANGED <<peer, greeted, sent>>

Next ==
  \/ \E kind \in Typed : Type(kind)
  \/ \E pieces \in 0 .. MaxPieces : UploadDetails(pieces)
  \/ SendPiece
  \/ PiecesDone
  \/ \E k \in 1 .. Len(toPeer) : ConsoleRecv(k) \/ PieceRecv(k)
  \/ \E k \in 0 .. Len(toTracker) : Greet(k)
  \/ \E k \in 1 .. Len(toTracker) : Handle(k)

Spec == Init /\ [][Next]_vars

-----------------------------------------------------------------------------
TypeOK ==
  /\ peer \in {Prompt, Console} \cup {Sending(n) : n \in 0 .. MaxPieces}
                \cup {Seeding(n) : n \in 0 .. MaxPieces}
  /\ greeted \in BOOLEAN
  /\ toTracker \in Seq([kind : Kinds, n : 1 .. MaxSends])
  /\ toPeer \in Seq([chunk : {"line", "download", "more"}, n : 1 .. MaxSends])
  /\ session \in BOOLEAN
  /\ sent \in 0 .. MaxSends
  /\ silence \in Kinds \cup {"hello", "none"}
  /\ slipped \in BOOLEAN

\* Both sides are in recv() and nothing is under way.
Stuck ==
  /\ peer.at \in {"console", "seeding"}
  /\ toTracker = <<>>
  /\ toPeer = <<>>

\* The peer waits for ever only for an answer that the tracker never gives:
\* to a refused download, an empty list of downloads, a file_details typed by
\* hand, or a command taken together with a file_details before it or with
\* the address the peer sends first.  Until an answer has slipped, an upload
\* can wait so only for the last two of these reasons.  Nothing else the two
\* sides do, in any order, ends with both of them receiving.
StuckOnlyOnSilence ==
  Stuck =>
    /\ silence \in {"download", "show_downloads", "silent", "details", "hello"}
    /\ ~slipped /\ peer # Console => silence \in {"details", "hello"}

\* Every answer under way is for the command the peer sent last, so what the
\* console prints, acts on (the details of a download) or discards (the
\* answer to a piece) is never that of an earlier command; until an answer of
\* several sends is taken apart or an upload starts without a session.
InStep ==
  ~slipped => \A i \in DOMAIN toPeer : toPeer[i].n = sent
=============================================================================
