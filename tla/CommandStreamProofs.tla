------------------------ MODULE CommandStreamProofs ------------------------
(***************************************************************************)
(* Proofs about the conversation of a peer and its tracker thread.         *)
(***************************************************************************)
EXTENDS CommandStream, SequenceTheorems, TLAPS

Chunks   == {"line", "download", "more"}
Commands == [kind : Kinds, n : 1 .. MaxSends]
Replied  == [chunk : Chunks, n : 1 .. MaxSends]

\* What stays of a sequence when its first k elements are received.
LEMMA Rest ==
  ASSUME NEW S, NEW s \in Seq(S), NEW k \in 1 .. Len(s)
  PROVE  /\ SubSeq(s, k + 1, Len(s)) \in Seq(S)
         /\ Len(SubSeq(s, k + 1, Len(s))) = Len(s) - k
         /\ \A i \in 1 .. Len(s) - k : SubSeq(s, k + 1, Len(s))[i] = s[i + k]
         /\ k = Len(s) => SubSeq(s, k + 1, Len(s)) = <<>>
<1>1. Len(s) \in Nat
  OBVIOUS
<1>2. /\ SubSeq(s, k + 1, Len(s)) \in Seq(S)
      /\ Len(SubSeq(s, k + 1, Len(s))) = Len(s) - k
      /\ \A i \in 1 .. Len(s) - k : SubSeq(s, k + 1, Len(s))[i] = s[i + k]
  BY <1>1, SubSeqProperties
<1>. QED
  BY <1>1, <1>2, EmptySeq

\* The same when it may be none.
LEMMA Dropped ==
  ASSUME NEW S, NEW s \in Seq(S), NEW k \in 0 .. Len(s)
  PROVE  /\ SubSeq(s, k + 1, Len(s)) \in Seq(S)
         /\ Len(SubSeq(s, k + 1, Len(s))) = Len(s) - k
         /\ \A i \in 1 .. Len(s) - k : SubSeq(s, k + 1, Len(s))[i] = s[i + k]
<1>1. Len(s) \in Nat
  OBVIOUS
<1>. QED
  BY <1>1, SubSeqProperties

LEMMA LinesType ==
  ASSUME NEW n \in Nat
  PROVE  /\ Lines(n) \in Seq(Chunks) /\ Len(Lines(n)) = n
         /\ Details(n) \in Seq(Chunks) /\ Len(Details(n)) = n
         /\ n > 0 => Lines(n) # <<>> /\ Details(n) # <<>>
<1>1. \A i \in 1 .. n : Lines(n)[i] \in Chunks /\ Details(n)[i] \in Chunks
  BY DEF Lines, Details, Chunks
<1>2. Lines(n) \in Seq(Chunks) /\ Details(n) \in Seq(Chunks)
  BY <1>1 DEF Lines, Details
<1>3. Len(Lines(n)) = n /\ Len(Details(n)) = n
  BY <1>2, LenProperties DEF Lines, Details
<1>. QED
  BY <1>2, <1>3, EmptySeq

\* What a command can be answered with, and which can be answered with nothing.
LEMMA RepliesType ==
  ASSUME CommandStreamAssumption, NEW kind \in Kinds, NEW chunks \in Replies(kind)
  PROVE  /\ chunks \in Seq(Chunks)
         /\ chunks = <<>> => session /\ kind \in {"download", "show_downloads", "silent", "details"}
         /\ session /\ kind = "details" => chunks = <<>>
<1>1. 1 \in Nat /\ <<>> \in Seq(Chunks)
  BY EmptySeq
<1>2. CASE ~(session \/ kind = "login")
  BY <1>2, <1>1, LinesType DEF Replies
<1>3. CASE session \/ kind = "login"
  <2>1. chunks \in Answers[kind]
    BY <1>3 DEF Replies
  <2>2. CASE kind = "list"
    <3>1. PICK n \in 1 .. MaxLines : chunks = Lines(n)
      BY <2>1, <2>2 DEF Answers
    <3>. QED
      BY <2>2, <3>1, LinesType DEF CommandStreamAssumption
  <2>3. CASE kind = "show_downloads"
    <3>1. PICK n \in 0 .. MaxLines : chunks = Lines(n)
      BY <2>1, <2>3 DEF Answers
    <3>. QED
      BY <1>3, <2>3, <3>1, LinesType DEF CommandStreamAssumption
  <2>4. CASE kind = "download"
    <3>1. chunks \in {<<>>, Lines(1)} \cup {Details(n) : n \in 1 .. MaxLines}
      BY <2>1, <2>4 DEF Answers
    <3>2. CASE chunks \in {<<>>, Lines(1)}
      BY <1>1, <1>3, <2>4, <3>2, LinesType
    <3>3. CASE \E n \in 1 .. MaxLines : chunks = Details(n)
      BY <1>3, <2>4, <3>3, LinesType DEF CommandStreamAssumption
    <3>. QED
      BY <3>1, <3>2, <3>3
  <2>5. CASE kind \in {"silent", "details"}
    <3>1. chunks = <<>>
      BY <2>1, <2>5 DEF Answers
    <3>. QED
      BY <1>1, <1>3, <2>5, <3>1
  <2>6. CASE kind \in {"login", "logout", "one", "piece"}
    <3>1. chunks = Lines(1)
      BY <2>1, <2>6 DEF Answers
    <3>. QED
      BY <1>1, <2>6, <3>1, LinesType
  <2>. QED
    BY <2>2, <2>3, <2>4, <2>5, <2>6 DEF Kinds, Typed
<1>. QED
  BY <1>2, <1>3

LEMMA ReplyType ==
  ASSUME NEW chunks \in Seq(Chunks), NEW n \in 1 .. MaxSends
  PROVE  /\ Reply(chunks, n) \in Seq(Replied)
         /\ Len(Reply(chunks, n)) = Len(chunks)
         /\ \A i \in 1 .. Len(chunks) : Reply(chunks, n)[i].n = n
<1>1. DOMAIN chunks = 1 .. Len(chunks) /\ Len(chunks) \in Nat
  OBVIOUS
<1>2. Reply(chunks, n) = [i \in 1 .. Len(chunks) |-> [chunk |-> chunks[i], n |-> n]]
  BY <1>1 DEF Reply
<1>3. \A i \in 1 .. Len(chunks) : [chunk |-> chunks[i], n |-> n] \in Replied
  BY <1>1 DEF Replied
<1>4. Reply(chunks, n) \in Seq(Replied)
  BY <1>1, <1>2, <1>3
<1>. QED
  BY <1>1, <1>2, <1>4, LenProperties

-----------------------------------------------------------------------------
\* Where the peer can be; the bounds are those of the module.
Positions ==
  {Prompt, Console} \cup {Sending(n) : n \in 0 .. MaxPieces} \cup {Seeding(n) : n \in 0 .. MaxPieces}

LEMMA PositionFields ==
  ASSUME peer \in Positions
  PROVE  /\ peer.at \in {"prompt", "console", "sending", "seeding"}
         /\ peer.left \in 0 .. MaxPieces
         /\ peer.at = "prompt" <=> peer = Prompt
         /\ peer.at = "console" <=> peer = Console
         /\ peer.at = "sending" <=> peer = Sending(peer.left)
         /\ peer.at = "seeding" <=> peer = Seeding(peer.left)
BY CommandStreamAssumption DEF CommandStreamAssumption, Positions, Prompt, Console, Sending, Seeding

\* The effect of a send.
LEMMA SendType ==
  ASSUME TypeOK, NEW kind \in Kinds, Send(kind)
  PROVE  /\ sent' \in 1 .. MaxSends /\ sent' = sent + 1
         /\ toTracker' \in Seq(Commands)
         /\ Len(toTracker') = Len(toTracker) + 1
         /\ \A i \in 1 .. Len(toTracker) : toTracker'[i] = toTracker[i]
         /\ toTracker'[Len(toTracker) + 1] = [kind |-> kind, n |-> sent']
<1>1. sent' \in 1 .. MaxSends /\ sent' = sent + 1
  BY CommandStreamAssumption DEF CommandStreamAssumption, TypeOK, Send
<1>2. [kind |-> kind, n |-> sent + 1] \in Commands
  BY <1>1 DEF Commands
<1>. QED
  BY <1>1, <1>2, AppendProperties DEF Send, TypeOK, Commands

\* The effect of a command that is received, glued or not.
LEMMA HandleType ==
  ASSUME TypeOK, NEW k \in 1 .. Len(toTracker), Handle(k)
  PROVE  \E chunks \in Seq(Chunks) :
           /\ toTracker' = SubSeq(toTracker, k + 1, Len(toTracker))
           /\ toTracker[1] \in Commands /\ toTracker[k] \in Commands
           /\ toPeer' = toPeer \o Reply(chunks, toTracker[k].n)
           /\ silence' = IF chunks = <<>> THEN toTracker[1].kind ELSE "none"
           /\ chunks = <<>> =>
                session /\ toTracker[1].kind \in {"download", "show_downloads", "silent", "details"}
           /\ session /\ toTracker[1].kind = "details" => chunks = <<>>
<1>1. toTracker \in Seq(Commands) /\ Len(toTracker) \in Nat /\ 1 \in 1 .. Len(toTracker)
  BY DEF TypeOK, Commands
<1>2. toTracker[1] \in Commands /\ toTracker[k] \in Commands
  BY <1>1, ElementOfSeq
<1>3. toTracker[1].kind \in Kinds
  BY <1>2 DEF Commands
<1> DEFINE first == toTracker[1].kind
           error == IF k > 1 /\ first \notin {"silent", "details"} THEN {Lines(1)} ELSE {}
<1>4. PICK chunks \in Replies(first) \cup error :
         /\ toPeer' = toPeer \o Reply(chunks, toTracker[k].n)
         /\ silence' = IF chunks = <<>> THEN first ELSE "none"
  BY DEF Handle
<1>5. /\ chunks \in Seq(Chunks)
      /\ chunks = <<>> => session /\ first \in {"download", "show_downloads", "silent", "details"}
      /\ session /\ first = "details" => chunks = <<>>
  <2>1. CASE chunks \in Replies(first)
    BY <1>3, <2>1, CommandStreamAssumption, RepliesType
  <2>2. CASE chunks \in error
    <3>1. chunks = Lines(1) /\ first # "details"
      BY <2>2
    <3>. QED
      BY <3>1, LinesType
  <2>. QED
    BY <2>1, <2>2
<1>. QED
  BY <1>2, <1>4, <1>5 DEF Handle

\* The effect of a recv() of the peer.
LEMMA ReceiveType ==
  ASSUME TypeOK, NEW k \in 1 .. Len(toPeer), Receive(k)
  PROVE  /\ toPeer' \in Seq(Replied)
         /\ slipped' \in BOOLEAN
         /\ ~slipped' => ~slipped /\ toPeer' = <<>>
<1>1. toPeer \in Seq(Replied) /\ Len(toPeer) \in Nat
  BY DEF TypeOK, Replied, Chunks
<1>2. toPeer' \in Seq(Replied) /\ (k = Len(toPeer) => toPeer' = <<>>)
  BY <1>1, Rest DEF Receive
<1>3. CASE k < Len(toPeer)
  BY <1>2, <1>3 DEF Receive
<1>4. CASE k = Len(toPeer)
  <2>0. ~(k < Len(toPeer))
    BY <1>1, <1>4
  <2>1. slipped' = slipped
    BY <2>0, Zenon DEF Receive
  <2>2. slipped \in BOOLEAN
    BY DEF TypeOK
  <2>. QED
    BY <1>2, <1>4, <2>1, <2>2
<1>. QED
  BY <1>1, <1>3, <1>4

-----------------------------------------------------------------------------
LEMMA TypeInit == Init => TypeOK
<1>1. <<>> \in Seq(Commands) /\ <<>> \in Seq(Replied)
  BY EmptySeq
<1>2. ASSUME Init
      PROVE  greeted \in BOOLEAN /\ session \in BOOLEAN /\ slipped \in BOOLEAN
  BY <1>2, Zenon DEF Init
<1>3. ASSUME Init
      PROVE  /\ peer \in {Prompt, Console} /\ sent \in 0 .. MaxSends
             /\ silence \in Kinds \cup {"hello", "none"} /\ toTracker = <<>> /\ toPeer = <<>>
  BY <1>3, CommandStreamAssumption DEF CommandStreamAssumption, Init
<1>. QED
  BY <1>1, <1>2, <1>3 DEF TypeOK, Commands, Replied, Chunks

LEMMA TypeStep == TypeOK /\ [Next]_vars => TypeOK'
<1>. SUFFICES ASSUME TypeOK, [Next]_vars
              PROVE  TypeOK'
  OBVIOUS
<1>. USE CommandStreamAssumption DEF CommandStreamAssumption
<1>0. /\ peer \in Positions /\ greeted \in BOOLEAN /\ session \in BOOLEAN /\ slipped \in BOOLEAN
      /\ sent \in 0 .. MaxSends /\ silence \in Kinds \cup {"hello", "none"}
      /\ toTracker \in Seq(Commands) /\ toPeer \in Seq(Replied)
  BY DEF TypeOK, Positions, Commands, Replied, Chunks
<1>1. ASSUME peer' \in Positions, greeted' \in BOOLEAN, toTracker' \in Seq(Commands), toPeer' \in Seq(Replied),
             session' \in BOOLEAN, sent' \in 0 .. MaxSends, silence' \in Kinds \cup {"hello", "none"},
             slipped' \in BOOLEAN
      PROVE  TypeOK'
  BY <1>1 DEF TypeOK, Positions, Commands, Replied, Chunks
<1>2. CASE UNCHANGED vars
  BY <1>0, <1>1, <1>2 DEF vars
<1>10. ASSUME NEW kind \in Kinds, Send(kind), peer' \in Positions,
              UNCHANGED <<greeted, toPeer, session, silence, slipped>>
       PROVE  TypeOK'
  <2>0. Send(kind)
    BY <1>10
  <2>1. sent' \in 1 .. MaxSends /\ toTracker' \in Seq(Commands)
    BY <2>0, SendType
  <2>. QED
    BY <1>0, <1>1, <1>10, <2>1
<1>3. ASSUME NEW kind \in Typed, Type(kind)
      PROVE  TypeOK'
  BY <1>3, <1>10 DEF Type, Positions, Kinds
<1>4. ASSUME NEW pieces \in 0 .. MaxPieces, UploadDetails(pieces)
      PROVE  TypeOK'
  BY <1>4, <1>10 DEF UploadDetails, Positions, Kinds
<1>5. CASE SendPiece
  <2>1. peer' \in Positions
    BY <1>0, <1>5, PositionFields DEF SendPiece, Positions
  <2>. QED
    BY <1>5, <1>10, <2>1 DEF SendPiece, Kinds
<1>6. CASE PiecesDone
  BY <1>0, <1>1, <1>6 DEF PiecesDone, Positions
<1>7. ASSUME NEW k \in 1 .. Len(toPeer), ConsoleRecv(k)
      PROVE  TypeOK'
  BY <1>0, <1>1, <1>7, ReceiveType DEF ConsoleRecv, Positions
<1>8. ASSUME NEW k \in 1 .. Len(toPeer), PieceRecv(k)
      PROVE  TypeOK'
  <2>1. peer' \in Positions
    BY <1>0, <1>8, PositionFields DEF PieceRecv, Positions
  <2>. QED
    BY <1>0, <1>1, <1>8, <2>1, ReceiveType DEF PieceRecv
<1>9. ASSUME NEW k \in 1 .. Len(toTracker), Handle(k)
      PROVE  TypeOK'
  <2>1. PICK chunks \in Seq(Chunks) :
           /\ toTracker' = SubSeq(toTracker, k + 1, Len(toTracker))
           /\ toTracker[1] \in Commands /\ toTracker[k] \in Commands
           /\ toPeer' = toPeer \o Reply(chunks, toTracker[k].n)
           /\ silence' = IF chunks = <<>> THEN toTracker[1].kind ELSE "none"
    BY <1>9, HandleType
  <2>2. toTracker[k].n \in 1 .. MaxSends /\ toTracker[1].kind \in Kinds
    BY <2>1 DEF Commands
  <2>3. toPeer' \in Seq(Replied)
    BY <1>0, <2>1, <2>2, ReplyType, ConcatProperties
  <2>4. toTracker' \in Seq(Commands)
    BY <1>0, <2>1, Rest
  <2>5. session' \in BOOLEAN /\ peer' = peer /\ sent' = sent /\ greeted' = greeted
    BY <1>0, <1>9 DEF Handle
  <2>6. slipped' \in BOOLEAN
    <3>1. slipped' = IF toTracker[k].kind = "details" /\ ~session THEN TRUE ELSE slipped
      BY <1>9, Zenon DEF Handle
    <3>. QED
      BY <1>0, <3>1, Zenon
  <2>7. silence' \in Kinds \cup {"hello", "none"}
    BY <2>1, <2>2
  <2>. QED
    BY <1>0, <1>1, <2>3, <2>4, <2>5, <2>6, <2>7
<1>11. ASSUME NEW k \in 0 .. Len(toTracker), Greet(k)
       PROVE  TypeOK'
  <2>1. toTracker' \in Seq(Commands)
    BY <1>0, <1>11, Dropped DEF Greet
  <2>. QED
    BY <1>0, <1>1, <1>11, <2>1 DEF Greet
<1>. QED
  BY <1>2, <1>3, <1>4, <1>5, <1>6, <1>7, <1>8, <1>9, <1>11 DEF Next

\* What the two sides hold, know and wait for keeps to its types, for any
\* length of conversations, answers and uploads.
THEOREM StreamTypeOK == Spec => []TypeOK
BY TypeInit, TypeStep, PTL DEF Spec

-----------------------------------------------------------------------------
\* Only the command sent last can be anything but a file_details on its way,
\* and only while the peer waits for its answer; no command is on its way
\* behind an answer.
OneAsked ==
  /\ \A i \in 1 .. Len(toPeer) : toPeer[i].n = sent
  /\ toPeer # <<>> => toTracker = <<>> /\ peer.at \in {"console", "seeding"}
  /\ \A i \in 1 .. Len(toTracker) :
       toTracker[i].kind # "details" =>
         /\ i = Len(toTracker) /\ toTracker[i].n = sent
         /\ peer.at = "console" \/ (peer.at = "seeding" /\ toTracker[i].kind = "piece")

StepInv == TypeOK /\ (~slipped => OneAsked)

LEMMA StepInit == Init => StepInv
<1>. SUFFICES ASSUME Init PROVE StepInv
  OBVIOUS
<1>1. toPeer = <<>> /\ toTracker = <<>> /\ Len(<<>>) = 0
  BY EmptySeq DEF Init
<1>. QED
  BY <1>1, TypeInit DEF StepInv, OneAsked

\* A send finds every command before it a file_details and no answer.
LEMMA SendKeepsStep ==
  ASSUME StepInv, NEW kind \in Kinds, Send(kind), peer.at \in {"prompt", "sending"},
         UNCHANGED <<toPeer, slipped>>, ~slipped',
         kind # "details" => \/ peer'.at = "console"
                             \/ peer'.at = "seeding" /\ kind = "piece"
  PROVE  OneAsked'
<1>1. ~slipped /\ TypeOK /\ OneAsked
  BY DEF StepInv
<1>2. toPeer = <<>> /\ toPeer' = <<>>
  BY <1>1 DEF OneAsked
<1>3. \A i \in 1 .. Len(toTracker) : toTracker[i].kind = "details"
  BY <1>1 DEF OneAsked
<1>4. /\ Len(toTracker') = Len(toTracker) + 1
      /\ \A i \in 1 .. Len(toTracker) : toTracker'[i] = toTracker[i]
      /\ toTracker'[Len(toTracker) + 1] = [kind |-> kind, n |-> sent']
  BY <1>1, SendType
<1>5. Len(toTracker) \in Nat /\ Len(<<>>) = 0
  BY <1>1, EmptySeq DEF TypeOK
<1>6. ASSUME NEW i \in 1 .. Len(toTracker'), toTracker'[i].kind # "details"
      PROVE  /\ i = Len(toTracker') /\ toTracker'[i].n = sent'
             /\ toTracker'[i].kind = kind
  <2>1. i = Len(toTracker) + 1
    BY <1>3, <1>4, <1>5, <1>6
  <2>. QED
    BY <1>4, <2>1
<1>. QED
  BY <1>2, <1>4, <1>5, <1>6 DEF OneAsked

\* A recv() of the peer takes all there is, or an answer slips.
LEMMA RecvKeepsStep ==
  ASSUME StepInv, NEW k \in 1 .. Len(toPeer), Receive(k), ~slipped', UNCHANGED toTracker
  PROVE  OneAsked'
<1>1. TypeOK
  BY DEF StepInv
<1>2. ~slipped /\ toPeer' = <<>>
  BY <1>1, ReceiveType
<1>3. toPeer # <<>>
  BY <1>1, EmptySeq DEF TypeOK
<1>4. toTracker' = <<>> /\ Len(<<>>) = 0
  BY <1>2, <1>3, EmptySeq DEF StepInv, OneAsked
<1>. QED
  BY <1>2, <1>4 DEF OneAsked

\* What the tracker takes ends with the command waited for, which it answers
\* with that command's number, or is all file_details, which it does not answer.
LEMMA HandleKeepsStep ==
  ASSUME StepInv, NEW k \in 1 .. Len(toTracker), Handle(k), ~slipped'
  PROVE  OneAsked'
<1>1. slipped' = IF toTracker[k].kind = "details" /\ ~session THEN TRUE ELSE slipped
  BY Zenon DEF Handle
<1>2. ~slipped /\ (toTracker[k].kind = "details" => session)
  BY <1>1, Zenon
<1>3. TypeOK /\ OneAsked
  BY <1>2 DEF StepInv
<1>4. /\ toTracker \in Seq(Commands) /\ toPeer \in Seq(Replied)
      /\ Len(toTracker) \in Nat /\ 1 \in 1 .. Len(toTracker) /\ toTracker # <<>>
  BY <1>3, EmptySeq DEF TypeOK, Commands, Replied, Chunks
<1>5. toPeer = <<>> /\ Len(<<>>) = 0
  BY <1>3, <1>4, EmptySeq DEF OneAsked
<1>6. PICK chunks \in Seq(Chunks) :
         /\ toTracker' = SubSeq(toTracker, k + 1, Len(toTracker))
         /\ toTracker[k] \in Commands
         /\ toPeer' = toPeer \o Reply(chunks, toTracker[k].n)
         /\ session /\ toTracker[1].kind = "details" => chunks = <<>>
  BY <1>3, HandleType
<1>7. toTracker[k].n \in 1 .. MaxSends
  BY <1>6 DEF Commands
<1>8. /\ Reply(chunks, toTracker[k].n) \in Seq(Replied)
      /\ Len(Reply(chunks, toTracker[k].n)) = Len(chunks)
      /\ \A i \in 1 .. Len(chunks) : Reply(chunks, toTracker[k].n)[i].n = toTracker[k].n
  BY <1>7, ReplyType
<1>9. toPeer' = Reply(chunks, toTracker[k].n)
  BY <1>5, <1>6, <1>8, ConcatEmptySeq
<1>10. peer' = peer /\ sent' = sent
  BY DEF Handle
<1>11. CASE toTracker[k].kind # "details"
  <2>1. k = Len(toTracker) /\ toTracker[k].n = sent /\ peer.at \in {"console", "seeding"}
    BY <1>3, <1>11 DEF OneAsked
  <2>2. toTracker' = <<>>
    BY <1>4, <1>6, <2>1, Rest
  <2>. QED
    BY <1>5, <1>8, <1>9, <1>10, <2>1, <2>2 DEF OneAsked
<1>12. CASE toTracker[k].kind = "details"
  <2>1. toTracker[1].kind = "details"
    BY <1>3, <1>4, <1>12 DEF OneAsked
  <2>2. chunks = <<>>
    BY <1>2, <1>6, <1>12, <2>1
  <2>3. toPeer' = <<>>
    BY <1>5, <1>8, <1>9, <2>2, EmptySeq
  <2>4. /\ Len(toTracker') = Len(toTracker) - k
        /\ \A i \in 1 .. Len(toTracker) - k : toTracker'[i] = toTracker[i + k]
    BY <1>4, <1>6, Rest
  <2>5. ASSUME NEW i \in 1 .. Len(toTracker'), toTracker'[i].kind # "details"
        PROVE  /\ i = Len(toTracker') /\ toTracker'[i].n = sent
               /\ peer.at = "console" \/ (peer.at = "seeding" /\ toTracker'[i].kind = "piece")
    <3>1. i + k \in 1 .. Len(toTracker) /\ toTracker'[i] = toTracker[i + k]
      BY <1>4, <2>4
    <3>2. /\ i + k = Len(toTracker) /\ toTracker[i + k].n = sent
          /\ peer.at = "console" \/ (peer.at = "seeding" /\ toTracker[i + k].kind = "piece")
      BY <1>3, <2>5, <3>1 DEF OneAsked
    <3>3. Len(toTracker') = Len(toTracker) - k /\ i \in Int /\ k \in Int
      BY <1>4, <2>4
    <3>4. i = Len(toTracker')
      BY <1>4, <3>2, <3>3
    <3>. QED
      BY <3>1, <3>2, <3>4
  <2>. QED
    BY <1>5, <1>10, <2>3, <2>5 DEF OneAsked
<1>. QED
  BY <1>11, <1>12

\* What is dropped with the address comes from the front.
LEMMA GreetKeepsStep ==
  ASSUME StepInv, NEW k \in 0 .. Len(toTracker), Greet(k), ~slipped'
  PROVE  OneAsked'
<1>1. TypeOK /\ OneAsked
  BY DEF StepInv, Greet
<1>2. toTracker \in Seq(Commands) /\ Len(toTracker) \in Nat /\ Len(<<>>) = 0
  BY <1>1, EmptySeq DEF TypeOK, Commands
<1>3. /\ toTracker' \in Seq(Commands)
      /\ Len(toTracker') = Len(toTracker) - k
      /\ \A i \in 1 .. Len(toTracker) - k : toTracker'[i] = toTracker[i + k]
  BY <1>2, Dropped DEF Greet
<1>4. peer' = peer /\ sent' = sent /\ toPeer' = toPeer
  BY DEF Greet
<1>5. toTracker = <<>> => toTracker' = <<>>
  BY <1>2, <1>3, EmptySeq
<1>6. ASSUME NEW i \in 1 .. Len(toTracker'), toTracker'[i].kind # "details"
      PROVE  /\ i = Len(toTracker') /\ toTracker'[i].n = sent
             /\ peer.at = "console" \/ (peer.at = "seeding" /\ toTracker'[i].kind = "piece")
  <2>1. i + k \in 1 .. Len(toTracker) /\ toTracker'[i] = toTracker[i + k]
    BY <1>2, <1>3
  <2>2. /\ i + k = Len(toTracker) /\ toTracker[i + k].n = sent
        /\ peer.at = "console" \/ (peer.at = "seeding" /\ toTracker[i + k].kind = "piece")
    BY <1>1, <1>6, <2>1 DEF OneAsked
  <2>3. Len(toTracker') = Len(toTracker) - k /\ i \in Int /\ k \in Int
    BY <1>2, <1>3
  <2>4. i = Len(toTracker')
    BY <1>2, <2>2, <2>3
  <2>. QED
    BY <2>1, <2>2, <2>4
<1>. QED
  BY <1>1, <1>4, <1>5, <1>6 DEF OneAsked

LEMMA StepStep == StepInv /\ [Next]_vars => StepInv'
<1>. SUFFICES ASSUME StepInv, [Next]_vars, ~slipped'
              PROVE  OneAsked'
  BY TypeStep DEF StepInv
<1>0. TypeOK /\ (~slipped => OneAsked) /\ peer \in Positions
  BY DEF StepInv, TypeOK, Positions
<1>1. CASE UNCHANGED vars
  BY <1>0, <1>1 DEF vars, OneAsked
<1>2. ASSUME NEW kind \in Typed, Type(kind)
      PROVE  OneAsked'
  BY <1>2, SendKeepsStep DEF Type, Kinds, Prompt, Console
<1>3. ASSUME NEW pieces \in 0 .. MaxPieces, UploadDetails(pieces)
      PROVE  OneAsked'
  BY <1>3, SendKeepsStep DEF UploadDetails, Kinds, Prompt
<1>4. CASE SendPiece
  BY <1>4, SendKeepsStep DEF SendPiece, Kinds, Seeding
<1>5. CASE PiecesDone
  BY <1>0, <1>5 DEF PiecesDone, OneAsked, Sending, Prompt
<1>6. ASSUME NEW k \in 1 .. Len(toPeer), ConsoleRecv(k) \/ PieceRecv(k)
      PROVE  OneAsked'
  BY <1>6, RecvKeepsStep DEF ConsoleRecv, PieceRecv
<1>7. ASSUME NEW k \in 1 .. Len(toTracker), Handle(k)
      PROVE  OneAsked'
  BY <1>7, HandleKeepsStep
<1>8. ASSUME NEW k \in 0 .. Len(toTracker), Greet(k)
      PROVE  OneAsked'
  BY <1>8, GreetKeepsStep
<1>. QED
  BY <1>1, <1>2, <1>3, <1>4, <1>5, <1>6, <1>7, <1>8 DEF Next

\* Until an answer of several sends is taken apart or an upload starts without
\* a session, every answer under way belongs to the command sent last.
THEOREM AnswersStayInStep == Spec => []InStep
<1>1. StepInv => InStep
  <2>. SUFFICES ASSUME StepInv, ~slipped, NEW i \in DOMAIN toPeer
                PROVE  toPeer[i].n = sent
    BY DEF InStep
  <2>1. DOMAIN toPeer = 1 .. Len(toPeer)
    BY DEF StepInv, TypeOK
  <2>. QED
    BY <2>1 DEF StepInv, OneAsked
<1>. QED
  BY <1>1, StepInit, StepStep, PTL DEF Spec

-----------------------------------------------------------------------------
\* A command can leave both sides receiving if it is answered with nothing.
LEMMA HandleStuck ==
  ASSUME StepInv, NEW k \in 1 .. Len(toTracker), Handle(k)
  PROVE  StuckOnlyOnSilence'
<1>. SUFFICES ASSUME Stuck'
              PROVE  /\ silence' \in {"download", "show_downloads", "silent", "details"}
                     /\ ~slipped' /\ peer' # Console => silence' = "details"
  BY DEF StuckOnlyOnSilence
<1>1. /\ TypeOK /\ peer' = peer /\ peer \in Positions
      /\ toPeer \in Seq(Replied) /\ Len(toTracker) \in Nat /\ 1 \in 1 .. Len(toTracker)
  BY DEF StepInv, Handle, TypeOK, Positions, Replied, Chunks
<1>2. PICK chunks \in Seq(Chunks) :
         /\ toTracker[k] \in Commands
         /\ toPeer' = toPeer \o Reply(chunks, toTracker[k].n)
         /\ silence' = IF chunks = <<>> THEN toTracker[1].kind ELSE "none"
         /\ chunks = <<>> =>
              toTracker[1].kind \in {"download", "show_downloads", "silent", "details"}
  BY <1>1, HandleType
<1>3. chunks = <<>>
  <2>1. toTracker[k].n \in 1 .. MaxSends
    BY <1>2 DEF Commands
  <2>2. /\ Reply(chunks, toTracker[k].n) \in Seq(Replied)
        /\ Len(Reply(chunks, toTracker[k].n)) = Len(chunks)
    BY <2>1, ReplyType
  <2>3. Len(toPeer \o Reply(chunks, toTracker[k].n))
          = Len(toPeer) + Len(Reply(chunks, toTracker[k].n))
    BY <1>1, <2>2, ConcatProperties
  <2>4. Len(toPeer') = 0
    BY EmptySeq DEF Stuck
  <2>5. Len(toPeer) \in Nat /\ Len(chunks) \in Nat
    BY <1>1, LenProperties
  <2>6. Len(chunks) = 0
    BY <1>2, <2>2, <2>3, <2>4, <2>5
  <2>. QED
    BY <2>6, EmptySeq
<1>4. silence' = toTracker[1].kind
  BY <1>2, <1>3
<1>5. silence' \in {"download", "show_downloads", "silent", "details"}
  BY <1>2, <1>3, <1>4
<1>6. ASSUME ~slipped', peer' # Console
      PROVE  silence' = "details"
  <2>1. slipped' = IF toTracker[k].kind = "details" /\ ~session THEN TRUE ELSE slipped
    BY Zenon DEF Handle
  <2>2. OneAsked
    BY <1>6, <2>1, Zenon DEF StepInv
  <2>3. peer.at = "seeding"
    BY <1>1, <1>6, PositionFields DEF Stuck
  <2>4. toTracker[1].kind # "details" => toTracker[1].kind = "piece"
    BY <1>1, <2>2, <2>3 DEF OneAsked
  <2>. QED
    BY <1>4, <1>5, <2>4
<1>. QED
  BY <1>5, <1>6

\* So can the first recv, by what it drops.
LEMMA GreetStuck ==
  ASSUME StepInv, StuckOnlyOnSilence, NEW k \in 0 .. Len(toTracker), Greet(k)
  PROVE  StuckOnlyOnSilence'
<1>1. CASE k > 0
  <2>1. silence' = "hello"
    BY <1>1 DEF Greet
  <2>. QED
    BY <2>1 DEF StuckOnlyOnSilence
<1>2. CASE k = 0
  <2>1. toTracker \in Seq(Commands) /\ Len(toTracker) \in Nat
    BY DEF StepInv, TypeOK, Commands
  <2>2. /\ toTracker' \in Seq(Commands) /\ Len(toTracker') = Len(toTracker) - k
    BY <2>1, Dropped DEF Greet
  <2>3. toTracker' = <<>> => toTracker = <<>>
    BY <1>2, <2>1, <2>2, EmptySeq
  <2>4. silence' = silence /\ peer' = peer /\ toPeer' = toPeer /\ slipped' = slipped
    BY <1>2 DEF Greet
  <2>. QED
    BY <2>3, <2>4 DEF StuckOnlyOnSilence, Stuck
<1>. QED
  BY <1>1, <1>2

LEMMA StuckStep == StepInv /\ StuckOnlyOnSilence /\ [Next]_vars => StuckOnlyOnSilence'
<1>. SUFFICES ASSUME StepInv, StuckOnlyOnSilence, [Next]_vars
              PROVE  StuckOnlyOnSilence'
  OBVIOUS
<1>0. TypeOK /\ peer \in Positions
  BY DEF StepInv, TypeOK, Positions
<1>1. CASE UNCHANGED vars
  BY <1>1 DEF vars, StuckOnlyOnSilence, Stuck
<1>2. ASSUME NEW kind \in Kinds, Send(kind)
      PROVE  StuckOnlyOnSilence'
  <2>0. Len(toTracker) \in Nat
    BY <1>0 DEF TypeOK
  <2>1. toTracker' # <<>>
    <3>1. Len(toTracker') = Len(toTracker) + 1
      BY <1>0, <1>2, SendType
    <3>2. Len(<<>>) = 0
      BY EmptySeq
    <3>. QED
      BY <2>0, <3>1, <3>2
  <2>. QED
    BY <2>1 DEF StuckOnlyOnSilence, Stuck
<1>3. ASSUME peer'.at \in {"prompt", "sending"}
      PROVE  StuckOnlyOnSilence'
  BY <1>3 DEF StuckOnlyOnSilence, Stuck
<1>4. ASSUME NEW kind \in Typed, Type(kind)
      PROVE  StuckOnlyOnSilence'
  BY <1>2, <1>4 DEF Type, Kinds
<1>5. ASSUME NEW pieces \in 0 .. MaxPieces, UploadDetails(pieces)
      PROVE  StuckOnlyOnSilence'
  BY <1>2, <1>5 DEF UploadDetails, Kinds
<1>6. CASE SendPiece
  BY <1>2, <1>6 DEF SendPiece, Kinds
<1>7. CASE PiecesDone
  BY <1>3, <1>7 DEF PiecesDone, Prompt
<1>8. ASSUME NEW k \in 1 .. Len(toPeer), ConsoleRecv(k) \/ PieceRecv(k)
      PROVE  StuckOnlyOnSilence'
  BY <1>3, <1>8 DEF ConsoleRecv, PieceRecv, Prompt, Sending
<1>9. ASSUME NEW k \in 1 .. Len(toTracker), Handle(k)
      PROVE  StuckOnlyOnSilence'
  BY <1>9, HandleStuck
<1>10. ASSUME NEW k \in 0 .. Len(toTracker), Greet(k)
       PROVE  StuckOnlyOnSilence'
  BY <1>10, GreetStuck
<1>. QED
  BY <1>1, <1>4, <1>5, <1>6, <1>7, <1>8, <1>9, <1>10 DEF Next

\* Both sides wait for each other only where the tracker has taken a command
\* that it leaves unanswered, or dropped one with the address, whatever is
\* typed and however TCP groups the sends, the first one included.
THEOREM OnlySilenceBlocks == Spec => []StuckOnlyOnSilence
<1>1. Init => StuckOnlyOnSilence
  BY DEF Init, StuckOnlyOnSilence, Stuck, Prompt
<1>. QED
  BY <1>1, StepInit, StepStep, StuckStep, PTL DEF Spec
=============================================================================
