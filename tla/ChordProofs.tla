---------------------------- MODULE ChordProofs ----------------------------
(***************************************************************************)
(* Proofs about Chord: what the comparisons of src/src/utils.cpp say of    *)
(* identifiers, for a circle of any size; that a node holds and hands over *)
(* entries without losing, doubling or inventing one, and what that takes; *)
(* that the code of ChordMaintenance beyond ChordRing never runs, so that  *)
(* ChordRing has every behaviour of the whole; and that nodes form a star. *)
(***************************************************************************)
EXTENDS ChordMaintenance, FiniteSetTheorems, WellFoundedInduction, TLAPS

-----------------------------------------------------------------------------
\* Between a node and itself lies everything else: find_successor of a node that
\* is its own successor never goes on to the fingers.
LEMMA AloneOnTheRing ==
  ASSUME NEW x \in Int, NEW a \in Int
  PROVE  InInterval(x, a, a) <=> x # a
BY DEF InInterval

\* No node lies strictly behind itself: closest_preceding_node never chooses a
\* finger that is the node itself.
LEMMA NotBeforeItself ==
  ASSUME NEW n \in Int, NEW id
  PROVE  ~InInterval(n, n, id)
BY DEF InInterval

\* Two nodes cut the circle into two open arcs, whatever their order:
\* is_in_interval puts every other identifier in exactly one of them.
THEOREM ArcsPartition ==
  ASSUME NEW x \in Int, NEW a \in Int, NEW b \in Int, a # b, x # a, x # b
  PROVE  InInterval(x, a, b) <=> ~InInterval(x, b, a)
BY DEF InInterval

\* Without the wrap-around should_transfer_file is the arc only when the joining
\* node has the smaller identifier; with the larger one it gives nothing away.
THEOREM TransferIsArcWithoutWrap ==
  ASSUME NEW f \in Int, NEW new \in Int, NEW current \in Int
  PROVE  /\ new < current =>
              (ShouldTransfer(f, new, current) <=> InInterval(f, new, current) \/ f = current)
         /\ current <= new => ~ShouldTransfer(f, new, current)
BY DEF ShouldTransfer, InInterval

\* Clockwise from an entry that is handed over, the node that gives it comes
\* before the one that takes it: of the two it is the first, to which the file
\* belongs.
THEOREM GiverComesFirst ==
  ASSUME NEW f \in Int, NEW new \in Int, NEW current \in Int,
         ShouldTransfer(f, new, current)
  PROVE  current = f \/ InInterval(current, f, new)
BY DEF ShouldTransfer, InInterval

-----------------------------------------------------------------------------
(***************************************************************************)
(* Lists of entries: what the loops over n->files leave of one.            *)
(***************************************************************************)
\* Induction, for a set of numbers: the order of the numbers is well founded.
LEMMA Induction ==
  ASSUME NEW T, 0 \in T, \A n \in Nat : n \in T => n + 1 \in T
  PROVE  Nat \subseteq T
<1> SUFFICES ASSUME Nat \ T # {}
             PROVE  FALSE
  OBVIOUS
<1>1. PICK x \in Nat \ T : \A y \in Nat \ T : ~(<<y, x>> \in OpToRel(<, Nat))
  BY NatLessThanWellFounded, WFMin, Nat \ T \subseteq Nat
<1>2. \A y \in Nat \ T : ~ (y < x)
  BY <1>1 DEF OpToRel
<1>3. x # 0
  OBVIOUS
<1>4. x - 1 \in Nat /\ (x - 1) + 1 = x /\ x - 1 < x
  BY <1>3
<1>. QED
  BY <1>1, <1>2, <1>4

\* The loop after n turns.
IsKept(g, s, S, n) ==
  g = [i \in 0 .. n |->
         IF i = 0 THEN <<>> ELSE IF s[i] \in S THEN Append(g[i - 1], s[i]) ELSE g[i - 1]]

\* The loop has a result after every number of turns.
LEMMA KeptExists ==
  ASSUME NEW E, NEW s \in Seq(E), NEW S
  PROVE  \E g : IsKept(g, s, S, Len(s))
<1> DEFINE T == {n \in Nat : n <= Len(s) => \E g \in [0 .. n -> Seq(E)] : IsKept(g, s, S, n)}
<1>1. 0 \in T
  <2>1. [i \in 0 .. 0 |-> <<>>] \in [0 .. 0 -> Seq(E)]
    OBVIOUS
  <2>2. IsKept([i \in 0 .. 0 |-> <<>>], s, S, 0)
    BY DEF IsKept
  <2>. QED
    BY <2>1, <2>2
<1>2. ASSUME NEW n \in Nat, n \in T
      PROVE  n + 1 \in T
  <2>. SUFFICES ASSUME n + 1 <= Len(s)
                PROVE  \E g \in [0 .. n + 1 -> Seq(E)] : IsKept(g, s, S, n + 1)
    OBVIOUS
  <2>1. PICK g \in [0 .. n -> Seq(E)] : IsKept(g, s, S, n)
    BY <1>2
  <2>2. s[n + 1] \in E /\ g[n] \in Seq(E)
    BY <2>1
  <2> DEFINE new == IF s[n + 1] \in S THEN Append(g[n], s[n + 1]) ELSE g[n]
             h == [i \in 0 .. n + 1 |-> IF i = n + 1 THEN new ELSE g[i]]
  <2>3. new \in Seq(E)
    BY <2>2
  <2>4. h \in [0 .. n + 1 -> Seq(E)]
    <3>1. \A i \in 0 .. n + 1 : i # n + 1 => i \in 0 .. n
      OBVIOUS
    <3>. HIDE DEF new
    <3>. QED
      BY <2>1, <2>3, <3>1
  <2>5. ASSUME NEW i \in 0 .. n + 1
        PROVE  h[i] = IF i = 0 THEN <<>>
                      ELSE IF s[i] \in S THEN Append(h[i - 1], s[i]) ELSE h[i - 1]
    <3>1. CASE i = n + 1
      <4>1. i - 1 = n /\ n \in 0 .. n + 1 /\ n # n + 1 /\ i # 0
        BY <3>1
      <4>2. h[i - 1] = g[n]
        BY <4>1
      <4>3. h[i] = new
        BY <3>1
      <4>. QED
        BY <3>1, <4>1, <4>2, <4>3
    <3>2. CASE i # n + 1
      <4>1. i \in 0 .. n /\ h[i] = g[i]
        BY <3>2
      <4>2. i # 0 => i - 1 \in 0 .. n + 1 /\ i - 1 # n + 1 /\ h[i - 1] = g[i - 1]
        BY <4>1
      <4>3. g[i] = IF i = 0 THEN <<>>
                   ELSE IF s[i] \in S THEN Append(g[i - 1], s[i]) ELSE g[i - 1]
        BY <2>1, <4>1 DEF IsKept
      <4>. HIDE DEF h
      <4>. QED
        BY <4>1, <4>2, <4>3
    <3>. QED
      BY <3>1, <3>2
  <2>6. h = [i \in 0 .. n + 1 |-> h[i]]
    OBVIOUS
  <2>7. IsKept(h, s, S, n + 1)
    <3>. HIDE DEF h
    <3>. QED
      BY <2>5, <2>6 DEF IsKept
  <2>. QED
    BY <2>4, <2>7
<1>3. Nat \subseteq T
  BY <1>1, <1>2, Induction
<1>4. Len(s) \in T
  BY <1>3
<1>. QED
  BY <1>4

\* What is kept: the entries of the list that are in S, none twice that was not
\* there twice.
LEMMA KeptIs ==
  ASSUME NEW E, NEW s \in Seq(E), NEW S
  PROVE  /\ Kept(s, S) \in Seq(E \cap S)
         /\ Range(Kept(s, S)) = Range(s) \cap S
         /\ IsInjective(s) => IsInjective(Kept(s, S))
<1> DEFINE g == CHOOSE k : IsKept(k, s, S, Len(s))
           Good(n) == /\ g[n] \in Seq(E \cap S)
                      /\ Range(g[n]) = {s[i] : i \in 1 .. n} \cap S
                      /\ IsInjective(s) => IsInjective(g[n])
           T == {n \in Nat : n <= Len(s) => Good(n)}
<1>1. IsKept(g, s, S, Len(s))
  BY KeptExists
<1>2. Kept(s, S) = g[Len(s)]
  BY DEF Kept, IsKept
<1>. HIDE DEF g
<1>3. 0 \in T
  <2>1. g[0] = <<>>
    BY <1>1 DEF IsKept
  <2>2. {s[i] : i \in 1 .. 0} = {} /\ Range(<<>>) = {} /\ IsInjective(<<>>)
    BY DEF Range, IsInjective
  <2>3. <<>> \in Seq(E \cap S)
    OBVIOUS
  <2>4. Good(0)
    BY <2>1, <2>2, <2>3
  <2>. QED
    BY <2>4
<1>4. ASSUME NEW n \in Nat, n \in T
      PROVE  n + 1 \in T
  <2>. SUFFICES ASSUME n + 1 <= Len(s)
                PROVE  Good(n + 1)
    OBVIOUS
  <2>1. Good(n)
    BY <1>4
  <2>2. g[n + 1] = IF s[n + 1] \in S THEN Append(g[n], s[n + 1]) ELSE g[n]
    <3>1. n + 1 \in 0 .. Len(s) /\ n + 1 # 0 /\ (n + 1) - 1 = n
      OBVIOUS
    <3>. QED
      BY <1>1, <3>1 DEF IsKept
  <2>3. {s[i] : i \in 1 .. n + 1} = {s[i] : i \in 1 .. n} \cup {s[n + 1]}
    <3>1. 1 .. n + 1 = (1 .. n) \cup {n + 1}
      OBVIOUS
    <3>. QED
      BY <3>1
  <2>4. s[n + 1] \in E
    OBVIOUS
  <2>5. CASE s[n + 1] \in S
    <3>1. g[n + 1] = Append(g[n], s[n + 1]) /\ s[n + 1] \in E \cap S
      BY <2>2, <2>4, <2>5
    <3>2. g[n + 1] \in Seq(E \cap S)
      BY <2>1, <3>1
    <3>3. /\ Len(g[n + 1]) = Len(g[n]) + 1 /\ DOMAIN g[n + 1] = 1 .. Len(g[n]) + 1
          /\ \A i \in 1 .. Len(g[n]) : g[n + 1][i] = g[n][i]
          /\ g[n + 1][Len(g[n]) + 1] = s[n + 1]
          /\ Len(g[n]) \in Nat /\ DOMAIN g[n] = 1 .. Len(g[n])
      <4> PICK h \in Seq(E \cap S) : h = g[n]
        BY <2>1
      <4> PICK y \in E \cap S : y = s[n + 1]
        BY <3>1
      <4>1. g[n + 1] = Append(h, y)
        BY <3>1
      <4>2. /\ Len(Append(h, y)) = Len(h) + 1 /\ DOMAIN Append(h, y) = 1 .. Len(h) + 1
            /\ Len(h) \in Nat /\ DOMAIN h = 1 .. Len(h)
        OBVIOUS
      <4>3. /\ \A i \in 1 .. Len(h) : Append(h, y)[i] = h[i]
            /\ Append(h, y)[Len(h) + 1] = y
        OBVIOUS
      <4>. QED
        BY <4>1, <4>2, <4>3
    <3>4. Range(g[n + 1]) = Range(g[n]) \cup {s[n + 1]}
      <4>1. \A i \in 1 .. Len(g[n]) + 1 : i \in 1 .. Len(g[n]) \/ i = Len(g[n]) + 1
        BY <3>3
      <4>2. \A i \in 1 .. Len(g[n]) : i \in 1 .. Len(g[n]) + 1
        BY <3>3
      <4>3. Range(g[n + 1]) \subseteq Range(g[n]) \cup {s[n + 1]}
        BY <3>3, <4>1 DEF Range
      <4>4. Range(g[n]) \subseteq Range(g[n + 1])
        BY <3>3, <4>2 DEF Range
      <4>5. Len(g[n]) + 1 \in 1 .. Len(g[n]) + 1
        BY <3>3
      <4>6. s[n + 1] \in Range(g[n + 1])
        BY <3>3, <4>5 DEF Range
      <4>. QED
        BY <4>3, <4>4, <4>6
    <3>5. ASSUME IsInjective(s)
          PROVE  IsInjective(g[n + 1])
      <4>1. s[n + 1] \notin {s[i] : i \in 1 .. n}
        BY <3>5 DEF IsInjective
      <4>2. s[n + 1] \notin Range(g[n])
        BY <2>1, <4>1
      <4>3. \A i \in 1 .. Len(g[n]) : g[n][i] # s[n + 1]
        BY <3>3, <4>2 DEF Range
      <4>4. \A i, j \in 1 .. Len(g[n]) : g[n][i] = g[n][j] => i = j
        BY <2>1, <3>3, <3>5 DEF IsInjective
      <4>5. \A i \in 1 .. Len(g[n]) + 1 : i \in 1 .. Len(g[n]) \/ i = Len(g[n]) + 1
        BY <3>3
      <4>. QED
        BY <3>3, <4>3, <4>4, <4>5 DEF IsInjective
    <3>. QED
      BY <2>1, <2>3, <2>5, <3>2, <3>4, <3>5
  <2>6. CASE s[n + 1] \notin S
    BY <2>1, <2>2, <2>3, <2>6
  <2>. QED
    BY <2>5, <2>6
<1>5. Nat \subseteq T
  BY <1>3, <1>4, Induction
<1>6. Len(s) \in Nat /\ Len(s) <= Len(s)
  OBVIOUS
<1>7. Good(Len(s))
  <2>1. Len(s) \in T
    BY <1>5, <1>6
  <2>. HIDE DEF Good
  <2>. QED
    BY <1>6, <2>1
<1>8. {s[i] : i \in 1 .. Len(s)} = Range(s)
  BY DEF Range
<1>. QED
  BY <1>2, <1>7, <1>8

-----------------------------------------------------------------------------
(***************************************************************************)
(* Types.                                                                  *)
(***************************************************************************)
\* What the two threads of a node can be in the middle of.
MainStates ==
  {Off, Joining, Fetching, Ready, Finding, Gone}
    \cup [op : {"link"}, todo : Seq(Entries), own : SUBSET Files, read : BOOLEAN,
          head : SUBSET Entries]

ListenerStates ==
  {Free} \cup
    [op : {"delete"}, new : Nodes, junk : BOOLEAN, read : BOOLEAN, seen : Seq(Entries)]

SegmentMessages == {m \in Messages : Segment(m)}

Oddities == {"lost", "late", "twice", "exit", "raced", "early"}

\* The states of a thread are told apart by what it does.
LEMMA Ops ==
  /\ Off.op = "off" /\ Joining.op = "join" /\ Fetching.op = "fetch" /\ Ready.op = "ready"
  /\ Finding.op = "find" /\ Gone.op = "gone" /\ Free.op = "free"
  /\ \A todo, own : /\ Linking(todo, own).op = "link" /\ Linking(todo, own).todo = todo
                    /\ Linking(todo, own).own = own /\ Linking(todo, own).read = FALSE
BY DEF Off, Joining, Fetching, Ready, Finding, Gone, Linking, Free

\* A thread in the middle of linking or deleting, with its fields.
LEMMA LinkFields ==
  ASSUME NEW x \in MainStates, x.op = "link"
  PROVE  x \in [op : {"link"}, todo : Seq(Entries), own : SUBSET Files, read : BOOLEAN,
                head : SUBSET Entries]
BY Ops DEF MainStates

LEMMA DeleteFields ==
  ASSUME NEW x \in ListenerStates, x.op = "delete"
  PROVE  x \in [op : {"delete"}, new : Nodes, junk : BOOLEAN, read : BOOLEAN,
                seen : Seq(Entries)]
BY Ops DEF ListenerStates

LEMMA LinkingType ==
  ASSUME NEW todo \in Seq(Entries), NEW own \in SUBSET Files
  PROVE  Linking(todo, own) \in MainStates
BY DEF Linking, MainStates

\* What a message is, by its type.
LEMMA MessageFields ==
  ASSUME NEW m \in Messages
  PROVE  /\ m.type = "JOIN" => m.from \in Nodes /\ m.to \in Nodes
         /\ m.type = "GET_FILES" => m.from \in Nodes /\ m.to \in Nodes
         /\ m.type = "REPLY" => m.to \in Nodes /\ m.node \in Nodes
         /\ m.type = "FILE_DATA" => m.to \in Nodes /\ m.seg \in Nat /\ m.total \in Nat
                                    /\ m.entry \in Entries
         /\ m.type = "FILE_END" => m.to \in Nodes /\ m.seg \in Nat /\ m.total \in Nat
         /\ m.type \in {"JOIN", "GET_FILES", "REPLY", "FILE_DATA", "FILE_END"}
         /\ m.to \in Nodes
BY DEF Messages

LEMMA SegmentsType ==
  ASSUME NEW to \in Nodes, NEW es \in Seq(Entries)
  PROVE  Segments(to, es) \subseteq Messages
<1>1. Data(to, es, 1) \subseteq [type : {"FILE_DATA"}, to : Nodes, seg : Nat, total : Nat,
                                 entry : Entries]
  BY DEF Data
<1>2. End(to, es) \in [type : {"FILE_END"}, to : Nodes, seg : Nat, total : Nat]
  BY DEF End
<1>. QED
  BY <1>1, <1>2 DEF Segments, Messages

\* The entries in front of those that a deletion saw.
LEMMA FrontIs ==
  ASSUME NEW E, NEW s \in Seq(E), NEW k \in Int, k <= Len(s)
  PROVE  SubSeq(s, 1, k) \in Seq(E) /\ Range(SubSeq(s, 1, k)) \subseteq Range(s)
<1>1. CASE k >= 1
  <2>1. SubSeq(s, 1, k) \in Seq(E) /\ DOMAIN SubSeq(s, 1, k) = 1 .. k
        /\ \A i \in 1 .. k : SubSeq(s, 1, k)[i] = s[i]
    BY <1>1
  <2>. QED
    BY <1>1, <2>1 DEF Range
<1>2. CASE k < 1
  <2>1. SubSeq(s, 1, k) = <<>>
    BY <1>2
  <2>. QED
    BY <2>1 DEF Range
<1>. QED
  BY <1>1, <1>2

LEMMA KeptType ==
  ASSUME NEW E, NEW s \in Seq(E), NEW S
  PROVE  Kept(s, S) \in Seq(E)
<1>1. Kept(s, S) \in Seq(E \cap S)
  BY KeptIs
<1>2. \A t \in Seq(E \cap S) : t \in Seq(E)
  OBVIOUS
<1>. QED
  BY <1>1, <1>2

\* The same of a list of entries.
LEMMA KeptEntries ==
  ASSUME NEW s \in Seq(Entries), NEW S
  PROVE  /\ Kept(s, S) \in Seq(Entries)
         /\ Range(Kept(s, S)) = Range(s) \cap S
         /\ IsInjective(s) => IsInjective(Kept(s, S))
<1>1. Kept(s, S) \in Seq(Entries)
  BY KeptType
<1>. QED
  BY <1>1, KeptIs

\* The type of the state, in parts that can be cited.
LEMMA TypeParts ==
  TypeOK <=>
    /\ main \in [Nodes -> MainStates]
    /\ listener \in [Nodes -> ListenerStates]
    /\ succ \in [Nodes -> Nodes]
    /\ files \in [Nodes -> Seq(Entries)]
    /\ uploaded \in [Nodes -> SUBSET Files]
    /\ replies \in [Nodes -> SUBSET Nodes]
    /\ downloads \in [Nodes -> Seq(SegmentMessages)]
    /\ net \subseteq Messages
    /\ faults \in 0 .. MaxFaults
    /\ odd \subseteq Oddities
BY DEF TypeOK, MainStates, ListenerStates, SegmentMessages, Oddities

LEMMA TypeInit ==
  ASSUME Init
  PROVE  TypeOK
<1>1. <<>> \in Seq(Entries) /\ <<>> \in Seq(SegmentMessages)
  OBVIOUS
<1>2. Off \in MainStates /\ Free \in ListenerStates
  BY DEF MainStates, ListenerStates
<1>3. 0 \in 0 .. MaxFaults
  BY ChordRingAssumption
<1>. QED
  BY <1>1, <1>2, <1>3, TypeParts DEF Init

LEMMA TurnType ==
  ASSUME main \in [Nodes -> MainStates], NEW n \in Nodes, NEW x \in MainStates, Turn(n, x)
  PROVE  main' \in [Nodes -> MainStates]
BY DEF Turn

LEMMA FaultType ==
  ASSUME faults \in 0 .. MaxFaults, Fault \/ UNCHANGED faults
  PROVE  faults' \in 0 .. MaxFaults
BY ChordRingAssumption DEF Fault

LEMMA TypePartsNext ==
  ASSUME /\ main' \in [Nodes -> MainStates]
         /\ listener' \in [Nodes -> ListenerStates]
         /\ succ' \in [Nodes -> Nodes]
         /\ files' \in [Nodes -> Seq(Entries)]
         /\ uploaded' \in [Nodes -> SUBSET Files]
         /\ replies' \in [Nodes -> SUBSET Nodes]
         /\ downloads' \in [Nodes -> Seq(SegmentMessages)]
         /\ net' \subseteq Messages
         /\ faults' \in 0 .. MaxFaults
         /\ odd' \subseteq Oddities
  PROVE  TypeOK'
BY DEF TypeOK, MainStates, ListenerStates, SegmentMessages, Oddities

LEMMA HandlersKeepType ==
  ASSUME TypeOK, NEW m \in net, NEW rest \in SUBSET net,
         NEW why \in SUBSET {"late", "twice"}, Handle(m, rest, why)
  PROVE  /\ main' \in [Nodes -> MainStates]
         /\ listener' \in [Nodes -> ListenerStates]
         /\ succ' \in [Nodes -> Nodes]
         /\ files' \in [Nodes -> Seq(Entries)]
         /\ uploaded' \in [Nodes -> SUBSET Files]
         /\ replies' \in [Nodes -> SUBSET Nodes]
         /\ downloads' \in [Nodes -> Seq(SegmentMessages)]
         /\ net' \subseteq Messages
         /\ odd' \subseteq Oddities
<1> DEFINE n == m.to
<1>1. m \in Messages /\ n \in Nodes /\ rest \subseteq Messages
  BY TypeParts, MessageFields
<1>2. CASE m.type = "JOIN" /\ HandleJoin(n, m, rest, why, succ[n])
  <2>1. [type |-> "REPLY", to |-> m.from, node |-> succ[n]] \in Messages
    BY <1>1, <1>2, MessageFields, TypeParts DEF Messages
  <2>. QED
    BY <1>1, <1>2, <2>1, TypeParts DEF HandleJoin, Handle, Oddities
<1>3. CASE m.type = "GET_FILES" /\ HandleGetFiles(n, m, rest, why)
  <2>1. PICK junk \in BOOLEAN :
          /\ net' = rest \cup
               Segments(m.from, Kept(files[n], Going(files[n], m.from, n, junk)))
          /\ listener' = [listener EXCEPT ![n] =
               [op |-> "delete", new |-> m.from, junk |-> junk, read |-> FALSE, seen |-> <<>>]]
          /\ odd' = odd \cup why \cup {w \in {"raced"} : main[n].op = "link" /\ main[n].read}
          /\ UNCHANGED <<main, files, replies, downloads>>
    BY <1>3 DEF HandleGetFiles
  <2>2. m.from \in Nodes
    BY <1>1, <1>3, MessageFields
  <2>3. files[n] \in Seq(Entries)
    BY <1>1, TypeParts
  <2>4. Kept(files[n], Going(files[n], m.from, n, junk)) \in Seq(Entries)
    BY <2>3, KeptType
  <2>5. net' \subseteq Messages
    BY <1>1, <2>1, <2>2, <2>4, SegmentsType
  <2>6. [op |-> "delete", new |-> m.from, junk |-> junk, read |-> FALSE, seen |-> <<>>]
          \in ListenerStates
    BY <2>2 DEF ListenerStates
  <2>7. listener' \in [Nodes -> ListenerStates]
    BY <1>1, <2>1, <2>6, TypeParts
  <2>8. UNCHANGED <<succ, uploaded>>
    BY DEF Handle
  <2>9. odd' \subseteq Oddities
    BY <2>1, TypeParts DEF Oddities
  <2>. QED
    BY <2>1, <2>5, <2>7, <2>8, <2>9, TypeParts
<1>4. CASE m.type = "REPLY" /\ HandleReply(n, m, rest, why)
  <2>1. m.node \in Nodes
    BY <1>1, <1>4, MessageFields
  <2>. QED
    BY <1>1, <1>4, <2>1, TypeParts DEF HandleReply, Handle, Oddities
<1>5. CASE Segment(m) /\ HandleFileData(n, m, rest, why)
  <2>1. m \in SegmentMessages
    BY <1>1, <1>5 DEF SegmentMessages
  <2>2. downloads' = [downloads EXCEPT ![n] = Append(@, m)]
    BY <1>5 DEF HandleFileData
  <2>3. downloads[n] \in Seq(SegmentMessages)
    BY <1>1, TypeParts
  <2>4. downloads' \in [Nodes -> Seq(SegmentMessages)]
    BY <1>1, <2>1, <2>2, <2>3, TypeParts
  <2>. QED
    BY <1>1, <1>5, <2>4, TypeParts DEF HandleFileData, Handle, Oddities
<1>. QED
  BY <1>2, <1>3, <1>4, <1>5 DEF Handle

LEMMA TypeStep ==
  ASSUME TypeOK, [Next]_vars
  PROVE  TypeOK'
<1>0. /\ main \in [Nodes -> MainStates]
      /\ listener \in [Nodes -> ListenerStates]
      /\ succ \in [Nodes -> Nodes]
      /\ files \in [Nodes -> Seq(Entries)]
      /\ uploaded \in [Nodes -> SUBSET Files]
      /\ replies \in [Nodes -> SUBSET Nodes]
      /\ downloads \in [Nodes -> Seq(SegmentMessages)]
      /\ net \subseteq Messages
      /\ faults \in 0 .. MaxFaults
      /\ odd \subseteq Oddities
  BY TypeParts
<1>1. CASE UNCHANGED vars
  BY <1>1 DEF vars, TypeOK
<1>a. {Off, Joining, Fetching, Ready, Finding, Gone} \subseteq MainStates /\ Free \in ListenerStates
  BY DEF MainStates, ListenerStates
<1>2. ASSUME NEW n \in Nodes, Create(n)
      PROVE  TypeOK'
  BY <1>0, <1>a, <1>2, TurnType, TypePartsNext DEF Create
<1>3. ASSUME NEW n \in Nodes, NEW contact \in Contacts[n], Join(n, contact)
      PROVE  TypeOK'
  <2>1. contact \in Nodes
    BY ChordRingAssumption
  <2>2. [type |-> "JOIN", from |-> n, to |-> contact] \in Messages
    BY <2>1 DEF Messages
  <2>3. main' \in [Nodes -> MainStates]
    BY <1>0, <1>a, <1>3, TurnType DEF Join
  <2>. QED
    BY <1>0, <1>3, <2>2, <2>3, TypePartsNext DEF Join
<1>4. ASSUME NEW n \in Nodes, JoinReply(n)
      PROVE  TypeOK'
  <2>1. PICK r \in replies[n] :
          /\ succ' = [succ EXCEPT ![n] = r]
          /\ replies' = [replies EXCEPT ![n] = @ \ {r}]
          /\ net' = net \cup {[type |-> "GET_FILES", from |-> n, to |-> r]}
    BY <1>4 DEF JoinReply
  <2>2. r \in Nodes
    BY <1>0
  <2>3. [type |-> "GET_FILES", from |-> n, to |-> r] \in Messages
    BY <2>2 DEF Messages
  <2>4. main' \in [Nodes -> MainStates]
    BY <1>0, <1>a, <1>4, TurnType DEF JoinReply
  <2>5. succ' \in [Nodes -> Nodes] /\ replies' \in [Nodes -> SUBSET Nodes] /\ net' \subseteq Messages
    BY <1>0, <2>1, <2>2, <2>3
  <2>. QED
    BY <1>0, <1>4, <2>4, <2>5, TypePartsNext DEF JoinReply
<1>5. ASSUME NEW n \in Nodes, FetchEnd(n)
      PROVE  TypeOK'
  <2>1. PICK e \in DOMAIN downloads[n] :
          /\ downloads' = [downloads EXCEPT ![n] = SubSeq(@, e + 1, Len(@))]
          /\ \/ \E last \in {downloads[n][i] : i \in 1 .. e - 1} :
                  \E got \in [1 .. last.total -> Files \cup {Junk}] : Turn(n, Linking(got, {}))
             \/ Turn(n, Ready)
    BY <1>5 DEF FetchEnd
  <2>2. downloads[n] \in Seq(SegmentMessages)
    BY <1>0
  <2>3. SubSeq(downloads[n], e + 1, Len(downloads[n])) \in Seq(SegmentMessages)
    BY <2>2
  <2>4. downloads' \in [Nodes -> Seq(SegmentMessages)]
    BY <1>0, <2>1, <2>3
  <2>5. main' \in [Nodes -> MainStates]
    <3>1. ASSUME NEW last \in {downloads[n][i] : i \in 1 .. e - 1},
                 NEW got \in [1 .. last.total -> Files \cup {Junk}], Turn(n, Linking(got, {}))
          PROVE  main' \in [Nodes -> MainStates]
      <4>1. last \in SegmentMessages
        BY <2>2
      <4>2. last.total \in Nat
        BY <4>1, MessageFields DEF SegmentMessages, Segment
      <4>3. got \in Seq(Entries)
        BY <4>2 DEF Entries
      <4>. QED
        BY <1>0, <3>1, <4>3, LinkingType, TurnType
    <3>. QED
      BY <1>0, <1>a, <2>1, <3>1, TurnType
  <2>. QED
    BY <1>0, <1>5, <2>4, <2>5, TypePartsNext DEF FetchEnd
<1>6. ASSUME NEW n \in Nodes, LinkRead(n)
      PROVE  TypeOK'
  <2>1. main[n] \in [op : {"link"}, todo : Seq(Entries), own : SUBSET Files, read : BOOLEAN,
                     head : SUBSET Entries]
    BY <1>0, <1>6, LinkFields DEF LinkRead
  <2>2. HeadOf(files[n]) \subseteq Entries
    <3>1. files[n] \in Seq(Entries)
      BY <1>0
    <3>. QED
      BY <3>1 DEF HeadOf
  <2>3. main' = [main EXCEPT ![n] = [[main[n] EXCEPT !.read = TRUE] EXCEPT !.head = HeadOf(files[n])]]
    BY <1>0, <1>6, <2>1 DEF LinkRead
  <2>4. [[main[n] EXCEPT !.read = TRUE] EXCEPT !.head = HeadOf(files[n])] \in MainStates
    BY <2>1, <2>2 DEF MainStates
  <2>5. main' \in [Nodes -> MainStates]
    BY <1>0, <2>3, <2>4
  <2>. QED
    BY <1>0, <1>6, <2>5, TypePartsNext DEF LinkRead, Oddities
<1>7. ASSUME NEW n \in Nodes, LinkWrite(n)
      PROVE  TypeOK'
  <2> DEFINE f == Head(main[n].todo)
  <2>1. main[n] \in [op : {"link"}, todo : Seq(Entries), own : SUBSET Files, read : BOOLEAN,
                     head : SUBSET Entries]
    BY <1>0, <1>7, LinkFields DEF LinkWrite
  <2>2. main[n].todo \in Seq(Entries) /\ main[n].own \subseteq Files /\ Len(main[n].todo) >= 1
    BY <1>7, <2>1 DEF LinkWrite
  <2>3. f \in Entries /\ Tail(main[n].todo) \in Seq(Entries)
    BY <2>2
  <2>4. files' \in [Nodes -> Seq(Entries)]
    <3>1. files[n] \in Seq(Entries) /\ <<>> \in Seq(Entries) /\ Junk \in Entries
      BY <1>0 DEF Entries
    <3>2. <<f>> \in Seq(Entries) /\ <<f, Junk>> \in Seq(Entries)
      BY <2>3, <3>1
    <3>3. \A rest \in Seq(Entries) : <<f>> \o rest \in Seq(Entries) /\ <<f, Junk>> \o rest \in Seq(Entries)
      BY <3>2
    <3>4. \/ files' = [files EXCEPT ![n] = <<f>> \o files[n]]
          \/ \E rest \in {<<>>, files[n]} : files' = [files EXCEPT ![n] = <<f, Junk>> \o rest]
      BY <1>0, <1>7 DEF LinkWrite
    <3>5. PICK new \in Seq(Entries) : files' = [files EXCEPT ![n] = new]
      BY <3>1, <3>3, <3>4
    <3>. QED
      BY <1>0, <3>5
  <2>5. /\ main' \in [Nodes -> MainStates]
        /\ uploaded' \in [Nodes -> SUBSET Files]
    <3>1. Linking(Tail(main[n].todo), main[n].own) \in MainStates
      BY <2>2, <2>3, LinkingType
    <3>2. \/ Turn(n, Linking(Tail(main[n].todo), main[n].own)) /\ UNCHANGED uploaded
          \/ Turn(n, Ready) /\ uploaded' = [uploaded EXCEPT ![n] = @ \cup main[n].own]
      BY <1>7 DEF LinkWrite
    <3>3. uploaded[n] \cup main[n].own \in SUBSET Files
      BY <1>0, <2>2
    <3>4. uploaded' \in [Nodes -> SUBSET Files]
      BY <1>0, <3>2, <3>3
    <3>5. main' \in [Nodes -> MainStates]
      BY <1>0, <1>a, <3>1, <3>2, TurnType
    <3>. QED
      BY <3>4, <3>5
  <2>. QED
    BY <1>0, <1>7, <2>4, <2>5, TypePartsNext DEF LinkWrite, Oddities
<1>8. ASSUME NEW n \in Nodes, NEW f \in Files, Store(n, f)
      PROVE  TypeOK'
  <2>1. StoreAt(n, f, succ[n])
    BY <1>8 DEF Store
  <2>2. Linking(<<f>>, {f}) \in MainStates
    <3>1. <<f>> \in Seq(Entries)
      BY DEF Entries
    <3>. QED
      BY <3>1, LinkingType
  <2>3. main' \in [Nodes -> MainStates]
    BY <1>0, <1>a, <2>1, <2>2, TurnType DEF StoreAt
  <2>4. uploaded' \in [Nodes -> SUBSET Files]
    <3>1. uploaded[n] \cup {f} \in SUBSET Files
      BY <1>0
    <3>2. UNCHANGED uploaded \/ uploaded' = [uploaded EXCEPT ![n] = uploaded[n] \cup {f}]
      BY <2>1 DEF StoreAt
    <3>. QED
      BY <1>0, <3>1, <3>2
  <2>. QED
    BY <1>0, <2>1, <2>3, <2>4, TypePartsNext DEF StoreAt
<1>9. ASSUME NEW n \in Nodes, Find(n)
      PROVE  TypeOK'
  BY <1>0, <1>a, <1>9, TurnType, TypePartsNext DEF Find, FindAt
<1>10. ASSUME NEW n \in Nodes, DeleteRead(n)
       PROVE  TypeOK'
  <2>1. listener[n] \in [op : {"delete"}, new : Nodes, junk : BOOLEAN, read : BOOLEAN,
                         seen : Seq(Entries)]
    BY <1>0, <1>10, DeleteFields DEF DeleteRead
  <2>2. files[n] \in Seq(Entries)
    BY <1>0
  <2>3. listener' = [listener EXCEPT ![n] = [[listener[n] EXCEPT !.read = TRUE] EXCEPT !.seen = files[n]]]
    BY <1>0, <1>10, <2>1 DEF DeleteRead
  <2>4. [[listener[n] EXCEPT !.read = TRUE] EXCEPT !.seen = files[n]] \in ListenerStates
    BY <2>1, <2>2 DEF ListenerStates
  <2>5. listener' \in [Nodes -> ListenerStates]
    BY <1>0, <2>3, <2>4
  <2>. QED
    BY <1>0, <1>10, <2>5, TypePartsNext DEF DeleteRead
<1>11. ASSUME NEW n \in Nodes, DeleteWrite(n)
       PROVE  TypeOK'
  <2> DEFINE seen  == listener[n].seen
             gone  == Going(seen, listener[n].new, n, listener[n].junk)
             front == SubSeq(files[n], 1, Len(files[n]) - Len(seen))
             first == IF seen # <<>> /\ Head(seen) \in gone THEN <<>> ELSE front
             left  == Kept(seen, Range(seen) \ gone)
  <2>1. seen \in Seq(Entries) /\ files[n] \in Seq(Entries)
    BY <1>0, <1>11, DeleteFields DEF DeleteWrite
  <2>2. left \in Seq(Entries)
    <3>. HIDE DEF seen
    <3>. QED
      BY <2>1, KeptType
  <2>3. Len(files[n]) - Len(seen) \in Int /\ Len(files[n]) - Len(seen) <= Len(files[n])
    <3>1. Len(files[n]) \in Nat /\ Len(seen) \in Nat
      BY <2>1
    <3>2. \A a, b \in Nat : a - b \in Int /\ a - b <= a
      OBVIOUS
    <3>. QED
      BY <3>1, <3>2
  <2>4. first \in Seq(Entries)
    BY <2>1, <2>3, FrontIs
  <2>5. files' = [files EXCEPT ![n] = first \o left]
    BY <1>11 DEF DeleteWrite
  <2>. HIDE DEF first, left
  <2>6. first \o left \in Seq(Entries)
    BY <2>2, <2>4
  <2>7. files' \in [Nodes -> Seq(Entries)]
    BY <1>0, <2>5, <2>6
  <2>8. listener' \in [Nodes -> ListenerStates]
    BY <1>0, <1>a, <1>11 DEF DeleteWrite
  <2>. QED
    BY <1>0, <1>11, <2>7, <2>8, TypePartsNext DEF DeleteWrite
<1>12. ASSUME NEW n \in Nodes, Exit(n)
       PROVE  TypeOK'
  <2>1. <<>> \in Seq(Entries) /\ <<>> \in Seq(SegmentMessages)
    OBVIOUS
  <2>2. main' \in [Nodes -> MainStates] /\ faults' \in 0 .. MaxFaults
    BY <1>0, <1>a, <1>12, TurnType, FaultType DEF Exit
  <2>3. /\ listener' \in [Nodes -> ListenerStates]
        /\ files' \in [Nodes -> Seq(Entries)]
        /\ replies' \in [Nodes -> SUBSET Nodes]
        /\ downloads' \in [Nodes -> Seq(SegmentMessages)]
    BY <1>0, <1>a, <1>12, <2>1 DEF Exit
  <2>. QED
    BY <1>0, <1>12, <2>2, <2>3, TypePartsNext DEF Exit, Oddities
<1>13. ASSUME NEW m \in net, Deliver(m)
       PROVE  TypeOK'
  <2>1. CASE Lose(m)
    <3>1. faults' \in 0 .. MaxFaults
      BY <1>0, <2>1, FaultType DEF Lose
    <3>. QED
      BY <1>0, <2>1, <3>1, TypePartsNext DEF Lose, Oddities
  <2>2. ASSUME NEW rest \in SUBSET net, NEW why \in SUBSET {"late", "twice"},
               Handle(m, rest, why), Fault \/ UNCHANGED faults
        PROVE  TypeOK'
    <3>1. faults' \in 0 .. MaxFaults
      BY <1>0, <2>2, FaultType
    <3>. QED
      BY <2>2, <3>1, HandlersKeepType, TypePartsNext
  <2>. QED
    BY <1>13, <2>1, <2>2 DEF Deliver, Receive, Overtake, Duplicate
<1>. QED
  BY <1>1, <1>2, <1>3, <1>4, <1>5, <1>6, <1>7, <1>8, <1>9, <1>10, <1>11, <1>12, <1>13
     DEF Next, Work, Delete

\* Every variable of the nodes keeps its type, whatever the network does: lists
\* hold entries, queues hold segments, and threads are in the middle of their
\* own steps.
THEOREM RingTypeOK == Spec => []TypeOK
<1>1. Init => TypeOK
  BY TypeInit
<1>2. TypeOK /\ [Next]_vars => TypeOK'
  BY TypeStep
<1>. QED
  BY <1>1, <1>2, PTL DEF Spec

-----------------------------------------------------------------------------
(***************************************************************************)
(* Entries that are none.  They come from memory: of a segment that is not *)
(* there when its answer is read, or of a list whose head was freed.  The  *)
(* invariant says where every segment is until it is read, and that a head *)
(* that was read is still in its list.                                     *)
(***************************************************************************)
Unharmed == odd \cap {"lost", "late", "raced"} = {}

\* No list holds an entry that is none, a head that was read is still there, and
\* nothing is being deleted behind it.
CleanLists ==
  \A n \in Nodes :
    /\ Junk \notin Range(files[n])
    /\ main[n].op = "link" =>
         /\ Junk \notin Range(main[n].todo)
         /\ main[n].read => listener[n] = Free /\ main[n].head \subseteq Range(files[n])
    /\ listener[n].op = "delete" /\ listener[n].read => Junk \notin Range(listener[n].seen)

CleanData(m) == m.type = "FILE_DATA" => m.entry # Junk /\ m.seg \in 1 .. m.total

CleanSegments ==
  /\ \A m \in net : CleanData(m)
  /\ \A n \in Nodes : \A j \in DOMAIN downloads[n] : CleanData(downloads[n][j])

\* Does the queue q have segment i among its first j answers?
HasSegment(q, i, j) == \E k \in 1 .. j : q[k].type = "FILE_DATA" /\ q[k].seg = i

\* Until a node has its files, no segment is queued before an earlier one, and
\* none is under way before an earlier one unless that is queued.
InOrder ==
  \A n \in Nodes : main[n].op \in {"off", "join", "fetch"} =>
    /\ \A j \in DOMAIN downloads[n] : downloads[n][j].type = "FILE_DATA" =>
         \A i \in 1 .. downloads[n][j].seg - 1 : HasSegment(downloads[n], i, j - 1)
    /\ \A m \in net : m.type = "FILE_DATA" /\ m.to = n =>
         \A i \in 1 .. m.seg - 1 :
           \/ HasSegment(downloads[n], i, Len(downloads[n]))
           \/ \E o \in net : o.type = "FILE_DATA" /\ o.to = n /\ o.seg = i

NoJunk == CleanLists /\ CleanSegments /\ InOrder

LEMMA TurnsKeepLists ==
  ASSUME TypeOK, CleanLists, NEW n \in Nodes, NEW x, Turn(n, x), UNCHANGED <<listener, files>>,
         x.op = "link" => ~x.read /\ Junk \notin Range(x.todo)
  PROVE  CleanLists'
<1>1. main' = [main EXCEPT ![n] = x] /\ DOMAIN main = Nodes
  BY TypeParts DEF Turn
<1>2. \A k \in Nodes : main'[k] = IF k = n THEN x ELSE main[k]
  BY <1>1
<1>. QED
  BY <1>2 DEF CleanLists

LEMMA TurnsKeepOrder ==
  ASSUME TypeOK, InOrder, NEW n \in Nodes, NEW x, Turn(n, x), UNCHANGED downloads,
         net \subseteq net', \A m \in net' \ net : m.type # "FILE_DATA",
         x.op \in {"off", "join", "fetch"} => main[n].op \in {"off", "join", "fetch"}
  PROVE  InOrder'
<1>1. main' = [main EXCEPT ![n] = x] /\ DOMAIN main = Nodes
  BY TypeParts DEF Turn
<1>2. \A k \in Nodes : main'[k].op \in {"off", "join", "fetch"} => main[k].op \in {"off", "join", "fetch"}
  BY <1>1
<1>3. ASSUME NEW k \in Nodes, main'[k].op \in {"off", "join", "fetch"},
             NEW m \in net', m.type = "FILE_DATA", m.to = k, NEW i \in 1 .. m.seg - 1
      PROVE  \/ HasSegment(downloads[k], i, Len(downloads[k]))
             \/ \E o \in net' : o.type = "FILE_DATA" /\ o.to = k /\ o.seg = i
  <2>1. m \in net /\ main[k].op \in {"off", "join", "fetch"}
    BY <1>2, <1>3
  <2>2. \/ HasSegment(downloads[k], i, Len(downloads[k]))
        \/ \E o \in net : o.type = "FILE_DATA" /\ o.to = k /\ o.seg = i
    BY <1>3, <2>1 DEF InOrder
  <2>. QED
    BY <2>2
<1>4. ASSUME NEW k \in Nodes, main'[k].op \in {"off", "join", "fetch"},
             NEW j \in DOMAIN downloads[k], downloads[k][j].type = "FILE_DATA",
             NEW i \in 1 .. downloads[k][j].seg - 1
      PROVE  HasSegment(downloads[k], i, j - 1)
  BY <1>2, <1>4 DEF InOrder
<1>. QED
  BY <1>3, <1>4 DEF InOrder

\* The segments of an answer are clean and complete.
LEMMA SegmentsAreClean ==
  ASSUME NEW to \in Nodes, NEW es \in Seq(Entries), Junk \notin Range(es)
  PROVE  \A m \in Segments(to, es) :
           /\ CleanData(m) /\ m.to = to
           /\ m.type = "FILE_DATA" => \A i \in 1 .. m.seg - 1 :
                \E o \in Segments(to, es) : o.type = "FILE_DATA" /\ o.to = to /\ o.seg = i
<1> SUFFICES ASSUME NEW m \in Segments(to, es), m.type = "FILE_DATA"
             PROVE  /\ CleanData(m) /\ m.to = to
                    /\ \A i \in 1 .. m.seg - 1 :
                         \E o \in Segments(to, es) : o.type = "FILE_DATA" /\ o.to = to /\ o.seg = i
  BY DEF Segments, Data, End, CleanData
<1>1. m \in Data(to, es, 1)
  BY DEF Segments, End
<1>2. PICK k \in 1 .. Len(es) : m = [type |-> "FILE_DATA", to |-> to, seg |-> k, total |-> Len(es), entry |-> es[k]]
  BY <1>1 DEF Data
<1>3. CleanData(m) /\ m.to = to
  BY <1>2 DEF CleanData, Range
<1>4. ASSUME NEW i \in 1 .. m.seg - 1
      PROVE  \E o \in Segments(to, es) : o.type = "FILE_DATA" /\ o.to = to /\ o.seg = i
  <2>1. i \in 1 .. Len(es)
    BY <1>2
  <2>2. [type |-> "FILE_DATA", to |-> to, seg |-> i, total |-> Len(es), entry |-> es[i]] \in Segments(to, es)
    BY <2>1 DEF Segments, Data
  <2>. QED
    BY <2>2
<1>. QED
  BY <1>3, <1>4

LEMMA NoJunkInit ==
  ASSUME Init
  PROVE  NoJunk
BY Ops DEF Init, NoJunk, CleanLists, CleanSegments, InOrder, Range

LEMMA HandlersAddNoJunk ==
  ASSUME TypeOK, NoJunk, NEW m \in net, NEW rest \in SUBSET net, net \ {m} \subseteq rest, NEW why,
         Late(m) => "late" \in why, Handle(m, rest, why), Unharmed'
  PROVE  NoJunk'
<1> DEFINE n == m.to
<1>0. m \in Messages /\ n \in Nodes /\ listener[n] = Free
  BY TypeParts, MessageFields DEF Handle
<1>1. CASE m.type = "JOIN" /\ HandleJoin(n, m, rest, why, succ[n])
  <2>1. net' = rest \cup {[type |-> "REPLY", to |-> m.from, node |-> succ[n]]}
        /\ UNCHANGED <<main, listener, files, replies, downloads>>
    BY <1>1 DEF HandleJoin
  <2>2. CleanLists'
    BY <2>1 DEF NoJunk, CleanLists
  <2>3. CleanSegments'
    BY <2>1 DEF NoJunk, CleanSegments, CleanData
  <2>4. InOrder'
    BY <1>1, <2>1 DEF NoJunk, InOrder, HasSegment
  <2>. QED
    BY <2>2, <2>3, <2>4 DEF NoJunk
<1>2. CASE m.type = "GET_FILES" /\ HandleGetFiles(n, m, rest, why)
  <2>1. PICK junk \in IF Junk \in Range(files[n]) THEN BOOLEAN ELSE {FALSE} :
          /\ net' = rest \cup
               Segments(m.from, Kept(files[n], Going(files[n], m.from, n, junk)))
          /\ listener' = [listener EXCEPT ![n] =
               [op |-> "delete", new |-> m.from, junk |-> junk, read |-> FALSE, seen |-> <<>>]]
          /\ odd' = odd \cup why \cup {w \in {"raced"} : main[n].op = "link" /\ main[n].read}
          /\ UNCHANGED <<main, files, replies, downloads>>
    BY <1>2 DEF HandleGetFiles
  <2> DEFINE es == Kept(files[n], Going(files[n], m.from, n, junk))
  <2>2. files[n] \in Seq(Entries) /\ Junk \notin Range(files[n]) /\ m.from \in Nodes
    BY <1>0, <1>2, TypeParts, MessageFields DEF NoJunk, CleanLists
  <2>3. es \in Seq(Entries) /\ Range(es) \subseteq Range(files[n])
    <3>1. es \in Seq(Entries)
      BY <2>2, KeptEntries
    <3>2. Range(es) = Range(files[n]) \cap Going(files[n], m.from, n, junk)
      BY <2>2, KeptEntries
    <3>. QED
      BY <3>1, <3>2
  <2>4. \A o \in Segments(m.from, es) :
           /\ CleanData(o) /\ o.to = m.from
           /\ o.type = "FILE_DATA" => \A i \in 1 .. o.seg - 1 :
                \E x \in Segments(m.from, es) : x.type = "FILE_DATA" /\ x.to = m.from /\ x.seg = i
    <3>. HIDE DEF es
    <3>. QED
      BY <2>2, <2>3, SegmentsAreClean
  <2>5. ~(main[n].op = "link" /\ main[n].read)
    <3>1. "raced" \notin odd'
      BY DEF Unharmed
    <3>. QED
      BY <2>1, <3>1
  <2>6. CleanLists'
    <3>1. \A k \in Nodes : listener'[k] = IF k = n
            THEN [op |-> "delete", new |-> m.from, junk |-> junk, read |-> FALSE, seen |-> <<>>]
            ELSE listener[k]
      BY <2>1, TypeParts
    <3>. QED
      BY <2>1, <2>5, <3>1 DEF NoJunk, CleanLists
  <2>. HIDE DEF es
  <2>7. net' = rest \cup Segments(m.from, es) /\ UNCHANGED <<main, downloads>>
    BY <2>1 DEF es
  <2>8. CleanSegments'
    BY <2>4, <2>7 DEF NoJunk, CleanSegments, CleanData
  <2>9. InOrder'
    <3> SUFFICES ASSUME NEW k \in Nodes, main[k].op \in {"off", "join", "fetch"},
                        NEW o \in net', o.type = "FILE_DATA", o.to = k, NEW i \in 1 .. o.seg - 1
                 PROVE  \/ HasSegment(downloads[k], i, Len(downloads[k]))
                        \/ \E x \in net' : x.type = "FILE_DATA" /\ x.to = k /\ x.seg = i
      BY <2>7 DEF NoJunk, InOrder, HasSegment
    <3>1. CASE o \in rest
      <4>1. \/ HasSegment(downloads[k], i, Len(downloads[k]))
            \/ \E x \in net : x.type = "FILE_DATA" /\ x.to = k /\ x.seg = i
        BY <3>1 DEF NoJunk, InOrder
      <4>2. \A x \in net : x.type = "FILE_DATA" => x \in net'
        BY <1>2, <2>7
      <4>. QED
        BY <4>1, <4>2
    <3>2. CASE o \in Segments(m.from, es)
      BY <2>4, <2>7, <3>2
    <3>. QED
      BY <2>7, <3>1, <3>2
  <2>. QED
    BY <2>6, <2>8, <2>9 DEF NoJunk
<1>3. CASE m.type = "REPLY" /\ HandleReply(n, m, rest, why)
  <2>1. net' = rest /\ UNCHANGED <<main, listener, files, downloads>>
    BY <1>3 DEF HandleReply
  <2>2. CleanLists'
    BY <2>1 DEF NoJunk, CleanLists
  <2>3. CleanSegments'
    BY <2>1 DEF NoJunk, CleanSegments, CleanData
  <2>4. InOrder'
    BY <1>3, <2>1 DEF NoJunk, InOrder, HasSegment
  <2>. QED
    BY <2>2, <2>3, <2>4 DEF NoJunk
<1>4. CASE Segment(m) /\ HandleFileData(n, m, rest, why)
  <2>1. /\ downloads' = [downloads EXCEPT ![n] = Append(@, m)]
        /\ net' = rest /\ odd' = odd \cup why
        /\ UNCHANGED <<main, listener, files, replies>>
    BY <1>4 DEF HandleFileData
  <2> DEFINE q == downloads[n]
  <2>2. q \in Seq(SegmentMessages) /\ DOMAIN downloads = Nodes
    BY <1>0, TypeParts
  <2>3. \A k \in Nodes : downloads'[k] = IF k = n THEN Append(q, m) ELSE downloads[k]
    BY <2>1, <2>2
  <2>4. /\ Len(q) \in Nat /\ DOMAIN q = 1 .. Len(q) /\ DOMAIN Append(q, m) = 1 .. Len(q) + 1
        /\ Len(Append(q, m)) = Len(q) + 1
        /\ \A i \in 1 .. Len(q) : Append(q, m)[i] = q[i]
        /\ Append(q, m)[Len(q) + 1] = m
    BY <2>2
  <2>5. ~Late(m)
    BY <2>1 DEF Unharmed
  <2>6. CleanLists'
    BY <2>1 DEF NoJunk, CleanLists
  <2>7. CleanSegments'
    <3>1. CleanData(m) /\ \A o \in net : CleanData(o)
      BY DEF NoJunk, CleanSegments
    <3>2. ASSUME NEW k \in Nodes, NEW j \in DOMAIN downloads'[k]
          PROVE  CleanData(downloads'[k][j])
      <4>1. CASE k # n
        <5>1. downloads'[k] = downloads[k]
          BY <2>3, <4>1
        <5>. QED
          BY <5>1 DEF NoJunk, CleanSegments
      <4>2. CASE k = n
        <5>1. downloads'[k] = Append(q, m) /\ downloads[k] = q
          BY <2>3, <4>2
        <5>2. j \in 1 .. Len(q) + 1
          BY <2>4, <5>1
        <5>3. j \in 1 .. Len(q) \/ j = Len(q) + 1
          BY <2>4, <5>2
        <5>4. \A i \in 1 .. Len(q) : CleanData(q[i])
          BY <2>4, <4>2 DEF NoJunk, CleanSegments
        <5>. HIDE DEF q
        <5>. QED
          BY <2>4, <3>1, <5>1, <5>3, <5>4
      <4>. QED
        BY <4>1, <4>2
    <3>3. \A o \in net' : CleanData(o)
      BY <2>1, <3>1
    <3>. QED
      BY <3>2, <3>3 DEF CleanSegments, CleanData
  <2>8. \A i, j \in Nat : j <= Len(q) /\ HasSegment(q, i, j) => HasSegment(Append(q, m), i, j)
    BY <2>4 DEF HasSegment
  <2>9. \A i \in Nat : HasSegment(q, i, Len(q)) => HasSegment(Append(q, m), i, Len(q) + 1)
    BY <2>4 DEF HasSegment
  <2>10. m.type = "FILE_DATA" => m.seg \in Nat /\ HasSegment(Append(q, m), m.seg, Len(q) + 1)
    BY <1>0, <2>4, MessageFields DEF HasSegment
  <2>11. \A o \in net : o.type = "FILE_DATA" => o.seg \in Nat
    BY TypeParts, MessageFields
  <2>. HIDE DEF q
  <2>12. InOrder'
    <3> SUFFICES ASSUME NEW k \in Nodes, main[k].op \in {"off", "join", "fetch"}
                 PROVE  /\ \A j \in DOMAIN downloads'[k] : downloads'[k][j].type = "FILE_DATA" =>
                             \A i \in 1 .. downloads'[k][j].seg - 1 : HasSegment(downloads'[k], i, j - 1)
                        /\ \A o \in net' : o.type = "FILE_DATA" /\ o.to = k =>
                             \A i \in 1 .. o.seg - 1 :
                               \/ HasSegment(downloads'[k], i, Len(downloads'[k]))
                               \/ \E x \in net' : x.type = "FILE_DATA" /\ x.to = k /\ x.seg = i
      BY <2>1 DEF InOrder, HasSegment
    <3>1. CASE k # n
      <4>1. downloads'[k] = downloads[k]
        BY <2>3, <3>1
      <4>2. \A x \in net : x.to = k => x \in net'
        BY <2>1, <3>1
      <4>3. net' \subseteq net
        BY <2>1
      <4>. QED
        BY <4>1, <4>2, <4>3 DEF NoJunk, InOrder
    <3>2. CASE k = n
      <4>1. downloads'[k] = Append(q, m) /\ downloads[k] = q
        BY <2>3, <3>2 DEF q
      <4>2. /\ \A j \in 1 .. Len(q) : q[j].type = "FILE_DATA" =>
                 \A i \in 1 .. q[j].seg - 1 : HasSegment(q, i, j - 1)
            /\ \A o \in net : o.type = "FILE_DATA" /\ o.to = n =>
                 \A i \in 1 .. o.seg - 1 :
                   \/ HasSegment(q, i, Len(q))
                   \/ \E x \in net : x.type = "FILE_DATA" /\ x.to = n /\ x.seg = i
        BY <2>4, <3>2 DEF NoJunk, InOrder, q
      <4>3. ASSUME NEW j \in 1 .. Len(q), q[j].type = "FILE_DATA", NEW i \in 1 .. q[j].seg - 1
            PROVE  HasSegment(Append(q, m), i, j - 1)
        <5>1. HasSegment(q, i, j - 1)
          BY <4>2, <4>3
        <5>2. j - 1 \in Nat /\ j - 1 <= Len(q) /\ i \in Nat
          BY <2>4
        <5>. QED
          BY <2>8, <5>1, <5>2
      <4>4. ASSUME m.type = "FILE_DATA", NEW i \in 1 .. m.seg - 1
            PROVE  HasSegment(Append(q, m), i, Len(q))
        <5>1. i \in Nat /\ i < m.seg
          BY <2>10, <4>4
        <5>2. ~ \E x \in net : x.type = "FILE_DATA" /\ x.to = n /\ x.seg = i
          BY <1>4, <2>5, <5>1 DEF Late, Segment
        <5>3. HasSegment(q, i, Len(q))
          BY <4>2, <4>4, <5>2
        <5>. QED
          BY <2>4, <2>8, <5>1, <5>3
      <4>5. ASSUME NEW o \in net', o.type = "FILE_DATA", o.to = n, NEW i \in 1 .. o.seg - 1
            PROVE  \/ HasSegment(Append(q, m), i, Len(q) + 1)
                   \/ \E x \in net' : x.type = "FILE_DATA" /\ x.to = n /\ x.seg = i
        <5>1. o \in net /\ i \in Nat
          BY <2>1, <2>11, <4>5
        <5>2. CASE HasSegment(q, i, Len(q))
          BY <2>9, <5>1, <5>2
        <5>3. ASSUME NEW x \in net, x.type = "FILE_DATA", x.to = n, x.seg = i
              PROVE  \/ HasSegment(Append(q, m), i, Len(q) + 1)
                     \/ \E y \in net' : y.type = "FILE_DATA" /\ y.to = n /\ y.seg = i
          <6>1. CASE x = m
            BY <2>10, <5>3, <6>1
          <6>2. CASE x # m
            BY <2>1, <5>3, <6>2
          <6>. QED
            BY <6>1, <6>2
        <5>. QED
          BY <4>2, <4>5, <5>1, <5>2, <5>3
      <4>6. \A j \in 1 .. Len(q) + 1 : j \in 1 .. Len(q) \/ (j = Len(q) + 1 /\ j - 1 = Len(q))
        BY <2>4
      <4>7. ASSUME NEW j \in DOMAIN Append(q, m), Append(q, m)[j].type = "FILE_DATA",
                   NEW i \in 1 .. Append(q, m)[j].seg - 1
            PROVE  HasSegment(Append(q, m), i, j - 1)
        <5>1. CASE j \in 1 .. Len(q)
          BY <2>4, <4>3, <4>7, <5>1
        <5>2. CASE j = Len(q) + 1 /\ j - 1 = Len(q)
          BY <2>4, <4>4, <4>7, <5>2
        <5>. QED
          BY <2>4, <4>6, <5>1, <5>2
      <4>. QED
        BY <2>4, <3>2, <4>1, <4>5, <4>7
    <3>. QED
      BY <3>1, <3>2
  <2>. QED
    BY <2>6, <2>7, <2>12 DEF NoJunk
<1>. QED
  BY <1>1, <1>2, <1>3, <1>4 DEF Handle

\* What was got by a fetch that ends holds no entry that is none.
LEMMA FetchGetsNoJunk ==
  ASSUME TypeOK, NoJunk, NEW n \in Nodes, main[n] = Fetching,
         NEW e \in DOMAIN downloads[n], \A i \in 1 .. e - 1 : downloads[n][i].type # "FILE_END",
         NEW last \in {downloads[n][i] : i \in 1 .. e - 1}, last.seg = last.total,
         NEW i \in 1 .. last.total
  PROVE  /\ \E d \in {downloads[n][k] : k \in 1 .. e - 1} : d.seg = i
         /\ \A d \in {downloads[n][k] : k \in 1 .. e - 1} : d.type = "FILE_DATA" /\ d.entry # Junk
<1> DEFINE q == downloads[n]
<1>1. q \in Seq(SegmentMessages)
  BY TypeParts
<1>2. \A k \in 1 .. e - 1 : k \in DOMAIN q /\ k \in Nat /\ q[k].type = "FILE_DATA"
  BY <1>1 DEF SegmentMessages, Segment
<1>3. PICK j \in 1 .. e - 1 : last = q[j]
  OBVIOUS
<1>4. \A k \in 1 .. e - 1 : CleanData(q[k])
  BY <1>2 DEF NoJunk, CleanSegments
<1>5. \E d \in {downloads[n][k] : k \in 1 .. e - 1} : d.seg = i
  <2>1. CASE i = last.total
    BY <1>3, <2>1
  <2>2. CASE i # last.total
    <3>1. last.total \in Nat
      BY <1>1, <1>2, <1>3, MessageFields DEF SegmentMessages
    <3>2. i \in 1 .. q[j].seg - 1
      BY <1>3, <2>2, <3>1
    <3>3. HasSegment(q, i, j - 1)
      BY <1>2, <1>3, <3>2, Ops DEF NoJunk, InOrder
    <3>4. \A k \in 1 .. j - 1 : k \in 1 .. e - 1
      BY <1>1, <1>2
    <3>. QED
      BY <3>3, <3>4 DEF HasSegment
  <2>. QED
    BY <2>1, <2>2
<1>6. \A k \in 1 .. e - 1 : q[k].type = "FILE_DATA" /\ q[k].entry # Junk
  BY <1>2, <1>4 DEF CleanData
<1>. QED
  BY <1>5, <1>6

LEMMA NoJunkStep ==
  ASSUME TypeOK, [Next]_vars, Unharmed => NoJunk, Unharmed'
  PROVE  NoJunk'
<1>1. CASE UNCHANGED vars
  BY <1>1 DEF vars, Unharmed, NoJunk, CleanLists, CleanSegments, InOrder, CleanData
<1>0. ASSUME odd \subseteq odd'
      PROVE  NoJunk
  BY <1>0 DEF Unharmed
<1>2. ASSUME NEW n \in Nodes, Create(n)
      PROVE  NoJunk'
  <2>1. NoJunk /\ Turn(n, Ready) /\ UNCHANGED <<listener, files, downloads, net>>
    BY <1>0, <1>2 DEF Create
  <2>2. CleanLists' /\ InOrder'
    BY <2>1, Ops, TurnsKeepLists, TurnsKeepOrder DEF NoJunk
  <2>. QED
    BY <2>1, <2>2 DEF NoJunk, CleanSegments, CleanData
<1>3. ASSUME NEW n \in Nodes, NEW contact \in Contacts[n], Join(n, contact)
      PROVE  NoJunk'
  <2>1. /\ NoJunk /\ Turn(n, Joining) /\ UNCHANGED <<listener, files, downloads>>
        /\ main[n] = Off /\ net' = net \cup {[type |-> "JOIN", from |-> n, to |-> contact]}
    BY <1>0, <1>3 DEF Join
  <2>2. net \subseteq net' /\ \A m \in net' \ net : m.type = "JOIN"
    BY <2>1
  <2>3. CleanLists'
    BY <2>1, Ops, TurnsKeepLists DEF NoJunk
  <2>4. InOrder'
    BY <2>1, <2>2, Ops, TurnsKeepOrder DEF NoJunk
  <2>. QED
    BY <2>1, <2>2, <2>3, <2>4 DEF NoJunk, CleanSegments, CleanData
<1>4. ASSUME NEW n \in Nodes, JoinReply(n)
      PROVE  NoJunk'
  <2>1. NoJunk /\ Turn(n, Fetching) /\ UNCHANGED <<listener, files, downloads>> /\ main[n] = Joining
    BY <1>0, <1>4 DEF JoinReply
  <2>2. net \subseteq net' /\ \A m \in net' \ net : m.type = "GET_FILES"
    BY <1>4 DEF JoinReply
  <2>3. CleanLists'
    BY <2>1, Ops, TurnsKeepLists DEF NoJunk
  <2>4. InOrder'
    BY <2>1, <2>2, Ops, TurnsKeepOrder DEF NoJunk
  <2>. QED
    BY <2>1, <2>2, <2>3, <2>4 DEF NoJunk, CleanSegments, CleanData
<1>5. ASSUME NEW n \in Nodes, FetchEnd(n)
      PROVE  NoJunk'
  <2>0. NoJunk /\ main[n] = Fetching /\ UNCHANGED <<listener, files, net>>
    BY <1>0, <1>5 DEF FetchEnd
  <2> DEFINE Came(e) == {downloads[n][k] : k \in 1 .. e - 1}
             Heard(e, i) == {d.entry : d \in {x \in Came(e) : x.seg = i}}
             Fits(e, last, got) ==
               /\ last.seg = last.total
               /\ \A i \in 1 .. last.total : got[i] \in IF Heard(e, i) = {} THEN {Junk} ELSE Heard(e, i)
  <2>1. PICK e \in DOMAIN downloads[n] :
          /\ downloads' = [downloads EXCEPT ![n] = SubSeq(@, e + 1, Len(@))]
          /\ \A i \in 1 .. e - 1 : downloads[n][i].type # "FILE_END"
          /\ \/ \E last \in Came(e) : \E got \in [1 .. last.total -> Files \cup {Junk}] :
                  Fits(e, last, got) /\ Turn(n, Linking(got, {}))
             \/ Turn(n, Ready)
    BY <1>5 DEF FetchEnd
  <2>a. ASSUME NEW last \in Came(e), NEW got \in [1 .. last.total -> Files \cup {Junk}],
               Fits(e, last, got)
        PROVE  Junk \notin Range(got)
    <3>1. ASSUME NEW i \in 1 .. last.total
          PROVE  got[i] # Junk
      <4>1. /\ \E d \in Came(e) : d.seg = i
            /\ \A d \in Came(e) : d.type = "FILE_DATA" /\ d.entry # Junk
        BY <2>0, <2>1, <2>a, FetchGetsNoJunk
      <4>2. Heard(e, i) # {}
        BY <4>1
      <4>. QED
        BY <2>a, <4>1, <4>2
    <3>. QED
      BY <3>1 DEF Range
  <2>2. PICK x : /\ Turn(n, x) /\ x.op \in {"link", "ready"}
                 /\ x.op = "link" => ~x.read /\ Junk \notin Range(x.todo)
    <3>1. CASE Turn(n, Ready)
      BY <3>1, Ops
    <3>2. CASE \E last \in Came(e) : \E got \in [1 .. last.total -> Files \cup {Junk}] :
                 Fits(e, last, got) /\ Turn(n, Linking(got, {}))
      <4>. HIDE DEF Fits, Came
      <4>1. PICK last \in Came(e) : \E got \in [1 .. last.total -> Files \cup {Junk}] :
                 Fits(e, last, got) /\ Turn(n, Linking(got, {}))
        BY <3>2
      <4>2. PICK got \in [1 .. last.total -> Files \cup {Junk}] :
                 Fits(e, last, got) /\ Turn(n, Linking(got, {}))
        BY <4>1
      <4>3. Junk \notin Range(got)
        BY <2>a, <4>2
      <4>. QED
        BY <4>2, <4>3, Ops
    <3>. QED
      BY <2>1, <3>1, <3>2
  <2>3. CleanLists'
    BY <2>0, <2>2, TurnsKeepLists DEF NoJunk
  <2>4. \A k \in Nodes : k # n => main'[k] = main[k] /\ downloads'[k] = downloads[k]
    BY <2>1, <2>2, TypeParts DEF Turn
  <2>5. main'[n].op \notin {"off", "join", "fetch"}
    BY <2>2, TypeParts DEF Turn
  <2>6. \A j \in DOMAIN downloads'[n] : \E k \in DOMAIN downloads[n] : downloads'[n][j] = downloads[n][k]
    <3>1. downloads[n] \in Seq(SegmentMessages) /\ downloads'[n] = SubSeq(downloads[n], e + 1, Len(downloads[n]))
      BY <2>1, TypeParts
    <3>. QED
      BY <3>1
  <2>7. CleanSegments'
    <3>1. ASSUME NEW k \in Nodes, NEW j \in DOMAIN downloads'[k]
          PROVE  CleanData(downloads'[k][j])
      BY <2>0, <2>4, <2>6 DEF NoJunk, CleanSegments
    <3>. QED
      BY <2>0, <3>1 DEF NoJunk, CleanSegments, CleanData
  <2>8. InOrder'
    <3>1. ASSUME NEW k \in Nodes, main'[k].op \in {"off", "join", "fetch"}
          PROVE  main'[k] = main[k] /\ downloads'[k] = downloads[k]
      BY <2>4, <2>5, <3>1
    <3>. QED
      BY <2>0, <3>1 DEF NoJunk, InOrder, HasSegment
  <2>. QED
    BY <2>3, <2>7, <2>8 DEF NoJunk
<1>6. ASSUME NEW n \in Nodes, LinkRead(n)
      PROVE  NoJunk'
  <2>1. NoJunk
    BY <1>0, <1>6 DEF LinkRead
  <2>2. main[n] \in [op : {"link"}, todo : Seq(Entries), own : SUBSET Files, read : BOOLEAN,
                     head : SUBSET Entries]
    BY <1>6, TypeParts, LinkFields DEF LinkRead
  <2>3. main' = [main EXCEPT ![n] = [[main[n] EXCEPT !.read = TRUE] EXCEPT !.head = HeadOf(files[n])]]
    BY <1>6, <2>2, TypeParts DEF LinkRead
  <2>4. listener[n] = Free
    <3>1. "raced" \notin odd'
      BY DEF Unharmed
    <3>. QED
      BY <1>6, <3>1 DEF LinkRead
  <2>5. HeadOf(files[n]) \subseteq Range(files[n])
    BY DEF HeadOf, Range
  <2>6. \A k \in Nodes : k # n => main'[k] = main[k]
    BY <2>3, TypeParts
  <2>7. /\ main'[n].op = "link" /\ main'[n].todo = main[n].todo /\ main'[n].head = HeadOf(files[n])
    BY <2>2, <2>3, TypeParts
  <2>8. CleanLists'
    <3>1. CleanLists /\ UNCHANGED <<files, listener>>
      BY <1>6, <2>1 DEF LinkRead, NoJunk
    <3>2. ASSUME NEW k \in Nodes, k # n
          PROVE  main'[k] = main[k] /\ files'[k] = files[k] /\ listener'[k] = listener[k]
      BY <2>6, <3>1, <3>2
    <3>3. /\ Junk \notin Range(files'[n]) /\ Junk \notin Range(main'[n].todo)
          /\ listener'[n] = Free /\ main'[n].head \subseteq Range(files'[n])
      BY <1>6, <2>4, <2>5, <2>7, <3>1 DEF LinkRead, CleanLists
    <3>4. listener'[n].op = "delete" /\ listener'[n].read => Junk \notin Range(listener'[n].seen)
      BY <3>1 DEF CleanLists
    <3>. QED
      BY <3>1, <3>2, <3>3, <3>4 DEF CleanLists
  <2>9. InOrder'
    <3>1. ASSUME NEW k \in Nodes, main'[k].op \in {"off", "join", "fetch"}
          PROVE  main'[k] = main[k]
      BY <2>6, <2>7, <3>1
    <3>. QED
      BY <1>6, <2>1, <3>1 DEF LinkRead, NoJunk, InOrder, HasSegment
  <2>. QED
    BY <1>6, <2>1, <2>8, <2>9 DEF LinkRead, NoJunk, CleanSegments, CleanData
<1>7. ASSUME NEW n \in Nodes, LinkWrite(n)
      PROVE  NoJunk'
  <2> DEFINE f == Head(main[n].todo)
  <2>1. NoJunk /\ UNCHANGED <<listener, downloads, net>>
    BY <1>0, <1>7 DEF LinkWrite
  <2>2. /\ main[n].op = "link" /\ main[n].read
        /\ main[n].todo \in Seq(Entries) /\ Len(main[n].todo) >= 1
    <3>1. main[n].op = "link" /\ main[n].read /\ Len(main[n].todo) >= 1
      BY <1>7 DEF LinkWrite
    <3>. QED
      BY <3>1, TypeParts, LinkFields
  <2>3. listener[n] = Free /\ ~Freed(n) /\ Junk \notin Range(main[n].todo)
    BY <2>1, <2>2 DEF NoJunk, CleanLists, Freed
  <2>4. f # Junk /\ Junk \notin Range(Tail(main[n].todo))
    BY <2>2, <2>3 DEF Range
  <2>5. files' = [files EXCEPT ![n] = <<f>> \o files[n]]
    BY <1>7, <2>3 DEF LinkWrite
  <2>6. PICK x : Turn(n, x) /\ x.op \in {"link", "ready"}
                 /\ (x.op = "link" => ~x.read /\ Junk \notin Range(x.todo))
    <3>1. \/ Turn(n, Linking(Tail(main[n].todo), main[n].own))
          \/ Turn(n, Ready)
      BY <1>7 DEF LinkWrite
    <3>. QED
      BY <2>4, <3>1, Ops
  <2>7. Junk \notin Range(files'[n])
    <3>1. files'[n] = <<f>> \o files[n] /\ files[n] \in Seq(Entries)
      BY <2>5, TypeParts
    <3>2. Junk \notin Range(files[n])
      BY <2>1 DEF NoJunk, CleanLists
    <3>. QED
      BY <2>4, <3>1, <3>2 DEF Range
  <2>8. \A k \in Nodes : k # n => main'[k] = main[k] /\ files'[k] = files[k]
    BY <2>5, <2>6, TypeParts DEF Turn
  <2>9. main'[n] = x
    BY <2>6, TypeParts DEF Turn
  <2>10. CleanLists'
    BY <2>1, <2>3, <2>6, <2>7, <2>8, <2>9, Ops DEF NoJunk, CleanLists
  <2>11. InOrder'
    <3>1. ASSUME NEW k \in Nodes, main'[k].op \in {"off", "join", "fetch"}
          PROVE  main'[k] = main[k]
      BY <2>6, <2>8, <2>9, <3>1
    <3>. QED
      BY <2>1, <3>1 DEF NoJunk, InOrder, HasSegment
  <2>. QED
    BY <2>1, <2>10, <2>11 DEF NoJunk, CleanSegments, CleanData
<1>8. ASSUME NEW n \in Nodes, NEW f \in Files, Store(n, f)
      PROVE  NoJunk'
  <2>1. NoJunk /\ UNCHANGED <<listener, files, downloads, net>>
    BY <1>0, <1>8 DEF Store, StoreAt
  <2>2. main[n] = Ready /\ (Turn(n, Ready) \/ Turn(n, Linking(<<f>>, {f})))
    BY <1>8 DEF Store, StoreAt, Prompt
  <2>3. Junk \notin Range(<<f>>)
    BY ChordRingAssumption DEF Range
  <2>4. CleanLists'
    BY <2>1, <2>2, <2>3, Ops, TurnsKeepLists DEF NoJunk
  <2>5. InOrder'
    BY <2>1, <2>2, Ops, TurnsKeepOrder DEF NoJunk
  <2>. QED
    BY <2>1, <2>4, <2>5 DEF NoJunk, CleanSegments, CleanData
<1>9. ASSUME NEW n \in Nodes, Find(n)
      PROVE  NoJunk'
  <2>1. NoJunk /\ UNCHANGED <<listener, files, downloads, net>> /\ Turn(n, Finding)
    BY <1>0, <1>9 DEF Find, FindAt
  <2>2. CleanLists' /\ InOrder'
    BY <2>1, Ops, TurnsKeepLists, TurnsKeepOrder DEF NoJunk
  <2>. QED
    BY <2>1, <2>2 DEF NoJunk, CleanSegments, CleanData
<1>10. ASSUME NEW n \in Nodes, DeleteRead(n)
       PROVE  NoJunk'
  <2>1. NoJunk /\ UNCHANGED <<main, files, downloads, net>>
    BY <1>0, <1>10 DEF DeleteRead
  <2>2. /\ listener[n].op = "delete"
        /\ listener[n] \in [op : {"delete"}, new : Nodes, junk : BOOLEAN, read : BOOLEAN,
                            seen : Seq(Entries)]
    BY <1>10, TypeParts, DeleteFields DEF DeleteRead
  <2>3. listener[n] # Free
    BY <2>2, Ops
  <2>4. \A k \in Nodes : k # n => listener'[k] = listener[k]
    BY <1>10, TypeParts DEF DeleteRead
  <2>5. listener'[n].seen = files[n]
    BY <1>10, <2>2, TypeParts DEF DeleteRead
  <2>6. CleanLists'
    BY <2>1, <2>3, <2>4, <2>5 DEF NoJunk, CleanLists
  <2>. QED
    BY <2>1, <2>6 DEF NoJunk, CleanSegments, CleanData, InOrder, HasSegment
<1>11. ASSUME NEW n \in Nodes, DeleteWrite(n)
       PROVE  NoJunk'
  <2> DEFINE seen  == listener[n].seen
             gone  == Going(seen, listener[n].new, n, listener[n].junk)
             front == SubSeq(files[n], 1, Len(files[n]) - Len(seen))
             first == IF seen # <<>> /\ Head(seen) \in gone THEN <<>> ELSE front
             left  == Kept(seen, Range(seen) \ gone)
  <2>1. NoJunk /\ UNCHANGED <<main, downloads, net>>
    BY <1>0, <1>11 DEF DeleteWrite
  <2>2. /\ listener[n].op = "delete" /\ listener[n].read
        /\ seen \in Seq(Entries) /\ files[n] \in Seq(Entries)
    BY <1>11, TypeParts, DeleteFields DEF DeleteWrite
  <2>3. listener[n] # Free
    BY <2>2, Ops
  <2>4. Junk \notin Range(seen) /\ Junk \notin Range(files[n])
    BY <2>1, <2>2 DEF NoJunk, CleanLists
  <2>5. left \in Seq(Entries) /\ Junk \notin Range(left)
    <3>1. seen \in Seq(Entries) /\ Junk \notin Range(seen)
      BY <2>2, <2>4
    <3>. HIDE DEF seen
    <3>2. left \in Seq(Entries)
      BY <3>1, KeptEntries
    <3>3. Range(left) = Range(seen) \cap (Range(seen) \ gone)
      BY <3>1, KeptEntries
    <3>. QED
      BY <3>1, <3>2, <3>3
  <2>6. first \in Seq(Entries) /\ Junk \notin Range(first)
    <3>1. Len(files[n]) \in Nat /\ Len(seen) \in Nat
      BY <2>2
    <3>2. \A a, b \in Nat : a - b \in Int /\ a - b <= a
      OBVIOUS
    <3>3. front \in Seq(Entries) /\ Range(front) \subseteq Range(files[n])
      BY <2>2, <3>1, <3>2, FrontIs
    <3>4. <<>> \in Seq(Entries) /\ Junk \notin Range(<<>>)
      BY DEF Range
    <3>. QED
      BY <2>4, <3>3, <3>4
  <2>7. files' = [files EXCEPT ![n] = first \o left]
    BY <1>11 DEF DeleteWrite
  <2>8. listener' = [listener EXCEPT ![n] = Free]
    BY <1>11 DEF DeleteWrite
  <2>. HIDE DEF first, left
  <2>9. Junk \notin Range(first \o left)
    BY <2>5, <2>6 DEF Range
  <2>10. \A k \in Nodes : files'[k] = (IF k = n THEN first \o left ELSE files[k])
                         /\ listener'[k] = (IF k = n THEN Free ELSE listener[k])
    BY <2>7, <2>8, TypeParts
  <2>11. CleanLists'
    BY <2>1, <2>3, <2>9, <2>10, Ops DEF NoJunk, CleanLists
  <2>. QED
    BY <2>1, <2>11 DEF NoJunk, CleanSegments, CleanData, InOrder, HasSegment
<1>12. ASSUME NEW n \in Nodes, Exit(n)
       PROVE  NoJunk'
  <2>1. NoJunk /\ UNCHANGED net /\ Turn(n, Gone)
    BY <1>0, <1>12 DEF Exit
  <2>2. \A k \in Nodes : /\ main'[k] = (IF k = n THEN Gone ELSE main[k])
                          /\ files'[k] = (IF k = n THEN <<>> ELSE files[k])
                          /\ listener'[k] = (IF k = n THEN Free ELSE listener[k])
                          /\ downloads'[k] = (IF k = n THEN <<>> ELSE downloads[k])
    BY <1>12, TypeParts DEF Exit, Turn
  <2>3. Junk \notin Range(<<>>)
    BY DEF Range
  <2>4. CleanLists'
    BY <2>1, <2>2, <2>3, Ops DEF NoJunk, CleanLists
  <2>5. CleanSegments'
    BY <2>1, <2>2 DEF NoJunk, CleanSegments, CleanData
  <2>6. InOrder'
    <3>1. ASSUME NEW k \in Nodes, main'[k].op \in {"off", "join", "fetch"}
          PROVE  main'[k] = main[k] /\ downloads'[k] = downloads[k]
      BY <2>2, <3>1, Ops
    <3>. QED
      BY <2>1, <3>1 DEF NoJunk, InOrder, HasSegment
  <2>. QED
    BY <2>4, <2>5, <2>6 DEF NoJunk
<1>13. ASSUME NEW m \in net, Deliver(m)
       PROVE  NoJunk'
  <2>1. ~Lose(m)
    BY DEF Lose, Unharmed
  <2>2. PICK rest \in SUBSET net, why \in SUBSET {"late", "twice"} :
          /\ net \ {m} \subseteq rest /\ Handle(m, rest, why)
          /\ Late(m) => "late" \in why
    BY <1>13, <2>1 DEF Deliver, Receive, Overtake, Duplicate
  <2>3. odd \subseteq odd'
    BY <2>2 DEF Handle, HandleJoin, HandleGetFiles, HandleReply, HandleFileData
  <2>. QED
    BY <1>0, <2>2, <2>3, HandlersAddNoJunk
<1>. QED
  BY <1>1, <1>2, <1>3, <1>4, <1>5, <1>6, <1>7, <1>8, <1>9, <1>10, <1>11, <1>12, <1>13
     DEF Next, Work, Delete

\* deserialize_file_entries and internal_store_file put an entry on a list that
\* is none only after a segment was lost or overtaken or the linking ran into a
\* hand-over, for any number of nodes, files, messages and duplicates.
THEOREM RingJunkHasCause == Spec => []JunkHasCause
<1>1. Init => TypeOK /\ (Unharmed => NoJunk)
  BY TypeInit, NoJunkInit
<1>2. TypeOK /\ (Unharmed => NoJunk) /\ [Next]_vars => (TypeOK /\ (Unharmed => NoJunk))'
  BY TypeStep, NoJunkStep
<1>3. TypeOK /\ (Unharmed => NoJunk) => JunkHasCause
  BY DEF Unharmed, NoJunk, CleanLists, JunkHasCause
<1>. QED
  BY <1>1, <1>2, <1>3, PTL DEF Spec

-----------------------------------------------------------------------------
(***************************************************************************)
(* One place for each entry.  A node asks for files once; what it is sent  *)
(* is on the network or in its queue, each segment once; lists are without *)
(* repetition; a deletion deletes what was sent.  So every step leaves an  *)
(* entry where it is or takes it from its one place to the next.           *)
(***************************************************************************)
Clean == odd \subseteq {"early"}

Asks == {m \in net : m.type = "GET_FILES"}

SegmentsTo(n) == {m \in net : Segment(m) /\ m.to = n}

\* Of an answer of T entries, q has come and S is under way, each segment once.
Arriving(q, S, T) ==
  /\ Len(q) <= T + 1
  /\ \A i \in 1 .. Len(q) : q[i].seg = i /\ q[i].total = T /\ (q[i].type = "FILE_END" <=> i = T + 1)
  /\ \A m \in S : m.seg \in Len(q) + 1 .. T + 1 /\ m.total = T
                  /\ (m.type = "FILE_END" <=> m.seg = T + 1)
  /\ \A i \in Len(q) + 1 .. T + 1 : \E m \in S : m.seg = i
  /\ \A m, o \in S : m.seg = o.seg => m = o

\* A node asks once, and nothing has come before.
AskedOnce ==
  \A m \in Asks :
    /\ main[m.from] = Fetching /\ SegmentsTo(m.from) = {} /\ downloads[m.from] = <<>>
    /\ \A o \in Asks : o.from = m.from => o = m

\* Segments come to a node that waits for them, and those of one answer.
OneAnswer ==
  \A n \in Nodes : SegmentsTo(n) # {} \/ downloads[n] # <<>> =>
    main[n] = Fetching /\ \E T \in Nat : Arriving(downloads[n], SegmentsTo(n), T)

\* A node stores only once it is on the ring, and at itself only if it is its
\* own successor.
StoredHere ==
  \A n \in Nodes :
    /\ uploaded[n] # {} => main[n].op \notin {"off", "join", "fetch"}
    /\ main[n].op = "link" /\ main[n].own # {} => succ[n] = n

\* No list names an entry twice, and what is being deleted is the list as it is.
Distinct ==
  \A n \in Nodes :
    /\ IsInjective(files[n])
    /\ main[n].op = "link" => IsInjective(main[n].todo)
    /\ listener[n].op = "delete" /\ listener[n].read => listener[n].seen = files[n]

\* The four kinds of places.
ListsWith(f) == {n \in Nodes : f \in Range(files[n]) /\ ~Leaving(n, f)}
LinksWith(f) == {n \in Nodes : main[n].op = "link" /\ f \in Range(main[n].todo)}
Flying(f) == {m \in net : m.type = "FILE_DATA" /\ m.entry = f}
QueuedAt(n, f) == {i \in DOMAIN downloads[n] :
                     downloads[n][i].type = "FILE_DATA" /\ downloads[n][i].entry = f}

\* Was the file kept by the node that stored it?
Homed(f) ==
  \E n \in Nodes : succ[n] = n /\ (f \in uploaded[n] \/ (main[n].op = "link" /\ f \in main[n].own))

OnePlace(f) ==
  /\ \A p, q \in Places(f) : p = q
  /\ Places(f) # {} <=> Homed(f)

Orderly == AskedOnce /\ OneAnswer /\ StoredHere /\ Distinct /\ \A f \in Files : OnePlace(f)

-----------------------------------------------------------------------------
\* The places of an entry, by kind.
LEMMA PlacesAre ==
  ASSUME NEW f
  PROVE  Places(f) =
           {<<"list", n, 0>> : n \in ListsWith(f)} \cup {<<"link", n, 0>> : n \in LinksWith(f)}
             \cup {<<"net", m.to, m.seg>> : m \in Flying(f)}
             \cup UNION {{<<"queue", n, i>> : i \in QueuedAt(n, f)} : n \in Nodes}
BY DEF Places, ListsWith, LinksWith, Flying, QueuedAt

LEMMA PlacesOf ==
  ASSUME NEW f
  PROVE  /\ \A k \in ListsWith(f) : <<"list", k, 0>> \in Places(f)
         /\ \A k \in LinksWith(f) : <<"link", k, 0>> \in Places(f)
         /\ \A o \in Flying(f) : <<"net", o.to, o.seg>> \in Places(f)
         /\ \A k \in Nodes : \A i \in QueuedAt(k, f) : <<"queue", k, i>> \in Places(f)
<1>1. \A k \in ListsWith(f) : <<"list", k, 0>> \in Places(f)
  BY PlacesAre
<1>2. \A k \in LinksWith(f) : <<"link", k, 0>> \in Places(f)
  BY PlacesAre
<1>3. \A o \in Flying(f) : <<"net", o.to, o.seg>> \in Places(f)
  BY PlacesAre
<1>4. \A k \in Nodes : \A i \in QueuedAt(k, f) : <<"queue", k, i>> \in Places(f)
  BY PlacesAre
<1>. QED
  BY <1>1, <1>2, <1>3, <1>4

LEMMA SamePlaces ==
  ASSUME NEW f, ListsWith(f)' = ListsWith(f), LinksWith(f)' = LinksWith(f),
         Flying(f)' = Flying(f), \A n \in Nodes : QueuedAt(n, f)' = QueuedAt(n, f)
  PROVE  Places(f)' = Places(f)
<1>1. \A n \in Nodes : {<<"queue", n, i>> : i \in QueuedAt(n, f)}' = {<<"queue", n, i>> : i \in QueuedAt(n, f)}
  OBVIOUS
<1>2. {<<"list", n, 0>> : n \in ListsWith(f)}' = {<<"list", n, 0>> : n \in ListsWith(f)}
  OBVIOUS
<1>3. {<<"link", n, 0>> : n \in LinksWith(f)}' = {<<"link", n, 0>> : n \in LinksWith(f)}
  OBVIOUS
<1>4. {<<"net", m.to, m.seg>> : m \in Flying(f)}' = {<<"net", m.to, m.seg>> : m \in Flying(f)}
  OBVIOUS
<1>. QED
  BY <1>1, <1>2, <1>3, <1>4 DEF Places, ListsWith, LinksWith, Flying, QueuedAt

LEMMA StaysInOnePlace ==
  ASSUME NEW f, OnePlace(f), Places(f)' = Places(f), Homed(f)' <=> Homed(f)
  PROVE  OnePlace(f)'
BY DEF OnePlace

\* An entry that is in one place is nowhere else.
LEMMA OnlyList ==
  ASSUME NEW f, OnePlace(f), NEW n \in ListsWith(f)
  PROVE  /\ ListsWith(f) = {n} /\ LinksWith(f) = {} /\ Flying(f) = {}
         /\ \A k \in Nodes : QueuedAt(k, f) = {}
<1>1. <<"list", n, 0>> \in Places(f)
  BY PlacesOf
<1>2. \A p \in Places(f) : p = <<"list", n, 0>>
  BY <1>1 DEF OnePlace
<1>. QED
  BY <1>2, PlacesOf

LEMMA OnlyLink ==
  ASSUME NEW f, OnePlace(f), NEW n \in LinksWith(f)
  PROVE  /\ ListsWith(f) = {} /\ LinksWith(f) = {n} /\ Flying(f) = {}
         /\ \A k \in Nodes : QueuedAt(k, f) = {}
<1>1. <<"link", n, 0>> \in Places(f)
  BY PlacesOf
<1>2. \A p \in Places(f) : p = <<"link", n, 0>>
  BY <1>1 DEF OnePlace
<1>. QED
  BY <1>2, PlacesOf

LEMMA OnlyFlying ==
  ASSUME NEW f, OnePlace(f), NEW m \in Flying(f)
  PROVE  /\ ListsWith(f) = {} /\ LinksWith(f) = {}
         /\ \A o \in Flying(f) : o.to = m.to /\ o.seg = m.seg
         /\ \A k \in Nodes : QueuedAt(k, f) = {}
<1>1. <<"net", m.to, m.seg>> \in Places(f)
  BY PlacesOf
<1>2. \A p \in Places(f) : p = <<"net", m.to, m.seg>>
  BY <1>1 DEF OnePlace
<1>. QED
  BY <1>2, PlacesOf

LEMMA OnlyQueued ==
  ASSUME NEW f, OnePlace(f), NEW n \in Nodes, NEW i \in QueuedAt(n, f)
  PROVE  /\ ListsWith(f) = {} /\ LinksWith(f) = {} /\ Flying(f) = {}
         /\ \A k \in Nodes : \A j \in QueuedAt(k, f) : k = n /\ j = i
<1>1. <<"queue", n, i>> \in Places(f)
  BY PlacesOf
<1>2. \A p \in Places(f) : p = <<"queue", n, i>>
  BY <1>1 DEF OnePlace
<1>. QED
  BY <1>2, PlacesOf

LEMMA Nowhere ==
  ASSUME NEW f, Places(f) = {}
  PROVE  /\ ListsWith(f) = {} /\ LinksWith(f) = {} /\ Flying(f) = {}
         /\ \A k \in Nodes : QueuedAt(k, f) = {}
<1>1. ListsWith(f) = {}
  BY PlacesOf
<1>2. LinksWith(f) = {}
  BY PlacesOf
<1>3. Flying(f) = {}
  BY PlacesOf
<1>4. \A k \in Nodes : QueuedAt(k, f) = {}
  BY PlacesOf
<1>. QED
  BY <1>1, <1>2, <1>3, <1>4

\* After a step, what is left of the four kinds is one place.
LEMMA MovedToOnePlace ==
  ASSUME NEW f, Homed(f)', NEW n,
         \/ /\ ListsWith(f)' = {n} /\ LinksWith(f)' = {} /\ Flying(f)' = {}
            /\ \A k \in Nodes : QueuedAt(k, f)' = {}
         \/ /\ ListsWith(f)' = {} /\ LinksWith(f)' = {n} /\ Flying(f)' = {}
            /\ \A k \in Nodes : QueuedAt(k, f)' = {}
         \/ /\ ListsWith(f)' = {} /\ LinksWith(f)' = {} /\ Flying(f)' = {n}
            /\ \A k \in Nodes : QueuedAt(k, f)' = {}
         \/ /\ ListsWith(f)' = {} /\ LinksWith(f)' = {} /\ Flying(f)' = {} /\ n \in Nodes
            /\ \E i : \A k \in Nodes : QueuedAt(k, f)' = IF k = n THEN {i} ELSE {}
  PROVE  OnePlace(f)'
<1>1. Places(f)' =
         {<<"list", k, 0>> : k \in ListsWith(f)'} \cup {<<"link", k, 0>> : k \in LinksWith(f)'}
           \cup {<<"net", m.to, m.seg>> : m \in Flying(f)'}
           \cup UNION {{<<"queue", k, i>> : i \in QueuedAt(k, f)'} : k \in Nodes}
  BY DEF Places, ListsWith, LinksWith, Flying, QueuedAt
<1>2. \E p : Places(f)' = {p}
  <2>1. CASE /\ ListsWith(f)' = {n} /\ LinksWith(f)' = {} /\ Flying(f)' = {}
            /\ \A k \in Nodes : QueuedAt(k, f)' = {}
    <3>1. Places(f)' = {<<"list", n, 0>>}
      BY <1>1, <2>1
    <3>. QED
      BY <3>1
  <2>2. CASE /\ ListsWith(f)' = {} /\ LinksWith(f)' = {n} /\ Flying(f)' = {}
            /\ \A k \in Nodes : QueuedAt(k, f)' = {}
    <3>1. Places(f)' = {<<"link", n, 0>>}
      BY <1>1, <2>2
    <3>. QED
      BY <3>1
  <2>3. CASE /\ ListsWith(f)' = {} /\ LinksWith(f)' = {} /\ Flying(f)' = {n}
            /\ \A k \in Nodes : QueuedAt(k, f)' = {}
    <3>1. Places(f)' = {<<"net", n.to, n.seg>>}
      BY <1>1, <2>3
    <3>. QED
      BY <3>1
  <2>4. CASE /\ ListsWith(f)' = {} /\ LinksWith(f)' = {} /\ Flying(f)' = {} /\ n \in Nodes
             /\ \E i : \A k \in Nodes : QueuedAt(k, f)' = IF k = n THEN {i} ELSE {}
    <3>1. PICK i : \A k \in Nodes : QueuedAt(k, f)' = IF k = n THEN {i} ELSE {}
      BY <2>4
    <3>2. Places(f)' = {<<"queue", n, i>>}
      BY <1>1, <2>4, <3>1
    <3>. QED
      BY <3>2
  <2>. QED
    BY <2>1, <2>2, <2>3, <2>4
<1>. QED
  BY <1>2 DEF OnePlace

-----------------------------------------------------------------------------
\* The next segment of an answer.
LEMMA NextArrives ==
  ASSUME NEW q \in Seq(SegmentMessages), NEW S \in SUBSET SegmentMessages, NEW T \in Nat,
         Arriving(q, S, T), NEW m \in S, \A o \in S : ~(o.seg < m.seg)
  PROVE  m.seg = Len(q) + 1 /\ Arriving(Append(q, m), S \ {m}, T)
<1>1. m.seg \in Nat /\ \A o \in S : o.seg \in Nat
  BY MessageFields DEF SegmentMessages, Segment
<1>2. m.seg \in Len(q) + 1 .. T + 1 /\ Len(q) \in Nat
  BY DEF Arriving
<1>3. Len(q) + 1 \in Len(q) + 1 .. T + 1
  BY <1>2
<1>4. PICK o \in S : o.seg = Len(q) + 1
  BY <1>3 DEF Arriving
<1>5. m.seg = Len(q) + 1
  BY <1>1, <1>2, <1>4
<1> DEFINE r == Append(q, m)
<1>6. /\ Len(r) = Len(q) + 1 /\ r[Len(q) + 1] = m
      /\ \A i \in 1 .. Len(q) : r[i] = q[i]
  OBVIOUS
<1>. HIDE DEF r
<1>7. Len(r) <= T + 1
  BY <1>2, <1>6
<1>8. \A i \in 1 .. Len(r) : r[i].seg = i /\ r[i].total = T /\ (r[i].type = "FILE_END" <=> i = T + 1)
  <2>1. \A i \in 1 .. Len(r) : i \in 1 .. Len(q) \/ i = Len(q) + 1
    BY <1>2, <1>6
  <2>2. m.total = T /\ (m.type = "FILE_END" <=> m.seg = T + 1)
    BY DEF Arriving
  <2>3. \A i \in 1 .. Len(q) : q[i].seg = i /\ q[i].total = T /\ (q[i].type = "FILE_END" <=> i = T + 1)
    BY DEF Arriving
  <2>. QED
    BY <1>5, <1>6, <2>1, <2>2, <2>3
<1>9. \A x \in S \ {m} : x.seg \in Len(r) + 1 .. T + 1 /\ x.total = T
                         /\ (x.type = "FILE_END" <=> x.seg = T + 1)
  <2>1. \A x \in S : x.seg \in Len(q) + 1 .. T + 1 /\ x.total = T /\ (x.type = "FILE_END" <=> x.seg = T + 1)
    BY DEF Arriving
  <2>2. \A x \in S \ {m} : x.seg # Len(q) + 1
    BY <1>5 DEF Arriving
  <2>3. \A x \in S \ {m} : x.seg \in Len(r) + 1 .. T + 1
    BY <1>2, <1>6, <2>1, <2>2
  <2>. QED
    BY <2>1, <2>3
<1>10. \A i \in Len(r) + 1 .. T + 1 : \E x \in S \ {m} : x.seg = i
  <2>1. \A i \in Len(r) + 1 .. T + 1 : i \in Len(q) + 1 .. T + 1 /\ i # Len(q) + 1
    BY <1>2, <1>6
  <2>2. \A i \in Len(q) + 1 .. T + 1 : \E x \in S : x.seg = i
    BY DEF Arriving
  <2>. QED
    BY <1>5, <2>1, <2>2
<1>11. \A x, y \in S \ {m} : x.seg = y.seg => x = y
  BY DEF Arriving
<1>. QED
  BY <1>5, <1>7, <1>8, <1>9, <1>10, <1>11 DEF Arriving, r

\* An answer as it is sent.
LEMMA AnswerSent ==
  ASSUME NEW to, NEW es \in Seq(Entries)
  PROVE  Arriving(<<>>, Segments(to, es), Len(es))
<1>1. \A m \in Segments(to, es) :
        \/ \E i \in 1 .. Len(es) : m = [type |-> "FILE_DATA", to |-> to, seg |-> i,
                                        total |-> Len(es), entry |-> es[i]]
        \/ m = [type |-> "FILE_END", to |-> to, seg |-> Len(es) + 1, total |-> Len(es)]
  BY DEF Segments, Data, End
<1>2. Len(es) \in Nat /\ Len(<<>>) = 0
  OBVIOUS
<1>3. \A m \in Segments(to, es) : m.seg \in 1 .. Len(es) + 1 /\ m.total = Len(es)
                                  /\ (m.type = "FILE_END" <=> m.seg = Len(es) + 1)
  BY <1>1, <1>2
<1>4. \A i \in 1 .. Len(es) + 1 : \E m \in Segments(to, es) : m.seg = i
  <2>1. \A i \in 1 .. Len(es) : [type |-> "FILE_DATA", to |-> to, seg |-> i, total |-> Len(es),
                                 entry |-> es[i]] \in Segments(to, es)
    BY DEF Segments, Data
  <2>2. [type |-> "FILE_END", to |-> to, seg |-> Len(es) + 1, total |-> Len(es)] \in Segments(to, es)
    BY DEF Segments, End
  <2>3. \A i \in 1 .. Len(es) + 1 : i \in 1 .. Len(es) \/ i = Len(es) + 1
    BY <1>2
  <2>. QED
    BY <2>1, <2>2, <2>3
<1>5. \A m, o \in Segments(to, es) : m.seg = o.seg => m = o
  BY <1>1, <1>2
<1>. QED
  BY <1>2, <1>3, <1>4, <1>5 DEF Arriving

\* At the first FILE_END of a queue the answer is all there.
LEMMA AnswerComplete ==
  ASSUME NEW q \in Seq(SegmentMessages), NEW S, NEW T \in Nat, Arriving(q, S, T),
         NEW e \in DOMAIN q, q[e].type = "FILE_END"
  PROVE  e = T + 1 /\ Len(q) = T + 1 /\ S = {}
<1>1. e \in 1 .. Len(q) /\ Len(q) \in Nat
  OBVIOUS
<1>2. e = T + 1 /\ Len(q) <= T + 1
  BY <1>1 DEF Arriving
<1>3. Len(q) = T + 1
  BY <1>1, <1>2
<1>4. \A m \in S : m.seg \in T + 2 .. T + 1
  BY <1>3 DEF Arriving
<1>. QED
  BY <1>2, <1>3, <1>4

-----------------------------------------------------------------------------
LEMMA OrderlyInit ==
  ASSUME Init
  PROVE  Orderly
<1>1. AskedOnce /\ OneAnswer
  BY DEF Init, AskedOnce, OneAnswer, Asks, SegmentsTo
<1>2. StoredHere /\ Distinct
  BY Ops DEF Init, StoredHere, Distinct, IsInjective
<1>3. ASSUME NEW f \in Files
      PROVE  OnePlace(f)
  <2>1. ListsWith(f) = {} /\ LinksWith(f) = {} /\ Flying(f) = {}
        /\ \A n \in Nodes : QueuedAt(n, f) = {}
    BY Ops DEF Init, ListsWith, LinksWith, Flying, QueuedAt, Range
  <2>2. Places(f) = {}
    BY <2>1, PlacesAre
  <2>3. ~Homed(f)
    BY Ops DEF Init, Homed
  <2>. QED
    BY <2>2, <2>3 DEF OnePlace
<1>. QED
  BY <1>1, <1>2, <1>3 DEF Orderly

LEMMA OrderlyGivesAccount ==
  ASSUME Clean => Orderly
  PROVE  EntriesAccounted
<1> SUFFICES ASSUME Clean, NEW f \in Files, \E n \in Nodes : f \in uploaded[n] /\ succ[n] = n
             PROVE  Cardinality(Places(f)) = 1
  BY DEF EntriesAccounted, Clean
<1>1. OnePlace(f) /\ Homed(f)
  BY DEF Orderly, Homed
<1>2. PICK p : p \in Places(f)
  BY <1>1 DEF OnePlace
<1>3. Places(f) = {p}
  BY <1>1, <1>2 DEF OnePlace
<1>. QED
  BY <1>3, FS_Singleton

\* A step that leaves requests, segments and queues as they are.
LEMMA FetchesKept ==
  ASSUME AskedOnce, OneAnswer, Asks' = Asks, \A k \in Nodes : SegmentsTo(k)' = SegmentsTo(k),
         UNCHANGED downloads, net \subseteq Messages,
         \A k \in Nodes : main[k] = Fetching => main'[k] = Fetching
  PROVE  AskedOnce' /\ OneAnswer'
<1>1. \A m \in Asks : m.from \in Nodes
  BY MessageFields DEF Asks
<1>2. AskedOnce'
  BY <1>1 DEF AskedOnce
<1>3. ASSUME NEW n \in Nodes, SegmentsTo(n)' # {} \/ downloads'[n] # <<>>
      PROVE  main'[n] = Fetching /\ \E T \in Nat : Arriving(downloads'[n], SegmentsTo(n)', T)
  <2>1. SegmentsTo(n) # {} \/ downloads[n] # <<>>
    BY <1>3
  <2>2. main[n] = Fetching
    BY <2>1 DEF OneAnswer
  <2>3. PICK T \in Nat : Arriving(downloads[n], SegmentsTo(n), T)
    BY <2>1 DEF OneAnswer
  <2>4. Arriving(downloads'[n], SegmentsTo(n)', T)
    BY <2>3
  <2>. QED
    BY <2>2, <2>4
<1>4. OneAnswer'
  BY <1>3 DEF OneAnswer
<1>. QED
  BY <1>2, <1>4

\* The network is as it was, but for messages that are no segments and no
\* requests for files.
LEMMA SameTraffic ==
  ASSUME \A m \in net' \cup net : m.type \in {"GET_FILES", "FILE_DATA", "FILE_END"} => (m \in net' <=> m \in net)
  PROVE  /\ Asks' = Asks
         /\ \A k \in Nodes : SegmentsTo(k)' = SegmentsTo(k)
         /\ \A f \in Files : Flying(f)' = Flying(f)
BY DEF Asks, SegmentsTo, Flying, Segment

\* A turn of the main thread that has nothing to do with entries.
LEMMA PlainTurn ==
  ASSUME TypeOK, Orderly, NEW n \in Nodes, NEW x, Turn(n, x),
         main[n].op # "fetch", main[n].op # "link", x.op # "link",
         x.op \in {"off", "join", "fetch"} => main[n].op \in {"off", "join", "fetch"},
         UNCHANGED <<listener, files, uploaded, downloads>>,
         UNCHANGED succ \/ main[n].op = "join", \A k \in Nodes : k # n => succ'[k] = succ[k],
         \A m \in net' \cup net : m.type \in {"FILE_DATA", "FILE_END"} => (m \in net' <=> m \in net)
  PROVE  /\ StoredHere' /\ Distinct' /\ \A f \in Files : OnePlace(f)'
         /\ \A k \in Nodes : SegmentsTo(k)' = SegmentsTo(k)
         /\ \A k \in Nodes : main[k] = Fetching => main'[k] = Fetching
<1>1. \A k \in Nodes : main'[k] = IF k = n THEN x ELSE main[k]
  BY TypeParts DEF Turn
<1>2. \A k \in Nodes : SegmentsTo(k)' = SegmentsTo(k)
  BY DEF SegmentsTo, Segment
<1>3. \A k \in Nodes : main[k] = Fetching => main'[k] = Fetching
  BY <1>1, Ops
<1>4. Distinct'
  BY <1>1 DEF Orderly, Distinct
<1>5. StoredHere'
  <2>1. ASSUME NEW k \in Nodes
        PROVE  /\ uploaded[k] # {} => main'[k].op \notin {"off", "join", "fetch"}
               /\ main'[k].op = "link" /\ main'[k].own # {} => succ'[k] = k
    BY <1>1, <2>1 DEF Orderly, StoredHere
  <2>. QED
    BY <2>1 DEF StoredHere
<1>6. ASSUME NEW f \in Files
      PROVE  OnePlace(f)'
  <2>1. ListsWith(f)' = ListsWith(f) /\ \A k \in Nodes : QueuedAt(k, f)' = QueuedAt(k, f)
    BY DEF ListsWith, QueuedAt, Leaving
  <2>2. Flying(f)' = Flying(f)
    BY DEF Flying
  <2>3. LinksWith(f)' = LinksWith(f)
    BY <1>1 DEF LinksWith
  <2>4. ASSUME NEW k \in Nodes
        PROVE  succ'[k] = k /\ (f \in uploaded'[k] \/ (main'[k].op = "link" /\ f \in main'[k].own))
               <=> succ[k] = k /\ (f \in uploaded[k] \/ (main[k].op = "link" /\ f \in main[k].own))
    <3>1. CASE k # n
      BY <1>1, <3>1
    <3>2. CASE k = n
      <4>1. main'[k].op # "link" /\ main[k].op # "link" /\ uploaded'[k] = uploaded[k]
        BY <1>1, <3>2
      <4>2. CASE UNCHANGED succ
        BY <4>1, <4>2
      <4>3. CASE main[n].op = "join"
        <5>1. uploaded[k] = {}
          BY <3>2, <4>3 DEF Orderly, StoredHere
        <5>. QED
          BY <4>1, <5>1
      <4>. QED
        BY <4>2, <4>3
    <3>. QED
      BY <3>1, <3>2
  <2>5. Homed(f)' <=> Homed(f)
    BY <2>4 DEF Homed
  <2>6. Places(f)' = Places(f)
    BY <2>1, <2>2, <2>3, SamePlaces
  <2>. QED
    BY <2>5, <2>6, StaysInOnePlace DEF Orderly
<1>. QED
  BY <1>2, <1>3, <1>4, <1>5, <1>6

LEMMA NotEntriesStep ==
  ASSUME TypeOK, Orderly, NEW n \in Nodes,
         Create(n) \/ Find(n) \/ \E contact \in Contacts[n] : Join(n, contact)
  PROVE  Orderly'
<1>1. PICK x \in {Ready, Finding, Joining} :
        /\ Turn(n, x) /\ UNCHANGED <<listener, succ, files, uploaded, downloads>>
        /\ main[n] \in {Off, Ready} /\ (x = Joining => main[n] = Off)
        /\ \A m \in net' \cup net : m.type # "JOIN" => (m \in net' <=> m \in net)
  <2>1. CASE Create(n)
    BY <2>1 DEF Create
  <2>2. CASE Find(n)
    BY <2>2, Ops DEF Find, FindAt, Prompt
  <2>3. ASSUME NEW contact \in Contacts[n], Join(n, contact)
        PROVE  /\ Turn(n, Joining) /\ UNCHANGED <<listener, succ, files, uploaded, downloads>>
               /\ main[n] = Off
               /\ \A m \in net' \cup net : m.type # "JOIN" => (m \in net' <=> m \in net)
    BY <2>3 DEF Join
  <2>. QED
    BY <2>1, <2>2, <2>3
<1>2. /\ main[n].op # "fetch" /\ main[n].op # "link" /\ x.op # "link"
      /\ x.op \in {"off", "join", "fetch"} => main[n].op \in {"off", "join", "fetch"}
  BY <1>1, Ops
<1>3. /\ StoredHere' /\ Distinct' /\ \A f \in Files : OnePlace(f)'
      /\ \A k \in Nodes : main[k] = Fetching => main'[k] = Fetching
  BY <1>1, <1>2, PlainTurn
<1>4. Asks' = Asks /\ \A k \in Nodes : SegmentsTo(k)' = SegmentsTo(k)
  BY <1>1, SameTraffic
<1>5. AskedOnce' /\ OneAnswer'
  BY <1>1, <1>3, <1>4, TypeParts, FetchesKept DEF Orderly
<1>. QED
  BY <1>3, <1>5 DEF Orderly

LEMMA JoinReplyStep ==
  ASSUME TypeOK, Orderly, NEW n \in Nodes, JoinReply(n)
  PROVE  Orderly'
<1>1. PICK r \in replies[n] :
        /\ main[n] = Joining /\ Turn(n, Fetching)
        /\ succ' = [succ EXCEPT ![n] = r]
        /\ net' = net \cup {[type |-> "GET_FILES", from |-> n, to |-> r]}
        /\ UNCHANGED <<listener, files, uploaded, downloads>>
  BY DEF JoinReply
<1> DEFINE ask == [type |-> "GET_FILES", from |-> n, to |-> r]
<1>2. \A k \in Nodes : k # n => succ'[k] = succ[k]
  BY <1>1, TypeParts
<1>3. \A m \in net' \cup net : m.type \in {"FILE_DATA", "FILE_END"} => (m \in net' <=> m \in net)
  BY <1>1
<1>4. /\ StoredHere' /\ Distinct' /\ \A f \in Files : OnePlace(f)'
      /\ \A k \in Nodes : SegmentsTo(k)' = SegmentsTo(k)
      /\ \A k \in Nodes : main[k] = Fetching => main'[k] = Fetching
  BY <1>1, <1>2, <1>3, Ops, PlainTurn
<1>5. Asks' = Asks \cup {ask}
  BY <1>1 DEF Asks
<1>6. \A m \in Asks : m.from # n /\ m.from \in Nodes
  BY <1>1, Ops, TypeParts, MessageFields DEF Orderly, AskedOnce, Asks
<1>7. main[n] # Fetching
  BY <1>1, Ops
<1>8. SegmentsTo(n) = {} /\ downloads[n] = <<>>
  BY <1>7 DEF Orderly, OneAnswer
<1>9. main'[n] = Fetching
  BY <1>1, TypeParts DEF Turn
<1>10. AskedOnce'
  <2>1. ASSUME NEW m \in Asks'
        PROVE  /\ main'[m.from] = Fetching /\ SegmentsTo(m.from)' = {} /\ downloads'[m.from] = <<>>
               /\ \A o \in Asks' : o.from = m.from => o = m
    <3>1. CASE m = ask
      <4>1. m.from = n
        BY <3>1
      <4>2. \A o \in Asks' : o.from = n => o = m
        BY <1>5, <1>6, <3>1
      <4>. QED
        BY <1>1, <1>4, <1>8, <1>9, <4>1, <4>2
    <3>2. CASE m \in Asks
      <4>1. /\ main[m.from] = Fetching /\ SegmentsTo(m.from) = {} /\ downloads[m.from] = <<>>
            /\ \A o \in Asks : o.from = m.from => o = m
        BY <3>2 DEF Orderly, AskedOnce
      <4>2. m.from \in Nodes /\ m.from # n
        BY <1>6, <3>2
      <4>3. \A o \in Asks' : o.from = m.from => o = m
        BY <1>5, <4>1, <4>2
      <4>. QED
        BY <1>1, <1>4, <4>1, <4>2, <4>3
    <3>. QED
      BY <1>5, <3>1, <3>2
  <2>. QED
    BY <2>1 DEF AskedOnce
<1>11. OneAnswer'
  <2>1. ASSUME NEW k \in Nodes, SegmentsTo(k)' # {} \/ downloads'[k] # <<>>
        PROVE  main'[k] = Fetching /\ \E T \in Nat : Arriving(downloads'[k], SegmentsTo(k)', T)
    <3>1. SegmentsTo(k)' = SegmentsTo(k) /\ downloads'[k] = downloads[k]
      BY <1>1, <1>4
    <3>2. main[k] = Fetching /\ \E T \in Nat : Arriving(downloads[k], SegmentsTo(k), T)
      BY <2>1, <3>1 DEF Orderly, OneAnswer
    <3>. QED
      BY <1>4, <3>1, <3>2
  <2>. QED
    BY <2>1 DEF OneAnswer
<1>. QED
  BY <1>4, <1>10, <1>11 DEF Orderly

LEMMA StoreElsewhereStep ==
  ASSUME TypeOK, Orderly, NEW n \in Nodes, NEW f \in Files, Store(n, f), succ[n] # n
  PROVE  Orderly'
<1>1. /\ main[n] = Ready /\ Turn(n, Ready) /\ uploaded' = [uploaded EXCEPT ![n] = @ \cup {f}]
      /\ UNCHANGED <<listener, succ, files, downloads, net>>
  BY DEF Store, StoreAt, Prompt
<1>2. UNCHANGED main
  BY <1>1, TypeParts DEF Turn
<1>3. AskedOnce' /\ OneAnswer' /\ Distinct'
  BY <1>1, <1>2 DEF Orderly, AskedOnce, OneAnswer, Distinct, Asks, SegmentsTo
<1>4. \A k \in Nodes : uploaded'[k] = IF k = n THEN uploaded[n] \cup {f} ELSE uploaded[k]
  BY <1>1, TypeParts
<1>5. StoredHere'
  BY <1>1, <1>2, <1>4, Ops DEF Orderly, StoredHere
<1>6. ASSUME NEW g \in Files
      PROVE  OnePlace(g)'
  <2>1. Places(g)' = Places(g)
    BY <1>1, <1>2 DEF Places, Leaving
  <2>2. Homed(g)' <=> Homed(g)
    BY <1>1, <1>2, <1>4 DEF Homed
  <2>. QED
    BY <2>1, <2>2, StaysInOnePlace DEF Orderly
<1>. QED
  BY <1>3, <1>5, <1>6 DEF Orderly

LEMMA StoreHereStep ==
  ASSUME TypeOK, Orderly, NEW n \in Nodes, NEW f \in Files, Store(n, f), succ[n] = n
  PROVE  Orderly'
<1> DEFINE x == Linking(<<f>>, {f})
<1>1. /\ main[n] = Ready /\ Turn(n, x) /\ New(f)
      /\ UNCHANGED <<listener, succ, files, uploaded, downloads, net>>
  BY DEF Store, StoreAt, Prompt
<1>2. x.op = "link" /\ x.todo = <<f>> /\ x.own = {f}
  BY Ops
<1>. HIDE DEF x
<1>3. \A k \in Nodes : main'[k] = IF k = n THEN x ELSE main[k]
  BY <1>1, TypeParts DEF Turn
<1>4. main[n].op = "ready" /\ main[n] # Fetching
  BY <1>1, Ops
<1>5. AskedOnce' /\ OneAnswer'
  BY <1>1, <1>3, <1>4, TypeParts, FetchesKept DEF Orderly, Asks, SegmentsTo
<1>6. StoredHere'
  BY <1>1, <1>2, <1>3 DEF Orderly, StoredHere
<1>7. IsInjective(<<f>>) /\ Range(<<f>>) = {f}
  BY DEF IsInjective, Range
<1>8. Distinct'
  BY <1>1, <1>2, <1>3, <1>7 DEF Orderly, Distinct
<1>9. ASSUME NEW g \in Files
      PROVE  OnePlace(g)'
  <2>1. ListsWith(g)' = ListsWith(g) /\ Flying(g)' = Flying(g) /\ \A k \in Nodes : QueuedAt(k, g)' = QueuedAt(k, g)
    BY <1>1 DEF ListsWith, Flying, QueuedAt, Leaving
  <2>2. CASE g # f
    <3>1. LinksWith(g)' = LinksWith(g)
      BY <1>2, <1>3, <1>4, <1>7, <2>2 DEF LinksWith
    <3>2. Homed(g)' <=> Homed(g)
      BY <1>1, <1>2, <1>3, <1>4, <2>2 DEF Homed
    <3>3. Places(g)' = Places(g)
      BY <2>1, <3>1, SamePlaces
    <3>. QED
      BY <3>2, <3>3, StaysInOnePlace DEF Orderly
  <2>3. CASE g = f
    <3>1. ~Homed(f)
      BY <1>1 DEF New, Homed
    <3>2. Places(f) = {}
      BY <3>1 DEF Orderly, OnePlace
    <3>3. ListsWith(f) = {} /\ LinksWith(f) = {} /\ Flying(f) = {} /\ \A k \in Nodes : QueuedAt(k, f) = {}
      BY <3>2, Nowhere
    <3>4. LinksWith(f)' = {n}
      <4>1. \A k \in Nodes : k \in LinksWith(f)' <=> k \in LinksWith(f) \/ k = n
        BY <1>2, <1>3, <1>7 DEF LinksWith
      <4>2. LinksWith(f)' \subseteq Nodes
        BY DEF LinksWith
      <4>. QED
        BY <3>3, <4>1, <4>2
    <3>5. Homed(f)'
      BY <1>1, <1>2, <1>3 DEF Homed
    <3>6. /\ ListsWith(f)' = {} /\ LinksWith(f)' = {n} /\ Flying(f)' = {}
          /\ \A k \in Nodes : QueuedAt(k, f)' = {}
      BY <2>1, <2>3, <3>3, <3>4
    <3>7. OnePlace(f)'
      BY <3>5, <3>6, MovedToOnePlace
    <3>. QED
      BY <2>3, <3>7
  <2>. QED
    BY <2>2, <2>3
<1>. QED
  BY <1>5, <1>6, <1>8, <1>9 DEF Orderly

\* The read of a head changes no entry's place.
LEMMA LinkReadStep ==
  ASSUME TypeOK, Orderly, NEW n \in Nodes, LinkRead(n)
  PROVE  Orderly'
<1>1. /\ main[n].op = "link" /\ UNCHANGED <<listener, succ, files, uploaded, downloads, net>>
      /\ main[n] \in [op : {"link"}, todo : Seq(Entries), own : SUBSET Files, read : BOOLEAN,
                      head : SUBSET Entries]
  BY TypeParts, LinkFields DEF LinkRead
<1>2. \A k \in Nodes : k # n => main'[k] = main[k]
  BY TypeParts DEF LinkRead
<1>3. main'[n].op = "link" /\ main'[n].todo = main[n].todo /\ main'[n].own = main[n].own
  BY <1>1, TypeParts DEF LinkRead
<1>4. \A k \in Nodes : main[k] = Fetching => main'[k] = Fetching
  BY <1>1, <1>2, Ops
<1>5. AskedOnce' /\ OneAnswer'
  BY <1>1, <1>4, TypeParts, FetchesKept DEF Orderly, Asks, SegmentsTo
<1>6. StoredHere' /\ Distinct'
  BY <1>1, <1>2, <1>3 DEF Orderly, StoredHere, Distinct
<1>7. ASSUME NEW f \in Files
      PROVE  OnePlace(f)'
  <2>1. ListsWith(f)' = ListsWith(f) /\ Flying(f)' = Flying(f) /\ \A k \in Nodes : QueuedAt(k, f)' = QueuedAt(k, f)
    BY <1>1 DEF ListsWith, Flying, QueuedAt, Leaving
  <2>2. LinksWith(f)' = LinksWith(f)
    BY <1>1, <1>2, <1>3 DEF LinksWith
  <2>3. Homed(f)' <=> Homed(f)
    BY <1>1, <1>2, <1>3 DEF Homed
  <2>4. Places(f)' = Places(f)
    BY <2>1, <2>2, SamePlaces
  <2>. QED
    BY <2>3, <2>4, StaysInOnePlace DEF Orderly
<1>. QED
  BY <1>5, <1>6, <1>7 DEF Orderly

\* The entry that is linked goes from those to do to the list.
LEMMA LinkWriteStep ==
  ASSUME TypeOK, NoJunk, Orderly, NEW n \in Nodes, LinkWrite(n)
  PROVE  Orderly'
<1> PICK f : f = Head(main[n].todo)
  OBVIOUS
<1> DEFINE x == IF Len(main[n].todo) > 1 THEN Linking(Tail(main[n].todo), main[n].own) ELSE Ready
<1>1. /\ main[n].op = "link" /\ main[n].read /\ Len(main[n].todo) >= 1
      /\ UNCHANGED <<listener, succ, downloads, net>>
  BY DEF LinkWrite
<1>2. main[n].todo \in Seq(Entries) /\ main[n].own \subseteq Files
  BY <1>1, TypeParts, LinkFields
<1>3. listener[n] = Free /\ ~Freed(n) /\ Junk \notin Range(main[n].todo)
  BY <1>1 DEF NoJunk, CleanLists, Freed
<1>4. files' = [files EXCEPT ![n] = <<f>> \o files[n]]
  BY <1>3 DEF LinkWrite
<1>5. \/ Len(main[n].todo) > 1 /\ Turn(n, x) /\ UNCHANGED uploaded
      \/ Len(main[n].todo) = 1 /\ Turn(n, x) /\ uploaded' = [uploaded EXCEPT ![n] = @ \cup main[n].own]
  BY DEF LinkWrite
<1>6. \A k \in Nodes : main'[k] = IF k = n THEN x ELSE main[k]
  <2>. HIDE DEF x
  <2>. QED
    BY <1>5, TypeParts DEF Turn
<1>7. /\ f \in Range(main[n].todo) /\ f \in Files
      /\ Range(Tail(main[n].todo)) = Range(main[n].todo) \ {f}
      /\ IsInjective(Tail(main[n].todo))
      /\ Len(main[n].todo) = 1 => Range(main[n].todo) = {f}
  <2> DEFINE t == main[n].todo
  <2>1. IsInjective(t)
    BY <1>1 DEF Orderly, Distinct
  <2>2. t \in Seq(Entries) /\ Len(t) >= 1
    BY <1>1, <1>2
  <2>. HIDE DEF t
  <2>3. /\ DOMAIN t = 1 .. Len(t) /\ Len(t) \in Nat /\ Head(t) = t[1] /\ 1 \in DOMAIN t
        /\ Tail(t) \in Seq(Entries) /\ DOMAIN Tail(t) = 1 .. Len(t) - 1
        /\ \A i \in 1 .. Len(t) - 1 : Tail(t)[i] = t[i + 1] /\ i + 1 \in 1 .. Len(t) /\ i + 1 # 1
    BY <2>2
  <2>4. Head(t) \in Range(t)
    BY <2>3 DEF Range
  <2>5. \A i \in 1 .. Len(t) : i = 1 \/ (i - 1 \in 1 .. Len(t) - 1 /\ (i - 1) + 1 = i)
    BY <2>3
  <2>6. Range(Tail(t)) = Range(t) \ {Head(t)}
    <3>1. \A y \in Range(Tail(t)) : y \in Range(t) /\ y # Head(t)
      BY <2>1, <2>3 DEF Range, IsInjective
    <3>2. \A y \in Range(t) : y # Head(t) => y \in Range(Tail(t))
      <4>1. ASSUME NEW i \in 1 .. Len(t), t[i] # Head(t)
            PROVE  t[i] \in Range(Tail(t))
        <5>1. i - 1 \in 1 .. Len(t) - 1 /\ Tail(t)[i - 1] = t[i]
          BY <2>3, <2>5, <4>1
        <5>. QED
          BY <2>3, <5>1 DEF Range
      <4>. QED
        BY <2>3, <4>1 DEF Range
    <3>. QED
      BY <3>1, <3>2
  <2>7. IsInjective(Tail(t))
    <3>1. ASSUME NEW i \in 1 .. Len(t) - 1, NEW j \in 1 .. Len(t) - 1, Tail(t)[i] = Tail(t)[j]
          PROVE  i = j
      <4>1. i + 1 = j + 1
        BY <2>1, <2>3, <3>1 DEF IsInjective
      <4>. QED
        BY <4>1
    <3>. QED
      BY <2>3, <3>1 DEF IsInjective
  <2>8. Len(t) = 1 => Range(t) = {Head(t)}
    BY <2>3 DEF Range
  <2>9. Range(t) \subseteq Entries
    BY <2>2 DEF Range
  <2>. QED
    BY <1>3, <2>4, <2>6, <2>7, <2>8, <2>9 DEF t, Entries
<1>8. /\ x.op \in {"link", "ready"}
      /\ x.op = "link" <=> Len(main[n].todo) > 1
      /\ x.op = "link" => x.todo = Tail(main[n].todo) /\ x.own = main[n].own
  BY Ops
<1>. HIDE DEF x
<1>9. LinksWith(f) = {n} /\ ListsWith(f) = {} /\ Flying(f) = {} /\ \A k \in Nodes : QueuedAt(k, f) = {}
  <2>1. n \in LinksWith(f)
    BY <1>1, <1>7 DEF LinksWith
  <2>. QED
    BY <1>7, <2>1, OnlyLink DEF Orderly
<1>10. \A k \in Nodes : ~Leaving(k, f) \/ listener[k].op = "delete"
  BY DEF Leaving
<1>11. f \notin Range(files[n])
  BY <1>3, <1>9, Ops DEF ListsWith, Leaving
<1>12. /\ Range(files'[n]) = Range(files[n]) \cup {f}
       /\ IsInjective(files'[n])
       /\ \A k \in Nodes : k # n => files'[k] = files[k]
  <2> DEFINE s == files[n]
  <2>1. s \in Seq(Entries) /\ f \in Entries /\ f \notin Range(s) /\ IsInjective(s)
    BY <1>7, <1>11, TypeParts DEF Orderly, Distinct, Entries
  <2>2. files'[n] = <<f>> \o s /\ \A k \in Nodes : k # n => files'[k] = files[k]
    BY <1>4, TypeParts
  <2>. HIDE DEF s
  <2> DEFINE r == <<f>> \o s
  <2>3. /\ DOMAIN s = 1 .. Len(s) /\ Len(s) \in Nat /\ DOMAIN r = 1 .. Len(s) + 1 /\ r[1] = f
        /\ \A i \in 1 .. Len(s) : r[i + 1] = s[i] /\ i + 1 \in 1 .. Len(s) + 1
    BY <2>1
  <2>. HIDE DEF r
  <2>4. \A i \in 1 .. Len(s) + 1 : i = 1 \/ (i - 1 \in 1 .. Len(s) /\ (i - 1) + 1 = i)
    BY <2>3
  <2>5. \A i \in 1 .. Len(s) + 1 : i = 1 \/ (i - 1 \in 1 .. Len(s) /\ r[i] = s[i - 1])
    BY <2>3, <2>4
  <2>6. Range(r) = Range(s) \cup {f}
    <3>1. Range(r) \subseteq Range(s) \cup {f}
      <4>1. \A i \in 1 .. Len(s) + 1 : r[i] = f \/ \E j \in 1 .. Len(s) : r[i] = s[j]
        BY <2>3, <2>5
      <4>2. \A i \in 1 .. Len(s) + 1 : r[i] \in Range(s) \cup {f}
        BY <2>3, <4>1 DEF Range
      <4>. QED
        BY <2>3, <4>2 DEF Range
    <3>2. f \in Range(r)
      <4>1. 1 \in 1 .. Len(s) + 1
        BY <2>3
      <4>. QED
        BY <2>3, <4>1 DEF Range
    <3>3. Range(s) \subseteq Range(r)
      BY <2>3 DEF Range
    <3>. QED
      BY <3>1, <3>2, <3>3
  <2>7. IsInjective(r)
    <3>1. \A i \in 1 .. Len(s) : s[i] # f
      BY <2>1, <2>3 DEF Range
    <3>2. ASSUME NEW i \in 1 .. Len(s) + 1, NEW j \in 1 .. Len(s) + 1, r[i] = r[j]
          PROVE  i = j
      <4>1. CASE i = 1
        BY <2>3, <2>5, <3>1, <3>2, <4>1
      <4>2. CASE j = 1
        BY <2>3, <2>5, <3>1, <3>2, <4>2
      <4>3. CASE i # 1 /\ j # 1
        <5>1. i - 1 \in 1 .. Len(s) /\ j - 1 \in 1 .. Len(s) /\ s[i - 1] = s[j - 1]
          BY <2>5, <3>2, <4>3
        <5>2. i - 1 = j - 1
          BY <2>1, <2>3, <5>1 DEF IsInjective
        <5>. QED
          BY <5>2
      <4>. QED
        BY <4>1, <4>2, <4>3
    <3>. QED
      BY <2>3, <3>2 DEF IsInjective
  <2>. QED
    BY <2>2, <2>6, <2>7 DEF r, s
<1>13. AskedOnce' /\ OneAnswer'
  <2>1. \A k \in Nodes : main[k] = Fetching => main'[k] = Fetching
    BY <1>1, <1>6, Ops
  <2>. QED
    BY <1>1, <2>1, TypeParts, FetchesKept DEF Orderly, Asks, SegmentsTo
<1>14. \A k \in Nodes : k # n => uploaded'[k] = uploaded[k]
  BY <1>5, TypeParts
<1>15. x.op = "ready" => uploaded'[n] = uploaded[n] \cup main[n].own
  <2>1. x.op = "ready" => ~(Len(main[n].todo) > 1)
    BY <1>8
  <2>2. x.op = "ready" => uploaded' = [uploaded EXCEPT ![n] = @ \cup main[n].own]
    BY <1>5, <2>1
  <2>. QED
    BY <2>2, TypeParts
<1>16. x.op = "link" => uploaded'[n] = uploaded[n]
  <2>1. x.op = "link" => Len(main[n].todo) # 1
    <3>1. \A a \in Nat : a > 1 => a # 1
      OBVIOUS
    <3>. QED
      BY <1>2, <1>8, <3>1
  <2>. QED
    BY <1>5, <2>1
<1>17. StoredHere'
  <2>1. ASSUME NEW k \in Nodes
        PROVE  /\ uploaded'[k] # {} => main'[k].op \notin {"off", "join", "fetch"}
               /\ main'[k].op = "link" /\ main'[k].own # {} => succ'[k] = k
    <3>1. CASE k # n
      BY <1>1, <1>6, <1>14, <2>1, <3>1 DEF Orderly, StoredHere
    <3>2. CASE k = n
      BY <1>1, <1>6, <1>8, <3>2 DEF Orderly, StoredHere
    <3>. QED
      BY <3>1, <3>2
  <2>. QED
    BY <2>1 DEF StoredHere
<1>18. Distinct'
  <2>1. ASSUME NEW k \in Nodes
        PROVE  /\ IsInjective(files'[k])
               /\ main'[k].op = "link" => IsInjective(main'[k].todo)
               /\ listener'[k].op = "delete" /\ listener'[k].read => listener'[k].seen = files'[k]
    <3>1. CASE k # n
      BY <1>1, <1>6, <1>12, <3>1 DEF Orderly, Distinct
    <3>2. CASE k = n
      BY <1>1, <1>3, <1>6, <1>7, <1>8, <1>12, <3>2, Ops
    <3>. QED
      BY <3>1, <3>2
  <2>. QED
    BY <2>1 DEF Distinct
<1>19. ASSUME NEW g \in Files
       PROVE  OnePlace(g)'
  <2>1. Flying(g)' = Flying(g) /\ \A k \in Nodes : QueuedAt(k, g)' = QueuedAt(k, g)
    BY <1>1 DEF Flying, QueuedAt
  <2>2. ASSUME NEW k \in Nodes
        PROVE  succ'[k] = k /\ (g \in uploaded'[k] \/ (main'[k].op = "link" /\ g \in main'[k].own))
               <=> succ[k] = k /\ (g \in uploaded[k] \/ (main[k].op = "link" /\ g \in main[k].own))
    <3>1. CASE k # n
      BY <1>1, <1>6, <1>14, <3>1
    <3>2. CASE k = n /\ x.op = "link"
      BY <1>1, <1>6, <1>8, <1>16, <3>2
    <3>3. CASE k = n /\ x.op = "ready"
      BY <1>1, <1>6, <1>15, <3>3
    <3>. QED
      BY <1>8, <3>1, <3>2, <3>3
  <2>3. Homed(g)' <=> Homed(g)
    BY <2>2 DEF Homed
  <2>4. CASE g # f
    <3>1. ListsWith(g)' = ListsWith(g)
      BY <1>1, <1>12, <2>4 DEF ListsWith, Leaving
    <3>2. \A k \in Nodes : k \in LinksWith(g)' <=> k \in LinksWith(g)
      <4>1. ASSUME NEW k \in Nodes
            PROVE  main'[k].op = "link" /\ g \in Range(main'[k].todo)
                   <=> main[k].op = "link" /\ g \in Range(main[k].todo)
        <5>1. CASE k # n
          BY <1>6, <5>1
        <5>2. CASE k = n /\ x.op = "link"
          BY <1>1, <1>6, <1>7, <1>8, <2>4, <5>2
        <5>3. CASE k = n /\ x.op = "ready"
          <6>1. Len(main[n].todo) = 1
            <7>1. \A a \in Nat : a >= 1 /\ ~(a > 1) => a = 1
              OBVIOUS
            <7>2. Len(main[n].todo) \in Nat
              BY <1>2
            <7>3. ~(Len(main[n].todo) > 1)
              BY <1>8, <5>3
            <7>. QED
              BY <1>1, <7>1, <7>2, <7>3
          <6>2. g \notin Range(main[n].todo)
            BY <1>7, <2>4, <6>1
          <6>. QED
            BY <1>6, <5>3, <6>2
        <5>. QED
          BY <1>8, <5>1, <5>2, <5>3
      <4>. QED
        BY <4>1 DEF LinksWith
    <3>3. LinksWith(g)' = LinksWith(g)
      BY <3>2 DEF LinksWith
    <3>4. Places(g)' = Places(g)
      BY <2>1, <3>1, <3>3, SamePlaces
    <3>. QED
      BY <2>3, <3>4, StaysInOnePlace DEF Orderly
  <2>5. CASE g = f
    <3>1. Homed(f)'
      <4>1. n \in LinksWith(f)
        BY <1>9
      <4>2. <<"link", n, 0>> \in Places(f)
        BY <4>1, PlacesAre
      <4>. QED
        BY <1>7, <2>3, <2>5, <4>2 DEF Orderly, OnePlace
    <3>2. LinksWith(f)' = {}
      <4>1. ASSUME NEW k \in Nodes
            PROVE  ~(main'[k].op = "link" /\ f \in Range(main'[k].todo))
        <5>1. CASE k # n
          BY <1>6, <1>9, <5>1 DEF LinksWith
        <5>2. CASE k = n
          BY <1>6, <1>7, <1>8, <5>2
        <5>. QED
          BY <5>1, <5>2
      <4>. QED
        BY <4>1 DEF LinksWith
    <3>3. ListsWith(f)' = {n}
      <4>1. ASSUME NEW k \in Nodes
            PROVE  k \in ListsWith(f)' <=> k = n
        <5>1. CASE k # n
          <6>1. k \notin ListsWith(f)
            BY <1>9
          <6>. QED
            BY <1>1, <1>12, <5>1, <6>1 DEF ListsWith, Leaving
        <5>2. CASE k = n
          BY <1>1, <1>3, <1>12, <5>2, Ops DEF ListsWith, Leaving
        <5>. QED
          BY <5>1, <5>2
      <4>2. ListsWith(f)' \subseteq Nodes
        BY DEF ListsWith
      <4>. QED
        BY <4>1, <4>2
    <3>4. Flying(f)' = {} /\ \A k \in Nodes : QueuedAt(k, f)' = {}
      BY <1>9, <2>1, <2>5
    <3>5. OnePlace(f)'
      BY <3>1, <3>2, <3>3, <3>4, MovedToOnePlace
    <3>. QED
      BY <2>5, <3>5
  <2>. QED
    BY <2>4, <2>5
<1>. QED
  BY <1>13, <1>17, <1>18, <1>19 DEF Orderly

LEMMA DeleteReadStep ==
  ASSUME TypeOK, Orderly, NEW n \in Nodes, DeleteRead(n)
  PROVE  Orderly'
<1>1. /\ listener[n].op = "delete" /\ UNCHANGED <<main, succ, files, uploaded, downloads, net>>
      /\ listener[n] \in [op : {"delete"}, new : Nodes, junk : BOOLEAN, read : BOOLEAN,
                          seen : Seq(Entries)]
  BY TypeParts, DeleteFields DEF DeleteRead
<1>2. \A k \in Nodes : k # n => listener'[k] = listener[k]
  BY TypeParts DEF DeleteRead
<1>3. /\ listener'[n].op = "delete" /\ listener'[n].seen = files[n]
      /\ listener'[n].new = listener[n].new /\ listener'[n].junk = listener[n].junk
  BY <1>1, TypeParts DEF DeleteRead
<1>4. AskedOnce' /\ OneAnswer' /\ StoredHere'
  BY <1>1 DEF Orderly, AskedOnce, OneAnswer, StoredHere, Asks, SegmentsTo
<1>5. Distinct'
  BY <1>1, <1>2, <1>3 DEF Orderly, Distinct
<1>6. ASSUME NEW f \in Files
      PROVE  OnePlace(f)'
  <2>1. LinksWith(f)' = LinksWith(f) /\ Flying(f)' = Flying(f) /\ \A k \in Nodes : QueuedAt(k, f)' = QueuedAt(k, f)
    BY <1>1 DEF LinksWith, Flying, QueuedAt
  <2>2. \A k \in Nodes : Leaving(k, f)' <=> Leaving(k, f)
    BY <1>1, <1>2, <1>3 DEF Leaving
  <2>3. ListsWith(f)' = ListsWith(f)
    BY <1>1, <2>2 DEF ListsWith
  <2>4. Homed(f)' <=> Homed(f)
    BY <1>1 DEF Homed
  <2>5. Places(f)' = Places(f)
    BY <2>1, <2>3, SamePlaces
  <2>. QED
    BY <2>4, <2>5, StaysInOnePlace DEF Orderly
<1>. QED
  BY <1>4, <1>5, <1>6 DEF Orderly

\* What is deleted is what was sent; the rest stays where it is.
LEMMA DeleteWriteStep ==
  ASSUME TypeOK, NoJunk, Orderly, NEW n \in Nodes, DeleteWrite(n)
  PROVE  Orderly'
<1> DEFINE s    == files[n]
           gone == Going(s, listener[n].new, n, listener[n].junk)
           left == Kept(s, Range(s) \ gone)
<1>1. /\ listener[n].op = "delete" /\ listener[n].read /\ listener' = [listener EXCEPT ![n] = Free]
      /\ UNCHANGED <<main, succ, uploaded, downloads, net>>
  BY DEF DeleteWrite
<1>2. listener[n].seen = s /\ s \in Seq(Entries) /\ IsInjective(s) /\ Junk \notin Range(s)
  BY <1>1, TypeParts DEF Orderly, Distinct, NoJunk, CleanLists
<1>3. SubSeq(s, 1, Len(s) - Len(s)) = <<>>
  <2>1. Len(s) - Len(s) = 0
    BY <1>2
  <2>2. SubSeq(s, 1, 0) = <<>>
    BY <1>2
  <2>. QED
    BY <2>1, <2>2
<1>4. left \in Seq(Entries) /\ Range(left) = Range(s) \ gone /\ IsInjective(left)
  <2>. HIDE DEF s
  <2> DEFINE S == Range(s) \ gone
  <2>1. Range(s) \cap S = S
    OBVIOUS
  <2>. HIDE DEF S
  <2>2. /\ Kept(s, S) \in Seq(Entries) /\ Range(Kept(s, S)) = Range(s) \cap S
        /\ IsInjective(s) => IsInjective(Kept(s, S))
    BY <1>2, KeptEntries
  <2>. QED
    BY <1>2, <2>1, <2>2 DEF S
<1>5. files' = [files EXCEPT ![n] = left]
  <2>1. files' = [files EXCEPT ![n] =
                    (IF s # <<>> /\ Head(s) \in gone THEN <<>> ELSE SubSeq(s, 1, Len(s) - Len(s))) \o left]
    BY <1>2 DEF DeleteWrite
  <2>2. (IF s # <<>> /\ Head(s) \in gone THEN <<>> ELSE SubSeq(s, 1, Len(s) - Len(s))) = <<>>
    BY <1>3
  <2>3. <<>> \o left = left
    <3>. HIDE DEF left
    <3>. QED
      BY <1>4
  <2>. QED
    BY <2>1, <2>2, <2>3
<1>6. \A k \in Nodes : /\ files'[k] = (IF k = n THEN left ELSE files[k])
                       /\ listener'[k] = (IF k = n THEN Free ELSE listener[k])
  <2>. HIDE DEF left
  <2>. QED
    BY <1>1, <1>5, TypeParts
<1>7. AskedOnce' /\ OneAnswer' /\ StoredHere'
  BY <1>1 DEF Orderly, AskedOnce, OneAnswer, StoredHere, Asks, SegmentsTo
<1>8. \A f \in Files : f \in gone <=> f \in Range(s) /\ Leaving(n, f)
  BY <1>1 DEF Going, Leaving
<1>. HIDE DEF left, gone, s
<1>9. Distinct'
  BY <1>1, <1>4, <1>6, Ops DEF Orderly, Distinct
<1>10. ASSUME NEW f \in Files
       PROVE  OnePlace(f)'
  <2>1. LinksWith(f)' = LinksWith(f) /\ Flying(f)' = Flying(f) /\ \A k \in Nodes : QueuedAt(k, f)' = QueuedAt(k, f)
    BY <1>1 DEF LinksWith, Flying, QueuedAt
  <2>2. ASSUME NEW k \in Nodes
        PROVE  k \in ListsWith(f)' <=> k \in ListsWith(f)
    <3>1. CASE k # n
      BY <1>6, <3>1 DEF ListsWith, Leaving
    <3>2. CASE k = n
      <4>1. f \in Range(left) <=> f \in Range(files[n]) /\ ~Leaving(n, f)
        BY <1>4, <1>8 DEF s
      <4>2. ~Leaving(n, f)'
        BY <1>6, Ops DEF Leaving
      <4>3. files'[n] = left
        BY <1>6
      <4>. QED
        BY <3>2, <4>1, <4>2, <4>3 DEF ListsWith
    <3>. QED
      BY <3>1, <3>2
  <2>3. ListsWith(f)' = ListsWith(f)
    BY <2>2 DEF ListsWith
  <2>4. Homed(f)' <=> Homed(f)
    BY <1>1 DEF Homed
  <2>5. Places(f)' = Places(f)
    BY <2>1, <2>3, SamePlaces
  <2>. QED
    BY <2>4, <2>5, StaysInOnePlace DEF Orderly
<1>. QED
  BY <1>7, <1>9, <1>10 DEF Orderly

\* The entries that came go from the queue to those to be linked.
LEMMA FetchEndStep ==
  ASSUME TypeOK, NoJunk, Orderly, NEW n \in Nodes, FetchEnd(n)
  PROVE  Orderly'
<1>0. main[n] = Fetching /\ UNCHANGED <<listener, succ, files, uploaded, net>>
  BY DEF FetchEnd
<1> DEFINE Came(e) == {downloads[n][k] : k \in 1 .. e - 1}
           Heard(e, i) == {d.entry : d \in {y \in Came(e) : y.seg = i}}
           Fits(e, last, got) ==
             /\ last.seg = last.total
             /\ \A i \in 1 .. last.total : got[i] \in IF Heard(e, i) = {} THEN {Junk} ELSE Heard(e, i)
<1>1. PICK e \in DOMAIN downloads[n] :
        /\ downloads[n][e].type = "FILE_END"
        /\ downloads' = [downloads EXCEPT ![n] = SubSeq(@, e + 1, Len(@))]
        /\ \A i \in 1 .. e - 1 : downloads[n][i].type # "FILE_END"
        /\ \/ \E last \in Came(e) : \E got \in [1 .. last.total -> Files \cup {Junk}] :
                Fits(e, last, got) /\ Turn(n, Linking(got, {}))
           \/ (downloads[n][e].total = 0 \/ \A d \in Came(e) : d.seg # d.total) /\ Turn(n, Ready)
  BY DEF FetchEnd
<1> PICK q : q = downloads[n]
  OBVIOUS
<1>2. q \in Seq(SegmentMessages) /\ e \in DOMAIN q /\ q # <<>>
  BY TypeParts
<1>3. PICK T \in Nat : Arriving(q, SegmentsTo(n), T)
  BY <1>2 DEF Orderly, OneAnswer
<1>4. e = T + 1 /\ Len(q) = T + 1 /\ SegmentsTo(n) = {}
  BY <1>1, <1>2, <1>3, AnswerComplete
<1>5. \A k \in 1 .. T : k \in DOMAIN q /\ q[k].type = "FILE_DATA" /\ q[k].seg = k /\ q[k].total = T
  <2>1. \A k \in 1 .. T : k \in 1 .. Len(q) /\ k # T + 1
    BY <1>4
  <2>2. \A k \in 1 .. Len(q) : q[k].seg = k /\ q[k].total = T /\ (q[k].type = "FILE_END" <=> k = T + 1)
    BY <1>3 DEF Arriving
  <2>3. \A k \in 1 .. Len(q) : q[k].type \in {"FILE_DATA", "FILE_END"}
    BY <1>2 DEF SegmentMessages, Segment
  <2>. QED
    BY <1>2, <2>1, <2>2, <2>3
<1>6. /\ e - 1 = T /\ Came(e) = {q[k] : k \in 1 .. T}
  BY <1>4
<1>7. \A k \in 1 .. T : q[k].entry \in Files
  <2>1. ASSUME NEW k \in 1 .. T
        PROVE  q[k].entry \in Files
    <3>1. q[k] \in SegmentMessages /\ q[k].type = "FILE_DATA" /\ CleanData(q[k])
      BY <1>2, <1>5 DEF NoJunk, CleanSegments
    <3>. QED
      BY <3>1, MessageFields DEF SegmentMessages, CleanData, Entries
  <2>. QED
    BY <2>1
<1>8. \A k, l \in 1 .. T : q[k].entry = q[l].entry => k = l
  <2>1. ASSUME NEW k \in 1 .. T, NEW l \in 1 .. T, q[k].entry = q[l].entry
        PROVE  k = l
    <3>1. q[k].entry \in Files /\ OnePlace(q[k].entry)
      BY <1>7 DEF Orderly
    <3> PICK f : f = q[k].entry
      OBVIOUS
    <3>2. k \in QueuedAt(n, f) /\ l \in QueuedAt(n, f)
      BY <1>5, <2>1 DEF QueuedAt
    <3>3. OnePlace(f)
      BY <3>1
    <3>. QED
      BY <3>2, <3>3, OnlyQueued
  <2>. QED
    BY <2>1
\* What is linked is what came, entry by entry.
<1>9. PICK x : /\ Turn(n, x)
               /\ \/ x.op = "ready" /\ T = 0
                  \/ /\ x.op = "link" /\ x.own = {} /\ ~x.read
                     /\ DOMAIN x.todo = 1 .. T /\ \A i \in 1 .. T : x.todo[i] = q[i].entry
  <2>1. CASE (downloads[n][e].total = 0 \/ \A d \in Came(e) : d.seg # d.total) /\ Turn(n, Ready)
    <3>1. q[e].total = T
      BY <1>2, <1>3, <1>4 DEF Arriving
    <3>2. CASE T # 0
      <4>1. T \in 1 .. T
        BY <3>2
      <4>2. q[T] \in Came(e) /\ q[T].seg = q[T].total
        BY <1>5, <1>6, <4>1
      <4>. QED
        BY <2>1, <3>1, <3>2, <4>2
    <3>. QED
      BY <2>1, <3>2, Ops
  <2>2. CASE \E last \in Came(e) : \E got \in [1 .. last.total -> Files \cup {Junk}] :
               Fits(e, last, got) /\ Turn(n, Linking(got, {}))
    <3>1. PICK last \in Came(e) : \E got \in [1 .. last.total -> Files \cup {Junk}] :
                 Fits(e, last, got) /\ Turn(n, Linking(got, {}))
      BY <2>2
    <3>2. PICK got \in [1 .. last.total -> Files \cup {Junk}] :
                 Fits(e, last, got) /\ Turn(n, Linking(got, {}))
      BY <3>1
    <3>3. last.total = T
      BY <1>5, <1>6
    <3>4. ASSUME NEW i \in 1 .. T
          PROVE  got[i] = q[i].entry
      <4>1. Heard(e, i) = {q[i].entry}
        <5>1. \A y \in Came(e) : y.seg = i <=> y = q[i]
          BY <1>5, <1>6
        <5>2. q[i] \in Came(e)
          BY <1>6
        <5>. QED
          BY <5>1, <5>2
      <4>2. got[i] \in IF Heard(e, i) = {} THEN {Junk} ELSE Heard(e, i)
        BY <3>2, <3>3
      <4>. HIDE DEF Heard
      <4>. QED
        BY <4>1, <4>2
    <3>5. DOMAIN got = 1 .. T
      BY <3>2, <3>3
    <3> PICK x : x = Linking(got, {})
      OBVIOUS
    <3>6. x.op = "link" /\ x.own = {} /\ ~x.read /\ x.todo = got
      BY Ops
    <3>7. Turn(n, x)
      BY <3>2
    <3>8. DOMAIN x.todo = 1 .. T /\ \A i \in 1 .. T : x.todo[i] = q[i].entry
      BY <3>4, <3>5, <3>6
    <3>. QED
      BY <3>6, <3>7, <3>8
  <2>. QED
    BY <1>1, <2>1, <2>2
<1>. HIDE DEF Came, Heard, Fits
<1>10. \A k \in Nodes : /\ main'[k] = (IF k = n THEN x ELSE main[k])
                        /\ downloads'[k] = (IF k = n THEN <<>> ELSE downloads[k])
  <2>1. SubSeq(q, e + 1, Len(q)) = <<>>
    BY <1>2, <1>4
  <2>2. downloads' = [downloads EXCEPT ![n] = <<>>]
    BY <1>1, <2>1
  <2>. QED
    BY <1>9, <2>2, TypeParts DEF Turn
<1>11. x.op = "link" => IsInjective(x.todo) /\ Range(x.todo) = {q[i].entry : i \in 1 .. T}
  <2>1. x.op = "link" => IsInjective(x.todo)
    BY <1>8, <1>9 DEF IsInjective
  <2>2. x.op = "link" => Range(x.todo) = {q[i].entry : i \in 1 .. T}
    BY <1>9 DEF Range
  <2>. QED
    BY <2>1, <2>2
<1>12. x.op \in {"link", "ready"} /\ x # Fetching
  BY <1>9, Ops
<1>13. AskedOnce'
  <2>1. Asks' = Asks /\ \A k \in Nodes : SegmentsTo(k)' = SegmentsTo(k)
    BY <1>0 DEF Asks, SegmentsTo
  <2>2. \A m \in Asks : m.from # n /\ m.from \in Nodes
    BY <1>2, TypeParts, MessageFields DEF Orderly, AskedOnce, Asks
  <2>. QED
    BY <1>10, <2>1, <2>2 DEF Orderly, AskedOnce
<1>14. OneAnswer'
  <2>1. \A k \in Nodes : SegmentsTo(k)' = SegmentsTo(k)
    BY <1>0 DEF SegmentsTo
  <2>2. ASSUME NEW k \in Nodes, SegmentsTo(k)' # {} \/ downloads'[k] # <<>>
        PROVE  main'[k] = Fetching /\ \E U \in Nat : Arriving(downloads'[k], SegmentsTo(k)', U)
    <3>1. k # n
      BY <1>4, <1>10, <2>1, <2>2
    <3>2. downloads'[k] = downloads[k] /\ main'[k] = main[k]
      BY <1>10, <3>1
    <3>. QED
      BY <2>1, <2>2, <3>2 DEF Orderly, OneAnswer
  <2>. QED
    BY <2>2 DEF OneAnswer
<1>15. StoredHere'
  <2>1. ASSUME NEW k \in Nodes
        PROVE  /\ uploaded'[k] # {} => main'[k].op \notin {"off", "join", "fetch"}
               /\ main'[k].op = "link" /\ main'[k].own # {} => succ'[k] = k
    BY <1>0, <1>9, <1>10, <1>12 DEF Orderly, StoredHere
  <2>. QED
    BY <2>1 DEF StoredHere
<1>16. Distinct'
  <2>1. ASSUME NEW k \in Nodes
        PROVE  /\ IsInjective(files'[k])
               /\ main'[k].op = "link" => IsInjective(main'[k].todo)
               /\ listener'[k].op = "delete" /\ listener'[k].read => listener'[k].seen = files'[k]
    BY <1>0, <1>10, <1>11 DEF Orderly, Distinct
  <2>. QED
    BY <2>1 DEF Distinct
<1>17. main[n].op = "fetch"
  BY <1>0, Ops
<1>18. ASSUME NEW f \in Files
       PROVE  OnePlace(f)'
  <2>1. ListsWith(f)' = ListsWith(f) /\ Flying(f)' = Flying(f)
    BY <1>0 DEF ListsWith, Flying, Leaving
  <2>2. ASSUME NEW k \in Nodes
        PROVE  succ'[k] = k /\ (f \in uploaded'[k] \/ (main'[k].op = "link" /\ f \in main'[k].own))
               <=> succ[k] = k /\ (f \in uploaded[k] \/ (main[k].op = "link" /\ f \in main[k].own))
    <3>1. CASE k # n
      BY <1>0, <1>10, <3>1
    <3>2. CASE k = n
      BY <1>0, <1>9, <1>10, <1>17, <3>2
    <3>. QED
      BY <3>1, <3>2
  <2>3. Homed(f)' <=> Homed(f)
    BY <2>2 DEF Homed
  <2>4. \A k \in Nodes : k # n => QueuedAt(k, f)' = QueuedAt(k, f)
    BY <1>10 DEF QueuedAt
  <2>5. QueuedAt(n, f)' = {}
    BY <1>10 DEF QueuedAt
  <2>6. QueuedAt(n, f) = {i \in 1 .. T : q[i].entry = f}
    <3>1. \A i \in DOMAIN q : i \in 1 .. T \/ i = e
      BY <1>2, <1>4
    <3>2. q[e].type # "FILE_DATA"
      BY <1>1
    <3>. QED
      BY <1>5, <3>1, <3>2 DEF QueuedAt
  <2>7. CASE QueuedAt(n, f) = {}
    <3>1. f \notin {q[i].entry : i \in 1 .. T}
      BY <2>6, <2>7
    <3>2. LinksWith(f)' = LinksWith(f)
      BY <1>10, <1>11, <1>17, <3>1 DEF LinksWith
    <3>3. \A k \in Nodes : QueuedAt(k, f)' = QueuedAt(k, f)
      BY <2>4, <2>5, <2>7
    <3>4. Places(f)' = Places(f)
      BY <2>1, <3>2, <3>3, SamePlaces
    <3>. QED
      BY <2>3, <3>4, StaysInOnePlace DEF Orderly
  <2>8. CASE QueuedAt(n, f) # {}
    <3>1. PICK i : i \in QueuedAt(n, f)
      BY <2>8
    <3>2. OnePlace(f)
      BY DEF Orderly
    <3>3. /\ ListsWith(f) = {} /\ LinksWith(f) = {} /\ Flying(f) = {}
          /\ \A k \in Nodes : \A j \in QueuedAt(k, f) : k = n /\ j = i
      BY <3>1, <3>2, OnlyQueued
    <3>4. \A k \in Nodes : QueuedAt(k, f)' = {}
      BY <2>4, <2>5, <3>3
    <3>5. i \in 1 .. T /\ q[i].entry = f
      BY <2>6, <3>1
    <3>6. x.op = "link" /\ f \in Range(x.todo)
      BY <1>9, <1>11, <3>5
    <3>7. \A k \in Nodes : k \in LinksWith(f)' <=> k = n
      <4>1. \A k \in Nodes : k # n => main'[k] = main[k] /\ k \notin LinksWith(f)
        BY <1>10, <3>3
      <4>2. main'[n] = x
        BY <1>10
      <4>. QED
        BY <3>6, <4>1, <4>2 DEF LinksWith
    <3>8. LinksWith(f)' = {n}
      <4>1. LinksWith(f)' \subseteq Nodes
        BY DEF LinksWith
      <4>. QED
        BY <3>7, <4>1
    <3>9. Homed(f)'
      <4>1. Places(f) # {}
        BY <3>1, PlacesOf
      <4>. QED
        BY <2>3, <3>2, <4>1 DEF OnePlace
    <3>. QED
      BY <2>1, <3>3, <3>4, <3>8, <3>9, MovedToOnePlace
  <2>. QED
    BY <2>7, <2>8
<1>. QED
  BY <1>13, <1>14, <1>15, <1>16, <1>18 DEF Orderly

-----------------------------------------------------------------------------
\* Joins and replies carry no entries.
LEMMA TalkStep ==
  ASSUME TypeOK, Orderly, NEW m \in net, m.type \in {"JOIN", "REPLY"},
         UNCHANGED <<main, listener, succ, files, uploaded, downloads>>,
         \A o \in net' \cup net : o.type \notin {"JOIN", "REPLY"} => (o \in net' <=> o \in net)
  PROVE  Orderly'
<1>1. Asks' = Asks /\ (\A k \in Nodes : SegmentsTo(k)' = SegmentsTo(k)) /\ \A f \in Files : Flying(f)' = Flying(f)
  BY SameTraffic
<1>2. AskedOnce' /\ OneAnswer'
  BY <1>1, TypeParts, FetchesKept DEF Orderly
<1>3. StoredHere' /\ Distinct'
  BY DEF Orderly, StoredHere, Distinct
<1>4. ASSUME NEW f \in Files
      PROVE  OnePlace(f)'
  <2>1. ListsWith(f)' = ListsWith(f) /\ LinksWith(f)' = LinksWith(f) /\ \A k \in Nodes : QueuedAt(k, f)' = QueuedAt(k, f)
    BY DEF ListsWith, LinksWith, QueuedAt, Leaving
  <2>2. Homed(f)' <=> Homed(f)
    BY DEF Homed
  <2>3. Places(f)' = Places(f)
    BY <1>1, <2>1, SamePlaces
  <2>. QED
    BY <2>2, <2>3, StaysInOnePlace DEF Orderly
<1>. QED
  BY <1>2, <1>3, <1>4 DEF Orderly

\* A segment goes from the network to the queue, behind those before it.
LEMMA FileDataStep ==
  ASSUME TypeOK, NoJunk, Orderly, NEW m \in net, Segment(m), ~Late(m),
         downloads' = [downloads EXCEPT ![m.to] = Append(@, m)], net' = net \ {m},
         UNCHANGED <<main, listener, succ, files, uploaded>>
  PROVE  Orderly'
<1> PICK n : n = m.to
  OBVIOUS
<1> PICK q : q = downloads[n]
  OBVIOUS
<1>1. m \in Messages /\ n \in Nodes /\ m \in SegmentMessages
  BY TypeParts, MessageFields DEF SegmentMessages
<1>2. q \in Seq(SegmentMessages)
  BY <1>1, TypeParts
<1>3. \A k \in Nodes : downloads'[k] = IF k = n THEN Append(q, m) ELSE downloads[k]
  BY TypeParts
<1>4. m \in SegmentsTo(n) /\ SegmentsTo(n) \subseteq SegmentMessages
  BY TypeParts DEF SegmentsTo, SegmentMessages
<1>5. SegmentsTo(n)' = SegmentsTo(n) \ {m} /\ \A k \in Nodes : k # n => SegmentsTo(k)' = SegmentsTo(k)
  BY DEF SegmentsTo
<1>6. main[n] = Fetching
  BY <1>1, <1>4 DEF Orderly, OneAnswer
<1>7. PICK T \in Nat : Arriving(q, SegmentsTo(n), T)
  BY <1>1, <1>4 DEF Orderly, OneAnswer
<1>8. m.seg = Len(q) + 1 /\ Arriving(Append(q, m), SegmentsTo(n) \ {m}, T)
  <2>1. \A o \in SegmentsTo(n) : ~(o.seg < m.seg)
    BY DEF Late, SegmentsTo
  <2>. QED
    BY <1>2, <1>4, <1>7, <2>1, NextArrives
<1>9. AskedOnce'
  <2>1. Asks' = Asks
    BY DEF Asks, Segment
  <2>2. \A o \in Asks : o.from # n /\ o.from \in Nodes
    BY <1>4, TypeParts, MessageFields DEF Orderly, AskedOnce, Asks
  <2>. QED
    BY <1>3, <1>5, <2>1, <2>2 DEF Orderly, AskedOnce
<1>10. OneAnswer'
  <2>1. ASSUME NEW k \in Nodes, SegmentsTo(k)' # {} \/ downloads'[k] # <<>>
        PROVE  main'[k] = Fetching /\ \E U \in Nat : Arriving(downloads'[k], SegmentsTo(k)', U)
    <3>1. CASE k = n
      BY <1>3, <1>5, <1>6, <1>8, <3>1
    <3>2. CASE k # n
      <4>1. downloads'[k] = downloads[k] /\ SegmentsTo(k)' = SegmentsTo(k)
        BY <1>3, <1>5, <3>2
      <4>. QED
        BY <2>1, <4>1 DEF Orderly, OneAnswer
    <3>. QED
      BY <3>1, <3>2
  <2>. QED
    BY <2>1 DEF OneAnswer
<1>11. StoredHere' /\ Distinct'
  BY DEF Orderly, StoredHere, Distinct
<1>12. /\ DOMAIN Append(q, m) = 1 .. Len(q) + 1 /\ DOMAIN q = 1 .. Len(q) /\ Len(q) \in Nat
       /\ Append(q, m)[Len(q) + 1] = m /\ \A i \in 1 .. Len(q) : Append(q, m)[i] = q[i]
  BY <1>2
<1>13. ASSUME NEW f \in Files
       PROVE  OnePlace(f)'
  <2>1. ListsWith(f)' = ListsWith(f) /\ LinksWith(f)' = LinksWith(f)
    BY DEF ListsWith, LinksWith, Leaving
  <2>2. Homed(f)' <=> Homed(f)
    BY DEF Homed
  <2>3. \A k \in Nodes : k # n => QueuedAt(k, f)' = QueuedAt(k, f)
    BY <1>3 DEF QueuedAt
  <2>4. QueuedAt(n, f)' = QueuedAt(n, f) \cup
          (IF m.type = "FILE_DATA" /\ m.entry = f THEN {Len(q) + 1} ELSE {})
    <3>1. downloads'[n] = Append(q, m)
      BY <1>1, <1>3
    <3>2. \A i \in 1 .. Len(q) + 1 : i \in 1 .. Len(q) \/ i = Len(q) + 1
      BY <1>12
    <3>3. \A i : i \in QueuedAt(n, f)' <=>
                   i \in 1 .. Len(q) + 1 /\ Append(q, m)[i].type = "FILE_DATA" /\ Append(q, m)[i].entry = f
      BY <1>12, <3>1 DEF QueuedAt
    <3>4. \A i : i \in QueuedAt(n, f) <=> i \in 1 .. Len(q) /\ q[i].type = "FILE_DATA" /\ q[i].entry = f
      BY <1>12 DEF QueuedAt
    <3>5. Len(q) + 1 \in 1 .. Len(q) + 1 /\ Len(q) + 1 \notin 1 .. Len(q)
          /\ \A i \in 1 .. Len(q) : i \in 1 .. Len(q) + 1
      BY <1>12
    <3>. QED
      BY <1>12, <3>2, <3>3, <3>4, <3>5
  <2>5. CASE ~(m.type = "FILE_DATA" /\ m.entry = f)
    <3>1. Flying(f)' = Flying(f)
      BY <2>5 DEF Flying
    <3>2. \A k \in Nodes : QueuedAt(k, f)' = QueuedAt(k, f)
      BY <2>3, <2>4, <2>5
    <3>3. Places(f)' = Places(f)
      BY <2>1, <3>1, <3>2, SamePlaces
    <3>. QED
      BY <2>2, <3>3, StaysInOnePlace DEF Orderly
  <2>6. CASE m.type = "FILE_DATA" /\ m.entry = f
    <3>1. m \in Flying(f)
      BY <2>6 DEF Flying
    <3>2. OnePlace(f)
      BY DEF Orderly
    <3>3. /\ ListsWith(f) = {} /\ LinksWith(f) = {}
          /\ \A o \in Flying(f) : o.to = m.to /\ o.seg = m.seg
          /\ \A k \in Nodes : QueuedAt(k, f) = {}
      BY <3>1, <3>2, OnlyFlying
    <3>4. \A o \in Flying(f) : o = m
      <4>1. \A o \in Flying(f) : o \in SegmentsTo(n)
        BY <3>3 DEF Flying, SegmentsTo, Segment
      <4>. QED
        BY <1>4, <1>7, <3>3, <4>1 DEF Arriving
    <3>5. Flying(f)' = {}
      BY <3>4 DEF Flying
    <3>6. \A k \in Nodes : QueuedAt(k, f)' = IF k = n THEN {Len(q) + 1} ELSE {}
      BY <2>3, <2>4, <2>6, <3>3
    <3>7. Homed(f)'
      <4>1. Places(f) # {}
        BY <3>1, PlacesOf
      <4>. QED
        BY <2>2, <3>2, <4>1 DEF OnePlace
    <3>. QED
      BY <1>1, <2>1, <3>3, <3>5, <3>6, <3>7, MovedToOnePlace
  <2>. QED
    BY <2>5, <2>6
<1>. QED
  BY <1>9, <1>10, <1>11, <1>13 DEF Orderly

\* What is handed over leaves the list for the network; it is deleted later, but
\* by this node and nobody else.
LEMMA GetFilesStep ==
  ASSUME TypeOK, NoJunk, Orderly, NEW m \in net, m.type = "GET_FILES", listener[m.to] = Free,
         HandleGetFiles(m.to, m, net \ {m}, {}), UNCHANGED <<succ, uploaded>>
  PROVE  Orderly'
<1> PICK n : n = m.to
  OBVIOUS
<1> PICK s : s = files[n]
  OBVIOUS
<1>1. n \in Nodes /\ m.from \in Nodes
  BY TypeParts, MessageFields
<1>2. s \in Seq(Entries) /\ Junk \notin Range(s) /\ IsInjective(s)
  BY <1>1, TypeParts DEF NoJunk, CleanLists, Orderly, Distinct
<1> DEFINE going == Going(s, m.from, n, FALSE)
           es    == Kept(s, going)
           busy  == [op |-> "delete", new |-> m.from, junk |-> FALSE, read |-> FALSE, seen |-> <<>>]
<1>3. /\ net' = (net \ {m}) \cup Segments(m.from, es)
      /\ listener' = [listener EXCEPT ![n] = busy]
      /\ UNCHANGED <<main, files, downloads>>
  BY <1>2 DEF HandleGetFiles
<1>4. es \in Seq(Entries) /\ Range(es) = going /\ IsInjective(es)
  <2>1. Range(s) \cap going = going
    BY DEF Going
  <2>. HIDE DEF going
  <2>2. /\ es \in Seq(Entries) /\ Range(es) = Range(s) \cap going
        /\ IsInjective(s) => IsInjective(es)
    BY <1>2, KeptEntries
  <2>. QED
    BY <1>2, <2>1, <2>2
<1>5. \A k \in Nodes : listener'[k] = IF k = n THEN busy ELSE listener[k]
  <2>. HIDE DEF busy
  <2>. QED
    BY <1>3, TypeParts
<1>6. \A f \in Files : f \in going <=> f \in Range(s) /\ ShouldTransfer(f, m.from, n)
  BY ChordRingAssumption DEF Going, Given
<1>7. \A f \in Files : Leaving(n, f)' <=> ShouldTransfer(f, m.from, n)
  <2>1. listener'[n] = busy
    BY <1>1, <1>5
  <2>. QED
    BY <2>1, ChordRingAssumption DEF Leaving, Given
<1>8. \A f : ~Leaving(n, f)
  BY Ops DEF Leaving
<1>. HIDE DEF going, es, busy
<1> PICK to : to = m.from
  OBVIOUS
<1> PICK sent : sent = Segments(to, es)
  OBVIOUS
<1>9. /\ m \in Asks /\ main[to] = Fetching /\ SegmentsTo(to) = {} /\ downloads[to] = <<>>
      /\ \A o \in Asks : o.from = to => o = m
  BY DEF Orderly, AskedOnce, Asks
<1>10. \A o \in sent : Segment(o) /\ o.to = to
  BY DEF Segments, Data, End, Segment
<1>11. /\ Asks' = Asks \ {m}
       /\ SegmentsTo(to)' = sent
       /\ \A k \in Nodes : k # to => SegmentsTo(k)' = SegmentsTo(k)
  <2>1. Asks' = Asks \ {m}
    BY <1>3, <1>10 DEF Asks, Segment
  <2>2. ASSUME NEW k \in Nodes
        PROVE  SegmentsTo(k)' = SegmentsTo(k) \cup {o \in sent : k = to}
    BY <1>3, <1>10 DEF SegmentsTo, Segment
  <2>. QED
    BY <1>1, <1>9, <2>1, <2>2
<1>12. AskedOnce'
  <2>1. \A o \in Asks : o # m => o.from # to /\ o.from \in Nodes
    BY <1>9, TypeParts, MessageFields DEF Asks
  <2>. QED
    BY <1>3, <1>11, <2>1 DEF Orderly, AskedOnce
<1>13. OneAnswer'
  <2>1. ASSUME NEW k \in Nodes, SegmentsTo(k)' # {} \/ downloads'[k] # <<>>
        PROVE  main'[k] = Fetching /\ \E U \in Nat : Arriving(downloads'[k], SegmentsTo(k)', U)
    <3>1. CASE k = to
      <4>1. Len(es) \in Nat /\ Arriving(<<>>, sent, Len(es))
        BY <1>4, AnswerSent
      <4>2. downloads'[k] = <<>> /\ main'[k] = Fetching /\ SegmentsTo(k)' = sent
        BY <1>3, <1>9, <1>11, <3>1
      <4>. QED
        BY <4>1, <4>2
    <3>2. CASE k # to
      <4>1. downloads'[k] = downloads[k] /\ SegmentsTo(k)' = SegmentsTo(k)
        BY <1>3, <1>11, <3>2
      <4>. QED
        BY <1>3, <2>1, <4>1 DEF Orderly, OneAnswer
    <3>. QED
      BY <3>1, <3>2
  <2>. QED
    BY <2>1 DEF OneAnswer
<1>14. StoredHere'
  BY <1>3 DEF Orderly, StoredHere
<1>15. Distinct'
  BY <1>3, <1>5 DEF Orderly, Distinct, busy
<1>16. ASSUME NEW f \in Files
       PROVE  OnePlace(f)'
  <2>1. LinksWith(f)' = LinksWith(f) /\ \A k \in Nodes : QueuedAt(k, f)' = QueuedAt(k, f)
    BY <1>3 DEF LinksWith, QueuedAt
  <2>2. Homed(f)' <=> Homed(f)
    BY <1>3 DEF Homed
  <2>3. \A k \in Nodes : k # n => (k \in ListsWith(f)' <=> k \in ListsWith(f))
    BY <1>3, <1>5 DEF ListsWith, Leaving
  <2>4. Flying(f)' = Flying(f) \cup {o \in sent : o.type = "FILE_DATA" /\ o.entry = f}
    BY <1>3 DEF Flying
  <2>5. ASSUME NEW o \in sent, o.type = "FILE_DATA"
        PROVE  \E i \in 1 .. Len(es) : o = [type |-> "FILE_DATA", to |-> to, seg |-> i,
                                            total |-> Len(es), entry |-> es[i]]
    BY <2>5 DEF Segments, Data, End
  <2>6. CASE f \notin going
    <3>1. Flying(f)' = Flying(f)
      <4>1. \A i \in 1 .. Len(es) : es[i] \in going
        BY <1>4 DEF Range
      <4>2. \A o \in sent : ~(o.type = "FILE_DATA" /\ o.entry = f)
        BY <2>5, <2>6, <4>1
      <4>. QED
        BY <2>4, <4>2
    <3>2. n \in ListsWith(f)' <=> n \in ListsWith(f)
      BY <1>3, <1>6, <1>7, <1>8, <2>6 DEF ListsWith
    <3>3. ListsWith(f)' = ListsWith(f)
      <4>1. ListsWith(f)' \subseteq Nodes /\ ListsWith(f) \subseteq Nodes
        BY DEF ListsWith
      <4>. QED
        BY <2>3, <3>2, <4>1
    <3>4. Places(f)' = Places(f)
      BY <2>1, <3>1, <3>3, SamePlaces
    <3>. QED
      BY <2>2, <3>4, StaysInOnePlace DEF Orderly
  <2>7. CASE f \in going
    <3>1. n \in ListsWith(f)
      BY <1>1, <1>6, <1>8, <2>7 DEF ListsWith
    <3>2. OnePlace(f)
      BY DEF Orderly
    <3>3. /\ ListsWith(f) = {n} /\ LinksWith(f) = {} /\ Flying(f) = {}
          /\ \A k \in Nodes : QueuedAt(k, f) = {}
      BY <3>1, <3>2, OnlyList
    <3>4. ListsWith(f)' = {}
      <4>1. n \notin ListsWith(f)'
        BY <1>6, <1>7, <2>7 DEF ListsWith
      <4>2. ListsWith(f)' \subseteq Nodes
        BY DEF ListsWith
      <4>. QED
        BY <2>3, <3>3, <4>1, <4>2
    <3>5. PICK i \in 1 .. Len(es) : es[i] = f
      BY <1>4, <2>7 DEF Range
    <3> DEFINE o == [type |-> "FILE_DATA", to |-> to, seg |-> i, total |-> Len(es), entry |-> es[i]]
    <3>6. o \in sent
      BY DEF Segments, Data
    <3>7. \A j \in 1 .. Len(es) : es[j] = f => j = i
      BY <1>4, <3>5 DEF IsInjective
    <3>8. Flying(f)' = {o}
      <4>1. ASSUME NEW p \in sent, p.type = "FILE_DATA", p.entry = f
            PROVE  p = o
        <5>1. PICK j \in 1 .. Len(es) : p = [type |-> "FILE_DATA", to |-> to, seg |-> j,
                                             total |-> Len(es), entry |-> es[j]]
          BY <2>5, <4>1
        <5>. QED
          BY <3>7, <4>1, <5>1
      <4>. QED
        BY <2>4, <3>3, <3>5, <3>6, <4>1
    <3>9. Homed(f)'
      <4>1. Places(f) # {}
        BY <3>1, PlacesOf
      <4>. QED
        BY <2>2, <3>2, <4>1 DEF OnePlace
    <3> PICK p : p = o
      OBVIOUS
    <3>. HIDE DEF o
    <3>10. /\ ListsWith(f)' = {} /\ LinksWith(f)' = {} /\ Flying(f)' = {p}
           /\ \A k \in Nodes : QueuedAt(k, f)' = {}
      BY <2>1, <3>3, <3>4, <3>8
    <3>. QED
      BY <3>9, <3>10, MovedToOnePlace
  <2>. QED
    BY <2>6, <2>7
<1>. QED
  BY <1>12, <1>13, <1>14, <1>15, <1>16 DEF Orderly

LEMMA ReceiveStep ==
  ASSUME TypeOK, NoJunk, Orderly, NEW m \in net, Receive(m)
  PROVE  Orderly'
<1>1. Handle(m, net \ {m}, {}) /\ ~Late(m)
  BY DEF Receive
<1>2. listener[m.to] = Free /\ UNCHANGED <<succ, uploaded>>
  BY <1>1 DEF Handle
<1>3. CASE m.type = "JOIN" /\ HandleJoin(m.to, m, net \ {m}, {}, succ[m.to])
  BY <1>2, <1>3, TalkStep DEF HandleJoin
<1>4. CASE m.type = "GET_FILES" /\ HandleGetFiles(m.to, m, net \ {m}, {})
  BY <1>2, <1>4, GetFilesStep
<1>5. CASE m.type = "REPLY" /\ HandleReply(m.to, m, net \ {m}, {})
  BY <1>2, <1>5, TalkStep DEF HandleReply
<1>6. CASE Segment(m) /\ HandleFileData(m.to, m, net \ {m}, {})
  BY <1>1, <1>2, <1>6, FileDataStep DEF HandleFileData
<1>. QED
  BY <1>1, <1>3, <1>4, <1>5, <1>6 DEF Handle

LEMMA OrderlyStep ==
  ASSUME TypeOK, Unharmed => NoJunk, Clean => Orderly, [Next]_vars, Clean'
  PROVE  Orderly'
<1>1. ASSUME odd \subseteq odd'
      PROVE  NoJunk /\ Orderly
  BY <1>1 DEF Clean, Unharmed
<1>2. CASE UNCHANGED vars
  <2>1. Orderly /\ UNCHANGED <<main, listener, succ, files, uploaded, downloads, net>>
    BY <1>1, <1>2 DEF vars
  <2>2. AskedOnce' /\ OneAnswer' /\ StoredHere' /\ Distinct'
    BY <2>1 DEF Orderly, AskedOnce, OneAnswer, StoredHere, Distinct, Asks, SegmentsTo
  <2>3. ASSUME NEW f \in Files
        PROVE  OnePlace(f)'
    <3>1. Places(f)' = Places(f)
      BY <2>1 DEF Places, Leaving
    <3>2. Homed(f)' <=> Homed(f)
      BY <2>1 DEF Homed
    <3>. QED
      BY <2>1, <3>1, <3>2, StaysInOnePlace DEF Orderly
  <2>. QED
    BY <2>2, <2>3 DEF Orderly
<1>3. ASSUME NEW n \in Nodes, Create(n) \/ Find(n) \/ \E contact \in Contacts[n] : Join(n, contact)
      PROVE  Orderly'
  <2>1. UNCHANGED odd
    BY <1>3 DEF Create, Find, FindAt, Join
  <2>. QED
    BY <1>1, <1>3, <2>1, NotEntriesStep
<1>4. ASSUME NEW n \in Nodes, JoinReply(n)
      PROVE  Orderly'
  <2>1. UNCHANGED odd
    BY <1>4 DEF JoinReply
  <2>. QED
    BY <1>1, <1>4, <2>1, JoinReplyStep
<1>5. ASSUME NEW n \in Nodes, FetchEnd(n)
      PROVE  Orderly'
  <2>1. UNCHANGED odd
    BY <1>5 DEF FetchEnd
  <2>. QED
    BY <1>1, <1>5, <2>1, FetchEndStep
<1>6. ASSUME NEW n \in Nodes, LinkRead(n)
      PROVE  Orderly'
  <2>1. odd \subseteq odd'
    BY <1>6 DEF LinkRead
  <2>. QED
    BY <1>1, <1>6, <2>1, LinkReadStep
<1>7. ASSUME NEW n \in Nodes, LinkWrite(n)
      PROVE  Orderly'
  <2>1. odd \subseteq odd'
    BY <1>7 DEF LinkWrite
  <2>. QED
    BY <1>1, <1>7, <2>1, LinkWriteStep
<1>8. ASSUME NEW n \in Nodes, NEW f \in Files, Store(n, f)
      PROVE  Orderly'
  <2>1. UNCHANGED odd
    BY <1>8 DEF Store, StoreAt
  <2>. QED
    BY <1>1, <1>8, <2>1, StoreHereStep, StoreElsewhereStep
<1>9. ASSUME NEW n \in Nodes, DeleteRead(n)
      PROVE  Orderly'
  <2>1. UNCHANGED odd
    BY <1>9 DEF DeleteRead
  <2>. QED
    BY <1>1, <1>9, <2>1, DeleteReadStep
<1>10. ASSUME NEW n \in Nodes, DeleteWrite(n)
       PROVE  Orderly'
  <2>1. UNCHANGED odd
    BY <1>10 DEF DeleteWrite
  <2>. QED
    BY <1>1, <1>10, <2>1, DeleteWriteStep
<1>11. ASSUME NEW n \in Nodes, Exit(n)
       PROVE  FALSE
  BY <1>11 DEF Exit, Clean
<1>12. ASSUME NEW m \in net, Deliver(m)
       PROVE  Orderly'
  <2>1. ~Lose(m)
    BY DEF Lose, Clean
  <2>2. ASSUME NEW why \in {{"late"}, {"twice"}}, NEW rest, Handle(m, rest, why)
        PROVE  FALSE
    <3>1. odd \cup why \subseteq odd'
      BY <2>2 DEF Handle, HandleJoin, HandleGetFiles, HandleReply, HandleFileData
    <3>. QED
      BY <3>1 DEF Clean
  <2>3. Receive(m)
    BY <1>12, <2>1, <2>2 DEF Deliver, Overtake, Duplicate
  <2>4. odd \subseteq odd'
    BY <2>3 DEF Receive, Handle, HandleJoin, HandleGetFiles, HandleReply, HandleFileData
  <2>. QED
    BY <1>1, <2>3, <2>4, ReceiveStep
<1>. QED
  BY <1>2, <1>3, <1>4, <1>5, <1>6, <1>7, <1>8, <1>9, <1>10, <1>11, <1>12 DEF Next, Work, Delete

\* The invariant of the nodes.
RingInv == TypeOK /\ (Unharmed => NoJunk) /\ (Clean => Orderly)

LEMMA RingInvInit ==
  ASSUME Init
  PROVE  RingInv
BY TypeInit, NoJunkInit, OrderlyInit DEF RingInv

LEMMA RingInvStep ==
  ASSUME RingInv, [Next]_vars
  PROVE  RingInv'
<1>1. TypeOK'
  BY TypeStep DEF RingInv
<1>2. ASSUME Unharmed'
      PROVE  NoJunk'
  BY <1>2, NoJunkStep DEF RingInv
<1>3. ASSUME Clean'
      PROVE  Orderly'
  BY <1>3, OrderlyStep DEF RingInv
<1>. QED
  BY <1>1, <1>2, <1>3 DEF RingInv

\* The hand-over of GET_FILES, serialize_file_entries, deserialize_file_entries
\* and delete_transferred_files neither loses nor doubles an entry: as long as
\* the network delivers every message once and in order, nobody exits and no
\* store runs into a hand-over, an entry that its node kept is in exactly one
\* place, for any number of nodes that join in any order.
THEOREM RingAccountsEntries == Spec => []EntriesAccounted
<1>1. Init => RingInv
  BY RingInvInit
<1>2. RingInv /\ [Next]_vars => RingInv'
  BY RingInvStep
<1>3. RingInv => EntriesAccounted
  BY OrderlyGivesAccount DEF RingInv
<1>. QED
  BY <1>1, <1>2, <1>3, PTL DEF Spec

-----------------------------------------------------------------------------
(***************************************************************************)
(* The rest of the code: ChordMaintenance beyond ChordRing.                *)
(***************************************************************************)
\* Nodes are where create_node left them: no predecessor, every finger the node
\* itself, no round of the node thread beyond its first question, nothing under
\* way but such questions, and nobody waiting for another node's answer.
Untouched ==
  /\ pred = [n \in Nodes |-> None]
  /\ finger = [n \in Nodes |-> [i \in Fingers |-> n]]
  /\ DOMAIN thr = Nodes
  /\ \A n \in Nodes : thr[n].at \in {"off", "stabilize", "await"}
  /\ \A m \in mail : m.type = "STABILIZE"

\* A node whose fingers are itself answers every lookup without asking.
LEMMA LookupsAreLocal ==
  ASSUME finger = [n \in Nodes |-> [i \in Fingers |-> n]],
         NEW n \in Nodes, NEW id
  PROVE  Local(n, id)
<1>1. Preceding(n, id) = {}
  BY ChordRingAssumption, NotBeforeItself DEF Preceding
<1>. QED
  BY <1>1 DEF Local, ClosestPreceding

\* The threads of ChordRing are in the middle of its own steps only.
Threads ==
  /\ DOMAIN main = Nodes /\ DOMAIN listener = Nodes
  /\ \A n \in Nodes : main[n].op # "lookup"
  /\ \A n \in Nodes : listener[n].op # "wait"

LEMMA OpsOfTheMainThread ==
  /\ \A x \in {Off, Joining, Fetching, Ready, Finding, Gone} : x.op # "lookup"
  /\ \A todo, own : Linking(todo, own).op # "lookup"
  /\ Free.op # "wait"
BY DEF Off, Joining, Fetching, Ready, Finding, Gone, Linking, Free

LEMMA TurnsKeepThreads ==
  ASSUME Threads, NEW n \in Nodes, NEW x, x.op # "lookup", Turn(n, x), UNCHANGED listener
  PROVE  Threads'
BY DEF Turn, Threads

LEMMA HandlersKeepThreads ==
  ASSUME Threads, NEW m, NEW rest, NEW why, Handle(m, rest, why)
  PROVE  Threads'
<1>1. m.to \in Nodes
  BY DEF Handle, Running
<1>2. ASSUME HandleGetFiles(m.to, m, rest, why)
      PROVE  Threads'
  BY <1>1, <1>2 DEF HandleGetFiles, Threads
<1>. QED
  BY <1>2 DEF Handle, HandleJoin, HandleReply, HandleFileData, Threads

LEMMA ThreadsStep ==
  ASSUME Threads, [Next]_vars
  PROVE  Threads'
<1>1. CASE UNCHANGED vars
  BY <1>1 DEF vars, Threads
<1>2. ASSUME NEW n \in Nodes, Create(n) \/ \E contact \in Contacts[n] : Join(n, contact)
      PROVE  Threads'
  BY <1>2, OpsOfTheMainThread DEF Create, Join, Turn, Threads
<1>3. ASSUME NEW n \in Nodes, Work(n)
      PROVE  Threads'
  <2>1. CASE JoinReply(n)
    BY <2>1, OpsOfTheMainThread DEF JoinReply, Turn, Threads
  <2>2. CASE FetchEnd(n)
    <3>1. PICK e \in DOMAIN downloads[n] :
             \/ Turn(n, Ready)
             \/ \E last \in {downloads[n][i] : i \in 1 .. e - 1} :
                  \E got \in [1 .. last.total -> Files \cup {Junk}] : Turn(n, Linking(got, {}))
      BY <2>2 DEF FetchEnd
    <3>2. UNCHANGED listener
      BY <2>2 DEF FetchEnd
    <3>. QED
      BY <3>1, <3>2, OpsOfTheMainThread, TurnsKeepThreads
  <2>3. CASE LinkRead(n)
    BY <2>3 DEF LinkRead, Threads
  <2>4. CASE LinkWrite(n)
    BY <2>4, OpsOfTheMainThread DEF LinkWrite, Turn, Threads
  <2>. QED
    BY <1>3, <2>1, <2>2, <2>3, <2>4 DEF Work
<1>4. ASSUME NEW n \in Nodes, (\E f \in Files : Store(n, f)) \/ Find(n)
      PROVE  Threads'
  <2>1. CASE Find(n)
    BY <2>1, OpsOfTheMainThread, TurnsKeepThreads DEF Find, FindAt
  <2>2. ASSUME NEW f \in Files, Store(n, f)
        PROVE  Threads'
    <3>1. UNCHANGED listener /\ (Turn(n, Ready) \/ Turn(n, Linking(<<f>>, {f})))
      BY <2>2 DEF Store, StoreAt
    <3>. QED
      BY <3>1, OpsOfTheMainThread, TurnsKeepThreads
  <2>. QED
    BY <1>4, <2>1, <2>2
<1>5. ASSUME NEW n \in Nodes, Delete(n)
      PROVE  Threads'
  <2>1. CASE DeleteRead(n)
    BY <2>1 DEF DeleteRead, Threads
  <2>2. CASE DeleteWrite(n)
    BY <2>2, OpsOfTheMainThread DEF DeleteWrite, Threads
  <2>. QED
    BY <1>5, <2>1, <2>2 DEF Delete
<1>6. ASSUME NEW n \in Nodes, Exit(n)
      PROVE  Threads'
  BY <1>6, OpsOfTheMainThread DEF Exit, Turn, Threads
<1>7. ASSUME NEW m \in net, Deliver(m)
      PROVE  Threads'
  <2>1. CASE Lose(m)
    BY <2>1 DEF Lose, Threads
  <2>. QED
    BY <1>7, <2>1, HandlersKeepThreads DEF Deliver, Receive, Overtake, Duplicate
<1>. QED
  BY <1>1, <1>2, <1>3, <1>4, <1>5, <1>6, <1>7 DEF Next

-----------------------------------------------------------------------------
Dormant == Untouched /\ Threads

LEMMA DormantInit ==
  ASSUME MInit
  PROVE  Dormant
BY DEF MInit, Init, Dormant, Untouched, Threads, Off, Free

\* The steps of the rest of the code that are possible at all.
LEMMA NobodyAsks ==
  ASSUME Dormant, NEW n \in Nodes, NEW t, NEW id
  PROVE  ~Ask(n, t, id)
BY LookupsAreLocal DEF Ask, Dormant, Untouched

LEMMA NobodyIsTold ==
  ASSUME Dormant, NEW n, NEW t, NEW r
  PROVE  ~Told(n, t, r)
BY DEF Told, Answer, Mail, Dormant, Untouched

LEMMA NodeThreadOnlyAsks ==
  ASSUME Dormant, NEW n \in Nodes, NodeThread(n)
  PROVE  Untouched' /\ UNCHANGED vars
<1>1. CASE StartThread(n)
  BY <1>1 DEF StartThread, At, Dormant, Untouched
<1>2. CASE StabilizeAsk(n)
  BY <1>2 DEF StabilizeAsk, At, Mail, Dormant, Untouched
<1>3. ~StabilizeEnd(n)
  BY NobodyIsTold DEF StabilizeEnd
<1>4. ~FixFingers(n) /\ ~FixEnd(n)
  BY DEF FixFingers, FixEnd, Dormant, Untouched
<1>. QED
  BY <1>1, <1>2, <1>3, <1>4 DEF NodeThread

LEMMA HandlersOnlyDrop ==
  ASSUME Dormant, NEW m \in mail, Handlers(m)
  PROVE  Untouched' /\ UNCHANGED vars
<1>1. HandleStabilize(m)
  BY DEF Handlers, HandleNotify, HandleFindSuccessor, Listening, Dormant, Untouched
<1>2. m.to \in Nodes
  BY <1>1 DEF HandleStabilize, Listening, Running
<1>. QED
  BY <1>1, <1>2 DEF HandleStabilize, Dormant, Untouched

\* Every step of the whole code is one of ChordRing, or none, and leaves the
\* maintenance where it was.
LEMMA DormantStep ==
  ASSUME Dormant, [MNext]_allvars
  PROVE  Untouched' /\ [Next]_vars
<1>1. CASE UNCHANGED allvars
  BY <1>1 DEF allvars, mvars, Dormant, Untouched
<1>2. ASSUME NEW n \in Nodes, Foreground(n), UNCHANGED mvars
      PROVE  Untouched' /\ Next
  BY <1>2 DEF Foreground, mvars, Dormant, Untouched, Next
<1>3. ASSUME NEW n \in Nodes, Exit(n), At(n, "off"), UNCHANGED <<pred, finger, mail>>
      PROVE  Untouched' /\ Next
  BY <1>3 DEF At, Dormant, Untouched, Next
<1>4. ASSUME NEW n \in Nodes
      PROVE  ~LookupEnd(n) /\ \A f \in Files \cup {None} : ~LookupAsk(n, f)
  BY NobodyAsks DEF LookupEnd, LookupAsk, Dormant, Threads
<1>5. ASSUME NEW m \in net, Deliver(m), UNCHANGED mvars
      PROVE  Untouched' /\ Next
  BY <1>5 DEF mvars, Dormant, Untouched, Next
<1>6. ASSUME NEW m \in net
      PROVE  ~HandleJoinRemote(m)
  BY NobodyAsks DEF HandleJoinRemote, Listening, Running
<1>. QED
  BY <1>1, <1>2, <1>3, <1>4, <1>5, <1>6, NodeThreadOnlyAsks, HandlersOnlyDrop DEF MNext

\* The maintenance of the ring never gets beyond its first question: on no
\* schedule, with any number of nodes and fingers, does a node learn of a
\* predecessor, fix a finger, ask for a successor or complete a round.
THEOREM MaintenanceIsDormant == MSpec => []Dormant
<1>1. Dormant /\ [MNext]_allvars => Dormant'
  BY DormantStep, ThreadsStep DEF Dormant
<1>. QED
  BY <1>1, DormantInit, PTL DEF MSpec

\* So the whole code implements ChordRing: what is checked and proved of the
\* small module holds of the nodes with all their threads and handlers.
THEOREM WholeImplementsChordRing == MSpec => Spec
<1>1. Dormant /\ [MNext]_allvars => [Next]_vars
  BY DormantStep
<1>2. MInit => Init
  BY DEF MInit
<1>. QED
  BY <1>1, <1>2, MaintenanceIsDormant, PTL DEF MSpec, Spec

-----------------------------------------------------------------------------
\* The star.  A node that is its own successor for good: it has created a ring,
\* or left one.
Root(r) == r \in Nodes /\ succ[r] = r /\ main[r] \notin {Off, Joining}

\* The inductive invariant: answers to a JOIN, under way or in the queue, name
\* such nodes, and so do the successors of those that have joined.
StarInv ==
  /\ DOMAIN main = Nodes /\ DOMAIN replies = Nodes
  /\ succ \in [Nodes -> Nodes]
  /\ \A n \in Nodes : main[n] \in {Off, Joining} => succ[n] = n
  /\ \A n \in Nodes : replies[n] \subseteq Nodes
  /\ \A m \in net : m.type = "REPLY" => m.node \in Nodes
  /\ "early" \notin odd =>
       /\ \A n \in Nodes : main[n] \notin {Off, Joining} => Root(succ[n])
       /\ \A n \in Nodes : \A r \in replies[n] : Root(r)
       /\ \A m \in net : m.type = "REPLY" => Root(m.node)

\* What a step that has nothing to do with an answer to a JOIN leaves alone.
NoAnswer ==
  /\ UNCHANGED succ /\ odd \subseteq odd'
  /\ DOMAIN main' = Nodes /\ DOMAIN replies' = Nodes
  /\ \A n \in Nodes : main'[n] \in {Off, Joining} => main[n] \in {Off, Joining}
  /\ \A n \in Nodes : replies'[n] \subseteq replies[n]
  /\ \A m \in net' : m.type = "REPLY" => m \in net

LEMMA StarInit ==
  ASSUME Init
  PROVE  StarInv
BY DEF Init, StarInv, Root, Off, Joining

LEMMA StarWithoutAnswer ==
  ASSUME StarInv, NoAnswer
  PROVE  StarInv'
<1>1. \A r : Root(r) => Root(r)'
  BY DEF Root, StarInv, NoAnswer
<1>2. \A n \in Nodes : replies'[n] \subseteq Nodes
  BY DEF StarInv, NoAnswer
<1>3. ASSUME "early" \notin odd'
      PROVE  \A n \in Nodes : main'[n] \notin {Off, Joining} => Root(succ[n])'
  <2>1. TAKE n \in Nodes
  <2>2. CASE main[n] \in {Off, Joining}
    BY <2>2 DEF StarInv, NoAnswer, Root
  <2>3. CASE main[n] \notin {Off, Joining}
    BY <1>1, <1>3, <2>3 DEF StarInv, NoAnswer
  <2>. QED
    BY <2>2, <2>3
<1>4. ASSUME "early" \notin odd'
      PROVE  /\ \A n \in Nodes : \A r \in replies'[n] : Root(r)'
             /\ \A m \in net' : m.type = "REPLY" => Root(m.node)'
  BY <1>1, <1>4 DEF StarInv, NoAnswer
<1>. QED
  BY <1>2, <1>3, <1>4 DEF StarInv, NoAnswer

LEMMA StarAnswerTaken ==
  ASSUME StarInv, NEW n \in Nodes, JoinReply(n)
  PROVE  StarInv'
<1>1. PICK r \in replies[n] :
        /\ main[n] = Joining
        /\ main' = [main EXCEPT ![n] = Fetching]
        /\ succ' = [succ EXCEPT ![n] = r]
        /\ replies' = [replies EXCEPT ![n] = @ \ {r}]
        /\ net' = net \cup {[type |-> "GET_FILES", from |-> n, to |-> r]}
        /\ odd' = odd
  BY DEF JoinReply, Turn
<1>2. \A k : Root(k) => k # n /\ Root(k)'
  BY <1>1 DEF Root, StarInv
<1>3. /\ DOMAIN main' = Nodes /\ DOMAIN replies' = Nodes
      /\ succ' \in [Nodes -> Nodes]
      /\ \A k \in Nodes : main'[k] \in {Off, Joining} => succ'[k] = k
      /\ \A k \in Nodes : replies'[k] \subseteq Nodes
      /\ \A m \in net' : m.type = "REPLY" => m.node \in Nodes
  BY <1>1 DEF StarInv, Fetching, Off, Joining
<1>4. ASSUME "early" \notin odd
      PROVE  /\ \A k \in Nodes : main'[k] \notin {Off, Joining} => Root(succ[k])'
             /\ \A k \in Nodes : \A x \in replies'[k] : Root(x)'
             /\ \A m \in net' : m.type = "REPLY" => Root(m.node)'
  <2>1. Root(r)'
    BY <1>1, <1>2, <1>4 DEF StarInv
  <2>. QED
    BY <1>1, <1>2, <1>4, <2>1 DEF StarInv
<1>. QED
  BY <1>1, <1>3, <1>4 DEF StarInv

\* What GET_FILES sends is segments, whatever the entries.
LEMMA GetFilesSendsSegments ==
  ASSUME NEW n, NEW m, NEW rest, NEW why, HandleGetFiles(n, m, rest, why)
  PROVE  /\ UNCHANGED <<main, replies>> /\ odd \subseteq odd'
         /\ \A o \in net' : o.type = "REPLY" => o \in rest
<1>1. PICK es : net' = rest \cup Segments(m.from, es)
  BY DEF HandleGetFiles
<1>2. \A o \in Segments(m.from, es) : o.type # "REPLY"
  BY DEF Segments, Data, End
<1>3. UNCHANGED <<main, replies>> /\ odd \subseteq odd'
  BY DEF HandleGetFiles
<1>. QED
  BY <1>1, <1>2, <1>3

LEMMA StarHandler ==
  ASSUME StarInv, NEW m \in net, NEW rest, NEW why, Handle(m, rest, why), rest \subseteq net
  PROVE  StarInv'
<1>1. m.to \in Nodes /\ main[m.to] # Off /\ UNCHANGED <<main, succ>>
  <2>1. m.to \in Nodes /\ main[m.to] # Off /\ UNCHANGED succ
    BY DEF Handle, Running, Off
  <2>2. UNCHANGED main
    BY GetFilesSendsSegments DEF Handle, HandleJoin, HandleReply, HandleFileData
  <2>. QED
    BY <2>1, <2>2
<1>2. \A r : Root(r) <=> Root(r)'
  BY <1>1 DEF Root
<1>3. CASE m.type = "JOIN" /\ HandleJoin(m.to, m, rest, why, succ[m.to])
  <2>1. /\ net' = rest \cup {[type |-> "REPLY", to |-> m.from, node |-> succ[m.to]]}
        /\ UNCHANGED replies /\ odd \subseteq odd'
        /\ main[m.to] = Joining => "early" \in odd'
    BY <1>3 DEF HandleJoin
  <2>2. "early" \notin odd' => Root(succ[m.to])
    BY <1>1, <2>1 DEF StarInv
  <2>. QED
    BY <1>1, <1>2, <2>1, <2>2 DEF StarInv
<1>4. CASE HandleGetFiles(m.to, m, rest, why)
  <2>1. NoAnswer
    BY <1>1, <1>4, GetFilesSendsSegments DEF NoAnswer, StarInv
  <2>. QED
    BY <2>1, StarWithoutAnswer
<1>5. CASE m.type = "REPLY" /\ HandleReply(m.to, m, rest, why)
  BY <1>1, <1>2, <1>5 DEF HandleReply, StarInv
<1>6. CASE HandleFileData(m.to, m, rest, why)
  <2>1. NoAnswer
    BY <1>1, <1>6 DEF HandleFileData, NoAnswer, StarInv
  <2>. QED
    BY <2>1, StarWithoutAnswer
<1>. QED
  BY <1>3, <1>4, <1>5, <1>6 DEF Handle

LEMMA StarStep ==
  ASSUME StarInv, [Next]_vars
  PROVE  StarInv'
<1>1. CASE UNCHANGED vars
  BY <1>1 DEF vars, StarInv, Root
<1>2. ASSUME NEW n \in Nodes, Create(n) \/ \E contact \in Contacts[n] : Join(n, contact)
      PROVE  NoAnswer
  BY <1>2 DEF Create, Join, Turn, NoAnswer, StarInv
<1>3. ASSUME NEW n \in Nodes, FetchEnd(n)
      PROVE  NoAnswer
  <2>1. PICK e \in DOMAIN downloads[n] :
           \/ Turn(n, Ready)
           \/ \E last \in {downloads[n][i] : i \in 1 .. e - 1} :
                \E got \in [1 .. last.total -> Files \cup {Junk}] : Turn(n, Linking(got, {}))
    BY <1>3 DEF FetchEnd
  <2>2. main[n] = Fetching /\ UNCHANGED <<succ, odd, replies, net>>
    BY <1>3 DEF FetchEnd
  <2>. QED
    BY <2>1, <2>2 DEF Turn, NoAnswer, StarInv, Fetching, Ready, Linking, Off, Joining
<1>4. ASSUME NEW n \in Nodes, LinkRead(n) \/ LinkWrite(n)
      PROVE  NoAnswer
  <2>1. CASE LinkRead(n)
    BY <2>1 DEF LinkRead, NoAnswer, StarInv, Off, Joining
  <2>2. CASE LinkWrite(n)
    BY <2>2 DEF LinkWrite, Turn, Linking, Ready, NoAnswer, StarInv, Off, Joining
  <2>. QED
    BY <1>4, <2>1, <2>2
<1>5. ASSUME NEW n \in Nodes, (\E f \in Files : Store(n, f)) \/ Find(n)
      PROVE  NoAnswer
  <2>1. CASE Find(n)
    BY <2>1 DEF Find, FindAt, Prompt, Turn, Finding, Ready, NoAnswer, StarInv, Off, Joining
  <2>2. ASSUME NEW f \in Files, Store(n, f)
        PROVE  NoAnswer
    <3>1. /\ Turn(n, Ready) \/ Turn(n, Linking(<<f>>, {f}))
          /\ main[n] = Ready /\ UNCHANGED <<succ, odd, replies, net>>
      BY <2>2 DEF Store, StoreAt, Prompt
    <3>. QED
      BY <3>1 DEF Turn, Linking, Ready, NoAnswer, StarInv, Off, Joining
  <2>. QED
    BY <1>5, <2>1, <2>2
<1>6. ASSUME NEW n \in Nodes, Delete(n)
      PROVE  NoAnswer
  BY <1>6 DEF Delete, DeleteRead, DeleteWrite, NoAnswer, StarInv
<1>7. ASSUME NEW n \in Nodes, Exit(n)
      PROVE  NoAnswer
  BY <1>7 DEF Exit, Turn, Gone, NoAnswer, StarInv, Off, Joining
<1>8. ASSUME NEW m \in net, Deliver(m)
      PROVE  StarInv'
  <2>1. CASE Lose(m)
    <3>1. NoAnswer
      BY <2>1 DEF Lose, NoAnswer, StarInv
    <3>. QED
      BY <3>1, StarWithoutAnswer
  <2>2. net \ {m} \subseteq net
    OBVIOUS
  <2>. QED
    BY <1>8, <2>1, <2>2, StarHandler DEF Deliver, Receive, Overtake, Duplicate
<1>. QED
  BY <1>1, <1>2, <1>3, <1>4, <1>5, <1>6, <1>7, <1>8, StarWithoutAnswer, StarAnswerTaken
  DEF Next, Work

\* However many nodes join, in whatever order, messages lost, late or doubled
\* and nodes gone: as long as no node answers a JOIN before its own is answered,
\* every successor is a node that is its own, and no ring of two forms.
THEOREM NodesFormAStar == Spec => []StarUnlessEarly
<1>1. StarInv => StarUnlessEarly
  BY DEF StarInv, StarUnlessEarly, Root, Off, Joining
<1>. QED
  BY <1>1, StarInit, StarStep, PTL DEF Spec

\* The same of the nodes with their maintenance.
THEOREM WholeFormsAStar == MSpec => []StarUnlessEarly
BY WholeImplementsChordRing, NodesFormAStar, PTL

\* And of their entries: the node thread, its lookups and its fixing of fingers
\* put no entry out of place.
THEOREM WholeAccountsEntries == MSpec => [](TypeOK /\ JunkHasCause /\ EntriesAccounted)
BY WholeImplementsChordRing, RingTypeOK, RingJunkHasCause, RingAccountsEntries, PTL
=============================================================================
