----------------------------- MODULE ChordRing -----------------------------
(***************************************************************************)
(* Chord nodes as they run: main and join_ring (src/src/main.cpp,          *)
(* src/src/stabilization.cpp), the listener thread's handle_requests       *)
(* (src/src/node.cpp), the console (src/src/threads.cpp) and the lists of  *)
(* file entries (src/src/file_entry.cpp, src/src/utils.cpp).               *)
(*                                                                         *)
(* Only what can happen is here.  A node's fingers are the node itself and *)
(* its predecessor is null as long as the node thread has not finished a   *)
(* round, so find_successor gives the node's own successor without asking  *)
(* anyone; module ChordMaintenance has the rest of the code and            *)
(* ChordProofs proves that it never runs.                                  *)
(*                                                                         *)
(* Abstractions.  A node and a file are their identifiers.  A request id   *)
(* is what was asked for: a node joins once.  One segment carries one      *)
(* entry.  HEARTBEAT, STORE_FILE and FIND_FILE have no handler and are not *)
(* put on the network.  The loop of join_ring over download_queue touches  *)
(* only its own buffer and is one step.                                    *)
(***************************************************************************)
EXTENDS IdRing, Sequences, SequencesExt, FiniteSets

CONSTANTS
  Nodes,      \* identifiers of the nodes
  Files,      \* identifiers of the files
  Contacts,   \* node -> the nodes it may be told to join; none: it creates a ring
  Junk,       \* an entry read from memory that holds none
  MaxCommands,\* bound on commands whose effect is there to see
  MaxFaults   \* bound on messages lost, late or delivered twice, and on exits

ASSUME ChordRingAssumption ==
  /\ Nodes \subseteq Nat /\ Files \subseteq Nat
  /\ Contacts \in [Nodes -> SUBSET Nodes] /\ Junk \notin Files
  /\ MaxCommands \in Nat /\ MaxFaults \in Nat

VARIABLES
  main,       \* what the main thread is in the middle of
  listener,   \* what the listener thread is in the middle of
  succ,       \* n->successor
  files,      \* n->files, the head first
  uploaded,   \* n->uploaded_files
  replies,    \* reply_queue
  downloads,  \* download_queue
  net,        \* messages under way
  faults,
  odd         \* history: what happened out of the ordinary

vars == <<main, listener, succ, files, uploaded, replies, downloads, net, faults, odd>>

Off == [op |-> "off"]    Joining == [op |-> "join"]    Fetching == [op |-> "fetch"]
Ready == [op |-> "ready"]    Finding == [op |-> "find"]    Gone == [op |-> "gone"]
Linking(todo, own) == [op |-> "link", todo |-> todo, own |-> own, read |-> FALSE, head |-> {}]
Free == [op |-> "free"]

\* create_node without a value for the successor.
InitNoSuccessor ==
  /\ main = [n \in Nodes |-> Off]
  /\ listener = [n \in Nodes |-> Free]
  /\ succ = [n \in Nodes |-> Junk]
  /\ files = [n \in Nodes |-> <<>>]
  /\ uploaded = [n \in Nodes |-> {}]
  /\ replies = [n \in Nodes |-> {}]
  /\ downloads = [n \in Nodes |-> <<>>]
  /\ net = {}
  /\ faults = 0 /\ odd = {}

Init ==
  /\ main = [n \in Nodes |-> Off]
  /\ listener = [n \in Nodes |-> Free]
  /\ succ = [n \in Nodes |-> n]
  /\ files = [n \in Nodes |-> <<>>]
  /\ uploaded = [n \in Nodes |-> {}]
  /\ replies = [n \in Nodes |-> {}]
  /\ downloads = [n \in Nodes |-> <<>>]
  /\ net = {}
  /\ faults = 0 /\ odd = {}

Running == {n \in Nodes : main[n].op \notin {"off", "gone"}}

Turn(n, what) == main' = [main EXCEPT ![n] = what]

Fault == faults < MaxFaults /\ faults' = faults + 1

(***************************************************************************)
(* Starting: create_ring and join_ring                                     *)
(***************************************************************************)
Create(n) ==
  /\ main[n] = Off /\ Contacts[n] = {}
  /\ Turn(n, Ready)
  /\ UNCHANGED <<listener, succ, files, uploaded, replies, downloads, net, faults, odd>>

\* The listener is already running when JOIN is sent.
Join(n, contact) ==
  /\ main[n] = Off
  /\ Turn(n, Joining)
  /\ net' = net \cup {[type |-> "JOIN", from |-> n, to |-> contact]}
  /\ UNCHANGED <<listener, succ, files, uploaded, replies, downloads, faults, odd>>

JoinReply(n) ==
  /\ main[n] = Joining
  /\ \E r \in replies[n] :
       /\ succ' = [succ EXCEPT ![n] = r]
       /\ replies' = [replies EXCEPT ![n] = @ \ {r}]
       /\ net' = net \cup {[type |-> "GET_FILES", from |-> n, to |-> r]}
  /\ Turn(n, Fetching)
  /\ UNCHANGED <<listener, files, uploaded, downloads, faults, odd>>

\* The answers up to the first FILE_END: entries only if the last segment is
\* among them, whatever the memory held where a segment is missing.  A
\* FILE_END without segments carries fields that were never set.
FetchEnd(n) ==
  /\ main[n] = Fetching
  /\ \E e \in DOMAIN downloads[n] :
       LET q    == downloads[n]
           data == {q[i] : i \in 1 .. e - 1}
           Told(i) == {d.entry : d \in {x \in data : x.seg = i}}
       IN /\ q[e].type = "FILE_END" /\ \A i \in 1 .. e - 1 : q[i].type # "FILE_END"
          /\ downloads' = [downloads EXCEPT ![n] = SubSeq(@, e + 1, Len(@))]
          /\ \/ \E last \in data :
                  /\ last.seg = last.total
                  /\ \E got \in [1 .. last.total -> Files \cup {Junk}] :
                       /\ \A i \in 1 .. last.total :
                            got[i] \in IF Told(i) = {} THEN {Junk} ELSE Told(i)
                       /\ Turn(n, Linking(got, {}))
             \/ /\ q[e].total = 0 \/ \A d \in data : d.seg # d.total
                /\ Turn(n, Ready)
  /\ UNCHANGED <<listener, succ, files, uploaded, replies, net, faults, odd>>

(***************************************************************************)
(* A new head for n->files, by deserialize_file_entries after a join and   *)
(* by internal_store_file: the head is read, then replaced.                *)
(***************************************************************************)
HeadOf(list) == {list[i] : i \in DOMAIN list \cap {1}}

LinkRead(n) ==
  /\ main[n].op = "link" /\ ~main[n].read
  /\ main' = [main EXCEPT ![n].read = TRUE, ![n].head = HeadOf(files[n])]
  /\ odd' = odd \cup {w \in {"raced"} : listener[n] # Free}
  /\ UNCHANGED <<listener, succ, files, uploaded, replies, downloads, net, faults>>

\* Is the head that was read freed by now?
Freed(n) == ~(main[n].head \subseteq Range(files[n]))

\* The memory of a freed entry may still lead to those that are left.  After
\* the last one the main thread is at the prompt; confirm_file_stored has put
\* what was stored here on n->uploaded_files.
LinkWrite(n) ==
  /\ main[n].op = "link" /\ main[n].read
  /\ LET f == Head(main[n].todo)
     IN \/ ~Freed(n) /\ files' = [files EXCEPT ![n] = <<f>> \o @]
        \/ Freed(n) /\ \E rest \in {<<>>, files[n]} :
             files' = [files EXCEPT ![n] = <<f, Junk>> \o rest]
  /\ \/ Len(main[n].todo) > 1 /\ Turn(n, Linking(Tail(main[n].todo), main[n].own))
        /\ UNCHANGED uploaded
     \/ Len(main[n].todo) = 1 /\ Turn(n, Ready)
        /\ uploaded' = [uploaded EXCEPT ![n] = @ \cup main[n].own]
  /\ odd' = odd \cup {w \in {"raced"} : listener[n] # Free}
  /\ UNCHANGED <<listener, succ, replies, downloads, net, faults>>

(***************************************************************************)
(* The console                                                             *)
(***************************************************************************)
\* A restriction of what users do, not of the code: a name is stored once, by one
\* node.  (internal_store_file would link a second entry of the name.)
New(f) == \A n \in Nodes : f \notin uploaded[n] /\ (main[n].op = "link" => f \notin main[n].own)

Prompt(n) ==
  /\ main[n] = Ready
  /\ Cardinality({f \in Files : ~New(f)}) + Cardinality({k \in Nodes : main[k] = Finding})
       < MaxCommands

\* store at the node r that find_successor gave: n itself, or one that gets a
\* STORE_FILE it does not know.  The console reports success either way.
StoreAt(n, f, r) ==
  /\ \/ r = n /\ Turn(n, Linking(<<f>>, {f})) /\ UNCHANGED uploaded
     \/ r # n /\ Turn(n, Ready) /\ uploaded' = [uploaded EXCEPT ![n] = @ \cup {f}]
  /\ UNCHANGED <<listener, succ, files, replies, downloads, net, faults, odd>>

\* find at another node: it does not know FIND_FILE and the console waits for
\* its reply.  A find at n itself only reads.
FindAt(n, r) ==
  /\ r # n
  /\ Turn(n, Finding)
  /\ UNCHANGED <<listener, succ, files, uploaded, replies, downloads, net, faults, odd>>

Store(n, f) == Prompt(n) /\ New(f) /\ StoreAt(n, f, succ[n])

Find(n) == Prompt(n) /\ FindAt(n, succ[n])

\* exit, or ctrl-c at any moment: the lists are freed, nobody is told.  That the
\* node is started again, at its address or another, is not modelled.
Exit(n) ==
  /\ n \in Running /\ Fault
  /\ Turn(n, Gone)
  /\ listener' = [listener EXCEPT ![n] = Free]
  /\ files' = [files EXCEPT ![n] = <<>>]
  /\ replies' = [replies EXCEPT ![n] = {}]
  /\ downloads' = [downloads EXCEPT ![n] = <<>>]
  /\ odd' = odd \cup {"exit"}
  /\ UNCHANGED <<succ, uploaded, net>>

(***************************************************************************)
(* The listener thread: handle_requests                                    *)
(***************************************************************************)
\* A node that names itself whatever find_successor gave.
HandleJoinSelf(n, m, rest, why, r) ==
  /\ net' = rest \cup {[type |-> "REPLY", to |-> m.from, node |-> n]}
  /\ odd' = odd \cup why \cup {w \in {"early"} : main[n] = Joining}
  /\ UNCHANGED <<main, listener, files, replies, downloads>>

\* find_successor's answer r to a JOIN.
HandleJoin(n, m, rest, why, r) ==
  /\ net' = rest \cup {[type |-> "REPLY", to |-> m.from, node |-> r]}
  /\ odd' = odd \cup why \cup {w \in {"early"} : main[n] = Joining}
  /\ UNCHANGED <<main, listener, files, replies, downloads>>

\* The entries handed over; the bytes of one that is none decide by chance.
Given(f, new, n, junk) == IF f = Junk THEN junk ELSE ShouldTransfer(f, new, n)

\* A message per segment and FILE_END, numbered so that it comes behind them.
\* The slips: a loop that starts at the second segment, and nothing at all for
\* no entries.
Data(to, es, first) ==
  {[type |-> "FILE_DATA", to |-> to, seg |-> i, total |-> Len(es), entry |-> es[i]] :
     i \in first .. Len(es)}
End(to, es) == [type |-> "FILE_END", to |-> to, seg |-> Len(es) + 1, total |-> Len(es)]

SegmentsFromSecond(to, es) == Data(to, es, 2) \cup {End(to, es)}

SegmentsOrNothing(to, es) == IF es = <<>> THEN {} ELSE Data(to, es, 1) \cup {End(to, es)}

Segments(to, es) == Data(to, es, 1) \cup {End(to, es)}

\* What the loops over n->files leave of a list: the entries of S, in their order.
Kept(list, S) ==
  LET kept[i \in 0 .. Len(list)] ==
        IF i = 0 THEN <<>>
        ELSE IF list[i] \in S THEN Append(kept[i - 1], list[i])
        ELSE kept[i - 1]
  IN kept[Len(list)]

Going(list, new, n, junk) == {f \in Range(list) : Given(f, new, n, junk)}

\* GET_FILES: serialize_file_entries, the segments, and what is to be deleted.
HandleGetFiles(n, m, rest, why) ==
  \E junk \in IF Junk \in Range(files[n]) THEN BOOLEAN ELSE {FALSE} :
    /\ net' = rest \cup
         Segments(m.from, Kept(files[n], Going(files[n], m.from, n, junk)))
    /\ listener' = [listener EXCEPT ![n] =
         [op |-> "delete", new |-> m.from, junk |-> junk, read |-> FALSE, seen |-> <<>>]]
    /\ odd' = odd \cup why \cup {w \in {"raced"} : main[n].op = "link" /\ main[n].read}
    /\ UNCHANGED <<main, files, replies, downloads>>

\* delete_transferred_files: the head is read ...
DeleteRead(n) ==
  /\ listener[n].op = "delete" /\ ~listener[n].read
  /\ listener' = [listener EXCEPT ![n].read = TRUE, ![n].seen = files[n]]
  /\ UNCHANGED <<main, succ, files, uploaded, replies, downloads, net, faults, odd>>

\* The slip of deleting every entry.
DeleteWriteAll(n) ==
  /\ listener[n].op = "delete" /\ listener[n].read
  /\ files' = [files EXCEPT ![n] = <<>>]
  /\ listener' = [listener EXCEPT ![n] = Free]
  /\ UNCHANGED <<main, succ, uploaded, replies, downloads, net, faults, odd>>

\* ... and where it goes the list begins behind it, whatever was put in front
\* in the meantime.
DeleteWrite(n) ==
  /\ listener[n].op = "delete" /\ listener[n].read
  /\ LET seen  == listener[n].seen
         gone  == Going(seen, listener[n].new, n, listener[n].junk)
         front == SubSeq(files[n], 1, Len(files[n]) - Len(seen))
     IN files' = [files EXCEPT ![n] =
          (IF seen # <<>> /\ Head(seen) \in gone THEN <<>> ELSE front)
            \o Kept(seen, Range(seen) \ gone)]
  /\ listener' = [listener EXCEPT ![n] = Free]
  /\ UNCHANGED <<main, succ, uploaded, replies, downloads, net, faults, odd>>

HandleReply(n, m, rest, why) ==
  /\ replies' = [replies EXCEPT ![n] = @ \cup {m.node}]
  /\ net' = rest /\ odd' = odd \cup why
  /\ UNCHANGED <<main, listener, files, downloads>>

HandleFileData(n, m, rest, why) ==
  /\ downloads' = [downloads EXCEPT ![n] = Append(@, m)]
  /\ net' = rest /\ odd' = odd \cup why
  /\ UNCHANGED <<main, listener, files, replies>>

Segment(m) == m.type \in {"FILE_DATA", "FILE_END"}

\* Would m overtake an earlier segment?
Late(m) == Segment(m) /\ \E o \in net : Segment(o) /\ o.to = m.to /\ o.seg < m.seg

Handle(m, rest, why) ==
  LET n == m.to IN
    /\ n \in Running /\ listener[n] = Free
    /\ \/ m.type = "JOIN" /\ HandleJoin(n, m, rest, why, succ[n])
       \/ m.type = "GET_FILES" /\ HandleGetFiles(n, m, rest, why)
       \/ m.type = "REPLY" /\ HandleReply(n, m, rest, why)
       \/ Segment(m) /\ HandleFileData(n, m, rest, why)
    /\ UNCHANGED <<succ, uploaded>>

(***************************************************************************)
(* The network: UDP                                                        *)
(***************************************************************************)
Receive(m) == ~Late(m) /\ Handle(m, net \ {m}, {}) /\ UNCHANGED faults

Overtake(m) == Late(m) /\ Handle(m, net \ {m}, {"late"}) /\ Fault

Duplicate(m) == ~Late(m) /\ Handle(m, net, {"twice"}) /\ Fault

\* A message to a node that does not run is always lost.
Lose(m) ==
  /\ \/ Fault
     \/ m.to \notin Running /\ UNCHANGED faults
  /\ net' = net \ {m}
  /\ odd' = odd \cup {"lost"}
  /\ UNCHANGED <<main, listener, succ, files, uploaded, replies, downloads>>

Deliver(m) == Receive(m) \/ Overtake(m) \/ Duplicate(m) \/ Lose(m)

Work(n) == JoinReply(n) \/ FetchEnd(n) \/ LinkRead(n) \/ LinkWrite(n)

Delete(n) == DeleteRead(n) \/ DeleteWrite(n)

Next ==
  \/ \E n \in Nodes :
       \/ Create(n)
       \/ \E contact \in Contacts[n] : Join(n, contact)
       \/ Work(n)
       \/ \E f \in Files : Store(n, f)
       \/ Find(n)
       \/ Delete(n)
       \/ Exit(n)
  \/ \E m \in net : Deliver(m)

Spec == Init /\ [][Next]_vars

\* Each thread goes on with what it can do, and a message that is not lost
\* arrives.
Fairness ==
  \A n \in Nodes :
    /\ WF_vars(Work(n))
    /\ WF_vars(Delete(n) \/ \E m \in net : m.to = n /\ Receive(m))
    /\ WF_vars(\E m \in net : m.to = n /\ n \notin Running /\ Lose(m))

FairSpec == Spec /\ Fairness

-----------------------------------------------------------------------------
Entries == Files \cup {Junk}

Messages ==
       [type : {"JOIN", "GET_FILES"}, from : Nodes, to : Nodes]
  \cup [type : {"REPLY"}, to : Nodes, node : Nodes]
  \cup [type : {"FILE_DATA"}, to : Nodes, seg : Nat, total : Nat, entry : Entries]
  \cup [type : {"FILE_END"}, to : Nodes, seg : Nat, total : Nat]

TypeOK ==
  /\ main \in [Nodes -> {Off, Joining, Fetching, Ready, Finding, Gone}
        \cup [op : {"link"}, todo : Seq(Entries), own : SUBSET Files, read : BOOLEAN,
              head : SUBSET Entries]]
  /\ listener \in [Nodes -> {Free} \cup
        [op : {"delete"}, new : Nodes, junk : BOOLEAN, read : BOOLEAN, seen : Seq(Entries)]]
  /\ succ \in [Nodes -> Nodes]
  /\ files \in [Nodes -> Seq(Entries)]
  /\ uploaded \in [Nodes -> SUBSET Files]
  /\ replies \in [Nodes -> SUBSET Nodes]
  /\ downloads \in [Nodes -> Seq({m \in Messages : Segment(m)})]
  /\ net \subseteq Messages
  /\ faults \in 0 .. MaxFaults
  /\ odd \subseteq {"lost", "late", "twice", "exit", "raced", "early"}

\* Entries that handle_requests is about to delete after sending them.
Leaving(n, f) ==
  listener[n].op = "delete" /\ Given(f, listener[n].new, n, listener[n].junk)

Places(f) ==
       {<<"list", n, 0>> : n \in {k \in Nodes : f \in Range(files[k]) /\ ~Leaving(k, f)}}
  \cup {<<"link", n, 0>> : n \in {k \in Nodes : main[k].op = "link" /\ f \in Range(main[k].todo)}}
  \cup {<<"net", m.to, m.seg>> : m \in {o \in net : o.type = "FILE_DATA" /\ o.entry = f}}
  \cup UNION {{<<"queue", n, i>> : i \in {j \in DOMAIN downloads[n] :
                  downloads[n][j].type = "FILE_DATA" /\ downloads[n][j].entry = f}} : n \in Nodes}

\* Whatever nodes join while files are stored, the entry of a file that its node
\* kept is in exactly one place, on a node or on the way to one: the hand-over
\* of GET_FILES neither loses nor doubles an entry, as long as the network
\* delivers every message once and in order, nobody exits, and no store runs
\* into a hand-over.
EntriesAccounted ==
  odd \subseteq {"early"} =>
    \A f \in Files :
      (\E n \in Nodes : f \in uploaded[n] /\ succ[n] = n) => Cardinality(Places(f)) = 1

\* A list holds an entry read from memory that holds none only after a segment
\* was lost or overtaken or a store ran into a hand-over; duplicates do no harm.
JunkHasCause ==
  odd \cap {"lost", "late", "raced"} = {} =>
    \A n \in Nodes : Junk \notin Range(files[n]) /\ (main[n].op = "link" => Junk \notin Range(main[n].todo))

\* Nodes that joined through nodes that had joined have a successor that is its
\* own: they form a star around the creator of the ring.
StarUnlessEarly ==
  "early" \notin odd =>
    \A n \in Nodes : main[n].op \notin {"off", "join", "gone"} => succ[succ[n]] = succ[n]

\* A join ends, with no entry, some or all, unless a message was lost or
\* somebody exited.
JoinCompletes ==
  \A n \in Nodes :
    main[n] = Joining ~> main[n].op \notin {"join", "fetch"} \/ odd \cap {"lost", "exit"} # {}
=============================================================================
