------------------------ MODULE PieceTransferProofs ------------------------
(***************************************************************************)
(* Proofs about downloads, for any number of peers and pieces, any layout  *)
(* of paths on machines and any number of retries, faults and commands:    *)
(* types, that nothing but the exact file spreads from who keeps to it,    *)
(* whom a serving thread ends, and when a download succeeds.               *)
(***************************************************************************)
EXTENDS PieceTransfer, FiniteSetTheorems, WellFoundedInduction, TLAPS

-----------------------------------------------------------------------------
\* A nonempty set of numbers has a least one.
LEMMA LeastNatural ==
  ASSUME NEW S, S \subseteq Nat, S # {}
  PROVE  \E n \in S : \A k \in S : n <= k
<1>1. PICK n \in S : \A k \in S : <<k, n>> \notin OpToRel(<, Nat)
  BY NatLessThanWellFounded, WFMin
<1>2. ASSUME NEW k \in S
      PROVE  n <= k
  <2>1. n \in Nat /\ k \in Nat
    OBVIOUS
  <2>2. ~(k < n)
    BY <1>1, <2>1 DEF OpToRel
  <2>. QED
    BY <2>1, <2>2
<1>. QED
  BY <1>2

LEMMA PlansCount ==
  ASSUME NEW plan \in Plans, NEW k \in Pieces
  PROVE  Cardinality(plan[k]) \in Nat
<1>1. IsFiniteSet(Peers \cup {None})
  BY PieceTransferAssumption, FS_AddElement
<1>. QED
  BY <1>1, FS_Subset, FS_CardinalityType DEF Plans

\* While a piece is left to fetch there is one whose turn it is.
LEMMA RarestIsLeft ==
  ASSUME NEW plan \in Plans, NEW todo \in SUBSET Pieces, todo # {}
  PROVE  Rarest(plan, todo) \in todo
<1>. DEFINE Count(k) == Cardinality(plan[k])
            Few == {Count(k) : k \in todo}
<1>1. \A k \in todo : Count(k) \in Nat
  BY PlansCount
<1>. HIDE DEF Count
<1>. Few \subseteq Nat /\ Few # {}
  BY <1>1
<1>2. PICK least \in Few : \A c \in Few : least <= c
  <2>. HIDE DEF Few
  <2>. QED
    BY LeastNatural
<1>. DEFINE Best == {k \in todo : Count(k) = least}
<1>3. Best \subseteq Nat /\ Best # {}
  BY <1>2 DEF Pieces
<1>4. PICK k \in Best : \A j \in Best : k <= j
  BY <1>3, LeastNatural
<1>5. ASSUME NEW j \in todo
      PROVE  Count(k) < Count(j) \/ (Count(k) = Count(j) /\ k <= j)
  <2>1. Count(k) = least /\ least <= Count(j) /\ Count(j) \in Nat /\ least \in Nat
    <3>1. Count(j) \in Few /\ Count(j) \in Nat
      BY <1>1
    <3>2. Count(k) = least /\ k \in todo
      BY <1>4
    <3>3. least <= Count(j)
      BY <1>2, <3>1
    <3>4. least \in Nat
      BY <1>1, <3>2
    <3>. QED
      BY <3>1, <3>2, <3>3, <3>4
  <2>2. CASE Count(j) = least
    BY <1>4, <2>1, <2>2
  <2>3. CASE Count(j) # least
    BY <2>1, <2>3
  <2>. QED
    BY <2>2, <2>3
<1>6. \E i \in todo : \A j \in todo : Count(i) < Count(j) \/ (Count(i) = Count(j) /\ i <= j)
  BY <1>4, <1>5
<1>. QED
  BY <1>6 DEF Rarest, Count

-----------------------------------------------------------------------------
LEMMA ListedEntries ==
  ASSUME TypeOK, NEW i \in DOMAIN list
  PROVE  list[i] \in Entries
BY DEF TypeOK

LEMMA SourcesArePeers ==
  ASSUME TypeOK
  PROVE  Sources \subseteq Peers
BY ListedEntries DEF Sources, Entries

LEMMA PieceMapIsPlan ==
  ASSUME TypeOK, NEW bogus \in BOOLEAN
  PROVE  PieceMap(bogus) \in Plans
<1>1. ASSUME NEW k \in Pieces
      PROVE  PieceMap(bogus)[k] \in SUBSET (Peers \cup {None})
  <2>1. CASE k + 1 \in Aligned
    BY <2>1, ListedEntries DEF PieceMap, Aligned, Entries
  <2>2. CASE k + 1 \notin Aligned
    BY <2>2 DEF PieceMap
  <2>. QED
    BY <2>1, <2>2
<1>. QED
  BY <1>1 DEF PieceMap, Plans

LEMMA FetchingIsConsole ==
  ASSUME NEW want \in Hashes, NEW plan \in Plans, NEW todo \in SUBSET Pieces
  PROVE  /\ Fetching(want, plan, todo) \in Consoles
         /\ Fetching(want, plan, todo).op \in {"fetch", "verify"}
         /\ Fetching(want, plan, todo).plan = plan
         /\ Fetching(want, plan, todo).want = want
         /\ Fetching(want, plan, todo).op = "fetch" =>
              /\ Fetching(want, plan, todo).todo = todo
              /\ Fetching(want, plan, todo).tries = 0
              /\ Fetching(want, plan, todo).link = "none"
         /\ Fetching(want, plan, todo).op # "fetch" => todo = {}
BY PieceTransferAssumption DEF Fetching, Consoles, Fetches

\* What a fetching console holds.
LEMMA FetchingConsole ==
  ASSUME TypeOK, NEW p \in Peers, console[p].op = "fetch"
  PROVE  /\ console[p] \in Fetches
         /\ console[p].want \in Hashes /\ console[p].plan \in Plans
         /\ console[p].todo \in SUBSET Pieces /\ console[p].todo # {}
         /\ Piece(p) \in console[p].todo /\ Piece(p) \in Pieces
<1>1. console[p] \in Fetches
  BY DEF TypeOK, Consoles, Idle
<1>2. /\ console[p].want \in Hashes /\ console[p].plan \in Plans
      /\ console[p].todo \in SUBSET Pieces /\ console[p].todo # {}
  BY <1>1 DEF Fetches
<1>3. Piece(p) \in console[p].todo
  BY <1>2, RarestIsLeft DEF Piece
<1>. QED
  BY <1>1, <1>2, <1>3

\* A piece taken from the list of those to fetch.
LEMMA NextConsole ==
  ASSUME TypeOK, NEW p \in Peers, console[p].op = "fetch"
  PROVE  /\ NextPiece(p) \in Consoles /\ NextPiece(p).op \in {"fetch", "verify"}
         /\ NextPiece(p).plan = console[p].plan /\ NextPiece(p).want = console[p].want
         /\ NextPiece(p).op = "fetch" =>
              /\ NextPiece(p).todo = console[p].todo \ {Piece(p)}
              /\ NextPiece(p).tries = 0 /\ NextPiece(p).link = "none"
         /\ NextPiece(p).op # "fetch" => console[p].todo = {Piece(p)}
<1>1. /\ console[p].want \in Hashes /\ console[p].plan \in Plans
      /\ console[p].todo \in SUBSET Pieces /\ Piece(p) \in console[p].todo
  BY FetchingConsole
<1>2. PICK todo \in SUBSET Pieces : todo = console[p].todo \ {Piece(p)}
  BY <1>1
<1>3. PICK c : c = Fetching(console[p].want, console[p].plan, todo)
  OBVIOUS
<1>4. /\ c \in Consoles /\ c.op \in {"fetch", "verify"}
      /\ c.plan = console[p].plan /\ c.want = console[p].want
      /\ c.op = "fetch" => c.todo = todo /\ c.tries = 0 /\ c.link = "none"
      /\ c.op # "fetch" => todo = {}
  BY <1>1, <1>3, FetchingIsConsole
<1>5. NextPiece(p) = c
  BY <1>2, <1>3 DEF NextPiece
<1>6. todo = {} => console[p].todo = {Piece(p)}
  BY <1>1, <1>2
<1>. QED
  BY <1>2, <1>4, <1>5, <1>6

\* What becomes of the console when an attempt fails.
LEMMA RetryConsole ==
  ASSUME TypeOK, NEW p \in Peers, console[p].op = "fetch"
  PROVE  \/ Retry(p) = NextPiece(p)
         \/ /\ Retry(p) \in Consoles /\ Retry(p).op = "fetch"
            /\ Retry(p).plan = console[p].plan /\ Retry(p).want = console[p].want
            /\ Retry(p).todo = console[p].todo
            /\ Retry(p).src = console[p].src /\ Retry(p).link = "none"
<1>1. console[p] \in Fetches
  BY FetchingConsole
<1>2. CASE console[p].tries + 1 = MaxRetries
  BY <1>2 DEF Retry
<1>3. CASE console[p].tries + 1 # MaxRetries
  <2>1. console[p].tries + 1 \in 0 .. MaxRetries - 1
    BY <1>1, <1>3, PieceTransferAssumption DEF Fetches
  <2>. DEFINE c == [console[p] EXCEPT !.tries = @ + 1, !.link = "none"]
  <2>2. /\ c \in Fetches /\ c.op = "fetch" /\ c.plan = console[p].plan
        /\ c.todo = console[p].todo /\ c.src = console[p].src /\ c.link = "none"
        /\ c.want = console[p].want
    BY <1>1, <2>1 DEF Fetches
  <2>3. Retry(p) = c
    BY <1>3 DEF Retry
  <2>. QED
    BY <2>2, <2>3 DEF Consoles
<1>. QED
  BY <1>2, <1>3

-----------------------------------------------------------------------------
(***************************************************************************)
(* Types.  That a piece is written into a file takes that a downloading    *)
(* peer has one, and that it is asked of a peer.                           *)
(***************************************************************************)
Busy(p) == console[p].op \in {"fetch", "verify"}

Linked(p) == console[p].op = "fetch" /\ console[p].link # "none"

TypeInv ==
  /\ TypeOK
  /\ \A p \in Peers : Busy(p) => disk[p] # Absent
  /\ \A p \in Peers : Linked(p) => console[p].src \in Peers

LEMMA ExactIsFile == Exact \in Content /\ Holes \in Content /\ \A c \in Content : c # Absent
<1>1. 0 \in Pieces
  BY PieceTransferAssumption DEF Pieces
<1>2. ASSUME NEW c \in Content
      PROVE  c.data # Absent.data
  <2>1. DOMAIN c.data = Pieces
    BY DEF Content
  <2>2. DOMAIN Absent.data = {}
    BY DEF Absent
  <2>. QED
    BY <1>1, <2>1, <2>2
<1>. QED
  BY <1>2 DEF Exact, Holes, Content

LEMMA TurnConsole ==
  ASSUME TypeOK, NEW p \in Peers, NEW c \in Consoles, Turn(p, c)
  PROVE  /\ console' \in [Peers -> Consoles]
         /\ console'[p] = c
         /\ \A q \in Peers \ {p} : console'[q] = console[q]
BY DEF TypeOK, Turn

\* The file at one path changes.
LEMMA WriteDisk ==
  ASSUME TypeOK, NEW p \in Peers, NEW c \in Content \cup {Absent},
         disk' = [disk EXCEPT ![p] = c]
  PROVE  /\ disk' \in [Peers -> Content \cup {Absent}]
         /\ disk'[p] = c
         /\ \A q \in Peers \ {p} : disk'[q] = disk[q]
BY DEF TypeOK

LEMMA WrittenIsFile ==
  ASSUME NEW c \in Content, NEW k \in Pieces, NEW d \in {"right", "wrong"},
         NEW grown \in BOOLEAN
  PROVE  Written(c, k, d, grown) \in Content
BY DEF Content, Written

LEMMA PresizedIsFile ==
  ASSUME NEW c \in Content \cup {Absent}, NEW grown \in BOOLEAN
  PROVE  Presized(c, grown) \in Content
<1>1. Last \in Pieces
  BY PieceTransferAssumption DEF Last, Pieces
<1>. QED
  BY <1>1, ExactIsFile, WrittenIsFile DEF Presized

LEMMA SimpleConsoles ==
  /\ Idle \in Consoles /\ Idle.op = "idle"
  /\ \A k \in Pieces : Seeding(k) \in Consoles /\ Seeding(k).op = "seed"
  /\ \A k \in Pieces : Seeded(k) \in Consoles /\ Seeded(k).op \in {"idle", "seed"}
  /\ 0 \in Pieces
<1>1. 0 \in Pieces /\ \A k \in Pieces : k = Last \/ k + 1 \in Pieces
  BY PieceTransferAssumption DEF Pieces, Last
<1>2. \A k \in Pieces : Seeding(k) \in Consoles /\ Seeding(k).op = "seed"
  BY DEF Seeding, Consoles
<1>3. Idle \in Consoles /\ Idle.op = "idle"
  BY DEF Idle, Consoles
<1>. QED
  BY <1>1, <1>2, <1>3 DEF Seeded

\* The console of a peer that a step is not of: as it was, or without the
\* connection that it had.
Kept(q) ==
  \/ console'[q] = console[q]
  \/ /\ console[q].op = "fetch" /\ console[q].link = "open"
     /\ console'[q] = [console[q] EXCEPT !.link = "lost"]

LEMMA KeptConsole ==
  ASSUME TypeInv, NEW q \in Peers, Kept(q)
  PROVE  /\ console'[q].op = console[q].op
         /\ Busy(q)' <=> Busy(q)
         /\ Linked(q)' <=> Linked(q)
         /\ Busy(q) => /\ console'[q].plan = console[q].plan
                       /\ console'[q].want = console[q].want
         /\ console[q].op = "fetch" =>
              /\ console'[q].todo = console[q].todo /\ console'[q].tries = console[q].tries
              /\ console'[q].src = console[q].src
<1>1. CASE console'[q] = console[q]
  BY <1>1 DEF Busy, Linked
<1>2. CASE /\ console[q].op = "fetch" /\ console[q].link = "open"
           /\ console'[q] = [console[q] EXCEPT !.link = "lost"]
  <2>1. console[q].src \in Peers /\ TypeOK
    BY <1>2 DEF TypeInv, Linked
  <2>2. /\ console[q] \in Fetches
        /\ console[q] = [console[q] EXCEPT !.src = console[q].src]
    BY <1>2, <2>1, FetchingConsole DEF Fetches
  <2>3. /\ console'[q].op = "fetch" /\ console'[q].plan = console[q].plan
        /\ console'[q].want = console[q].want
        /\ console'[q].todo = console[q].todo /\ console'[q].tries = console[q].tries
        /\ console'[q].src = console[q].src /\ console'[q].link = "lost"
    BY <1>2, <2>2 DEF Fetches
  <2>. QED
    BY <1>2, <2>3 DEF Busy, Linked
<1>. QED
  BY <1>1, <1>2 DEF Kept

LEMMA WithoutConsoles ==
  ASSUME TypeInv, NEW s \in Peers
  PROVE  /\ Without(s) \in [Peers -> Consoles]
         /\ Without(s)[s] = Idle
         /\ \A q \in Peers \ {s} :
              \/ Without(s)[q] = console[q]
              \/ /\ console[q].op = "fetch" /\ console[q].link = "open"
                 /\ Without(s)[q] = [console[q] EXCEPT !.link = "lost"]
<1>0. TypeOK
  BY DEF TypeInv
<1>1. ASSUME NEW q \in Peers
      PROVE  /\ Without(s)[q] \in Consoles
             /\ q = s => Without(s)[q] = Idle
             /\ q # s =>
                  \/ Without(s)[q] = console[q]
                  \/ /\ console[q].op = "fetch" /\ console[q].link = "open"
                     /\ Without(s)[q] = [console[q] EXCEPT !.link = "lost"]
  <2>1. CASE q = s
    BY <2>1, SimpleConsoles DEF Without
  <2>2. CASE q # s /\ Connected(q, s)
    <3>1. Without(s)[q] = [console[q] EXCEPT !.link = "lost"]
      BY <2>2 DEF Without
    <3>2. console[q].op = "fetch" /\ console[q].link = "open"
      BY <2>2 DEF Connected
    <3>3. console[q] \in Fetches
      BY <1>0, <3>2, FetchingConsole
    <3>4. [console[q] EXCEPT !.link = "lost"] \in Consoles
      BY <3>3 DEF Fetches, Consoles
    <3>. QED
      BY <2>2, <3>1, <3>2, <3>4
  <2>3. CASE q # s /\ ~Connected(q, s)
    <3>1. Without(s)[q] = console[q]
      BY <2>3 DEF Without
    <3>. QED
      BY <1>0, <2>3, <3>1 DEF TypeOK
  <2>. QED
    BY <2>1, <2>2, <2>3
<1>2. DOMAIN Without(s) = Peers /\ Without(s) = [q \in Peers |-> Without(s)[q]]
  BY DEF Without
<1>3. Without(s) \in [Peers -> Consoles]
  <2>. HIDE DEF Without
  <2>. QED
    BY <1>1, <1>2
<1>. QED
  BY <1>1, <1>3

\* A process ends: its console is gone, and nobody else's task is another.
LEMMA Ended ==
  ASSUME TypeInv, NEW s \in Peers, console' = Without(s)
  PROVE  /\ console' \in [Peers -> Consoles]
         /\ console'[s] = Idle /\ ~Busy(s)' /\ ~Linked(s)' /\ console'[s].op = "idle"
         /\ \A q \in Peers \ {s} : Kept(q)
<1>1. console'[s] = Idle /\ Idle.op = "idle"
  BY WithoutConsoles, SimpleConsoles
<1>. QED
  BY <1>1, WithoutConsoles DEF Kept, Busy, Linked

\* An exit in answer to a request is the end of a process, and a failed attempt.
LEMMA ExitedConsoles ==
  ASSUME TypeInv, NEW p \in Peers, NEW s \in Peers \cup {None}, ServerExits(p, s)
  PROVE  /\ s \in Peers /\ s # p /\ console[p].op = "fetch" /\ Busy(p)
         /\ console' \in [Peers -> Consoles]
         /\ console'[p] = Retry(p) /\ console'[s] = Idle
         /\ \A q \in Peers \ {p, s} : Kept(q)
<1>0. TypeOK
  BY DEF TypeInv
<1>1. console[p].op = "fetch" /\ console[p].link = "open" /\ console[p].src = s
  BY DEF ServerExits, Connected
<1>2. Busy(p) /\ Linked(p)
  BY <1>1 DEF Busy, Linked
<1>3. s \in Peers /\ s # p
  BY <1>1, <1>2 DEF TypeInv, ServerExits
<1>4. Retry(p) \in Consoles
  BY <1>0, <1>1, NextConsole, RetryConsole
<1>. DEFINE w == Without(s)
<1>5. /\ w \in [Peers -> Consoles] /\ w[s] = Idle
      /\ \A q \in Peers \ {s} :
           \/ w[q] = console[q]
           \/ /\ console[q].op = "fetch" /\ console[q].link = "open"
              /\ w[q] = [console[q] EXCEPT !.link = "lost"]
  BY <1>3, WithoutConsoles
<1>6. console' = [w EXCEPT ![p] = Retry(p)]
  BY DEF ServerExits
<1>. HIDE DEF w
<1>7. /\ console' \in [Peers -> Consoles] /\ console'[p] = Retry(p)
      /\ \A q \in Peers \ {p} : console'[q] = w[q]
  BY <1>4, <1>5, <1>6
<1>. QED
  BY <1>1, <1>2, <1>3, <1>5, <1>7 DEF Kept

LEMMA TypeInit == Init => TypeInv
<1>. SUFFICES ASSUME Init PROVE TypeInv
  OBVIOUS
<1>1. disk \in [Peers -> Content \cup {Absent}]
  BY ExactIsFile, PieceTransferAssumption DEF Init
<1>2. console \in [Peers -> Consoles] /\ \A p \in Peers : ~Busy(p) /\ ~Linked(p)
  BY SimpleConsoles DEF Init, Busy, Linked
<1>3. alive \in [Peers -> BOOLEAN] /\ listed \in BOOLEAN /\ details \in Hashes
  BY DEF Init, Hashes
<1>4. list \in Seq(Entries)
  <2>1. <<>> \in Seq(Entries)
    OBVIOUS
  <2>. QED
    BY <2>1 DEF Init
<1>5. faults \in 0 .. MaxFaults /\ commands \in 0 .. MaxCommands
  BY PieceTransferAssumption DEF Init
<1>6. /\ hung_up \subseteq Peers /\ touched \subseteq Peers /\ rewritten \subseteq Peers
      /\ strays \subseteq Peers /\ killed \subseteq Peers /\ broken \in BOOLEAN
  BY DEF Init
<1>. QED
  BY <1>1, <1>2, <1>3, <1>4, <1>5, <1>6 DEF TypeInv, TypeOK

\* What is neither a disk nor a console.
RestOK ==
  /\ alive \in [Peers -> BOOLEAN]
  /\ list \in Seq(Entries)
  /\ listed \in BOOLEAN /\ details \in Hashes
  /\ faults \in 0 .. MaxFaults /\ commands \in 0 .. MaxCommands
  /\ hung_up \subseteq Peers
  /\ touched \subseteq Peers /\ rewritten \subseteq Peers /\ strays \subseteq Peers
  /\ killed \subseteq Peers /\ broken \in BOOLEAN

\* Types after a step of the peers of A.
LEMMA TypeFrame ==
  ASSUME TypeInv, RestOK', NEW A \in SUBSET Peers,
         console' \in [Peers -> Consoles],
         disk' \in [Peers -> Content \cup {Absent}],
         \A q \in Peers \ A : Kept(q) /\ disk'[q] = disk[q],
         \A q \in A : Busy(q)' => disk'[q] # Absent,
         \A q \in A : Linked(q)' => console'[q].src \in Peers
  PROVE  TypeInv'
<1>1. TypeOK'
  BY DEF RestOK, TypeOK
<1>2. ASSUME NEW q \in Peers
      PROVE  (Busy(q)' => disk'[q] # Absent) /\ (Linked(q)' => console'[q].src \in Peers)
  <2>1. CASE q \in A
    BY <2>1
  <2>2. CASE q \notin A
    <3>1. /\ Busy(q)' <=> Busy(q)
          /\ Linked(q)' <=> Linked(q)
          /\ console[q].op = "fetch" => console'[q].src = console[q].src
      BY <2>2, KeptConsole
    <3>2. /\ Busy(q) => disk[q] # Absent
          /\ Linked(q) => console[q].src \in Peers
      BY DEF TypeInv
    <3>. QED
      BY <2>2, <3>1, <3>2 DEF Linked
  <2>. QED
    BY <2>1, <2>2
<1>. QED
  BY <1>1, <1>2 DEF TypeInv

\* Types after a step of p alone.
LEMMA AloneFrame ==
  ASSUME TypeInv, RestOK', NEW p \in Peers,
         console' \in [Peers -> Consoles],
         disk' \in [Peers -> Content \cup {Absent}],
         \A q \in Peers \ {p} : console'[q] = console[q] /\ disk'[q] = disk[q],
         Busy(p)' => disk'[p] # Absent,
         Linked(p)' => console'[p].src \in Peers
  PROVE  TypeInv'
<1>1. \A q \in Peers \ {p} : Kept(q)
  BY DEF Kept
<1>2. PICK A \in SUBSET Peers : A = {p}
  OBVIOUS
<1>3. (\A q \in A : q = p) /\ \A q \in Peers \ A : q \in Peers \ {p}
  BY <1>2
<1>. QED
  BY <1>1, <1>3, TypeFrame

LEMMA SameDisk ==
  ASSUME TypeOK, NEW p \in Peers, UNCHANGED disk
  PROVE  /\ disk[p] \in Content \cup {Absent}
         /\ disk' = [disk EXCEPT ![p] = disk[p]]
BY DEF TypeOK

LEMMA RestStep == TypeInv /\ Next => RestOK'
<1>. SUFFICES ASSUME TypeInv, Next PROVE RestOK'
  OBVIOUS
<1>0. TypeOK
  BY DEF TypeInv
<1>a. ASSUME NEW p \in Peers, Prompt(p)
      PROVE  commands' \in 0 .. MaxCommands
  BY <1>0, <1>a, PieceTransferAssumption DEF Prompt, TypeOK
<1>b. ASSUME NEW p \in Peers, Fault(p)
      PROVE  faults' \in 0 .. MaxFaults
  BY <1>0, <1>b, PieceTransferAssumption DEF Fault, TypeOK
<1>c. ASSUME NEW p \in Peers, End(p)
      PROVE  alive' \in [Peers -> BOOLEAN] /\ hung_up' \subseteq Peers /\ broken' \in BOOLEAN
  BY <1>0, <1>c DEF End, TypeOK
<1>d. ASSUME NEW p \in Peers
      PROVE  touched \cup Interrupted(p) \subseteq Peers
  BY <1>0, <1>d DEF Interrupted, TypeOK
<1>1. ASSUME NEW p \in Peers, Upload(p)
      PROVE  RestOK'
  BY <1>0, <1>1, <1>a DEF Upload, TypeOK, RestOK, Hashes
<1>2. ASSUME NEW p \in Peers, StopShare(p)
      PROVE  RestOK'
  <2>1. [i \in DOMAIN list |-> [list[i] EXCEPT !.sources = @ \ {p}]] \in Seq(Entries)
    <3>1. \A i \in DOMAIN list : [list[i] EXCEPT !.sources = @ \ {p}] \in Entries
      BY <1>0, ListedEntries DEF Entries
    <3>2. Len(list) \in Nat /\ DOMAIN list = 1 .. Len(list)
      BY <1>0 DEF TypeOK
    <3>. QED
      BY <3>1, <3>2
  <2>2. <<>> \in Seq(Entries)
    OBVIOUS
  <2>3. list' \in Seq(Entries) /\ listed' \in BOOLEAN
    BY <1>0, <1>2, <2>1, <2>2 DEF StopShare, TypeOK
  <2>4. commands' \in 0 .. MaxCommands
    BY <1>2, <1>a DEF StopShare
  <2>. QED
    BY <1>0, <1>2, <2>3, <2>4 DEF StopShare, TypeOK, RestOK, history
<1>3. ASSUME NEW p \in Peers, Overwrite(p)
      PROVE  rewritten' \subseteq Peers /\ strays' \subseteq Peers
  BY <1>0, <1>3 DEF Overwrite, TypeOK
<1>4. ASSUME NEW p \in Peers, Download(p)
      PROVE  RestOK'
  BY <1>0, <1>3, <1>4, <1>a DEF Download, TypeOK, RestOK, tracker
<1>5. ASSUME NEW p \in Peers, DownloadAborts(p)
      PROVE  RestOK'
  BY <1>0, <1>3, <1>5, <1>a, <1>c DEF DownloadAborts, TypeOK, RestOK, tracker
<1>6. ASSUME NEW p \in Peers, Quit(p) \/ SigPipe(p)
      PROVE  RestOK'
  <2>1. faults' \in 0 .. MaxFaults
    BY <1>0, <1>6, <1>b DEF Quit, SigPipe, TypeOK
  <2>. QED
    BY <1>0, <1>6, <1>c, <1>d, <2>1 DEF Quit, SigPipe, TypeOK, RestOK, tracker
<1>7. ASSUME NEW p \in Peers, Restart(p)
      PROVE  RestOK'
  BY <1>0, <1>7 DEF Restart, TypeOK, RestOK, tracker, history
<1>8. ASSUME NEW p \in Peers, Lost(p)
      PROVE  RestOK'
  BY <1>0, <1>8 DEF Lost, TypeOK, RestOK, tracker, history
<1>9. ASSUME NEW p \in Peers, NEW s \in Peers \cup {None},
             Connect(p, s) \/ Refused(p, s) \/ Serve(p, s)
      PROVE  RestOK'
  BY <1>0, <1>9 DEF Connect, Refused, Serve, TypeOK, RestOK, tracker, history
<1>10. ASSUME NEW p \in Peers, NEW s \in Peers \cup {None}, ServerExits(p, s)
       PROVE  RestOK'
  <2>1. s \in Peers
    BY <1>10, ExitedConsoles
  <2>. QED
    BY <1>0, <1>10, <1>c, <1>d, <2>1 DEF ServerExits, TypeOK, RestOK, tracker
<1>11. ASSUME NEW p \in Peers, Network(p)
       PROVE  RestOK'
  <2>1. PICK s \in Peers : Reset(p, s) \/ Stall(p, s) \/ Unreachable(p, s)
    BY <1>11 DEF Network
  <2>2. faults' \in 0 .. MaxFaults
    BY <1>b, <2>1 DEF Reset, Stall, Unreachable
  <2>. QED
    BY <1>0, <2>1, <2>2 DEF Reset, Stall, Unreachable, TypeOK, RestOK, tracker
<1>12. ASSUME NEW p \in Peers, Verify(p)
       PROVE  RestOK'
  BY <1>0, <1>12 DEF Verify, TypeOK, RestOK, tracker, history
<1>13. ASSUME NEW p \in Peers, AnnounceScan(p) \/ AnnounceAppend(p)
       PROVE  RestOK'
  <2>1. console[p] \in [op : {"seed"}, next : Pieces, append : BOOLEAN]
    BY <1>0, <1>13 DEF AnnounceScan, AnnounceAppend, TypeOK, Consoles, Fetches, Idle
  <2>2. \A i \in DOMAIN list : [list EXCEPT ![i].sources = @ \cup {p}] \in Seq(Entries)
    BY <1>0, ListedEntries DEF TypeOK, Entries
  <2>3. Append(list, [number |-> console[p].next, sources |-> {p}]) \in Seq(Entries)
    BY <1>0, <2>1 DEF TypeOK, Entries
  <2>4. list' \in Seq(Entries) /\ listed' \in BOOLEAN
    BY <1>0, <1>13, <2>2, <2>3 DEF AnnounceScan, AnnounceAppend, TypeOK
  <2>. QED
    BY <1>0, <1>13, <2>4 DEF AnnounceScan, AnnounceAppend, TypeOK, RestOK, history
<1>14. ASSUME NEW p \in Peers, Touch(p)
       PROVE  RestOK'
  BY <1>0, <1>14, <1>b DEF Touch, TypeOK, RestOK, tracker
<1>. QED
  BY <1>1, <1>2, <1>4, <1>5, <1>6, <1>7, <1>8, <1>9, <1>10, <1>11, <1>12, <1>13, <1>14
     DEF Next, Attempt

\* An attempt that is over: what p goes on with, and what is at its path.
Over(p) ==
  /\ console'[p] \in {NextPiece(p), Retry(p)}
  /\ \A q \in Peers \ {p} : console'[q] = console[q] /\ disk'[q] = disk[q]
  /\ disk'[p] \in Content

LEMMA TaskTypes ==
  ASSUME TypeInv, RestOK', NEW p \in Peers, NEW c \in Consoles, Turn(p, c),
         c.op = "fetch" => c.link = "none",
         NEW f \in Content, disk' = [disk EXCEPT ![p] = f]
  PROVE  /\ TypeInv' /\ console'[p] = c /\ disk'[p] = f
         /\ \A q \in Peers \ {p} : console'[q] = console[q] /\ disk'[q] = disk[q]
<1>0. TypeOK
  BY DEF TypeInv
<1>1. /\ console' \in [Peers -> Consoles] /\ console'[p] = c
      /\ \A q \in Peers \ {p} : console'[q] = console[q]
  BY <1>0, TurnConsole
<1>2. /\ disk' \in [Peers -> Content \cup {Absent}] /\ disk'[p] = f
      /\ \A q \in Peers \ {p} : disk'[q] = disk[q]
  BY <1>0, WriteDisk
<1>3. disk'[p] # Absent /\ ~Linked(p)'
  BY <1>1, <1>2, ExactIsFile DEF Linked
<1>4. TypeInv'
  BY <1>1, <1>2, <1>3, AloneFrame
<1>. QED
  BY <1>1, <1>2, <1>4

LEMMA OverTypes ==
  ASSUME TypeInv, RestOK', NEW p \in Peers, console[p].op = "fetch",
         NEW c, c = NextPiece(p) \/ c = Retry(p), Turn(p, c),
         NEW f \in Content, disk' = [disk EXCEPT ![p] = f]
  PROVE  TypeInv' /\ Over(p) /\ console'[p] = c /\ disk'[p] = f
<1>1. c \in Consoles /\ (c.op = "fetch" => c.link = "none")
  BY NextConsole, RetryConsole DEF TypeInv
<1>2. /\ TypeInv' /\ console'[p] = c /\ disk'[p] = f
      /\ \A q \in Peers \ {p} : console'[q] = console[q] /\ disk'[q] = disk[q]
  BY <1>1, TaskTypes
<1>. QED
  BY <1>2 DEF Over

\* Every attempt that is over, but for the exit of the source.
LEMMA AttemptOver ==
  ASSUME TypeInv, RestOK', NEW p \in Peers, NEW s \in Peers \cup {None},
         Refused(p, s) \/ Serve(p, s) \/ Lost(p) \/ Unreachable(p, s)
  PROVE  /\ TypeInv' /\ Over(p) /\ console[p].op = "fetch"
         /\ UNCHANGED <<tracker, killed, touched, rewritten, strays>>
         /\ Serve(p, s) => /\ s \in Peers
                           /\ disk'[p] = Written(disk[p], Piece(p), disk[s].data[Piece(p)],
                                                 Grows(s, Piece(p)))
<1>0. TypeOK
  BY DEF TypeInv
<1>1. console[p].op = "fetch"
  BY DEF Refused, Serve, Lost, Unreachable, Asks, Connected
<1>2. UNCHANGED <<tracker, killed, touched, rewritten, strays>>
  BY DEF Refused, Serve, Lost, Unreachable, history
<1>3. disk[p] \in Content /\ Piece(p) \in Pieces
  BY <1>0, <1>1, FetchingConsole DEF TypeInv, TypeOK, Busy
<1>4. CASE Refused(p, s) \/ Unreachable(p, s)
  <2>1. Turn(p, NextPiece(p)) /\ disk' = [disk EXCEPT ![p] = disk[p]]
    BY <1>0, <1>4, SameDisk DEF Refused, Unreachable
  <2>2. TypeInv' /\ Over(p)
    BY <1>1, <1>3, <2>1, OverTypes
  <2>3. ~Serve(p, s)
    BY <1>4 DEF Refused, Unreachable, Serve, Asks, Connected
  <2>. QED
    BY <1>1, <1>2, <2>2, <2>3
<1>5. CASE Serve(p, s)
  <2>1. console[p].src = s /\ console[p].link = "open"
    BY <1>5 DEF Serve, Connected
  <2>2. s \in Peers /\ disk[s] \in Content
    BY <1>0, <1>1, <1>5, <2>1 DEF TypeInv, Linked, TypeOK, Serve
  <2>3. disk[s].data[Piece(p)] \in {"right", "wrong"} /\ Grows(s, Piece(p)) \in BOOLEAN
    BY <1>3, <2>2, PieceTransferAssumption DEF Content, Grows
  <2>. DEFINE f == Written(disk[p], Piece(p), disk[s].data[Piece(p)], Grows(s, Piece(p)))
  <2>4. f \in Content
    BY <1>3, <2>3, WrittenIsFile
  <2>5. disk' = [disk EXCEPT ![p] = f]
    BY <1>5 DEF Serve
  <2>6. Turn(p, NextPiece(p)) \/ Turn(p, Retry(p))
    BY <1>5 DEF Serve, Tested
  <2>. HIDE DEF f
  <2>7. TypeInv' /\ Over(p) /\ disk'[p] = f
    BY <1>1, <2>4, <2>5, <2>6, OverTypes
  <2>. QED
    BY <1>1, <1>2, <2>2, <2>7 DEF f
<1>6. CASE Lost(p)
  <2>. DEFINE src == console[p].src
              new == IF disk[src] = Absent THEN "wrong" ELSE disk[src].data[Piece(p)]
  <2>1. src \in Peers /\ disk[src] \in Content \cup {Absent}
    BY <1>0, <1>1, <1>6 DEF TypeInv, Linked, TypeOK, Lost
  <2>2. new \in {"right", "wrong"}
    BY <1>3, <2>1 DEF Content
  <2>3. Grows(src, Piece(p)) \in BOOLEAN
    <3>1. disk[src].longer \in BOOLEAN
      <4>1. disk[src] \in Content => disk[src].longer \in BOOLEAN
        BY DEF Content
      <4>2. Absent.longer = FALSE
        BY DEF Absent
      <4>. QED
        BY <2>1, <4>1, <4>2
    <3>. QED
      BY <3>1, PieceTransferAssumption DEF Grows
  <2>4. PICK d \in {disk[p].data[Piece(p)], new}, grown \in {FALSE, Grows(src, Piece(p))} :
          disk' = [disk EXCEPT ![p] = Written(disk[p], Piece(p), d, grown)]
    BY <1>6 DEF Lost
  <2>5. d \in {"right", "wrong"}
    BY <1>3, <2>2, <2>4 DEF Content
  <2>6. grown \in BOOLEAN
    BY <2>3, <2>4
  <2>. HIDE DEF src, new
  <2>7. Written(disk[p], Piece(p), d, grown) \in Content
    BY <1>3, <2>5, <2>6, WrittenIsFile
  <2>8. Turn(p, Retry(p))
    BY <1>6 DEF Lost
  <2>9. TypeInv' /\ Over(p)
    BY <1>1, <2>4, <2>7, <2>8, OverTypes
  <2>10. ~Serve(p, s)
    BY <1>6 DEF Lost, Serve, Connected
  <2>. QED
    BY <1>1, <1>2, <2>9, <2>10
<1>. QED
  BY <1>4, <1>5, <1>6

\* A connection that is made, lost or stalled leaves the task as it is.
LEMMA Relinked ==
  ASSUME TypeInv, RestOK', NEW p \in Peers, NEW s \in Peers \cup {None},
         Connect(p, s) \/ Reset(p, s) \/ Stall(p, s)
  PROVE  /\ TypeInv' /\ s \in Peers
         /\ console[p].op = "fetch" /\ console'[p].op = "fetch"
         /\ console'[p].plan = console[p].plan /\ console'[p].want = console[p].want
         /\ console'[p].todo = console[p].todo
         /\ console'[p].src = s /\ console'[p].link # "none"
         /\ \A q \in Peers \ {p} : console'[q] = console[q]
         /\ Connect(p, s) => console'[p].link = "open"
         /\ UNCHANGED <<disk, tracker, touched, rewritten, strays, killed>>
<1>0. TypeOK
  BY DEF TypeInv
<1>1. console[p].op = "fetch" /\ UNCHANGED <<disk, tracker, touched, rewritten, strays, killed>>
  BY DEF Connect, Reset, Stall, Asks, Connected, history
<1>2. s \in Peers
  <2>1. CASE Connect(p, s)
    BY <2>1 DEF Connect, Up
  <2>2. CASE Reset(p, s) \/ Stall(p, s)
    BY <1>1, <2>2 DEF Reset, Stall, Connected, TypeInv, Linked
  <2>. QED
    BY <2>1, <2>2
<1>3. console[p] \in Fetches
  BY <1>0, <1>1, FetchingConsole
<1>4. PICK l \in {"open", "lost", "stalled"} :
        /\ Turn(p, [console[p] EXCEPT !.src = s, !.link = l])
        /\ Connect(p, s) => l = "open"
  <2>1. CASE Connect(p, s)
    BY <2>1 DEF Connect
  <2>2. CASE Reset(p, s) \/ Stall(p, s)
    <3>1. console[p].src = s /\ console[p].link = "open"
      BY <2>2 DEF Reset, Stall, Connected
    <3>2. ~Connect(p, s)
      BY <3>1 DEF Connect, Asks
    <3>3. PICK l \in {"lost", "stalled"} : Turn(p, [console[p] EXCEPT !.link = l])
      BY <2>2 DEF Reset, Stall
    <3>4. [console[p] EXCEPT !.src = s, !.link = l] = [console[p] EXCEPT !.link = l]
      BY <1>3, <3>1 DEF Fetches
    <3>. QED
      BY <3>2, <3>3, <3>4
  <2>. QED
    BY <2>1, <2>2
<1>c. PICK c : c = [console[p] EXCEPT !.src = s, !.link = l]
  OBVIOUS
<1>5. /\ c \in Consoles /\ c.op = "fetch" /\ c.plan = console[p].plan
      /\ c.want = console[p].want
      /\ c.todo = console[p].todo /\ c.src = s /\ c.link = l
  <2>1. l \in {"none", "open", "lost", "stalled"}
    OBVIOUS
  <2>. QED
    BY <1>1, <1>2, <1>3, <1>c, <2>1 DEF Fetches, Consoles
<1>6. Turn(p, c)
  BY <1>4, <1>c
<1>7. /\ console' \in [Peers -> Consoles] /\ console'[p] = c
      /\ \A q \in Peers \ {p} : console'[q] = console[q]
  BY <1>0, <1>5, <1>6, TurnConsole
<1>8. TypeInv'
  <2>1. disk' = disk /\ disk[p] # Absent /\ disk' \in [Peers -> Content \cup {Absent}]
    BY <1>0, <1>1 DEF TypeInv, Busy, TypeOK
  <2>2. disk'[p] # Absent /\ console'[p].src \in Peers
    BY <1>2, <1>5, <1>7, <2>1
  <2>. QED
    BY <1>7, <2>1, <2>2, AloneFrame
<1>. QED
  BY <1>1, <1>2, <1>4, <1>5, <1>7, <1>8

\* A command that leaves the disk alone and turns the console to no download.
LEMMA CommandTypes ==
  ASSUME TypeInv, RestOK', NEW p \in Peers, NEW c \in Consoles,
         Turn(p, c), UNCHANGED disk, c.op = "idle" \/ c.op = "seed"
  PROVE  TypeInv' /\ console'[p] = c /\ \A q \in Peers \ {p} : console'[q] = console[q]
<1>0. TypeOK
  BY DEF TypeInv
<1>1. /\ console' \in [Peers -> Consoles] /\ console'[p] = c
      /\ \A q \in Peers \ {p} : console'[q] = console[q]
  BY <1>0, TurnConsole
<1>2. ~Busy(p)' /\ ~Linked(p)'
  BY <1>1 DEF Busy, Linked
<1>3. disk' = disk /\ disk' \in [Peers -> Content \cup {Absent}]
  BY <1>0 DEF TypeOK
<1>4. TypeInv'
  BY <1>1, <1>2, <1>3, AloneFrame
<1>. QED
  BY <1>1, <1>4

LEMMA AnnounceConsole ==
  ASSUME TypeInv, NEW p \in Peers, AnnounceScan(p) \/ AnnounceAppend(p)
  PROVE  /\ console[p].op = "seed" /\ UNCHANGED <<disk, touched, rewritten, strays, killed>>
         /\ \E c \in Consoles : c.op \in {"idle", "seed"} /\ Turn(p, c)
<1>1. console[p] \in [op : {"seed"}, next : Pieces, append : BOOLEAN]
  BY DEF TypeInv, AnnounceScan, AnnounceAppend, TypeOK, Consoles, Fetches, Idle
<1>2. /\ [console[p] EXCEPT !.append = TRUE] \in Consoles
      /\ [console[p] EXCEPT !.append = TRUE].op = "seed"
  BY <1>1 DEF Consoles
<1>3. console[p].next \in Pieces
  BY <1>1
<1>4. Turn(p, [console[p] EXCEPT !.append = TRUE]) \/ Turn(p, Seeded(console[p].next))
  BY DEF AnnounceScan, AnnounceAppend
<1>. QED
  BY <1>2, <1>3, <1>4, SimpleConsoles DEF AnnounceScan, AnnounceAppend, history

\* A destination is presized, and whoever had one there has spoiled it.
LEMMA Overwritten ==
  ASSUME TypeInv, NEW p \in Peers, Overwrite(p)
  PROVE  /\ disk' \in [Peers -> Content \cup {Absent}]
         /\ disk'[p] \in Content /\ disk'[p] # Absent
         /\ \A q \in Peers \ {p} : disk'[q] = disk[q]
         /\ disk[p] # Absent => p \in rewritten'
         /\ rewritten \subseteq rewritten' /\ strays \subseteq strays'
         /\ details = "other" => p \in strays'
         /\ \E grown \in BOOLEAN :
              /\ disk' = [disk EXCEPT ![p] = Presized(disk[p], grown)]
              /\ grown => details = "other"
<1>0. TypeOK /\ disk[p] \in Content \cup {Absent}
  BY DEF TypeInv, TypeOK
<1>1. PICK grown \in {FALSE, details = "other"} :
        disk' = [disk EXCEPT ![p] = Presized(disk[p], grown)]
  BY DEF Overwrite
<1>2. grown \in BOOLEAN /\ (grown => details = "other")
  BY <1>1
<1>3. Presized(disk[p], grown) \in Content /\ Presized(disk[p], grown) # Absent
  BY <1>0, <1>2, PresizedIsFile, ExactIsFile
<1>4. /\ disk' \in [Peers -> Content \cup {Absent}]
      /\ disk'[p] = Presized(disk[p], grown)
      /\ \A q \in Peers \ {p} : disk'[q] = disk[q]
  BY <1>0, <1>1, <1>3, WriteDisk
<1>5. /\ disk[p] # Absent => p \in rewritten'
      /\ rewritten \subseteq rewritten' /\ strays \subseteq strays'
      /\ details = "other" => p \in strays'
  BY DEF Overwrite
<1>. QED
  BY <1>1, <1>2, <1>3, <1>4, <1>5

\* The plan of a download names sources on record, or none.
LEMMA DownloadConsole ==
  ASSUME TypeInv, RestOK', NEW p \in Peers, Download(p)
  PROVE  /\ TypeInv' /\ Busy(p)' /\ ~Linked(p)' /\ console[p] = Idle
         /\ console'[p].want = details
         /\ console'[p].op = "fetch" => console'[p].tries = 0
         /\ \A k \in Pieces : console'[p].plan[k] \subseteq Sources \cup {None}
         /\ \/ console'[p].op = "fetch" /\ console'[p].todo = Planned(console'[p].plan)
            \/ console'[p].op # "fetch" /\ Planned(console'[p].plan) = {}
         /\ \A q \in Peers \ {p} : console'[q] = console[q] /\ disk'[q] = disk[q]
<1>0. TypeOK
  BY DEF TypeInv
<1>1. PICK bogus \in BOOLEAN :
        Turn(p, Fetching(details, PieceMap(bogus), Planned(PieceMap(bogus))))
  BY DEF Download
<1>2. /\ PieceMap(bogus) \in Plans /\ Planned(PieceMap(bogus)) \in SUBSET Pieces
      /\ details \in Hashes
  BY <1>0, PieceMapIsPlan DEF Planned, TypeOK
<1>3. PICK c : c = Fetching(details, PieceMap(bogus), Planned(PieceMap(bogus)))
  OBVIOUS
<1>4. /\ c \in Consoles /\ c.op \in {"fetch", "verify"} /\ c.plan = PieceMap(bogus)
      /\ c.want = details
      /\ c.op = "fetch" => /\ c.todo = Planned(PieceMap(bogus)) /\ c.tries = 0
                           /\ c.link = "none"
      /\ c.op # "fetch" => Planned(PieceMap(bogus)) = {}
  BY <1>2, <1>3, FetchingIsConsole
<1>5. Turn(p, c)
  BY <1>1, <1>3
<1>6. Overwrite(p) /\ console[p] = Idle
  BY DEF Download, Prompt
<1>7. PICK f \in Content : disk' = [disk EXCEPT ![p] = f]
  <2>1. PICK grown \in BOOLEAN : disk' = [disk EXCEPT ![p] = Presized(disk[p], grown)]
    BY <1>6, Overwritten
  <2>2. Presized(disk[p], grown) \in Content
    BY <1>0, PresizedIsFile DEF TypeOK
  <2>. QED
    BY <2>1, <2>2
<1>8. /\ TypeInv' /\ console'[p] = c
      /\ \A q \in Peers \ {p} : console'[q] = console[q] /\ disk'[q] = disk[q]
  BY <1>4, <1>5, <1>7, TaskTypes
<1>9. \A k \in Pieces : PieceMap(bogus)[k] \subseteq Sources \cup {None}
  BY DEF PieceMap, Sources, Aligned
<1>. QED
  BY <1>4, <1>6, <1>8, <1>9 DEF Busy, Linked

LEMMA VerifyConsole ==
  ASSUME TypeInv, RestOK', NEW p \in Peers, Verify(p)
  PROVE  /\ TypeInv' /\ Busy(p)
         /\ \/ /\ Matches(p) /\ console'[p] = Seeding(0) /\ UNCHANGED disk
            \/ console'[p] = Idle /\ disk'[p] = Absent
         /\ \A q \in Peers \ {p} : console'[q] = console[q] /\ disk'[q] = disk[q]
         /\ UNCHANGED <<list, killed, touched, rewritten, strays>>
<1>0. TypeOK /\ Busy(p) /\ UNCHANGED <<list, killed, touched, rewritten, strays>>
  BY DEF TypeInv, Verify, Busy, tracker, history
<1>1. CASE Matches(p) /\ Turn(p, Seeding(0)) /\ UNCHANGED disk
  <2>1. TypeInv' /\ console'[p] = Seeding(0) /\ \A q \in Peers \ {p} : console'[q] = console[q]
    BY <1>1, SimpleConsoles, CommandTypes
  <2>. QED
    BY <1>0, <1>1, <2>1
<1>2. CASE Turn(p, Idle) /\ disk' = [disk EXCEPT ![p] = Absent]
  <2>1. /\ console' \in [Peers -> Consoles] /\ console'[p] = Idle
        /\ \A q \in Peers \ {p} : console'[q] = console[q]
    BY <1>0, <1>2, SimpleConsoles, TurnConsole
  <2>2. /\ disk' \in [Peers -> Content \cup {Absent}] /\ disk'[p] = Absent
        /\ \A q \in Peers \ {p} : disk'[q] = disk[q]
    BY <1>0, <1>2, WriteDisk
  <2>3. ~Busy(p)' /\ ~Linked(p)'
    BY <2>1, SimpleConsoles DEF Busy, Linked
  <2>4. TypeInv'
    BY <2>1, <2>2, <2>3, AloneFrame
  <2>. QED
    BY <1>0, <2>1, <2>2, <2>4
<1>. QED
  BY <1>1, <1>2 DEF Verify

LEMMA TypeStep == TypeInv /\ [Next]_vars => TypeInv'
<1>. SUFFICES ASSUME TypeInv, [Next]_vars PROVE TypeInv'
  OBVIOUS
<1>0. TypeOK
  BY DEF TypeInv
<1>1. CASE UNCHANGED vars
  BY <1>1 DEF vars, tracker, history, TypeInv, TypeOK, Busy, Linked
<1>2. CASE Next
  <2>0. RestOK'
    BY <1>2, RestStep
  <2>1. ASSUME NEW p \in Peers, Upload(p)
        PROVE  TypeInv'
    BY <2>0, <2>1, SimpleConsoles, CommandTypes DEF Upload
  <2>2. ASSUME NEW p \in Peers, StopShare(p) \/ Restart(p)
        PROVE  TypeInv'
    <3>1. UNCHANGED <<disk, console>>
      BY <2>2 DEF StopShare, Restart
    <3>. QED
      BY <1>0, <2>0, <3>1 DEF TypeInv, TypeOK, RestOK, Busy, Linked
  <2>3. ASSUME NEW p \in Peers, Download(p)
        PROVE  TypeInv'
    BY <2>0, <2>3, DownloadConsole
  <2>4. ASSUME NEW p \in Peers, DownloadAborts(p) \/ Quit(p) \/ SigPipe(p)
        PROVE  TypeInv'
    <3>1. console' = Without(p)
      BY <2>4 DEF DownloadAborts, Quit, SigPipe
    <3>2. /\ disk' \in [Peers -> Content \cup {Absent}]
          /\ \A q \in Peers \ {p} : disk'[q] = disk[q]
      <4>1. CASE DownloadAborts(p)
        BY <4>1, Overwritten DEF DownloadAborts
      <4>2. CASE Quit(p) \/ SigPipe(p)
        BY <1>0, <4>2 DEF Quit, SigPipe, TypeOK
      <4>. QED
        BY <2>4, <4>1, <4>2
    <3>3. /\ console' \in [Peers -> Consoles] /\ ~Busy(p)' /\ ~Linked(p)'
          /\ \A q \in Peers \ {p} : Kept(q)
      BY <3>1, Ended
    <3>4. PICK A \in SUBSET Peers : A = {p}
      OBVIOUS
    <3>5. (\A q \in A : q = p) /\ \A q \in Peers \ A : q \in Peers \ {p}
      BY <3>4
    <3>. QED
      BY <2>0, <3>2, <3>3, <3>5, TypeFrame
  <2>5. ASSUME NEW p \in Peers, NEW s \in Peers \cup {None},
               Refused(p, s) \/ Serve(p, s) \/ Lost(p) \/ Unreachable(p, s)
        PROVE  TypeInv'
    BY <2>0, <2>5, AttemptOver
  <2>6. ASSUME NEW p \in Peers, NEW s \in Peers \cup {None},
               Connect(p, s) \/ Reset(p, s) \/ Stall(p, s)
        PROVE  TypeInv'
    BY <2>0, <2>6, Relinked
  <2>7. ASSUME NEW p \in Peers, NEW s \in Peers \cup {None}, ServerExits(p, s)
        PROVE  TypeInv'
    <3>1. /\ s \in Peers /\ s # p /\ console[p].op = "fetch" /\ Busy(p)
          /\ console' \in [Peers -> Consoles]
          /\ console'[p] = Retry(p) /\ console'[s] = Idle
          /\ \A q \in Peers \ {p, s} : Kept(q)
      BY <2>7, ExitedConsoles
    <3>2. Retry(p).op = "fetch" => Retry(p).link = "none"
      BY <1>0, <3>1, NextConsole, RetryConsole
    <3>3. disk' = disk /\ disk[p] # Absent
      BY <2>7, <3>1 DEF ServerExits, TypeInv
    <3>4. ~Linked(p)' /\ disk'[p] # Absent /\ ~Linked(s)' /\ ~Busy(s)'
      BY <3>1, <3>2, <3>3, SimpleConsoles DEF Linked, Busy
    <3>5. PICK A \in SUBSET Peers : A = {p, s}
      BY <3>1
    <3>6. (\A q \in A : q = p \/ q = s) /\ \A q \in Peers \ A : q \in Peers \ {p, s}
      BY <3>5
    <3>7. disk' \in [Peers -> Content \cup {Absent}]
      BY <1>0, <3>3 DEF TypeOK
    <3>. QED
      BY <2>0, <3>1, <3>3, <3>4, <3>6, <3>7, TypeFrame
  <2>8. ASSUME NEW p \in Peers, Verify(p)
        PROVE  TypeInv'
    BY <2>0, <2>8, VerifyConsole
  <2>9. ASSUME NEW p \in Peers, AnnounceScan(p) \/ AnnounceAppend(p)
        PROVE  TypeInv'
    BY <2>0, <2>9, AnnounceConsole, CommandTypes
  <2>10. ASSUME NEW p \in Peers, Touch(p)
         PROVE  TypeInv'
    <3>1. PICK c \in {Absent} \cup Others : disk' = [disk EXCEPT ![p] = c]
      BY <2>10 DEF Touch
    <3>2. c \in Content \cup {Absent}
      BY <3>1, PieceTransferAssumption
    <3>3. /\ disk' \in [Peers -> Content \cup {Absent}]
          /\ \A q \in Peers \ {p} : disk'[q] = disk[q]
      BY <1>0, <3>1, <3>2, WriteDisk
    <3>4. console' = console /\ console[p].op = "idle"
      BY <2>10, SimpleConsoles DEF Touch
    <3>. QED
      BY <1>0, <2>0, <3>3, <3>4 DEF TypeInv, TypeOK, RestOK, Busy, Linked
  <2>. QED
    BY <1>2, <2>1, <2>2, <2>3, <2>4, <2>5, <2>6, <2>7, <2>8, <2>9, <2>10
       DEF Next, Attempt, Network
<1>. QED
  BY <1>1, <1>2

\* Every variable keeps its type, whatever is fetched, lost or touched.
THEOREM TypeCorrect == Spec => []TypeOK
<1>1. TypeInv => TypeOK
  BY DEF TypeInv
<1>. QED
  BY <1>1, TypeInit, TypeStep, PTL DEF Spec

-----------------------------------------------------------------------------
(***************************************************************************)
(* What spreads.  Every source on record, and every source a console has   *)
(* planned, is trusted: it has a file, the exact one unless it is known to *)
(* have had another, and is not downloading, or its copy was touched or    *)
(* downloaded over.                                                        *)
(***************************************************************************)
Held(s) == disk[s] # Absent /\ (s \in strays \/ disk[s] = Exact)

Trusted(s) == s \in touched \cup rewritten \/ (Held(s) /\ ~Busy(s))

PlannedTrusted(p) ==
  Busy(p) => \A k \in Pieces : \A s \in console[p].plan[k] \ {None} : Trusted(s)

\* The source that a console is connected to, or retries, is one of its plan.
KeepsToPlan(p) ==
  console[p].op = "fetch" /\ (console[p].tries > 0 \/ Linked(p))
    => \E k \in Pieces : console[p].src \in console[p].plan[k]

WantsOther(p) == Busy(p) /\ console[p].want = "other" => p \in strays

SpreadInv ==
  /\ TypeInv
  /\ \A s \in Sources : Trusted(s)
  /\ \A p \in Peers : PlannedTrusted(p) /\ KeepsToPlan(p) /\ WantsOther(p)
  /\ \A p \in Peers : console[p].op = "seed" => Held(p)
  /\ OnlySpoiledAreKilled
  /\ NoPartialLeft

LEMMA SpreadInit == Init => SpreadInv
<1>. SUFFICES ASSUME Init PROVE SpreadInv
  OBVIOUS
<1>1. Sources = {}
  BY DEF Init, Sources
<1>2. \A p \in Peers : console[p].op = "idle"
  BY SimpleConsoles DEF Init
<1>3. NoPartialLeft
  BY DEF Init, NoPartialLeft
<1>. QED
  BY <1>1, <1>2, <1>3, TypeInit
     DEF Init, SpreadInv, PlannedTrusted, KeepsToPlan, WantsOther, Busy, OnlySpoiledAreKilled

\* A source that a console is connected to is trusted.
LEMMA LinkTrusted ==
  ASSUME SpreadInv, NEW p \in Peers, Linked(p)
  PROVE  /\ console[p].src \in Peers /\ Trusted(console[p].src)
         /\ \E k \in Pieces : console[p].src \in console[p].plan[k]
<1>1. /\ TypeInv /\ PlannedTrusted(p) /\ KeepsToPlan(p) /\ Busy(p)
      /\ console[p].op = "fetch"
  BY DEF SpreadInv, Linked, Busy
<1>2. console[p].src \in Peers
  BY <1>1 DEF TypeInv
<1>3. \E k \in Pieces : console[p].src \in console[p].plan[k]
  BY <1>1 DEF KeepsToPlan
<1>. QED
  BY <1>1, <1>2, <1>3, PieceTransferAssumption DEF PlannedTrusted

\* What a step does not take back.
Grown == /\ touched \subseteq touched' /\ rewritten \subseteq rewritten'
         /\ strays \subseteq strays'

\* What a step sees to about a peer whose console or file it changes.
Fares(q) ==
  /\ Trusted(q) => Trusted(q)'
  /\ Busy(q)' => \/ Busy(q) /\ console'[q].plan = console[q].plan
                 \/ \A k \in Pieces : console'[q].plan[k] \subseteq Sources \cup {None}
  /\ KeepsToPlan(q)' /\ WantsOther(q)'
  /\ console'[q].op = "seed" => Held(q)'
  /\ q \in touched' \cup strays' \/ Busy(q)' \/ disk'[q] \in {Exact, Absent}

\* The invariant after a step of the peers of A.
LEMMA SpreadFrame ==
  ASSUME SpreadInv, TypeInv', NEW A \in SUBSET Peers, Grown,
         \A q \in Peers \ A : Kept(q) /\ disk'[q] = disk[q],
         \A q \in A : Fares(q),
         \A s \in Sources' : s \in Sources \/ Trusted(s)',
         killed' \subseteq killed \cup touched' \cup rewritten'
  PROVE  SpreadInv'
<1>0. TypeInv /\ TypeOK
  BY DEF SpreadInv, TypeInv
<1>1. ASSUME NEW q \in Peers \ A
      PROVE  /\ disk'[q] = disk[q] /\ console'[q].op = console[q].op
             /\ Busy(q)' <=> Busy(q)
             /\ Linked(q)' <=> Linked(q)
             /\ Busy(q) => /\ console'[q].plan = console[q].plan
                           /\ console'[q].want = console[q].want
             /\ console[q].op = "fetch" =>
                  console'[q].tries = console[q].tries /\ console'[q].src = console[q].src
  BY <1>0, KeptConsole
<1>2. \A s \in Peers : Trusted(s) => Trusted(s)'
  <2>1. ASSUME NEW s \in Peers \ A, Trusted(s)
        PROVE  Trusted(s)'
    BY <1>1, <2>1 DEF Trusted, Held, Grown
  <2>. QED
    BY <2>1 DEF Fares
<1>3. Sources \subseteq Peers
  BY <1>0, SourcesArePeers
<1>4. \A s \in Sources : Trusted(s)'
  BY <1>2, <1>3 DEF SpreadInv
<1>5. ASSUME NEW q \in Peers
      PROVE  PlannedTrusted(q)' /\ KeepsToPlan(q)' /\ WantsOther(q)'
  <2>1. ASSUME Busy(q)
        PROVE  \A k \in Pieces : console[q].plan[k] \subseteq Peers \cup {None}
    <3>1. console[q].plan \in Plans
      BY <1>0, <2>1 DEF Busy, TypeOK, Consoles, Fetches, Idle
    <3>. QED
      BY <3>1 DEF Plans
  <2>2. PlannedTrusted(q) /\ KeepsToPlan(q) /\ WantsOther(q)
    BY DEF SpreadInv
  <2>3. ASSUME Busy(q), console'[q].plan = console[q].plan
        PROVE  PlannedTrusted(q)'
    BY <1>2, <2>1, <2>2, <2>3 DEF PlannedTrusted
  <2>4. CASE q \notin A
    <3>1. PlannedTrusted(q)'
      BY <1>1, <2>3, <2>4 DEF PlannedTrusted
    <3>2. KeepsToPlan(q)'
      BY <1>1, <2>2, <2>4 DEF KeepsToPlan, Busy
    <3>3. WantsOther(q)'
      BY <1>1, <2>2, <2>4 DEF WantsOther, Grown
    <3>. QED
      BY <3>1, <3>2, <3>3
  <2>5. CASE q \in A
    <3>1. CASE \A k \in Pieces : console'[q].plan[k] \subseteq Sources \cup {None}
      BY <1>4, <2>5, <3>1 DEF Fares, PlannedTrusted
    <3>2. CASE Busy(q) /\ console'[q].plan = console[q].plan
      BY <2>3, <2>5, <3>2 DEF Fares
    <3>3. CASE ~Busy(q)'
      BY <2>5, <3>3 DEF Fares, PlannedTrusted
    <3>. QED
      BY <2>5, <3>1, <3>2, <3>3 DEF Fares
  <2>. QED
    BY <2>4, <2>5
<1>6. ASSUME NEW q \in Peers, console'[q].op = "seed"
      PROVE  Held(q)'
  <2>1. CASE q \in A
    BY <1>6, <2>1 DEF Fares
  <2>2. CASE q \notin A
    BY <1>1, <1>6, <2>2 DEF SpreadInv, Held, Grown
  <2>. QED
    BY <2>1, <2>2
<1>7. OnlySpoiledAreKilled'
  BY DEF SpreadInv, OnlySpoiledAreKilled, Grown
<1>8. ASSUME NEW q \in Peers \ (touched' \cup strays'), ~Busy(q)'
      PROVE  disk'[q] \in {Exact, Absent}
  <2>1. CASE q \in A
    BY <1>8, <2>1 DEF Fares
  <2>2. CASE q \notin A
    BY <1>1, <1>8, <2>2 DEF SpreadInv, NoPartialLeft, Grown, Busy
  <2>. QED
    BY <2>1, <2>2
<1>9. NoPartialLeft'
  BY <1>8 DEF NoPartialLeft, Busy
<1>. QED
  BY <1>2, <1>3, <1>4, <1>5, <1>6, <1>7, <1>9 DEF SpreadInv

\* The invariant after a step of p alone.
LEMMA SpreadAlone ==
  ASSUME SpreadInv, TypeInv', NEW p \in Peers, Grown, Fares(p),
         \A q \in Peers \ {p} : console'[q] = console[q] /\ disk'[q] = disk[q],
         \A s \in Sources' : s \in Sources \/ Trusted(s)',
         killed' = killed
  PROVE  SpreadInv'
<1>1. \A q \in Peers \ {p} : Kept(q)
  BY DEF Kept
<1>2. PICK A \in SUBSET Peers : A = {p}
  OBVIOUS
<1>3. (\A q \in A : Fares(q)) /\ \A q \in Peers \ A : q \in Peers \ {p}
  BY <1>2
<1>. QED
  BY <1>1, <1>3, SpreadFrame

\* An announcement puts nobody but its peer on record, and stop_share nobody.
LEMMA SourcesGrow ==
  ASSUME TypeOK, NEW p \in Peers
  PROVE  /\ AnnounceScan(p) \/ AnnounceAppend(p) => Sources' \subseteq Sources \cup {p}
         /\ StopShare(p) => Sources' \subseteq Sources
<1>1. ASSUME AnnounceScan(p)
      PROVE  Sources' \subseteq Sources \cup {p}
  <2>1. UNCHANGED list \/ \E i \in DOMAIN list : list' = [list EXCEPT ![i].sources = @ \cup {p}]
    BY <1>1 DEF AnnounceScan
  <2>2. ASSUME NEW i \in DOMAIN list, list' = [list EXCEPT ![i].sources = @ \cup {p}]
        PROVE  Sources' \subseteq Sources \cup {p}
    <3>1. /\ DOMAIN list' = DOMAIN list
          /\ \A j \in DOMAIN list : list'[j].sources \subseteq list[j].sources \cup {p}
      BY <2>2, ListedEntries DEF Entries, TypeOK
    <3>. QED
      BY <3>1 DEF Sources
  <2>. QED
    BY <2>1, <2>2 DEF Sources
<1>2. ASSUME AnnounceAppend(p)
      PROVE  Sources' \subseteq Sources \cup {p}
  <2>1. list' = Append(list, [number |-> console[p].next, sources |-> {p}])
    BY <1>2 DEF AnnounceAppend
  <2>2. \A j \in DOMAIN list' :
          \/ j \in DOMAIN list /\ list'[j] = list[j]
          \/ list'[j].sources = {p}
    BY <2>1 DEF TypeOK
  <2>. QED
    BY <2>2 DEF Sources
<1>3. ASSUME StopShare(p)
      PROVE  Sources' \subseteq Sources
  <2>1. CASE list' = <<>>
    BY <2>1 DEF Sources
  <2>2. CASE list' = [i \in DOMAIN list |-> [list[i] EXCEPT !.sources = @ \ {p}]]
    <3>1. /\ DOMAIN list' = DOMAIN list
          /\ \A j \in DOMAIN list : list'[j].sources \subseteq list[j].sources
      BY <2>2, ListedEntries DEF Entries
    <3>. QED
      BY <3>1 DEF Sources
  <2>. QED
    BY <1>3, <2>1, <2>2 DEF StopShare
<1>. QED
  BY <1>1, <1>2, <1>3

LEMMA SpreadStep == SpreadInv /\ [Next]_vars => SpreadInv'
<1>. SUFFICES ASSUME SpreadInv, [Next]_vars PROVE SpreadInv'
  OBVIOUS
<1>0. TypeInv /\ TypeInv' /\ TypeOK
  BY TypeStep DEF SpreadInv, TypeInv
<1>1. CASE UNCHANGED vars
  BY <1>0, <1>1 DEF vars, tracker, history, SpreadInv, Trusted, Held, Busy, Linked,
     PlannedTrusted, KeepsToPlan, WantsOther, Sources, OnlySpoiledAreKilled, NoPartialLeft
<1>2. CASE Next
  <2>0. RestOK'
    BY <1>0, <1>2, RestStep
  <2>1. ASSUME NEW p \in Peers, Upload(p)
        PROVE  SpreadInv'
    <3>1. /\ console'[p] = Seeding(0) /\ Seeding(0).op = "seed"
          /\ \A q \in Peers \ {p} : console'[q] = console[q]
      BY <1>0, <2>0, <2>1, SimpleConsoles, CommandTypes DEF Upload
    <3>2. /\ UNCHANGED <<disk, list, killed, touched, rewritten>>
          /\ strays \subseteq strays' /\ disk[p] # Absent
          /\ p \in strays' \/ disk[p] = Exact
      BY <2>1 DEF Upload
    <3>3. ~Busy(p)' /\ KeepsToPlan(p)' /\ WantsOther(p)' /\ Held(p)'
      BY <3>1, <3>2 DEF Busy, KeepsToPlan, WantsOther, Held
    <3>4. Fares(p)
      BY <3>2, <3>3 DEF Fares, Trusted, Held
    <3>5. Grown /\ Sources' = Sources
      BY <3>2 DEF Grown, Sources
    <3>. QED
      BY <1>0, <3>1, <3>2, <3>4, <3>5, SpreadAlone
  <2>2. ASSUME NEW p \in Peers, StopShare(p)
        PROVE  SpreadInv'
    <3>1. Sources' \subseteq Sources
      BY <1>0, <2>2, SourcesGrow
    <3>2. UNCHANGED <<disk, console, killed, touched, rewritten, strays>>
      BY <2>2 DEF StopShare, history
    <3>. QED
      BY <1>0, <3>1, <3>2 DEF SpreadInv, Trusted, Held, Busy, Linked, PlannedTrusted,
         KeepsToPlan, WantsOther, OnlySpoiledAreKilled, NoPartialLeft
  <2>3. ASSUME NEW p \in Peers, Restart(p)
        PROVE  SpreadInv'
    <3>1. UNCHANGED <<disk, console, list, killed, touched, rewritten, strays>>
      BY <2>3 DEF Restart, tracker, history
    <3>. QED
      BY <1>0, <3>1 DEF SpreadInv, Trusted, Held, Busy, Linked, PlannedTrusted, Sources,
         KeepsToPlan, WantsOther, OnlySpoiledAreKilled, NoPartialLeft
  <2>4. ASSUME NEW p \in Peers, Download(p)
        PROVE  SpreadInv'
    <3>1. /\ Busy(p)' /\ ~Linked(p)' /\ console[p] = Idle /\ console'[p].want = details
          /\ console'[p].op = "fetch" => console'[p].tries = 0
          /\ \A k \in Pieces : console'[p].plan[k] \subseteq Sources \cup {None}
          /\ \A q \in Peers \ {p} : console'[q] = console[q] /\ disk'[q] = disk[q]
      BY <1>0, <2>0, <2>4, DownloadConsole
    <3>2. /\ rewritten \subseteq rewritten' /\ strays \subseteq strays'
          /\ disk[p] # Absent => p \in rewritten'
          /\ details = "other" => p \in strays'
      BY <1>0, <2>4, Overwritten DEF Download
    <3>3. UNCHANGED <<list, killed, touched>>
      BY <2>4 DEF Download, tracker
    <3>4. Grown /\ Sources' = Sources
      BY <3>2, <3>3 DEF Grown, Sources
    <3>5. Trusted(p) => Trusted(p)'
      BY <3>2, <3>3 DEF Trusted, Held
    <3>6. KeepsToPlan(p)' /\ WantsOther(p)' /\ console'[p].op # "seed"
      BY <3>1, <3>2 DEF KeepsToPlan, WantsOther, Busy
    <3>7. Fares(p)
      BY <3>1, <3>5, <3>6 DEF Fares
    <3>. QED
      BY <1>0, <3>1, <3>3, <3>4, <3>7, SpreadAlone
  <2>5. ASSUME NEW p \in Peers, DownloadAborts(p) \/ Quit(p) \/ SigPipe(p)
        PROVE  SpreadInv'
    <3>1. console' = Without(p) /\ UNCHANGED <<list, killed>>
      BY <2>5 DEF DownloadAborts, Quit, SigPipe, tracker
    <3>2. /\ console'[p].op = "idle" /\ ~Busy(p)'
          /\ \A q \in Peers \ {p} : Kept(q)
      BY <1>0, <3>1, Ended
    <3>3. /\ touched \subseteq touched' /\ rewritten \subseteq rewritten'
          /\ strays \subseteq strays'
          /\ \A q \in Peers \ {p} : disk'[q] = disk[q]
          /\ p \in touched' \/ (disk'[p] = disk[p] /\ ~Busy(p))
      <4>1. CASE DownloadAborts(p)
        BY <1>0, <4>1, Overwritten DEF DownloadAborts
      <4>2. CASE Quit(p) \/ SigPipe(p)
        <5>1. /\ UNCHANGED <<disk, rewritten, strays>>
              /\ touched' = touched \cup Interrupted(p)
          BY <4>2 DEF Quit, SigPipe
        <5>2. Busy(p) => p \in Interrupted(p)
          BY DEF Interrupted, Busy
        <5>. QED
          BY <5>1, <5>2
      <4>. QED
        BY <2>5, <4>1, <4>2
    <3>4. Grown /\ Sources' = Sources
      BY <3>1, <3>3 DEF Grown, Sources
    <3>5. Trusted(p) => Trusted(p)'
      BY <3>2, <3>3, <3>4 DEF Trusted, Held, Grown
    <3>6. p \in touched' \cup strays' \/ disk'[p] \in {Exact, Absent}
      BY <3>3, <3>4 DEF SpreadInv, NoPartialLeft, Busy, Grown
    <3>7. KeepsToPlan(p)' /\ WantsOther(p)'
      BY <3>2 DEF KeepsToPlan, WantsOther
    <3>8. Fares(p)
      BY <3>2, <3>5, <3>6, <3>7 DEF Fares
    <3>9. PICK A \in SUBSET Peers : A = {p}
      OBVIOUS
    <3>10. (\A q \in A : Fares(q)) /\ \A q \in Peers \ A : q \in Peers \ {p}
      BY <3>8, <3>9
    <3>. QED
      BY <1>0, <3>1, <3>2, <3>3, <3>4, <3>10, SpreadFrame
  <2>6. ASSUME NEW p \in Peers, NEW s \in Peers \cup {None},
               Refused(p, s) \/ Serve(p, s) \/ Lost(p) \/ Unreachable(p, s)
        PROVE  SpreadInv'
    <3>1. /\ Over(p) /\ console[p].op = "fetch"
          /\ UNCHANGED <<tracker, killed, touched, rewritten, strays>>
      BY <1>0, <2>0, <2>6, AttemptOver
    <3>2. /\ console'[p] = NextPiece(p) \/ console'[p] = Retry(p)
          /\ \A q \in Peers \ {p} : console'[q] = console[q] /\ disk'[q] = disk[q]
      BY <3>1 DEF Over
    <3>3. /\ console'[p].op \in {"fetch", "verify"}
          /\ console'[p].plan = console[p].plan /\ console'[p].want = console[p].want
          /\ console'[p].op = "fetch" =>
               /\ console'[p].link = "none"
               /\ console'[p].tries = 0 \/ console'[p].src = console[p].src
      BY <1>0, <3>1, <3>2, NextConsole, RetryConsole
    <3>4. Busy(p) /\ Busy(p)'
      BY <3>1, <3>3 DEF Busy
    <3>5. Trusted(p) => Trusted(p)'
      BY <3>1, <3>4 DEF Trusted
    <3>6. WantsOther(p)' /\ console'[p].op # "seed" /\ ~Linked(p)'
      BY <3>1, <3>3, <3>4 DEF SpreadInv, WantsOther, Linked
    <3>7. KeepsToPlan(p)'
      <4>1. ASSUME console'[p].op = "fetch", console'[p].tries > 0
            PROVE  \E k \in Pieces : console[p].src \in console[p].plan[k]
        <5>1. console'[p] = Retry(p) /\ console'[p].tries # 0
          BY <1>0, <3>1, <3>2, <4>1, NextConsole
        <5>2. ~Refused(p, s) /\ ~Unreachable(p, s)
          BY <1>0, <3>1, <4>1, <5>1, NextConsole, TurnConsole DEF Refused, Unreachable
        <5>3. Linked(p)
          BY <2>6, <3>1, <5>2 DEF Serve, Lost, Connected, Linked
        <5>. QED
          BY <5>3, LinkTrusted
      <4>2. console'[p].op = "fetch" /\ console'[p].tries > 0 => console'[p].src = console[p].src
        BY <3>3
      <4>. QED
        BY <3>3, <3>6, <4>1, <4>2 DEF KeepsToPlan
    <3>8. Fares(p)
      BY <3>3, <3>4, <3>5, <3>6, <3>7 DEF Fares
    <3>9. Grown /\ Sources' = Sources
      BY <3>1 DEF Grown, Sources, tracker
    <3>. QED
      BY <1>0, <3>1, <3>2, <3>8, <3>9, SpreadAlone
  <2>7. ASSUME NEW p \in Peers, NEW s \in Peers \cup {None},
               Connect(p, s) \/ Reset(p, s) \/ Stall(p, s)
        PROVE  SpreadInv'
    <3>1. /\ console[p].op = "fetch" /\ console'[p].op = "fetch"
          /\ console'[p].plan = console[p].plan /\ console'[p].want = console[p].want
          /\ console'[p].src = s
          /\ \A q \in Peers \ {p} : console'[q] = console[q]
          /\ UNCHANGED <<disk, tracker, touched, rewritten, strays, killed>>
      BY <1>0, <2>0, <2>7, Relinked
    <3>2. Busy(p) /\ Busy(p)'
      BY <3>1 DEF Busy
    <3>3. \E k \in Pieces : s \in console[p].plan[k]
      <4>1. CASE Connect(p, s)
        <5>1. /\ console[p] \in Fetches /\ Piece(p) \in Pieces
              /\ \/ console[p].tries = 0 /\ s \in console[p].plan[Piece(p)]
                 \/ console[p].tries # 0 /\ s = console[p].src
          BY <1>0, <3>1, <4>1, FetchingConsole DEF Connect, Asks
        <5>2. KeepsToPlan(p)
          BY DEF SpreadInv
        <5>3. console[p].tries # 0 => console[p].tries > 0
          BY <5>1, PieceTransferAssumption DEF Fetches
        <5>. QED
          BY <3>1, <5>1, <5>2, <5>3 DEF KeepsToPlan
      <4>2. CASE Reset(p, s) \/ Stall(p, s)
        <5>1. Linked(p) /\ console[p].src = s
          BY <4>2 DEF Reset, Stall, Connected, Linked
        <5>. QED
          BY <5>1, LinkTrusted
      <4>. QED
        BY <2>7, <4>1, <4>2
    <3>4. KeepsToPlan(p)'
      BY <3>1, <3>3 DEF KeepsToPlan
    <3>5. WantsOther(p)'
      BY <3>1, <3>2 DEF SpreadInv, WantsOther
    <3>6. Trusted(p) => Trusted(p)'
      BY <3>1, <3>2 DEF Trusted
    <3>7. Fares(p)
      BY <3>1, <3>2, <3>4, <3>5, <3>6 DEF Fares
    <3>8. Grown /\ Sources' = Sources
      BY <3>1 DEF Grown, Sources, tracker
    <3>. QED
      BY <1>0, <3>1, <3>7, <3>8, SpreadAlone
  <2>8. ASSUME NEW p \in Peers, NEW s \in Peers \cup {None}, ServerExits(p, s)
        PROVE  SpreadInv'
    <3>1. /\ s \in Peers /\ s # p /\ console[p].op = "fetch" /\ Busy(p)
          /\ console'[p] = Retry(p) /\ console'[s] = Idle
          /\ \A q \in Peers \ {p, s} : Kept(q)
      BY <1>0, <2>8, ExitedConsoles
    <3>2. /\ disk[s] = Absent /\ killed' = killed \cup {s}
          /\ touched' = touched \cup Interrupted(s)
          /\ UNCHANGED <<disk, list, rewritten, strays>>
          /\ Linked(p) /\ console[p].src = s
      BY <2>8 DEF ServerExits, Connected, Linked, tracker
    <3>3. s \in touched \cup rewritten
      <4>1. Trusted(s)
        BY <3>2, LinkTrusted
      <4>. QED
        BY <3>2, <4>1 DEF Trusted, Held
    <3>4. Grown /\ Sources' = Sources
      BY <3>2 DEF Grown, Sources
    <3>5. Fares(s)
      <4>1. ~Busy(s)' /\ console'[s].op # "seed"
        BY <3>1, SimpleConsoles DEF Busy
      <4>2. KeepsToPlan(s)' /\ WantsOther(s)'
        BY <3>1, <4>1, SimpleConsoles DEF KeepsToPlan, WantsOther
      <4>3. Trusted(s)' /\ disk'[s] = Absent
        BY <3>2, <3>3 DEF Trusted
      <4>. QED
        BY <4>1, <4>2, <4>3 DEF Fares
    <3>6. Fares(p)
      <4>1. /\ console'[p].op \in {"fetch", "verify"}
            /\ console'[p].plan = console[p].plan /\ console'[p].want = console[p].want
            /\ console'[p].op = "fetch" =>
                 /\ console'[p].link = "none"
                 /\ console'[p].tries = 0 \/ console'[p].src = console[p].src
        BY <1>0, <3>1, NextConsole, RetryConsole
      <4>2. Busy(p)' /\ console'[p].op # "seed" /\ ~Linked(p)'
        BY <4>1 DEF Busy, Linked
      <4>3. Trusted(p) => Trusted(p)'
        BY <3>1, <3>2 DEF Trusted
      <4>4. WantsOther(p)'
        BY <3>1, <3>2, <4>1 DEF SpreadInv, WantsOther
      <4>5. KeepsToPlan(p)'
        <5>1. \E k \in Pieces : console[p].src \in console[p].plan[k]
          BY <3>2, LinkTrusted
        <5>2. console'[p].op = "fetch" /\ console'[p].tries > 0
                => console'[p].src = console[p].src
          BY <4>1
        <5>. QED
          BY <4>1, <4>2, <5>1, <5>2 DEF KeepsToPlan
      <4>. QED
        BY <3>1, <4>1, <4>2, <4>3, <4>4, <4>5 DEF Fares
    <3>7. PICK A \in SUBSET Peers : A = {p, s}
      BY <3>1
    <3>8. (\A q \in A : Fares(q)) /\ \A q \in Peers \ A : q \in Peers \ {p, s}
      BY <3>5, <3>6, <3>7
    <3>9. killed' \subseteq killed \cup touched' \cup rewritten'
      BY <3>2, <3>3
    <3>. QED
      BY <1>0, <3>1, <3>2, <3>4, <3>8, <3>9, SpreadFrame
  <2>9. ASSUME NEW p \in Peers, Verify(p)
        PROVE  SpreadInv'
    <3>1. /\ Busy(p)
          /\ \/ /\ Matches(p) /\ console'[p] = Seeding(0) /\ UNCHANGED disk
             \/ console'[p] = Idle /\ disk'[p] = Absent
          /\ \A q \in Peers \ {p} : console'[q] = console[q] /\ disk'[q] = disk[q]
          /\ UNCHANGED <<list, killed, touched, rewritten, strays>>
      BY <1>0, <2>0, <2>9, VerifyConsole
    <3>2. Seeding(0).op = "seed" /\ Idle.op = "idle"
      BY SimpleConsoles
    <3>3. ~Busy(p)' /\ KeepsToPlan(p)' /\ WantsOther(p)'
      BY <3>1, <3>2 DEF Busy, KeepsToPlan, WantsOther
    <3>4. Matches(p) => p \in strays \/ disk[p] = Exact
      <4>1. console[p].op = "verify"
        BY <2>9 DEF Verify
      <4>2. console[p].want \in {"file", "other"}
        BY <1>0, <4>1 DEF TypeOK, Consoles, Fetches, Idle, Hashes
      <4>3. WantsOther(p)
        BY DEF SpreadInv
      <4>. QED
        BY <3>1, <4>2, <4>3 DEF Matches, WantsOther
    <3>5. /\ console'[p].op = "seed" => Held(p)'
          /\ p \in strays' \/ disk'[p] \in {Exact, Absent}
      BY <1>0, <3>1, <3>2, <3>4 DEF Held, TypeInv
    <3>6. Trusted(p) => Trusted(p)'
      BY <3>1 DEF Trusted
    <3>7. Fares(p)
      BY <3>3, <3>5, <3>6 DEF Fares
    <3>8. Grown /\ Sources' = Sources
      BY <3>1 DEF Grown, Sources
    <3>. QED
      BY <1>0, <3>1, <3>7, <3>8, SpreadAlone
  <2>10. ASSUME NEW p \in Peers, AnnounceScan(p) \/ AnnounceAppend(p)
         PROVE  SpreadInv'
    <3>1. console[p].op = "seed" /\ UNCHANGED <<disk, touched, rewritten, strays, killed>>
      BY <1>0, <2>10, AnnounceConsole
    <3>2. PICK c \in Consoles : (c.op = "idle" \/ c.op = "seed") /\ Turn(p, c)
      BY <1>0, <2>10, AnnounceConsole
    <3>3. console'[p] = c /\ \A q \in Peers \ {p} : console'[q] = console[q]
      BY <1>0, <3>2, TurnConsole
    <3>4. Held(p) /\ Held(p)'
      BY <3>1 DEF SpreadInv, Held
    <3>5. ~Busy(p)' /\ KeepsToPlan(p)' /\ WantsOther(p)'
      BY <3>2, <3>3 DEF Busy, KeepsToPlan, WantsOther
    <3>6. Trusted(p)'
      BY <3>4, <3>5 DEF Trusted
    <3>7. Fares(p)
      BY <3>4, <3>5, <3>6 DEF Fares, Held
    <3>8. Sources' \subseteq Sources \cup {p}
      BY <1>0, <2>10, SourcesGrow
    <3>9. Grown
      BY <3>1 DEF Grown
    <3>. QED
      BY <1>0, <3>1, <3>3, <3>6, <3>7, <3>8, <3>9, SpreadAlone
  <2>11. ASSUME NEW p \in Peers, Touch(p)
         PROVE  SpreadInv'
    <3>1. /\ UNCHANGED <<console, list, killed, rewritten, strays>>
          /\ console[p].op = "idle" /\ touched' = touched \cup {p}
          /\ \A q \in Peers \ {p} : disk'[q] = disk[q]
      BY <1>0, <2>11, SimpleConsoles DEF Touch, tracker, TypeOK
    <3>2. ~Busy(p)' /\ KeepsToPlan(p)' /\ WantsOther(p)' /\ Trusted(p)'
      BY <3>1 DEF Busy, KeepsToPlan, WantsOther, Trusted
    <3>3. Fares(p)
      BY <3>1, <3>2 DEF Fares
    <3>4. Grown /\ Sources' = Sources
      BY <3>1 DEF Grown, Sources
    <3>. QED
      BY <1>0, <3>1, <3>3, <3>4, SpreadAlone
  <2>. QED
    BY <1>2, <2>1, <2>2, <2>3, <2>4, <2>5, <2>6, <2>7, <2>8, <2>9, <2>10, <2>11
       DEF Next, Attempt, Network
<1>. QED
  BY <1>1, <1>2


\* Whatever is published under the name and fetched, from whomever and however
\* often, a peer that keeps to the file is a source only with the exact file.
THEOREM OnlyTheFileSpreads == Spec => []SeedsAreExact
<1>1. SpreadInv => SeedsAreExact
  BY DEF SpreadInv, Trusted, Held, Spoiled, SeedsAreExact
<1>. QED
  BY <1>1, SpreadInit, SpreadStep, PTL DEF Spec

\* No sequence of downloads makes the exit(1) of a serving thread end a peer that
\* left its file alone: a request reaches only sources of a plan, and those have
\* a file to open.
THEOREM CarefulPeersSurvive == Spec => []OnlySpoiledAreKilled
<1>1. SpreadInv => OnlySpoiledAreKilled
  BY DEF SpreadInv
<1>. QED
  BY <1>1, SpreadInit, SpreadStep, PTL DEF Spec

\* Between downloads a path holds the file or nothing, unless it was touched or
\* another file of the name was there.
THEOREM NothingPartialStays == Spec => []NoPartialLeft
<1>1. SpreadInv => NoPartialLeft
  BY DEF SpreadInv
<1>. QED
  BY <1>1, SpreadInit, SpreadStep, PTL DEF Spec

-----------------------------------------------------------------------------
(***************************************************************************)
(* What a download is sure of: while nothing is disturbed, the pieces that *)
(* are done with are right.                                                *)
(***************************************************************************)
Undisturbed(p) ==
  /\ ~broken /\ p \notin touched \cup strays
  /\ \A k \in Pieces : /\ console[p].plan[k] # {}
                       /\ console[p].plan[k] \cap (Spoiled \cup {None}) = {}

Todo(p) == IF console[p].op = "fetch" THEN console[p].todo ELSE {}

Progress(p) ==
  Busy(p) /\ Undisturbed(p) =>
    /\ ~disk[p].longer
    /\ \A k \in Pieces \ Todo(p) : disk[p].data[k] = "right"

\* Until something breaks everybody is up and no connection is lost.
Whole(p) == ~broken => alive[p] /\ ~(console[p].op = "fetch" /\ console[p].link = "lost")

ProgressInv ==
  /\ SpreadInv
  /\ \A p \in Peers : Whole(p) /\ Progress(p)

LEMMA ProgressInit == Init => ProgressInv
BY SpreadInit, SimpleConsoles DEF Init, ProgressInv, Progress, Whole, Busy

\* A step after which something has broken is none of these facts' concern.
LEMMA ProgressBroken ==
  ASSUME SpreadInv', broken'
  PROVE  ProgressInv'
BY DEF ProgressInv, Progress, Whole, Undisturbed

LEMMA ProgressFrame ==
  ASSUME ProgressInv, SpreadInv', NEW p \in Peers,
         \A q \in Peers \ {p} : disk'[q] = disk[q] /\ console'[q] = console[q],
         Grown, broken => broken',
         \A q \in Peers : alive[q] => alive'[q],
         Progress(p)', Whole(p)'
  PROVE  ProgressInv'
<1>1. ASSUME NEW q \in Peers, q # p
      PROVE  Progress(q)' /\ Whole(q)'
  <2>1. Progress(q) /\ Whole(q) /\ disk'[q] = disk[q] /\ console'[q] = console[q]
    BY <1>1 DEF ProgressInv
  <2>2. Undisturbed(q)' => Undisturbed(q)
    BY <1>1, <2>1 DEF Undisturbed, Grown, Spoiled
  <2>3. Progress(q)'
    BY <2>1, <2>2 DEF Progress, Busy, Todo
  <2>4. Whole(q)'
    BY <2>1 DEF Whole
  <2>. QED
    BY <2>3, <2>4
<1>. QED
  BY <1>1 DEF ProgressInv

\* The same after a step that leaves p out of any download.
LEMMA ProgressIdle ==
  ASSUME ProgressInv, SpreadInv', NEW p \in Peers,
         \A q \in Peers \ {p} : disk'[q] = disk[q] /\ console'[q] = console[q],
         Grown, UNCHANGED <<alive, broken>>, ~Busy(p)'
  PROVE  ProgressInv'
<1>1. Progress(p)'
  BY DEF Progress
<1>2. Whole(p)'
  <2>1. Whole(p) /\ console'[p].op # "fetch"
    BY DEF ProgressInv, Busy
  <2>. QED
    BY <2>1 DEF Whole
<1>. QED
  BY <1>1, <1>2, ProgressFrame

LEMMA WrittenFields ==
  ASSUME NEW c \in Content, NEW k \in Pieces, NEW d \in {"right", "wrong"}
  PROVE  /\ ~c.longer => ~Written(c, k, d, FALSE).longer
         /\ Written(c, k, d, FALSE).data[k] = d
         /\ \A j \in Pieces \ {k} : Written(c, k, d, FALSE).data[j] = c.data[j]
<1>1. Written(c, k, d, FALSE).data = [c.data EXCEPT ![k] = d]
  BY Zenon DEF Written
<1>2. ~c.longer => ~Written(c, k, d, FALSE).longer
  BY Zenon DEF Written
<1>. QED
  BY <1>1, <1>2 DEF Content

LEMMA ExactFields ==
  ~Exact.longer /\ ~Holes.longer /\ \A k \in Pieces : Exact.data[k] = "right"
<1>1. ~Exact.longer /\ ~Holes.longer
  BY Zenon DEF Exact, Holes
<1>2. \A k \in Pieces : Exact.data[k] = "right"
  BY DEF Exact
<1>. QED
  BY <1>1, <1>2

\* The source asked, whether for the first time or again, is one of the plan.
LEMMA AsksPlanned ==
  ASSUME SpreadInv, NEW p \in Peers, NEW s \in Peers \cup {None}, Asks(p, s)
  PROVE  \E k \in Pieces : s \in console[p].plan[k]
<1>0. TypeOK /\ KeepsToPlan(p) /\ console[p].op = "fetch"
  BY DEF SpreadInv, TypeInv, Asks
<1>1. console[p] \in Fetches /\ Piece(p) \in Pieces
  BY <1>0, FetchingConsole
<1>2. \/ console[p].tries = 0 /\ s \in console[p].plan[Piece(p)]
      \/ console[p].tries # 0 /\ s = console[p].src
  BY DEF Asks
<1>3. console[p].tries # 0 => console[p].tries > 0
  BY <1>1, PieceTransferAssumption DEF Fetches
<1>. QED
  BY <1>0, <1>1, <1>2, <1>3 DEF KeepsToPlan

\* An undisturbed download starts with every piece to fetch and no byte behind
\* the end of the file.
LEMMA DownloadStarts ==
  ASSUME SpreadInv, RestOK', NEW p \in Peers, Download(p), Undisturbed(p)'
  PROVE  ~disk'[p].longer /\ Todo(p)' = Pieces
<1>0. TypeInv /\ NoPartialLeft
  BY DEF SpreadInv
<1>1. /\ console[p] = Idle
      /\ \/ console'[p].op = "fetch" /\ console'[p].todo = Planned(console'[p].plan)
         \/ console'[p].op # "fetch" /\ Planned(console'[p].plan) = {}
  BY <1>0, DownloadConsole
<1>2. Overwrite(p) /\ UNCHANGED touched
  BY DEF Download
<1>3. PICK grown \in BOOLEAN : /\ disk' = [disk EXCEPT ![p] = Presized(disk[p], grown)]
                               /\ grown => details = "other"
  BY <1>0, <1>2, Overwritten
<1>4. p \notin touched \cup strays /\ details # "other"
  BY <1>0, <1>2, Overwritten DEF Undisturbed
<1>5. disk[p] \in {Exact, Absent}
  BY <1>0, <1>1, <1>4, SimpleConsoles DEF NoPartialLeft
<1>6. disk'[p] = Presized(disk[p], FALSE)
  <2>1. grown = FALSE
    BY <1>3, <1>4
  <2>. QED
    BY <1>0, <1>3, <2>1 DEF TypeInv, TypeOK
<1>7. Last \in Pieces
  BY PieceTransferAssumption DEF Last, Pieces
<1>8. ~Presized(disk[p], FALSE).longer
  BY <1>5, <1>7, ExactIsFile, ExactFields, WrittenFields DEF Presized
<1>9. Planned(console'[p].plan) = Pieces /\ Pieces # {}
  BY <1>7 DEF Undisturbed, Planned
<1>10. Todo(p)' = Pieces
  BY <1>1, <1>9 DEF Todo
<1>. QED
  BY <1>6, <1>8, <1>10

\* What an undisturbed console has been served is right.
LEMMA AttemptProgress ==
  ASSUME ProgressInv, SpreadInv', RestOK', NEW p \in Peers, NEW s \in Peers \cup {None},
         Refused(p, s) \/ Serve(p, s) \/ Lost(p),
         Undisturbed(p)'
  PROVE  ~disk'[p].longer /\ \A k \in Pieces \ Todo(p)' : disk'[p].data[k] = "right"
<1>0. SpreadInv /\ TypeInv /\ TypeOK /\ Progress(p) /\ Whole(p)
  BY DEF ProgressInv, SpreadInv, TypeInv
<1>1. /\ Over(p) /\ console[p].op = "fetch" /\ UNCHANGED <<touched, rewritten, strays>>
      /\ Serve(p, s) => /\ s \in Peers
                        /\ disk'[p] = Written(disk[p], Piece(p), disk[s].data[Piece(p)],
                                              Grows(s, Piece(p)))
  BY <1>0, AttemptOver
<1>2. UNCHANGED <<alive, broken>>
  BY DEF Refused, Serve, Lost, history
<1>3. Piece(p) \in Pieces /\ disk[p] \in Content /\ Busy(p)
  BY <1>0, <1>1, FetchingConsole DEF TypeInv, TypeOK, Busy
<1>4. /\ console'[p].plan = console[p].plan
      /\ \/ console'[p].op = "fetch" /\ console'[p].todo = console[p].todo \ {Piece(p)}
         \/ console'[p].op = "fetch" /\ console'[p].todo = console[p].todo
         \/ console'[p].op # "fetch" /\ console[p].todo = {Piece(p)}
  BY <1>0, <1>1, NextConsole, RetryConsole DEF Over
<1>5. Pieces \ Todo(p)' \subseteq (Pieces \ Todo(p)) \cup {Piece(p)}
  BY <1>1, <1>4 DEF Todo
<1>6. Undisturbed(p)
  BY <1>1, <1>2, <1>4 DEF Undisturbed, Spoiled
<1>7. ~disk[p].longer /\ \A k \in Pieces \ Todo(p) : disk[p].data[k] = "right"
  BY <1>0, <1>3, <1>6 DEF Progress
<1>8. ~Lost(p)
  BY <1>0, <1>6 DEF Lost, Whole, Undisturbed
<1>9. ~Refused(p, s)
  <2>1. ASSUME Refused(p, s)
        PROVE  FALSE
    <3>1. PICK k \in Pieces : s \in console[p].plan[k]
      BY <1>0, <2>1, AsksPlanned DEF Refused
    <3>2. s \in Peers /\ ~alive[s]
      BY <1>6, <2>1, <3>1 DEF Undisturbed, Refused, Up
    <3>3. Whole(s)
      BY <3>2 DEF ProgressInv
    <3>. QED
      BY <1>6, <3>2, <3>3 DEF Whole, Undisturbed
  <2>. QED
    BY <2>1
<1>10. Serve(p, s)
  BY <1>8, <1>9
<1>11. disk[s] = Exact
  <2>1. Linked(p) /\ console[p].src = s
    BY <1>10 DEF Serve, Connected, Linked
  <2>2. Trusted(s) /\ \E k \in Pieces : s \in console[p].plan[k]
    BY <1>0, <2>1, LinkTrusted
  <2>3. s \notin Spoiled
    BY <1>6, <2>2 DEF Undisturbed
  <2>. QED
    BY <2>2, <2>3 DEF Trusted, Held, Spoiled
<1>12. disk[s].data[Piece(p)] = "right" /\ Grows(s, Piece(p)) = FALSE
  BY <1>3, <1>11, ExactFields DEF Grows
<1>. DEFINE f == Written(disk[p], Piece(p), "right", FALSE)
<1>13. disk'[p] = f
  BY <1>1, <1>10, <1>12
<1>14. /\ ~disk[p].longer => ~f.longer
       /\ f.data[Piece(p)] = "right"
       /\ \A j \in Pieces \ {Piece(p)} : f.data[j] = disk[p].data[j]
  BY <1>3, WrittenFields
<1>. HIDE DEF f
<1>15. /\ ~disk'[p].longer /\ disk'[p].data[Piece(p)] = "right"
       /\ \A j \in Pieces \ {Piece(p)} : disk'[p].data[j] = disk[p].data[j]
  BY Zenon, <1>7, <1>13, <1>14
<1>. QED
  BY <1>5, <1>7, <1>15

LEMMA ProgressStep == ProgressInv /\ [Next]_vars => ProgressInv'
<1>. SUFFICES ASSUME ProgressInv, [Next]_vars PROVE ProgressInv'
  OBVIOUS
<1>0. SpreadInv /\ SpreadInv' /\ TypeInv /\ TypeOK
  BY SpreadStep DEF ProgressInv, SpreadInv, TypeInv
<1>1. CASE UNCHANGED vars
  BY <1>0, <1>1 DEF vars, history, ProgressInv, Progress, Whole, Undisturbed, Todo, Busy, Spoiled
<1>2. CASE Next
  <2>0. RestOK'
    BY <1>0, <1>2, RestStep
  <2>1. ASSUME NEW p \in Peers,
               Upload(p) \/ Verify(p) \/ AnnounceScan(p) \/ AnnounceAppend(p) \/ Touch(p)
        PROVE  ProgressInv'
    <3>1. UNCHANGED <<alive, broken>> /\ Grown
      BY <2>1 DEF Upload, Verify, AnnounceScan, AnnounceAppend, Touch, history, Grown
    <3>2. ~Busy(p)' /\ \A q \in Peers \ {p} : console'[q] = console[q] /\ disk'[q] = disk[q]
      <4>1. CASE Upload(p)
        BY <1>0, <2>0, <4>1, SimpleConsoles, CommandTypes DEF Upload, Busy
      <4>2. CASE Verify(p)
        BY <1>0, <2>0, <4>2, SimpleConsoles, VerifyConsole DEF Busy
      <4>3. CASE AnnounceScan(p) \/ AnnounceAppend(p)
        <5>1. UNCHANGED disk
          BY <1>0, <4>3, AnnounceConsole
        <5>2. PICK c \in Consoles : (c.op = "idle" \/ c.op = "seed") /\ Turn(p, c)
          BY <1>0, <4>3, AnnounceConsole
        <5>. QED
          BY <1>0, <2>0, <5>1, <5>2, CommandTypes DEF Busy
      <4>4. CASE Touch(p)
        BY <1>0, <4>4, SimpleConsoles DEF Touch, TypeOK, Busy
      <4>. QED
        BY <2>1, <4>1, <4>2, <4>3, <4>4
    <3>. QED
      BY <1>0, <3>1, <3>2, ProgressIdle
  <2>2. ASSUME NEW p \in Peers, StopShare(p) \/ Restart(p)
        PROVE  ProgressInv'
    <3>1. UNCHANGED <<disk, console, touched, rewritten, strays, broken>>
      BY <2>2 DEF StopShare, Restart, history
    <3>2. \A q \in Peers : alive[q] => alive'[q]
      BY <1>0, <2>2 DEF StopShare, Restart, TypeOK
    <3>3. ASSUME NEW q \in Peers
          PROVE  Progress(q)' /\ Whole(q)'
      <4>1. Progress(q) /\ Whole(q)
        BY DEF ProgressInv
      <4>2. Progress(q)'
        BY <3>1, <4>1 DEF Progress, Undisturbed, Todo, Busy, Spoiled
      <4>3. Whole(q)'
        BY <3>1, <3>2, <4>1 DEF Whole
      <4>. QED
        BY <4>2, <4>3
    <3>. QED
      BY <1>0, <3>3 DEF ProgressInv
  <2>3. ASSUME NEW p \in Peers, Download(p)
        PROVE  ProgressInv'
    <3>1. UNCHANGED <<alive, broken, touched>>
      BY <2>3 DEF Download
    <3>2. Grown
      BY <1>0, <2>3, <3>1, Overwritten DEF Download, Grown
    <3>3. /\ ~Linked(p)'
          /\ \A q \in Peers \ {p} : console'[q] = console[q] /\ disk'[q] = disk[q]
      BY <1>0, <2>0, <2>3, DownloadConsole
    <3>4. Progress(p)'
      <4>1. Undisturbed(p)' => ~disk'[p].longer /\ Todo(p)' = Pieces
        BY <1>0, <2>0, <2>3, DownloadStarts
      <4>. QED
        BY <4>1 DEF Progress
    <3>5. Whole(p)'
      <4>1. Whole(p)
        BY DEF ProgressInv
      <4>. QED
        BY <3>1, <3>3, <4>1 DEF Whole, Linked
    <3>. QED
      BY <1>0, <3>1, <3>2, <3>3, <3>4, <3>5, ProgressFrame
  <2>4. ASSUME NEW p \in Peers, NEW s \in Peers \cup {None},
               Refused(p, s) \/ Serve(p, s) \/ Lost(p)
        PROVE  ProgressInv'
    <3>1. /\ Over(p) /\ console[p].op = "fetch" /\ UNCHANGED <<touched, rewritten, strays>>
      BY <1>0, <2>0, <2>4, AttemptOver
    <3>2. UNCHANGED <<alive, broken>> /\ Grown
      BY <2>4, <3>1 DEF Refused, Serve, Lost, history, Grown
    <3>3. Progress(p)'
      <4>1. Undisturbed(p)' => /\ ~disk'[p].longer
                               /\ \A k \in Pieces \ Todo(p)' : disk'[p].data[k] = "right"
        BY <1>0, <2>0, <2>4, AttemptProgress
      <4>. QED
        BY <4>1 DEF Progress
    <3>4. Whole(p)'
      <4>1. console'[p].op = "fetch" => console'[p].link = "none"
        BY <1>0, <3>1, NextConsole, RetryConsole DEF Over
      <4>2. Whole(p)
        BY DEF ProgressInv
      <4>. QED
        BY <3>2, <4>1, <4>2 DEF Whole
    <3>. QED
      BY <1>0, <3>1, <3>2, <3>3, <3>4, ProgressFrame DEF Over
  <2>5. ASSUME NEW p \in Peers, NEW s \in Peers \cup {None}, Connect(p, s)
        PROVE  ProgressInv'
    <3>1. /\ console[p].op = "fetch" /\ console'[p].op = "fetch"
          /\ console'[p].plan = console[p].plan /\ console'[p].todo = console[p].todo
          /\ console'[p].link = "open"
          /\ \A q \in Peers \ {p} : console'[q] = console[q]
      BY <1>0, <2>0, <2>5, Relinked
    <3>2. UNCHANGED <<alive, disk, touched, rewritten, strays, broken>>
      BY <2>5 DEF Connect, history
    <3>3. Grown
      BY <3>2 DEF Grown
    <3>4. Progress(p)'
      <4>1. Progress(p) /\ Busy(p) /\ Todo(p)' = Todo(p)
        BY <3>1 DEF ProgressInv, Busy, Todo
      <4>2. Undisturbed(p)' => Undisturbed(p)
        BY <3>1, <3>2 DEF Undisturbed, Spoiled
      <4>. QED
        BY <3>2, <4>1, <4>2 DEF Progress
    <3>5. Whole(p)'
      <4>1. Whole(p)
        BY DEF ProgressInv
      <4>. QED
        BY <3>1, <3>2, <4>1 DEF Whole
    <3>. QED
      BY <1>0, <3>1, <3>2, <3>3, <3>4, <3>5, ProgressFrame
  <2>6. ASSUME NEW p \in Peers, NEW s \in Peers \cup {None},
               \/ DownloadAborts(p) \/ Quit(p) \/ SigPipe(p) \/ ServerExits(p, s)
               \/ Reset(p, s) \/ Stall(p, s) \/ Unreachable(p, s)
        PROVE  ProgressInv'
    <3>1. broken'
      BY <2>6 DEF DownloadAborts, Quit, SigPipe, ServerExits, Reset, Stall, Unreachable, End
    <3>. QED
      BY <1>0, <3>1, ProgressBroken
  <2>. QED
    BY <1>2, <2>1, <2>2, <2>3, <2>4, <2>5, <2>6 DEF Next, Attempt, Network
<1>. QED
  BY <1>1, <1>2

\* A download that nothing disturbs gets the file, for any number of pieces and
\* retries: each piece is asked for at least once, from a source that has it.
THEOREM UndisturbedDownloadsSucceed == Spec => []CleanDownloadIsExact
<1>1. ASSUME ProgressInv, NEW p \in Peers, console[p].op = "verify", Undisturbed(p)
      PROVE  disk[p] = Exact
  <2>1. disk[p] \in Content
    BY <1>1 DEF ProgressInv, SpreadInv, TypeInv, TypeOK, Busy
  <2>2. ~disk[p].longer /\ \A k \in Pieces : disk[p].data[k] = "right"
    BY <1>1 DEF ProgressInv, Progress, Busy, Todo
  <2>3. disk[p].longer = FALSE /\ disk[p].data = [k \in Pieces |-> "right"]
    BY <2>1, <2>2 DEF Content
  <2>4. disk[p] = [data |-> disk[p].data, longer |-> disk[p].longer]
    BY <2>1 DEF Content
  <2>. QED
    BY <2>3, <2>4 DEF Exact
<1>2. ProgressInv => CleanDownloadIsExact
  BY <1>1 DEF CleanDownloadIsExact, Undisturbed
<1>. QED
  BY <1>2, ProgressInit, ProgressStep, PTL DEF Spec
=============================================================================
