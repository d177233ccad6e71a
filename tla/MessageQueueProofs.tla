------------------------- MODULE MessageQueueProofs -------------------------
(***************************************************************************)
(* Proofs about the reply queue: the list is well formed, a scan never     *)
(* stands on a deleted node, no wake-up is lost, and the list with its     *)
(* locking implements the box of ReplyBox.                                 *)
(***************************************************************************)
EXTENDS MessageQueue, FunctionTheorems, FiniteSetTheorems, SequenceTheorems,
        WellFoundedInduction, TLAPS

-----------------------------------------------------------------------------
\* Induction, for a set of numbers: the order of the numbers is well founded.
LEMMA Induction ==
  ASSUME NEW T, 0 \in T, \A n \in Nat : n \in T => n + 1 \in T
  PROVE  Nat \subseteq T
<1> SUFFICES ASSUME Nat \ T # {}
             PROVE  FALSE
  OBVIOUS
<1>1. PICK x \in Nat \ T : \A y \in Nat \ T : ~(<<y, x>> \in OpToRel(<, Nat))
  BY NatLessThanWellFounded, WFMin, Nat \ T \subseteq Nat
<1>2. \A y \in Nat \ T : ~ (y < x)
  BY <1>1 DEF OpToRel
<1>3. x # 0
  OBVIOUS
<1>4. x - 1 \in Nat /\ (x - 1) + 1 = x /\ x - 1 < x
  BY <1>3
<1>. QED
  BY <1>1, <1>2, <1>4

-----------------------------------------------------------------------------
(***************************************************************************)
(* Links.  Heads and links are parameters, so that the lemmas hold before  *)
(* and after a step.                                                       *)
(***************************************************************************)
LeadsIn(h, nx, s) ==
  /\ h = IF s = <<>> THEN None ELSE s[1]
  /\ \A k \in DOMAIN s : nx[s[k]] = IF k = Len(s) THEN None ELSE s[k + 1]

ChainIn(h, nx) == CHOOSE s \in Lists : LeadsIn(h, nx, s)

LEMMA ListsAreSequences ==
  ASSUME NEW s \in Lists
  PROVE  s \in Seq(Cells)
<1>1. Cardinality(Cells) \in Nat
  BY FS_CardinalityType, MessageQueueAssumption
<1>2. PICK m \in 0 .. Cardinality(Cells) : s \in [1 .. m -> Cells]
  BY DEF Lists, SeqOf
<1>. QED
  BY <1>1, <1>2

\* Nodes that are all different are no more than there are.
LEMMA InjectiveIsList ==
  ASSUME NEW s \in Seq(Cells), IsInjective(s)
  PROVE  s \in Lists
<1>1. s \in Injection(1 .. Len(s), Cells)
  BY DEF Injection, IsInjective
<1>2. Cardinality(1 .. Len(s)) = Len(s)
  <2>1. 1 \in Int /\ Len(s) \in Nat /\ Len(s) \in Int
    OBVIOUS
  <2>2. Cardinality(1 .. Len(s)) = IF 1 > Len(s) THEN 0 ELSE Len(s) - 1 + 1
    BY <2>1, FS_Interval
  <2>. QED
    BY <2>1, <2>2
<1>3. Len(s) <= Cardinality(Cells) /\ Cardinality(Cells) \in Nat
  BY <1>1, <1>2, FS_Injection, FS_CardinalityType, MessageQueueAssumption
<1>. QED
  BY <1>3 DEF Lists, SeqOf

\* The links from head to null lead through one sequence of nodes only.
LEMMA OneChain ==
  ASSUME NEW h, NEW nx, NEW s \in Seq(Cells), NEW t \in Seq(Cells),
         LeadsIn(h, nx, s), LeadsIn(h, nx, t)
  PROVE  Len(s) <= Len(t) /\ \A k \in 1 .. Len(s) : s[k] = t[k]
<1> DEFINE T == {n \in Nat : n + 1 <= Len(s) => n + 1 <= Len(t) /\ s[n + 1] = t[n + 1]}
<1>1. 0 \in T
  BY MessageQueueAssumption DEF LeadsIn
<1>2. ASSUME NEW n \in Nat, n \in T
      PROVE  n + 1 \in T
  <2>1. CASE n + 2 <= Len(s)
    <3>1. n + 1 \in DOMAIN s /\ n + 1 \in DOMAIN t /\ s[n + 1] = t[n + 1]
      BY <1>2, <2>1
    <3>2. nx[s[n + 1]] = s[n + 2] /\ s[n + 2] \in Cells
      BY <2>1, <3>1 DEF LeadsIn
    <3>3. n + 1 # Len(t)
      BY <3>1, <3>2, MessageQueueAssumption DEF LeadsIn
    <3>4. nx[t[n + 1]] = t[n + 2]
      BY <3>1, <3>3 DEF LeadsIn
    <3>5. n + 2 <= Len(t) /\ n + 2 = (n + 1) + 1
      BY <3>1, <3>3
    <3>6. s[n + 2] = t[n + 2]
      BY <3>1, <3>2, <3>4
    <3>7. s[(n + 1) + 1] = t[(n + 1) + 1] /\ (n + 1) + 1 <= Len(t) /\ n + 1 \in Nat
      BY <3>5, <3>6
    <3>. QED
      BY <3>7
  <2>. QED
    BY <2>1
<1>3. Nat \subseteq T
  BY <1>1, <1>2, Induction
<1>4. ASSUME NEW k \in 1 .. Len(s)
      PROVE  k <= Len(t) /\ s[k] = t[k]
  <2>1. k - 1 \in Nat /\ (k - 1) + 1 = k
    OBVIOUS
  <2>2. k - 1 \in T
    BY <1>3, <2>1
  <2>. QED
    BY <2>1, <2>2
<1>5. Len(s) <= Len(t)
  <2>1. CASE Len(s) = 0
    BY <2>1
  <2>2. CASE Len(s) \in 1 .. Len(s)
    BY <1>4, <2>2
  <2>. QED
    BY <2>1, <2>2
<1>. QED
  BY <1>4, <1>5

LEMMA ChainIs ==
  ASSUME NEW h, NEW nx, NEW s \in Lists, LeadsIn(h, nx, s)
  PROVE  ChainIn(h, nx) = s
<1>1. ChainIn(h, nx) \in Lists /\ LeadsIn(h, nx, ChainIn(h, nx))
  BY DEF ChainIn
<1>2. s \in Seq(Cells) /\ ChainIn(h, nx) \in Seq(Cells)
  BY <1>1, ListsAreSequences
<1>3. Len(s) = Len(ChainIn(h, nx)) /\ \A k \in 1 .. Len(s) : s[k] = ChainIn(h, nx)[k]
  BY <1>1, <1>2, OneChain
<1>. QED
  BY <1>2, <1>3, SeqEqual

LEMMA ChainIsChainIn ==
  /\ Chain = ChainIn(head, next)
  /\ Chain' = ChainIn(head', next')
  /\ \A s : Leads(s) <=> LeadsIn(head, next, s)
  /\ \A s : Leads(s)' <=> LeadsIn(head', next', s)
BY DEF Chain, ChainIn, Leads, LeadsIn

-----------------------------------------------------------------------------
(***************************************************************************)
(* The inductive invariant.                                                *)
(***************************************************************************)
\* The list is well formed at any time, also while the mutex is held: every
\* critical section changes the links at one point.
Linked ==
  /\ Chain \in Lists /\ Leads(Chain)
  /\ tail = IF Chain = <<>> THEN None ELSE Chain[Len(Chain)]
  /\ IsInjective(Chain)
  /\ Range(Chain) \subseteq alloc

\* Until it is linked, the listener's node is one nothing points to.
Pushing ==
  /\ \A x \in alloc : msg[x] \in Messages
  /\ lpc \in {"lock", "link"} =>
       /\ fresh \in alloc \ Range(Chain)
       /\ next[fresh] = None
       /\ msg[fresh].n = pushed + 1

\* Who is in a critical section holds the mutex.
Locked ==
  /\ mutex = Listener <=> lpc \in {"link", "wake"}
  /\ \A c \in Consumers : mutex = c <=> pc[c] = "scan"

\* The two pointers of a scan stand side by side, and no message before them
\* is the one that is wanted.
Standing(c) ==
  \E k \in 1 .. Len(Chain) + 1 :
    /\ current[c] = IF k = Len(Chain) + 1 THEN None ELSE Chain[k]
    /\ prev[c] = IF k = 1 THEN None ELSE Chain[k - 1]
    /\ \A j \in 1 .. k - 1 : msg[Chain[j]].id # want[c]

Popping ==
  \A c \in Consumers :
    /\ want[c] = None <=> pc[c] = "out"
    /\ c \in asleep => pc[c] = "waiting"
    /\ pc[c] = "scan" => Standing(c)

\* Whoever sleeps while its message is in the list is about to be woken.
NoWakeupLost ==
  \A c \in asleep :
    (\E k \in DOMAIN Chain : msg[Chain[k]].id = want[c]) => lpc = "wake"

QueueInv == TypeOK /\ Linked /\ Pushing /\ Locked /\ Popping /\ NoWakeupLost

-----------------------------------------------------------------------------
LEMMA ChainElements ==
  ASSUME Linked
  PROVE  /\ Chain \in Seq(Cells) /\ Len(Chain) \in Nat /\ DOMAIN Chain = 1 .. Len(Chain)
         /\ \A k \in 1 .. Len(Chain) : Chain[k] \in Cells /\ Chain[k] \in alloc /\ Chain[k] # None
         /\ \A j, k \in 1 .. Len(Chain) : Chain[j] = Chain[k] => j = k
         /\ LeadsIn(head, next, Chain)
<1>1. Chain \in Seq(Cells)
  BY ListsAreSequences DEF Linked
<1>. QED
  BY <1>1, ChainIsChainIn, MessageQueueAssumption DEF Linked, Range, IsInjective

\* To show the list well formed after a step, name the sequence it becomes.
LEMMA LinkedAs ==
  ASSUME NEW t \in Seq(Cells), LeadsIn(head', next', t),
         tail' = IF t = <<>> THEN None ELSE t[Len(t)],
         \A j, k \in 1 .. Len(t) : t[j] = t[k] => j = k,
         \A k \in 1 .. Len(t) : t[k] \in alloc'
  PROVE  Linked' /\ Chain' = t
<1>1. IsInjective(t)
  BY DEF IsInjective
<1>2. t \in Lists
  BY <1>1, InjectiveIsList
<1>3. Chain' = t
  BY <1>2, ChainIs, ChainIsChainIn
<1>4. Lists' = Lists
  BY DEF Lists
<1>. QED
  BY <1>1, <1>2, <1>3, <1>4, ChainIsChainIn DEF Linked, Range

LEMMA LinksKept ==
  ASSUME Linked, UNCHANGED <<head, tail>>, alloc \subseteq alloc',
         \A x \in alloc : next'[x] = next[x]
  PROVE  Linked' /\ Chain' = Chain
<1>1. LeadsIn(head', next', Chain)
  BY ChainElements DEF LeadsIn
<1>. QED
  BY <1>1, ChainElements, LinkedAs DEF Linked

LEMMA StandingKept ==
  ASSUME Linked, Chain' = Chain, \A x \in alloc : msg'[x] = msg[x],
         NEW c \in Consumers, Standing(c), UNCHANGED <<want[c], prev[c], current[c]>>
  PROVE  Standing(c)'
BY ChainElements DEF Standing

LEMMA QueueInit == Init => QueueInv
<1> SUFFICES ASSUME Init
             PROVE  QueueInv
  OBVIOUS
<1>1. TypeOK
  BY MessageQueueAssumption DEF Init, InitRest, TypeOK
<1>2. LeadsIn(head, next, <<>>) /\ <<>> \in Lists /\ IsInjective(<<>>)
  <2>1. <<>> \in Seq(Cells) /\ IsInjective(<<>>)
    BY DEF IsInjective
  <2>2. LeadsIn(head, next, <<>>)
    BY DEF LeadsIn, Init
  <2>3. <<>> \in Lists
    BY <2>1, InjectiveIsList
  <2>. QED
    BY <2>1, <2>2, <2>3
<1>3. Chain = <<>>
  BY <1>2, ChainIs, ChainIsChainIn
<1>. QED
  BY <1>1, <1>2, <1>3, ChainIsChainIn, MessageQueueAssumption
  DEF Init, InitRest, QueueInv, Linked, Pushing, Locked, Popping, NoWakeupLost, Range

-----------------------------------------------------------------------------
\* Steps that leave the list alone: at most one thread moves, and it does not
\* fall asleep.
LEMMA StillQueue ==
  ASSUME QueueInv, UNCHANGED <<queueVars, pushed>>
  PROVE  /\ Linked' /\ Chain' = Chain
         /\ \A x \in alloc' : msg'[x] \in Messages
         /\ \A c \in Consumers :
              Standing(c) /\ UNCHANGED <<want[c], prev[c], current[c]>> => Standing(c)'
<1>1. Linked' /\ Chain' = Chain
  BY LinksKept DEF QueueInv, queueVars
<1>. QED
  BY <1>1, StandingKept DEF QueueInv, Pushing, queueVars

LEMMA ReceiveStep ==
  ASSUME QueueInv, NEW id \in Ids, Receive(id)
  PROVE  QueueInv'
<1>1. PICK x \in Cells \ alloc :
        /\ alloc' = alloc \cup {x}
        /\ msg' = [msg EXCEPT ![x] = [id |-> id, n |-> pushed + 1]]
        /\ next' = [next EXCEPT ![x] = None]
        /\ fresh' = x
  BY DEF Receive
<1>2. [id |-> id, n |-> pushed + 1] \in Messages
  BY MessageQueueAssumption DEF Receive, QueueInv, TypeOK, Messages
<1>3. TypeOK'
  BY <1>1, <1>2 DEF Receive, QueueInv, TypeOK, popVars
<1>4. Linked' /\ Chain' = Chain
  BY <1>1, LinksKept DEF Receive, QueueInv, TypeOK
<1>5. \A y \in alloc : msg'[y] = msg[y]
  BY <1>1
<1>6. Pushing'
  <2>1. x \notin Range(Chain)
    BY <1>1 DEF QueueInv, Linked
  <2>. QED
    BY <1>1, <1>2, <1>4, <1>5, <2>1 DEF Receive, QueueInv, Pushing, TypeOK
<1>7. Locked'
  BY DEF Receive, QueueInv, Locked, popVars
<1>8. Popping'
  <2>1. \A c \in Consumers : Standing(c) => Standing(c)'
    BY <1>4, <1>5, StandingKept DEF Receive, QueueInv, popVars
  <2>. QED
    BY <2>1 DEF Receive, QueueInv, Popping, popVars
<1>9. NoWakeupLost'
  BY <1>4, <1>5, ChainElements DEF Receive, QueueInv, NoWakeupLost, popVars
<1>. QED
  BY <1>3, <1>4, <1>6, <1>7, <1>8, <1>9 DEF QueueInv

LEMMA PushLockStep ==
  ASSUME QueueInv, PushLock
  PROVE  QueueInv'
<1>1. TypeOK'
  BY DEF PushLock, QueueInv, TypeOK, queueVars, popVars
<1>2. Pushing'
  BY StillQueue DEF PushLock, QueueInv, Pushing, queueVars
<1>3. Locked'
  BY MessageQueueAssumption DEF PushLock, QueueInv, Locked, popVars
<1>4. Popping'
  BY StillQueue DEF PushLock, QueueInv, Popping, popVars
<1>5. NoWakeupLost'
  BY StillQueue DEF PushLock, QueueInv, NoWakeupLost, popVars, queueVars
<1>. QED
  BY <1>1, <1>2, <1>3, <1>4, <1>5, StillQueue DEF QueueInv, PushLock

LEMMA PushWakeStep ==
  ASSUME QueueInv, PushWake
  PROVE  QueueInv'
<1>1. TypeOK'
  BY DEF PushWake, QueueInv, TypeOK, queueVars, popVars
<1>2. Pushing'
  BY StillQueue DEF PushWake, QueueInv, Pushing, queueVars
<1>3. Locked'
  BY MessageQueueAssumption DEF PushWake, QueueInv, Locked, popVars
<1>4. Popping'
  BY StillQueue DEF PushWake, QueueInv, Popping, popVars
<1>5. NoWakeupLost'
  BY DEF PushWake, NoWakeupLost
<1>. QED
  BY <1>1, <1>2, <1>3, <1>4, <1>5, StillQueue DEF QueueInv, PushWake

LEMMA AskStep ==
  ASSUME QueueInv, NEW c \in Consumers, NEW id \in Ids, Ask(c, id)
  PROVE  QueueInv'
<1>1. TypeOK'
  BY DEF Ask, QueueInv, TypeOK, queueVars, listenerVars
<1>2. Pushing'
  BY StillQueue DEF Ask, QueueInv, Pushing, queueVars, listenerVars
<1>3. Locked'
  BY DEF Ask, QueueInv, Locked, TypeOK, listenerVars
<1>4. Popping'
  BY StillQueue, MessageQueueAssumption DEF Ask, QueueInv, Popping, TypeOK, listenerVars
<1>5. NoWakeupLost'
  BY StillQueue DEF Ask, QueueInv, NoWakeupLost, Popping, TypeOK, queueVars, listenerVars
<1>. QED
  BY <1>1, <1>2, <1>3, <1>4, <1>5, StillQueue DEF QueueInv, Ask, listenerVars

LEMMA StartScanStep ==
  ASSUME QueueInv, NEW c \in Consumers, pc[c] \in {"lock", "waiting"}, c \notin asleep, StartScan(c)
  PROVE  QueueInv'
<1>1. TypeOK'
  BY DEF StartScan, QueueInv, TypeOK, queueVars, listenerVars
<1>2. Pushing'
  BY StillQueue DEF StartScan, QueueInv, Pushing, queueVars, listenerVars
<1>3. Locked'
  BY MessageQueueAssumption DEF StartScan, QueueInv, Locked, TypeOK, listenerVars
<1>4. Standing(c)'
  <2>1. head = IF Chain = <<>> THEN None ELSE Chain[1]
    BY DEF QueueInv, Linked, Leads
  <2>2. /\ current'[c] = IF 1 = Len(Chain) + 1 THEN None ELSE Chain[1]
        /\ prev'[c] = None
    BY <2>1, ChainElements DEF StartScan, QueueInv, TypeOK
  <2>3. 1 \in 1 .. Len(Chain) + 1
    BY ChainElements DEF QueueInv
  <2>. QED
    BY <2>2, <2>3, StillQueue DEF StartScan, Standing, listenerVars
<1>5. Popping'
  BY <1>4, StillQueue DEF StartScan, QueueInv, Popping, TypeOK, listenerVars
<1>6. NoWakeupLost'
  BY StillQueue DEF StartScan, QueueInv, NoWakeupLost, queueVars, listenerVars
<1>. QED
  BY <1>1, <1>2, <1>3, <1>5, <1>6, StillQueue DEF QueueInv, StartScan, listenerVars

LEMMA PopSkipStep ==
  ASSUME QueueInv, NEW c \in Consumers, PopSkip(c)
  PROVE  QueueInv'
<1>0. pc[c] = "scan" /\ Standing(c)
  BY DEF PopSkip, QueueInv, Popping
<1>1. PICK k \in 1 .. Len(Chain) + 1 :
        /\ current[c] = IF k = Len(Chain) + 1 THEN None ELSE Chain[k]
        /\ \A j \in 1 .. k - 1 : msg[Chain[j]].id # want[c]
  BY <1>0 DEF Standing
<1>2. k \in 1 .. Len(Chain) /\ current[c] = Chain[k] /\ k + 1 \in 1 .. Len(Chain) + 1
  BY <1>1, ChainElements DEF PopSkip, QueueInv
<1>3. next[Chain[k]] = IF k + 1 = Len(Chain) + 1 THEN None ELSE Chain[k + 1]
  BY <1>2, ChainElements DEF LeadsIn, QueueInv
<1>4. TypeOK'
  BY <1>2, ChainElements DEF PopSkip, QueueInv, TypeOK, queueVars, listenerVars
<1>5. Pushing'
  BY StillQueue DEF PopSkip, QueueInv, Pushing, queueVars, listenerVars
<1>6. Locked'
  BY DEF PopSkip, QueueInv, Locked, listenerVars
<1>7. Standing(c)'
  <2>1. current'[c] = next[Chain[k]] /\ prev'[c] = Chain[k]
    BY <1>2 DEF PopSkip, QueueInv, TypeOK
  <2>2. \A j \in 1 .. k : msg[Chain[j]].id # want[c]
    BY <1>1, <1>2 DEF PopSkip
  <2>3. k + 1 # 1 /\ (k + 1) - 1 = k
    BY <1>2
  <2>. QED
    BY <1>2, <1>3, <2>1, <2>2, <2>3, StillQueue DEF PopSkip, Standing, queueVars, listenerVars
<1>8. Popping'
  BY <1>7, StillQueue DEF PopSkip, QueueInv, Popping, TypeOK, listenerVars
<1>9. NoWakeupLost'
  BY StillQueue DEF PopSkip, QueueInv, NoWakeupLost, queueVars, listenerVars
<1>. QED
  BY <1>4, <1>5, <1>6, <1>8, <1>9, StillQueue DEF QueueInv, PopSkip, listenerVars

\* A thread falls asleep only after it looked at the whole list.
LEMMA PopWaitStep ==
  ASSUME QueueInv, NEW c \in Consumers, PopWait(c)
  PROVE  QueueInv'
<1>0. pc[c] = "scan" /\ Standing(c)
  BY DEF PopWait, QueueInv, Popping
<1>1. \A j \in 1 .. Len(Chain) : msg[Chain[j]].id # want[c]
  <2>1. PICK k \in 1 .. Len(Chain) + 1 :
          /\ current[c] = IF k = Len(Chain) + 1 THEN None ELSE Chain[k]
          /\ \A j \in 1 .. k - 1 : msg[Chain[j]].id # want[c]
    BY <1>0 DEF Standing
  <2>2. k = Len(Chain) + 1
    BY <2>1, ChainElements DEF PopWait, QueueInv
  <2>. QED
    BY <2>1, <2>2, ChainElements DEF QueueInv
<1>2. TypeOK'
  BY DEF PopWait, QueueInv, TypeOK, queueVars, listenerVars
<1>3. Pushing'
  BY StillQueue DEF PopWait, QueueInv, Pushing, queueVars, listenerVars
<1>4. Locked'
  BY MessageQueueAssumption DEF PopWait, QueueInv, Locked, TypeOK, listenerVars
<1>5. Popping'
  BY StillQueue DEF PopWait, QueueInv, Popping, TypeOK, listenerVars
<1>6. NoWakeupLost'
  BY <1>1, StillQueue, ChainElements DEF PopWait, QueueInv, NoWakeupLost, queueVars, listenerVars
<1>. QED
  BY <1>2, <1>3, <1>4, <1>5, <1>6, StillQueue DEF QueueInv, PopWait, listenerVars

LEMMA SpuriousWakeStep ==
  ASSUME QueueInv, NEW c \in Consumers, SpuriousWake(c)
  PROVE  QueueInv'
<1>1. TypeOK'
  BY MessageQueueAssumption DEF SpuriousWake, QueueInv, TypeOK, queueVars, listenerVars, popVars
<1>2. Pushing'
  BY StillQueue DEF SpuriousWake, QueueInv, Pushing, queueVars, listenerVars
<1>3. Locked'
  BY DEF SpuriousWake, QueueInv, Locked, listenerVars, popVars
<1>4. Popping'
  BY StillQueue DEF SpuriousWake, QueueInv, Popping, listenerVars, popVars
<1>5. NoWakeupLost'
  BY StillQueue DEF SpuriousWake, QueueInv, NoWakeupLost, queueVars, listenerVars, popVars
<1>. QED
  BY <1>1, <1>2, <1>3, <1>4, <1>5, StillQueue DEF QueueInv, SpuriousWake, listenerVars

-----------------------------------------------------------------------------
\* The new message becomes the last of the list.
LEMMA Linking ==
  ASSUME QueueInv, PushLink
  PROVE  /\ Linked'
         /\ Chain' = Append(Chain, fresh)
         /\ fresh \in alloc /\ fresh \in Cells /\ msg[fresh] \in Messages /\ msg[fresh].n = pushed + 1
<1> DEFINE t == Append(Chain, fresh)
<1>0. /\ fresh \in alloc /\ fresh \in Cells /\ fresh # None
      /\ next[fresh] = None /\ msg[fresh] \in Messages /\ msg[fresh].n = pushed + 1
      /\ \A k \in 1 .. Len(Chain) : Chain[k] # fresh
  <2>1. \A k \in 1 .. Len(Chain) : Chain[k] \in Range(Chain)
    BY ChainElements DEF Range, QueueInv
  <2>. QED
    BY <2>1, MessageQueueAssumption DEF QueueInv, Pushing, PushLink, TypeOK
<1>1. /\ Chain \in Seq(Cells) /\ Len(Chain) \in Nat
      /\ \A k \in 1 .. Len(Chain) : Chain[k] \in Cells /\ Chain[k] \in alloc /\ Chain[k] # None
      /\ \A j, k \in 1 .. Len(Chain) : Chain[j] = Chain[k] => j = k
      /\ LeadsIn(head, next, Chain)
      /\ tail = IF Chain = <<>> THEN None ELSE Chain[Len(Chain)]
  BY ChainElements DEF QueueInv, Linked
<1>2. /\ t \in Seq(Cells) /\ Len(t) = Len(Chain) + 1 /\ t # <<>>
      /\ \A k \in 1 .. Len(Chain) : t[k] = Chain[k]
      /\ t[Len(Chain) + 1] = fresh
  BY <1>0, <1>1, AppendProperties
<1>3. LeadsIn(head', next', t)
  <2>1. CASE Chain = <<>>
    <3>1. head' = fresh /\ next' = next
      BY <1>1, <2>1 DEF PushLink
    <3>. QED
      BY <1>0, <1>2, <2>1, <3>1 DEF LeadsIn
  <2>2. CASE Chain # <<>>
    <3>1. Len(Chain) \in 1 .. Len(Chain)
      BY <1>1, <2>2
    <3>2. head' = head /\ next' = [next EXCEPT ![Chain[Len(Chain)]] = fresh]
      BY <1>1, <2>2, <3>1 DEF PushLink
    <3>3. head' = t[1]
      BY <1>1, <1>2, <2>2, <3>1, <3>2 DEF LeadsIn
    <3>4. next'[t[Len(t)]] = None
      BY <1>0, <1>2, <3>1, <3>2 DEF QueueInv, TypeOK
    <3>5. ASSUME NEW k \in 1 .. Len(Chain)
          PROVE  next'[t[k]] = t[k + 1]
      <4>1. CASE k = Len(Chain)
        BY <1>1, <1>2, <3>1, <3>2, <4>1 DEF QueueInv, TypeOK
      <4>2. CASE k # Len(Chain)
        <5>1. Chain[k] # Chain[Len(Chain)] /\ k \in DOMAIN Chain /\ k + 1 \in 1 .. Len(Chain)
          BY <1>1, <3>1, <4>2
        <5>2. next[Chain[k]] = Chain[k + 1]
          BY <1>1, <4>2, <5>1 DEF LeadsIn
        <5>. QED
          BY <1>1, <1>2, <3>2, <5>1, <5>2 DEF QueueInv, TypeOK
      <4>. QED
        BY <4>1, <4>2
    <3>. QED
      BY <1>1, <1>2, <3>3, <3>4, <3>5 DEF LeadsIn
  <2>. QED
    BY <2>1, <2>2
<1>4. \A j, k \in 1 .. Len(t) : t[j] = t[k] => j = k
  BY <1>0, <1>1, <1>2
<1>5. \A k \in 1 .. Len(t) : t[k] \in alloc'
  BY <1>0, <1>1, <1>2 DEF PushLink
<1>6. tail' = IF t = <<>> THEN None ELSE t[Len(t)]
  BY <1>1, <1>2 DEF PushLink
<1> HIDE DEF t
<1>7. Linked' /\ Chain' = t
  BY <1>2, <1>3, <1>4, <1>5, <1>6, LinkedAs
<1>. QED
  BY <1>0, <1>7 DEF t

LEMMA PushLinkStep ==
  ASSUME QueueInv, PushLink
  PROVE  QueueInv'
<1>1. TypeOK'
  <2>1. pushed + 1 \in 0 .. MaxPushes
    BY Linking, MessageQueueAssumption DEF Messages, QueueInv, TypeOK
  <2>. QED
    BY <2>1, Linking DEF PushLink, QueueInv, TypeOK, popVars
<1>2. Pushing'
  BY DEF PushLink, QueueInv, Pushing
<1>3. Locked'
  BY DEF PushLink, QueueInv, Locked, popVars
<1>4. \A c \in Consumers : pc[c] # "scan"
  BY MessageQueueAssumption DEF PushLink, QueueInv, Locked
<1>5. Popping'
  BY <1>4 DEF PushLink, QueueInv, Popping, popVars
<1>6. NoWakeupLost'
  BY DEF PushLink, NoWakeupLost
<1>. QED
  BY <1>1, <1>2, <1>3, <1>5, <1>6, Linking DEF QueueInv

-----------------------------------------------------------------------------
\* A sequence without its kth element.
LEMMA Removed ==
  ASSUME NEW S, NEW s \in Seq(S), NEW k \in 1 .. Len(s)
  PROVE  /\ RemoveAt(s, k) \in Seq(S)
         /\ Len(RemoveAt(s, k)) = Len(s) - 1
         /\ \A i \in 1 .. Len(s) - 1 : RemoveAt(s, k)[i] = IF i < k THEN s[i] ELSE s[i + 1]
<1> DEFINE a == SubSeq(s, 1, k - 1)
           b == SubSeq(s, k + 1, Len(s))
<1>1. /\ a \in Seq(S) /\ Len(a) = k - 1
      /\ \A i \in 1 .. k - 1 : a[i] = s[i]
  <2>1. \A i \in 1 .. k - 1 : s[i] \in S
    OBVIOUS
  <2>2. 1 \in Int /\ k - 1 \in Int
    OBVIOUS
  <2>3. /\ a \in Seq(S) /\ Len(a) = IF 1 <= k - 1 THEN k - 1 - 1 + 1 ELSE 0
        /\ \A i \in 1 .. k - 1 - 1 + 1 : a[i] = s[1 + i - 1]
    BY <2>1, <2>2, SubSeqProperties
  <2>. QED
    BY <2>3
<1>2. /\ b \in Seq(S) /\ Len(b) = Len(s) - k
      /\ \A i \in 1 .. Len(s) - k : b[i] = s[k + i]
  <2>1. \A i \in k + 1 .. Len(s) : s[i] \in S
    OBVIOUS
  <2>2. k + 1 \in Int /\ Len(s) \in Int
    OBVIOUS
  <2>3. /\ b \in Seq(S) /\ Len(b) = IF k + 1 <= Len(s) THEN Len(s) - (k + 1) + 1 ELSE 0
        /\ \A i \in 1 .. Len(s) - (k + 1) + 1 : b[i] = s[k + 1 + i - 1]
    BY <2>1, <2>2, SubSeqProperties
  <2>. QED
    BY <2>3
<1>3. RemoveAt(s, k) = a \o b
  BY DEF RemoveAt
<1> HIDE DEF a, b
<1>4. /\ a \o b \in Seq(S) /\ Len(a \o b) = Len(a) + Len(b)
      /\ \A i \in 1 .. Len(a) + Len(b) : (a \o b)[i] = IF i <= Len(a) THEN a[i] ELSE b[i - Len(a)]
  BY <1>1, <1>2, ConcatProperties
<1>5. ASSUME NEW i \in 1 .. Len(s) - 1
      PROVE  (a \o b)[i] = IF i < k THEN s[i] ELSE s[i + 1]
  <2>1. CASE i < k
    BY <1>1, <1>2, <1>4, <2>1
  <2>2. CASE ~(i < k)
    <3>1. /\ i \in 1 .. Len(a) + Len(b) /\ ~(i <= Len(a))
          /\ i - Len(a) = i - k + 1 /\ i - k + 1 \in 1 .. Len(s) - k
      BY <1>1, <1>2, <2>2
    <3>2. (a \o b)[i] = b[i - k + 1] /\ b[i - k + 1] = s[k + (i - k + 1)]
      BY <1>2, <1>4, <3>1
    <3>3. k + (i - k + 1) = i + 1
      OBVIOUS
    <3>. QED
      BY <2>2, <3>2, <3>3
  <2>. QED
    BY <2>1, <2>2
<1>. QED
  BY <1>1, <1>2, <1>3, <1>4, <1>5

\* Taking a message unlinks its node, wherever it stands in the list.
LEMMA Unlinking ==
  ASSUME QueueInv, NEW c \in Consumers, PopTake(c)
  PROVE  \E k \in 1 .. Len(Chain) :
           /\ current[c] = Chain[k]
           /\ \A j \in 1 .. k - 1 : msg[Chain[j]].id # want[c]
           /\ Linked' /\ Chain' = RemoveAt(Chain, k)
<1>0. pc[c] = "scan" /\ Standing(c)
  BY DEF PopTake, QueueInv, Popping
<1>1. /\ Chain \in Seq(Cells) /\ Len(Chain) \in Nat
      /\ \A k \in 1 .. Len(Chain) : Chain[k] \in Cells /\ Chain[k] \in alloc /\ Chain[k] # None
      /\ \A j, k \in 1 .. Len(Chain) : Chain[j] = Chain[k] => j = k
      /\ LeadsIn(head, next, Chain)
      /\ tail = IF Chain = <<>> THEN None ELSE Chain[Len(Chain)]
  BY ChainElements DEF QueueInv, Linked
<1>2. PICK k \in 1 .. Len(Chain) + 1 :
        /\ current[c] = IF k = Len(Chain) + 1 THEN None ELSE Chain[k]
        /\ prev[c] = IF k = 1 THEN None ELSE Chain[k - 1]
        /\ \A j \in 1 .. k - 1 : msg[Chain[j]].id # want[c]
  BY <1>0 DEF Standing
<1>3. k \in 1 .. Len(Chain) /\ current[c] = Chain[k]
  BY <1>1, <1>2 DEF PopTake
<1> DEFINE n == Len(Chain)
           t == RemoveAt(Chain, k)
<1>4. /\ t \in Seq(Cells) /\ Len(t) = n - 1 /\ n - 1 \in Nat
      /\ \A i \in 1 .. n - 1 : t[i] = IF i < k THEN Chain[i] ELSE Chain[i + 1]
  <2>1. Chain \in Seq(Cells) /\ k \in 1 .. Len(Chain)
    BY <1>1, <1>3
  <2>2. /\ t \in Seq(Cells) /\ Len(t) = n - 1
        /\ \A i \in 1 .. n - 1 : t[i] = IF i < k THEN Chain[i] ELSE Chain[i + 1]
    BY <2>1, Removed
  <2>3. n - 1 \in Nat
    BY <2>1
  <2>. QED
    BY <2>2, <2>3
<1>5. next[Chain[k]] = IF k = n THEN None ELSE Chain[k + 1]
  BY <1>1, <1>3 DEF LeadsIn
<1>6. \A i \in 1 .. n : next[Chain[i]] = IF i = n THEN None ELSE Chain[i + 1]
  BY <1>1 DEF LeadsIn
<1> HIDE DEF t
<1>7. t = <<>> <=> n = 1
  BY <1>4
<1>8. LeadsIn(head', next', t)
  <2>1. CASE k = 1
    <3>1. head' = next[Chain[1]] /\ next' = next
      BY <1>2, <1>3, <2>1, MessageQueueAssumption DEF PopTake
    <3>2. head' = IF t = <<>> THEN None ELSE t[1]
      BY <1>4, <1>5, <1>7, <2>1, <3>1
    <3>3. ASSUME NEW i \in 1 .. n - 1
          PROVE  next'[t[i]] = IF i = n - 1 THEN None ELSE t[i + 1]
      <4>1. t[i] = Chain[i + 1] /\ i + 1 \in 1 .. n
        BY <1>4, <2>1
      <4>2. i # n - 1 => t[i + 1] = Chain[(i + 1) + 1]
        BY <1>4, <2>1
      <4>. QED
        BY <1>6, <3>1, <4>1, <4>2
    <3>. QED
      BY <1>4, <3>2, <3>3 DEF LeadsIn
  <2>2. CASE k # 1
    <3>1. k - 1 \in 1 .. n /\ prev[c] = Chain[k - 1] /\ prev[c] # None
      BY <1>1, <1>2, <1>3, <2>2
    <3>2. head' = head /\ next' = [next EXCEPT ![Chain[k - 1]] = next[Chain[k]]]
      BY <1>3, <3>1 DEF PopTake
    <3>3. head' = IF t = <<>> THEN None ELSE t[1]
      BY <1>1, <1>3, <1>4, <1>7, <2>2, <3>2 DEF LeadsIn
    <3>4. ASSUME NEW i \in 1 .. n - 1
          PROVE  next'[t[i]] = IF i = n - 1 THEN None ELSE t[i + 1]
      <4>1. CASE i = k - 1
        <5>1. t[i] = Chain[k - 1] /\ Chain[k - 1] \in Cells
          BY <1>1, <1>4, <3>1, <4>1
        <5>2. next'[t[i]] = IF k = n THEN None ELSE Chain[k + 1]
          BY <1>5, <3>2, <5>1 DEF QueueInv, TypeOK
        <5>3. k # n => t[i + 1] = Chain[k + 1]
          BY <1>3, <1>4, <4>1
        <5>. QED
          BY <1>3, <4>1, <5>2, <5>3
      <4>2. CASE i < k - 1
        <5>1. t[i] = Chain[i] /\ i \in 1 .. n /\ Chain[i] \in Cells /\ Chain[i] # Chain[k - 1]
          BY <1>1, <1>4, <3>1, <4>2
        <5>2. next'[t[i]] = Chain[i + 1]
          BY <1>6, <3>2, <4>2, <5>1 DEF QueueInv, TypeOK
        <5>3. t[i + 1] = Chain[i + 1] /\ i # n - 1
          BY <1>3, <1>4, <4>2
        <5>. QED
          BY <5>2, <5>3
      <4>3. CASE i > k - 1
        <5>0. ~(i < k) /\ i + 1 \in 1 .. n /\ k - 1 \in 1 .. n /\ i + 1 # k - 1
          BY <1>1, <1>3, <3>1, <4>3
        <5>1. t[i] = Chain[i + 1] /\ i + 1 \in 1 .. n /\ Chain[i + 1] \in Cells /\ Chain[i + 1] # Chain[k - 1]
          BY <1>1, <1>4, <5>0
        <5>2. next'[t[i]] = IF i + 1 = n THEN None ELSE Chain[(i + 1) + 1]
          BY <1>6, <3>2, <5>1 DEF QueueInv, TypeOK
        <5>3. i # n - 1 => t[i + 1] = Chain[(i + 1) + 1]
          BY <1>3, <1>4, <4>3
        <5>. QED
          BY <5>2, <5>3
      <4>. QED
        BY <1>3, <4>1, <4>2, <4>3
    <3>. QED
      BY <1>4, <3>3, <3>4 DEF LeadsIn
  <2>. QED
    BY <2>1, <2>2
<1>9. \A i, j \in 1 .. n - 1 : t[i] = t[j] => i = j
  <2> TAKE i, j \in 1 .. n - 1
  <2>1. i \in 1 .. n /\ j \in 1 .. n /\ i + 1 \in 1 .. n /\ j + 1 \in 1 .. n
    BY <1>1
  <2>. QED
    BY <1>1, <1>3, <1>4, <2>1
<1>10. \A i \in 1 .. n - 1 : t[i] \in alloc'
  <2> TAKE i \in 1 .. n - 1
  <2>1. i \in 1 .. n /\ i + 1 \in 1 .. n
    BY <1>1
  <2>2. t[i] \in alloc /\ t[i] # Chain[k]
    BY <1>1, <1>3, <1>4, <2>1
  <2>. QED
    BY <1>3, <2>2 DEF PopTake
<1>11. tail' = IF t = <<>> THEN None ELSE t[Len(t)]
  <2>1. tail = Chain[n] /\ n \in 1 .. n
    BY <1>1, <1>3
  <2>0. tail' = IF current[c] = tail THEN prev[c] ELSE tail
    BY DEF PopTake
  <2>2. tail' = IF k = n THEN prev[c] ELSE tail
    BY <1>1, <1>3, <2>0, <2>1
  <2>3. CASE k = n
    <3>1. tail' = IF n = 1 THEN None ELSE Chain[n - 1]
      BY <1>2, <2>2, <2>3
    <3>2. n # 1 => n - 1 \in 1 .. n - 1 /\ t[n - 1] = Chain[n - 1]
      BY <1>4, <2>1, <2>3
    <3>. QED
      BY <1>4, <1>7, <3>1, <3>2
  <2>4. CASE k # n
    <3>1. n - 1 \in 1 .. n - 1 /\ t[n - 1] = Chain[(n - 1) + 1] /\ (n - 1) + 1 = n
      BY <1>3, <1>4, <2>4
    <3>. QED
      BY <1>4, <1>7, <2>1, <2>2, <2>4, <3>1
  <2>. QED
    BY <2>3, <2>4
<1>12. Linked' /\ Chain' = t
  BY <1>4, <1>8, <1>9, <1>10, <1>11, LinkedAs
<1>. QED
  BY <1>2, <1>3, <1>12 DEF t

LEMMA PopTakeStep ==
  ASSUME QueueInv, NEW c \in Consumers, PopTake(c)
  PROVE  QueueInv'
<1>0. pc[c] = "scan" /\ mutex = c
  BY DEF PopTake, QueueInv, Locked
<1>1. PICK k \in 1 .. Len(Chain) :
        /\ current[c] = Chain[k]
        /\ Linked' /\ Chain' = RemoveAt(Chain, k)
  BY Unlinking
<1>2. /\ Chain \in Seq(Cells) /\ current[c] \in Cells /\ current[c] \in alloc
      /\ \A i \in 1 .. Len(Chain) : Chain[i] \in Range(Chain)
  BY <1>1, ChainElements DEF QueueInv, Range
<1>3. /\ Chain' \in Seq(Cells) /\ Len(Chain') = Len(Chain) - 1
      /\ \A i \in 1 .. Len(Chain') : \E j \in 1 .. Len(Chain) : Chain'[i] = Chain[j]
  <2>1. /\ Chain' \in Seq(Cells) /\ Len(Chain') = Len(Chain) - 1
        /\ \A i \in 1 .. Len(Chain) - 1 : Chain'[i] = IF i < k THEN Chain[i] ELSE Chain[i + 1]
    BY <1>1, <1>2, Removed
  <2>2. \A i \in 1 .. Len(Chain) - 1 : i \in 1 .. Len(Chain) /\ i + 1 \in 1 .. Len(Chain)
    BY <1>2
  <2>. QED
    BY <2>1, <2>2
<1>4. TypeOK'
  <2>1. msg[current[c]] \in Messages
    BY <1>2 DEF QueueInv, Pushing
  <2>2. next[current[c]] \in Cells \cup {None} /\ prev[c] \in Cells \cup {None}
    BY <1>2 DEF QueueInv, TypeOK
  <2>3. head' \in Cells \cup {None} /\ next' \in [Cells -> Cells \cup {None}]
    BY <2>2 DEF PopTake, QueueInv, TypeOK
  <2>4. tail' \in Cells \cup {None} /\ got' \in [Consumers -> Messages \cup {None}]
    BY <2>1, <2>2 DEF PopTake, QueueInv, TypeOK
  <2>. QED
    BY <2>3, <2>4 DEF PopTake, QueueInv, TypeOK, listenerVars
<1>5. Pushing'
  <2>1. ASSUME lpc \in {"lock", "link"}
        PROVE  /\ fresh \in alloc \ Range(Chain) /\ fresh # current[c]
               /\ \A i \in 1 .. Len(Chain') : Chain'[i] # fresh
               /\ next'[fresh] = None
    <3>1. fresh \in alloc \ Range(Chain) /\ fresh # current[c] /\ next[fresh] = None
      BY <1>1, <1>2, <2>1 DEF QueueInv, Pushing
    <3>2. prev[c] # None => prev[c] # fresh
      <4>1. PICK j \in 1 .. Len(Chain) + 1 : prev[c] = IF j = 1 THEN None ELSE Chain[j - 1]
        BY <1>0 DEF QueueInv, Popping, Standing
      <4>2. j # 1 => j - 1 \in 1 .. Len(Chain)
        BY <1>2, <4>1
      <4>. QED
        BY <1>2, <3>1, <4>1, <4>2
    <3>3. next'[fresh] = None
      BY <3>1, <3>2 DEF PopTake, QueueInv, TypeOK
    <3>. QED
      BY <1>2, <1>3, <3>1, <3>3
  <2>2. \A x : x \in Range(Chain') => \E i \in 1 .. Len(Chain') : x = Chain'[i]
    BY <1>3 DEF Range
  <2>. QED
    BY <2>1, <2>2 DEF PopTake, QueueInv, Pushing, listenerVars
<1>6. Locked'
  BY <1>0, MessageQueueAssumption DEF PopTake, QueueInv, Locked, TypeOK, listenerVars
<1>7. \A d \in Consumers \ {c} : pc[d] # "scan"
  BY <1>0 DEF QueueInv, Locked
<1>8. Popping'
  BY <1>0, <1>7 DEF PopTake, QueueInv, Popping, TypeOK
<1>9. NoWakeupLost'
  <2> SUFFICES ASSUME NEW d \in asleep', NEW i \in DOMAIN Chain', msg'[Chain'[i]].id = want'[d]
               PROVE  lpc' = "wake"
    BY DEF NoWakeupLost
  <2>1. d \in asleep /\ d # c /\ d \in Consumers /\ want'[d] = want[d]
    BY <1>0 DEF PopTake, QueueInv, Popping, TypeOK
  <2>2. PICK j \in 1 .. Len(Chain) : Chain'[i] = Chain[j]
    BY <1>3
  <2>3. j \in DOMAIN Chain /\ msg[Chain[j]].id = want[d]
    BY <1>2, <2>1, <2>2 DEF PopTake
  <2>. QED
    BY <2>1, <2>3 DEF PopTake, QueueInv, NoWakeupLost, listenerVars
<1>. QED
  BY <1>1, <1>4, <1>5, <1>6, <1>8, <1>9 DEF QueueInv

-----------------------------------------------------------------------------
LEMMA QueueUnchanged ==
  ASSUME QueueInv, UNCHANGED vars
  PROVE  QueueInv'
<1>1. UNCHANGED <<queueVars, pushed>>
  BY DEF vars, queueVars
<1>2. TypeOK' /\ Locked'
  BY DEF vars, QueueInv, TypeOK, Locked
<1>3. Pushing'
  BY <1>1, StillQueue DEF vars, QueueInv, Pushing
<1>4. Popping'
  BY <1>1, StillQueue DEF vars, QueueInv, Popping
<1>5. NoWakeupLost'
  BY <1>1, StillQueue DEF vars, QueueInv, NoWakeupLost
<1>. QED
  BY <1>1, <1>2, <1>3, <1>4, <1>5, StillQueue DEF QueueInv

LEMMA QueueStep ==
  ASSUME QueueInv, [Next]_vars
  PROVE  QueueInv'
<1>1. ASSUME NEW c \in Consumers, PopLock(c) \/ PopResume(c)
      PROVE  QueueInv'
  <2>1. pc[c] \in {"lock", "waiting"} /\ c \notin asleep /\ StartScan(c)
    BY <1>1 DEF PopLock, PopResume, QueueInv, Popping
  <2>. QED
    BY <2>1, StartScanStep
<1>. QED
  BY <1>1, ReceiveStep, PushLockStep, PushLinkStep, PushWakeStep, AskStep, PopSkipStep,
     PopTakeStep, PopWaitStep, SpuriousWakeStep, QueueUnchanged
  DEF Next, PushStep, PopStep

LEMMA QueueAlways == Spec => []QueueInv
BY QueueInit, QueueStep, PTL DEF Spec

\* The state of the queue and its threads keeps to its types.
THEOREM QueueTypeOK == Spec => []TypeOK
<1>1. QueueInv => TypeOK
  BY DEF QueueInv
<1>. QED
  BY <1>1, QueueAlways, PTL

\* push_message and pop_message keep the list well formed, for any number of
\* threads, messages and list nodes.
THEOREM ListStaysWellFormed == Spec => []ListWellFormed
<1>1. QueueInv => ListWellFormed
  BY DEF QueueInv, Linked, ListWellFormed
<1>. QED
  BY <1>1, QueueAlways, PTL

\* No thread ever reads a list node that another one deleted.
THEOREM ScansStandOnTheList == Spec => []NoDanglingScan
<1>1. QueueInv => NoDanglingScan
  <2> SUFFICES ASSUME QueueInv, NEW c \in Consumers, pc[c] = "scan"
               PROVE  {prev[c], current[c]} \subseteq alloc \cup {None}
    BY DEF NoDanglingScan
  <2>1. PICK k \in 1 .. Len(Chain) + 1 :
          /\ current[c] = IF k = Len(Chain) + 1 THEN None ELSE Chain[k]
          /\ prev[c] = IF k = 1 THEN None ELSE Chain[k - 1]
    BY DEF QueueInv, Popping, Standing
  <2>2. /\ k # Len(Chain) + 1 => k \in 1 .. Len(Chain)
        /\ k # 1 => k - 1 \in 1 .. Len(Chain)
    BY <2>1, ChainElements DEF QueueInv
  <2>. QED
    BY <2>1, <2>2, ChainElements DEF QueueInv
<1>. QED
  BY <1>1, QueueAlways, PTL

\* A thread whose reply is in the list is awake, or the listener holds the mutex
\* and is about to wake it: the broadcast comes before the mutex is given back,
\* and nobody falls asleep without having looked at the whole list.
THEOREM NoSleeperIsForgotten == Spec => []NoWakeupLost
<1>1. QueueInv => NoWakeupLost
  BY DEF QueueInv
<1>. QED
  BY <1>1, QueueAlways, PTL

-----------------------------------------------------------------------------
(***************************************************************************)
(* The list implements the box.                                            *)
(***************************************************************************)
Contents == [k \in DOMAIN Chain |-> msg[Chain[k]]]

LEMMA ContentsAreMessages ==
  ASSUME Linked, Pushing
  PROVE  /\ Contents \in Seq(Messages)
         /\ Len(Contents) = Len(Chain) /\ DOMAIN Contents = 1 .. Len(Chain)
         /\ \A k \in 1 .. Len(Chain) : Contents[k] = msg[Chain[k]]
<1>1. /\ Len(Chain) \in Nat /\ DOMAIN Chain = 1 .. Len(Chain)
      /\ \A k \in 1 .. Len(Chain) : msg[Chain[k]] \in Messages
  BY ChainElements DEF Pushing
<1>2. Contents \in [1 .. Len(Chain) -> Messages]
  BY <1>1 DEF Contents
<1>. QED
  BY <1>1, <1>2 DEF Contents

LEMMA ContentsKept ==
  ASSUME QueueInv, Chain' = Chain, \A x \in alloc : msg'[x] = msg[x]
  PROVE  Contents' = Contents
BY ChainElements DEF QueueInv, Contents

\* A push is put in the box when it is linked, not when it arrives.
LEMMA PushPuts ==
  ASSUME QueueInv, QueueInv', PushLink
  PROVE  Box!Next
<1>1. /\ Chain' = Append(Chain, fresh) /\ msg' = msg
      /\ fresh \in Cells /\ msg[fresh] \in Messages /\ msg[fresh].n = pushed + 1
  BY Linking DEF PushLink
<1>2. PICK id \in Ids : msg[fresh] = [id |-> id, n |-> pushed + 1] /\ pushed < MaxPushes
  BY <1>1, MessageQueueAssumption DEF Messages, QueueInv, TypeOK
<1>3. /\ Contents \in Seq(Messages) /\ Len(Contents) = Len(Chain)
      /\ \A k \in 1 .. Len(Chain) : Contents[k] = msg[Chain[k]]
  BY ContentsAreMessages DEF QueueInv
<1>4. /\ Contents' \in Seq(Messages) /\ Len(Contents') = Len(Chain')
      /\ \A k \in 1 .. Len(Chain') : Contents'[k] = msg[Chain'[k]]
  <2>1. (Linked /\ Pushing => /\ Contents \in Seq(Messages)
                               /\ Len(Contents) = Len(Chain) /\ DOMAIN Contents = 1 .. Len(Chain)
                               /\ \A k \in 1 .. Len(Chain) : Contents[k] = msg[Chain[k]])'
    BY ContentsAreMessages, PTL
  <2>. QED
    BY <1>1, <2>1 DEF QueueInv
<1>5. /\ Chain \in Seq(Cells) /\ Len(Chain') = Len(Chain) + 1
      /\ \A k \in 1 .. Len(Chain) : Chain'[k] = Chain[k]
      /\ Chain'[Len(Chain) + 1] = fresh
  BY <1>1, ChainElements, AppendProperties DEF QueueInv
<1>6. Contents' = Append(Contents, msg[fresh])
  <2>1. /\ Append(Contents, msg[fresh]) \in Seq(Messages)
        /\ Len(Append(Contents, msg[fresh])) = Len(Chain) + 1
        /\ \A k \in 1 .. Len(Chain) : Append(Contents, msg[fresh])[k] = Contents[k]
        /\ Append(Contents, msg[fresh])[Len(Chain) + 1] = msg[fresh]
    BY <1>1, <1>3, AppendProperties
  <2>2. \A k \in 1 .. Len(Chain) + 1 : Contents'[k] = Append(Contents, msg[fresh])[k]
    BY <1>3, <1>4, <1>5, <2>1
  <2>. QED
    BY <1>4, <1>5, <2>1, <2>2, SeqEqual
<1>7. Box!Put(id)
  BY <1>2, <1>6 DEF Box!Put, PushLink, popVars, Contents
<1>. QED
  BY <1>7 DEF Box!Next

\* A thread takes the oldest message with its id: it has looked at all before.
LEMMA TakeTakes ==
  ASSUME QueueInv, QueueInv', NEW c \in Consumers, PopTake(c)
  PROVE  Box!Next
<1>0. Linked' /\ Pushing' => /\ Contents' \in Seq(Messages)
                              /\ Len(Contents') = Len(Chain')
                              /\ \A i \in 1 .. Len(Chain') : Contents'[i] = msg'[Chain'[i]]
  <2>1. (Linked /\ Pushing => /\ Contents \in Seq(Messages)
                               /\ Len(Contents) = Len(Chain) /\ DOMAIN Contents = 1 .. Len(Chain)
                               /\ \A k \in 1 .. Len(Chain) : Contents[k] = msg[Chain[k]])'
    BY ContentsAreMessages, PTL
  <2>. QED
    BY <2>1
<1>1. PICK k \in 1 .. Len(Chain) :
        /\ current[c] = Chain[k]
        /\ \A j \in 1 .. k - 1 : msg[Chain[j]].id # want[c]
        /\ Chain' = RemoveAt(Chain, k)
  BY Unlinking
<1>2. msg' = msg /\ msg[Chain[k]].id = want[c]
  BY <1>1 DEF PopTake
<1>3. /\ Contents \in Seq(Messages) /\ Len(Contents) = Len(Chain) /\ DOMAIN Contents = 1 .. Len(Chain)
      /\ \A i \in 1 .. Len(Chain) : Contents[i] = msg[Chain[i]]
  BY ContentsAreMessages DEF QueueInv
<1>4. /\ Contents' \in Seq(Messages) /\ Len(Contents') = Len(Chain')
      /\ \A i \in 1 .. Len(Chain') : Contents'[i] = msg[Chain'[i]]
  BY <1>0, <1>2 DEF QueueInv
<1>5. /\ Chain \in Seq(Cells) /\ Len(Chain') = Len(Chain) - 1 /\ Len(Chain) \in Nat
      /\ \A i \in 1 .. Len(Chain) - 1 : Chain'[i] = IF i < k THEN Chain[i] ELSE Chain[i + 1]
  BY <1>1, ChainElements, Removed DEF QueueInv
<1>6. Contents' = RemoveAt(Contents, k)
  <2>1. /\ RemoveAt(Contents, k) \in Seq(Messages)
        /\ Len(RemoveAt(Contents, k)) = Len(Chain) - 1
        /\ \A i \in 1 .. Len(Chain) - 1 :
             RemoveAt(Contents, k)[i] = IF i < k THEN Contents[i] ELSE Contents[i + 1]
    <3>1. k \in 1 .. Len(Contents)
      BY <1>3
    <3>. QED
      BY <1>3, <3>1, Removed
  <2>2. ASSUME NEW i \in 1 .. Len(Chain) - 1
        PROVE  Contents'[i] = RemoveAt(Contents, k)[i]
    <3>1. i \in 1 .. Len(Chain) /\ i + 1 \in 1 .. Len(Chain) /\ i \in 1 .. Len(Chain')
      BY <1>5
    <3>2. Contents'[i] = msg[IF i < k THEN Chain[i] ELSE Chain[i + 1]]
      BY <1>4, <1>5, <3>1
    <3>3. RemoveAt(Contents, k)[i] = IF i < k THEN msg[Chain[i]] ELSE msg[Chain[i + 1]]
      BY <1>3, <2>1, <3>1
    <3>. QED
      BY <3>2, <3>3
  <2>. QED
    BY <1>4, <1>5, <2>1, <2>2, SeqEqual
<1>7. /\ k \in DOMAIN Contents /\ Contents[k] = msg[Chain[k]]
      /\ Contents[k].id = want[c]
      /\ \A j \in 1 .. k - 1 : Contents[j].id # want[c]
  <2>1. \A j \in 1 .. k - 1 : j \in 1 .. Len(Chain)
    BY <1>5
  <2>. QED
    BY <1>1, <1>2, <1>3, <2>1
<1>8. /\ got' = [got EXCEPT ![c] = Contents[k]] /\ want' = [want EXCEPT ![c] = None]
      /\ UNCHANGED pushed
  BY <1>1, <1>7 DEF PopTake, listenerVars
<1>9. Contents' = Box!RemoveAt(Contents, k)
  BY <1>6 DEF RemoveAt, Box!RemoveAt
<1>10. Box!Oldest(c, k)
  BY <1>7 DEF Box!Oldest, Contents
<1>11. Box!Take(c)
  BY <1>7, <1>8, <1>9, <1>10 DEF Box!Take, Contents
<1>. QED
  BY <1>11 DEF Box!Next

LEMMA OtherStepsStutter ==
  ASSUME QueueInv, QueueInv',
         \/ \E id \in Ids : Receive(id)
         \/ PushLock \/ PushWake \/ UNCHANGED vars
         \/ \E c \in Consumers : PopLock(c) \/ PopResume(c) \/ PopSkip(c) \/ PopWait(c) \/ SpuriousWake(c)
  PROVE  UNCHANGED Box!vars
<1>1. UNCHANGED <<pushed, want, got>>
  BY DEF Receive, PushLock, PushWake, PopLock, PopResume, StartScan, PopSkip, PopWait,
         SpuriousWake, vars, popVars, listenerVars
<1>2. Contents' = Contents
  <2>1. CASE \E id \in Ids : Receive(id)
    <3>1. /\ UNCHANGED <<head, tail>> /\ alloc \subseteq alloc'
          /\ \A x \in alloc : next'[x] = next[x] /\ msg'[x] = msg[x]
      BY <2>1 DEF Receive, QueueInv, TypeOK
    <3>. QED
      BY <3>1, LinksKept, ContentsKept DEF QueueInv
  <2>2. CASE UNCHANGED queueVars
    BY <2>2, LinksKept, ContentsKept DEF QueueInv, queueVars
  <2>. QED
    BY <2>1, <2>2 DEF PushLock, PushWake, PopLock, PopResume, StartScan, PopSkip, PopWait,
                      SpuriousWake, vars, queueVars
<1>. QED
  BY <1>1, <1>2 DEF Box!vars, Contents

\* The linked list with its mutex and condition variable implements the box:
\* nothing pushed is lost, reordered or taken twice, for any number of threads.
THEOREM QueueImplementsBox == Spec => RefinesReplyBox
<1>1. ASSUME Init
      PROVE  Box!Init
  <2>1. Chain = <<>>
    <3>1. LeadsIn(head, next, <<>>) /\ <<>> \in Seq(Cells) /\ IsInjective(<<>>)
      BY <1>1 DEF LeadsIn, Init, IsInjective
    <3>2. <<>> \in Lists
      BY <3>1, InjectiveIsList
    <3>. QED
      BY <3>1, <3>2, ChainIs, ChainIsChainIn
  <2>2. Contents = <<>>
    BY <2>1 DEF Contents
  <2>. QED
    BY <1>1, <2>2 DEF Init, InitRest, Box!Init, Contents
<1>2. ASSUME QueueInv, QueueInv', [Next]_vars
      PROVE  [Box!Next]_(Box!vars)
  <2>1. ASSUME NEW c \in Consumers, NEW id \in Ids, Ask(c, id)
        PROVE  Box!Next
    <3>1. UNCHANGED Contents
      BY <1>2, <2>1, LinksKept, ContentsKept DEF QueueInv, Ask, queueVars
    <3>2. Box!Ask(c, id)
      BY <1>2, <2>1, <3>1 DEF Box!Ask, Ask, QueueInv, Popping, listenerVars, Contents
    <3>. QED
      BY <3>2 DEF Box!Next
  <2>. QED
    BY <1>2, <2>1, PushPuts, TakeTakes, OtherStepsStutter DEF Next, PushStep, PopStep
<1>. QED
  BY <1>1, <1>2, QueueAlways, PTL DEF Spec, RefinesReplyBox, Box!Spec
=============================================================================
