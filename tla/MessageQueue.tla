---------------------------- MODULE MessageQueue ----------------------------
(***************************************************************************)
(* The reply queue of a Chord node (src/src/protocol.cpp): a singly linked *)
(* list with head and tail, a mutex and a condition variable.  The         *)
(* listener thread pushes what it receives; the main and the maintenance   *)
(* thread each look for the reply to their own request, anywhere in the    *)
(* list, and sleep on the condition variable until it comes.               *)
(*                                                                         *)
(* A step is what a thread does between two points where another thread    *)
(* can notice: taking the mutex, looking at one list node, changing the    *)
(* links.  List nodes come from a pool, and a deleted node may be handed   *)
(* out again by the next new.                                              *)
(***************************************************************************)
EXTENDS Naturals, Sequences, SequencesExt, FiniteSets

CONSTANTS
  Cells,        \* addresses for list nodes
  Consumers,    \* threads that call pop_message
  Ids,          \* request ids
  None,         \* nullptr, no request, nobody
  MaxPushes,    \* bound on the messages received
  MaxSpurious   \* bound on spurious wake-ups

Listener == "listener"

Messages == [id : Ids, n : 1 .. MaxPushes]

ASSUME MessageQueueAssumption ==
  /\ IsFiniteSet(Cells)
  /\ None \notin Cells \cup Consumers \cup Ids \cup Messages \cup {Listener}
  /\ Listener \notin Consumers
  /\ MaxPushes \in Nat /\ MaxSpurious \in Nat

VARIABLES
  head, tail,   \* of the queue
  next, msg,    \* contents of the list nodes
  alloc,        \* list nodes in use
  mutex,        \* holder of the mutex, or None
  asleep,       \* consumers blocked in pthread_cond_wait
  lpc, fresh,   \* the listener: where it is, the node it is pushing
  pc,           \* consumer -> where it is in pop_message
  want,         \* consumer -> request_id, None when it is not in pop_message
  prev, current,\* consumer -> its two pointers
  got,          \* consumer -> what pop_message returned last
  pushed,       \* messages linked so far
  spurious      \* spurious wake-ups so far

vars == <<head, tail, next, msg, alloc, mutex, asleep, lpc, fresh, pc, want, prev,
          current, got, pushed, spurious>>
queueVars    == <<head, tail, next, msg, alloc>>
listenerVars == <<lpc, fresh, pushed>>
popVars      == <<pc, want, prev, current, got>>

\* Everything but the two pointers init_queue sets.
InitRest ==
  /\ next = [x \in Cells |-> None]
  /\ msg = [x \in Cells |-> None]
  /\ alloc = {}
  /\ mutex = None
  /\ asleep = {}
  /\ lpc = "receive" /\ fresh = None
  /\ pc = [c \in Consumers |-> "out"]
  /\ want = [c \in Consumers |-> None]
  /\ prev = [c \in Consumers |-> None]
  /\ current = [c \in Consumers |-> None]
  /\ got = [c \in Consumers |-> None]
  /\ pushed = 0
  /\ spurious = 0

\* init_queue that leaves tail as it was.
InitTailUnset == InitRest /\ head = None /\ tail = "indeterminate"

Init == InitRest /\ head = None /\ tail = None

(***************************************************************************)
(* push_message, on the listener thread                                    *)
(***************************************************************************)
\* A message arrives (any id: late, duplicated, or nobody's) and is copied
\* into a new list node, before the mutex is taken.
Receive(id) ==
  /\ lpc = "receive"
  /\ pushed < MaxPushes
  /\ \E x \in Cells \ alloc :
       /\ alloc' = alloc \cup {x}
       /\ msg' = [msg EXCEPT ![x] = [id |-> id, n |-> pushed + 1]]
       /\ next' = [next EXCEPT ![x] = None]
       /\ fresh' = x
  /\ lpc' = "lock"
  /\ UNCHANGED <<head, tail, mutex, asleep, pushed, popVars, spurious>>

PushLock ==
  /\ lpc = "lock"
  /\ mutex = None
  /\ mutex' = Listener
  /\ lpc' = "link"
  /\ UNCHANGED <<queueVars, asleep, fresh, pushed, popVars, spurious>>

\* The new node becomes the tail, but nothing points to it.
PushLinkLost ==
  /\ lpc = "link"
  /\ head' = IF tail = None THEN fresh ELSE head
  /\ tail' = fresh
  /\ pushed' = pushed + 1
  /\ lpc' = "wake"
  /\ UNCHANGED <<next, msg, alloc, mutex, asleep, fresh, popVars, spurious>>

PushLink ==
  /\ lpc = "link"
  /\ \/ /\ tail = None
        /\ head' = fresh
        /\ UNCHANGED next
     \/ /\ tail # None
        /\ next' = [next EXCEPT ![tail] = fresh]
        /\ UNCHANGED head
  /\ tail' = fresh
  /\ pushed' = pushed + 1
  /\ lpc' = "wake"
  /\ UNCHANGED <<msg, alloc, mutex, asleep, fresh, popVars, spurious>>

\* pthread_cond_signal in place of pthread_cond_broadcast.
PushWakeOne ==
  /\ lpc = "wake"
  /\ \/ asleep = {} /\ UNCHANGED asleep
     \/ \E c \in asleep : asleep' = asleep \ {c}
  /\ mutex' = None
  /\ lpc' = "receive"
  /\ UNCHANGED <<queueVars, fresh, pushed, popVars, spurious>>

PushWake ==
  /\ lpc = "wake"
  /\ asleep' = {}
  /\ mutex' = None
  /\ lpc' = "receive"
  /\ UNCHANGED <<queueVars, fresh, pushed, popVars, spurious>>

(***************************************************************************)
(* pop_message, on a consumer's thread                                     *)
(***************************************************************************)
\* Request ids are fresh, so no two threads wait for the same one.
Ask(c, id) ==
  /\ pc[c] = "out"
  /\ \A d \in Consumers : want[d] # id
  /\ want' = [want EXCEPT ![c] = id]
  /\ pc' = [pc EXCEPT ![c] = "lock"]
  /\ UNCHANGED <<queueVars, mutex, asleep, listenerVars, prev, current, got, spurious>>

\* The search starts at the head, both after the first lock and after every
\* wake-up, which returns with the mutex held.
StartScan(c) ==
  /\ mutex = None
  /\ mutex' = c
  /\ pc' = [pc EXCEPT ![c] = "scan"]
  /\ current' = [current EXCEPT ![c] = head]
  /\ prev' = [prev EXCEPT ![c] = None]
  /\ UNCHANGED <<queueVars, asleep, listenerVars, want, got, spurious>>

PopLock(c) == pc[c] = "lock" /\ StartScan(c)

\* After a wake-up the search goes on where it stopped.
PopResumeStale(c) ==
  /\ pc[c] = "waiting"
  /\ c \notin asleep
  /\ mutex = None
  /\ mutex' = c
  /\ pc' = [pc EXCEPT ![c] = "scan"]
  /\ UNCHANGED <<queueVars, asleep, listenerVars, want, prev, current, got, spurious>>

PopResume(c) == pc[c] = "waiting" /\ c \notin asleep /\ StartScan(c)

PopSkip(c) ==
  /\ pc[c] = "scan"
  /\ current[c] # None
  /\ msg[current[c]].id # want[c]
  /\ prev' = [prev EXCEPT ![c] = current[c]]
  /\ current' = [current EXCEPT ![c] = next[current[c]]]
  /\ UNCHANGED <<queueVars, mutex, asleep, listenerVars, pc, want, got, spurious>>

\* The unlinking that leaves tail on the node it deletes.
PopTakeKeepTail(c) ==
  /\ pc[c] = "scan"
  /\ current[c] # None
  /\ msg[current[c]].id = want[c]
  /\ LET x == current[c] IN
       /\ \/ prev[c] # None /\ next' = [next EXCEPT ![prev[c]] = next[x]] /\ UNCHANGED head
          \/ prev[c] = None /\ head' = next[x] /\ UNCHANGED next
       /\ got' = [got EXCEPT ![c] = msg[x]]
       /\ alloc' = alloc \ {x}
  /\ mutex' = None
  /\ want' = [want EXCEPT ![c] = None]
  /\ pc' = [pc EXCEPT ![c] = "out"]
  /\ UNCHANGED <<tail, msg, asleep, listenerVars, prev, current, spurious>>

PopTake(c) ==
  /\ pc[c] = "scan"
  /\ current[c] # None
  /\ msg[current[c]].id = want[c]
  /\ LET x == current[c] IN
       /\ \/ prev[c] # None /\ next' = [next EXCEPT ![prev[c]] = next[x]] /\ UNCHANGED head
          \/ prev[c] = None /\ head' = next[x] /\ UNCHANGED next
       /\ tail' = IF x = tail THEN prev[c] ELSE tail
       /\ got' = [got EXCEPT ![c] = msg[x]]
       /\ alloc' = alloc \ {x}
  /\ mutex' = None
  /\ want' = [want EXCEPT ![c] = None]
  /\ pc' = [pc EXCEPT ![c] = "out"]
  /\ UNCHANGED <<msg, asleep, listenerVars, prev, current, spurious>>

PopWait(c) ==
  /\ pc[c] = "scan"
  /\ current[c] = None
  /\ asleep' = asleep \cup {c}
  /\ mutex' = None
  /\ pc' = [pc EXCEPT ![c] = "waiting"]
  /\ UNCHANGED <<queueVars, listenerVars, want, prev, current, got, spurious>>

\* POSIX lets pthread_cond_wait return for no reason.
SpuriousWake(c) ==
  /\ c \in asleep
  /\ spurious < MaxSpurious
  /\ spurious' = spurious + 1
  /\ asleep' = asleep \ {c}
  /\ UNCHANGED <<queueVars, mutex, listenerVars, popVars>>

PushStep == PushLock \/ PushLink \/ PushWake
PopStep(c) == PopLock(c) \/ PopResume(c) \/ PopSkip(c) \/ PopTake(c) \/ PopWait(c)

Next ==
  \/ \E id \in Ids : Receive(id)
  \/ PushStep
  \/ \E c \in Consumers :
       \/ \E id \in Ids : Ask(c, id)
       \/ PopStep(c)
       \/ SpuriousWake(c)

\* A thread that can go on does; nothing makes a message arrive, a thread ask
\* or a sleeper wake without cause.
Fairness == WF_vars(PushStep) /\ \A c \in Consumers : WF_vars(PopStep(c))

Spec == Init /\ [][Next]_vars /\ Fairness

-----------------------------------------------------------------------------
\* Do the links lead from head through the nodes of s, in this order, to null?
Leads(s) ==
  /\ head = IF s = <<>> THEN None ELSE s[1]
  /\ \A k \in DOMAIN s : next[s[k]] = IF k = Len(s) THEN None ELSE s[k + 1]

\* A list without a cycle is at most as long as there are nodes.
Lists == SeqOf(Cells, Cardinality(Cells))

\* The list nodes in the order the links lead to them.
Chain == CHOOSE s \in Lists : Leads(s)

TypeOK ==
  /\ {head, tail, fresh} \subseteq Cells \cup {None}
  /\ next \in [Cells -> Cells \cup {None}]
  /\ msg \in [Cells -> Messages \cup {None}]
  /\ alloc \subseteq Cells
  /\ mutex \in Consumers \cup {Listener, None}
  /\ asleep \subseteq Consumers
  /\ lpc \in {"receive", "lock", "link", "wake"}
  /\ pc \in [Consumers -> {"out", "lock", "scan", "waiting"}]
  /\ want \in [Consumers -> Ids \cup {None}]
  /\ prev \in [Consumers -> Cells \cup {None}]
  /\ current \in [Consumers -> Cells \cup {None}]
  /\ got \in [Consumers -> Messages \cup {None}]
  /\ pushed \in 0 .. MaxPushes
  /\ spurious \in 0 .. MaxSpurious

\* The list is well formed whenever the mutex is free: the links lead from
\* head to tail through nodes that are allocated and different, and tail is
\* where the next message will be linked.  Unlinking the first, a middle, the
\* last or the only node must all restore it.
ListWellFormed ==
  mutex = None =>
    \E s \in Lists :
      /\ Leads(s)
      /\ tail = IF s = <<>> THEN None ELSE s[Len(s)]
      /\ IsInjective(s)
      /\ Range(s) \subseteq alloc

\* A scanning thread never looks at a list node that has been deleted, though
\* the other thread deletes nodes and the pool hands them out again.
NoDanglingScan ==
  \A c \in Consumers : pc[c] = "scan" => {prev[c], current[c]} \subseteq alloc \cup {None}

\* The linked list with its locking is the box of messages: nothing pushed is
\* lost, reordered or taken twice, and a thread gets the oldest message with
\* its id and no other.
Box == INSTANCE ReplyBox WITH box <- [k \in DOMAIN Chain |-> msg[Chain[k]]]
RefinesReplyBox == Box!Spec

\* A thread that waits for a reply that is in the queue returns with it: no
\* wake-up is lost between the search that misses it and the wait, and none
\* goes to the wrong thread only.
Answered ==
  \A c \in Consumers :
    (want[c] # None /\ \E k \in DOMAIN Chain : msg[Chain[k]].id = want[c])
      ~> want[c] = None
=============================================================================
