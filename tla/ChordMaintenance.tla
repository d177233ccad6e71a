-------------------------- MODULE ChordMaintenance --------------------------
(***************************************************************************)
(* The rest of the Chord code: the node thread (src/src/threads.cpp,       *)
(* src/src/stabilization.cpp), the handlers of STABILIZE, NOTIFY and       *)
(* FIND_SUCCESSOR (src/src/node.cpp) and lookups that ask another node.    *)
(*                                                                         *)
(* Abstractions.  A few fingers instead of 160.  An answer is kept by the  *)
(* thread it is for.  HEARTBEAT has no handler and sendto() does not fail, *)
(* so check_predecessor changes nothing.  These messages are not lost      *)
(* here: a loss could only hold a round up.                                *)
(***************************************************************************)
EXTENDS ChordRing

CONSTANTS
  None,        \* null, no node
  NumFingers   \* M

VARIABLES
  pred,     \* n->predecessor
  finger,   \* n->finger
  thr,      \* the node thread: where it is, and the finger it fixes next
  mail      \* messages of the maintenance and of lookups

mvars == <<pred, finger, thr, mail>>
allvars == <<vars, mvars>>

Fingers == 1 .. NumFingers

MInit ==
  /\ Init
  /\ pred = [n \in Nodes |-> None]
  /\ finger = [n \in Nodes |-> [i \in Fingers |-> n]]
  /\ thr = [n \in Nodes |-> [at |-> "off", next |-> 1]]
  /\ mail = {}

\* "for" is the thread of the asking node that waits.
Mail(type, from, to, for, x) ==
  [type |-> type, from |-> from, to |-> to, for |-> for, node |-> x]

Answer(to, for, x) == Mail("ANSWER", None, to, for, x)

At(n, where) == thr' = [thr EXCEPT ![n].at = where]

(***************************************************************************)
(* find_successor                                                          *)
(***************************************************************************)
Preceding(n, id) == {i \in Fingers : InInterval(finger[n][i], n, id)}

ClosestPreceding(n, id) ==
  IF Preceding(n, id) = {} THEN n
  ELSE finger[n][CHOOSE i \in Preceding(n, id) : \A j \in Preceding(n, id) : j <= i]

\* Answered with n->successor, without asking anyone.
Local(n, id) ==
  InInterval(id, n, succ[n]) \/ id = succ[n] \/ ClosestPreceding(n, id) = n

\* find_successor_remote: thread t of n asks.
Ask(n, t, id) ==
  /\ ~Local(n, id)
  /\ mail' = mail \cup {Mail("FIND_SUCCESSOR", n, ClosestPreceding(n, id), t, id)}

\* The answer has come: to the node, its thread and its question.
Told(n, t, r) == Answer(n, t, r) \in mail

\* The listener waits for an answer that only itself could receive.
Waiting == [op |-> "wait"]

\* The console asks before it stores or finds.
LookupAsk(n, f) ==
  /\ Prompt(n) /\ (f # None => New(f))
  /\ \E id \in IF f = None THEN Files ELSE {f} : Ask(n, "main", id)
  /\ Turn(n, [op |-> "lookup", for |-> f])
  /\ UNCHANGED <<listener, succ, files, uploaded, replies, downloads, net, faults, odd,
                 pred, finger, thr>>

LookupEnd(n) ==
  /\ main[n].op = "lookup"
  /\ \E r \in Nodes :
       /\ Told(n, "main", r)
       /\ \/ main[n].for # None /\ StoreAt(n, main[n].for, r)
          \/ main[n].for = None /\ FindAt(n, r)
          \/ main[n].for = None /\ r = n /\ Turn(n, Ready) /\
             UNCHANGED <<listener, succ, files, uploaded, replies, downloads, net, faults, odd>>
       /\ mail' = mail \ {Answer(n, "main", r)}
  /\ UNCHANGED <<pred, finger, thr>>

(***************************************************************************)
(* node_thread                                                             *)
(***************************************************************************)
\* main starts the thread when it has created or joined a ring; after each round
\* the thread sleeps and begins the next, whatever the console does.
StartThread(n) ==
  /\ \/ thr[n].at = "off" /\ main[n].op \in {"ready", "find"}
     \/ thr[n].at = "sleep" /\ n \in Running
  /\ At(n, "stabilize")
  /\ UNCHANGED <<vars, pred, finger, mail>>

StabilizeAsk(n) ==
  /\ n \in Running /\ thr[n].at = "stabilize"
  /\ mail' = mail \cup {Mail("STABILIZE", n, succ[n], "node", n)}
  /\ At(n, "await")
  /\ UNCHANGED <<vars, pred, finger>>

\* n->successor is the node itself, not a copy.
Own(n) == Contacts[n] = {} /\ succ[n] = n

Nearer(n, x) == pred[n] = None \/ InInterval(x, pred[n], n)

\* The answer x: the new successor, if it lies before the old one, which is
\* cleaned up (the lists and the socket of the node, when that is itself), and
\* notify, whose last lines act on a copy unless it is the node itself.
StabilizeEnd(n) ==
  /\ n \in Running /\ thr[n].at = "await"
  /\ \E x \in Nodes :
       /\ Told(n, "node", x)
       /\ LET better == InInterval(x, n, succ[n])
          IN /\ succ' = IF better THEN [succ EXCEPT ![n] = x] ELSE succ
             /\ IF better /\ Own(n)
                THEN Turn(n, Gone) /\ files' = [files EXCEPT ![n] = <<>>]
                ELSE UNCHANGED <<main, files>>
             /\ pred' = IF Own(n) /\ ~better /\ Nearer(n, n) THEN [pred EXCEPT ![n] = n] ELSE pred
             /\ mail' = (mail \ {Answer(n, "node", x)})
                          \cup {Mail("NOTIFY", n, succ'[n], "node", n)}
  /\ At(n, "fix")
  /\ UNCHANGED <<listener, uploaded, replies, downloads, net, faults, odd, finger>>

\* fix_fingers looks up the finger's own identifier.
NextFinger(n) == 1 + (thr[n].next % NumFingers)

Fixed(n, r) ==
  /\ finger' = [finger EXCEPT ![n][NextFinger(n)] = r]
  /\ thr' = [thr EXCEPT ![n] = [at |-> "sleep", next |-> NextFinger(n)]]
  /\ UNCHANGED <<vars, pred>>

FixFingers(n) ==
  /\ n \in Running /\ thr[n].at = "fix"
  /\ LET id == finger[n][NextFinger(n)]
     IN \/ Local(n, id) /\ Fixed(n, succ[n]) /\ UNCHANGED mail
        \/ Ask(n, "node", id) /\ At(n, "awaitfix") /\ UNCHANGED <<vars, pred, finger>>

FixEnd(n) ==
  /\ n \in Running /\ thr[n].at = "awaitfix"
  /\ \E r \in Nodes :
       /\ Told(n, "node", r) /\ Fixed(n, r)
       /\ mail' = mail \ {Answer(n, "node", r)}

(***************************************************************************)
(* The handlers                                                            *)
(***************************************************************************)
Listening(m, type) == m.type = type /\ m.to \in Running /\ listener[m.to] = Free

\* Answered only by a node that has a predecessor.
HandleStabilize(m) ==
  /\ Listening(m, "STABILIZE")
  /\ mail' = (mail \ {m}) \cup
       IF pred[m.to] = None THEN {} ELSE {Answer(m.from, m.for, pred[m.to])}
  /\ UNCHANGED <<vars, pred, finger, thr>>

HandleNotify(m) ==
  /\ Listening(m, "NOTIFY")
  /\ pred' = IF Nearer(m.to, m.node) THEN [pred EXCEPT ![m.to] = m.node] ELSE pred
  /\ mail' = mail \ {m}
  /\ UNCHANGED <<vars, finger, thr>>

HandleFindSuccessor(m) ==
  /\ Listening(m, "FIND_SUCCESSOR")
  /\ \/ /\ Local(m.to, m.node)
        /\ mail' = (mail \ {m}) \cup {Answer(m.from, m.for, succ[m.to])}
        /\ UNCHANGED vars
     \/ /\ Ask(m.to, "listener", m.node)
        /\ listener' = [listener EXCEPT ![m.to] = Waiting]
        /\ UNCHANGED <<main, succ, files, uploaded, replies, downloads, net, faults, odd>>
  /\ UNCHANGED <<pred, finger, thr>>

\* A JOIN that cannot be answered at once.
HandleJoinRemote(m) ==
  /\ Listening(m, "JOIN")
  /\ Ask(m.to, "listener", m.from)
  /\ listener' = [listener EXCEPT ![m.to] = Waiting]
  /\ net' = net \ {m}
  /\ UNCHANGED <<main, succ, files, uploaded, replies, downloads, faults, odd,
                 pred, finger, thr>>

\* What ChordRing has, where no other node has to be asked.
Foreground(n) ==
  \/ Create(n) \/ \E contact \in Contacts[n] : Join(n, contact)
  \/ Work(n) \/ Delete(n)
  \/ \E f \in Files : Local(n, f) /\ (Store(n, f) \/ Find(n))

NodeThread(n) ==
  StartThread(n) \/ StabilizeAsk(n) \/ StabilizeEnd(n) \/ FixFingers(n) \/ FixEnd(n)

Handlers(m) == HandleStabilize(m) \/ HandleNotify(m) \/ HandleFindSuccessor(m)

MNext ==
  \/ \E n \in Nodes :
       \/ Foreground(n) /\ UNCHANGED mvars
       \/ Exit(n) /\ At(n, "off") /\ UNCHANGED <<pred, finger, mail>>
       \/ \E f \in Files \cup {None} : LookupAsk(n, f)
       \/ LookupEnd(n)
       \/ NodeThread(n)
  \/ \E m \in net : /\ m.type = "JOIN" => Local(m.to, m.from)
                    /\ Deliver(m) /\ UNCHANGED mvars
  \/ \E m \in net : HandleJoinRemote(m)
  \/ \E m \in mail : Handlers(m)

MSpec == MInit /\ [][MNext]_allvars

\* The node thread goes on, and its messages arrive.
MFairSpec ==
  /\ MSpec
  /\ \A n \in Nodes : WF_allvars(NodeThread(n))
  /\ \A n \in Nodes : WF_allvars(\E m \in mail : m.to = n /\ Handlers(m))

-----------------------------------------------------------------------------
\* The successors form the ring: no other node lies before a node's own.
IsRing ==
  \A n \in Nodes : \A m \in Nodes \ {n, succ[n]} :
    succ[n] # n /\ ~InInterval(m, n, succ[n])

\* The overlay maintains the logical Chord ring: once every node has created or
\* joined it, the maintenance, which verifies and updates the nodes' relations
\* periodically, brings each to its successor, unless somebody exits.
RingForms ==
  (\A n \in Nodes : main[n].op \notin {"off", "join"}) ~> IsRing \/ "exit" \in odd
=============================================================================
