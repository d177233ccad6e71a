------------------------------ MODULE ReplyBox ------------------------------
(***************************************************************************)
(* What push_message and pop_message of src/src/protocol.cpp promise: a    *)
(* box of messages from which a thread takes the oldest one that carries   *)
(* its request id, waiting for as long as there is none.                   *)
(***************************************************************************)
EXTENDS Naturals, Sequences, SequencesExt

CONSTANTS
  Consumers,   \* threads that wait for replies
  Ids,         \* request ids
  None,        \* no request
  MaxPushes    \* bound on the messages ever put in the box

VARIABLES
  box,         \* messages in the order they arrived
  pushed,      \* how many arrived so far
  want,        \* consumer -> request id it waits for, or None
  got          \* consumer -> last message it took, or None

vars == <<box, pushed, want, got>>

Messages == [id : Ids, n : 1 .. MaxPushes]

Init ==
  /\ box = <<>>
  /\ pushed = 0
  /\ want = [c \in Consumers |-> None]
  /\ got = [c \in Consumers |-> None]

Put(id) ==
  /\ pushed < MaxPushes
  /\ pushed' = pushed + 1
  /\ box' = Append(box, [id |-> id, n |-> pushed + 1])
  /\ UNCHANGED <<want, got>>

Ask(c, id) ==
  /\ want[c] = None
  /\ want' = [want EXCEPT ![c] = id]
  /\ UNCHANGED <<box, pushed, got>>

Oldest(c, k) ==
  /\ k \in DOMAIN box
  /\ box[k].id = want[c]
  /\ \A j \in 1 .. k - 1 : box[j].id # want[c]

Take(c) ==
  \E k \in DOMAIN box :
    /\ Oldest(c, k)
    /\ box' = RemoveAt(box, k)
    /\ got' = [got EXCEPT ![c] = box[k]]
    /\ want' = [want EXCEPT ![c] = None]
    /\ UNCHANGED pushed

Next ==
  \/ \E id \in Ids : Put(id)
  \/ \E c \in Consumers : (\E id \in Ids : Ask(c, id)) \/ Take(c)

Spec == Init /\ [][Next]_vars
=============================================================================
