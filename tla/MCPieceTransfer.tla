-------------------------- MODULE MCPieceTransfer --------------------------
EXTENDS PieceTransfer

CONSTANTS p1, p2, p3

\* One other file of the name, longer and without a piece in common.
Other == [Holes EXCEPT !.longer = TRUE]

MCOthers == {Other}

\* p1 has the file, p2 the file or the other, p3 nothing.
MCFound ==
  [p \in Peers |-> CASE p = p1 -> {Exact} [] p = p2 -> {Exact, Other} [] OTHER -> {Absent}]

\* p3 keeps its file under the path that p1 uses on another machine; p2 and p3
\* share a machine and use different paths.
MCLocal ==
  [ps \in Peers \X Peers |->
     CASE ps[1] = ps[2] -> ps[1]
       [] ps \in {<<p1, p3>>, <<p3, p1>>} -> ps[1]
       [] ps \in {<<p2, p3>>, <<p3, p2>>} -> ps[2]
       [] OTHER -> None]
=============================================================================
