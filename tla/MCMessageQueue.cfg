\* 2 waiting threads, 3 messages with 2 ids, 3 list nodes.  The system stops
\* when the bound on messages is reached and both threads wait.
CONSTANTS
  Cells = {x1, x2, x3}
  Consumers = {main, node}
  Ids = {i1, i2}
  None = None
  MaxPushes = 3
  MaxSpurious = 1
SPECIFICATION Spec
INVARIANTS TypeOK ListWellFormed NoDanglingScan
PROPERTIES RefinesReplyBox Answered
CHECK_DEADLOCK FALSE
