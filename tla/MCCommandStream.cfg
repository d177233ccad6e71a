\* Up to 6 messages of the peer, answers of up to 3 sends, files of up to 2
\* pieces.  The conversation really can get stuck: no check for deadlock.
CONSTANTS
  MaxSends = 6
  MaxLines = 3
  MaxPieces = 2
SPECIFICATION Spec
INVARIANTS TypeOK  InStep
CHECK_DEADLOCK FALSE
