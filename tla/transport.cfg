SPECIFICATION FairSpec
CONSTANTS
  BufferLimit = 2
  RunTakes = 2
  MaxPieces = 3
  MaxIncoming = 3
  MaxSends = 3
  MaxConnections = 2
INVARIANTS
  TypeOK
  Reassembled
  NothingSkipped
PROPERTY FirstTransmitted
CHECK_DEADLOCK FALSE
