CONSTANTS
  Requests <- AllKinds
  Chunk = 3
  Room = 9
  MaxInterrupts = 1
SPECIFICATION FairRequestSpec
INVARIANTS
  InputExact
  InputInOrder
PROPERTIES
  RequestEnds
CHECK_DEADLOCK FALSE
