CONSTANTS
  Unknown = Unknown
  MaxText = 2
  MaxBytes = 4
  MaxWords = 3
  Texts <- EdgeTexts
  Encoded <- EncodedEdges
  Sources <- EdgeSources
  Rooms = {1, 2, 3}
  Beyond <- AnyWord
SPECIFICATION Spec
INVARIANTS
  RoomInv
  TextKept
PROPERTIES
  ReadsBack
CHECK_DEADLOCK FALSE
