CONSTANTS
  Unknown = Unknown
  MaxText = 1
  MaxBytes = 1
  MaxWords = 1
  Texts <- EdgeTexts
  Encoded <- EncodedEdges
  Sources <- EdgeSources
  Rooms = {1, 2, 3}
  Beyond <- AnyWord
SPECIFICATION Spec
INVARIANTS
  StaysInRoom
CHECK_DEADLOCK FALSE
