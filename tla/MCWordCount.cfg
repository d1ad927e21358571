SPECIFICATION Spec
CONSTANTS
  Texts <- MCTexts
  SerialTexts <- MCSerialTexts
  MapperCounts = {1, 2, 3}
  Size = 30
  Special = "S"
CHECK_DEADLOCK FALSE
INVARIANT NoWordLost
INVARIANT CountsCorrect
PROPERTY PipelineEnds
