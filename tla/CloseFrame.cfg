SPECIFICATION Spec
CONSTANTS
  None = None
  Texts <- MCTexts
  Pieces = {1, 2}
  MaxMessageSize = 3
  MaxInputs = 3
  MaxStarts = 3
CHECK_DEADLOCK FALSE
INVARIANT
  FramesWhole
