CONSTANTS
  NumVars = 4
  NumGPRs = 2
  NumFPRs = 1
  InputFilter <- NoPoisonedFPRBeforeGPR
  LastSetChoices <- FirstOrNone
SPECIFICATION Spec
INVARIANTS TypeOK NoValueLost FrameCanonical ScratchInBounds
