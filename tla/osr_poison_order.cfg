CONSTANTS
  NumVars = 4
  NumGPRs = 2
  NumFPRs = 1
  InputFilter <- TwoPoisonedOneFPR
  LastSetChoices <- NoneSet
SPECIFICATION Spec
INVARIANT FrameCanonical
