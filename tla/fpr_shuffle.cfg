CONSTANTS
  Nodes = {a, b, c}
  NoNode = NoNode
  NumGPRs = 2
  NumFPRs = 1
  KindChoices = {"Int", "Dbl", "Other"}
  GPRFormatChoices = {"Integer", "JS"}
  CheckSpilledChoices = {FALSE, TRUE}
  EntrySpilledChoices = {FALSE}
  RecoveryChoices = {"None", "SpeculativeAdd", "BooleanSpeculationCheck"}
  InputFilter <- MixedRegisterInput
SPECIFICATION Spec
INVARIANTS NoLiveValueLost EntryStateReached
SYMMETRY NodeSymmetry
