CONSTANTS
  Nodes = {a, b, c}
  NoNode = NoNode
  NumGPRs = 3
  NumFPRs = 0
  KindChoices = {"Int", "Other"}
  GPRFormatChoices = {"Integer", "JS"}
  CheckSpilledChoices = {FALSE}
  EntrySpilledChoices = {FALSE, TRUE}
  RecoveryChoices = {"None", "BooleanSpeculationCheck"}
  InputFilter <- SpilledEntryInput
SYMMETRY NodeSymmetry
SPECIFICATION Spec
INVARIANTS TypeOK NoLiveValueLost EntryStateReached
