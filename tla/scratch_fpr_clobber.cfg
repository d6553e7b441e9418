CONSTANTS
  Nodes = {a, b}
  NoNode = NoNode
  NumGPRs = 2
  NumFPRs = 2
  KindChoices = {"Dbl"}
  GPRFormatChoices = {"JS"}
  CheckSpilledChoices = {FALSE}
  EntrySpilledChoices = {FALSE}
  RecoveryChoices = {"None"}
  InputFilter <- NoFPRFillOverRegT0
SPECIFICATION Spec
INVARIANTS NoLiveValueLost
