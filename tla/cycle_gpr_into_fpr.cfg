CONSTANTS
  Nodes = {a, b, c}
  NoNode = NoNode
  NumGPRs = 2
  NumFPRs = 1
  KindChoices = {"Dbl"}
  GPRFormatChoices = {"JS"}
  CheckSpilledChoices = {FALSE}
  EntrySpilledChoices = {FALSE}
  RecoveryChoices = {"None"}
  InputFilter <- NoFPRFillOverRegT0
SPECIFICATION Spec
INVARIANTS EntryStateReached
