CONSTANTS
  Nodes = {a, b}
  NoNode = NoNode
  NumGPRs = 1
  NumFPRs = 1
  KindChoices = {"Dbl"}
  GPRFormatChoices = {"JS"}
  CheckSpilledChoices = {FALSE}
  EntrySpilledChoices = {FALSE}
  RecoveryChoices = {"None"}
  InputFilter <- AnyInput
SPECIFICATION Spec
INVARIANTS EntryStateReached
