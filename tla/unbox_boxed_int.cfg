CONSTANTS
  Nodes = {a}
  NoNode = NoNode
  NumGPRs = 1
  NumFPRs = 1
  KindChoices = {"Int"}
  GPRFormatChoices = {"JS"}
  CheckSpilledChoices = {FALSE}
  EntrySpilledChoices = {FALSE}
  RecoveryChoices = {"None"}
  InputFilter <- AnyInput
SPECIFICATION Spec
INVARIANTS EntryStateReached
