CONSTANTS
  Nodes = {a, b}
  NoNode = NoNode
  NumGPRs = 2
  NumFPRs = 0
  KindChoices = {"Int"}
  GPRFormatChoices = {"Integer"}
  CheckSpilledChoices = {FALSE}
  EntrySpilledChoices = {TRUE}
  RecoveryChoices = {"None"}
  InputFilter <- SpilledEntryHeldByCheck
SPECIFICATION Spec
INVARIANTS EntryStateReached
