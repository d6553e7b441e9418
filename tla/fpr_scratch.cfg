CONSTANTS
  Nodes = {a, b, c}
  NoNode = NoNode
  NumGPRs = 2
  NumFPRs = 2
  KindChoices = {"Int", "Dbl"}
  GPRFormatChoices = {"Integer", "JS"}
  CheckSpilledChoices = {FALSE}
  EntrySpilledChoices = {FALSE}
  RecoveryChoices = {"None"}
  InputFilter <- ScratchFPRInput
SPECIFICATION Spec
INVARIANTS NoLiveValueLost EntryStateReached ScratchRegistersUnshuffled
PROPERTY Termination
