CONSTANTS
  Main = Main
  Workers = {w1, w2}
  NoThread = NoThread
  SystemPageSize = 4096
SPECIFICATION Spec
INVARIANTS TypeOK WaitReturnsAfterExit WorkerIdentifierAgreed
PROPERTY WaitForAllThreadsCompletionReturns
