SPECIFICATION Spec
CHECK_DEADLOCK FALSE
CONSTANTS
  StackSize = 2
  MaxChunks = 5
  Inputs <- MCInputs
INVARIANTS
  InterpreterTypeOK
  BlocksMatchInput
  PendingMatchesInput
  NothingInsideRefused
  CurrentPackageLives
PROPERTIES
  EndsAtEndOfInput
  UnfinishedNeverEnds
