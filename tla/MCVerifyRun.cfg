SPECIFICATION Spec
CONSTANTS
  Seeds <- MCSeeds
  ExecutionSeeds <- MCExecutionSeeds
  Cells <- MCCells
  None = "none"
  Scenarios <- MCScenarios
CHECK_DEADLOCK FALSE
INVARIANTS
  PassedMergeIsEarned
  VerdictHasItsCause
  SavedVerdictsAreValid
  BlockedForCause
