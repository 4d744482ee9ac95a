SPECIFICATION Spec
CONSTANTS
  MaxRounds = 3
  MaxLlmCalls = 3
  MaxToolCalls = 1
  CallKinds = {"denied", "serial", "safe", "end", "wait"}
  MaxCalls = 2
  MaxAsked = 2
INVARIANTS
  OneBudget
  CancelWindsUp
  RowsFollowTurn
PROPERTY TurnEnds
CHECK_DEADLOCK FALSE
