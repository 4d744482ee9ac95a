SPECIFICATION Spec
CONSTANTS
  t1 = t1
  t2 = t2
  t3 = t3
  Nobody = Nobody
  NotCached = NotCached
  Turns <- ThreeTurns
  Commands = {"clear", "cut", "delete", "compact", "truncate"}
  KeepTail = 1
  CutAbove = 4
  DigestEvery = 6
  DigestFrom = 1
  DigestLast = 2
  Paged = {t1}
  OutlineLast = 1
  MaxStored = 2
  MaxRows = 2
  MaxCommands = 1
INVARIANTS
  RowsKeepTurns
  AnswersAreSeen
  DeletedLeavesNoRows
PROPERTIES
  StopHitsRunningTurn
  OneTurnAtATime
  EveryTurnEnds
CHECK_DEADLOCK FALSE
