SPECIFICATION Spec
CONSTANTS
  t1 = t1
  t2 = t2
  t3 = t3
  Nobody = Nobody
  NotCached = NotCached
  Turns <- TwoTurns
  Commands = {"clear", "compact"}
  KeepTail = 1
  CutAbove = 9
  DigestEvery = 9
  DigestFrom = 1
  DigestLast = 2
  Paged = {t1}
  OutlineLast = 1
  MaxStored = 9
  MaxRows = 2
  MaxCommands = 2
INVARIANT HiddenAreSummarised
CHECK_DEADLOCK FALSE
