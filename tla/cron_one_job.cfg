CONSTANTS
  a = a  t1 = t1  t2 = t2
  Jobs = {a}
  Tasks = {t1, t2}
  NoJob = NoJob
  MaxPermits = 2
  MaxConcurrent = 1
  MaxFailures = 1
  MaxDaily = 0
  Capped = {}
  Word = 8
  KindsOf <- Recurring
  Skipping = {}
  OneOff = {}
  LongRunning = {a}
  LongCooldown = {}
  Edited = {a}
  MaxDisturbances = 1
SPECIFICATION FairSpec
CHECK_DEADLOCK FALSE
INVARIANTS
  PermitsConserved
  NoOrphanRunning
PROPERTIES
  RecurringJobKeepsRunning
  FailingJobIsDisabled
