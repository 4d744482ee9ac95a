CONSTANTS
  a = a  t1 = t1  t2 = t2
  Jobs = {a}
  Tasks = {t1, t2}
  NoJob = NoJob
  MaxPermits = 2
  MaxConcurrent = 2
  MaxFailures = 1
  MaxDaily = 1
  Capped = {a}
  Word = 8
  KindsOf <- Others
  Skipping = {a}
  OneOff = {a}
  LongRunning = {}
  LongCooldown = {}
  Edited = {}
  MaxDisturbances = 2
SPECIFICATION Spec
SYMMETRY TaskSymmetry
CHECK_DEADLOCK FALSE
INVARIANTS
  RunsHaveJobs
