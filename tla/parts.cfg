SPECIFICATION PartsSpec
CONSTANTS
  s1 = s1  s2 = s2
  Sessions = {s1, s2}
  Watched = s1
  Providers = {"openai", "anthropic", "gemini"}
  Scripts <- ServerScripts
  MaxTries = 2
  Ids = {m1, m2}
  Alike = {{m1, m2}}
  Writers = {w}
  Hygienes = {h}
  Recalls = {r}
  Learners = {l1, l2}
  HygieneMax = 1
  LearnerMax = 1
  MaxTasks = 3
  MaxCrashes = 1
  FileCalls = {f1, f2}
  Spellings = {p1, p2}
  Changes = {o1}
  First = First
  MaxTime = 1
  MaxBackups = 1
  MaxSize = 3
  MaxHunks = 2
  Mark = 99
  Elements = {e1, e2}
  Label = Label
  MaxLength = 2
  MaxShift = 1
  MaxBrowserCalls = 4
  Agents = {a1, a2}
  None = None
  Setups = {u1, u2}
  Boot = Boot
  Ports = {1, 2}
  Other = Other
  Nobody = Nobody
  MaxStarts = 2
  SkillCalls = {c1, c2}
  SkillTurns = {t1, t2}
  Absent = Absent
  Nil = Nil
  Bundled = TRUE
  MaxSkillCalls = 2
  MaxLooks = 2
  MaxExits = 1
  CloudSessions = {x1, x2}
  Down = Down
  MaxMessages = 2
  MaxForwards = 1
  MaxBreaks = 2
  MaxDeletes = 1
  People = {1, 2}
  Executions = {x1, x2}
  Heart = Heart
  Titles = {n1}
  Heartbeat = Heartbeat
  Retries = 1
  MaxRuns = 2
  MaxSessions = 2
  MaxCleanings = 1
INVARIANTS
  AnswerIsLastTry
  NothingIsLost
  EditsAreSafe
  PlainDiffsAreApplied
  RefsMeanWhatWasSeen
  ReportsAreTrue
  UninstalledIsUnseen
  SyncSkipsNothing
  SessionsAreReused
CHECK_DEADLOCK FALSE
