SPECIFICATION PartsSpec
CONSTANTS
  s1 = s1  s2 = s2  t1 = t1  j1 = j1
  Servers = {s1, s2}
  Agents = {1, 2}
  AgentOf <- TwoOwners
  NameOf <- SameName
  TransportOf <- OneOfEach
  Turns = {t1}
  Jobs = {j1}
  WorksFor <- Work
  None = None
  Configured = {s1}
  MaxCalls = 2
  MaxMcpCommands = 1
  Clients = {c1, c2}
  Nobody = Nobody
  MaxCommands = 3
  Tokens = {k1}
  Defaults = {d1, d2}
  Own = Own
  Absent = Absent
  MaxStarts = 2
INVARIANTS
  OwnAnswer
  RowsHaveHomes
  StartsDoNotRepeat
PROPERTIES
  CallersGetThrough
  RemovedIsStopped
  ChangesAreSeen
CHECK_DEADLOCK FALSE
