SPECIFICATION Spec
CONSTANTS
  Agents = {1, 2}
  Clients = {c1}
  Nobody = Nobody
  MaxCommands = 3
  Tokens = {k1}
  Defaults = {d1}
  Own = Own
  Absent = Absent
  MaxStarts = 2
PROPERTY ImportRestoresHomes
CHECK_DEADLOCK FALSE
