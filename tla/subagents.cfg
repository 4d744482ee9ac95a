SPECIFICATION Spec
CONSTANTS
  parent = parent  c1 = c1
  Calls = {c1}
  Runs = {1, 2}
  CallOf <- OneCall
  Foreign = {1}
  MaxConcurrent = 1
  Agents = {parent}
  Messages = {1, 2}
  Receivers = {page, tool}
  Nothing = Nothing
  MaxExits = 1
INVARIANTS
  RowsAndReportsAgree
PROPERTIES
  CallsAreAnswered
  GivenOnce
CHECK_DEADLOCK FALSE
