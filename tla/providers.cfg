SPECIFICATION PartsSpec
CONSTANTS
  Providers = {google, openai, anthropic}
  google = google  openai = openai  anthropic = anthropic
  OAuth = {google, openai}
  Rotating = {openai}
  Defaults = {anthropic}
  FromEnv = {anthropic}
  Page = Page
  Turns = {t1, t2}
  Logins = {l1}
  None = None
  Absent = Absent
  MaxKeys = 3
  MaxEdits = 1
  MaxExits = 1
  Models = {"gpt", "claude", "qwen", "kimi"}
  FreshIds = TRUE
  HistoryTurns = 2
  RecentTurns = 1
  HeadKept = 2
  TailKept = 1
  KeepTail = 2
  MaxTurns = 2
  MaxRequests = 2
  MaxCalls = 2
  MaxAsked = 2
INVARIANTS
  RefreshTokensWork
  RequestsArePaired
PROPERTIES
  NoKeyIsLost
CHECK_DEADLOCK FALSE
