SPECIFICATION UpdatesSpec
CONSTANTS
  k1 = k1
  Channels <- OneChannel
  Tasks <- SomeTasks
  Users = {u1}
  Keeper = Keeper
  None = None
  MaxEvents = 2
  MaxUpdates = 2
PROPERTIES
  DisabledComesToRest
  TelegramDelivers
CHECK_DEADLOCK FALSE
