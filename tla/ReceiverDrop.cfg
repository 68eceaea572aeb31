SPECIFICATION FairSpec
CONSTANTS
  Urls = {}
  Channels = {c}
  Local = Local
  Live = {c}
  NoSpec = NoSpec
  NoOutcome = NoOutcome
  Commands = {}
  Users = {TRUE}
  QueueCap = 1
  MaxReconnect = 1
  MaxCommands = 2
PROPERTIES
  DroppedIsRetried
CHECK_DEADLOCK FALSE
