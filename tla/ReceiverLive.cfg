SPECIFICATION FairSpec
CONSTANTS
  Urls = {}
  Channels = {c}
  Local = Local
  Live = {c}
  NoSpec = NoSpec
  NoOutcome = NoOutcome
  Commands = {"channel", "stop", "quit"}
  Users = {TRUE, FALSE}
  QueueCap = 1
  MaxReconnect = 2
  MaxCommands = 2
PROPERTIES
  ViewerIsServed
CHECK_DEADLOCK FALSE
