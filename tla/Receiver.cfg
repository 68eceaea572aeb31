SPECIFICATION Spec
CONSTANTS
  Urls = {u}
  Channels = {c}
  Local = Local
  Live = {c}
  NoSpec = NoSpec
  NoOutcome = NoOutcome
  Commands = {"cast", "play", "channel", "file", "delete", "stop", "quit", "queue",
              "seturi", "dlnaplay", "dlnastop"}
  Users = {TRUE}
  QueueCap = 1
  MaxReconnect = 1
  MaxCommands = 2
INVARIANTS
  StoppedStaysStopped
  RetriesWhatWasAsked
PROPERTIES
  ResumeNamesItsStream
CHECK_DEADLOCK FALSE
