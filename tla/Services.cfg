SPECIFICATION ServicesSpec
CONSTANTS
  Conns = {1, 2, 3}
  MaxCrashes = 1
  Slots = {1, 2}
  Sids = {1, 2, 3}
  MaxChanges = 1
  Sources = {a, b}
  NoSource = none
  MaxAsks = 4
  Addresses = {p, q}
  NoAddress = noaddress
  Confirm = 2
  Loss = 3
  MaxFlaps = 3
  Links = {k, l}
  NoLink = nolink
  Lists = {1}
  Reslide = 2
  Refresh = 3
  MaxTurns = 3
  MaxFaults = 1
  MaxDeaths = 1
  Urls = {u, v}
  Groups = {g}
  NoGroup = nogroup
  MaxChan = 2
  MaxEdits = 3
  Specs = {a, b}
  NoSpec = nospec
  Outcomes = {0, 1}
  NoOutcome = nooutcome
  SeqMod = 6
INVARIANTS
  JobsAreSound
  SubtitlesAreRight
  ChannelsAreSound
PROPERTIES
  SubscribersAreInformed
  ReceiverIsFound
  GuideArrives
  LatestWinsAcrossTheWrap
CHECK_DEADLOCK FALSE
