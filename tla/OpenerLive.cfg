SPECIFICATION FairSpec
CONSTANTS
  Specs = {a}
  NoSpec = NoSpec
  Outcomes = {0, 1, 9}
  NoOutcome = NoOutcome
  SeqMod = 8
  Main = Main
  Worker = Worker
  Others = {h}
  NoOne = NoOne
  SourceKinds = {"http"}
  MaxRequests = 2
PROPERTIES
  OpensEnd
