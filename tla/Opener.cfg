SPECIFICATION Spec
CONSTANTS
  Specs = {a}
  NoSpec = NoSpec
  Outcomes = {0, 1, 9}
  NoOutcome = NoOutcome
  SeqMod = 8
  Main = Main
  Worker = Worker
  Others = {h}
  NoOne = NoOne
  SourceKinds = {"local", "hls", "http"}
  MaxRequests = 2
INVARIANTS
  PipelineExclusive
  SettledIsNewest
  AbortsHitTheSuperseded
  SupersedeSignalsLiveMutex
  ArmedOnOwnStream
  ShutdownIsClean
PROPERTIES
  NoSupersededError
  ImplementsLatestWins
