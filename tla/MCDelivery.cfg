CONSTANTS
  N = 2
  Deps <- Chain
  Configs <- SomeConfigs
  MaxCommits = 2
  MaxPRs = 2
  MaxCrashes = 1
  EditOnBase = FALSE
SPECIFICATION Spec
INVARIANTS
  TypeOK
  PushRecordIsTrue
PROPERTIES
  MergeRecordIsTrue
  CompletesCommitted
