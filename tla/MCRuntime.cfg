CONSTANTS
  N = 2
  Deps <- Chain
  Manual = {}
  MaxAttempts = 2
  LoopAttempts = 1
  AutoCommit = TRUE
  Commands = {"phase", "repair", "runtime"}
  Crashes = {"runtime", "repair"}
  MaxCrashes = 1
  Outcomes = {"pass", "fail"}
  Health = {TRUE}
  Kind = "server"
SPECIFICATION RuntimeSpec
INVARIANT
  CompletedWasVerified
PROPERTY
  RepairsBounded
