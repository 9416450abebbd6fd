CONSTANTS
  N = 3
  Deps <- Chain
  Manual = {}
  MaxAttempts = 2
  LoopAttempts = 2
  AutoCommit = TRUE
  Commands = {"phase", "clean"}
  Crashes = {"verify", "loop"}
  MaxCrashes = 2
  Outcomes = {"pass"}
  Health = {TRUE}
SPECIFICATION Persistent
PROPERTY
  GraphCompletes
