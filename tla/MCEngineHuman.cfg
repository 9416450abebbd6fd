CONSTANTS
  N = 2
  Deps <- Chain
  Manual = {2}
  MaxAttempts = 1
  AutoCommit = TRUE
  Commands = {"run", "verify", "commit", "resume", "feedback", "clean"}
  Crashes = {"run", "verify", "resume"}
  MaxCrashes = 1
  Outcomes = {"pass", "fail"}
  Health = {TRUE}
SPECIFICATION Spec
PROPERTY
  ImplementsPhaseOrder
