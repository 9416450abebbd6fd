CONSTANTS
  N = 2
  Deps <- Chain
  Manual = {}
  MaxAttempts = 2
  AutoCommit = TRUE
  Commands = {"prepare", "verify", "review", "repair", "resume", "edit", "clean"}
  Crashes = {"prepare", "verify", "review", "repair", "resume"}
  MaxCrashes = 1
  Outcomes = {"pass", "fail", "timeout", "broken"}
  Health = {TRUE, FALSE}
SPECIFICATION Spec
INVARIANTS
  CompletedWasVerified
  AttemptsBounded
PROPERTIES
  ChainKeepsAttempts
  RepairOnlyFailures
  CommitsTestedWork
