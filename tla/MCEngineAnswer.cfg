CONSTANTS
  N = 2
  Deps <- Chain
  Manual = {1, 2}
  MaxAttempts = 2
  AutoCommit = TRUE
  Commands = {"prepare", "verify", "resume", "feedback", "edit"}
  Crashes = {}
  MaxCrashes = 0
  Outcomes = {"pass", "fail"}
  Health = {TRUE}
SPECIFICATION Spec
PROPERTIES
  AnswerIsForThePhase
