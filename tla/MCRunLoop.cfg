CONSTANTS
  N = 3
  Deps <- Chain
  Manual = {3}
  MaxAttempts = 2
  LoopAttempts = 2
  AutoCommit = TRUE
  Commands = {"phase", "clean"}
  Crashes = {"run", "review", "repair", "record", "ask", "loop"}
  MaxCrashes = 1
  Outcomes = {"pass", "fail", "timeout", "broken"}
  Health = {TRUE, FALSE}
SPECIFICATION FairLoop
INVARIANT
  LoopTypeOK
PROPERTIES
  WalkGoesForward
  CompletedStays
  LeavesRequest
  LoopReturns
