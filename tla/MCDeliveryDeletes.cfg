CONSTANTS
  N = 2
  Deps <- Chain
  Configs <- OnlyDelete
  MaxCommits = 2
  MaxPRs = 1
  MaxCrashes = 0
  EditOnBase = FALSE
SPECIFICATION Spec
INVARIANTS
  CommitsAreKept
