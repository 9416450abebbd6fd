CONSTANTS
  N = 3
  Service = {"payments", "storage"}
  NeedsKey = {"payments"}
  Drafts <- TheDrafts
  Revisions <- TheRevisions
  MaxEdits = 1
  Calls <- TheCalls
  Products <- TheProducts
SPECIFICATION Spec
INVARIANTS
  TypeOK
  GateAgreesWithGraph
  CyclesAgree
  VerdictIsSpecified
PROPERTIES
  ValidCanStart
  StartsInOrder
  CompletedSurvivesEdits
  PacketsAreSound
CHECK_DEADLOCK FALSE
