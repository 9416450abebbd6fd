CONSTANT N = 3
SPECIFICATION FairWalk
INVARIANTS TypeOK StartedInOrder ReasonsMatchFile SomethingToDo
  OrdersRespectDependencies RefreshIsOnePass
PROPERTY WalkFinishes
CHECK_DEADLOCK FALSE
