CONSTANTS
  Nobody = Nobody
  Proc = {p1, p2, p3}
SPECIFICATION Spec
INVARIANTS TypeOK ExclusiveUnlessOverlap
PROPERTIES HolderUndisturbed GiveUpOnlyUnderContention LockReturns StaleLockRecovered
