CONSTANTS
  Nobody = Nobody
  Proc = {p1, p2}
SPECIFICATION Spec
INVARIANTS MutualExclusion
