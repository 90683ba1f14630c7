SPECIFICATION Spec
CONSTANTS
  Procs = {p1, p2}
  Workspaces = {w1, w2}
  Errors = {e1}
  Commands = 2
  Optional = {2}
  MaxLeases = 2
  MaxOps = 2
  MaxEdits = 1
  MaxCrashes = 1
SYMMETRY Symmetry
INVARIANTS
  LeasesKept
  VerdictHasEvidence
PROPERTIES
  NoRepeat
CHECK_DEADLOCK FALSE
