SPECIFICATION Spec
CONSTANTS
  Procs = {p1, p2}
  Kinds = {"user", "assistant"}
  Targets = {1}
  MaxEntries = 4
  MaxSessions = 2
  MaxMoves = 3
  MaxFaults = 1
SYMMETRY ProcSymmetry
INVARIANTS
  TreeSound
  Saved
PROPERTIES
  ForkKeepsBranch
CHECK_DEADLOCK FALSE
