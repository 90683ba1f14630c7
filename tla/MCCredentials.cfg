SPECIFICATION Spec
CONSTANTS
  Procs = {p1, p2}
  Providers = {a, b}
  MaxTokens = 2
  MaxFaults = 1
SYMMETRY Symmetry
INVARIANTS
  FileUsable
PROPERTIES
  ChangesOne
CHECK_DEADLOCK FALSE
