SPECIFICATION Spec
CONSTANTS
  Commands = {c1, c2, c3}
  MaxCommands = 3
SYMMETRY Symmetry
INVARIANTS
  Usable
PROPERTIES
  LifecycleOrder
CHECK_DEADLOCK FALSE
