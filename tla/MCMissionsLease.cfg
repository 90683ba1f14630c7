SPECIFICATION Spec
CONSTANTS
  Procs = {p1}
  Workspaces = {w1}
  Errors = {e1}
  Commands = 2
  Optional = {2}
  MaxLeases = 1
  MaxOps = 1
  MaxEdits = 0
  MaxCrashes = 0
PROPERTIES
  CommandsLeased
CHECK_DEADLOCK FALSE
