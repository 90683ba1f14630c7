SPECIFICATION Spec
CONSTANTS
  Prompts = {p1, p2}
  Notes = {n1, n2}
  Bashes = {b1}
  None = None
  MaxRetries = 1
  Serial = FALSE
  MaxAnswers = 1
  MaxManual = 0
  MaxAborts = 1
SYMMETRY ThreadSymmetry
INVARIANTS
  MirrorMatchesQueue
  BashRecordedOnce
PROPERTIES
  NothingLeftBehind
CHECK_DEADLOCK FALSE
