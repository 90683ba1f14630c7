SPECIFICATION Spec
CONSTANTS
  Prompts = {p1, p2}
  Notes = {}
  Bashes = {b1}
  None = None
  MaxRetries = 1
  Serial = TRUE
  MaxAnswers = 3
  MaxManual = 0
  MaxAborts = 1
SYMMETRY ThreadSymmetry
INVARIANTS
  ResultFollowsCall
  SessionMatchesTranscript
  RetryClosedAtRest
  OverflowOnce
PROPERTIES
  WillRetryHonoured
CHECK_DEADLOCK FALSE
