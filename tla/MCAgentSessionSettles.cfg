SPECIFICATION FairSpec
CONSTANTS
  Prompts = {p1, p2}
  Notes = {}
  Bashes = {}
  None = None
  MaxRetries = 1
  Serial = FALSE
  MaxAnswers = 1
  MaxManual = 1
  MaxAborts = 1
PROPERTIES
  PromptsSettle
  CompactSettles
CHECK_DEADLOCK FALSE
