SPECIFICATION FairSpec
CONSTANTS
  MaxJobs = 2
  MaxRuns = 3
  MaxRetries = 2
  MaxCommands = 2
  MaxCrashes = 1
INVARIANTS
  AttemptsBounded
  RunningIsLive
  OneExecution
  JobsKept
PROPERTIES
  RunReturns
CHECK_DEADLOCK FALSE
