SPECIFICATION FairSpec
CONSTANTS
  Msgs = {m1, m2}
  SteeringMode = "one-at-a-time"
  FollowUpMode = "all"
  ExecutionModes = {"sequential", "parallel"}
  MaxRuns = 2
  MaxCalls = 2
  MaxFailures = 1
  MaxResets = 0
INVARIANTS
  PendingToolCallsExact
  ResultsFollowTheirCalls
  CallsAreAnswered
  ModelSeesTranscript
PROPERTIES
  AgentEndIsLast
  RunsSettle
CHECK_DEADLOCK FALSE
