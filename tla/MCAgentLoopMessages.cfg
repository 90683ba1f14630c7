SPECIFICATION Spec
CONSTANTS
  Msgs = {m1, m2, m3}
  SteeringMode = "one-at-a-time"
  FollowUpMode = "all"
  ExecutionModes = {"sequential"}
  MaxRuns = 2
  MaxCalls = 1
  MaxFailures = 1
  MaxResets = 1
SYMMETRY MsgSymmetry
CONSTRAINT OneUpset
INVARIANTS
  SingleRun
  QueueOrder
PROPERTIES
  FollowUpsWait
  ImplementsDelivery
CHECK_DEADLOCK FALSE
