SPECIFICATION FairSpec
CONSTANTS
  Ops = {o1, o2, o3}
  NoOp = NoOp
  Paths <- AliasPaths
  Canon <- AliasCanon
INVARIANTS
  KeyExclusion
  CallOrder
  MapHoldsLiveChains
  SameFileExclusion
PROPERTIES
  EveryCallSettles
CHECK_DEADLOCK FALSE
