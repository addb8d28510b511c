SPECIFICATION FairSpec
CONSTANTS
  Workers = {w1}
  MaxSession = 1
  MaxEpoch = 1
  MaxAttempt = 1
  MaxDispatch = 1
  Readings = {"ok"}
  Contents = {"move", "hold", "invalid"}
  Disturbances = {"host", "clock", "factory"}
  AdapterFailures = {}
PROPERTIES
  ReleaseStops
  StallStops
  ContextLossStops
  ClosedGateStops
CHECK_DEADLOCK FALSE
