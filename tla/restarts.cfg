SPECIFICATION HSpec
CONSTANTS
  Workers = {w1}
  MaxSession = 2
  MaxEpoch = 1
  MaxAttempt = 2
  MaxDispatch = 1
  Readings = {"ok"}
  Contents = {"move"}
  Disturbances = {"clock"}
  AdapterFailures = {}
INVARIANTS
  OnlyActiveGateOpen
  TargetUnderAuthority
PROPERTIES
  LatestAttemptPublished
  HeldInputNeverEngages
  
CHECK_DEADLOCK FALSE
