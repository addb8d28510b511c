SPECIFICATION Spec
CONSTANTS
  Workers = {w1}
  MaxSession = 1
  MaxEpoch = 1
  MaxAttempt = 1
  MaxDispatch = 1
  Readings = {"ok"}
  Contents = {"move", "unsafe"}
  Disturbances = {"host", "controller", "supervisor", "factory"}
  AdapterFailures = {"apply", "cancel", "halt"}
INVARIANTS
  TypeOK
  AuthorityInv
  ReleasePending
  ClosedGateReported
PROPERTIES
  EveryExitWithdraws
  HaltFailureKnown
  
