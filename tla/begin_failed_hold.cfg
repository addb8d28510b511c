SPECIFICATION Spec
CONSTANTS
  Workers = {w1}
  MaxSession = 1
  MaxEpoch = 1
  MaxAttempt = 2
  MaxDispatch = 1
  Readings = {"ok"}
  Contents = {"move"}
  Disturbances = {}
  AdapterFailures = {"cancel", "halt"}
PROPERTIES
  FailedHaltLatches
