SPECIFICATION HSpec
CONSTANTS
  Workers = {w1}
  MaxSession = 1
  MaxEpoch = 2
  MaxAttempt = 1
  MaxDispatch = 1
  Readings = {"ok"}
  Contents = {"hold"}
  Disturbances = {}
  AdapterFailures = {}
PROPERTIES
  ReadinessAfterFailure
