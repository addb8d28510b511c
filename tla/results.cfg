SPECIFICATION Spec
CONSTANTS
  w1 = w1
  w2 = w2
  Workers = {w1, w2}
  MaxSession = 1
  MaxEpoch = 1
  MaxAttempt = 1
  MaxDispatch = 2
  Readings = {"ok"}
  Contents = {"move"}
  Disturbances = {}
  AdapterFailures = {}
SYMMETRY WorkerSymmetry
INVARIANTS
  TargetInv
  OutstandingCurrent
