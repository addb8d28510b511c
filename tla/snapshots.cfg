SPECIFICATION SnapshotSpec
CONSTANTS
  MaxTime = 3
  JoystickTimeout = 1
  RobotStateTimeout = 1
  MaxAge = 3
  Budget = 2
  Transport = 0
  MaxSnapshots = 2
  MaxContexts = 2
  MaxEpochs = 1
INVARIANTS
  SnapshotTypeOK
  DispatchValidity
  
