SPECIFICATION PathSpec
CONSTANTS
  MaxTime = 4
  JoystickTimeout = 1
  RobotStateTimeout = 1
  MaxAge = 2
  Budget = 1
  Transport = 1
  MaxSnapshots = 1
  MaxContexts = 2
  MaxEpochs = 1
  TickLength = 1
  Horizon = 2
  StateTimeout = 1
  MaxCommand = 6
  MaxCommandEpoch = 1
  Failing = {}
INVARIANTS
  PathTypeOK
PROPERTIES
  MotionAge
  AcceptedInBudget
  AcceptedIsRecorded
