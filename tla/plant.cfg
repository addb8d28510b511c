SPECIFICATION PlantSpec
CONSTANTS
  MaxTime = 7
  TickLength = 2
  Horizon = 4
  StateTimeout = 1
  MaxCommand = 2
  MaxCommandEpoch = 1
  Failing = {"apply", "cancel", "hold", "stop", "advance"}
INVARIANTS
  PlantTypeOK
  FeedbackHonest
PROPERTIES
  MotionWithinHorizon
  ImplementsAdapter
