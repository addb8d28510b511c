SPECIFICATION FairChainSpec
CONSTANTS
  Lo = 0
  Hi = 2
  Initial = 0
  Fk <- Elbow
  Poses = {0, 1, 2}
  Velocities = {0, 1}
  Step = 1
  MaxJump = 1
  Near = 1
  Eps = 0
  MaxStep = 1
  MaxInFlight = 2
INVARIANTS
  ChainTypeOK
  PoseStands
  GoalsWithinLimits
PROPERTIES
  
  ConvergesToTarget
