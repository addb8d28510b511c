SPECIFICATION FairClientSpec
CONSTANTS
  Traces = {"t1"}
  Requests = {"r1"}
  Bypass = FALSE
INVARIANTS
  ClientTypeOK
  CommandedOnce
  
  
  StopLogOneShot
PROPERTIES
  ExecutionRetried
