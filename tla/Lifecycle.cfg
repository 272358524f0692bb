SPECIFICATION FairSpec
CONSTANTS
  Callers = {u}
  Block = {TRUE}
  StartOrder <- FullNodeOrder
  None = None
  STOP = STOP
  MayFail = {"knowledge", "event", "server", "handshaker"}
  MaxRuns = 3
  MaxInputs = 2
  MaxEvents = 1
  MaxFails = 2
CHECK_DEADLOCK FALSE
INVARIANTS
  TypeOK
  IdentityFirst
  
PROPERTIES
  StopReturns
  FailureStopsNode
  FreshStartReturns
