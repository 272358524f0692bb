SPECIFICATION FairSpec
CONSTANTS
  Callers = {u}
  Block = {TRUE}
  StartOrder <- FullNodeOrder
  None = None
  STOP = STOP
  MayFail = {"knowledge", "event", "server", "handshaker"}
  MaxRuns = 2
  MaxInputs = 1
  MaxEvents = 0
  MaxFails = 1
CHECK_DEADLOCK FALSE
PROPERTIES StartReturns
