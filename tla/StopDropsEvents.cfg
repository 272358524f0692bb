SPECIFICATION Spec
CONSTANTS
  Targets = {f, g}
  FirstContact = f
  None = None
  STOP = STOP
  MaxBufLen = 2
  MaxWait = 1
  Outcomes = {"ok"}
  PollOutcomes = {"ok"}
  Limits = {0}
  MaxEvents = 2
  MaxFails = 0
  MaxChanges = 0
  Stops = TRUE
CHECK_DEADLOCK FALSE
INVARIANTS
  StopFlushesAll
