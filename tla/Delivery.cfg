SPECIFICATION FairSpec
CONSTANTS
  Targets = {f, g}
  FirstContact = f
  None = None
  STOP = STOP
  MaxBufLen = 1
  MaxWait = 1
  Outcomes = {"ok", "lost", "transport", "http"}
  PollOutcomes = {"ok", "lost"}
  Limits = {0, 1}
  MaxEvents = 3
  MaxFails = 2
  MaxChanges = 1
  Stops = TRUE
CHECK_DEADLOCK FALSE
INVARIANTS
  TypeOK
  BufferIsUnacked
  PolledOnceInOrder
PROPERTIES
  ImplementsChannel
  BatchesLeave
