SPECIFICATION FairSpec
CONSTANTS
  Self = Self
  None = None
  Torn = Torn
  p = p
  q = q
  x = x
  Peers = {p, q}
  Links <- MCLinks
  Objs = {x}
  Full = {p}
  Providers = {p}
  FirstContact = None
  Versions = {1, 2}
  Start <- MCStart
  Items <- MCItems
  Kinds = {"poll", "catchup", "deref", "serve"}
  MaxInputs = 2
  MaxCrashes = 1
CHECK_DEADLOCK FALSE
INVARIANTS
  TypeOK
  GraphCatchesUp
  PollSees
  LookupSees
  ServeSees
  WriteThrough
PROPERTIES
  CallsReturn
