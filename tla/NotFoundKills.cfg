SPECIFICATION Spec
CONSTANTS
  Self = Self
  None = None
  p = p
  q = q
  x = x
  a = a
  b = b
  Objs = {x}
  EmptyContents = Empty
  SelfProfile <- NodeProvider
  Urls <- Allowed
  ObjBody = {a, b}
  World <- ObjectWorld
  Peers = {p}
  Forgettable = {}
  InEvents = {"NEW"}
  Forms = {"rid", "manifest", "bundle"}
  Mixed = {}
  FirstContact = None
  Replies = {"found", "missing"}
  Skew = 0
  Lag = 1
  MaxInputs = 1
  MaxRestarts = 0
  Interest = {"obj"}
INVARIANTS WorkerSurvives
CHECK_DEADLOCK FALSE
