SPECIFICATION Spec
CONSTANTS
  Self = Self
  None = None
  p = p
  q = q
  x = x
  a = a
  b = b
  Objs = {x}
  EmptyContents = Empty
  SelfProfile <- NodeProvider
  Urls <- Allowed
  ObjBody = {a, b}
  World <- MixedWorld
  Peers = {p}
  Forgettable = {p, Self}
  InEvents = {"NEW", None}
  Forms = {"rid", "manifest", "bundle"}
  Mixed <- MixedUp
  FirstContact = p
  Replies = {"found", "error", "missing", "invalid"}
  Skew = 0
  Lag = 1
  MaxInputs = 2
  MaxRestarts = 1
  Interest = {"obj"}
INVARIANTS
  TypeOK
  GraphMatchesCache
  DecisionHolds
PROPERTIES
  NewerWins
  IdentityStays
CHECK_DEADLOCK FALSE
