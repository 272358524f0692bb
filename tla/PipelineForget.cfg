SPECIFICATION FairSpec
CONSTANTS
  Self = Self
  None = None
  p = p
  q = q
  x = x
  a = a
  b = b
  Objs = {x}
  EmptyContents = Empty
  SelfProfile <- NodeProvider
  Urls <- Allowed
  ObjBody = {a, b}
  World <- SubscriberWorld
  Peers = {p, q}
  Forgettable = {p}
  InEvents = {"NEW"}
  Forms = {"bundle"}
  Mixed = {}
  FirstContact = None
  Replies = {"error"}
  Skew = 0
  Lag = 1
  MaxInputs = 3
  MaxRestarts = 0
  Interest = {"obj"}
INVARIANTS
  AnnouncedIsHeld
  ApprovedIsProvided
PROPERTIES
  EdgesFollow
  ProposalsSettle
CHECK_DEADLOCK FALSE
