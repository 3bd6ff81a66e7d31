SPECIFICATION Spec
CONSTANTS
  d1 = d1
  d2 = d2
  d3 = d3
  h1 = h1
  h2 = h2
  w1 = w1
  w2 = w2
  None = None
  created = created
  updated = updated
  reversed = reversed
  paid = paid
  refused = refused
  Passes = {d1, d2}
  Workers = {w1, w2}
  Host <- TwoHosts
  Handlers = {h1}
  Rail = "stripe_connect"
  Events = {created, updated}
  Announces <- MovingNews
  AdminTargets = {"cancelled"}
  MaxAttempts = 1
  MaxCrashes = 1
  MayStall = TRUE
  LostAnswers = TRUE
  AllowRaise = TRUE
  AdminForces = TRUE
INVARIANTS
  UnderWayIsTransferred
  MovesAreAnnounced
CHECK_DEADLOCK FALSE
