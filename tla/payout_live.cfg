SPECIFICATION FairSpec
CONSTANTS
  d1 = d1
  d2 = d2
  d3 = d3
  h1 = h1
  h2 = h2
  w1 = w1
  w2 = w2
  None = None
  created = created
  updated = updated
  reversed = reversed
  paid = paid
  refused = refused
  Passes = {d1, d2}
  Workers = {w1, w2}
  Host <- TwoHosts
  Handlers = {h1, h2}
  Rail = "mock"
  Events = {}
  Announces <- NoNews
  AdminTargets = {}
  MaxAttempts = 2
  MaxCrashes = 1
  MayStall = FALSE
  LostAnswers = TRUE
  AllowRaise = FALSE
  AdminForces = FALSE
INVARIANT StatusesAreLogged
PROPERTIES
  QueuedIsProcessed
  ItemsArrive
CHECK_DEADLOCK FALSE
