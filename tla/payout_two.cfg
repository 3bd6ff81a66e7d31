SPECIFICATION Spec
CONSTANTS
  d1 = d1
  d2 = d2
  d3 = d3
  h1 = h1
  h2 = h2
  w1 = w1
  w2 = w2
  None = None
  created = created
  updated = updated
  reversed = reversed
  paid = paid
  refused = refused
  Passes = {d1, d2, d3}
  Workers = {w1, w2}
  Host <- SharedHost
  Handlers = {h1, h2}
  Rail = "stripe_connect"
  Events = {created, reversed, paid, refused}
  Announces <- OutcomeNews
  AdminTargets = {}
  MaxAttempts = 2
  MaxCrashes = 0
  MayStall = FALSE
  LostAnswers = TRUE
  AllowRaise = FALSE
  AdminForces = FALSE
INVARIANTS
  OneCaller
  AttemptsAreBounded
CHECK_DEADLOCK FALSE
