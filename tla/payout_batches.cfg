SPECIFICATION Spec
CONSTANTS
  e1 = e1
  e2 = e2
  e3 = e3
  e4 = e4
  ann = ann
  bob = bob
  None = None
  Earnings = {e1, e2, e3, e4}
  Gated = {e4}
  Developers = {ann, bob}
  Developer <- MCDeveloper
  Batches = {b1}
  Calls = {c1, c2}
  Intents = {p1, p2}
  Keys = {k1}
SYMMETRY Symmetry
INVARIANTS
  OneBatchPerKey
  ReleaseIsWhole
  ReleasedOnce
  BatchesTellTheirEarnings
  PaidWasApproved
  
CHECK_DEADLOCK FALSE
