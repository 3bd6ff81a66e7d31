SPECIFICATION Spec
CONSTANTS
  None = None
  Calls = {c1, c2, c3, c4, c5}
  Requests = {w1, w2}
  Amounts = {2, 3}
  Purchases = {2}
  Opening = 4
  Tol = 1
  Overlap = FALSE
  AllowCrash = FALSE
SYMMETRY CallSymmetry
INVARIANT DebitsMatchPaid
INVARIANT WalletIsFresh
INVARIANT RequestsAreFunded
CHECK_DEADLOCK FALSE
