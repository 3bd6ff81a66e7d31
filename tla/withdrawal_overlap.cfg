SPECIFICATION Spec
CONSTANTS
  None = None
  Calls = {c1, c2, c3, c4}
  Requests = {w1}
  Amounts = {3}
  Purchases = {}
  Opening = 4
  Tol = 0
  Overlap = TRUE
  AllowCrash = TRUE
SYMMETRY CallSymmetry
INVARIANT DebitNeedsApproval
INVARIANT PaidHasDebit
INVARIANT PaymentsAreTold
CHECK_DEADLOCK FALSE
