SPECIFICATION Spec
CONSTANTS
  ann = ann
  i1 = i1
  i2 = i2
  None = None
  Investors = {ann}
  Intents = {i1, i2}
  Investor <- MCInvestor
  Amount <- MCAmount
  Investments = {x1, x2}
  Requests = {r1, r2}
  Txs = {t1}
  Calls = {c1, c2}
CONSTRAINT Bounded
SYMMETRY Symmetry
INVARIANTS
  ActivationIsEarned
  BooksAgree
CHECK_DEADLOCK FALSE
