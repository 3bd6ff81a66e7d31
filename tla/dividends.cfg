SPECIFICATION Spec
CONSTANTS
  ann = ann
  bob = bob
  None = None
  Investors = {ann, bob}
  Holdings <- MCHoldings
  Amounts = {101}
  Exempt = {ann}
  Pdfo = 180
  Vz = 15
  Due = 2
  Dates = {1}
  Updates = {"ended"}
  Batches = {b1, b2}
  Calls = {c1, c2, c3}
CONSTRAINT OneBatchOutOfOrder
SYMMETRY Symmetry
INVARIANTS
  NobodyIsForgotten
  BooksBalance
  PeriodsInSequence
CHECK_DEADLOCK FALSE
