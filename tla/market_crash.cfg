SPECIFICATION Spec
CONSTANTS
  seller = seller
  ann = ann
  bob = bob
  t1 = t1
  t2 = t2
  t3 = t3
  Investors <- MCInvestors
  Platform = Platform
  None = None
  Listings = {l1}
  Bids = {}
  Trades = {t1, t2}
  Primary <- MCPrimary
  Cash <- MCCash
  Sizes = {1, 3}
  ListPrice = 2
  OfferPrice = 1
  FeeNum = 1
  FeeDen = 4
  MinListing = 3
  Tol = 0
  AllowAbort = TRUE
SYMMETRY TradeSymmetry
INVARIANTS
  TypeOK
  ReservationAccounting
  LosersTouchNothing
  UnitsNeverMoveUnpaid
  MoneyIsConserved
PROPERTY ImplementsTradePromise
CHECK_DEADLOCK FALSE
