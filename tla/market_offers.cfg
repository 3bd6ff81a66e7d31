SPECIFICATION FairSpec
CONSTANTS
  seller = seller
  ann = ann
  bob = bob
  t1 = t1
  t2 = t2
  t3 = t3
  Investors <- PairInvestors
  Platform = Platform
  None = None
  Listings = {l1}
  Bids = {b1}
  Trades = {t1, t2}
  Primary <- PairPrimary
  Cash <- PairCash
  Sizes = {1, 3}
  ListPrice = 2
  OfferPrice = 1
  FeeNum = 1
  FeeDen = 4
  MinListing = 2
  Tol = 1
  AllowAbort = FALSE
INVARIANTS
  QuietStatusIsRight
  NoOversell
PROPERTIES
  FilledIsNeverReopened
  SoldOutListingCloses
CHECK_DEADLOCK FALSE
