SPECIFICATION Spec
CONSTANTS
  sam = sam
  ann = ann
  None = None
  Users = {sam, ann}
  Owner = sam
  Listings = {l1, l2}
  Offers = {o1}
  Deals = {d1, d2}
  Recoveries = {r1}
  Calls = {c1, c2}
  MaxDocs = 3
CONSTRAINTS FewDocs OneDealOutOfOrder
SYMMETRY Symmetry
INVARIANTS
  ClaimsAreExclusive
  EscrowOrder
  ListingsTellTheTruth
  FrozenForACase
CHECK_DEADLOCK FALSE
