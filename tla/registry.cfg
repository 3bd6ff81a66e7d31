SPECIFICATION Spec
CONSTANTS
  None = None
  Holders = {1, 2, 3}
  Invested <- MCInvested
  Amounts = {3}
  Price = 2
  TotalUnits = 3
  Calls = {c1, c2}
  MaxBegun = 3
  MaxCerts = 4
CONSTRAINT OverlapInOnePart
SYMMETRY Symmetry
INVARIANTS
  RegistryHeals
  CertificatesHeal
CHECK_DEADLOCK FALSE
