SPECIFICATION OwnersSpec
CONSTANTS
  a = a
  b = b
  s1 = s1
  s2 = s2
  k1 = k1
  k2 = k2
  Skus = {s1, s2}
  Products = {a, b}
  Keys = {k1, k2}
  Commands <- MCCommands
  Calls = {c1, c2}
  Openings <- MCOpenings
  MaxBegun = 4
  None = None
CHECK_DEADLOCK FALSE
SYMMETRY Symmetry
INVARIANTS SellersHoldClaims OwedSkuStaysClaimed CarriesGoHome
