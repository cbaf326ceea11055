SPECIFICATION MCSpec
CONSTANTS
  a = a
  s1 = s1
  Skus = {s1, s2, s3}
  Products = {a, b}
  Keys = {k1, k2}
  Movers = {m1, m2}
  Holders = {h1}
  MaxUnits = 1
  None = None
CHECK_DEADLOCK FALSE
INVARIANTS OwedSkuIsKept CarriesLoseNothing
PROPERTY CarriesSettle
