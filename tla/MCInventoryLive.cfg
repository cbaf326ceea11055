SPECIFICATION LiveSpec
CONSTANTS
  Skus = {s1}
  Keys = {k1}
  Ids = {r1}
  Orders = {o1}
  Callers = {p1, p2}
  Qtys = {1}
  Requests <- MCRequests
  Calls = {"commit", "releaseHeld"}
  Moves = {}
  MaxSupply = 1
  MaxCrashes = 2
  None = None
PROPERTIES ClaimsResolve EndedHoldsGo
CHECK_DEADLOCK FALSE
