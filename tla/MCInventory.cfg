SPECIFICATION MCSpec
CONSTANTS
  Skus = {s1}
  Keys = {k1, k2}
  Ids = {r1, r2}
  Orders = {o1, o2}
  Callers = {p1, p2}
  Qtys = {1, 2}
  Demand = {1, 2}
  Requests <- MCRequests
  Calls = {"commit", "release", "releaseHeld", "releaseAdopted", "adopt", "adoptMany", "stamp", "adjust"}
  Moves = {0, 1}
  MaxSupply = 2
  None = None
SYMMETRY Symmetry
INVARIANTS UnitsMoveOnce ReserveAnswersBacked UnitsConserved SettleAnswersStand
PROPERTY ImplementsHolds
