SPECIFICATION MCSpec
CONSTANTS
  Orders = {o1, o2, o3}
  Ids = {r1, r2}
  Offline = {o3}
  Callers = {p1, p2}
  None = None
  Uses = {"race", "swept", "one", "cash"}
SYMMETRY Symmetry
INVARIANTS PaidKeepsUnits DeadOrdersHoldNothing UnitsReturnOnce
CHECK_DEADLOCK FALSE
