SPECIFICATION LiveSpec
CONSTANTS
  Orders = {o1}
  Ids = {r1}
  Offline = {}
  Callers = {p1, p2}
  None = None
  MaxCrashes = 1
PROPERTIES WorkGetsDone DeadHoldsGoBack
CHECK_DEADLOCK FALSE
