SPECIFICATION MCSpec
CONSTANTS
  Links = {1, 2, 3}
  Orders = {o1}
  Callers = {p1, p2}
  Max = 2
  Ttl = 2
  Window = 3
  Pause = 1
  MaxTime = 4
  None = None
SYMMETRY Symmetry
INVARIANTS LinksWithinCap OneCustomer AccountsAreClaimed
CHECK_DEADLOCK FALSE
