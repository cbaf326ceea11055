CONSTANTS
  Payments = {m1, m2}
  Paid <- MCPaid
  Total = 2
  Tries = 1
  Callers = {p1, p2}
  None = None
  Uses = {"clicks", "hands", "cancel", "resized", "late", "twice"}
  Calls = 4
  Mishaps = 1
SPECIFICATION MCSpec
SYMMETRY Symmetry
INVARIANTS RefundsWithinCeiling LedgerMatchesProvider ClickRefundsOnce LateMoneyAnswered
CHECK_DEADLOCK FALSE
