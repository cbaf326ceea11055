SPECIFICATION MCSpec
CONSTANTS
  Keys = {k1, k2, k3}
  StockKeys = {k1}
  AdjustKeys = {k2, k3}
  Rids = {r1}
  HoldQtys = {1}
  Sizes = {1}
  Marks = {1}
  Targets = {2}
  RingSize = 2
  MaxOnHand = 2
  Callers = {p1, p2}
  Requests <- MCRequests
  CanWithdraw = TRUE
  None = None
SYMMETRY Symmetry
INVARIANTS WatermarkHolds AnswersAgree TwiceOnlyPastTheRing LedgerExplainsShelf
