SPECIFICATION MCSpec
CONSTANTS
  Keys = {k1, k2, k3}
  MaxLine = 2
  Callers = {p1, p2}
  None = None
  Uses <- MCUses
SYMMETRY Symmetry
INVARIANTS HeldIsFound QtyAgrees
CHECK_DEADLOCK FALSE
