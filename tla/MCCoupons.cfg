SPECIFICATION MCSpec
CONSTANTS
  Keys = {k1, k2}
  ann = ann
  Customers = {ann}
  Buyer <- OneBuyer
  None = None
  Limits <- SomeLimits
  Callers = {c1, c2}
  MaxDeaths = 1
  MaxStalls = 1
  MaxReuses = 1
  MaxMishaps = 2
CHECK_DEADLOCK FALSE
SYMMETRY Symmetry
INVARIANTS NeverLow NoOverRedeem HighOnlyBySeams SlotsHeldByUses AnswersStand
