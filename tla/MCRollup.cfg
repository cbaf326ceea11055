CONSTANTS
  Life <- MCLife
  Revenue = {"paid"}
  Sweepers = {s1, s2}
  Plans <- MCPlans
SPECIFICATION MCSpec
SYMMETRY Symmetry
INVARIANTS CountedOnce EventsNotLost CleanMonthIsItsDays CleanLinesAreSold
CHECK_DEADLOCK FALSE
