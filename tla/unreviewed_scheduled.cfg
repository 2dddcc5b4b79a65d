SPECIFICATION QaSpec
CONSTANTS
  Limits <- OneRound
  Mishaps = {}
  MaxMishaps = 0
INVARIANTS
  ScheduledPassedBoth
CHECK_DEADLOCK FALSE
