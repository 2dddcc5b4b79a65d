SPECIFICATION Spec
CONSTANTS
  d1 = d1
  d2 = d2
  k1 = k1
  k2 = k2
  Draft = {d1, d2}
  Click = {k1, k2}
  Budget = 1
  DigestDays = 2
  RealtimeDays = 1
  Limits <- ThreeNights
  Live <- TwoSources
  Class = {"news", "talk"}
  ClassOf <- Classes
  Pool <- TwoCandidates
  ReviewBy <- OldIsProvisional
  Floor = 2
  Lookback = 3
  RetireDays = 2
  ReviewDays = 2
  Mishaps = {"step_raises", "post_fails"}
  MaxMishaps = 1
PROPERTIES
  OnlyDeadSourcesRetire
CHECK_DEADLOCK FALSE
