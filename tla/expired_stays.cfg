SPECIFICATION FairSpec
CONSTANTS
  run = run
  a1 = a1
  a2 = a2
  Object = {run, a1, a2}
  Asset = {a1, a2}
  Content = {"bytes"}
  ContentOf <- SameContent
  Parents <- FirstNeedsRun
  Held = {a1}
  Sweep = {"job", "post"}
  Mishaps = {"insert_fails", "blob_fails", "sweep_dies"}
  MaxMishaps = 0
PROPERTIES
  EveryExpiredIsSwept
