SPECIFICATION FairSpec
CONSTANTS
  Task <- FanTasks
  Deps <- FanDeps
  FileOrder <- FanOrder
  Registered = {"b", "c"}
  Reviews = {"c"}
  r1 = r1
  Replica = {r1}
  Heartbeats = 1
  BatchMax = 3
  NotReadyMaxRequeues = 3
  MaxFaults <- CrashAndRaise
  FaultySteps = {"start", "handler", "select", "count", "advance"}
INVARIANTS
  Driven
  StrikesFounded
PROPERTIES
  OutcomesStand
  EveryTaskEnds
