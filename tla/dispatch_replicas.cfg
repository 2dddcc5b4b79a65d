SPECIFICATION Spec
CONSTANTS
  Task <- JoinTasks
  Deps <- JoinDeps
  FileOrder <- JoinOrder
  Registered = {"a", "d"}
  Reviews = {"a"}
  r1 = r1
  r2 = r2
  Replica = {r1, r2}
  Heartbeats = 1
  BatchMax = 2
  NotReadyMaxRequeues = 2
  MaxFaults <- OneExpiry
  FaultySteps = {}
SYMMETRY Replicas
INVARIANTS
  TypeOK
  GateRespected
  CascadeJustified
  NoLostWakeup
  OneRunner
  OneAlertPerDeadTask
