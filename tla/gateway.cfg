SPECIFICATION GatewayFairSpec
CONSTANTS
  r1 = r1
  r2 = r2
  r3 = r3
  east = east
  west = west
  Request = {r1, r2, r3}
  Replica = {east, west}
  At <- Placement
  Ref = {"x"}
  NoRef = "none"
  PoolSize = 2
  Backends = 2
  Limit = 2
  Soft = 1
  Dear = 2
  Cheap = 1
  MaxArrivals = 4
  Mishaps = {"select_fails", "provider_fails", "store_fails", "session_lost", "replica_crash"}
  MaxMishaps = 1
INVARIANTS
  OneWindow
  BudgetHeld
PROPERTIES
  OneAnswerPerRef
  Answered
CHECK_DEADLOCK FALSE
