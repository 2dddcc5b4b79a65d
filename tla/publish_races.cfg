SPECIFICATION PublisherSpec
CONSTANTS
  a1 = a1
  a2 = a2
  Operator = {o1}
  FirstRows <- OneRow
  MaxToggles = 1
  Asset = {a1, a2}
  Token <- FourTokens
  Request = {q1, q2}
  DryAsset = {a2}
  QueueCap = 1
  Mishaps = {"draft_fails", "record_fails", "token_expires", "vault_down", "count_fails", "count_unread"}
  MaxMishaps = 1
INVARIANTS
  OneDraftPerToken
  OvershootBounded
PROPERTIES
  SwitchStops
CONSTRAINT RacesOrSwitch
