SPECIFICATION FairSpec
CONSTANTS
  p1 = p1
  p2 = p2
  p3 = p3
  Operator = {o1}
  FirstRows <- OneRow
  MaxToggles = 0
  Post = {p1, p2}
  Sweep = {s1}
  Caller = {p1, p2, s1}
  Level <- Levels
  Click = {k1, k2}
  MaxCards = 1
  MaxTokens = 3
  Asset = {p1, p2}
  Token <- Tokens
  Request = {q1}
  DryAsset = {}
  QueueCap = 2
  Mishaps = {"gate_fails","click_fails","link_expires","token_expires","vault_down","count_fails","count_unread"}
  MaxMishaps = 1
PROPERTIES
  KeepsPromise
  ApprovedIsPublished
