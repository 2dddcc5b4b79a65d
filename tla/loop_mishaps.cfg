SPECIFICATION Spec
CONSTANTS
  p1 = p1
  p2 = p2
  p3 = p3
  Operator = {o1, o2}
  FirstRows <- NoneOrOne
  MaxToggles = 2
  Post = {p1}
  Sweep = {s1, s2}
  Caller = {p1, s1, s2}
  Level <- Levels
  Click = {k1, k2}
  MaxCards = 2
  MaxTokens = 2
  Asset = {p1}
  Token <- Tokens
  Request = {q1}
  DryAsset = {}
  QueueCap = 2
  Mishaps = {"gate_fails", "answer_lost", "click_fails", "link_expires", "token_expires", "vault_down", "count_fails", "count_unread", "draft_fails", "record_fails", "timeout", "crash"}
  MaxMishaps = 1
INVARIANTS
  DraftNeedsApproval
  WrittenBackIsDrafted
  
  DecisionAudited
PROPERTIES
  DecisionStands
SYMMETRY Alike
CONSTRAINT MishapOrToggles
CHECK_DEADLOCK FALSE
