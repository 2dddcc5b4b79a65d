SPECIFICATION QaFairSpec
CONSTANTS
  Limits <- CalmOrShaken
  Mishaps = {"step_raises", "worker_crash", "message_expires", "lock_session_lost"}
  MaxMishaps = 1
INVARIANTS
  PassIsEarned
  ScheduledIsReviewed
  NothingEndsSilently
  
PROPERTIES
  DraftReachesTeams
  ReviewsEnd
CHECK_DEADLOCK FALSE
