SPECIFICATION Live
CONSTANTS
  Viewings = {v1, v2}
  Workers = {w1, w2}
  Starts = {1, 2}
  Duration = 1
  NoShowAfter = 1
  Response = 1
  LeaseTime = 1
  Outcomes = {"COMPLETED", "SEEKER_NO_SHOW"}
  Restrictions = TRUE
  MaxSchedules = 2
  MaxTime = 4
INVARIANTS ClaimTimed OffersKept
PROPERTIES ClaimsSettle
CHECK_DEADLOCK FALSE
