SPECIFICATION AdjudicationSpec
CONSTANTS
  Viewings = {v1, v2}
  Workers = {}
  Starts = {1, 3}
  Duration = 1
  NoShowAfter = 1
  Response = 1
  LeaseTime = 1
  Outcomes = {"COMPLETED", "SEEKER_NO_SHOW"}
  MaxTime = 4
  Staff = {s1}
  AppealTime = 1
  MaxSchedules = 2
  Restrictions = FALSE
  MaxAppeals = 1
SYMMETRY Interchangeable
INVARIANTS ClaimGoverns EffectsFollowOutcome
PROPERTIES ConsumedForGood
CHECK_DEADLOCK FALSE
