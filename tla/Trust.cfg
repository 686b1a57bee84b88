SPECIFICATION Spec
CONSTANTS
  Users = {u1, u2}
  Phones = {p1, p2}
  Cooldown = 1
  Life = 2
  Window = 2
  MaxSends = 2
  MaxAttempts = 2
  MaxChallenges = 3
  MaxMinutes = 2
  MaxMonths = 2
  Requests = {s1, s2}
  MaxRefreshes = 3
  Staff = {s1, s2}
  Capacities = {"OWNER"}
  Validity = 2
  Renewal = 1
  MaxCases = 2
  MaxAssignments = 1
  Principals = {a1, a2}
  Cases = {c1, c2}
  MaxClock = 5
  Contacts = {i1, i2}
  Consumers = {x1, x2}
  Day = 1
  Batch = 2
  MaxDays = 2
  BrowserRequests = {s1, s2}
  Aheads = {0, 2}
  MaxAge = 2
  TransactionLife = 2
  SettleTime = 2
  MaxLogins = 2
  MaxTicks = 3
  Families = {u1, u2}
  WebRequests = {s1, s2}
  MaxRotations = 2
SYMMETRY Symmetry
INVARIANTS RotationSurvives ClaimBacked ReportExact LoginOfItsOwn EndedForGood
PROPERTIES LatestCodeOnly ClearedAsRead
CHECK_DEADLOCK FALSE
