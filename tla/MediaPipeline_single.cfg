SPECIFICATION Safety
CONSTANTS
  Assets = {a1, a2}
  Workers = {w1}
  MaxPhotos = 2
  MaxInFlight = 2
  MaxAttempts = 3
  None = None
SYMMETRY Interchangeable
INVARIANTS FilesAndJobsFollow
PROPERTIES ImplementsLifecycle
CHECK_DEADLOCK FALSE
