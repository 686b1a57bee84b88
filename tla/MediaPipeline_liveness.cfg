SPECIFICATION Spec
CONSTANTS
  Assets = {a1, a2}
  Workers = {w1}
  MaxPhotos = 2
  MaxInFlight = 2
  MaxAttempts = 1
  None = None
PROPERTIES DeletionCompletes
CHECK_DEADLOCK FALSE
