SPECIFICATION Safety
CONSTANTS
  Assets = {a1, a2}
  Workers = {w1, w2}
  MaxPhotos = 2
  MaxInFlight = 2
  MaxAttempts = 2
  None = None
SYMMETRY Interchangeable
INVARIANTS ReadyKept
CHECK_DEADLOCK FALSE
