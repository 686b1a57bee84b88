CONSTANTS
  Episodes = {e1, e2}
  Workers = {w1, w2}
  Keys = {k1, k2}
  Starts = {2}
  ResponseWindow = 1
  LeaseTime = 1
  MaxTime = 2
  MaxRequests = 5
SPECIFICATION CommandSpec
SYMMETRY Interchangeable
INVARIANTS OneCurrentAppointment TimerArmed EffectsOnceAsSeen
PROPERTIES ImplementsGuard
