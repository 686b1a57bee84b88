CONSTANTS
  Episodes = {e1}
  Workers = {w1, w2}
  Starts = {1, 3}
  ResponseWindow = 1
  LeaseTime = 1
  MaxTime = 3
  Day = 2
  TwoHours = 1
  MaxProposals = 1
SPECIFICATION AppointmentSafety
SYMMETRY Interchangeable
INVARIANTS ProposalArmed JointlyReplaced RemindersOfTheSchedule
