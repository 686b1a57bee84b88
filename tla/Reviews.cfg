SPECIFICATION ModerationSpec
CONSTANTS
  Ratings = {fair, good}
  Window = 2
  Reminders = {"REMINDER_1D"}
  Early = 2
  Late = 1
  Runs = {w1, w2}
  Reminded = {"SEEKER_TO_PROVIDER"}
  Unsteady = {"PROVIDER_TO_SEEKER"}
  Reported = {"SEEKER_TO_PROVIDER"}
  MaxDecisions = 2
  MaxTime = 3
SYMMETRY Alike
INVARIANTS HeldReviewTimed CountedExactly
PROPERTIES WrittenBlind RevealedTogetherOrLate
CHECK_DEADLOCK FALSE
