SPECIFICATION FairSpec
CONSTANTS
  ConfirmationDay = 2
  StallDays = 5
INVARIANTS RefusedMeansStopped ClosedForAReason
PROPERTY OnboardingCloses
