SPECIFICATION Spec
CONSTANTS
  u1 = u1
  u2 = u2
  u3 = u3
  Quarter = 3
  RepeatWindow = 2
  AtRiskSilence = 1
  CriticalSilence = 3
  Tenure = 3
  FinalStretch = 1
  OnboardingAge = 5
  OnboardingTarget = 2
  Dormant = 1
  GraceDays = 0
  RenewalWindow = 1
  YearBack = 6
  MinSample = 1
  Starts <- SmallStarts
  Work <- SmallWork
  Cooldown = 2
  MaxMissed = 2
  Horizon = 3
CHECK_DEADLOCK FALSE
INVARIANTS TypeOK ChurnIsNeverMissed HealthyIsEarned TriggersAgreeWithScore ChurnHasLeadTime EpisodesAreMaximal
PROPERTY SeedingKeepsPace
