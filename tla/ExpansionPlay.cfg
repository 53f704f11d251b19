SPECIFICATION FairSpec
CONSTANTS
  NoLaunchDays = 3
  SustainDays = 1
  StickDays = 3
INVARIANTS NothingUngated HandOverIsEarned
PROPERTY ExpansionCloses
