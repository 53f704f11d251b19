SPECIFICATION FairSpec
CONSTANTS
  Plays = {p1, p2}
  RecoveryDays = 2
  Counts = {0, 1}
  MaxCrashes = 1
INVARIANTS DiagnosedOnce VerdictIsGrounded
PROPERTIES EveryPlayCloses RecordSpec
