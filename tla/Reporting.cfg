SPECIFICATION Spec
CONSTANTS
  r1 = r1
  r2 = r2
  Runs = {r1, r2}
  ReportTypes <- TwoTypes
  Cadence <- ShortCadence
  MaxRuns = 3
  Horizon = 4
CHECK_DEADLOCK FALSE
INVARIANTS PeriodsAreDisjoint GapsAreExplained
PROPERTY FreshAfterRun
SYMMETRY Sessions
