SPECIFICATION FairSpec
CONSTANTS
  FirstDays = 1
  ChampionDays = 1
  RecentDays = 0
  RenewalDays = 1
  DepartmentDays = 1
  ReferenceDays = 1
  Volatile = {"contract", "tier", "band", "departed", "willing", "department", "reference"}
  MaxRunsPerDay = 1
INVARIANTS CoverageTypeOK OneActivePerTrigger
PROPERTIES CriticalTracksBand ElevationsEnd
