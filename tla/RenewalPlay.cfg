SPECIFICATION FairSpec
CONSTANTS
  WindowDays = 4
  ValueReviewDay = 3
  GrowthProposalDay = 2
  ObjectionsDay = 1
  DebriefLag = 2
  MaxOut = 5
  Volumes = {1, 2}
INVARIANTS StageOrder NothingSkipped NotJudgedEarly
PROPERTIES DatedRunCloses RecordSpec
