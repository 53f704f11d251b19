SPECIFICATION Spec
CONSTANTS
  c1 = c1
  Loads = {l1, l2}
  Campaigns <- OneCampaign
  Plans = {p1, p2}
  Tiers = {t1, t3}
  LowestTier = t3
  NoRow = NoRow
  MaxEvents = 2
INVARIANTS VersionsChain JudgmentSurvives
PROPERTIES AlarmMeansOverlap SourceArrives
