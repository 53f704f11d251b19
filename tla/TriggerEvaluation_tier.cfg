SPECIFICATION FairSpec
CONSTANTS
  a1 = a1
  a2 = a2
  Accounts = {a1, a2}
  Candidates <- TwoKinds
  Evaluators = {e1}
  MaxCrashes = 1
PROPERTIES OwnTierIsEnough
