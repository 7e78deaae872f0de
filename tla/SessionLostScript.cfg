SPECIFICATION Spec
CONSTANTS
  IntMax = 3
  NoScript = NoScript
  NoMap = NoMap
  Campaigns <- OneCampaign
  Scripted = {0}
  Declares = {0}
  Initial <- SomeInitial
  Values = {}
  Garbage = {0}
  MaxTeam = 1
  MaxDay <- OneMaxDay
  Budget <- OneBudget
CHECK_DEADLOCK FALSE
INVARIANT NoBugDetected
