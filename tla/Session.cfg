SPECIFICATION Spec
CONSTANTS
  IntMax = 3
  NoScript = NoScript
  NoMap = NoMap
  Campaigns <- SomeCampaigns
  Scripted = {0, 1}
  Declares = {1}
  Initial <- SomeInitial
  Values <- SomeValues
  Garbage = {0}
  MaxTeam = 3
  MaxDay <- SomeMaxDay
  Budget <- SomeBudget
CHECK_DEADLOCK FALSE
INVARIANTS TypeOK HeroesCarried WayMatches VictoryKept ScriptsMatch NothingLost
