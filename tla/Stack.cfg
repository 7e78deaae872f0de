SPECIFICATION Spec
CONSTANTS
  BaseAttack = 4
  BaseDefense = 3
  BaseSpeed = 5
  BaseFlies = TRUE
  MonsterHP = 20
  InitialQuantity = 3
  Creatures = {"elemental", "rebirth", "vampire", "ghost", "troll"}
  Castable <- CastableOn
  Powers = {1, 3}
  Hits = {10, 30}
  Burns = {20}
  Budget = 4
  MaxQuantity = 4
INVARIANTS
  TypeOK
  StatsMatch
  EffectsAgree
  NoZombie
  LivesCounted
  ShieldMatches
PROPERTIES
  BlowCostsTurn
  ImplementsFlags
  HealthKept
  EffectsWearOff
