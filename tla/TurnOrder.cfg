SPECIFICATION Spec
CONSTANTS
  Slots <- TwoAgainstOne
  Speed <- SpeedOf
  Eager <- Left1
  Panicky <- Left2
  Holders <- Right1
  Ablaze <- Left1
  Heroes = {{0}, {1}}
  Book = {"Hold", "Hypnotize", "Berserker", "Raise", "Damage", "Dispel"}
  Castle = TRUE
  Fire = TRUE
INVARIANTS TypeOK TurnsEarned NobodyForgotten GarrisonOnce ActiveIsFit VictoryOnce
PROPERTY RoundsGoOn
