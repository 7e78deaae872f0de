SPECIFICATION Spec
CONSTANTS
  LastHex = 5
  MaxStacks = 2
  MaxCorpses = 2
  Lineup <- WideAndNarrow
  Shooters = {}
  Book = {"Raise", "Summon", "Grenade"}
  Powers = {1}
  DigUp = FALSE
  Burning = TRUE
  OldMarks = FALSE
  Budget = 1
INVARIANT TypeOK
INVARIANT GridMatches
INVARIANT CorpsesMatch
INVARIANT NobodyHalfDead
INVARIANT CasualtiesKept
