SPECIFICATION Spec
CONSTANTS
  LastHex = 4
  MaxStacks = 3
  MaxCorpses = 14
  Lineup <- Duel
  Shooters = {}
  Book = {"MirrorImage"}
  Powers = {1}
  DigUp = FALSE
  Burning = TRUE
  OldMarks = FALSE
  Budget = 1
INVARIANT EmptyHexIsEmpty
