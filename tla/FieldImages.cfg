SPECIFICATION Spec
CONSTANTS
  LastHex = 4
  MaxStacks = 2
  MaxCorpses = 14
  Lineup <- Duel
  Shooters <- FirstShoots
  Book = {"MirrorImage", "Teleport"}
  Powers = {1, 2}
  DigUp = FALSE
  Burning = FALSE
  OldMarks = FALSE
  Budget = 2
INVARIANT ImagesMatch
PROPERTY ImagesExpire
