SPECIFICATION Spec
CONSTANTS
  LastHex = 4
  MaxStacks = 3
  MaxCorpses = 14
  Lineup <- TwoAgainstOne
  Shooters = {}
  Book = {"Raise"}
  Powers = {1}
  DigUp = TRUE
  Burning = FALSE
  OldMarks = FALSE
  Budget = 1
INVARIANT StackHexIsGridHex
