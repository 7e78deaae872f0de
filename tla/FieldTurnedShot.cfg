SPECIFICATION Spec
CONSTANTS
  LastHex = 6
  MaxStacks = 3
  MaxCorpses = 14
  Lineup <- Friends
  Shooters <- FirstShoots
  Book = {}
  Powers = {1}
  DigUp = FALSE
  Burning = FALSE
  OldMarks = FALSE
  Budget = 0
INVARIANT StackHexIsGridHex
