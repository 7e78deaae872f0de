\* An attacker without allies; its hero can hold one of the two defenders,
\* and the other can hold the attacker.
SPECIFICATION Spec
CONSTANTS
  Slots <- OneAgainstTwo
  Speed <- SpeedOf
  Eager = {}
  Panicky = {}
  Holders <- Right1
  Ablaze <- Right1
  Heroes = {{0}}
  Book = {"Hold"}
  Castle = FALSE
  Fire = FALSE
PROPERTY HeldNeverActs
