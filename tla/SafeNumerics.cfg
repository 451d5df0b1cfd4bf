SPECIFICATION Spec
CONSTANTS
  Widths = {2, 4, 8}
  IntWidth = 4
  IntmaxWidth = 8
  EdgeWidth = 1
INVARIANTS
  TypeOK
  CheckedSound
  CheckedComplete
  ClampedNearest
  ConversionsExact
CHECK_DEADLOCK FALSE
