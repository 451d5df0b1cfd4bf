SPECIFICATION Spec
CONSTANTS
  Owners = {o1, o2}
  Resources = {r1, r2, r3}
  InvalidValue = invalid
  MaxRaw = 2
INVARIANTS
  TypeOK
  Balanced
PROPERTIES
  ClosesOnlyItsOwn
