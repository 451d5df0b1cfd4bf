SPECIFICATION Spec
CONSTANTS
  Errors = {e1, e2}
  MaxNesting = 2
INVARIANTS
  TypeOK
  ReportsCallersError
PROPERTIES
  FatalNeverReturns
  LastWords
