SPECIFICATION Spec
CONSTANTS
  Errors = {e1}
  MaxNesting = 1
PROPERTIES
  ErrorsReachStderr
