SPECIFICATION FairSpec
CONSTANTS
  Threads = {t1, t2}
  Slots = {s1}
  Values = {v1, v2}
  Keys = {k1}
  ReservedKey = reserved
  NULL = NULL
  kThreadLocalStorageSize = 3
  kMaxDestructorIterations = 3
  ExitRounds = 1
PROPERTIES
  ImplementsThreadValues
  ExitTerminates
