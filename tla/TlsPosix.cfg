SPECIFICATION Spec
CONSTANTS
  Threads = {t1, t2}
  Slots = {s1, s2}
  Values = {v1}
  Keys = {k1, k2}
  ReservedKey = reserved
  NULL = NULL
  kThreadLocalStorageSize = 3
  kMaxDestructorIterations = 3
  ExitRounds = 2
SYMMETRY Symmetry
INVARIANTS
  TypeOK
  KeyAccounting
  VectorLive
  NoRecursion
  SlotIdentity
  FreshSlotsAreNull
  NotStoredWhenDestroyed
  CleanExit
PROPERTIES
  ImplementsThreadValues
