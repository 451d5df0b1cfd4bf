SPECIFICATION Spec
CONSTANTS
  Threads = {t1, t2, t3, t4}
  NoThread = NoThread
INVARIANTS
  TypeOK
  HoldsLock
  NoFalseAlarm
  MisuseIsCaught
  OnlyHolderUnlocks
