SPECIFICATION Spec
CONSTANTS
  t1 = t1
  t2 = t2
  t3 = t3
  NoTask = NoTask
  Task = {t1, t2, t3}
  FreeSignals <- ScarceSignals
  Program <- MixedProgram
  Breakable = {t1}
  Cancellable = {t2}
  InitValue = 0
  SEM_VALUE_MAX = 2
INVARIANTS
  TypeOK
  MutualExclusion
  WaitersAccounted
PROPERTIES
  TimeoutIsLate
  ImplementsCountingSem
CHECK_DEADLOCK FALSE
