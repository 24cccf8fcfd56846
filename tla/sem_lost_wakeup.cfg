SPECIFICATION FairSpec
CONSTANTS
  t1 = t1
  t2 = t2
  t3 = t3
  NoTask = NoTask
  Task = {t1, t2, t3}
  FreeSignals <- PlentySignals
  Program <- TwoWaitersProgram
  Breakable = {}
  Cancellable = {}
  InitValue = 0
  SEM_VALUE_MAX = 2
PROPERTIES
  SleeperWakes
