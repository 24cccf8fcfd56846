SPECIFICATION FairSpec
CONSTANTS
  t1 = t1
  t2 = t2
  t3 = t3
  NoTask = NoTask
  Task = {t1, t2, t3}
  FreeSignals <- SomeSignals
  Breakable = {t1}
  Cancellable = {t2}
  Count = 2
  PTHREAD_BARRIER_FLAG = 8
  Rounds = 2
  Destroys = TRUE
INVARIANTS
  HeightCountsRound
  RoundsAreFull
  DestroySafe
PROPERTIES
  ImplementsBarrier
  RoundLeaves
  GateOpens
CHECK_DEADLOCK FALSE
