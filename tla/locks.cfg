SPECIFICATION FairSpec
CONSTANTS
  t1 = t1
  t2 = t2
  t3 = t3
  Task = {t1, t2, t3}
  NoTask = NoTask
  Kinds = {"NORMAL", "RECURSIVE", "ERRORCHECK", "RWLOCK"}
  Static = {TRUE, FALSE}
  Starters = {t1}
  Program <- AnyCalls
  MaxHeld = 2
  MaxNest = 4
INVARIANTS TypeOK Exclusive NestAccounted
CHECK_DEADLOCK FALSE
PROPERTIES TimedReturns
