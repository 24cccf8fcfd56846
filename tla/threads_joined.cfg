SPECIFICATION FairSpec
CONSTANTS
  p1 = p1
  p2 = p2
  p3 = p3
  Main = Main
  NoTask = NoTask
  Task = {Main, p1, p2, p3}
  PTHREAD_THREADS_MAX = 3
  MaxCreates = 3
  Creators = {Main, p1, p2, p3}
  Joiners = {Main, p1, p2, p3}
  SpawnMayFail = FALSE
  DetachStates = {FALSE}
  Detaches = FALSE
  Cancels = FALSE
  Exits = FALSE
  JoinsAll = TRUE
  EarlyStart = TRUE
  AddressReuse = TRUE
INVARIANTS
  NoUnloadedCode
  ParentIsThere
PROPERTIES
  JoinGetsItsThread
  CallsReturn
CHECK_DEADLOCK FALSE
