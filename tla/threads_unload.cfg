SPECIFICATION Spec
CONSTANTS
  p1 = p1
  p2 = p2
  p3 = p3
  Main = Main
  NoTask = NoTask
  Task = {Main, p1, p2, p3}
  PTHREAD_THREADS_MAX = 3
  MaxCreates = 3
  Creators = {Main, p1, p2, p3}
  Joiners = {}
  SpawnMayFail = FALSE
  DetachStates = {FALSE}
  Detaches = FALSE
  Cancels = FALSE
  Exits = FALSE
  JoinsAll = FALSE
  EarlyStart = TRUE
  AddressReuse = TRUE
SYMMETRY AddressSymmetry
INVARIANTS
  NoUnloadedCode
CHECK_DEADLOCK FALSE
