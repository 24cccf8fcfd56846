SPECIFICATION Spec
CONSTANTS
  p1 = p1
  p2 = p2
  p3 = p3
  Main = Main
  NoTask = NoTask
  Task = {Main, p1, p2, p3}
  PTHREAD_THREADS_MAX = 3
  MaxCreates = 3
  Creators = {Main}
  Joiners = {Main, p1, p2, p3}
  SpawnMayFail = TRUE
  DetachStates = {TRUE, FALSE}
  Detaches = TRUE
  Cancels = TRUE
  Exits = TRUE
  JoinsAll = FALSE
  EarlyStart = TRUE
  AddressReuse = TRUE
SYMMETRY AddressSymmetry
INVARIANTS
  TypeOK
  NoThreadLeft
PROPERTIES
  SlotKept
CHECK_DEADLOCK FALSE
