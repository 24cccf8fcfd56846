SPECIFICATION FairSpec
CONSTANTS
  Task = {t1, t2}
  NoTask = NoTask
  PTHREAD_KEYS_MAX = 2
  PTHREAD_DESTRUCTOR_ITERATIONS = 2
  Values = 2
  Creates = 3
  NoDestructor = TRUE
INVARIANTS
  TypeOK
  DestroyedOnce
  DestructorStays
  NothingLeft
PROPERTIES
  ThreadEnds
CHECK_DEADLOCK FALSE
