SPECIFICATION FairSpec
CONSTANTS
  Client = {c1, c2}
  Dll = {d1, d2}
  NoDll = NoDll
  MaxUse = 2
  Tries = 1
  MaxLeaks = 1
  Portable = {c1}
INVARIANTS
  TypeOK
  OpensCounted
  LoadedStays
  MessagesAlive
PROPERTIES
  QueryAndFreeReturn
  ClosedDllEnds
CHECK_DEADLOCK FALSE
