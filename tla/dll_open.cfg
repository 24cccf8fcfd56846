SPECIFICATION FairSpec
CONSTANTS
  Client = {c1}
  Dll = {d1, d2}
  NoDll = NoDll
  MaxUse = 2
  Tries = 1
  MaxLeaks = 0
  Portable = {c1}
PROPERTIES
  OpenReturns
CHECK_DEADLOCK FALSE
