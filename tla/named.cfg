SPECIFICATION FairSpec
CONSTANTS
  Task = {t1, t2}
  NoTask = NoTask
  semOnce = semOnce
  Control = {semOnce, own}
  NoControl = NoControl
  Cancellable = {own}
  M68k = FALSE
  Name = {a}
  Address = {x, y}
  NoAddress = NoAddress
  Calls = 3
INVARIANTS
  TypeOK
  InitOnce
  NamesUnique
  FreedUnused
PROPERTIES
  CallsReturn
CHECK_DEADLOCK FALSE
