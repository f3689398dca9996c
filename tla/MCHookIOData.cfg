SPECIFICATION Spec
CONSTANTS
  Tasks = {1, 2}
  HookedTasks = {1}
  LimitedTasks = {1}
  Calls <- MCCallsData
  Fds = {3, 4}
  MadeByMain = {"listen"}
  MaxBytes = 2
  MaxCount = 2
  ConnectTries = 2
  MayRefuse = TRUE
INVARIANTS
  TypeOK
  ByteCount
  ShortWriteExplained
