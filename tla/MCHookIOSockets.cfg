SPECIFICATION FairSpec
CONSTANTS
  Tasks = {1, 2}
  HookedTasks = {1, 2}
  LimitedTasks = {1}
  Calls <- MCCallsSockets
  Fds = {3, 4}
  MadeByMain = {"listen", "stream"}
  MaxBytes = 1
  MaxCount = 1
  ConnectTries = 2
  MayRefuse = FALSE
INVARIANTS
  ThreadNeverBlocks
  ConnectAnswer
PROPERTIES
  CallsEnd
