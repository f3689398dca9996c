SPECIFICATION FairSpec
CONSTANTS
  Tasks = {1, 2}
  HookedTasks = {1, 2}
  LimitedTasks = {1}
  Calls <- MCCallsLimit
  Fds = {3, 4}
  MadeByMain = {"listen"}
  MaxBytes = 1
  MaxCount = 1
  ConnectTries = 2
  MayRefuse = FALSE
PROPERTIES
  TimeoutEndsIo
