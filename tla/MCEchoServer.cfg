SPECIFICATION FairSpec
CONSTANTS
  PoolSize = 3
  Fds = {3, 4, 5}
  MaxBacklog = 1
INVARIANTS
  TypeOK
  OneHandler
PROPERTIES
  LostOnlyWhenBusy
  EndedIsClosed
