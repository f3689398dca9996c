SPECIFICATION Spec
CONSTANTS
  PoolSize = 3
  Attrs <- MCAttrs
INVARIANTS
  PoolAccounting
  FreeListSound
  CallStackSound
  ControlSound
  
  RefusedOnlyWhenBusy
  CallbackOnlyAfterTimeout
