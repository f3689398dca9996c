SPECIFICATION Spec
CONSTANTS
  PoolSize = 2
  TimerSize = 2
  FirstClock = 1
  LastClock = 2
  kMaxTimeoutMs = 1
  MayStepBack = TRUE
  Fds = {f1, f2, f3}
  PlainFds = {f3}
  IntHalf = 8
  Clock <- MCClock
  Attrs <- MCUnlimited
  PollTimeouts <- MCForever
INVARIANTS
  TypeOK
  RegistrationsLive
  ItemsLive
  PollAnswer
PROPERTIES
  ImplementsEventLoop
