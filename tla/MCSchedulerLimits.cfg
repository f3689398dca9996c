SPECIFICATION FairSpec
CONSTANTS
  PoolSize = 2
  TimerSize = 3
  FirstClock = 10
  LastClock = 13
  kMaxTimeoutMs = 2
  MayStepBack = FALSE
  Fds = {f1}
  PlainFds = {}
  IntHalf = 4
  Clock <- MCClock
  Attrs <- MCLimited
  PollTimeouts <- MCForever
PROPERTIES
  EveryPollReturns
  LimitEnforced
  ImplementsTaskPool
