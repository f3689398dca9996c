SPECIFICATION Spec
CONSTANTS
  PoolSize = 1
  TimerSize = 3
  FirstClock = 10
  LastClock = 12
  kMaxTimeoutMs = 2
  MayStepBack = FALSE
  Fds = {}
  PlainFds = {}
  IntHalf = 4
  Clock <- MCClock
  Attrs <- MCAttrs
  PollTimeouts <- MCPollTimeouts
INVARIANT
  LimitNotEarly
