SPECIFICATION Spec
CONSTANTS
  Items = {x1, x2}
  TimerSize = 3
  MaxClock = 6
  kMaxTimeoutMs = 2
  MayStepBack = TRUE
  Clock <- MCClock
  Timeouts <- MCTimeouts
INVARIANTS
  ListsSound
  WheelCoherent
  NeverEarly
  DueOrder
  SweepSound
PROPERTY
  ImplementsTimerSpec
