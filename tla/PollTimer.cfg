SPECIFICATION Spec
CONSTANTS
  Second = 10
  DefaultPeriod = 20
  MaxBackoff = 40
  Half = 64
  Intervals = {0, 1, 5, 7, 13}
  Empty = Empty
INVARIANTS
  TypeOK
  IntervalHeld
  NextPollInTime
PROPERTY
  RetryWaits
