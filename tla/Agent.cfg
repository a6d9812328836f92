SPECIFICATION Spec
CONSTANTS
  Data = {"d0", "d1"}
  Intervals = {0, 5, 30}
  FirstRow <- MCFirstRow
  DefaultPeriod = 30
  MaxBackoff = 3
  Faults = {"poll", "forward", "forwardReply", "agentCrash", "workerRestart", "stall", "outage", "disk"}
  MaxFaults = 3
  MaxVersion = 3
  NoConfig = NoConfig
  Torn = Torn
  Empty = Empty
INVARIANTS
  TypeOK
  InSync
  PollDelivers
  CacheWasDelivered
PROPERTIES
  NoRegressByPolling
  ConvergesUnlessMissed
  IntervalConverges
  KeepsPolling
