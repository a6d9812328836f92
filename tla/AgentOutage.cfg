SPECIFICATION OutageSpec
CONSTANTS
  Data = {"d0", "d1"}
  Intervals = {30}
  FirstRow <- MCFirstRow
  DefaultPeriod = 30
  MaxBackoff = 3
  Faults = {"agentCrash", "workerRestart", "outage"}
  MaxFaults = 3
  MaxVersion = 2
  NoConfig = NoConfig
  Torn = Torn
  Empty = Empty
PROPERTIES
  CacheFallback
