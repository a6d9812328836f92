SPECIFICATION Spec
CONSTANTS
  Data = {"d0", "d1"}
  Intervals = {30}
  FirstRow <- MCFirstRow
  DefaultPeriod = 30
  MaxBackoff = 3
  Faults = {"forward"}
  MaxFaults = 1
  MaxVersion = 2
  NoConfig = NoConfig
  Torn = Torn
  Empty = Empty
PROPERTIES
  Converges
