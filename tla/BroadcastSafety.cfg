SPECIFICATION BroadcastSpec
CONSTANTS
  Admins = {a1, a2}
  Data = {d0}
  Queries = {0}
  DefaultData = d0
  MigrateInterval = 30
  DefaultInterval = 60
  Faults = {"crash"}
  MaxVersion = 3
  NoRow = NoRow
  Agents = {g1}
  Strategies = {"REDIS", "NATS"}
  Capacity = 1
  BrokerFaults = {"outage", "link", "publish", "retry", "forward", "agentCrash", "workerRestart", "stall"}
  MaxFaults = 2
  NoMessage = NoMessage
SYMMETRY CallersAlike
INVARIANTS
  BroadcastTypeOK
  RunsRecorded
  UpToDate
  LastIsRunning
PROPERTIES
  NoStepBack
