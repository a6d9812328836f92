SPECIFICATION FairBroadcastSpec
CONSTANTS
  Admins = {a1}
  Data = {d0, d1}
  Queries = {0}
  DefaultData = d0
  MigrateInterval = 30
  DefaultInterval = 60
  Faults = {}
  MaxVersion = 2
  NoRow = NoRow
  Agents = {g1}
  Strategies = {"REDIS", "NATS"}
  Capacity = 1
  BrokerFaults = {"publish"}
  MaxFaults = 1
  NoMessage = NoMessage
PROPERTIES
  SubscriberGetsUpdate
