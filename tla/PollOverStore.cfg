SPECIFICATION PollSpec
CONSTANTS
  Admins = {a1, a2}
  Data = {d0, d1}
  Queries = {0}
  DefaultData = d0
  MigrateInterval = 30
  DefaultInterval = 30
  Faults = {"crash"}
  MaxVersion = 2
  NoRow = NoRow
  DefaultPeriod = 30
  MaxBackoff = 1
  AgentFaults = {"agentCrash", "outage"}
  MaxFaults = 2
  NoConfig = NoConfig
  Torn = Torn
  Empty = Empty
  MaxWipes = 1
INVARIANTS
  VersionTellsData
  DeliversUnlessAmbiguous
PROPERTIES
  RefinesPollAgent
  AnswersAreCurrent
  ConvergesUnlessAmbiguous
