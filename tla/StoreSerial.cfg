SPECIFICATION SerialSpec
CONSTANTS
  Admins = {a1, a2}
  Data = {d0, d1}
  Queries = {0, 5}
  DefaultData = d0
  MigrateInterval = 30
  DefaultInterval = 60
  Faults = {"crash", "statement"}
  MaxVersion = 4
  NoRow = NoRow
INVARIANTS
  VersionIdentifiesRow
  AckedIsActiveOrSuperseded
  HistoryHasActive
PROPERTIES
  VersionNeverDecreases
  ImplementsRegister
