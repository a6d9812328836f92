SPECIFICATION Spec
CONSTANTS
  Admins = {a1, a2}
  Data = {d0, d1, d2}
  Queries = {0}
  DefaultData = d0
  MigrateInterval = 30
  DefaultInterval = 60
  Faults = {}
  MaxVersion = 3
  NoRow = NoRow
INVARIANTS
  VersionIdentifiesRow
