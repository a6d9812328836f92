SPECIFICATION Spec
CONSTANTS
  Admins = {a1, a2, a3}
  Data = {d0, d1}
  Queries = {0}
  DefaultData = d0
  MigrateInterval = 30
  DefaultInterval = 60
  Faults = {"crash"}
  MaxVersion = 3
  NoRow = NoRow
SYMMETRY Symmetry
INVARIANTS
  TypeOK
  GapsAreInterruptions
  HistoryIsTrue
  AckedOnce
