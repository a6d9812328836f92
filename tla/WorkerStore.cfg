SPECIFICATION Spec
CONSTANTS
  Clients <- MCClients
  Urls = {"u1", "u2"}
  Nothing = Nothing
  NoOne = NoOne
INVARIANTS
  TypeOK
  LockComesFree
PROPERTIES
  Linearizable
  UpdateEnds
