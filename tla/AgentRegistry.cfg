SPECIFICATION Spec
CONSTANTS
  Agents = {"a1", "a2"}
  Deployments <- MCDeployments
  Defaults <- MCDefaults
  Unset = Unset
  Malformed = Malformed
  Colon = 0
  BadSubjects = {"s s"}
  MaxRows = 3
  MaxFaults = 2
INVARIANTS
  TypeOK
  RegisteredRightly
  ListingComplete
PROPERTIES
  RegistrationEnds
  Joins
