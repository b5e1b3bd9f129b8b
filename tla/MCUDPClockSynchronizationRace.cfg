SPECIFICATION Spec
CONSTANTS
  near = near
  far = far
  source = source
  Clients = {near, far}
  References = {source}
  ReferenceOf <- Star
  Broadcasters = {source}
  AppThreads = {source}
  None = none
  All = all
  Modulus = 3
  MaxReadings <- StarReadings
INVARIANTS
  OwnSamples
CHECK_DEADLOCK FALSE
