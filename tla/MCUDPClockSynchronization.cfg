SPECIFICATION Spec
CONSTANTS
  near = near
  far = far
  source = source
  Clients = {near}
  References = {source}
  ReferenceOf <- Star
  Broadcasters = {source}
  AppThreads = {near}
  None = none
  All = all
  Modulus = 3
  MaxReadings <- PairReadings
INVARIANTS
  TypeOK
  OwnSamples
  OneSamplePerRequest
PROPERTY
  ImplementsExchange
CHECK_DEADLOCK FALSE
