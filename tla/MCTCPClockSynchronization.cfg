SPECIFICATION FairSpec
CONSTANTS
  Clients = {near}
  References = {source}
  Server = source
  AppThreads = {near}
  None = none
  Dead = dead
  Modulus = 4
  MaximumClients = 1
  MaxFailures = 2
  MaxReadings <- Readings
INVARIANTS
  TypeOK
  PendingIsCurrent
  AnswerAwaited
  DecodersOwn
PROPERTIES
  EachNumberOnce
  ImplementsExchangeUnlessMistaken
  EventuallyServed
CHECK_DEADLOCK FALSE
