SPECIFICATION Spec
CONSTANTS
  Clients = {c1}
  Slots = {s1}
  Types = {temperature}
  Scopes = {any}
  ExpectsServer = FALSE
  Publishers = {c1, server}
  Threads = 1
  Unsubscribes = FALSE
  MaxVersion = 2
  MaxChanges = 2
  MaxResyncs = 0
  MaxDrops = 1
  Server = server
  None = none
  AnyDevice = any
INVARIANTS
  TypeOK
  AvailabilityCurrent
  HealthyConnectionNotReset
  SubscriptionsPropagated
  CopiesCurrent
CHECK_DEADLOCK FALSE
