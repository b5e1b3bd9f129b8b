SPECIFICATION Spec
CONSTANTS
  Clients = {c1, c2}
  Slots = {s1, s2}
  Types = {temperature}
  Scopes = {server}
  ExpectsServer = TRUE
  Publishers = {server}
  Threads = 2
  Unsubscribes = TRUE
  MaxVersion = 3
  MaxChanges = 2
  MaxResyncs = 0
  MaxDrops = 0
  Server = server
  None = none
  AnyDevice = any
INVARIANTS
  SubscriptionsPropagated
  AvailabilityHasSession
  CopiesCurrent
  UpdatesPrecedeUnsubscribe
PROPERTIES
  ImplementsReplication
CHECK_DEADLOCK FALSE
SYMMETRY Symmetry
