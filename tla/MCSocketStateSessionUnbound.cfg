SPECIFICATION Spec
CONSTANTS
  Clients = {c1}
  Slots = {s1}
  Types = {temperature}
  Scopes = {c1}
  ExpectsServer = TRUE
  Publishers = {server}
  Threads = 1
  Unsubscribes = FALSE
  MaxVersion = 1
  MaxChanges = 1
  MaxResyncs = 0
  MaxDrops = 0
  Server = server
  None = none
  AnyDevice = any
INVARIANTS
  SubscriptionsPropagated
CHECK_DEADLOCK FALSE
