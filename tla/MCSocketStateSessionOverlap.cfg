SPECIFICATION Spec
CONSTANTS
  Clients = {c1}
  Slots = {s1}
  Types = {temperature}
  Scopes = {any, server}
  ExpectsServer = TRUE
  Publishers = {server}
  Threads = 1
  Unsubscribes = TRUE
  MaxVersion = 1
  MaxChanges = 3
  MaxResyncs = 0
  MaxDrops = 0
  Server = server
  None = none
  AnyDevice = any
INVARIANTS
  SubscriptionsPropagated
CHECK_DEADLOCK FALSE
