SPECIFICATION FairSpec
CONSTANTS
  Clients = {c1}
  Slots = {s1}
  Types = {temperature}
  Scopes = {server}
  ExpectsServer = TRUE
  Publishers = {server}
  Threads = 1
  Unsubscribes = TRUE
  MaxVersion = 2
  MaxChanges = 2
  MaxResyncs = 1
  MaxDrops = 2
  Server = server
  None = none
  AnyDevice = any
PROPERTIES
  Converges
CHECK_DEADLOCK FALSE
