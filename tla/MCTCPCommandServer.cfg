SPECIFICATION Spec
CONSTANTS
  first = first
  second = second
  Connections = {first, second}
  None = none
  Null = null
  Invalid = invalid
  Widest = 255
  MaximumRequestBytes = 17
  ReadSizes = {3, 20}
  MaximumClients = 1
  HookChanges = 1
  Known <- KnownWords
  Guarded <- GuardedWords
  Script <- Scripts
  Configs <- AllConfigs
INVARIANTS
  TypeOK
  RequestsInOrder
  AnswersMatch
  HooksInForce
  BoundedInput
PROPERTIES
  EventuallyServed
