SPECIFICATION FairSpec
CONSTANTS
  Size = 3
  a = a
  b = b
  Items = {a, b}
INVARIANTS
  TypeOK
  ResultsMayBeIgnored
  NoTornElement
PROPERTIES
  ImplementsBoundedQueue
  PushCompletes
