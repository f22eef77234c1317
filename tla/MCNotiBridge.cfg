SPECIFICATION Spec
CONSTANTS
  worker = worker
  api1 = api1
  api2 = api2
  f = f
  g = g
  m1 = m1
  m2 = m2
  Lua = Lua
  Nil = Nil
  Garbage = Garbage
  Workers <- MCWorkers
  Apis <- MCOneApi
  Handlers <- MCHandlers
  Message <- MCMessage
  HandlerCalls <- MCQuiet
  MaxMessages = 3
  MaxPosts = 3
  MaxDrains = 2
INVARIANTS
  TypeOK
  NoDanglingRead
PROPERTIES
  IsChannel
