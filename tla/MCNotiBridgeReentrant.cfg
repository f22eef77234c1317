SPECIFICATION Spec
CONSTANTS
  worker = worker
  api1 = api1
  api2 = api2
  f = f
  g = g
  m1 = m1
  m2 = m2
  Lua = Lua
  Nil = Nil
  Garbage = Garbage
  Workers <- MCWorkers
  Apis <- MCApis
  Handlers <- MCOneHandler
  Message <- MCOneMessage
  HandlerCalls <- Calls
  MaxMessages = 2
  MaxPosts = 3
  MaxDrains = 3
INVARIANTS
  PointersLiveUntilReentry
