SPECIFICATION Spec
CONSTANTS
  worker = worker
  other = other
  f = f
  g = g
  s0 = s0
  s1 = s1
  Lua = Lua
  Free = Free
  LUA_NOREF = LUA_NOREF
  NoMessage = NoMessage
  Workers <- MCWorkers
  Handlers <- MCHandlers
  Message <- MCMessage
  HandlerCalls <- Calls
  MaxPosts = 3
INVARIANTS
  WaitCycleOnlyInHandler
CHECK_DEADLOCK FALSE
