SPECIFICATION FairSpec
CONSTANTS
  worker = worker
  other = other
  f = f
  g = g
  s0 = s0
  s1 = s1
  Lua = Lua
  Free = Free
  LUA_NOREF = LUA_NOREF
  NoMessage = NoMessage
  Workers <- MCTwoWorkers
  Handlers <- MCHandlers
  Message <- MCMessage
  HandlerCalls <- MCQuiet
  MaxPosts = 3
INVARIANTS
  TypeOK
  Aligned
  NoWaitCycle
PROPERTIES
  IsChannel
  EverybodyReturns
