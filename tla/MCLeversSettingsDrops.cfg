SPECIFICATION FairSpec
CONSTANTS
  a1 = a1
  a2 = a2
  a3 = a3
  h1 = h1
  h2 = h2
  h3 = h3
  Addresses <- MCAddresses
  Handles <- MCHandles
  Null = Null
  NoHandle = NoHandle
  DropsOwned = TRUE
PROPERTIES
  PushReturns
CHECK_DEADLOCK FALSE
