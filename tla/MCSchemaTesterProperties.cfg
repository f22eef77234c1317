SPECIFICATION Spec
CONSTANTS
  plain = plain
  env = env
  patched = patched
  none = none
  k1 = k1
  k2 = k2
  simp = simp
  mode = mode
  chosen = chosen
  empty = empty
  Config <- MCPropertyConfig
  NoPatch = none
  OptionDefault <- MCOptions
  PropertyDefault <- MCProperties
  Empty = empty
  MaxRuns = 1
INVARIANT PropertiesRecovered
CHECK_DEADLOCK FALSE
