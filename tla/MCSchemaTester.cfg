SPECIFICATION Spec
CONSTANTS
  plain = plain
  env = env
  patched = patched
  none = none
  k1 = k1
  k2 = k2
  simp = simp
  mode = mode
  chosen = chosen
  empty = empty
  Config <- MCConfig
  NoPatch = none
  OptionDefault <- MCOptions
  PropertyDefault <- MCProperties
  Empty = empty
  MaxRuns = 2
INVARIANTS
  TypeOK
  SessionAlive
  TestsSeeTheirPatch
  LeftoverOnlyAfterDeath
  OptionsRecovered
PROPERTY DiskOffline
CHECK_DEADLOCK FALSE
