SPECIFICATION CallsSpec
CONSTANTS
  Inputs <- MCInputs
  Nullptr = Nullptr
  IntValues = 8
  SizeValues = 16
  Doubles = 8
  MaxAlloc = 7
CHECK_DEADLOCK FALSE
INVARIANTS
  BackwardPages
