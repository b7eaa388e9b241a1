SPECIFICATION Spec
CONSTANTS
  FixKinds = {"web"}
  MaxPasses = 2
  MaxWrites = 0
INVARIANTS
  OneCallConverges
CHECK_DEADLOCK FALSE
