SPECIFICATION Spec
CONSTANTS
  Editor = {e1}
  Verifier = {v1}
  Together = TRUE
  MaxTrees = 4
  MaxCrashes = 0
INVARIANTS
  GoIsProven
CHECK_DEADLOCK FALSE
