SPECIFICATION Spec
CONSTANTS
  Build = {b1, b2}
  Gates = 3
  Enabled = {b1, b2}
  AutoApprove = {b2}
  Timed = TRUE
  MaxCancels = 0
INVARIANTS
  AnswerStands
CHECK_DEADLOCK FALSE
