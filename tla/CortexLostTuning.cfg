SPECIFICATION Spec
CONSTANTS
  p1 = p1  p2 = p2  c1 = c1  k1 = k1  k2 = k2
  Proposal = {p1, p2}
  Caller = {c1}
  Automation = Automation
  Nobody = Nobody
  Key <- TwoKeys
  Type <- Tunings
  Safe = {p1, p2}
  Confident = {p1, p2}
  Proven = {}
  Research = {}
  Fleeting = {}
  Flags <- AnyFlags
  MaxCrashes = 0
INVARIANTS
  AppliedIsStored
CHECK_DEADLOCK FALSE
