SPECIFICATION FairSpec
CONSTANTS
  p1 = p1  p2 = p2  c1 = c1  k1 = k1  k2 = k2
  Proposal = {p1, p2}
  Caller = {c1}
  Automation = Automation
  Nobody = Nobody
  Key <- OneKey
  Type <- Mixed
  Safe = {p1, p2}
  Confident = {p1, p2}
  Proven = {p2}
  Research = {}
  Fleeting = {}
  Flags <- AnyFlags
  MaxCrashes = 1
INVARIANTS
  NoUnapprovedChange
  OneOpen
  Remembered
PROPERTY
  ApprovalSettles
CHECK_DEADLOCK FALSE
