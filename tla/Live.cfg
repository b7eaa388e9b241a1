SPECIFICATION LiveSpec
CONSTANTS
  s1 = s1  s2 = s2  s3 = s3  s4 = s4
  a1 = a1  a2 = a2  k1 = k1  k2 = k2
  Submission = {s1, s2, s3, s4}
  NoOne = NoOne  NoKey = NoKey  NoAgent = NoAgent
  KeyOf <- Keys
  Agent = {a1, a2}
  Capable <- AnyAgent
  Typed <- FirstAgent
  MaxConcurrency = 1
  MaxRetries = 1
  CacheSize = 1
  Threshold = 1
  MaxCancels = 2
INVARIANTS
  SingleFlight
PROPERTIES
  Settles
  KeepsIdempotency
  DrivesEnd
  SlotFreed
  Unattended
CHECK_DEADLOCK FALSE
