SPECIFICATION MCSpec
CONSTANTS
  Explored = {"graph"}
  Node <- Three
  Deps <- ChainDeps
  Required = {"a", "b"}
  Cacheable = {}
  MaxRetries <- NoRetry
  Mutates = {}
  WriteSet <- NoWrites
  Group <- NoGroups
  NoGroup = ""
  GroupLimit <- NoLimits
  MaxConcurrency = 2
  MaxCancels = 1
  MaxAborts = 0
  MaxCrashes = 0
  MaxResumes = 0
  MaxDisturbances = 1
  Stacks = {}
  MaxTrees = 1
  MaxFixes = 0
  MaxFailed = 0
  MaxDrift = 0
  MaxSwitches = 0
INVARIANTS
  ReturnedWithVerdict
CHECK_DEADLOCK FALSE
