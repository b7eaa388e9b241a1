SPECIFICATION MCSpec
CONSTANTS
  Explored = {"graph", "delivery"}
  Node <- Crowd
  Deps <- CrowdDeps
  Required = {"a", "c"}
  Cacheable = {"a", "d"}
  MaxRetries <- CrowdTries
  Mutates = {"a", "b"}
  WriteSet <- Paths
  Group <- Groups
  NoGroup = ""
  GroupLimit <- GroupLimits
  MaxConcurrency = 2
  MaxCancels = 1
  MaxAborts = 1
  MaxCrashes = 2
  MaxResumes = 2
  MaxDisturbances = 2
  Stacks = {"ui", "game", "mcp", "rag", "workflow", "cli"}
  MaxTrees = 3
  MaxFixes = 1
  MaxFailed = 1
  MaxDrift = 1
  MaxSwitches = 1
INVARIANTS
  DependenciesFirst
  VerdictSound
  AttemptsSound
  NothingClashes
  NeverStalled
  BuildTypes
  GoIsOfTheDeliveredTree
  GoIsUnblocked
PROPERTIES
  KeepsPromise
  CancelledForGood
  NoRedo
CHECK_DEADLOCK FALSE
