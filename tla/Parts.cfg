SPECIFICATION PartsSpec
CONSTANTS
  b1 = b1  b2 = b2
  Build = {b1, b2}
  Gates = 3
  Enabled = {b1, b2}
  AutoApprove = {b2}
  Timed = TRUE
  MaxCancels = 1
  RunIds = {"r1", "r2"}  SourceFiles = {"main"}  Edits <- OneEdit
  LoneRuns = {"r1"}  LoneSources = {"main", "more"}  LoneEdits <- TwoEdits
  MaxLate = 1  MaxFaults = 1
  Editor = {"e1", "e2"}  Verifier = {"v1", "v2"}  MaxTrees = 4  MaxCrashes = 1
  Attempts = {"d1", "d2", "d3"}  RollbackIds = {"b2"}
  FewAttempts = {"d1", "d3"}  MoreRollbacks = {"b1", "b2"}  Home <- HomeOf  KeepLast = 2
  Tasks <- TasksOf  OwnedFiles <- SliceOf  Delivered = {"main", "icon"}  Floor = {"main"}
  Trivial = {"icon"}  MaxRetries <- RetriesOf  MaxWrites = 1
  MaxHeals = 1
  Planned <- PlannedOf  Helper <- HelperOf  Scans <- ScansOf  TurnLimit <- TurnsOf
  EmptyLimit <- EmptyOf  MaxCalls <- CallsOf  Models = {"m1", "m2"}  Second = 1
  Process = {"web", "cli"}  Thread = {"w1", "c1"}  ProcessOf <- LibraryOf
  Body = {"t1", "t2"}  FirstBody = "t1"  Admissible = {"t1", "t2"}  MaxOperations = 3
  Launches = {"l1", "l2"}  StopIds = {"s1"}  RunKind = "node"  MaxRestarts = 1
  Canceller = {"c1"}  FolderIds = {1, 2}  MaxFailures = 1  MaxDeletes = 1
  Explored <- EveryPart
INVARIANTS
  TypesHold
  NoSilentShip
  NoGhostGate
  ShownIsWhole
  OriginalsSafe
  EditsStand
  WorkKept
  GoIsProven
  LiveIsFit
  EvidenceHolds
  PassIsEarned
  OkIsWhole
  NoAgentLeft
  NothingUncounted
  AttemptsBounded
  ReportIsTrue
  CodeStageSound
  LaterAutomationYields
  RepairsSound
CHECK_DEADLOCK FALSE
