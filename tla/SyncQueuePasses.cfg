SPECIFICATION Spec
CONSTANTS
  Runners = {w1, w2, q1}
  Workers = {w1, w2}
  Requests = {q1}
  Products <- Goods3
  InitialCatalog <- Goods3
  Unlisted <- FirstUnlisted
  Batch = 2
  MaxChanges = 1
  Events = {"api", "query", "crash"}
  MaxEvents = 1
  Scheduled = {}
  Interval <- EveryMinute
  MaxAttempts = 1
  KeepFailed = 1
  MaxJobs = 2
  MaxAdded = 2
  Limits = {0, 1}
SYMMETRY WorkerSymmetry
INVARIANTS
  CompletePass MappingSound

  
CHECK_DEADLOCK FALSE
