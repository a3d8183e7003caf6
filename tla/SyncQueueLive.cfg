SPECIFICATION FairSpec
CONSTANTS
  Runners = {w1}
  Workers = {w1}
  Requests = {}
  Products <- Goods3
  InitialCatalog <- Goods3
  Unlisted <- FirstUnlisted
  Batch = 2
  MaxChanges = 1
  Events = {"api", "query", "crash"}
  MaxEvents = 1
  Scheduled = {"horoshop"}
  Interval <- EveryMinute
  MaxAttempts = 2
  KeepFailed = 1
  MaxJobs = 2
  MaxAdded = 1
  Limits = {0}
PROPERTIES
  ShopConverges
CHECK_DEADLOCK FALSE
