SPECIFICATION FairSpec
CONSTANTS
  Runners = {w1}
  Workers = {w1}
  Requests = {}
  Products <- Goods3
  InitialCatalog <- Goods3
  Unlisted <- AllListed
  Batch = 2
  MaxChanges = 1
  Events = {}
  MaxEvents = 1
  Scheduled = {"prom"}
  Interval <- EveryMinute
  MaxAttempts = 1
  KeepFailed = 1
  MaxJobs = 2
  MaxAdded = 0
  Limits = {0}
PROPERTIES
  ShopConverges
CHECK_DEADLOCK FALSE
