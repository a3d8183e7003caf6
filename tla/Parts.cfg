SPECIFICATION PartsSpec
CONSTANTS
  row1 = row1
  row2 = row2
  Missing = Missing
  Tables <- ThreeTables
  Rows = {row1, row2}
  Batch = 1
  MaxFailures = 1
  MaxChanges = 1
  Tenants = {columb, other}
  Columb = columb
  Legacy = {columb}
  Handlers = {h1, h2}
  Databases = {dbA, dbB}
  Secrets = {s1, s2}
  Free = Free
  Stars = Stars
  Dots = Dots
  MaxRequests = 3
  Calls = {k1, k2}
  Life = 5
  HoroshopTTL = 4
  MaxClock = 5
  MaxCalls = 2
  MaxRevoked = 1
  MaxTransient = 1
  Polls = {q1, q2}
  MaxJobs = 2
  Passes = {p1, p2}
  Skus = {1, 2}
  PageOf <- PageOfDef
  LastPage = 2
  MaxPasses = 2
  MaxMaps = 2
  MaxEdits = 1
  Orders = {o1}
  OrderScripts = {r1, r2}
  MaxOrderScripts = 4
  Cards = {c1, c2}
  CardScripts = {w1, w2, w3}
  MaxSaves = 3
  Tcods = {1, 2, 3}
  GroupOf <- GroupOfDef
  NameOf <- NameOfDef
  BaseOf <- BaseOfDef
  Tasks = {t1, t2}
  MaxTasks = 3
  MaxPosts = 5
INVARIANTS
  RestoreFaithful
  NothingRemoved
  FailureLeavesPrefix
  SettingsKept
  
  OneIntegration
  PoolsServeTheirTenant
  AgeNeverRefused
  OneRefusalIsHidden
  OneJobShown
  SyncedIsWritten
  OrdersAnnounced
  CardChangesArrive
PROPERTIES
  CleanupKeepsSkus
CHECK_DEADLOCK FALSE
