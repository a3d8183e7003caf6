SPECIFICATION ExchangeSpec
CONSTANTS
  Runners = {r1, r2}
  MaxCode = 6
  InitialRows <- Rows
  InitialBarcodes <- Barcodes
  InitialGroups <- Categories
  InitialGoods <- Goods
  Roots <- RootCodes
  Width = 1
  Depth = 2
  CacheSize = 1
  PageSize = 1
  Eans = {90}
  Limits = {0, 1}
  Deletable = {2}
  ExportLimits = {0, 1}
  FetchBatch = 2
  ExportBatch = 2
  MaxRuns = 2
  Events = {"query", "restore", "delete", "shop", "crash"}
  MaxEvents = 1
INVARIANTS
  CodesUnique
  
  
  
  MappingsTellTheShop
PROPERTIES
  
  ImportComplete
  ExportComplete
SYMMETRY Symmetry
CHECK_DEADLOCK FALSE
