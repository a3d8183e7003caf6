SPECIFICATION ExchangeSpec
CONSTANTS
  Runners = {r1, r2}
  MaxCode = 6
  InitialRows <- Rows
  InitialBarcodes <- Barcodes
  InitialGroups <- Categories
  InitialGoods <- Numbered
  Roots <- RootCodes
  Width = 1
  Depth = 2
  CacheSize = 1
  PageSize = 1
  Eans = {90}
  Limits = {0}
  Deletable = {2}
  ExportLimits = {0, 1}
  FetchBatch = 2
  ExportBatch = 2
  MaxRuns = 2
  Events = {}
  MaxEvents = 0
PROPERTIES
  ReimportCreatesNothing
SYMMETRY Symmetry
CHECK_DEADLOCK FALSE
