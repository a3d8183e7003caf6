SPECIFICATION Spec
CONSTANTS
  b1 = b1
  r1 = r1
  i1 = i1
  w1 = w1
  Free = Free
  Lost = Lost
  Cut = Cut
  Backups = {b1}
  Restores = {r1}
  Imports = {i1}
  Unbacked = {}
  WooImports = {w1}
  NT = 2
  MaxBackups = 1
  Attempts = 2
  OutlivesTTL = FALSE
  MaxVersion = 1
  Events = {"lost", "crash", "redis", "query", "age", "delete"}
  MaxEvents = 1

  
PROPERTIES
  
  
  
  RotationKeepsNewest
  
CHECK_DEADLOCK FALSE
