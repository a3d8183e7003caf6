SPECIFICATION Spec
CONSTANTS
  h1 = h1
  h2 = h2
  p1 = p1
  o1 = o1
  o2 = o2
  o3 = o3
  x = x
  y = y
  Hooks = {h1, h2}
  Polls = {p1}
  Orders = {o1, o2, o3}
  Listed <- OnlyO2
  Rozetka = {o3}
  Unnamed = {}
  Lines <- ThreeOrders
  Items = {x, y}
  InitialStock <- Three
  MaxCache = 1
  PageSize = 2
  Documented = {o1, o2}
  None = None
  Events = {"crash", "query"}
  MaxEvents = 1
INVARIANTS
  DeductedOnce
  RecentNeverRepeated
  StockExact
  DocNumbersUnique
  DocumentsSerialize
CHECK_DEADLOCK FALSE
