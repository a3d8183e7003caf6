SPECIFICATION FairSpec
CONSTANTS
  h1 = h1
  h2 = h2
  p1 = p1
  o1 = o1
  o2 = o2
  o3 = o3
  x = x
  y = y
  Hooks = {h1}
  Polls = {p1}
  Orders = {o1, o2}
  Listed <- All
  Rozetka = {}
  Unnamed = {}
  Lines <- TwoOrders
  Items = {x, y}
  InitialStock <- Three
  MaxCache = 2
  PageSize = 2
  Documented = {}
  None = None
  Events = {"query"}
  MaxEvents = 1
PROPERTIES
  PendingGetsDeducted
CHECK_DEADLOCK FALSE
