SPECIFICATION Spec
CONSTANTS
  row1 = row1
  row2 = row2
  Missing = Missing
  Tables <- TwoTables
  Rows = {row1}
  Batch = 1
  MaxFailures = 0
  MaxChanges = 0
INVARIANTS
  RollbackGuaranteed
CHECK_DEADLOCK FALSE
