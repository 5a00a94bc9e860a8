SPECIFICATION Spec
CONSTANTS
  Components = {"pages", "neofs", "btree"}
  TreeKeys = {1, 2, 3, 4, 5, 6, 7, 8}
  TreeVals = {1}
  CAPACITY = 5
  Filled = 0
  MaxBlock = 16
INVARIANTS Coherent  
 
CHECK_DEADLOCK FALSE
