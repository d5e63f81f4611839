CONSTANTS
  l1 = l1
  l2 = l2
  l3 = l3
  MaxDim = 17
  Linked <- MCOne
  HueWishes <- MCWishes
  Known <- MCOneKnown
  MaxLinked = 1
  MaxFailCount = 2
  MaxDisturbances = 3
SPECIFICATION Spec
INVARIANT RefusalIsNoticed
CHECK_DEADLOCK FALSE
