CONSTANTS
  l1 = l1
  l2 = l2
  l3 = l3
  MaxDim = 17
  Linked <- MCHouse
  HueWishes <- MCWishes
  Known <- MCAllKnown
  MaxLinked = 2
  MaxFailCount = 2
  MaxDisturbances = 2
SPECIFICATION Spec
INVARIANTS TypeOK WrongRestWasOvertaken QueuesStayShort BeliefsFollowLamps
PROPERTY EventuallyAtRest
CHECK_DEADLOCK FALSE
