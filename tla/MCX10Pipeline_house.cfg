CONSTANTS
  MaxDim = 2
  NumUnits = 2
  Kind <- MCHouse
  OtherTransmitters = FALSE
  MaxTries = 2
  MaxPasses = 2
  MaxDue = 1
  MaxDisturbances = 2
SPECIFICATION Spec
INVARIANTS TypeOK WrongRestWasOvertaken RetriesAreSafe
PROPERTIES KeepsToX10Queue EventuallyAtRest
CHECK_DEADLOCK FALSE
