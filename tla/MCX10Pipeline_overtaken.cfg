CONSTANTS
  MaxDim = 2
  NumUnits = 1
  Kind <- MCLamp
  OtherTransmitters = FALSE
  MaxTries = 2
  MaxPasses = 2
  MaxDue = 1
  MaxDisturbances = 1
SPECIFICATION Spec
INVARIANT RestMeansSettled
CHECK_DEADLOCK FALSE
