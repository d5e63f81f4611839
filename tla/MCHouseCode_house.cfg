CONSTANTS
  MaxDim = 2
  NumUnits = 4
  Kind <- MCMixed
  HouseAction <- MCHouseAction
  DeviceAction <- MCDeviceAction
  MaxDisturbances = 4
SPECIFICATION Spec
INVARIANTS TypeOK FlagMeansSettled PlanSparesTheSettled PlanMakesProgress
PROPERTY EventuallyAtRest
CHECK_DEADLOCK FALSE
