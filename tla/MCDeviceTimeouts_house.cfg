CONSTANTS
  d1 = d1
  d2 = d2
  EndOfTime = EndOfTime
  MaxDim = 1
  Device = {d1, d2}
  Kind <- MCTwo
  TwelveHours = 2
  MaxDelay = 1
  MaxDuration = 2
  MaxBackStep = 1
  Horizon = 1
SPECIFICATION Spec
INVARIANTS TypeOK TimeoutAssertion NothingStaysOn TimeoutsWakeThePlanner
PROPERTY EventuallyDark
CHECK_DEADLOCK FALSE
