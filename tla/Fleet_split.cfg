SPECIFICATION FleetSpec
CONSTANTS
  NNodes = 1
  Values = {1, 2}
  Passes = {"loop", "api"}
  BusyHold = 1
  MaxBackoff = 1
  Kinds = {}
  MaxFaults = 0
  Readback = FALSE
  MaxCalls = 2
  MaxEvents = 2
INVARIANT SplitAlwaysSurvives
CHECK_DEADLOCK FALSE
