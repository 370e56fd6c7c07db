SPECIFICATION FairFleetSpec
CONSTANTS
  NNodes = 1
  Values = {1, 2}
  Passes = {"loop", "api"}
  BusyHold = 1
  MaxBackoff = 1
  Kinds = {"drop", "stall", "reset", "refuse", "drain"}
  MaxFaults = 2
  Readback = FALSE
  MaxCalls = 2
  MaxEvents = 2
INVARIANTS CachesAreTrue SplitSurvives
PROPERTIES CameraRejoins DebtIsPaid FormatConverges
