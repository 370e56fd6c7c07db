SPECIFICATION FairGridAndMatch
CONSTANTS
  NNodes = 2
  Frames = 5
  DeadAfter = 2
  MaxLevel = 1
  MaxFlight = 2
  MaxFaults = 2
  NRows = 5
  Period = 4
  Setups <- SetupsDef
  JournalError = 1
  Directories = {"cam1", "cam2", "both"}
  MaxFlaws = 1
INVARIANTS LonelyShotsBounded ProbeFrameAccounted CardsAreAttributed
PROPERTIES ResumedByFrame GridCompletes
CHECK_DEADLOCK FALSE
