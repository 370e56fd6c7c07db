SPECIFICATION PullAndDrain
CONSTANTS
  Period = 1
  Presses = {}
  MaxFlight = 2
  Formats <- RawJpeg
  MaxShot = 2
  MaxExp = 3
  NStems = 3
  OldExp = 1
  AwayExp = 0
  Adopted = FALSE
  Remembered = TRUE
  Checkable = TRUE
  Tol = 0
  MaxAttempts = 2
  MaxWalks = 1
  MaxStrikes = 1
  QueueCap = 2
  CmdMaxAge = 1
  SiblingWindow = 1
  MaxClock = 0
  MaxGap = 0
  BaselineTries = 1
  LostFrames = FALSE
  LostAnswers = FALSE
  LostDeletes = TRUE
  BodyShutter = FALSE
  Calibrations = 0
  EarlyFire = FALSE
  Contents <- ThreeShots
  Kinds <- RawAndJpeg
  NameOf <- SameName
  CidOf <- ReusedId
  TornAppends = FALSE
  MaxMishaps = 2
  MaxCrashes = 1
INVARIANTS OneRowPerExposure OldFramesKeptOut DeletedOnlyWhenSafe HashOnRecord
PROPERTY DurableFilesStay
