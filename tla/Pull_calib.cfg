SPECIFICATION FairSpec
CONSTANTS
  Period = 2
  Presses = {1, 3, 5}
  MaxFlight = 2
  Formats <- JpegOnly
  MaxShot = 2
  MaxExp = 3
  NStems = 3
  OldExp = 0
  AwayExp = 0
  Adopted = FALSE
  Remembered = TRUE
  Checkable = TRUE
  Tol = 0
  MaxAttempts = 2
  MaxWalks = 1
  MaxStrikes = 1
  QueueCap = 1
  CmdMaxAge = 1
  SiblingWindow = 1
  MaxClock = 0
  MaxGap = 0
  BaselineTries = 1
  LostFrames = FALSE
  LostAnswers = TRUE
  LostDeletes = TRUE
  BodyShutter = FALSE
  Calibrations = 1
  EarlyFire = FALSE
INVARIANTS CalibrationKeptOut NoFrameVanishes
PROPERTY PendingSettles
CHECK_DEADLOCK FALSE
