SPECIFICATION Spec
CONSTANTS
  Period = 2
  Presses = {}
  MaxFlight = 2
  Formats <- JpegOnly
  MaxShot = 2
  MaxExp = 2
  NStems = 4
  OldExp = 0
  AwayExp = 0
  Adopted = FALSE
  Remembered = TRUE
  Checkable = FALSE
  Tol = 0
  MaxAttempts = 2
  MaxWalks = 1
  MaxStrikes = 1
  QueueCap = 2
  CmdMaxAge = 1
  SiblingWindow = 1
  MaxClock = 0
  MaxGap = 0
  BaselineTries = 2
  LostFrames = FALSE
  LostAnswers = FALSE
  LostDeletes = FALSE
  BodyShutter = FALSE
  Calibrations = 0
  EarlyFire = FALSE
INVARIANT FailedFireDatesNothing
CHECK_DEADLOCK FALSE
