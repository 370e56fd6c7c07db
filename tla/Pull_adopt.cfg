SPECIFICATION Spec
CONSTANTS
  Period = 2
  Presses = {1, 3, 5}
  MaxFlight = 2
  Formats <- JpegOnly
  MaxShot = 2
  MaxExp = 4
  NStems = 4
  OldExp = 1
  AwayExp = 1
  Adopted = TRUE
  Remembered = TRUE
  Checkable = FALSE
  Tol = 0
  MaxAttempts = 2
  MaxWalks = 1
  MaxStrikes = 1
  QueueCap = 2
  CmdMaxAge = 1
  SiblingWindow = 1
  MaxClock = 0
  MaxGap = 0
  BaselineTries = 2
  LostFrames = TRUE
  LostAnswers = TRUE
  LostDeletes = TRUE
  BodyShutter = TRUE
  Calibrations = 0
  EarlyFire = TRUE
INVARIANT ShiftWithinFaults
CHECK_DEADLOCK FALSE
