SPECIFICATION Spec
CONSTANTS
  Period = 4
  Presses = {3, 5, 6, 10}
  MaxFlight = 2
  MaxShot = 2
  MaxExp = 3
  NStems = 2
  Formats <- JpegOnly
  OldExp = 0
  AwayExp = 0
  Adopted = FALSE
  Remembered = TRUE
  Checkable = TRUE
  Tol = 1
  MaxAttempts = 1
  MaxWalks = 2
  MaxStrikes = 1
  QueueCap = 2
  CmdMaxAge = 0
  SiblingWindow = 0
  MaxClock = 1
  MaxGap = 1
  BaselineTries = 1
  LostFrames = TRUE
  LostAnswers = TRUE
  LostDeletes = FALSE
  BodyShutter = TRUE
  Calibrations = 0
  EarlyFire = FALSE
INVARIANTS OneReleasePerCommand RowOwnsItsFire FiledUnderOwnName
PROPERTY LedgerKept
CHECK_DEADLOCK FALSE
