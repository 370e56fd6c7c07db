SPECIFICATION FairRunAndPi
CONSTANTS
  Starts = {s1, s2}
  Stops = {p1}
  Nodes = {cam1}
  NoRun = NoRun
  Patient = TRUE
  Clients = {c1}
  Schedules = {1, 2}
  Frames = 2
  Period = 2
  Ttls = {2}
  DefaultTtl = 2
  RetryTtl = 1
  MaxWait = 1
  EdgeWait = 1
  MaxCalls = 4
  MaxFaults = 1
INVARIANTS RunXorDrain GridFiresForActiveRun NoInheritedDecision
  ShutterIsHonest ExposuresRecorded
PROPERTIES LatchIsReleased HoldEndsWithItsOwner
CHECK_DEADLOCK FALSE
