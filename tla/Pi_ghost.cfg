SPECIFICATION PiSpec
CONSTANTS
    Clients = {c1}
    Schedules = {1}
    Frames = 1
    Period = 2
    Ttls = {2}
    DefaultTtl = 2
    RetryTtl = 1
    MaxWait = 0
    EdgeWait = 1
    MaxCalls = 2
    MaxFaults = 1
INVARIANT RunningMeansAlive
CHECK_DEADLOCK FALSE
