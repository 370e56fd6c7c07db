SPECIFICATION FairHostSpec
CONSTANTS
    Senders = {1, 2}
    Satellite = {1}
    Offsets = {0, 1, 3}
    Tolerance = 1
    Stale = 2
    GapsKept = 2
    SpansKept = 4
    MaxNow = 4
    InitRetry = 1
    OnlineFor = 3
    Mute = 1
    JoinMin = 1
    JoinMax = 4
    ReopenMin = 1
    ReopenMax = 4
    MaxTroubles = 3
    StaleAfter <- StaleAfterDef
    HistoryAge = 3
    HistoryLen = 3
    MaxInstant = 4
    Gaps = {1, 4}
    Window = 1
    Near = 2
    Coarse = 9
    RiseLimit = 2
    MaxTries = 2
    MaxStrikes = 1
    MaxShots = 3
    MaxSlips = 1
    Cams = {1}
    Every = 2
    TailKept = 2
    MaxRuns = 2
    MaxSaved = 3
    MaxKills = 1
    MaxIoErrors = 1
    Viewers = {"t1", "t2"}
    Viewed = {"r1", "r2"}
    CacheMax = 0
    MaxViews = 2
    MaxGrowth = 1
    Sources = {"a", "b"}
    MaxPasses = 3
    MaxRots = 3
    MaxTears = 1
    Shots = {1, 2, 3}
    Interval = 4
    Skew = 1
    FirstTol = 1
    Enough = 2
    Grace = 2
    Lately = 2
    MaxLost = 1
    MaxRaises = 1
    Watched = {"cam1", "cam2"}
    Signs = {"writing", "preview"}
    Scanners = {"loop", "diag"}
    Stuck = 1
    SkewScans = 2
    MaxChanges = 2
    Fleet = {"cam1", "cam2"}
    Askers = {"stop", "api"}
    Requests = {{"cam1", "cam2"}, {"cam2"}}
    MaxDrains = 2
    MaxTrials = 1
INVARIANTS AuthorityIsHonest HistoryIsHonest EdgesAreHonest ReadersSeeTheRun PlacementIsSafe FeedIsHonest ScanIsHonest DrainIsOrderly
PROPERTIES BusIsJoined PairingFeeds
CHECK_DEADLOCK FALSE
