SPECIFICATION MCSpec
CONSTANTS
    Workers = {w1, w2}
    BindAttempts = 1
    MaxForgets = 2
    Groups = 1
    TeamSize <- MCTeamSize
    MaxGen = 2
    QuotaLimit = 5
    WorkerCount = 2
    RoomOf <- MCRoomOf
    SendCap = 1
    Burst = 2
    RefillStep = 2
    SizeOf <- MCSizeOf
    MaxFrames = 2
    MaxCounts = 3
    f1 = f1
    f2 = f2
    f3 = f3
    Fetchers <- MCFetchers
    Permits = 2
    CacheUses = 1
    MaxAnswers = 2
    NoOne = NoOne
CHECK_DEADLOCK FALSE
INVARIANT RunnerSafe
PROPERTIES DispatchSafe RunnerRecovers
