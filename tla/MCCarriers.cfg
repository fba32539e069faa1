SPECIFICATION MCSpec
CONSTANTS
    PollWorkers = {p1, p2}
    RingSize = 2
    ChanCap = 1
    RetransmitAfter = 1
    RetransmitGap = 1
    DownWindow = 2
    MaxPending = 1
    MaxMade = 2
    MaxLost = 1
    Sids = {s1}
    FragOps = {o1, o2}
    OpTokens = 2
    FrameRoom = 1
    MaxChunks = 2
    DynPorts = {1, 2}
    MaxPorts = 2
    SessionsPerPort = 1
    DownTicks = 2
    ListenAttempts = 8
    MaxLoad = 3
    Streams = {"a", "b", "c"}
    SchedWorkers = {w1, w2}
    MuxIds = {1, 2}
    ReadChCap = 1
    MuxStarts <- MCMuxStarts
    VkDialers = {v1, v2}
    VkWorkers = 2
    VkSessions = {1, 2, 3, 4}
    TunDials = {f1, f2}
    TunTargets = {g1}
    PerTarget = 1
    ActiveCap = 1
    OpenCap = 1
    CoolAfter = 1
    NoisyOver = 1
    RecoveryAfter = 1
    NoVictim = NoVictim
CHECK_DEADLOCK FALSE
INVARIANTS DownSafe FragSafe VkSafe AdmissionSafe
PROPERTIES AbandonedEnds PortsSettle SlotReclaimed
