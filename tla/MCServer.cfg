SPECIFICATION MCSpec
CONSTANTS
    ReplayKeys = {k1, k2, k3}
    ReplayWindow = 2
    ReplayHardCap = 2
    ReplayMaxTime = 4
    IDs = {"a", "b"}
    Burst = 2
    Rate = 2
    Unit = 3
    Capacity = 1
    IDMaxTime = 4
    IPs = {"a"}
    Soft = 1
    Hard = 3
    ProbeWindow = 2
    TTL = 3
    Dialers = {d1, d2}
    Servers = {"a", "b", "c"}
    Limit = 1
    HandshakeWindow = 2
    MapCap = 2
    WarmConns = {c1, c2, c3}
    Takers = {t1, t2}
    PoolSize = 2
    ServerConns = {c1, c2}
    Keys = {k1}
    Others = 1
    MaxStreams = 1
    MaxData = 2
    Streams = {s1, s2}
    Persister = persister
    QueueCap = 1
    MaxPolicyReloads = 1
    DbUsers = {u1, u2}
    MaxFlushes = 1
    MaxCrashes = 1
    Settings = {bad, s1, s2}
    Bad = bad
    Lifetimes = {0, 4}
    MaxErrs = 4
    MaxReloads = 1
CHECK_DEADLOCK FALSE
INVARIANTS GatesHold ConnSafe RecordsKept HeldExactly
PROPERTIES FloodDropped WaiterServed SettingsSettle ServerCloseReturns GoneEnds
