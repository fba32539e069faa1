SPECIFICATION MCSpec
CONSTANTS
    direct = direct  upstream = upstream  bal = bal
    Tags = {direct, upstream, bal}
    Direct = direct
    Balancers = {bal}
    Upstreams = {upstream}
    MembersOf <- MCMembersOf
    Configs <- MCConfigs
    Streams = {s1}
    None = None
    MaxGen = 1
    N = 2
    RttThreshold = 10
    Failover = TRUE
    Rtts <- MCRtts
    Dials = {d1, d2}
    MaxDials = 2
    TunConfigs = {"a", "b"}
    FailClosed = {"b"}
    TunGens = {1, 2}
    FileLen = 1
    ParsesAt = {1}
    MaxInodes = 3
    MaxHups = 1
    RowPool <- MCRows
    MaxRows = 3
    RouteUser = "lan"
    Fallback = "vpn"
    MaxGroups = 2
    ResolvesTo <- MCResolvesTo
    Under <- MCUnder
    Containing <- MCContaining
    Dotless <- MCDotless
CHECK_DEADLOCK FALSE
INVARIANTS RegistrySafe FailsOnlyIfDown TunSafe CacheFresh KernelAgrees
PROPERTIES OldGenerationClosed PrimaryPreferred ReconcileFollows
