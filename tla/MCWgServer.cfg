SPECIFICATION MCSpec
CONSTANTS
    c1 = c1
    c2 = c2
    None = None
    Runs = {"r1", "r2"}
    Conns <- MCPairConns
    Claimants <- MCPairConns
    RunOf <- MCPairRunOf
    DeviceOf <- MCOneDevice
    Slots = {"s1"}
    SlotOf <- MCPairSlotOf
    TokenOf <- MCPairTokens
    MaxActive = 2
    Faults = {"cancel", "shutdown"}
    Window = 4
    Hold = 2
    MaxSeq = 7
    ClientWindow = 4
    ClientHold = 2
    ClientMaxSeq = 7
    Flows = {flow}
    MaxMoved = 2
    WgConns = {c1, c2}
    Proxied = {c1}
    DeviceIds = {d1, d2}
    LastAddress = 3
    MaxSessions = 1
    MaxRestarts = 1
    NoPeer = NoPeer
CHECK_DEADLOCK FALSE
INVARIANTS WgServerSafe
PROPERTIES NothingLost LanesInOrder HeldDelivered BondDrains WgServerEnds
