SPECIFICATION MCTakeoverSpec
SYMMETRY MCAlike
CHECK_DEADLOCK FALSE
CONSTANTS
  c1 = c1
  c2 = c2
  c3 = c3
  None = None
  Runs = {"r1", "r2"}
  Conns <- MCTakeoverConns
  Claimants <- MCTakeoverConns
  RunOf <- MCTakeoverRunOf
  DeviceOf <- MCOneDevice
  Slots = {"s1"}
  SlotOf <- MCOneSlot
  TokenOf <- MCTokens
  MaxActive = 2
  Faults = {"socket", "cancel", "shutdown"}
INVARIANT BondSafe
