SPECIFICATION FairSpec
CONSTANTS
    Conns = {c1, c2}
    Caps = {0, 2}
    Deltas = {1}
    MaxBytes = 2
    MaxResets = 1
    Failures = {"commit"}
CHECK_DEADLOCK FALSE
INVARIANTS QuotaSafe
PROPERTIES OverCapDisconnected
