CONSTANTS
    Transports = {t1, t2}
    Dialers = {d1, d2}
    Refreshers = {}
    Reaper = reaper
    Helpers = {h1}
    None = None
    MaxStreams = 0
    Overlap = 1
    InitMin = 1
    InitMax = 1
    PushedBounds <- NoBounds
SPECIFICATION FairSpec
PROPERTIES CloseReleasesConns DrainedLeavesPool
