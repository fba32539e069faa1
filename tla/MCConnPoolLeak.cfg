CONSTANTS
    Transports = {t1, t2}
    Dialers = {d1}
    Refreshers = {r1}
    Reaper = reaper
    Helpers = {}
    None = None
    MaxStreams = 0
    Overlap = 0
    InitMin = 1
    InitMax = 1
    PushedBounds <- NoBounds
SPECIFICATION Spec
INVARIANT StreamCountExact
