CONSTANTS
    Transports = {t1, t2}
    Dialers = {d1, d2}
    Refreshers = {r1}
    Reaper = reaper
    Helpers = {h1}
    None = None
    MaxStreams = 2
    Overlap = 0
    InitMin = 0
    InitMax = 0
    PushedBounds <- BoundsOneTwo
SPECIFICATION Spec
SYMMETRY Symmetry
INVARIANTS PoolBounded PoolOwned
