SPECIFICATION BundleSpec
CONSTANTS
    Fetchers = {"loop"}
    Pools = {1}
    MaxMessages = 1
    MaxProfiles = 0
    MaxStarts = 2
INVARIANT OneShotNotCached
CHECK_DEADLOCK FALSE
