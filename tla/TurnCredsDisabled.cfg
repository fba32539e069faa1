SPECIFICATION CredsSpec
CONSTANTS
    Settings = {bad, s1, s2}
    Bad = bad
    Lifetimes = {0, 4}
    MaxErrs = 1
    MaxReloads = 1
INVARIANTS DisabledCleared
