SPECIFICATION Spec
CONSTANTS
    Threads = {t1}
    Paths = {p1}
    Addrs = {a1}
    Null = null
    Sizes = {0, 2}
    Counts = {1, 3}
    Offsets <- MCOffsets
    Base = 3
    WordSize = 16
    MaxCalls = 4
    MaxChanges = 0
INVARIANT ReadsOnlySliceBytes
