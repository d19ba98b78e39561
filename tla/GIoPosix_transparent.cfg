SPECIFICATION FairShimSpec
CONSTANTS
    Threads = {t1, t2}
    Paths = {p1}
    Addrs = {a1}
    Null = null
    Sizes = {0, 2}
    Counts = {0, 1, 3}
    Offsets <- MCOffsets
    Base = 3
    WordSize = 16
    MaxCalls = 4
    MaxChanges = 0
    KernelFds = {1, 2}
    Habits = {}
INVARIANTS ShimIInv
PROPERTIES Transparent StaysInRam EveryCallReturns
