SPECIFICATION ShimSpec
CONSTANTS
    Threads = {t1, t2}
    Paths = {p1, p2}
    Addrs = {a1, a2}
    Null = null
    Sizes = {0, 1, 2}
    Counts = {1}
    Offsets <- MCOffsets
    Base = 3
    WordSize = 16
    MaxCalls = 4
    MaxChanges = 0
    KernelFds = {1, 2}
    Habits = {"seek past end", "map past end", "write", "munmap", "fionread", "stale", "dup"}
SYMMETRY Sym
INVARIANTS RefsExact
PROPERTIES FdIdentity
