SPECIFICATION Spec
CONSTANTS
    Threads = {t1, t2}
    Paths = {p1, p2}
    Addrs = {a1, a2}
    Null = null
    Sizes = {0, 2}
    Counts = {1, 15}
    Offsets <- MCOffsets
    Base = 3
    WordSize = 16
    MaxCalls = 5
    MaxChanges = 1
SYMMETRY Sym
INVARIANTS IInv AccessInBounds RefsExact HandlesBacked OneVersion MappingsOwned
PROPERTIES FdIdentity
