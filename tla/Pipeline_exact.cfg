SPECIFICATION FairClientSpec
CONSTANTS
    Workers = {1, 2}
    Bytes = {nl, a, z}
    NL = nl
    ChunkSize = 2
    Lookahead = 2
    MaxTotal = 6
    Calls = {"grep", "strings", "hist", "unicode"}
    MayFail = {"strings"}
    ByteA = a
    ByteB = a
    Needle <- MCNeedle
    Printable = {a}
    MinLen = 2
    MinChars = 1
    Dense <- MCDense
    Zero = z
    Block = 2
    Avx512 = FALSE
INVARIANTS ClientIInv Disjoint LineAligned Covered GrepExact StringsExact HistExact UnicodeExact ClientExact BuffersFreed
PROPERTIES CallReturns
