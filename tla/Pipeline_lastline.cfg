SPECIFICATION PipeSpec
CONSTANTS
    Workers = {1, 2}
    Bytes = {nl, a, b, z}
    NL = nl
    ChunkSize = 3
    Lookahead = 2
    MaxTotal = 5
    Calls = {"grep"}
    MayFail = {}
    ByteA = a
    ByteB = b
    Needle <- MCNeedle
    Printable = {a, b}
    MinLen = 2
    MinChars = 1
    Dense <- MCNotDense
    Zero = z
    Block = 2
    Avx512 = FALSE
INVARIANT GrepCounts
