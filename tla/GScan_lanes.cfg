SPECIFICATION ScanSpec
CONSTANTS
    ByteValues = {0, 1, 2}
    Lists <- MCTwoFirst
    Block = 2
    Lanes = 1
    Avx2 = TRUE
    MaxText = 6
INVARIANT ScanExact
