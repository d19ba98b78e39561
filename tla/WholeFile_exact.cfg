SPECIFICATION WholeSpec
CONSTANTS
    ByteValues = {0, 1, 2}
    Lists <- MCLists
    Block = 2
    Lanes = 2
    Avx2 = TRUE
    MaxText = 5
    NThreads = 2
    MinBlock = 2
    DiffDefault = 2
    ReconMin = 2
    MinLen = 2
    MaxStrings = 1
    WordSize = 8
    LenSize = 8
    BlockArgs <- MCBlockArgs
    MaxTotal = 5
    MinImage = 2
    EntrySize = 1
    PeHeader = 1
    NameMax = 2
    Images <- MCImages
INVARIANTS ScanIInv ScanExact CountsExact ClientIInv EntropyExact SliceExact DiffExact ReconExact TablesInFile RustExact RustFrees
