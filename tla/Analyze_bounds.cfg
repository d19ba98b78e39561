SPECIFICATION ClientSpec
CONSTANTS
    NThreads = 2
    MinBlock = 2
    DiffDefault = 2
    ReconMin = 2
    MinLen = 2
    MaxStrings = 1
    WordSize = 8
    LenSize = 8
    BlockArgs <- MCBlockArgs
    MaxTotal = 5
    MinImage = 2
    EntrySize = 1
    PeHeader = 1
    NameMax = 2
    Images <- MCImages
INVARIANT SectionsInFile
