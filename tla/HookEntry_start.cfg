SPECIFICATION EntrySpec
CONSTANTS
    Char <- MCChar
    Configs <- MCConfigs
    Inputs <- MCInputs
    Dirs <- MCDirs
    Existing <- MCExisting
    None = none
    MaxCalls = 3
    Threads = {t1, t2, t3}
SYMMETRY Sym
INVARIANTS RealIInv CallsFindTheirFunction RightFile RootedOnce CaseBlind
