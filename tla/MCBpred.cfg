SPECIFICATION Spec
CONSTANTS
    BimodalLog = 1
    TagPredLog = 3
    TagLength <- MCTagLength
    Geometric <- MCGeometric
    PathBits = 5
    ResetPeriod = 4
    Programs <- MCPrograms
    Types = {"bp_none", "bp_perfect", "bp_always_NT", "bp_always_T", "bp_onebit", "bp_twobit", "bp_gshare", "bp_tage"}
    BhtLog = 2
    GhrSize = 2
    MaxBranches = 10
INVARIANTS HistoryFolded
PROPERTY UsefulKept
CHECK_DEADLOCK FALSE
