SPECIFICATION Spec
CONSTANTS
    Program <- MCProgram
    FirstUID <- MCFirstUID
    EntryBB = "entry"
    TraceLength = 5
    FTQSize = 2
    PackageSize = 2
    InsnQueueMaxSize = 4
    FlushPenalty = 2
PROPERTY FlushTakesPenalty
