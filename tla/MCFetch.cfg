SPECIFICATION FairSpec
CONSTANTS
    Program <- MCProgram
    FirstUID <- MCFirstUID
    EntryBB = "entry"
    TraceLength = 7
    FTQSize = 2
    PackageSize = 2
    InsnQueueMaxSize = 4
    FlushPenalty = 1
INVARIANTS PackagesCover NoFetchPastMispredict PhisNotMisled StopsAtEnd
PROPERTY Delivered
