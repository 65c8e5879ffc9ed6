SPECIFICATION FairSpec
CONSTANTS
    NumReqs = 3
    Lines <- Ls
    Traces <- RequestsAndReuses
    Assoc <- L1Small
    MshrSize <- L1Wide
    Latency <- L2Slow
    LoadPorts <- Ports
    StorePorts <- OneEach
    DramReadPorts = 2
    DramWritePorts = 1
    MaxPrefetches = 1
INVARIANTS RequestsConserved MshrTracksMiss NoDuplicateLines
PROPERTY RequestsAnswered
