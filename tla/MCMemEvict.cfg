SPECIFICATION Spec
CONSTANTS
    NumReqs = 3
    Lines <- Ls
    Traces <- EvictTraces
    Assoc <- Growing
    MshrSize <- L1Wide
    Latency <- L2Slow
    LoadPorts <- Ports
    StorePorts <- OneEach
    DramReadPorts = 2
    DramWritePorts = 1
    MaxPrefetches = 0
INVARIANT DirtyDataKept
