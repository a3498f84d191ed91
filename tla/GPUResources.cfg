CONSTANTS
    HeapSizeInBytes = 5
    SLI = 1
    Blocks <- ManyBlocks
    Null = Null
    Junk = Junk
    r1 = r1
    r2 = r2
    Resources = {r1, r2}
    Requests <- SmallRequests
    SubAllocations = {"a", "b"}
    Requirement <- TwoRequirements
    Data <- TwoData
    MaxPending = 2
    GPUResources = {"r", "s"}
    Views = {"u", "v"}
    BINDLESS_SRVS_PARTITION_SIZE = 2
    NoDescriptor <- NoView
SYMMETRY Alike
SPECIFICATION AllLevels
INVARIANTS HeapIsDividedUp SubAllocationsKeepTheirData BindlessSRVsAreCurrent
CHECK_DEADLOCK FALSE
