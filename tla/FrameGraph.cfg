SPECIFICATION Both
SYMMETRY Alike
CONSTANTS
    tex = tex
    upload = upload
    large = large
    v = v
    w = w
    Resources <- AllResources
    SubResourceCount = 1
    AlwaysDecays <- Buffers
    SpecialInit <- Persistent
    Transient <- Transients
    InitialState <- States0
    ResourceSize <- Sizes
    HeapType <- OneHeap
    CanAliasBeforeUseOnGPU <- Textures
    CanAliasAfterUseOnGPU <- AllResources
    Bundles <- OneReadBundles
    MaxPasses = 4
    MaxFrames = 2
    MaxPassesPerModule = 2
    Workers = {v, w}
    Main = "main"
    Builders = {"a", "b"}
    PER_FRAME_DESCRIPTORS = 2
    NoDescriptor = "none"
    MaxFramesProcessed = 3
INVARIANTS EveryUseSeesItsState ContentsAreOrdered AliasedResourcesTakeTurns FramesKeepTheirResources
CHECK_DEADLOCK FALSE
