CONSTANTS
    h1 = h1
    h2 = h2
    r1 = r1
    r2 = r2
    c = c
    Heaps = {h1, h2}
    Placed = {r1, r2}
    Committed = {c}
    HeapSize = 2
    CommittedSize = 1
    Room = 1
    Capacity = 4
    Budgets = {2, 3}
    IsEvictionHelpful = TRUE
    MAX_FRAMES_IN_FLIGHT = 2
    MaskBits = 3
    EstimateBits = 4
    MaxFrame = 3
    NoHeap = NoHeap
SPECIFICATION Spec
PROPERTIES PassEnds ResidencyIsKept
CHECK_DEADLOCK FALSE
