\* The three queues and every sequence of three groups.
CONSTANTS
    Queues = {DIRECT, COMPUTE, COPY}
    NumGroups = 3
SPECIFICATION FairSpec
INVARIANTS GroupsExecuteInOrder
PROPERTIES ImplementsSerialTimeline GroupIsExecuted
CHECK_DEADLOCK FALSE
