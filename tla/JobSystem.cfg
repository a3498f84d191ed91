\* Four jobs in groups of up to two, one of which may throw; the queue holds one.
CONSTANTS
    Workers = {v}
    Main = Main
    Jobs = {j1, j2, j3, j4}
    Nobody = Nobody
    Throwing = {j4}
    MaxGroup = 2
    JOB_QUEUE_SIZE = 1
    CounterBits = 2
SPECIFICATION FairSpec
PROPERTIES GroupsAreJoined WaitsEnd
CHECK_DEADLOCK FALSE
