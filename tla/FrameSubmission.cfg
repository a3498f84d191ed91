\* Five frames, two in flight, and a job queue that can be full.  The pool has
\* two jobs, and queues of one.
CONSTANTS
    w = w
    j1 = j1
    j2 = j2
    NoJob = NoJob
    Workers = {v, w}
    Main = Main
    NumFrames = 5
    NumModules <- UnevenFrames
    JOB_QUEUE_SIZE = 2
    EXCEPTION_QUEUE_SIZE = 1
    MAX_FRAMES_IN_FLIGHT = 2
SPECIFICATION BothFair
INVARIANT SinksInOrder
PROPERTIES ResetAfterExecution EveryFrameIsExecuted PoolGoesOn
CHECK_DEADLOCK FALSE
