\* Two elements fit, three threads, as many pushes as the ring has slots.
CONSTANTS
    Threads = {a, b, c}
    NumElements = 2
    MaxPushes = 3
SPECIFICATION FairSpec
INVARIANT QueueIntact
PROPERTIES ImplementsBoundedQueue TryPopReturns
