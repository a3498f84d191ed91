------------------------ MODULE DirectStorageAssetIO ------------------------
(***************************************************************************)
(* The DirectStorageAssetIORequestHandler: the requests of a dependency go  *)
(* to the DirectStorage queue of their priority, followed by the write of   *)
(* an entry of the queue's status array; a delayed job for each priority    *)
(* waits for its entry, and the last one completes the event.  Compressed   *)
(* data comes back for the CPU to decompress: a delayed job waits for the   *)
(* event of DirectStorage and starts the jobs that do it.                   *)
(***************************************************************************)
EXTENDS AssetJobs, FiniteSetsExt

CONSTANTS Compressed,                     \* the requests with compressed data
          DIRECT_STORAGE_QUEUE_CAPACITY   \* entries of a status array

\* Indices of entries are taken modulo the capacity.
ASSUME DirectStorageAssumption == DIRECT_STORAGE_QUEUE_CAPACITY \in Nat \ {0}

VARIABLES mNumStatusArrayEntriesCompleted,  \* by dependency
          enqueued,                         \* by priority: the requests enqueued
          submitted,                        \* the requests submitted
          read,                             \* those read from the file
          statusArr,                        \* by priority and entry: what was enqueued before
          mCurrStatusArrayEntryIndex,       \* by priority
          mHasRequestsToSubmit,             \* by priority
          decompression,                    \* the requests the CPU has to decompress
          decompressionEvent                \* whether DirectStorage's event is set

storageVars == <<submitted, read, decompression, decompressionEvent>>
queueVars   == <<enqueued, statusArr, mCurrStatusArrayEntryIndex, mHasRequestsToSubmit>>
directVars  == <<mNumStatusArrayEntriesCompleted, storageVars, queueVars>>

DirectInit == /\ mNumStatusArrayEntriesCompleted = [d \in Dependencies |-> 0]
              /\ enqueued = [p \in Priorities |-> {}] /\ submitted = {} /\ read = {}
              /\ statusArr = [p \in Priorities |->
                                [i \in 0 .. DIRECT_STORAGE_QUEUE_CAPACITY - 1 |-> {}]]
              /\ mCurrStatusArrayEntryIndex = [p \in Priorities |-> 0]
              /\ mHasRequestsToSubmit = [p \in Priorities |-> FALSE]
              /\ decompression = {} /\ decompressionEvent = FALSE

Decompression == [kind |-> "decompression"]
StatusEntry(p, i) == [kind |-> "status", priority |-> p, index |-> i]
Notification(d, p) == [kind |-> "notification", dependency |-> d, priority |-> p]

-----------------------------------------------------------------------------
(* PrepareAssetIORequest. *)

Relevant(d, p) == {r \in Of(d) : Priority[r] = p}

\* Of the PendingDirectStorageRequest: the entries it waits for.
TotalStatusArrayEntryCount(d) == Cardinality({p \in Priorities : Relevant(d, p) # {}})

CreatePendingRequest(t) ==
    LET d == Top(t).job.dependency
    IN /\ At(t, "prepare", "start")
       /\ mAssetRequestFinished' = mAssetRequestFinished
             \cup (IF TotalStatusArrayEntryCount(d) = 0 THEN {d} ELSE {})
       /\ Goto(t, "enqueue", 1)
       /\ UNCHANGED <<mJobQueue, mSubmissionInfoArr, loaded, mActive, deleted,
                      remainingThreadsCounter, directVars>>

\* EnqueueRequest of the queue of priority p, and CreateRequestFinishedNotification.
NotFlagged(p) == FALSE   \* mutant
HasRequests(p) == TRUE
EnqueueRequest(t) ==
    LET d == Top(t).job.dependency
        p == Top(t).at
        i == mCurrStatusArrayEntryIndex[p]
    IN /\ At(t, "prepare", "enqueue") /\ p <= PRIORITY_COUNT
       /\ Loop(t)
       /\ IF Relevant(d, p) = {} THEN UNCHANGED <<mSubmissionInfoArr, queueVars>>
          ELSE /\ enqueued' = [enqueued EXCEPT ![p] = @ \cup Relevant(d, p)]
               /\ statusArr' = [statusArr EXCEPT ![p][i] = enqueued[p] \cup Relevant(d, p)]
               /\ mCurrStatusArrayEntryIndex' = [mCurrStatusArrayEntryIndex EXCEPT
                     ![p] = (i + 1) % DIRECT_STORAGE_QUEUE_CAPACITY]
               /\ mHasRequestsToSubmit' = [mHasRequestsToSubmit EXCEPT ![p] = HasRequests(p)]
               /\ Delay(t, StatusEntry(p, i), Notification(d, p))
       /\ UNCHANGED <<mJobQueue, requestVars, mNumStatusArrayEntriesCompleted, storageVars>>

AddPendingRequest(t) ==
    /\ At(t, "prepare", "enqueue") /\ Top(t).at > PRIORITY_COUNT
    /\ mActive' = mActive \cup {Top(t).job.dependency}
    /\ Return(t)
    /\ UNCHANGED <<mJobQueue, mSubmissionInfoArr, mAssetRequestFinished, loaded, deleted,
                   remainingThreadsCounter, directVars>>

-----------------------------------------------------------------------------
(* Submission, and DirectStorage itself (external). *)

Submit(p) ==
    /\ submitted' = IF mHasRequestsToSubmit[p] THEN submitted \cup enqueued[p] ELSE submitted
    /\ mHasRequestsToSubmit' = [mHasRequestsToSubmit EXCEPT ![p] = FALSE]
    /\ UNCHANGED <<jobVars, requestVars, mNumStatusArrayEntriesCompleted, enqueued, statusArr,
                   mCurrStatusArrayEntryIndex, read, decompression, decompressionEvent>>

\* A request has been read from the file: the data is in its place, or is handed
\* to the CPU.
ReadFromFile(r) ==
    /\ r \in submitted \ read
    /\ read' = read \cup {r}
    /\ IF r \in Compressed
       THEN /\ decompression' = decompression \cup {r} /\ decompressionEvent' = TRUE
            /\ UNCHANGED loaded
       ELSE loaded' = loaded \cup {r} /\ UNCHANGED <<decompression, decompressionEvent>>
    /\ UNCHANGED <<jobVars, mAssetRequestFinished, mActive, deleted, remainingThreadsCounter,
                   mNumStatusArrayEntriesCompleted, submitted, queueVars>>

\* An entry is written when all that was enqueued before it is complete.
IsStatusOk(p, i) == statusArr[p][i] \subseteq loaded

-----------------------------------------------------------------------------
(* Decompression. *)

DecompressionJob(n, t, depth) ==
    [kind |-> "load", number |-> n, waiter |-> t, depth |-> depth]

BeginCPUDecompression(t) ==
    /\ At(t, "begin", "start")
    /\ remainingThreadsCounter' = LOADING_THREADS
    /\ ExecuteJobs(t, {DecompressionJob(n, t, Len(stack[t])) : n \in 1 .. LOADING_THREADS})
    /\ UNCHANGED <<mSubmissionInfoArr, mAssetRequestFinished, loaded, mActive, deleted, directVars>>

EndCPUDecompression(t) ==
    /\ At(t, "begin", "wait") /\ Top(t).left = 0
    /\ Return(t)
    /\ UNCHANGED <<mJobQueue, mSubmissionInfoArr, requestVars, directVars>>

\* ExecuteCPUDecompressionTasks: a request is got, or there is none left.
GetRequests(t) ==
    /\ At(t, "load", "start") \/ At(t, "load", "get")
    /\ \/ \E r \in decompression :
             /\ decompression' = decompression \ {r}
             /\ Goto(t, "decompress", r)
             /\ UNCHANGED <<mSubmissionInfoArr, remainingThreadsCounter>>
       \/ /\ decompression = {} /\ UNCHANGED decompression
          /\ LeaveLoading(t, Decompression)
          /\ Goto(t, "leave", 0)
    /\ UNCHANGED <<mJobQueue, mAssetRequestFinished, loaded, mActive, deleted,
                   mNumStatusArrayEntriesCompleted, submitted, read, decompressionEvent, queueVars>>

SetRequestResults(t) ==
    /\ At(t, "load", "decompress")
    /\ loaded' = loaded \cup {Top(t).at}
    /\ Goto(t, "get", 0)
    /\ UNCHANGED <<mJobQueue, mSubmissionInfoArr, mAssetRequestFinished, mActive, deleted,
                   remainingThreadsCounter, directVars>>

DecrementCounter(t) ==
    /\ At(t, "load", "leave")
    /\ ReturnTo(t, Top(t).job.waiter, Top(t).job.depth)
    /\ UNCHANGED <<mJobQueue, mSubmissionInfoArr, requestVars, directVars>>

-----------------------------------------------------------------------------

\* The job that waited for an entry of a status array.
NotifyEntryCompleted(t) ==
    LET d == Top(t).job.dependency
        numEntriesCompleted == mNumStatusArrayEntriesCompleted[d] + 1
    IN /\ At(t, "notification", "start")
       /\ mNumStatusArrayEntriesCompleted' =
             [mNumStatusArrayEntriesCompleted EXCEPT ![d] = numEntriesCompleted]
       /\ mAssetRequestFinished' = mAssetRequestFinished
             \cup (IF numEntriesCompleted = TotalStatusArrayEntryCount(d) THEN {d} ELSE {})
       /\ Return(t)
       /\ UNCHANGED <<mJobQueue, mSubmissionInfoArr, loaded, mActive, deleted,
                      remainingThreadsCounter, storageVars, queueVars>>

DirectStep(t) ==
    \/ CreatePendingRequest(t) \/ EnqueueRequest(t) \/ AddPendingRequest(t)
    \/ BeginCPUDecompression(t) \/ EndCPUDecompression(t)
    \/ GetRequests(t) \/ SetRequestResults(t) \/ DecrementCounter(t)
    \/ NotifyEntryCompleted(t)
=============================================================================
