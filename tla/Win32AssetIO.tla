---------------------------- MODULE Win32AssetIO ----------------------------
(***************************************************************************)
(* The Win32AssetIORequestHandler: requests go to a queue for each priority *)
(* (a BoundedQueue, see ThreadSafeQueue), and a job that waits for the flag *)
(* mActiveRequestsExist starts the jobs that empty the queues.              *)
(*                                                                         *)
(* The store of false at the start of that job is relaxed: the processor    *)
(* and the compiler may let the loads that follow overtake it.  It stays in *)
(* a store buffer until it drains, at the latest at the thread's next       *)
(* atomic read-modify-write.                                                *)
(***************************************************************************)
EXTENDS AssetJobs

CONSTANTS REQUEST_QUEUE_SIZE

VARIABLES mRequestQueueArr,       \* by priority
          mActiveRequestCounter,  \* by dependency, of its Win32AssetIORequestTracker
          mActiveRequestsExist,
          overtaken,              \* history: whether a store of true came before it
          storeBuffer             \* the thread whose store of false is still to be seen, if any

win32Vars == <<mRequestQueueArr, mActiveRequestCounter, mActiveRequestsExist, overtaken,
               storeBuffer>>

Win32Init == /\ mRequestQueueArr = [p \in Priorities |-> <<>>]
             /\ mActiveRequestCounter = [d \in Dependencies |-> 0]
             /\ mActiveRequestsExist = FALSE /\ storeBuffer = {} /\ overtaken = FALSE

ActiveRequests == [kind |-> "active requests"]
LoadJob(n) == [kind |-> "load", number |-> n]

\* The predicate of the delayed job.  A thread sees its own store at once.
IsActiveRequestsCompleted(t) == mActiveRequestsExist /\ t \notin storeBuffer

StoreBufferDrains ==
    /\ storeBuffer # {}
    /\ storeBuffer' = {} /\ mActiveRequestsExist' = FALSE
    /\ UNCHANGED <<jobVars, requestVars, mRequestQueueArr, mActiveRequestCounter,
                   overtaken>>

-----------------------------------------------------------------------------
(* PrepareAssetIORequest. *)

Finalize(t) ==
    LET d == Top(t).job.dependency
    IN /\ At(t, "prepare", "start")
       /\ IF RequestsOf[d] = <<>>
          THEN /\ mAssetRequestFinished' = mAssetRequestFinished \cup {d}
               /\ Return(t) /\ UNCHANGED mActiveRequestCounter
          ELSE /\ mActiveRequestCounter' = [mActiveRequestCounter EXCEPT ![d] = Len(RequestsOf[d])]
               /\ Goto(t, "push", 1) /\ UNCHANGED mAssetRequestFinished
       /\ UNCHANGED <<mJobQueue, mSubmissionInfoArr, loaded, mActive, deleted,
                      remainingThreadsCounter, mRequestQueueArr, mActiveRequestsExist, overtaken,
                   storeBuffer>>

\* The request at hand: of the dependency being prepared, or popped from a queue.
Current(t) == IF Top(t).job.kind = "prepare" THEN RequestsOf[Top(t).job.dependency][Top(t).at]
                                             ELSE Top(t).at

\* A request that finds its queue full is loaded on the spot.
PushBack(t) ==
    /\ At(t, "prepare", "push") /\ Top(t).at <= Len(RequestsOf[Top(t).job.dependency])
    /\ LET r == Current(t)
           p == Priority[r]
       IN IF Len(mRequestQueueArr[p]) < REQUEST_QUEUE_SIZE
          THEN /\ mRequestQueueArr' = [mRequestQueueArr EXCEPT ![p] = Append(@, r)]
               /\ Loop(t)
          ELSE Goto(t, "loading", Top(t).at) /\ UNCHANGED mRequestQueueArr
    /\ UNCHANGED <<mJobQueue, mSubmissionInfoArr, requestVars, mActiveRequestCounter,
                   mActiveRequestsExist, overtaken, storeBuffer>>

AddActiveBuilder(t) ==
    /\ At(t, "prepare", "push") /\ Top(t).at > Len(RequestsOf[Top(t).job.dependency])
    /\ mActive' = mActive \cup {Top(t).job.dependency}
    /\ Goto(t, "store", 0)
    /\ UNCHANGED <<mJobQueue, mSubmissionInfoArr, mAssetRequestFinished, loaded, deleted,
                   remainingThreadsCounter, win32Vars>>

StoreTrue(t) ==
    /\ At(t, "prepare", "store")
    /\ mActiveRequestsExist' = TRUE
    /\ overtaken' = (overtaken \/ storeBuffer # {})
    /\ Return(t)
    /\ UNCHANGED <<mJobQueue, mSubmissionInfoArr, requestVars, mRequestQueueArr,
                   mActiveRequestCounter, storeBuffer>>

-----------------------------------------------------------------------------
(* LoadAssetData, of a request popped or found too many. *)

Loading(t) == At(t, "prepare", "loading") \/ At(t, "load", "loading")
Notifying(t) == At(t, "prepare", "notify") \/ At(t, "load", "notify")

LoadAssetData(t) ==
    /\ Loading(t)
    /\ loaded' = loaded \cup {Current(t)}
    /\ Goto(t, "notify", Top(t).at)
    /\ UNCHANGED <<mJobQueue, mSubmissionInfoArr, mAssetRequestFinished, mActive, deleted,
                   remainingThreadsCounter, win32Vars>>

NotifyForAssetIORequestCompletion(t) ==
    LET d == DependencyOf(Current(t))
    IN /\ Notifying(t)
       /\ mActiveRequestCounter' = [mActiveRequestCounter EXCEPT ![d] = @ - 1]
       /\ mAssetRequestFinished' = mAssetRequestFinished
                                   \cup (IF mActiveRequestCounter[d] = 1 THEN {d} ELSE {})
       /\ IF Top(t).job.kind = "prepare" THEN Goto(t, "push", Top(t).at + 1)
                                         ELSE Goto(t, "pop", Priority[Current(t)])
       /\ UNCHANGED <<mJobQueue, mSubmissionInfoArr, loaded, mActive, deleted,
                      remainingThreadsCounter, mRequestQueueArr, mActiveRequestsExist, overtaken,
                   storeBuffer>>

-----------------------------------------------------------------------------
(* BeginAssetLoading and the jobs it starts. *)

BeginAssetLoading(t) ==
    /\ At(t, "begin", "start")
    /\ storeBuffer' = {t}
    /\ Goto(t, "look", PRIORITY_COUNT)
    /\ UNCHANGED <<mJobQueue, mSubmissionInfoArr, requestVars, mRequestQueueArr,
                   mActiveRequestCounter, mActiveRequestsExist, overtaken>>

\* One turn of take_while; when the last queue is empty as well, the job is
\* delayed again.
IsEmpty(t) ==
    LET p == Top(t).at
    IN /\ At(t, "begin", "look")
       /\ IF mRequestQueueArr[p] # <<>> THEN Goto(t, "dispatch", 0) /\ UNCHANGED mSubmissionInfoArr
          ELSE IF p > 1 THEN Goto(t, "look", p - 1) /\ UNCHANGED mSubmissionInfoArr
          ELSE Delay(t, ActiveRequests, BeginLoading) /\ Return(t)
       /\ UNCHANGED <<mJobQueue, requestVars, win32Vars>>

ExecuteJobsAsync(t) ==
    /\ At(t, "begin", "dispatch") /\ t \notin storeBuffer
    /\ remainingThreadsCounter' = LOADING_THREADS
    /\ Dispatch({LoadJob(n) : n \in 1 .. LOADING_THREADS})
    /\ Return(t)
    /\ UNCHANGED <<mSubmissionInfoArr, mAssetRequestFinished, loaded, mActive, deleted, win32Vars>>

ExecuteAssetIORequests(t) ==
    /\ At(t, "load", "start")
    /\ Goto(t, "pop", PRIORITY_COUNT)
    /\ UNCHANGED <<mJobQueue, mSubmissionInfoArr, requestVars, win32Vars>>

TryPop(t) ==
    LET p == Top(t).at
    IN /\ At(t, "load", "pop")
       /\ IF p > 0 /\ mRequestQueueArr[p] # <<>>
          THEN /\ Goto(t, "loading", Head(mRequestQueueArr[p]))
               /\ mRequestQueueArr' = [mRequestQueueArr EXCEPT ![p] = Tail(@)]
               /\ UNCHANGED <<mSubmissionInfoArr, remainingThreadsCounter>>
          ELSE /\ UNCHANGED mRequestQueueArr
               /\ IF p > 0
                  THEN Goto(t, "pop", p - 1)
                       /\ UNCHANGED <<mSubmissionInfoArr, remainingThreadsCounter>>
                  ELSE LeaveLoading(t, ActiveRequests) /\ Return(t)
       /\ UNCHANGED <<mJobQueue, mAssetRequestFinished, loaded, mActive, deleted,
                      mActiveRequestCounter, mActiveRequestsExist, overtaken, storeBuffer>>

Win32Step(t) ==
    \/ Finalize(t) \/ PushBack(t) \/ AddActiveBuilder(t) \/ StoreTrue(t)
    \/ LoadAssetData(t) \/ NotifyForAssetIORequestCompletion(t)
    \/ BeginAssetLoading(t) \/ IsEmpty(t) \/ ExecuteJobsAsync(t)
    \/ ExecuteAssetIORequests(t) \/ TryPop(t)
=============================================================================
