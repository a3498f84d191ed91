------------------------------ MODULE AssetIO ------------------------------
(***************************************************************************)
(* The AssetManager: it has one of the two handlers, DirectStorage's if the *)
(* system has it.  The application's thread enqueues asset dependencies,    *)
(* whose requests are prepared by jobs, and calls SubmitAssetIORequests     *)
(* every update; the threads execute jobs.                                  *)
(***************************************************************************)
EXTENDS Win32AssetIO, DirectStorageAssetIO

CONSTANTS Main

ASSUME AssetIOAssumption == Main \in Threads

VARIABLES mRequestHandlerPtr,
          requested,    \* the dependencies passed to EnqueueAssetDependency
          submitting    \* where the application is in SubmitAssetIORequests, or 0

managerVars == <<mRequestHandlerPtr, requested, submitting>>
vars == <<jobVars, requestVars, win32Vars, directVars, managerVars>>

\* The handler delays its first job on the thread that creates it, which is the
\* first to ask for the AssetManager.
Init ==
    /\ JobsInit /\ RequestsInit /\ Win32Init /\ DirectInit
    /\ requested = {} /\ submitting = 0
    /\ mRequestHandlerPtr \in {"DirectStorage", "Win32"}
    /\ mSubmissionInfoArr =
          [t \in Threads |->
              IF t # Main THEN <<>>
              ELSE <<[event |-> IF mRequestHandlerPtr = "Win32" THEN ActiveRequests
                                                                ELSE Decompression,
                      job |-> BeginLoading]>>]

IsEventCompleted(t, event) ==
    CASE event.kind = "active requests" -> IsActiveRequestsCompleted(t)
      [] event.kind = "decompression"   -> decompressionEvent
      [] event.kind = "status"          -> IsStatusOk(event.priority, event.index)

-----------------------------------------------------------------------------
(* The application. *)

EnqueueAssetDependency(d) ==
    /\ submitting = 0 /\ stack[Main] = <<>>
    /\ d \notin requested
    /\ requested' = requested \cup {d}
    /\ Dispatch({Prepare(d)})
    /\ UNCHANGED <<stack, mSubmissionInfoArr, requestVars, win32Vars, directVars,
                   mRequestHandlerPtr, submitting>>

\* The application executes jobs between two updates, and so looks at its events.
BeginSubmit ==
    /\ submitting = 0 /\ stack[Main] = <<>>
    /\ \A i \in DOMAIN mSubmissionInfoArr[Main] :
          ~ IsEventCompleted(Main, mSubmissionInfoArr[Main][i].event)
    /\ submitting' = IF mRequestHandlerPtr = "Win32" THEN PRIORITY_COUNT + 1 ELSE 1
    /\ UNCHANGED <<jobVars, requestVars, win32Vars, directVars, mRequestHandlerPtr, requested>>

SubmitQueue ==
    /\ submitting \in Priorities
    /\ Submit(submitting)
    /\ submitting' = submitting + 1
    /\ UNCHANGED <<win32Vars, mRequestHandlerPtr, requested>>

ClearCompletedRequests ==
    /\ submitting = PRIORITY_COUNT + 1
    /\ EraseIfReady
    /\ submitting' = 0
    /\ UNCHANGED <<win32Vars, directVars, mRequestHandlerPtr, requested>>

SubmitAssetIORequests == BeginSubmit \/ SubmitQueue \/ ClearCompletedRequests

-----------------------------------------------------------------------------
(* The threads. *)

InJobs(t) == t = Main => submitting = 0

ExecuteJob(t) ==
    \/ /\ InJobs(t) /\ t \notin storeBuffer
       /\ AcquireQueuedJob(t)
       /\ UNCHANGED <<requestVars, win32Vars, directVars, managerVars>>
    \/ /\ mRequestHandlerPtr = "Win32"
       /\ Win32Step(t) /\ UNCHANGED <<directVars, managerVars>>
    \/ /\ mRequestHandlerPtr = "DirectStorage"
       /\ DirectStep(t) /\ UNCHANGED <<win32Vars, managerVars>>

\* The event of DirectStorage is reset by the thread that sees it set.
CheckDelayedJobs(t) ==
    \E i \in DOMAIN mSubmissionInfoArr[t] :
        LET event == mSubmissionInfoArr[t][i].event
        IN /\ InJobs(t) /\ t \notin storeBuffer
           /\ IsEventCompleted(t, event)
           /\ CheckForDelayedJobSubmission(t, i)
           /\ decompressionEvent' = (decompressionEvent /\ event # Decompression)
           /\ UNCHANGED <<requestVars, win32Vars, mNumStatusArrayEntriesCompleted, queueVars,
                          submitted, read, decompression, managerVars>>

DirectStorage == /\ \E r \in Requests : ReadFromFile(r)
                 /\ UNCHANGED <<win32Vars, managerVars>>
Drain == StoreBufferDrains /\ UNCHANGED <<directVars, managerVars>>

Next == \/ \E d \in Dependencies : EnqueueAssetDependency(d)
        \/ SubmitAssetIORequests
        \/ \E t \in Threads : ExecuteJob(t) \/ CheckDelayedJobs(t)
        \/ DirectStorage
        \/ Drain

\* Threads execute jobs and look at their events, the application goes on with
\* its updates, DirectStorage works, and stores become visible.
Fairness == /\ \A t \in Threads : WF_vars(ExecuteJob(t)) /\ WF_vars(CheckDelayedJobs(t))
            /\ WF_vars(SubmitAssetIORequests) /\ WF_vars(DirectStorage) /\ WF_vars(Drain)

AssetSpec == Init /\ [][Next]_vars /\ Fairness

-----------------------------------------------------------------------------
\* The object a handler keeps for a dependency is deleted only when nothing
\* refers to it: no request in a queue or being loaded, no job, no delayed job.
RefersTo(job, d) == "dependency" \in DOMAIN job /\ job.dependency = d
IsLoading(frame) == /\ frame.job.kind = "load"
                    /\ frame.pc \in {"loading", "notify", "decompress"}
NothingDangles ==
    \A d \in deleted :
        /\ \A p \in Priorities : \A i \in DOMAIN mRequestQueueArr[p] :
              mRequestQueueArr[p][i] \notin Of(d)
        /\ \A job \in mJobQueue : ~ RefersTo(job, d)
        /\ \A t \in Threads :
              /\ \A i \in DOMAIN mSubmissionInfoArr[t] :
                    ~ RefersTo(mSubmissionInfoArr[t][i].job, d)
              /\ \A i \in DOMAIN stack[t] :
                    /\ RefersTo(stack[t][i].job, d) =>
                          stack[t][i].job.kind = "prepare" /\ stack[t][i].pc = "store"
                    /\ IsLoading(stack[t][i]) => stack[t][i].at \notin Of(d)

\* The event of a dependency is complete only when all its data is in memory,
\* and its object goes only when nobody needs it any more.
DependencyOutlivesItsLoading ==
    /\ \A d \in mAssetRequestFinished : Of(d) \subseteq loaded
    /\ NothingDangles

\* There is always exactly one of: the delayed job that starts the loading, that
\* job itself, and the jobs it started.  Two would have one event between them,
\* and none would leave every later request waiting.
Starts(jobs) == {i \in DOMAIN jobs : jobs[i].job = BeginLoading}
Circulating ==
    (UNION {{<<t, "delayed", i>> : i \in Starts(mSubmissionInfoArr[t])} : t \in Threads})
    \cup (UNION {{<<t, "begins", i>> : i \in {k \in Starts(stack[t]) : stack[t][k].pc # "wait"}} :
                    t \in Threads})
    \cup ({BeginLoading} \cap mJobQueue)
OneLoader ==
    Cardinality(Circulating) + (IF remainingThreadsCounter > 0 THEN 1 ELSE 0) = 1

\* Every dependency that is enqueued is answered.  With the Win32 handler this
\* supposes that the relaxed store of BeginAssetLoading is not overtaken by a store
\* of true: the request of that store may not be seen until there is another.
EveryRequestCompletes ==
    []<>(requested \subseteq mAssetRequestFinished \/ overtaken)
=============================================================================
