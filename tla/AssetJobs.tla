----------------------------- MODULE AssetJobs -----------------------------
(***************************************************************************)
(* What the two handlers of asset I/O requests share: the jobs they are     *)
(* made of, asset dependencies, each a list of requests with priorities,    *)
(* the event a dependency is answered with (AssetRequestEventHandle), and   *)
(* the data in memory.                                                      *)
(*                                                                         *)
(* Jobs may be delayed: a thread keeps the jobs it delays in a              *)
(* DelayedJobSubmitter of its own, with the event each waits for.  It looks *)
(* at the events when it starts a job and when it has none, and dispatches  *)
(* the jobs of the events that are complete.  A thread that waits for a     *)
(* JobGroup executes other jobs meanwhile, so that each thread has a stack  *)
(* of jobs.                                                                 *)
(*                                                                         *)
(* The pool is what WorkerThreadPool and ThreadSafeQueue show it to be, a   *)
(* store of jobs that loses none.  The priorities of jobs are left out (a   *)
(* thread may take any), and the pool's queues are never full.              *)
(***************************************************************************)
EXTENDS Naturals, Sequences, FiniteSets

CONSTANTS Threads

VARIABLES mJobQueue,            \* the jobs dispatched and not yet taken
          stack,                \* by thread: the jobs it executes, the last one on top
          mSubmissionInfoArr    \* by thread: the delayed jobs and their events

jobVars == <<mJobQueue, stack, mSubmissionInfoArr>>

JobsInit == /\ mJobQueue = {}
            /\ stack = [t \in Threads |-> <<>>]

\* A job in execution: where it is, and how far in a loop.  "left" is the counter
\* of the JobGroup the job waits for.
Frame(job) == [job |-> job, pc |-> "start", at |-> 0, left |-> 0]
Top(t) == stack[t][Len(stack[t])]
At(t, kind, pc) == /\ stack[t] # <<>>
                   /\ Top(t).job.kind = kind /\ Top(t).pc = pc
Goto(t, pc, at) ==
    stack' = [stack EXCEPT ![t][Len(stack[t])].pc = pc, ![t][Len(stack[t])].at = at]
Loop(t) == stack' = [stack EXCEPT ![t][Len(stack[t])].at = @ + 1]

\* DispatchJob, for some jobs.
Dispatch(jobs) == mJobQueue' = mJobQueue \cup jobs

\* ExecuteJobs: the jobs of a group name the frame that waits for them.
ExecuteJobs(t, jobs) ==
    /\ stack' = [stack EXCEPT ![t][Len(stack[t])].pc = "wait",
                              ![t][Len(stack[t])].left = Cardinality(jobs)]
    /\ Dispatch(jobs)

\* AcquireQueuedJob, by a thread without a job or one that waits for a group.
AcquireQueuedJob(t) ==
    /\ stack[t] # <<>> => Top(t).pc = "wait" /\ Top(t).left > 0
    /\ \E job \in mJobQueue :
          /\ mJobQueue' = mJobQueue \ {job}
          /\ stack' = [stack EXCEPT ![t] = Append(@, Frame(job))]
    /\ UNCHANGED mSubmissionInfoArr

\* The callback is over.
Return(t) == stack' = [stack EXCEPT ![t] = SubSeq(@, 1, Len(@) - 1)]
\* The same for a job of a group somebody waits for: its counter goes down.
ReturnTo(t, waiter, depth) ==
    stack' = [s \in Threads |->
                 LET own == IF s = t THEN SubSeq(stack[s], 1, Len(stack[s]) - 1) ELSE stack[s]
                 IN IF s = waiter THEN [own EXCEPT ![depth].left = @ - 1] ELSE own]

\* SubmitDelayedJobs: the job stays with the thread.
Delay(t, event, job) ==
    mSubmissionInfoArr' =
        [mSubmissionInfoArr EXCEPT ![t] = Append(@, [event |-> event, job |-> job])]

\* CheckForDelayedJobSubmissions, at the start of Job::Execute and in the main
\* loop of a worker, for one submission.  One that is left alone although its
\* event is complete was looked at before that.
CanCheck(t) == stack[t] # <<>> => Top(t).pc = "start"
CheckForDelayedJobSubmission(t, i) ==
    /\ CanCheck(t)
    /\ Dispatch({mSubmissionInfoArr[t][i].job})
    /\ mSubmissionInfoArr' =
          [mSubmissionInfoArr EXCEPT
              ![t] = SubSeq(@, 1, i - 1) \o SubSeq(@, i + 1, Len(@))]
    /\ UNCHANGED stack

-----------------------------------------------------------------------------
(* Asset dependencies. *)

CONSTANTS Dependencies, Requests,
          RequestsOf,       \* by dependency: its requests, from the lowest priority
          Priority,         \* by request
          PRIORITY_COUNT,
          LOADING_THREADS   \* of the AssetLoadingMode

Priorities == 1 .. PRIORITY_COUNT

\* A request is in one container of one builder.
ASSUME AssetRequestsAssumption ==
    /\ RequestsOf \in [Dependencies -> Seq(Requests)]
    /\ Priority \in [Requests -> Priorities]
    /\ LOADING_THREADS \in Nat \ {0} /\ PRIORITY_COUNT \in Nat \ {0}
    /\ \A d, e \in Dependencies : \A i \in DOMAIN RequestsOf[d], j \in DOMAIN RequestsOf[e] :
          RequestsOf[d][i] = RequestsOf[e][j] => d = e /\ i = j
    /\ \A d \in Dependencies : \A i, j \in DOMAIN RequestsOf[d] :
          i < j => Priority[RequestsOf[d][i]] <= Priority[RequestsOf[d][j]]

VARIABLES mAssetRequestFinished,   \* the dependencies whose event is complete
          loaded,                  \* the requests whose data is in memory
          mActive,                 \* the dependencies a handler keeps an object for
          deleted,                 \* those whose object it has deleted
          remainingThreadsCounter  \* of the jobs of the last JobGroup that loads data

requestVars == <<mAssetRequestFinished, loaded, mActive, deleted, remainingThreadsCounter>>

RequestsInit == /\ mAssetRequestFinished = {} /\ loaded = {}
                /\ mActive = {} /\ deleted = {}
                /\ remainingThreadsCounter = 0

Of(d) == {RequestsOf[d][i] : i \in DOMAIN RequestsOf[d]}
DependencyOf(r) == CHOOSE d \in Dependencies : r \in Of(d)

Prepare(d)   == [kind |-> "prepare", dependency |-> d]
BeginLoading == [kind |-> "begin"]

\* The last of the jobs to find nothing more to load delays the job that will
\* start them again, until there is work.
EveryThread == TRUE   \* mutant
LastThread == remainingThreadsCounter = 1
LeaveLoading(t, event) ==
    /\ remainingThreadsCounter' = remainingThreadsCounter - 1
    /\ IF LastThread THEN Delay(t, event, BeginLoading) ELSE UNCHANGED mSubmissionInfoArr

\* EraseIf, under the lock of the array.
LoadedIsEnough == {d \in mActive : Of(d) \subseteq loaded}   \* mutant
ReadyForDeletion == {d \in mActive : d \in mAssetRequestFinished}
EraseIfReady ==
    /\ mActive' = mActive \ ReadyForDeletion
    /\ deleted' = deleted \cup ReadyForDeletion
    /\ UNCHANGED <<jobVars, mAssetRequestFinished, loaded, remainingThreadsCounter>>
=============================================================================
