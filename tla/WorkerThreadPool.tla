-------------------------- MODULE WorkerThreadPool --------------------------
(***************************************************************************)
(* Brawler::WorkerThreadPool and the main loop of its WorkerThreads: who   *)
(* takes the jobs, who sleeps on mJobQueueNotifier and who is woken, how   *)
(* an exception reaches the main thread, and how the pool is destroyed.    *)
(*                                                                         *)
(* A job queue is the bounded FIFO queue that ThreadSafeQueue is shown to  *)
(* implement; each TryPop, PushBack, load, store and notification is a     *)
(* step.  What a job does is left open: it may dispatch other jobs, return *)
(* or throw.  What it may wait for is the subject of module JobSystem.     *)
(***************************************************************************)
EXTENDS Integers, Sequences, FiniteSets

CONSTANTS Workers,              \* the WorkerThreads
          Main,                 \* the thread that owns the pool
          Jobs,                 \* bound: each is dispatched at most once
          NoJob,
          Priority,             \* job -> JobPriority, the highest searched first
          JOB_QUEUE_SIZE,
          EXCEPTION_QUEUE_SIZE

Threads       == Workers \cup {Main}
NumPriorities == 2              \* bound: the code has four, all alike
Priorities    == 0 .. NumPriorities - 1
Highest       == NumPriorities - 1

PoolAssumption ==
    /\ Main \notin Workers
    /\ NoJob \notin Jobs
    /\ IsFiniteSet(Workers)
    /\ Priority \in [Jobs -> Priorities]
    /\ JOB_QUEUE_SIZE \in Nat \ {0}
    /\ EXCEPTION_QUEUE_SIZE \in Nat \ {0}

VARIABLES
    mJobQueueArr,           \* priority -> the jobs in that queue
    mJobQueueNotifier,
    mExceptionPtrQueue,     \* the threads whose exceptions wait for Main
    mInitialized,
    mActive,
    mKeepGoing,             \* worker -> not yet killed?
    pc,
    previousJobQueueNotifierValue,   \* worker -> value loaded before it looked
    searched,               \* thread -> the priority TryPop looks at next
    stack,                  \* thread -> the jobs it is inside of, innermost last
    inHand,                 \* thread -> the job DispatchJob could not queue
    undispatched            \* the jobs nobody has dispatched so far

queueVars  == <<mJobQueueArr, undispatched>>
flagVars   == <<mInitialized, mActive, mKeepGoing>>
searchVars == <<previousJobQueueNotifierValue, searched>>
vars == <<mJobQueueArr, mJobQueueNotifier, mExceptionPtrQueue, mInitialized,
          mActive, mKeepGoing, pc, previousJobQueueNotifierValue, searched,
          stack, inHand, undispatched>>

QueueFull(p) == Len(mJobQueueArr[p]) = JOB_QUEUE_SIZE

Goto(t, step) == pc' = [pc EXCEPT ![t] = step]

Asleep == {w \in Workers : pc[w] = "asleep"}
Exited == {w \in Workers : pc[w] = "exited"}

------------------------------------------------------------------------------
\* The constructor has returned: every WorkerThread waits for SetInitialized.
Init ==
    /\ mJobQueueArr = [p \in Priorities |-> <<>>]
    /\ mJobQueueNotifier = 0
    /\ mExceptionPtrQueue = <<>>
    /\ mInitialized = FALSE
    /\ mActive = TRUE
    /\ mKeepGoing = [w \in Workers |-> TRUE]
    /\ pc = [t \in Threads |-> IF t = Main THEN "app" ELSE "init"]
    /\ previousJobQueueNotifierValue = [w \in Workers |-> 0]
    /\ searched = [t \in Threads |-> Highest]
    /\ stack = [t \in Threads |-> <<>>]
    /\ inHand = [t \in Threads |-> NoJob]
    /\ undispatched = Jobs

(***************************************************************************)
(* DispatchJob, called by the application on Main or by a running job.     *)
(***************************************************************************)
DispatchPush(t) ==
    /\ pc[t] \in {"app", "run"}
    /\ \E j \in undispatched :
          LET p == Priority[j]
          IN  /\ mJobQueueArr' = IF QueueFull(p) THEN mJobQueueArr
                                 ELSE [mJobQueueArr EXCEPT ![p] = Append(@, j)]
              /\ inHand' = [inHand EXCEPT ![t] = IF QueueFull(p) THEN j ELSE NoJob]
              /\ undispatched' = undispatched \ {j}
    /\ Goto(t, "notify")
    /\ UNCHANGED <<mJobQueueNotifier, mExceptionPtrQueue, flagVars,
                   searchVars, stack>>

\* Mutant: the waiting threads are notified of an unchanged value.
DispatchNotifyUnchanged(t) ==
    /\ pc[t] = "notify"
    /\ Goto(t, "wake")
    /\ UNCHANGED <<queueVars, mJobQueueNotifier, mExceptionPtrQueue, flagVars,
                   searchVars, stack, inHand>>

DispatchNotify(t) ==
    /\ pc[t] = "notify"
    /\ mJobQueueNotifier' = mJobQueueNotifier + 1
    /\ Goto(t, "wake")
    /\ UNCHANGED <<queueVars, mExceptionPtrQueue, flagVars, searchVars, stack,
                   inHand>>

\* The sleepers in woken look at the notifier again, and t goes on.
Wake(t, woken, step) ==
    pc' = [u \in Threads |-> IF u = t THEN step
                             ELSE IF u \in woken THEN "wait" ELSE pc[u]]

\* notify_one, for a job that is in its queue.
DispatchWakeOne(t) ==
    /\ pc[t] = "wake"
    /\ inHand[t] = NoJob
    /\ LET step == IF stack[t] = <<>> THEN "app" ELSE "run"
       IN  IF Asleep = {} THEN Goto(t, step)
                          ELSE \E w \in Asleep : Wake(t, {w}, step)
    /\ UNCHANGED <<queueVars, mJobQueueNotifier, mExceptionPtrQueue, flagVars,
                   searchVars, stack, inHand>>

\* notify_all, and the job the full queue refused is executed on the spot.
DispatchWakeAll(t) ==
    /\ pc[t] = "wake"
    /\ inHand[t] # NoJob
    /\ Wake(t, Asleep, "run")
    /\ stack' = [stack EXCEPT ![t] = Append(@, inHand[t])]
    /\ inHand' = [inHand EXCEPT ![t] = NoJob]
    /\ UNCHANGED <<queueVars, mJobQueueNotifier, mExceptionPtrQueue, flagVars,
                   searchVars>>

(***************************************************************************)
(* AcquireQueuedJob: one TryPop after the other, by decreasing priority.   *)
(***************************************************************************)
AcquirePop(t) ==
    LET p == searched[t]
    IN  /\ pc[t] = "search"
        /\ mJobQueueArr[p] # <<>>
        /\ mJobQueueArr' = [mJobQueueArr EXCEPT ![p] = Tail(@)]
        /\ stack' = [stack EXCEPT ![t] = <<Head(mJobQueueArr[p])>>]
        /\ Goto(t, "run")
        /\ UNCHANGED <<mJobQueueNotifier, mExceptionPtrQueue, flagVars,
                       searchVars, inHand, undispatched>>

AcquireNext(t) ==
    /\ pc[t] = "search"
    /\ mJobQueueArr[searched[t]] = <<>>
    /\ IF searched[t] > 0
       THEN searched' = [searched EXCEPT ![t] = @ - 1] /\ UNCHANGED pc
       ELSE Goto(t, IF t = Main THEN "app" ELSE "wait") /\ UNCHANGED searched
    /\ UNCHANGED <<queueVars, mJobQueueNotifier, mExceptionPtrQueue, flagVars,
                   previousJobQueueNotifierValue, stack, inHand>>

(***************************************************************************)
(* A job returns, or throws an exception that leaves Job::Execute and      *)
(* unwinds every job the thread was inside of.                             *)
(***************************************************************************)
JobReturns(t) ==
    LET outer == SubSeq(stack[t], 1, Len(stack[t]) - 1)
    IN  /\ pc[t] = "run"
        /\ stack' = [stack EXCEPT ![t] = outer]
        /\ Goto(t, IF outer # <<>> THEN "run"
                   ELSE IF t = Main THEN "app" ELSE "loop")
        /\ UNCHANGED <<queueVars, mJobQueueNotifier, mExceptionPtrQueue,
                       flagVars, searchVars, inHand>>

JobThrows(t) ==
    /\ pc[t] = "run"
    /\ stack' = [stack EXCEPT ![t] = <<>>]
    /\ Goto(t, IF t = Main THEN "dtor" ELSE "catch")
    /\ UNCHANGED <<queueVars, mJobQueueNotifier, mExceptionPtrQueue, flagVars,
                   searchVars, inHand>>

(***************************************************************************)
(* WorkerThread::ExecuteMainLoop.                                          *)
(***************************************************************************)
WorkerStart(w) ==
    /\ pc[w] = "init"
    /\ mInitialized
    /\ Goto(w, "loop")
    /\ UNCHANGED <<queueVars, mJobQueueNotifier, mExceptionPtrQueue, flagVars,
                   searchVars, stack, inHand>>

WorkerLoop(w) ==
    /\ pc[w] = "loop"
    /\ Goto(w, IF mKeepGoing[w] /\ mActive THEN "load" ELSE "exited")
    /\ UNCHANGED <<queueVars, mJobQueueNotifier, mExceptionPtrQueue, flagVars,
                   searchVars, stack, inHand>>

WorkerLoad(w) ==
    /\ pc[w] = "load"
    /\ previousJobQueueNotifierValue' =
          [previousJobQueueNotifierValue EXCEPT ![w] = mJobQueueNotifier]
    /\ searched' = [searched EXCEPT ![w] = Highest]
    /\ Goto(w, "search")
    /\ UNCHANGED <<queueVars, mJobQueueNotifier, mExceptionPtrQueue, flagVars,
                   stack, inHand>>

\* std::atomic::wait: the notifier is compared and the sleep begun as one.
WaitForJobDispatch(w) ==
    /\ pc[w] = "wait"
    /\ Goto(w, IF mJobQueueNotifier = previousJobQueueNotifierValue[w]
               THEN "asleep" ELSE "loop")
    /\ UNCHANGED <<queueVars, mJobQueueNotifier, mExceptionPtrQueue, flagVars,
                   searchVars, stack, inHand>>

\* The catch block: the exception is left for Main, or dropped, and the worker
\* stops.
ReThrowException(w) ==
    /\ pc[w] = "catch"
    /\ IF Len(mExceptionPtrQueue) < EXCEPTION_QUEUE_SIZE
       THEN mExceptionPtrQueue' = Append(mExceptionPtrQueue, w)
       ELSE UNCHANGED mExceptionPtrQueue
    /\ mKeepGoing' = [mKeepGoing EXCEPT ![w] = FALSE]
    /\ Goto(w, "loop")
    /\ UNCHANGED <<queueVars, mJobQueueNotifier, mInitialized, mActive,
                   searchVars, stack, inHand>>

(***************************************************************************)
(* The main thread.                                                        *)
(***************************************************************************)
SetInitialized ==
    /\ pc[Main] = "app"
    /\ ~mInitialized
    /\ mInitialized' = TRUE
    /\ UNCHANGED <<queueVars, mJobQueueNotifier, mExceptionPtrQueue, mActive,
                   mKeepGoing, pc, searchVars, stack, inHand>>

\* AcquireQueuedJob on Main begins with HandleThrownExceptions; an exception
\* it rethrows unwinds the application down to the pool's destructor.  The
\* applications call SetInitialized before they wait for any job.
HandleThrownExceptions ==
    /\ pc[Main] = "app"
    /\ mInitialized
    /\ IF mExceptionPtrQueue = <<>>
       THEN /\ Goto(Main, "search")
            /\ searched' = [searched EXCEPT ![Main] = Highest]
            /\ UNCHANGED mExceptionPtrQueue
       ELSE /\ Goto(Main, "dtor")
            /\ mExceptionPtrQueue' = Tail(mExceptionPtrQueue)
            /\ UNCHANGED searched
    /\ UNCHANGED <<queueVars, mJobQueueNotifier, flagVars,
                   previousJobQueueNotifierValue, stack, inHand>>

ApplicationEnds ==
    /\ pc[Main] = "app"
    /\ Goto(Main, "dtor")
    /\ UNCHANGED <<queueVars, mJobQueueNotifier, mExceptionPtrQueue, flagVars,
                   searchVars, stack, inHand>>

(***************************************************************************)
(* The destructor.                                                         *)
(***************************************************************************)
Deactivate ==
    /\ pc[Main] = "dtor"
    /\ mActive' = FALSE
    /\ Goto(Main, "kill")
    /\ UNCHANGED <<queueVars, mJobQueueNotifier, mExceptionPtrQueue,
                   mInitialized, mKeepGoing, searchVars, stack, inHand>>

KillThreads ==
    /\ pc[Main] = "kill"
    /\ mInitialized' = TRUE
    /\ mKeepGoing' = [w \in Workers |-> FALSE]
    /\ Goto(Main, "advance")
    /\ UNCHANGED <<queueVars, mJobQueueNotifier, mExceptionPtrQueue, mActive,
                   searchVars, stack, inHand>>

AdvanceNotifier ==
    /\ pc[Main] = "advance"
    /\ mJobQueueNotifier' = mJobQueueNotifier + 1
    /\ Goto(Main, "notifyAll")
    /\ UNCHANGED <<queueVars, mExceptionPtrQueue, flagVars, searchVars, stack,
                   inHand>>

NotifyAll ==
    /\ pc[Main] = "notifyAll"
    /\ Wake(Main, Asleep, "join")
    /\ UNCHANGED <<queueVars, mJobQueueNotifier, mExceptionPtrQueue, flagVars,
                   searchVars, stack, inHand>>

Join ==
    /\ pc[Main] = "join"
    /\ Exited = Workers
    /\ Goto(Main, "ended")
    /\ UNCHANGED <<queueVars, mJobQueueNotifier, mExceptionPtrQueue, flagVars,
                   searchVars, stack, inHand>>

------------------------------------------------------------------------------
Dispatch(t)   == \/ DispatchPush(t) \/ DispatchNotify(t)
                 \/ DispatchWakeOne(t) \/ DispatchWakeAll(t)
Execute(t)    == AcquirePop(t) \/ AcquireNext(t) \/ JobReturns(t) \/ JobThrows(t)
WorkerStep(w) == \/ WorkerStart(w) \/ WorkerLoop(w) \/ WorkerLoad(w)
                 \/ WaitForJobDispatch(w) \/ ReThrowException(w)
                 \/ Dispatch(w) \/ Execute(w)
Destroy       == Deactivate \/ KillThreads \/ AdvanceNotifier \/ NotifyAll \/ Join
MainStep      == \/ SetInitialized \/ HandleThrownExceptions \/ ApplicationEnds
                 \/ Dispatch(Main) \/ Execute(Main) \/ Destroy

Next == MainStep \/ \E w \in Workers : WorkerStep(w)

Spec == Init /\ [][Next]_vars

\* Every worker keeps being scheduled, and so is Main inside the pool's code
\* or a job; what the application does between two calls is its own affair.
MainGoesOn == MainStep /\ pc[Main] # "app"
FairSpec == /\ Spec
            /\ \A w \in Workers : WF_vars(WorkerStep(w))
            /\ WF_vars(MainGoesOn)
            /\ WF_vars(SetInitialized)

------------------------------------------------------------------------------
QueuedJobs  == UNION {{mJobQueueArr[p][k] : k \in 1 .. Len(mJobQueueArr[p])} :
                      p \in Priorities}
\* A job that has been dispatched does not stay in its queue for ever, even if
\* Main never helps, unless the pool is destroyed or every worker has thrown.
JobIsTaken(j) ==
    j \in QueuedJobs ~> (j \notin QueuedJobs \/ ~mActive \/ Exited = Workers)
QueuedJobIsTaken == \A j \in Jobs : JobIsTaken(j)

\* Once the flags are down, the destructor's notification makes every worker
\* exit, wherever it is, but one that has passed the test of its loop and has
\* not loaded the notifier yet.
DestructorStops(w) == (pc[Main] = "advance" /\ pc[w] # "load") ~> pc[w] = "exited"
DestructorStopsWorkers == \A w \in Workers : DestructorStops(w)
=============================================================================
